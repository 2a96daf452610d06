------------------------------- MODULE WsFrame -------------------------------
(***************************************************************************)
(* WebSocketFramer::frame_message (websocket_framer.h): the encoder of a   *)
(* client WebSocket frame into a caller's buffer, as a pure operator, and  *)
(* the RFC 6455 (section 5.2) reading of a frame it is checked against.    *)
(*                                                                         *)
(* The buffer is the sequence of bytes the encoder writes. An integer the  *)
(* code memcpy's into it is its memory image on the little-endian x86      *)
(* host; rte_cpu_to_be_16/64 swap the bytes of that image. The masking key *)
(* is the low 32 bits of the timer, copied the same way.                   *)
(***************************************************************************)
EXTENDS Naturals, Sequences, SequencesExt, Bitwise

\* The w bytes of an unsigned integer in memory on the host, lowest first.
RECURSIVE HostBytes(_, _)
HostBytes(v, w) ==
  IF w = 0 THEN <<>> ELSE <<v % 256>> \o HostBytes(v \div 256, w - 1)

\* Variant of CpuToBe for a host where the conversion is a no-op.
CpuToBeNoSwap(img) == img

\* rte_cpu_to_be_16 / rte_cpu_to_be_64 on a little-endian host: the image
\* of the result is the image of the argument, reversed.
CpuToBe(img) == Reverse(img)

\* The header length frame_message computes before it writes anything.
HeaderLen(n, mask) ==
  2 + (IF n >= 126 THEN (IF n <= 65535 THEN 2 ELSE 8) ELSE 0)
    + (IF mask THEN 4 ELSE 0)

\* The second byte and the extended length: 7 bits below 126, then 126 and
\* a memcpy of the 16-bit big-endian length, or 127 and the 64-bit one.
LenField(n, mb) ==
  IF n < 126 THEN <<mb + (n % 128)>>
  ELSE IF n <= 65535 THEN <<mb + 126>> \o CpuToBe(HostBytes(n, 2))
  ELSE <<mb + 127>> \o CpuToBe(HostBytes(n, 8))

\* frame_message(buffer, buffer_len, payload, opcode, mask) with the timer
\* reading tsc (its low 32 bits): the return value and the bytes written.
\* It returns 0 and writes nothing when the frame does not fit.
FrameMessage(buflen, payload, opcode, mask, tsc) ==
  LET n   == Len(payload)
      mb  == IF mask THEN 128 ELSE 0
      key == HostBytes(tsc, 4)
      body == IF mask
              THEN [i \in 1 .. n |-> payload[i] ^^ key[((i - 1) % 4) + 1]]
              ELSE payload
  IN IF HeaderLen(n, mask) + n > buflen
     THEN [ret |-> 0, buf |-> <<>>]
     ELSE [ret |-> HeaderLen(n, mask) + n,
           buf |-> <<128 + (opcode % 16)>> \o LenField(n, mb)
                   \o (IF mask THEN key ELSE <<>>) \o body]

\* Bytes a .. b of buf, reading past its end as zeros.
Octets(buf, a, b) ==
  [k \in 1 .. b - a + 1 |-> IF a + k - 1 <= Len(buf) THEN buf[a + k - 1] ELSE 0]

-----------------------------------------------------------------------------
(* WebSocketClient::process_websocket_frame (websocket_client.cpp): the    *)
(* client's reading of one frame from a decrypted buffer, up to the        *)
(* opcode dispatch.                                                                *)

\* The value of an integer whose memory image on the host is img.
RECURSIVE HostValue(_)
HostValue(img) == IF img = <<>> THEN 0 ELSE Head(img) + 256 * HostValue(Tail(img))

\* What process_websocket_frame returns without dispatching anything.
NoMessage == [ok |-> FALSE, fin |-> FALSE, opcode |-> 0, payload |-> <<>>]

\* The header as process_websocket_frame decodes it: the mask bit, the
\* size of the extended length, the 7-bit length or rte_be_to_cpu_16/64 of
\* the extended one, and where the key and the payload start.
FrameHead(data) ==
  LET l7  == data[2] % 128
      ext == CASE l7 <= 125 -> 0 [] l7 = 126 -> 2 [] OTHER -> 8
  IN [masked |-> data[2] >= 128,
      ext    |-> ext,
      plen   |-> CASE l7 <= 125 -> l7
                   [] l7 = 126 -> HostValue(CpuToBe(Octets(data, 3, 4)))
                   [] OTHER    -> HostValue(CpuToBe(Octets(data, 3, 10))),
      koff   |-> 2 + ext,
      poff   |-> 2 + ext + (IF data[2] >= 128 THEN 4 ELSE 0)]

\* Variant of FrameComplete that leaves the key out of the sum.
FrameCompleteNoKey(data, h) == Len(data) >= h.koff + h.plen

\* The last check: key and payload are all in the buffer.
FrameComplete(data, h) == Len(data) >= h.poff + h.plen

\* process_websocket_frame(data, len): nothing below two bytes, before the
\* extended length, or unless the frame is complete; else the payload
\* unmasked with masking_key[i % 4], and the opcode it dispatches on.
ParseFrame(data) ==
  IF Len(data) < 2 THEN NoMessage
  ELSE LET h    == FrameHead(data)
           key  == Octets(data, h.koff + 1, h.koff + 4)
           body == Octets(data, h.poff + 1, h.poff + h.plen)
       IN IF Len(data) < h.koff \/ ~FrameComplete(data, h) THEN NoMessage
          ELSE [ok |-> TRUE, fin |-> data[1] >= 128, opcode |-> data[1] % 16,
                payload |-> [i \in 1 .. h.plen |->
                               IF h.masked THEN body[i] ^^ key[((i - 1) % 4) + 1]
                               ELSE body[i]]]

-----------------------------------------------------------------------------
(* RFC 6455, section 5.2: how the server reads a frame                     *)

\* An unsigned integer sent in network byte order.
NetworkOrder(bs) == FoldLeft(LAMBDA acc, b : acc * 256 + b, 0, bs)

\* The header fields of the frame at the start of buf; off is the number
\* of header bytes before the payload.
Rfc6455Header(buf) ==
  LET l7   == buf[2] % 128
      ext  == CASE l7 < 126 -> 0 [] l7 = 126 -> 2 [] OTHER -> 8
      n    == CASE l7 < 126 -> l7
                [] l7 = 126 -> NetworkOrder(Octets(buf, 3, 4))
                [] OTHER    -> NetworkOrder(Octets(buf, 3, 10))
      masked == buf[2] >= 128
  IN [fin     |-> buf[1] >= 128,
      rsv     |-> (buf[1] \div 16) % 8,
      opcode  |-> buf[1] % 16,
      masked  |-> masked,
      len     |-> n,
      minimal |-> (ext = 2 => n >= 126) /\ (ext = 8 => n > 65535),
      key     |-> Octets(buf, 3 + ext, 6 + ext),
      off     |-> 2 + ext + (IF masked THEN 4 ELSE 0)]

\* The payload of a frame whose header is h, unmasked.
Rfc6455Payload(buf, h) ==
  [i \in 1 .. h.len |->
     IF h.masked THEN buf[h.off + i] ^^ h.key[((i - 1) % 4) + 1]
     ELSE buf[h.off + i]]

\* The size of the frame RFC 6455 gives a payload of n bytes.
RfcFrameSize(n, mask) ==
  2 + (CASE n < 126 -> 0 [] n < 65536 -> 2 [] OTHER -> 8)
    + (IF mask THEN 4 ELSE 0) + n

\* The frame RFC 6455 expects for the arguments: FIN set, no RSV bit, the
\* opcode, the mask bit as asked, the payload's length in its shortest
\* encoding, nothing after the payload, and the payload once unmasked.
IsFrameOf(buf, payload, opcode, mask) ==
  /\ Len(buf) >= 2
  /\ LET h == Rfc6455Header(buf)
     IN /\ h.fin /\ h.rsv = 0 /\ h.opcode = opcode % 16
        /\ h.masked = mask /\ h.minimal
        /\ h.len = Len(payload) /\ h.off + h.len = Len(buf)
        /\ Rfc6455Payload(buf, h) = payload

=============================================================================
