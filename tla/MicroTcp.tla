------------------------------ MODULE MicroTcp ------------------------------
(***************************************************************************)
(* MicroTcp (micro_tcp.cpp): the user-space TCP client of the DPDK stack,  *)
(* connected to a venue's server. The client is the code: connect,        *)
(* process_rx (the state machine for one received segment), send_data,     *)
(* create_tcp_packet with its sequence-number bookkeeping, extract_rx_data.*)
(* The server is the environment: a correct TCP peer that answers the SYN, *)
(* streams StreamLen bytes one per segment, then a FIN, and retransmits    *)
(* the oldest unacknowledged segment on a timeout (go-back-N).             *)
(*                                                                         *)
(* Segments travel in two FIFO links. The server-to-client link may lose   *)
(* segments (Faults); retransmissions then bring old segments back.        *)
(*                                                                         *)
(* Sequence numbers are uint32 in the code. TLC's integers stop below 2^31,*)
(* so they are taken modulo 2^SeqBits; the code only adds to them and      *)
(* compares them with == and <, and initial numbers next to the wrap make  *)
(* every comparison of the code cross it as it does at 2^32.               *)
(***************************************************************************)
EXTENDS Naturals, Sequences

CONSTANTS
  SeqBits,              \* width of the sequence space in the model
  ISS,                  \* initial send sequence numbers (rte_rand())
  IRS,                  \* the server's initial sequence numbers
  StreamLen,            \* bytes the server sends
  MAX_RX_BUFFER_SIZE,   \* MicroTcp::MAX_RX_BUFFER_SIZE, in bytes
  MaxSend,              \* bound: send_data calls
  Cap,                  \* bound: segments in flight server-to-client
  MaxLoss,              \* bound: segments lost
  Faults                \* subset of {"lose"}

SeqMod == 2 ^ SeqBits
Add(a, n) == (a + n) % SeqMod          \* uint32 addition

VARIABLES
  state, iss, snd_una, snd_nxt, rcv_nxt, rx_buffer,   \* MicroTcp's fields
  app,                                   \* bytes extract_rx_data handed out
  sent,                                  \* send_data calls so far
  sstate, siss, s_una, s_nxt, s_rcv,     \* the server
  c2s, s2c,                              \* the two links
  lost                                   \* segments lost so far

client == <<state, iss, snd_una, snd_nxt, rcv_nxt, rx_buffer, app, sent>>
server == <<sstate, siss, s_una, s_nxt, s_rcv>>
vars == <<client, server, c2s, s2c, lost>>

\* A segment: its flags, sent_seq, recv_ack and payload. A byte of the
\* server's stream is its position in the stream; the client's bytes are 0.
Seg(flags, seq, ack, data) == [flags |-> flags, seq |-> seq, ack |-> ack, data |-> data]

-----------------------------------------------------------------------------
(* The client (micro_tcp.cpp)                                              *)

\* create_tcp_packet(flags, ...) with no payload: a SYN carries iss_ and
\* acknowledges nothing; any other segment carries snd_nxt_ and rcv_nxt_.
CreatePacket(flags, rn) ==
  IF "SYN" \in flags THEN Seg(flags, iss, 0, <<>>)
  ELSE Seg(flags, snd_nxt, rn, <<>>)

Init ==
  /\ state = "CLOSED"
  /\ iss \in ISS
  /\ snd_una = 0 /\ snd_nxt = iss /\ rcv_nxt = 0
  /\ rx_buffer = <<>> /\ app = <<>> /\ sent = 0
  /\ sstate = "LISTEN" /\ siss \in IRS
  /\ s_una = 0 /\ s_nxt = 0 /\ s_rcv = 0
  /\ c2s = <<>> /\ s2c = <<>> /\ lost = 0

\* connect: CLOSED -> SYN_SENT and a SYN; the SYN consumes one number.
Connect ==
  /\ state = "CLOSED"
  /\ state' = "SYN_SENT"
  /\ c2s' = Append(c2s, CreatePacket({"SYN"}, 0))
  /\ snd_nxt' = Add(snd_nxt, 1)
  /\ UNCHANGED <<iss, snd_una, rcv_nxt, rx_buffer, app, sent, server, s2c, lost>>

\* send_data: only when ESTABLISHED; PSH|ACK with one byte, which
\* update_snd_nxt counts.
SendData ==
  /\ state = "ESTABLISHED"
  /\ sent < MaxSend
  /\ sent' = sent + 1
  /\ c2s' = Append(c2s, Seg({"PSH", "ACK"}, snd_nxt, rcv_nxt, <<0>>))
  /\ snd_nxt' = Add(snd_nxt, 1)
  /\ UNCHANGED <<state, iss, snd_una, rcv_nxt, rx_buffer, app, server, s2c, lost>>

\* The SYN_SENT test of process_rx: SYN and ACK set, and the ACK is iss_+1.
SynAckOkOffByOne(g) == {"SYN", "ACK"} \subseteq g.flags /\ g.ack = iss
SynAckOk(g) == {"SYN", "ACK"} \subseteq g.flags /\ g.ack = Add(iss, 1)

\* ESTABLISHED: data whose sequence number is rcv_nxt_ is taken in order.
InOrderAny(g) == Len(g.data) > 0
InOrder(g) == Len(g.data) > 0 /\ g.seq = rcv_nxt

\* Older data (plain unsigned <) is re-acknowledged; newer data is dropped
\* without an ACK.
Duplicate(g) == Len(g.data) > 0 /\ ~InOrder(g) /\ g.seq < rcv_nxt

\* process_rx on the segment at the head of the link. The filters on
\* addresses, ports and lengths pass: both ends are the ones configured.
\* Every ACK the step builds is appended to the link in the code's order.
ProcessRx ==
  /\ s2c /= <<>>
  /\ s2c' = Tail(s2c)
  /\ LET g   == Head(s2c)
         fin == "FIN" \in g.flags
         rn1 == IF InOrder(g) THEN Add(rcv_nxt, Len(g.data)) ELSE rcv_nxt
         rn2 == IF fin THEN Add(rn1, 1) ELSE rn1
         dataAck == IF InOrder(g) \/ Duplicate(g)
                    THEN <<CreatePacket({"ACK"}, rn1)>> ELSE <<>>
         finAck  == IF fin THEN <<CreatePacket({"ACK"}, rn2)>> ELSE <<>>
     IN CASE state = "SYN_SENT" ->
               IF SynAckOk(g)
               THEN /\ rcv_nxt' = Add(g.seq, 1)
                    /\ snd_una' = g.ack
                    /\ state' = "ESTABLISHED"
                    /\ c2s' = Append(c2s, CreatePacket({"ACK"}, Add(g.seq, 1)))
                    /\ UNCHANGED rx_buffer
               ELSE UNCHANGED <<rcv_nxt, snd_una, state, c2s, rx_buffer>>
          [] state = "ESTABLISHED" ->
               /\ rx_buffer' =
                    IF InOrder(g) /\ Len(rx_buffer) + Len(g.data) <= MAX_RX_BUFFER_SIZE
                    THEN rx_buffer \o g.data ELSE rx_buffer
               /\ snd_una' = IF g.ack > snd_una THEN g.ack ELSE snd_una
               /\ rcv_nxt' = rn2
               /\ state' = IF fin THEN "FIN_WAIT_2" ELSE state
               /\ c2s' = c2s \o dataAck \o finAck
          [] state = "FIN_WAIT_2" ->
               IF fin
               THEN /\ rcv_nxt' = Add(rcv_nxt, 1)
                    /\ c2s' = Append(c2s, CreatePacket({"ACK"}, Add(rcv_nxt, 1)))
                    /\ state' = "TIME_WAIT"
                    /\ UNCHANGED <<snd_una, rx_buffer>>
               ELSE UNCHANGED <<rcv_nxt, c2s, state, snd_una, rx_buffer>>
          [] OTHER -> UNCHANGED <<rcv_nxt, c2s, state, snd_una, rx_buffer>>
  /\ UNCHANGED <<iss, snd_nxt, app, sent, server, lost>>

\* extract_rx_data: the caller takes the whole buffer.
ExtractRxData ==
  /\ rx_buffer /= <<>>
  /\ app' = app \o rx_buffer
  /\ rx_buffer' = <<>>
  /\ UNCHANGED <<state, iss, snd_una, snd_nxt, rcv_nxt, sent, server, c2s, s2c, lost>>

-----------------------------------------------------------------------------
(* The server: a correct TCP peer (environment). Offsets count from siss:  *)
(* 0 is the SYN, 1 .. StreamLen the bytes, StreamLen + 1 the FIN.          *)

Off(x) == (x - siss) % SeqMod

\* The segment at offset o, as the server (re)sends it.
SrvSeg(o) ==
  CASE o = 0 -> Seg({"SYN", "ACK"}, siss, s_rcv, <<>>)
    [] o <= StreamLen -> Seg({"ACK"}, Add(siss, o), s_rcv, <<o>>)
    [] OTHER -> Seg({"FIN", "ACK"}, Add(siss, o), s_rcv, <<>>)

SrvSend(seg) == Len(s2c) < Cap /\ s2c' = Append(s2c, seg)

\* The server reads the client's next segment: a SYN opens the connection;
\* an ACK in range advances s_una; in-order data advances s_rcv and is
\* acknowledged.
SrvRecv ==
  /\ c2s /= <<>>
  /\ c2s' = Tail(c2s)
  /\ LET g == Head(c2s)
         a == Off(g.ack)
         una == IF "ACK" \in g.flags /\ s_una < a /\ a <= s_nxt THEN a ELSE s_una
         rcv == IF Len(g.data) > 0 /\ g.seq = s_rcv THEN Add(s_rcv, Len(g.data)) ELSE s_rcv
     IN IF sstate = "LISTEN"
        THEN /\ "SYN" \in g.flags
             /\ sstate' = "SYN_RCVD" /\ s_rcv' = Add(g.seq, 1) /\ s_nxt' = 1
             /\ SrvSend(Seg({"SYN", "ACK"}, siss, Add(g.seq, 1), <<>>))
             /\ UNCHANGED s_una
        ELSE /\ s_una' = una
             /\ sstate' = IF una >= 1 THEN "ESTAB" ELSE sstate
             /\ s_rcv' = rcv
             /\ IF Len(g.data) > 0
                THEN SrvSend(Seg({"ACK"}, Add(siss, s_nxt), rcv, <<>>))
                ELSE UNCHANGED s2c
             /\ UNCHANGED s_nxt
  /\ UNCHANGED <<client, siss, lost>>

\* The server sends its next byte, or its FIN after the last one.
SrvTransmit ==
  /\ sstate = "ESTAB"
  /\ s_nxt <= StreamLen + 1
  /\ SrvSend(SrvSeg(s_nxt))
  /\ s_nxt' = s_nxt + 1
  /\ UNCHANGED <<client, sstate, siss, s_una, s_rcv, c2s, lost>>

\* The retransmission timer: the oldest unacknowledged segment again. The
\* timeout is longer than a round trip: it fires only once the client's
\* answers so far have reached the server, though the segment itself may
\* still be on its way (a spurious retransmission).
SrvRetransmit ==
  /\ sstate /= "LISTEN"
  /\ s_una < s_nxt
  /\ c2s = <<>>
  /\ SrvSend(SrvSeg(s_una))
  /\ UNCHANGED <<client, server, c2s, lost>>

\* The link drops a segment on its way to the client.
Lose ==
  /\ "lose" \in Faults
  /\ lost < MaxLoss
  /\ \E i \in 1 .. Len(s2c) :
       s2c' = SubSeq(s2c, 1, i - 1) \o SubSeq(s2c, i + 1, Len(s2c))
  /\ lost' = lost + 1
  /\ UNCHANGED <<client, server, c2s>>

Next ==
  \/ Connect \/ SendData \/ ProcessRx \/ ExtractRxData
  \/ SrvRecv \/ SrvTransmit \/ SrvRetransmit \/ Lose

\* The application calls connect and polls; the poll loop processes every
\* segment that stays at the head of the link (strong fairness: a lossy
\* link delivers a segment retransmitted forever); the server's timer and
\* transmissions run.
Fairness ==
  /\ WF_vars(Connect) /\ SF_vars(ProcessRx) /\ WF_vars(ExtractRxData)
  /\ WF_vars(SrvRecv) /\ WF_vars(SrvTransmit) /\ SF_vars(SrvRetransmit)

Spec == Init /\ [][Next]_vars /\ Fairness

-----------------------------------------------------------------------------
(* Properties                                                              *)

\* What the client has received, whether handed out yet or not.
Received == app \o rx_buffer

\* Whatever the link loses and the server retransmits, across the wrap of
\* the sequence space: the bytes process_rx accepts are the server's
\* stream in order, with no byte twice and no gap.
DeliveredIsPrefix == Received = [i \in 1 .. Len(Received) |-> i]

\* The handshake completes: connect's SYN is answered and the SYN-ACK
\* check of process_rx (recv_ack == iss_ + 1) accepts the answer, even
\* when SYN-ACKs are lost and retransmitted.
HandshakeCompletes ==
  <>(state \in {"ESTABLISHED", "FIN_WAIT_2", "TIME_WAIT"} /\ sstate = "ESTAB")

\* The client acknowledges only what it has: once connected, rcv_nxt_ is
\* one past the bytes it received in order, plus one for the FIN when the
\* whole stream has arrived. A larger rcv_nxt_ tells the server that bytes
\* arrived which never did, and the server stops retransmitting them.
AckedIsReceived ==
  state \in {"ESTABLISHED", "FIN_WAIT_2", "TIME_WAIT"} =>
    \/ Off(rcv_nxt) = 1 + Len(Received)
    \/ Off(rcv_nxt) = 2 + Len(Received) /\ Len(Received) = StreamLen

=============================================================================
