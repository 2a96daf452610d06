----------------------------- MODULE Classifier -----------------------------
(***************************************************************************)
(* HftClassifier::classify (classifier.h): the per-packet verdict of the   *)
(* dataplane. The code reads the EtherType, the IPv4 protocol, and the two *)
(* 16-bit words found (version_ihl & 0xf) * 4 bytes past the start of the  *)
(* IPv4 header, which it takes for the TCP source and destination ports.   *)
(*                                                                         *)
(* A packet is given by its header fields; Encode lays the IPv4 header out *)
(* as 16-bit words the way it is on the wire, so that Classify reads words *)
(* exactly where the code reads bytes. RefVerdict is the classification    *)
(* the spec states (section 4.1 and section 8).                            *)
(***************************************************************************)
EXTENDS Naturals

CONSTANTS
  Ports,     \* values a port or payload word takes (443, 8443 and others)
  Lengths,   \* IPv4 total lengths
  MaxIhl     \* bound: largest IHL field enumerated

ETHER_TYPE_IPV4 == 2048   \* 0x0800
ETHER_TYPE_ARP  == 2054   \* 0x0806
IPPROTO_TCP     == 6
IPPROTO_UDP     == 17

\* The destination ports of the two venues' market-data streams.
VenuePorts == {8443, 443}

\* A packet: EtherType, IHL, protocol, fragment offset, total length, and
\* the first two 16-bit words after the IPv4 header (the TCP ports of a
\* first fragment; payload bytes of a later one).
Packets ==
  [eth : {ETHER_TYPE_IPV4, ETHER_TYPE_ARP}, ihl : 0..MaxIhl,
   proto : {IPPROTO_TCP, IPPROTO_UDP}, frag : {0, 1}, len : Lengths,
   w1 : Ports, w2 : Ports]

\* The IPv4 header and what follows as 16-bit big-endian words, numbered
\* from the first byte of the header: version/IHL and TOS, total length,
\* identification, flags/fragment offset, TTL and protocol, checksum,
\* addresses (zero here), IP options (NOP bytes), then w1 and w2.
Encode(p) ==
  LET hdr == p.ihl * 2
  IN [k \in 0..(MaxIhl * 2 + 1) |->
        CASE k = hdr     -> p.w1
          [] k = hdr + 1 -> p.w2
          [] k = 0       -> (4 * 16 + p.ihl) * 256
          [] k = 1       -> p.len
          [] k = 3       -> p.frag
          [] k = 4       -> 64 * 256 + p.proto
          [] k >= 10     -> 257
          [] OTHER       -> 0]

\* Variant of Classify that takes the TCP header right after a 20-byte IPv4
\* header (ip_hdr + 1), as the commented-out line of the code does.
ClassifyFixedOffset(eth, ip) ==
  LET proto == ip[4] % 256
  IN IF eth = ETHER_TYPE_IPV4 /\ proto = IPPROTO_TCP
          /\ ({ip[10], ip[11]} \cap VenuePorts /= {})
     THEN "HFT" ELSE "STANDARD"

\* HftClassifier::classify on a packet whose IPv4 header starts at word 0
\* of ip. The two port words are the ones IHL * 4 bytes into the header.
Classify(eth, ip) ==
  LET ihl   == (ip[0] \div 256) % 16
      proto == ip[4] % 256
      src   == ip[ihl * 2]
      dst   == ip[ihl * 2 + 1]
  IN IF eth /= ETHER_TYPE_IPV4 THEN "STANDARD"
     ELSE IF proto = IPPROTO_UDP THEN "STANDARD"
     ELSE IF proto = IPPROTO_TCP /\ ({src, dst} \cap VenuePorts /= {})
          THEN "HFT"
     ELSE "STANDARD"

\* Spec 4.1 / 8: FAST exactly for an IPv4 TCP segment whose source or
\* destination port is 8443 or 443; every other packet is SLOW.
RefVerdict(p) ==
  IF /\ p.eth = ETHER_TYPE_IPV4 /\ p.proto = IPPROTO_TCP
     /\ p.frag = 0 /\ {p.w1, p.w2} \cap VenuePorts /= {}
  THEN "HFT" ELSE "STANDARD"

\* A packet the spec calls valid: a well-formed IPv4 header (IHL >= 5).
Valid(p) == p.eth /= ETHER_TYPE_IPV4 \/ p.ihl >= 5

-----------------------------------------------------------------------------
(* The classifier applied to one received packet.                          *)

VARIABLES pkt, verdict

vars == <<pkt, verdict>>

Init == pkt \in Packets /\ verdict = "none"

\* lcore_forward_loop calls classify on the packet.
ClassifyPacket ==
  /\ verdict = "none"
  /\ verdict' = Classify(pkt.eth, Encode(pkt))
  /\ UNCHANGED pkt

Spec == Init /\ [][ClassifyPacket]_vars

TypeOK == pkt \in Packets /\ verdict \in {"none", "HFT", "STANDARD"}

\* On every valid first fragment, the verdict of classify is the spec's:
\* the ports are found after the IP options however long they are, and an
\* IPv4 packet carrying 443 or 8443 anywhere else is not taken for FAST.
ClassifyMatchesSpec ==
  verdict /= "none" /\ Valid(pkt) /\ pkt.frag = 0
    => verdict = RefVerdict(pkt)

=============================================================================
