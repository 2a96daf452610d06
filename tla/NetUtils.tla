------------------------------ MODULE NetUtils ------------------------------
(***************************************************************************)
(* NetworkUtils::get_gateway_mac (network_utils.cpp), the discovery of the *)
(* default gateway's MAC address from the kernel's tables: get_gateway_ip  *)
(* reads the first default route of /proc/net/route, lookup_arp finds the  *)
(* gateway's row in /proc/net/arp by its dotted-quad text (ip_to_string).  *)
(*                                                                         *)
(* An IPv4 address is the sequence of its four octets in network order.    *)
(* The tables are what the kernel prints for its routes and neighbours:    *)
(* a route's destination and gateway as "%08X" of the __be32 read as a     *)
(* native integer on the little-endian host, a neighbour's address as a    *)
(* dotted quad and its hardware address as six two-digit hex fields. A     *)
(* text of digits is the sequence of its digits; a dotted quad is the      *)
(* sequence of its four numbers.                                           *)
(***************************************************************************)
EXTENDS Naturals, Sequences, SequencesExt

CONSTANTS
  Routes,    \* route tables: sequences of [iface, dest, gw] addresses
  Neighbours \* ARP tables: sequences of [ip, hw] (hw: six octets)

VARIABLES
  route_table,  \* the kernel's routes, in /proc/net/route order
  arp_table,    \* the kernel's neighbours, in /proc/net/arp order
  route_open,   \* /proc/net/route can be opened
  arp_open,     \* /proc/net/arp can be opened
  gateway_mac   \* the result of get_gateway_mac: [ok, mac], or NotCalled

nvars == <<route_table, arp_table, route_open, arp_open, gateway_mac>>

NotCalled == [ok |-> FALSE, mac |-> <<>>, called |-> FALSE]

\* The 32-bit value whose little-endian memory image is the octets b.
LeValue(b) == b[1] + b[2] * 256 + b[3] * 65536 + b[4] * 16777216

\* The octets of v, most significant first.
BeOctets(v) ==
  <<v \div 16777216, (v \div 65536) % 256, (v \div 256) % 256, v % 256>>

\* The kernel's "%08X" of an address: the hex digits of its native value.
RouteHex(a) == [i \in 1 .. 8 |-> (LeValue(a) \div 16 ^ (8 - i)) % 16]

\* The kernel's "%pM" of a hardware address: two hex digits per octet.
MacText(hw) == [i \in 1 .. 6 |-> <<hw[i] \div 16, hw[i] % 16>>]

\* The rows of the two files as the code reads them with operator>>.
RouteLine(r) == [iface |-> r.iface, dest_hex |-> RouteHex(r.dest),
                 gateway_hex |-> RouteHex(r.gw)]
ArpLine(n) == [ip_str |-> n.ip, mac_str |-> MacText(n.hw)]

-----------------------------------------------------------------------------
(* The code                                                                *)

\* std::stoul(text, nullptr, 16).
RECURSIVE Stoul16(_)
Stoul16(t) == IF t = <<>> THEN 0 ELSE Stoul16(Front(t)) * 16 + Last(t)

\* Variant of Ntohl for a host where the conversion is a no-op.
NtohlNoSwap(v) == v

\* ntohl (and htonl) on the little-endian host: the bytes swapped.
Ntohl(v) == LeValue(BeOctets(v))

\* ip_to_string: htonl, then inet_ntop of the bytes of s_addr in memory.
IpToString(ip) ==
  LET s == Ntohl(ip) IN <<s % 256, (s \div 256) % 256,
                         (s \div 65536) % 256, s \div 16777216>>

\* Variant of GetGatewayIp that takes the parsed text for a host-order
\* address, without the ntohl.
GetGatewayIpNoNtohl(lines) ==
  LET k == SelectInSeq(lines, LAMBDA l : l.dest_hex = [i \in 1 .. 8 |-> 0])
  IN IF k = 0 THEN {} ELSE {Stoul16(lines[k].gateway_hex)}

\* get_gateway_ip: the first row whose destination text is "00000000";
\* its gateway text is parsed as hex and converted to host order.
GetGatewayIp(lines) ==
  LET k == SelectInSeq(lines, LAMBDA l : l.dest_hex = [i \in 1 .. 8 |-> 0])
  IN IF k = 0 THEN {} ELSE {Ntohl(Stoul16(lines[k].gateway_hex))}

\* sscanf("%x:%x:%x:%x:%x:%x") of a MAC text: the number of fields read
\* and their values.
ScanMac(t) == [n |-> Len(t), bytes |-> [i \in 1 .. Len(t) |-> t[i][1] * 16 + t[i][2]]]

\* lookup_arp: false when the file cannot be opened; else the first row
\* whose address text equals ip_to_string(ip) and whose MAC text scans
\* into six fields.
LookupArp(ip, lines) ==
  LET k == SelectInSeq(lines, LAMBDA l : l.ip_str = IpToString(ip)
                                          /\ ScanMac(l.mac_str).n = 6)
  IN IF ~arp_open \/ k = 0 THEN {} ELSE {ScanMac(lines[k].mac_str).bytes}

Init ==
  /\ route_table \in Routes
  /\ arp_table \in Neighbours
  /\ route_open \in BOOLEAN
  /\ arp_open \in BOOLEAN
  /\ gateway_mac = NotCalled

\* get_gateway_mac: false when the route file cannot be opened or has no
\* default route, else the result of lookup_arp on the gateway.
GetGatewayMac ==
  /\ ~gateway_mac.called
  /\ LET gw == IF route_open THEN GetGatewayIp([k \in DOMAIN route_table |-> RouteLine(route_table[k])])
               ELSE {}
         mac == UNION {LookupArp(g, [k \in DOMAIN arp_table |-> ArpLine(arp_table[k])]) : g \in gw}
     IN gateway_mac' = IF mac = {} THEN [NotCalled EXCEPT !.called = TRUE]
                       ELSE [ok |-> TRUE, mac |-> CHOOSE x \in mac : TRUE,
                             called |-> TRUE]
  /\ UNCHANGED <<route_table, arp_table, route_open, arp_open>>

-----------------------------------------------------------------------------
(* The kernel's own reading of its tables                                  *)

\* The gateway of the first default route the kernel lists.
DefaultGateway(rs) ==
  {rs[k].gw : k \in {j \in DOMAIN rs : rs[j].dest = <<0, 0, 0, 0>>
                                       /\ \A i \in 1 .. j - 1 : rs[i].dest /= <<0, 0, 0, 0>>}}

\* The hardware address of the first neighbour entry for address a.
NeighbourHw(a, ns) ==
  {ns[k].hw : k \in {j \in DOMAIN ns : ns[j].ip = a
                                       /\ \A i \in 1 .. j - 1 : ns[i].ip /= a}}

=============================================================================
