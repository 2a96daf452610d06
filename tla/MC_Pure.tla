------------------------------- MODULE MC_Pure -------------------------------
(***************************************************************************)
(* Five pure computations, each in a lane of its own: the packet           *)
(* classifier of the dataplane (Classifier), the symbol lists of the       *)
(* configuration (Config), the WebSocket frame codec (WsFrame), the retry *)
(* schedule of the session (Backoff) and the gateway discovery of          *)
(* NetworkUtils (NetUtils). A behaviour picks its lane at the start; the   *)
(* other lanes' variables stay at one initial value, so the state space is *)
(* the sum of the five.                                                    *)
(***************************************************************************)
EXTENDS Naturals, Sequences, WsFrame

CONSTANTS Ports, Lengths, MaxIhl, Letters, MaxLen, Unset, Uninit, Garbage,
          FrameLens, Opcodes, Timers

VARIABLES lane, pkt, verdict, env, symbols, count, instruments, pc,
          frame_in, frame_out, retry_env, params, retry_count, bstate, delays,
          route_table, arp_table, route_open, arp_open, gateway_mac

\* The five default symbols of config_load, each abstracted to one letter.
MC_Defaults == <<<<"E">>, <<"X">>, <<"S">>, <<"T">>, <<"D">>>>

C == INSTANCE Classifier
G == INSTANCE Config WITH Defaults <- MC_Defaults

\* WS_RETRY_* values: each variable unset (the default) or set to a value
\* of its own, well-formed or not: retries switched on in capitals, or off
\* by a word strcasecmp does not know; three attempts, or a word atoi reads
\* as none; a fractional, a shrinking or an unreadable multiplier.
MC_RetryEnvs ==
  [enabled : {Unset, <<"T", "R", "U", "E">>, <<"y", "e", "s">>},
   attempts : {Unset, <<"3">>, <<"t", "e", "n">>},
   initial : {Unset, <<"5", "0", "0">>},
   maxd : {Unset, <<"4", "0", "0", "0">>},
   mult : {Unset, <<"1", ".", "5">>, <<"0", ".", "5">>, <<"x">>}]

K == INSTANCE Backoff WITH Envs <- MC_RetryEnvs

\* Addresses whose first and last octets are below 128, so that the native
\* and the host-order values both fit TLC's integers; none reads the same
\* backwards.
GW1 == <<10, 0, 2, 1>>
GW2 == <<100, 64, 0, 7>>
AnyAddr == <<0, 0, 0, 0>>
\* Route tables of up to two rows: default routes via either gateway or via
\* none (an on-link default), and a network route, in either order.
MC_Routes ==
  BoundedSeq([iface : {"eth0"}, dest : {AnyAddr, <<10, 0, 2, 0>>},
              gw : {GW1, GW2, AnyAddr}], 2)
\* ARP tables of up to two rows, with a real or an all-zero hardware address.
MC_Neighbours ==
  BoundedSeq([ip : {GW1, GW2},
              hw : {<<2, 66, 172, 17, 0, 2>>, <<0, 0, 0, 0, 0, 0>>}], 2)

N == INSTANCE NetUtils WITH Routes <- MC_Routes, Neighbours <- MC_Neighbours

cvars == <<pkt, verdict>>
gvars == <<env, symbols, count, instruments, pc>>
fvars == <<frame_in, frame_out>>
kvars == <<retry_env, params, retry_count, bstate, delays>>
nvars == <<route_table, arp_table, route_open, arp_open, gateway_mac>>
vars == <<lane, cvars, gvars, fvars, kvars, nvars>>

\* A payload of n bytes whose bytes differ from one position to the next.
Payload(n) == [k \in 1 .. n |-> (k * 37) % 256]

\* The calls of frame_message enumerated: each length around the 126 and
\* 65536 boundaries, masked or not, into a buffer one byte too small and
\* into one that fits exactly.
FrameCalls ==
  UNION {{[n |-> n, opcode |-> o, mask |-> m, tsc |-> t, buflen |-> b] :
            b \in {RfcFrameSize(n, m) - 1, RfcFrameSize(n, m)}} :
         n \in FrameLens, o \in Opcodes, m \in BOOLEAN, t \in Timers}

NoFrame == [ret |-> 0, buf |-> <<>>, done |-> FALSE]

Init ==
  /\ lane \in {"classify", "config", "frame", "backoff", "gateway"}
  /\ IF lane = "classify" THEN C!Init
     ELSE pkt = (CHOOSE p \in C!Packets : TRUE) /\ verdict = "none"
  /\ IF lane = "config" THEN G!Init
     ELSE env = Unset /\ G!Init
  /\ frame_in \in IF lane = "frame" THEN FrameCalls
                  ELSE {CHOOSE x \in FrameCalls : TRUE}
  /\ frame_out = NoFrame
  /\ IF lane = "backoff" THEN K!Init ELSE retry_env = K!UnsetEnv /\ K!Init
  /\ IF lane = "gateway" THEN N!Init
     ELSE /\ route_table = <<>> /\ arp_table = <<>>
          /\ route_open = TRUE /\ arp_open = TRUE /\ N!Init

\* The caller of frame_message: one call with the chosen arguments.
CallFrameMessage ==
  /\ ~frame_out.done
  /\ LET r == FrameMessage(frame_in.buflen, Payload(frame_in.n),
                           frame_in.opcode, frame_in.mask, frame_in.tsc)
     IN frame_out' = [ret |-> r.ret, buf |-> r.buf, done |-> TRUE]
  /\ UNCHANGED frame_in

Next ==
  \/ lane = "classify" /\ C!ClassifyPacket /\ UNCHANGED <<lane, gvars, fvars, kvars, nvars>>
  \/ lane = "config" /\ G!Next /\ UNCHANGED <<lane, cvars, fvars, kvars, nvars>>
  \/ lane = "frame" /\ CallFrameMessage /\ UNCHANGED <<lane, cvars, gvars, kvars, nvars>>
  \/ lane = "backoff" /\ K!ScheduleReconnect /\ UNCHANGED <<lane, cvars, gvars, fvars, nvars>>
  \/ lane = "gateway" /\ N!GetGatewayMac /\ UNCHANGED <<lane, cvars, gvars, fvars, kvars>>

Spec == Init /\ [][Next]_vars

\* HftClassifier::classify gives the spec's verdict on every valid first
\* fragment, whatever the IHL: the ports are read after the options.
ClassifyMatchesSpec == C!ClassifyMatchesSpec

\* config_load and main's registration loop: a symbol list without empty
\* fields is subscribed exactly, in order (the defaults when unset).
WellFormedListRegistered == G!WellFormedListRegistered

\* frame_message returns 0 exactly when RFC 6455's frame for the payload
\* does not fit the buffer, and otherwise returns the number of bytes it
\* wrote, which a server reads back as one final frame with the opcode,
\* the mask bit, the length in its shortest form and in network byte order,
\* and the payload once unmasked with the key it carries.
FrameMatchesRfc ==
  frame_out.done =>
    LET x == frame_in
    IN /\ (frame_out.ret = 0) = (RfcFrameSize(x.n, x.mask) > x.buflen)
       /\ frame_out.ret /= 0 =>
            /\ frame_out.ret = Len(frame_out.buf)
            /\ IsFrameOf(frame_out.buf, Payload(x.n), x.opcode, x.mask)

\* process_websocket_frame reads back every frame frame_message writes:
\* the opcode and the payload, unmasked, at every length form; and the
\* same frame one byte short is not a message at all (the frame is read
\* only when its key and payload are all in the buffer).
FrameRoundTrip ==
  frame_out.done /\ frame_out.ret > 0 =>
    /\ ParseFrame(frame_out.buf)
         = [ok |-> TRUE, fin |-> TRUE, opcode |-> frame_in.opcode % 16,
            payload |-> Payload(frame_in.n)]
    /\ ParseFrame(Front(frame_out.buf)) = NoMessage

\* Spec 4.5: across consecutive failures, schedule_reconnect's k-th retry
\* wait lasts min(initial * multiplier^(k-1), max_delay_ms); it gives up
\* after exactly max_attempts waits; and with the reference parameters
\* the waits are the ten delays of the spec's test vector.
BackoffMatchesSpec ==
  /\ \A k \in 1 .. Len(delays) : delays[k] = K!SpecDelay(k, params)
  /\ bstate = "Disconnected" => Len(delays) = params.attempts
  /\ bstate = "Disconnected" /\ retry_env = K!UnsetEnv
       => delays = K!ReferenceDelays

\* get_gateway_mac returns true exactly when the kernel has a default route
\* and a neighbour entry for its gateway, and then returns that entry's
\* hardware address: the "%08X" of the route file, stoul, ntohl, htonl and
\* inet_ntop compose to the gateway's own dotted quad, and sscanf reads
\* back the octets the kernel printed.
GatewayMacFromTables ==
  gateway_mac.called =>
    LET gw == IF route_open THEN N!DefaultGateway(route_table) ELSE {}
        hw == IF ~arp_open THEN {} ELSE UNION {N!NeighbourHw(g, arp_table) : g \in gw}
    IN /\ gateway_mac.ok = (hw /= {})
       /\ gateway_mac.ok => gateway_mac.mac \in hw

=============================================================================
