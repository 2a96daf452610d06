------------------------------ MODULE WsClient ------------------------------
(***************************************************************************)
(* WebSocketClient (websocket_client.cpp): the WebSocket layer of the      *)
(* vestigial DPDK stack, over its MicroTcp and its TlsSocket. The caller   *)
(* polls the NIC and hands every segment of a client to process_rx; it     *)
(* calls connect, subscribe, unsubscribe and disconnect when it likes.     *)
(*                                                                         *)
(* MicroTcp is abstracted to its state and to whether snd_nxt_ counts a    *)
(* segment that never left (after which the server, which sees a hole in   *)
(* the byte stream, and MicroTcp, which never retransmits, accept nothing  *)
(* more): MicroTcp.tla models its sequence numbers. TlsSocket              *)
(* (tls_socket.cpp, carried inside boost_websocket_client.cpp) wraps an    *)
(* OpenSSL session over memory BIOs: SSL_do_handshake on a fresh session   *)
(* writes the ClientHello and wants to read; once the server's flight is   *)
(* fed it writes the client Finished and succeeds; an alert fails it for   *)
(* good; on a finished session it succeeds and writes nothing.             *)
(*                                                                         *)
(* The venue's server is the environment: it answers the SYN, the          *)
(* ClientHello (refusing one without SNI when ServerNeedsSni), the upgrade *)
(* request and the close frame, and fails the connection on anything else.*)
(* Both links are reliable and in order; record boundaries match segment   *)
(* boundaries.                                                             *)
(***************************************************************************)
EXTENDS Naturals, Sequences, SequencesExt

CONSTANTS
  Clients,          \* WebSocketClient instances in the process
  Keys,             \* keys make_subscription_key can produce
  ServerNeedsSni,   \* the server refuses a ClientHello without SNI
  MaxConnects,      \* bound: connect() calls per client
  MaxCalls          \* bound: frames asked for per connection

VARIABLES
  state,            \* per client: state_
  tcp,              \* per client: tcp_client_.get_state()
  tls,              \* per client: the handshake of tls_socket_
  sni,              \* per client: set_hostname was called on tls_socket_
  subscriptions,    \* per client: the keys of subscriptions_
  sni_set,          \* process_rx's static bool sni_set
  client_hello_sent,     \* process_rx's static bool client_hello_sent
  error_with_data_count, \* process_rx's static int error_with_data_count
  hole,             \* per client: snd_nxt_ counts a segment never sent
  up, down,         \* per client: segments to and from the server
  srv,              \* per client: the server's progress
  wire,             \* per client: messages sent since the last connect()
  frames,           \* per client: frames the caller asked for since then
  connects          \* per client: connect() calls so far

vars == <<state, tcp, tls, sni, subscriptions, sni_set, client_hello_sent,
          error_with_data_count, hole, up, down, srv, wire, frames, connects>>

WsStates == {"DISCONNECTED", "CONNECTING_TCP", "CONNECTING_TLS",
             "HANDSHAKE_SENT", "CONNECTED"}

\* Segments from the server that carry data (TLS records).
DataSegs == {"FLIGHT", "ALERT", "RESP101"}

-----------------------------------------------------------------------------
(* The client (websocket_client.cpp)                                       *)

\* TlsSocket::do_handshake, with the record fed just before ("none" if
\* nothing was): what it returns (0 for SSL_ERROR_WANT_READ, -1 for any
\* other error, 1 when finished), the session after it, what it wrote.
DoHandshake(t, fed) ==
  CASE t = "start" -> [ret |-> 0, tls |-> "wait", out |-> <<"HELLO">>]
    [] t = "wait" /\ fed = "FLIGHT" -> [ret |-> 1, tls |-> "done", out |-> <<"FINISHED">>]
    [] t = "wait" /\ fed = "ALERT" -> [ret |-> -1, tls |-> "failed", out |-> <<>>]
    [] t = "done" -> [ret |-> 1, tls |-> "done", out |-> <<>>]
    [] t = "failed" -> [ret |-> -1, tls |-> "failed", out |-> <<>>]
    [] OTHER -> [ret |-> 0, tls |-> t, out |-> <<>>]

\* TlsSocket::encrypt: SSL_write only on a session whose handshake has
\* finished; -1 before.
Encrypt(c) == tls[c] = "done"

\* TlsSocket::set_hostname puts the server name into the ClientHello the
\* session writes: the ClientHello as it goes out, with it or without.

Named(out, s) == [k \in DOMAIN out |->
                    IF out[k] = "HELLO" /\ ~s THEN "HELLO_NO_SNI" ELSE out[k]]

\* send_data of each message: numbered and put on the link when
\* ESTABLISHED (behind a hole the server discards it), nothing otherwise.
Transmit(c, msgs, t) ==
  /\ up' = [up EXCEPT ![c] = @ \o
              IF t = "ESTABLISHED"
              THEN [k \in DOMAIN msgs |-> [kind |-> msgs[k], inseq |-> ~hole[c]]]
              ELSE <<>>]
  /\ wire' = [wire EXCEPT ![c] = @ \o IF t = "ESTABLISHED" THEN msgs ELSE <<>>]

\* generate_websocket_frame: the frame is encrypted (the session must have
\* finished its handshake) and send_data builds its segment (only when
\* ESTABLISHED): the messages it produces.
GenerateWebsocketFrame(c, kind) ==
  IF Encrypt(c) /\ tcp[c] = "ESTABLISHED" THEN <<kind>> ELSE <<>>

\* generate_websocket_handshake: the HTTP upgrade request, encrypted on a
\* session do_handshake has just reported finished.
WebsocketHandshake == <<"UPGRADE">>

\* connect: from DISCONNECTED to CONNECTING_TCP; MicroTcp::connect sends a
\* SYN only from CLOSED and returns nullptr otherwise.
Connect(c) ==
  /\ state[c] = "DISCONNECTED"
  /\ connects[c] < MaxConnects
  /\ connects' = [connects EXCEPT ![c] = @ + 1]
  /\ state' = [state EXCEPT ![c] = "CONNECTING_TCP"]
  /\ IF tcp[c] = "CLOSED"
     THEN /\ tcp' = [tcp EXCEPT ![c] = "SYN_SENT"]
          /\ up' = [up EXCEPT ![c] = Append(@, [kind |-> "SYN", inseq |-> TRUE])]
          /\ wire' = [wire EXCEPT ![c] = <<"SYN">>]
     ELSE UNCHANGED <<tcp, up>> /\ wire' = [wire EXCEPT ![c] = <<>>]
  /\ frames' = [frames EXCEPT ![c] = <<>>]
  /\ UNCHANGED <<tls, sni, subscriptions, sni_set, client_hello_sent,
                 error_with_data_count, hole, down, srv>>

\* MicroTcp::process_rx, for the state: the SYN-ACK establishes, a FIN
\* moves ESTABLISHED to FIN_WAIT_2.
TcpRx(t, g) ==
  CASE t = "SYN_SENT" /\ g = "SYNACK" -> "ESTABLISHED"
    [] t = "ESTABLISHED" /\ g = "FIN" -> "FIN_WAIT_2"
    [] OTHER -> t

\* Variant of TlsPoll without the do_handshake call after the feed loop.
TlsPollFeedOnly(c, payload) ==
  LET s1 == sni[c] \/ ~sni_set
  IN IF ~client_hello_sent
     THEN LET h == DoHandshake(tls[c], "none")
          IN [state |-> "CONNECTING_TLS", tls |-> h.tls, sni |-> s1,
              hello |-> h.out /= <<>>, err |-> error_with_data_count,
              out |-> Named(h.out, s1)]
     ELSE LET f == IF payload = "none" THEN [ret |-> 0, tls |-> tls[c], out |-> <<>>]
                   ELSE DoHandshake(tls[c], payload)
              up1 == f.out \o (IF f.ret = 1 THEN WebsocketHandshake ELSE <<>>)
              e == IF f.ret = -1 THEN error_with_data_count + 1 ELSE error_with_data_count
          IN [state |-> CASE f.ret = 1 -> "HANDSHAKE_SENT"
                          [] e >= 3 -> "DISCONNECTED"
                          [] OTHER -> "CONNECTING_TLS",
              tls |-> f.tls, sni |-> s1, hello |-> TRUE,
              err |-> IF e >= 3 THEN 0 ELSE e, out |-> Named(up1, s1)]

\* The WS_CONNECTING_TLS case of process_rx on the extracted payload. The
\* statics make the first poll of the first handshake in the process set
\* the server name and send the ClientHello; every later poll feeds the
\* payload and pumps do_handshake, then calls it once more after the feed
\* loop. Each return of 1 sends the upgrade request; -1 with data counts
\* an error, and the third one gives up.
TlsPoll(c, payload) ==
  LET s1 == sni[c] \/ ~sni_set
  IN IF ~client_hello_sent
     THEN LET h == DoHandshake(tls[c], "none")
          IN [state |-> "CONNECTING_TLS", tls |-> h.tls, sni |-> s1,
              hello |-> h.out /= <<>>, err |-> error_with_data_count,
              out |-> Named(h.out, s1)]
     ELSE LET f == IF payload = "none" THEN [ret |-> 0, tls |-> tls[c], out |-> <<>>]
                   ELSE DoHandshake(tls[c], payload)
              p == DoHandshake(f.tls, "none")
              up1 == f.out \o (IF f.ret = 1 THEN WebsocketHandshake ELSE <<>>)
              up2 == p.out \o (IF p.ret = 1 THEN WebsocketHandshake ELSE <<>>)
              e == IF p.ret = -1 /\ payload /= "none"
                   THEN error_with_data_count + 1 ELSE error_with_data_count
          IN [state |-> CASE p.ret = 1 -> "HANDSHAKE_SENT"
                          [] e >= 3 -> "DISCONNECTED"
                          [] OTHER -> "CONNECTING_TLS",
              tls |-> p.tls, sni |-> s1, hello |-> TRUE,
              err |-> IF e >= 3 THEN 0 ELSE e, out |-> Named(up1 \o up2, s1)]

\* process_rx for the segment at the head of the link: MicroTcp first,
\* extract_rx_data, then the switch on state_. CONNECTING_TCP falls through
\* into the TLS case once MicroTcp is ESTABLISHED; HANDSHAKE_SENT becomes
\* CONNECTED whatever arrived; CONNECTED only decrypts and prints.
ProcessRx(c) ==
  /\ down[c] /= <<>>
  /\ down' = [down EXCEPT ![c] = Tail(@)]
  /\ LET g == Head(down[c])
         t1 == TcpRx(tcp[c], g)
         payload == IF tcp[c] = "ESTABLISHED" /\ g \in DataSegs THEN g ELSE "none"
         r == TlsPoll(c, payload)
     IN /\ tcp' = [tcp EXCEPT ![c] = t1]
        /\ IF \/ state[c] = "CONNECTING_TCP" /\ t1 = "ESTABLISHED"
              \/ state[c] = "CONNECTING_TLS"
           THEN /\ state' = [state EXCEPT ![c] = r.state]
                /\ tls' = [tls EXCEPT ![c] = r.tls]
                /\ sni' = [sni EXCEPT ![c] = r.sni]
                /\ sni_set' = TRUE
                /\ client_hello_sent' = (client_hello_sent \/ r.hello)
                /\ error_with_data_count' = r.err
                /\ Transmit(c, r.out, t1)
           ELSE /\ state' = IF state[c] = "HANDSHAKE_SENT"
                            THEN [state EXCEPT ![c] = "CONNECTED"] ELSE state
                /\ UNCHANGED <<tls, sni, sni_set, client_hello_sent,
                               error_with_data_count, up, wire>>
  /\ UNCHANGED <<subscriptions, hole, srv, frames, connects>>

\* send_text_message: generate_websocket_frame encrypts the frame and
\* send_data numbers it, but the insert copies [begin, begin): the mbuf is
\* never returned to the caller and never sent.
SendTextMessage(c) ==
  /\ hole' = [hole EXCEPT ![c] = @ \/ GenerateWebsocketFrame(c, "TEXT") /= <<>>]
  /\ frames' = [frames EXCEPT ![c] = Append(@, "TEXT")]

\* subscribe: only when CONNECTED and not yet subscribed; the entry is
\* recorded as PENDING before the message is sent.
Subscribe(c, k) ==
  /\ state[c] = "CONNECTED"
  /\ k \notin subscriptions[c]
  /\ Len(frames[c]) < MaxCalls
  /\ subscriptions' = [subscriptions EXCEPT ![c] = @ \cup {k}]
  /\ SendTextMessage(c)
  /\ UNCHANGED <<state, tcp, tls, sni, sni_set, client_hello_sent,
                 error_with_data_count, up, down, srv, wire, connects>>

\* unsubscribe: only when CONNECTED and subscribed; the entry is erased
\* before the message is sent.
Unsubscribe(c, k) ==
  /\ state[c] = "CONNECTED"
  /\ k \in subscriptions[c]
  /\ Len(frames[c]) < MaxCalls
  /\ subscriptions' = [subscriptions EXCEPT ![c] = @ \ {k}]
  /\ SendTextMessage(c)
  /\ UNCHANGED <<state, tcp, tls, sni, sni_set, client_hello_sent,
                 error_with_data_count, up, down, srv, wire, connects>>

\* disconnect: a close frame (encrypt needs a finished session), the
\* subscriptions cleared, DISCONNECTED. MicroTcp is left as it is.
Disconnect(c) ==
  /\ state[c] /= "DISCONNECTED"
  /\ Transmit(c, GenerateWebsocketFrame(c, "CLOSE"), tcp[c])
  /\ frames' = [frames EXCEPT ![c] =
                  IF state[c] \in {"HANDSHAKE_SENT", "CONNECTED"}
                  THEN Append(@, "CLOSE") ELSE @]
  /\ subscriptions' = [subscriptions EXCEPT ![c] = {}]
  /\ state' = [state EXCEPT ![c] = "DISCONNECTED"]
  /\ UNCHANGED <<tcp, tls, sni, sni_set, client_hello_sent,
                 error_with_data_count, hole, down, srv, connects>>

-----------------------------------------------------------------------------
(* The venue's server (environment)                                        *)

\* The server reads the client's next segment. One behind a hole in the
\* byte stream is discarded. A second upgrade request, or anything else it
\* does not expect, makes it fail the connection with a FIN.
SrvRecv(c) ==
  /\ up[c] /= <<>>
  /\ up' = [up EXCEPT ![c] = Tail(@)]
  /\ LET m == Head(up[c])
         Reply(seg, st) == /\ down' = [down EXCEPT ![c] = Append(@, seg)]
                           /\ srv' = [srv EXCEPT ![c] = st]
     IN CASE ~m.inseq \/ srv[c] = "closed" -> UNCHANGED <<down, srv>>
          [] m.kind = "SYN" -> Reply("SYNACK", "syn")
          [] m.kind = "HELLO" \/ (m.kind = "HELLO_NO_SNI" /\ ~ServerNeedsSni) ->
               Reply("FLIGHT", "hello")
          [] m.kind = "HELLO_NO_SNI" -> Reply("ALERT", "failed")
          [] m.kind = "FINISHED" -> UNCHANGED down /\ srv' = [srv EXCEPT ![c] = "tls"]
          [] m.kind = "UPGRADE" /\ srv[c] = "tls" -> Reply("RESP101", "ws")
          [] m.kind = "TEXT" /\ srv[c] = "ws" -> UNCHANGED <<down, srv>>
          [] OTHER -> Reply("FIN", "closed")
  /\ UNCHANGED <<state, tcp, tls, sni, subscriptions, sni_set, client_hello_sent,
                 error_with_data_count, hole, wire, frames, connects>>

-----------------------------------------------------------------------------

Init ==
  /\ state = [c \in Clients |-> "DISCONNECTED"]
  /\ tcp = [c \in Clients |-> "CLOSED"]
  /\ tls = [c \in Clients |-> "start"]
  /\ sni = [c \in Clients |-> FALSE]
  /\ subscriptions = [c \in Clients |-> {}]
  /\ sni_set = FALSE /\ client_hello_sent = FALSE /\ error_with_data_count = 0
  /\ hole = [c \in Clients |-> FALSE]
  /\ up = [c \in Clients |-> <<>>] /\ down = [c \in Clients |-> <<>>]
  /\ srv = [c \in Clients |-> "listen"]
  /\ wire = [c \in Clients |-> <<>>] /\ frames = [c \in Clients |-> <<>>]
  /\ connects = [c \in Clients |-> 0]

Next ==
  \E c \in Clients :
    \/ Connect(c) \/ ProcessRx(c) \/ Disconnect(c) \/ SrvRecv(c)
    \/ \E k \in Keys : Subscribe(c, k) \/ Unsubscribe(c, k)

\* The caller hands every received segment to process_rx, and the server
\* answers what reaches it. The caller's own calls are not forced.
Fairness == \A c \in Clients : WF_vars(ProcessRx(c)) /\ WF_vars(SrvRecv(c))

Spec == Init /\ [][Next]_vars /\ Fairness

-----------------------------------------------------------------------------
(* Properties                                                              *)

TypeOK ==
  /\ state \in [Clients -> WsStates]
  /\ tcp \in [Clients -> {"CLOSED", "SYN_SENT", "ESTABLISHED", "FIN_WAIT_2"}]
  /\ tls \in [Clients -> {"start", "wait", "done", "failed"}]
  /\ subscriptions \in [Clients -> SUBSET Keys]
  /\ error_with_data_count \in 0 .. 2
  /\ connects \in [Clients -> 0 .. MaxConnects]

\* What each connection owes the wire: the SYN, a ClientHello naming the
\* server, the client Finished and one upgrade request, then one frame per
\* subscribe, unsubscribe and disconnect, in the order of the calls.
Protocol(c) == <<"SYN", "HELLO", "FINISHED", "UPGRADE">> \o frames[c]

\* Every connect() starts a fresh TCP and TLS handshake (the comment on the
\* statics says they are reset with the connection) and what the client
\* has sent since is a prefix of the protocol: nothing missing in between,
\* nothing twice, nothing out of place.
WireIsProtocol == \A c \in Clients : IsPrefix(wire[c], Protocol(c))

\* The first connect() of every client ends, connected or disconnected by
\* the caller, when the server cooperates: the fallthrough into the TLS
\* case and the flush after the feed loop get a ClientHello out even for
\* the client that finds client_hello_sent already set by another one.
FirstAttemptEnds ==
  \A c \in Clients :
    (state[c] = "CONNECTING_TCP" /\ connects[c] = 1)
      ~> state[c] \in {"CONNECTED", "DISCONNECTED"}

=============================================================================
