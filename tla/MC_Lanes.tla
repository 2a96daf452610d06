------------------------------- MODULE MC_Lanes -------------------------------
(***************************************************************************)
(* Components that share no state, each checked in a lane of its own:    *)
(* the locked order book (OrderBook), the market-data path from the venues *)
(* to the UDP feed (MarketData), the DPDK TCP client against a venue's     *)
(* server (MicroTcp), and the WebSocket layer above it with two clients   *)
(* (WsClient). A behaviour picks its lane at the start;                    *)
(* the other components keep their initial state, and every property is    *)
(* the component's own over its own variables. Fairness is stated for the *)
(* steps of a lane, so a behaviour of one lane is not made unfair by the   *)
(* components that stand still in it.                                      *)
(***************************************************************************)
EXTENDS Naturals, Sequences, TLC

CONSTANTS w1, w2, r1, NoLevel, Absent, Junk, c1, c2, k1

VARIABLES
  lane,
  bids, asks, lock, pc, updates, idx, snapshot, bbo,
  inq, net, pongs, pings, vbook, cbook, synced, sent, drops,
  state, iss, snd_una, snd_nxt, rcv_nxt, rx_buffer, app, tcp_sent,
  sstate, siss, s_una, s_nxt, s_rcv, c2s, s2c, lost,
  ws_state, tcp, tls, sni, subscriptions, sni_set, client_hello_sent,
  error_with_data_count, hole, up, down, srv, wire, frames, connects

bookvars == <<bids, asks, lock, pc, updates, idx, snapshot, bbo>>
feedvars == <<inq, net, pongs, pings, vbook, cbook, synced, sent, drops>>
tcpvars == <<state, iss, snd_una, snd_nxt, rcv_nxt, rx_buffer, app, tcp_sent,
             sstate, siss, s_una, s_nxt, s_rcv, c2s, s2c, lost>>
wsvars == <<ws_state, tcp, tls, sni, subscriptions, sni_set, client_hello_sent,
            error_with_data_count, hole, up, down, srv, wire, frames, connects>>
vars == <<lane, bookvars, feedvars, tcpvars, wsvars>>

\* OrderBook: two writers, one reader, prices {1, 2}, sizes {0, 1}.
B == INSTANCE OrderBook
       WITH Prices <- {1, 2}, Sizes <- {0, 1}, Writers <- {w1, w2},
            Readers <- {r1}, MaxLevels <- 1

\* MarketData: both venues, one instrument "BTC", the price 1.5 and a
\* string stod cannot read, sizes 0 and 1, two venue messages, one drop.
F == INSTANCE MarketData
       WITH Venues <- {"OKX", "BYBIT"}, Insts <- {"BTC"},
            SymBytes <- [i \in {"BTC"} |-> <<66, 84, 67>>],
            PriceTexts <- {[digits |-> 15, point |-> 1], Junk},
            SizeTexts <- {[digits |-> 0, point |-> 0], [digits |-> 1, point |-> 0]},
            Stamps <- {1000}, MaxLevels <- 1, MaxMsgs <- 2, MaxDrops <- 1

\* MicroTcp: initial numbers next to the wrap of a 16-bit space, two bytes
\* from the server, one send_data, three segments in flight, two losses.
T == INSTANCE MicroTcp
       WITH SeqBits <- 16, ISS <- {2 ^ 16 - 1}, IRS <- {2 ^ 16 - 2},
            StreamLen <- 2, MAX_RX_BUFFER_SIZE <- 2, MaxSend <- 1, Cap <- 3,
            MaxLoss <- 2, Faults <- {"lose"}, sent <- tcp_sent

\* WsClient: two clients sharing process_rx's statics, one key, one
\* connect() each, one frame per connection, a server that accepts a
\* ClientHello without SNI.
W == INSTANCE WsClient
       WITH Clients <- {c1, c2}, Keys <- {k1}, ServerNeedsSni <- FALSE,
            MaxConnects <- 1, MaxCalls <- 1, state <- ws_state

Init ==
  /\ lane \in {"book", "feed", "tcp", "ws"}
  /\ B!Init /\ F!Init /\ T!Init /\ W!Init

\* A step of lane l: A moves that component, the others stand still.
Step(l, A, others) == lane = l /\ A /\ UNCHANGED <<lane, others>>

BookStep(A) == Step("book", A, <<feedvars, tcpvars, wsvars>>)
FeedStep(A) == Step("feed", A, <<bookvars, tcpvars, wsvars>>)
TcpStep(A) == Step("tcp", A, <<bookvars, feedvars, wsvars>>)
WsStep(A) == Step("ws", A, <<bookvars, feedvars, tcpvars>>)

Next ==
  \/ BookStep(B!Next) \/ FeedStep(F!Next) \/ TcpStep(T!Next) \/ WsStep(W!Next)

\* MicroTcp's fairness, for steps of its lane.
TcpFairness ==
  /\ WF_vars(TcpStep(T!Connect)) /\ SF_vars(TcpStep(T!ProcessRx))
  /\ WF_vars(TcpStep(T!ExtractRxData)) /\ WF_vars(TcpStep(T!SrvRecv))
  /\ WF_vars(TcpStep(T!SrvTransmit)) /\ SF_vars(TcpStep(T!SrvRetransmit))

\* WsClient's fairness: the caller polls, the server answers.
WsFairness ==
  \A c \in {c1, c2} : WF_vars(WsStep(W!ProcessRx(c))) /\ WF_vars(WsStep(W!SrvRecv(c)))

Spec == Init /\ [][Next]_vars /\ TcpFairness /\ WsFairness

-----------------------------------------------------------------------------
(* OrderBook (see OrderBook.tla)                                           *)

\* The variables of each component keep their types; for the order book,
\* the maps never hold a level of size zero (apply_update_internal erases
\* on a size <= 0).
TypeOK == B!TypeOK /\ W!TypeOK

\* Spec 8: apply_snapshot leaves exactly the snapshot's positive levels.
SnapshotExact == B!SnapshotExact

\* Spec 4.7: the locked book implements the atomic book of OrderBookSpec.
ObeysSpec == B!ObeysSpec

(* MarketData (see MarketData.tla)                                         *)

\* Every datagram serialize_and_send emits has the layout of spec 4.8.
WireFormat == F!WireFormat

\* A consumer that lost nothing since a snapshot holds the venue's book.
FeedMatchesVenue == F!FeedMatchesVenue

\* process_message answers each server ping with one pong, nothing else.
PongPerPing == F!PongPerPing

(* MicroTcp (see MicroTcp.tla)                                             *)

\* process_rx hands out the server's stream in order, without gap or
\* duplicate, across losses, retransmissions and the sequence wrap.
DeliveredIsPrefix == T!DeliveredIsPrefix

\* connect's SYN is answered and the SYN-ACK check accepts the answer.
HandshakeCompletes == lane = "tcp" => T!HandshakeCompletes

(* WsClient (see WsClient.tla)                                           *)

\* Each client's first connect() ends, connected or disconnected, when the
\* server cooperates, although the second client finds the ClientHello
\* statics already set by the first.
FirstAttemptEnds == lane = "ws" => W!FirstAttemptEnds

=============================================================================
