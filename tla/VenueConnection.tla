-------------------------- MODULE VenueConnection --------------------------
(***************************************************************************)
(* One venue session: BoostWebSocketClient (the TLS WebSocket client with  *)
(* its retry state machine, boost_websocket_client.cpp) bound to the venue *)
(* connection that owns it (OkxConnection / BybitConnection, which are the *)
(* same code up to message shapes).                                        *)
(*                                                                         *)
(* Three threads act on it:                                                *)
(*   - the application thread (main.cpp): subscribe, the blocking          *)
(*     connect(), poll, send_heartbeat;                                    *)
(*   - the io_context thread: timer, async resolve/connect/handshake       *)
(*     completions, async_read completions and the posted send lambdas;    *)
(*   - the network and the venue: a socket may break, a read may deliver   *)
(*     a message, an async step may fail.                                  *)
(* A message is abstracted to its kind and the subscription it is about;   *)
(* an instrument/channel pair is a model value of Subs.                    *)
(***************************************************************************)
EXTENDS Naturals, Sequences, FiniteSets, Bags, SequencesExt

CONSTANTS
  Subs,          \* (instrument, channel) pairs the application registers
  NoSub,         \* placeholder for "no subscription"
  MaxAttempts,   \* retry_max_attempts_ (WS_RETRY_MAX_ATTEMPTS)
  QueueCap,      \* MAX_INCOMING_QUEUE_SIZE
  MaxFail,       \* bound: network faults in one behaviour
  MaxExtra,      \* bound: venue pings plus application heartbeats
  MaxConnects,   \* bound: calls of connect() by the application
  ErrorReapedFirst \* environment: a dead socket's read error is handled
                   \* before the retry timer's expiry

ASSUME /\ NoSub \notin Subs
       /\ MaxAttempts \in Nat /\ QueueCap \in Nat \ {0}
       /\ {MaxFail, MaxExtra, MaxConnects} \subseteq Nat
       /\ ErrorReapedFirst \in BOOLEAN

VARIABLES
  retry_enabled,        \* retry_enabled_ (WS_RETRY_ENABLED), fixed at construction
  connection_state,     \* connection_state_
  connected,            \* connected_ (what is_connected() and send() read)
  retry_count,          \* retry_count_
  retry_timer,          \* "armed" while retry_timer_ has a wait outstanding
  io_thread,            \* io_thread_: "none", "running" or "exited"
  sock,                 \* TCP socket of the current ws_: "none", "open", "broken"
  pending,              \* bag of outstanding async operations of the session
  posted,               \* send lambdas posted to ioc_ and not yet run
  venue_subs,           \* subscriptions the venue holds on the current stream
  active_subscriptions, \* active_subscriptions_ of the venue connection
  incoming_queue,       \* incoming_queue_
  dropped,              \* some message was dropped at the queue cap
  app,                  \* application thread: where it is inside a call
  failures, extra, connects,  \* bound counters
  attempts_since_up     \* history: reconnect attempts since the last success
                        \* or the application's last connect()

vars == <<retry_enabled, connection_state, connected, retry_count,
          retry_timer, io_thread, sock, pending, posted, venue_subs, active_subscriptions,
          incoming_queue, dropped, app, failures, extra, connects,
          attempts_since_up>>

States   == {"Disconnected", "Connecting", "Connected", "WaitingRetry"}
AsyncOps == {"resolve", "connect", "ssl", "ws", "read", "aborted_read", "aborted_step"}

\* The operations of a ws_ stream; async_resolve uses its own resolver.
StreamOps == {"connect", "ssl", "ws", "read"}

\* Outbound messages: a subscribe for a pair, a pong, or a client ping.
SubMsg(s) == [kind |-> "sub", sub |-> s]
PongMsg   == [kind |-> "pong", sub |-> NoSub]
PingMsg   == [kind |-> "ping", sub |-> NoSub]
OutMsgs   == {SubMsg(s) : s \in Subs} \cup {PongMsg, PingMsg}
\* Inbound messages: book data for a pair, a venue ping, a subscription ack.
InMsgs    == [kind : {"data"}, sub : Subs]
               \cup [kind : {"ping", "ack"}, sub : {NoSub}]

Idle == [pc |-> "idle", sub |-> NoSub]

One(op) == SetToBag({op})

-----------------------------------------------------------------------------
(* Helpers shared by several handlers.                                     *)

\* BoostWebSocketClient::send: drop unless connected_, else post the write.
Send(m) == posted' = IF connected THEN Append(posted, m) ELSE posted

\* Variant of ScheduleReconnect giving up only once retry_count_ exceeds
\* the maximum (> for >=).
ScheduleReconnectLate(t) ==
  \/ /\ retry_count > MaxAttempts
     /\ connection_state' = "Disconnected"
     /\ retry_count' = retry_count
     /\ retry_timer' = t
  \/ /\ retry_count <= MaxAttempts
     /\ connection_state' = "WaitingRetry"
     /\ retry_count' = retry_count + 1
     /\ retry_timer' = "armed"

\* BoostWebSocketClient::schedule_reconnect, called while the retry timer is
\* in state t. Giving up leaves the timer alone: a wait armed by an earlier
\* call is still outstanding. Re-arming it (expires_after) cancels the
\* earlier wait, whose handler then returns on operation_aborted.
ScheduleReconnect(t) ==
  \/ /\ retry_count >= MaxAttempts
     /\ connection_state' = "Disconnected"
     /\ retry_count' = retry_count
     /\ retry_timer' = t
  \/ /\ retry_count < MaxAttempts
     /\ connection_state' = "WaitingRetry"
     /\ retry_count' = retry_count + 1
     /\ retry_timer' = "armed"

\* BoostWebSocketClient::close called on the io thread: connected_ is
\* cleared, ioc_ is stopped, and join() of the calling thread throws, which
\* ends run_io_context. Nothing else queued on ioc_ ever runs.
CloseOnIoThread ==
  /\ connected' = FALSE
  /\ io_thread' = "exited"
  /\ UNCHANGED <<connection_state, retry_count, retry_timer>>

\* Variant of LinkError that clears connected_ but never calls
\* schedule_reconnect.
LinkErrorNoSchedule ==
  \/ /\ retry_enabled
     /\ connected' = FALSE
     /\ UNCHANGED <<connection_state, retry_count, retry_timer, io_thread>>
  \/ /\ ~retry_enabled
     /\ CloseOnIoThread

\* Error branch of the read lambda and of the send lambda.
LinkError ==
  \/ /\ retry_enabled
     /\ connected' = FALSE
     /\ ScheduleReconnect(retry_timer)
     /\ UNCHANGED io_thread
  \/ /\ ~retry_enabled
     /\ CloseOnIoThread

\* A fresh ws_ stream: the TCP socket is not connected yet and the venue
\* knows no subscription on it.
NewStream == sock' = "none" /\ venue_subs' = {}

\* OkxConnection::resubscribe: one send() per registered pair, each of which
\* posts only if connected_ (c) reads TRUE.
Resubscribe(c) ==
  posted' = IF c THEN posted \o SetToSeq({SubMsg(s) : s \in active_subscriptions})
                 ELSE posted

\* The outstanding operations once ws_ is replaced: the destroyed stream
\* completes each of its operations with operation_aborted. An aborted
\* read runs the read lambda's error branch, an aborted handshake step the
\* error branch of its on_* handler.
Abort(b) ==
  LET nr == CopiesIn("read", b)
      ns == CopiesIn("connect", b) + CopiesIn("ssl", b) + CopiesIn("ws", b)
      Copies(op, n) == IF n = 0 THEN EmptyBag ELSE [x \in {op} |-> n]
  IN [e \in DOMAIN b \ StreamOps |-> b[e]]
       (+) Copies("aborted_read", nr) (+) Copies("aborted_step", ns)

\* One network fault of the bounded budget.
Fault == failures < MaxFail /\ failures' = failures + 1

-----------------------------------------------------------------------------
(* Application thread.                                                     *)

\* OkxConnection::subscribe up to the is_connected() check: register the
\* pair, then continue to send only if connected.
Subscribe(s) ==
  /\ app = Idle
  /\ s \notin active_subscriptions
  /\ active_subscriptions' = active_subscriptions \cup {s}
  /\ app' = IF connected THEN [pc |-> "send", sub |-> s] ELSE app
  /\ UNCHANGED <<retry_enabled, connection_state, connected, retry_count, retry_timer,
                 io_thread, sock, pending, posted, venue_subs, incoming_queue,
                 dropped, failures, extra, connects, attempts_since_up>>

\* The send loop of OkxConnection::subscribe.
SubscribeSend ==
  /\ app.pc = "send"
  /\ Send(SubMsg(app.sub))
  /\ app' = Idle
  /\ UNCHANGED <<retry_enabled, connection_state, connected, retry_count, retry_timer,
                 io_thread, sock, pending, venue_subs, active_subscriptions,
                 incoming_queue, dropped, failures, extra, connects,
                 attempts_since_up>>

\* OkxConnection::connect and BoostWebSocketClient::connect up to the
\* blocking resolve: state Connecting, io thread started if it never was,
\* and a new stream replaces ws_. The application retries a session only
\* once it is Disconnected.
ConnectStart ==
  /\ app = Idle
  /\ connection_state = "Disconnected"
  /\ connects < MaxConnects
  /\ connects' = connects + 1
  /\ connection_state' = "Connecting"
  /\ connected' = FALSE
  /\ io_thread' = IF io_thread = "none" THEN "running" ELSE io_thread
  /\ NewStream
  /\ attempts_since_up' = 0
  /\ pending' = Abort(pending)
  /\ app' = [pc |-> "connecting", sub |-> NoSub]
  /\ UNCHANGED <<retry_enabled, retry_count, retry_timer, posted,
                 active_subscriptions, incoming_queue, dropped, failures,
                 extra>>

\* The blocking resolve, connect, TLS and WebSocket handshakes of connect():
\* on success Connected with a read outstanding; on an exception a retry is
\* scheduled (from the application thread) or the session is Disconnected.
ConnectFinish ==
  /\ app.pc = "connecting"
  /\ \/ /\ sock' = "open"
        /\ connected' = TRUE
        /\ connection_state' = "Connected"
        /\ retry_count' = 0
        /\ pending' = pending (+) One("read")
        /\ app' = [pc |-> "resub", sub |-> NoSub]
        /\ UNCHANGED <<retry_timer, failures>>
     \/ /\ Fault
        /\ \/ retry_enabled /\ ScheduleReconnect(retry_timer)
           \/ /\ ~retry_enabled
              /\ connection_state' = "Disconnected"
              /\ UNCHANGED <<retry_count, retry_timer>>
        /\ app' = Idle
        /\ UNCHANGED <<sock, connected, pending>>
  /\ UNCHANGED <<retry_enabled, io_thread, posted, venue_subs, active_subscriptions,
                 incoming_queue, dropped, extra, connects, attempts_since_up>>

\* OkxConnection::connect after a successful connect(): resubscribe().
ConnectResub ==
  /\ app.pc = "resub"
  /\ Resubscribe(connected)
  /\ app' = Idle
  /\ UNCHANGED <<retry_enabled, connection_state, connected, retry_count, retry_timer,
                 io_thread, sock, pending, venue_subs, active_subscriptions,
                 incoming_queue, dropped, failures, extra, connects,
                 attempts_since_up>>

\* One turn of the loop in OkxConnection::poll: take the next message and
\* dispatch it (process_message): a ping is answered with a pong; an ack
\* is logged; book data is published and handed to the callback.
Poll ==
  /\ app = Idle
  /\ incoming_queue # <<>>
  /\ incoming_queue' = Tail(incoming_queue)
  /\ IF Head(incoming_queue).kind = "ping" THEN Send(PongMsg)
                                           ELSE UNCHANGED posted
  /\ UNCHANGED <<retry_enabled, connection_state, connected, retry_count, retry_timer,
                 io_thread, sock, pending, venue_subs, active_subscriptions,
                 dropped, app, failures, extra, connects, attempts_since_up>>

\* OkxConnection::send_heartbeat.
Heartbeat ==
  /\ app = Idle
  /\ extra < MaxExtra
  /\ extra' = extra + 1
  /\ Send(PingMsg)
  /\ UNCHANGED <<retry_enabled, connection_state, connected, retry_count, retry_timer,
                 io_thread, sock, pending, venue_subs, active_subscriptions,
                 incoming_queue, dropped, app, failures, connects,
                 attempts_since_up>>

-----------------------------------------------------------------------------
(* io_context thread. Every handler runs only while run_io_context runs.   *)

IoRuns == io_thread = "running"

\* Destroying a stream queues the operation_aborted completions of its
\* outstanding operations at once; io_context runs ready handlers in order,
\* so they run before any completion of the operations started afterwards.
AbortsDelivered ==
  CopiesIn("aborted_read", pending) + CopiesIn("aborted_step", pending) = 0

\* A step of the reconnect chain fails: the step is on a broken socket, or
\* the network fails it (resolve, connect and handshake errors).
StepFails == (sock = "broken" /\ UNCHANGED failures) \/ Fault

\* The retry timer expires: the async_wait handler calls
\* attempt_reconnect_async, which replaces ws_ and starts async_resolve, or
\* on an SNI failure schedules the next attempt. Destroying the old stream
\* aborts what is still outstanding on it. With ErrorReapedFirst the error
\* of the dead socket, which failed the write that armed the timer, has
\* completed the outstanding read before the expiry is handled (the
\* reactor queues a socket's completions ahead of the timers it finds
\* expired). Nothing in the client enforces that order: without it the
\* expiry may come first, e.g. with WS_RETRY_INITIAL_DELAY_MS=0.
TimerFire ==
  /\ IoRuns /\ AbortsDelivered
  /\ retry_timer = "armed"
  /\ ErrorReapedFirst => ~(BagIn("read", pending) /\ sock = "broken")
  /\ NewStream
  /\ attempts_since_up' = attempts_since_up + 1
  /\ \/ /\ connection_state' = "Connecting"
        /\ retry_timer' = "idle"
        /\ pending' = Abort(pending) (+) One("resolve")
        /\ UNCHANGED <<retry_count, failures>>
     \/ /\ Fault
        /\ ScheduleReconnect("idle")
        /\ pending' = Abort(pending)
  /\ UNCHANGED <<retry_enabled, connected, io_thread, posted, active_subscriptions,
                 incoming_queue, dropped, app, extra, connects>>

\* The completion handlers on_resolve, on_connect and on_ssl_handshake: on
\* an error schedule_reconnect, else start the next asynchronous step.
\* async_connect opens the TCP socket of the current stream.
HandshakeStep(op, next) ==
  /\ IoRuns /\ AbortsDelivered
  /\ BagIn(op, pending)
  /\ \/ /\ sock /= "broken"
        /\ pending' = (pending (-) One(op)) (+) One(next)
        /\ sock' = IF op = "connect" THEN "open" ELSE sock
        /\ UNCHANGED <<connection_state, retry_count, retry_timer, failures>>
     \/ /\ StepFails
        /\ pending' = pending (-) One(op)
        /\ ScheduleReconnect(retry_timer)
        /\ UNCHANGED sock
  /\ UNCHANGED <<retry_enabled, connected, io_thread, posted, venue_subs,
                 active_subscriptions, incoming_queue, dropped, app, extra,
                 connects, attempts_since_up>>

ResolveDone == HandshakeStep("resolve", "connect")
ConnectDone == HandshakeStep("connect", "ssl")
SslDone     == HandshakeStep("ssl", "ws")

\* Variant of WsDone that runs the reconnect callback before connected_ is
\* set, so that every send() of resubscribe() sees connected_ false.
WsDoneCallbackFirst ==
  /\ IoRuns /\ AbortsDelivered
  /\ BagIn("ws", pending)
  /\ \/ /\ sock = "open"
        /\ connected' = TRUE
        /\ connection_state' = "Connected"
        /\ retry_count' = 0
        /\ attempts_since_up' = 0
        /\ Resubscribe(connected)
        /\ pending' = (pending (-) One("ws")) (+) One("read")
        /\ UNCHANGED <<retry_timer, failures>>
     \/ /\ StepFails
        /\ pending' = pending (-) One("ws")
        /\ ScheduleReconnect(retry_timer)
        /\ UNCHANGED <<connected, posted, attempts_since_up>>
  /\ UNCHANGED <<retry_enabled, io_thread, sock, venue_subs, active_subscriptions,
                 incoming_queue, dropped, app, extra, connects>>

\* on_handshake: on an error schedule_reconnect; on success connected_ is
\* set, the state is Connected, retry_count_ is reset, the reconnect
\* callback (OkxConnection::resubscribe) runs, and the read loop starts.
WsDone ==
  /\ IoRuns /\ AbortsDelivered
  /\ BagIn("ws", pending)
  /\ \/ /\ sock = "open"
        /\ connected' = TRUE
        /\ connection_state' = "Connected"
        /\ retry_count' = 0
        /\ attempts_since_up' = 0
        /\ Resubscribe(TRUE)
        /\ pending' = (pending (-) One("ws")) (+) One("read")
        /\ UNCHANGED <<retry_timer, failures>>
     \/ /\ StepFails
        /\ pending' = pending (-) One("ws")
        /\ ScheduleReconnect(retry_timer)
        /\ UNCHANGED <<connected, posted, attempts_since_up>>
  /\ UNCHANGED <<retry_enabled, io_thread, sock, venue_subs, active_subscriptions,
                 incoming_queue, dropped, app, extra, connects>>

\* The async_read handler with an error: the read loop ends.
ReadError ==
  /\ IoRuns /\ AbortsDelivered
  /\ BagIn("read", pending)
  /\ sock = "broken"
  /\ pending' = pending (-) One("read")
  /\ LinkError
  /\ UNCHANGED <<retry_enabled, sock, posted, venue_subs, active_subscriptions,
                 incoming_queue, dropped, app, failures, extra, connects,
                 attempts_since_up>>

\* The handler of an operation of a replaced stream runs with
\* operation_aborted: the read lambda takes its error branch (LinkError);
\* on_connect, on_ssl_handshake and on_handshake call schedule_reconnect.
AbortedDone ==
  /\ IoRuns
  /\ \/ /\ BagIn("aborted_read", pending)
        /\ pending' = pending (-) One("aborted_read")
        /\ LinkError
     \/ /\ BagIn("aborted_step", pending)
        /\ pending' = pending (-) One("aborted_step")
        /\ ScheduleReconnect(retry_timer)
        /\ UNCHANGED <<connected, io_thread>>
  /\ UNCHANGED <<retry_enabled, sock, posted, venue_subs, active_subscriptions,
                 incoming_queue, dropped, app, failures, extra, connects,
                 attempts_since_up>>

\* Variant of ReadMessage without the size_approx() check.
ReadMessageUncapped(m) ==
  /\ IoRuns /\ AbortsDelivered
  /\ BagIn("read", pending)
  /\ sock = "open"
  /\ \/ m.kind = "data" /\ m.sub \in venue_subs /\ UNCHANGED extra
     \/ m.kind = "ack" /\ venue_subs /= {} /\ UNCHANGED extra
     \/ m.kind = "ping" /\ extra < MaxExtra /\ extra' = extra + 1
  /\ incoming_queue' = Append(incoming_queue, m)
  /\ UNCHANGED <<retry_enabled, connection_state, connected, retry_count, retry_timer,
                 io_thread, sock, pending, posted, venue_subs,
                 active_subscriptions, dropped, app, failures, connects,
                 attempts_since_up>>

\* The async_read handler with a message m from the venue: enqueue it unless
\* size_approx() has reached MAX_INCOMING_QUEUE_SIZE, then read again. The
\* venue sends book data only for pairs it holds, acks once it holds one,
\* and pings within the bounded budget.
ReadMessage(m) ==
  /\ IoRuns /\ AbortsDelivered
  /\ BagIn("read", pending)
  /\ sock = "open"
  /\ \/ m.kind = "data" /\ m.sub \in venue_subs /\ UNCHANGED extra
     \/ m.kind = "ack" /\ venue_subs /= {} /\ UNCHANGED extra
     \/ m.kind = "ping" /\ extra < MaxExtra /\ extra' = extra + 1
  /\ IF Len(incoming_queue) < QueueCap
       THEN incoming_queue' = Append(incoming_queue, m) /\ UNCHANGED dropped
       ELSE dropped' = TRUE /\ UNCHANGED incoming_queue
  /\ UNCHANGED <<retry_enabled, connection_state, connected, retry_count, retry_timer,
                 io_thread, sock, pending, posted, venue_subs,
                 active_subscriptions, app, failures, connects,
                 attempts_since_up>>

\* Variant of WriteRun whose lambda does not recheck connected_: it writes
\* to whatever ws_ is current when it runs.
WriteRunNoRecheck ==
  /\ IoRuns
  /\ posted /= <<>>
  /\ posted' = Tail(posted)
  /\ \/ /\ sock = "open"
        /\ venue_subs' = IF Head(posted).kind = "sub"
                         THEN venue_subs \cup {Head(posted).sub}
                         ELSE venue_subs
        /\ UNCHANGED <<connection_state, connected, retry_count, retry_timer,
                       io_thread>>
     \/ /\ sock /= "open"
        /\ LinkError
        /\ UNCHANGED venue_subs
  /\ UNCHANGED <<retry_enabled, sock, pending, active_subscriptions, incoming_queue, dropped,
                 app, failures, extra, connects, attempts_since_up>>

\* A send lambda runs: it returns if connected_ is false; else it writes to
\* the current ws_; a write error takes the same path as a read error.
\* A subscribe written on a live socket registers the pair at the venue.
WriteRun ==
  /\ IoRuns
  /\ posted /= <<>>
  /\ posted' = Tail(posted)
  /\ \/ /\ ~connected
        /\ UNCHANGED <<connection_state, connected, retry_count, retry_timer,
                       io_thread, venue_subs>>
     \/ /\ connected /\ sock = "open"
        /\ venue_subs' = IF Head(posted).kind = "sub"
                         THEN venue_subs \cup {Head(posted).sub}
                         ELSE venue_subs
        /\ UNCHANGED <<connection_state, connected, retry_count, retry_timer,
                       io_thread>>
     \/ /\ connected /\ sock = "broken"
        /\ LinkError
        /\ UNCHANGED venue_subs
  /\ UNCHANGED <<retry_enabled, sock, pending, active_subscriptions, incoming_queue, dropped,
                 app, failures, extra, connects, attempts_since_up>>

-----------------------------------------------------------------------------
(* Network.                                                                *)

\* The TCP connection of the current stream dies (or
\* simulate_network_failure closes it); the venue forgets its subscriptions.
Break ==
  /\ sock = "open"
  /\ Fault
  /\ sock' = "broken"
  /\ venue_subs' = {}
  /\ UNCHANGED <<retry_enabled, connection_state, connected, retry_count, retry_timer,
                 io_thread, pending, posted, active_subscriptions,
                 incoming_queue, dropped, app, extra, connects,
                 attempts_since_up>>

-----------------------------------------------------------------------------

\* A constructed client: Disconnected (the header's initial value), no io
\* thread yet, no stream, nothing registered.
Init ==
  /\ retry_enabled \in BOOLEAN
  /\ connection_state = "Disconnected"
  /\ connected = FALSE
  /\ retry_count = 0
  /\ retry_timer = "idle"
  /\ io_thread = "none"
  /\ sock = "none"
  /\ pending = EmptyBag
  /\ posted = <<>>
  /\ venue_subs = {}
  /\ active_subscriptions = {}
  /\ incoming_queue = <<>>
  /\ dropped = FALSE
  /\ app = Idle
  /\ failures = 0 /\ extra = 0 /\ connects = 0
  /\ attempts_since_up = 0

Next ==
  \/ \E s \in Subs : Subscribe(s)
  \/ SubscribeSend \/ ConnectStart \/ ConnectFinish \/ ConnectResub
  \/ Poll \/ Heartbeat
  \/ TimerFire \/ ResolveDone \/ ConnectDone \/ SslDone \/ WsDone
  \/ ReadError \/ \E m \in InMsgs : ReadMessage(m) \/ WriteRun
  \/ Break

\* The io thread drains its queue and completes every started operation;
\* the application thread finishes a call it is inside. The application's
\* own calls, the venue's messages and network faults are not fair.
Fairness ==
  /\ WF_vars(TimerFire) /\ WF_vars(ResolveDone) /\ WF_vars(ConnectDone)
  /\ WF_vars(SslDone) /\ WF_vars(WsDone) /\ WF_vars(ReadError)
  /\ WF_vars(WriteRun)
  /\ WF_vars(SubscribeSend) /\ WF_vars(ConnectFinish) /\ WF_vars(ConnectResub)

Spec == Init /\ [][Next]_vars /\ Fairness

\* With ErrorReapedFirst a replaced stream has nothing outstanding (the
\* application connects once); without it, its aborted completions run.
RaceNext == Next \/ AbortedDone
RaceSpec == Init /\ [][RaceNext]_vars /\ Fairness /\ WF_vars(AbortedDone)

-----------------------------------------------------------------------------
(* Properties.                                                             *)

TypeOK ==
  /\ retry_enabled \in BOOLEAN
  /\ connection_state \in States
  /\ connected \in BOOLEAN
  /\ retry_count \in 0..MaxAttempts
  /\ retry_timer \in {"idle", "armed"}
  /\ io_thread \in {"none", "running", "exited"}
  /\ sock \in {"none", "open", "broken"}
  /\ IsABag(pending) /\ BagToSet(pending) \subseteq AsyncOps
  /\ posted \in Seq(OutMsgs)
  /\ venue_subs \subseteq active_subscriptions
  /\ active_subscriptions \subseteq Subs
  /\ incoming_queue \in Seq(InMsgs) /\ Len(incoming_queue) <= QueueCap
  /\ dropped \in BOOLEAN
  /\ app \in [pc : {"idle", "send", "connecting", "resub"}, sub : Subs \cup {NoSub}]
  /\ failures \in 0..MaxFail /\ extra \in 0..MaxExtra
  /\ connects \in 0..MaxConnects /\ attempts_since_up \in Nat

\* Number of reconnection attempts in progress: a retry wait, an async
\* handshake step of attempt_reconnect_async, or the blocking connect().
AttemptsInProgress ==
  (IF retry_timer = "armed" THEN 1 ELSE 0)
    + BagCardinality(pending) - CopiesIn("read", pending)
    - CopiesIn("aborted_read", pending)
    + (IF app.pc = "connecting" THEN 1 ELSE 0)

\* schedule_reconnect, the completion handlers and the read and send lambdas
\* never start a second reconnection chain beside a running one (which
\* would replace ws_ under the other's pending operations), the read loop
\* runs at most once, and a read is outstanding during an attempt only on
\* the dead socket that the attempt is replacing.
OneAttemptAtATime ==
  /\ AttemptsInProgress <= 1
  /\ CopiesIn("read", pending) <= 1
  /\ AttemptsInProgress = 1 /\ BagIn("read", pending)
       => sock = "broken" /\ retry_timer = "armed"

\* schedule_reconnect gives up once retry_count_ reaches
\* retry_max_attempts_: attempt_reconnect_async never runs more than
\* MaxAttempts times without a successful handshake in between.
RetryBudget == attempts_since_up <= MaxAttempts

\* With retries enabled, once the application has registered a pair with
\* subscribe() and the session is Connected, the venue eventually holds the subscription, by the
\* send in subscribe(), the resubscribe() after connect() or the
\* resubscribe() of the reconnect callback, unless the session leaves
\* Connected first.
SubscriptionsRestored ==
  \A s \in Subs :
    (retry_enabled /\ s \in active_subscriptions /\ connection_state = "Connected")
      ~> (s \in venue_subs \/ connection_state /= "Connected")

\* With retries enabled, a session whose socket has died, or that is
\* inside a reconnection (a retry wait, the async handshake chain or the
\* blocking connect()), eventually either is Connected again with
\* connected_ set on a live socket, or has given up (Disconnected): the read
\* error, schedule_reconnect, the timer handler and the handshake handlers
\* never leave it stuck in between, whatever faults hit the attempts.
RecoveryEnds ==
  (retry_enabled /\ (sock = "broken" \/ connection_state \in {"Connecting", "WaitingRetry"}))
    ~> (\/ connection_state = "Connected" /\ connected /\ sock = "open"
        \/ connection_state = "Disconnected")

\* After schedule_reconnect gives up, the session remains Disconnected
\* until the application calls connect() again (spec, section C5).
GiveUpIsFinal ==
  [][connection_state = "Disconnected" /\ connection_state' /= "Disconnected"
       => connects' = connects + 1]_vars

=============================================================================
