------------------------------ MODULE Shutdown ------------------------------
(***************************************************************************)
(* The process around the dataplane and the sessions (main.cpp, init.h,    *)
(* logging.cpp, BoostWebSocketClient::close and run_io_context): the main  *)
(* thread, the SIGINT/SIGTERM handler, the run_logger worker lcore and one *)
(* Boost.Asio io thread per venue session, all writing to the system log   *)
(* through LOG_SYSTEM.                                                     *)
(*                                                                         *)
(* LOG_SYSTEM picks a stream with get_system_log_stream (the file while it *)
(* is open, std::cout after logging_shutdown) and writes the line with     *)
(* several operator<< calls: LogBegin is the choice and the timestamp,     *)
(* LogEnd the rest of the line. No lock is taken between them.            *)
(*                                                                         *)
(* After force_quit, main leaves lcore_forward_loop, waits for the worker, *)
(* closes the ports, shuts logging down, cleans up the EAL and returns;    *)
(* then the destructors of bybit_conn and okx_conn call close() on their   *)
(* sessions: post a WebSocket close when connected_, ioc_.stop(), join.    *)
(***************************************************************************)
EXTENDS Naturals, Sequences

CONSTANTS
  DestroyOrder, \* the sessions in the order main's locals are destroyed
  MaxLines      \* bound: LOG_SYSTEM lines per thread

Sessions == {DestroyOrder[k] : k \in DOMAIN DestroyOrder}

Threads == {"main", "signal", "worker"} \cup Sessions

VARIABLES
  force_quit,   \* volatile bool force_quit
  main_pc,      \* where main is
  dk,           \* which local main is destroying (index in DestroyOrder)
  worker_pc,    \* run_logger: "loop" or "done"
  log_open,     \* system_log_file.is_open()
  lpc,          \* per thread: "idle" or "mid" (between LogBegin and LogEnd)
  sink,         \* per thread: the stream its current line goes to
  lines,        \* per thread: lines begun, bounded by MaxLines
  lost,         \* a line piece was written into a closed ofstream
  connected,    \* per session: connected_
  posted,       \* per session: the close lambda posted by close()
  stopped,      \* per session: ioc_.stop() called
  io,           \* per session: "running" or "done" (run_io_context returned)
  frame_sent,   \* per session: ws_->close() ran on the io thread
  closing       \* per session: connected_ was true when close() ran

vars == <<force_quit, main_pc, dk, worker_pc, log_open, lpc, sink, lines, lost,
          connected, posted, stopped, io, frame_sent, closing>>

logvars == <<log_open, lpc, sink, lines, lost>>
sessvars == <<connected, posted, stopped, io, frame_sent, closing>>

MainPcs ==
  {"startup", "forward", "wait_worker", "close_ports", "log_shutdown",
   "eal_cleanup", "post", "stop", "join", "done"}

Init ==
  /\ force_quit = FALSE
  /\ main_pc = "startup"
  /\ dk = 1
  /\ worker_pc = "loop"
  /\ log_open = TRUE
  /\ lpc = [t \in Threads |-> "idle"]
  /\ sink = [t \in Threads |-> "file"]
  /\ lines = [t \in Threads |-> 0]
  /\ lost = FALSE
  /\ connected = [s \in Sessions |-> FALSE]
  /\ posted = [s \in Sessions |-> FALSE]
  /\ stopped = [s \in Sessions |-> FALSE]
  /\ io = [s \in Sessions |-> "running"]
  /\ frame_sent = [s \in Sessions |-> FALSE]
  /\ closing = [s \in Sessions |-> FALSE]

-----------------------------------------------------------------------------
(* LOG_SYSTEM, from any thread that may log at this point.                 *)

\* get_system_log_stream() and the timestamp.
LogBegin(t) ==
  /\ lpc[t] = "idle"
  /\ lines[t] < MaxLines
  /\ sink' = [sink EXCEPT ![t] = IF log_open THEN "file" ELSE "cout"]
  /\ lpc' = [lpc EXCEPT ![t] = "mid"]
  /\ lines' = [lines EXCEPT ![t] = @ + 1]
  /\ UNCHANGED <<log_open, lost>>

\* << " [SYSTEM] " << msg << std::endl on the stream chosen before.
LogEnd(t) ==
  /\ lpc[t] = "mid"
  /\ lpc' = [lpc EXCEPT ![t] = "idle"]
  /\ lost' = (lost \/ (sink[t] = "file" /\ ~log_open))
  /\ UNCHANGED <<log_open, sink, lines>>

\* logging_shutdown: close the file if it is open.
LoggingShutdown ==
  /\ log_open' = FALSE
  /\ UNCHANGED <<lpc, sink, lines, lost>>

-----------------------------------------------------------------------------
(* The signal handler and the run_logger worker.                           *)

\* signal_handler: LOG_SYSTEM("Signal ... received"), then force_quit.
SignalLog ==
  /\ main_pc /= "done"
  /\ LogBegin("signal")
  /\ UNCHANGED <<force_quit, main_pc, dk, worker_pc, sessvars>>

SignalQuit ==
  /\ LogEnd("signal")
  /\ force_quit' = TRUE
  /\ UNCHANGED <<main_pc, dk, worker_pc, sessvars>>

\* run_logger: LOG_SYSTEM("Reference Logger running ...").
WorkerLog ==
  /\ worker_pc = "loop"
  /\ lines["worker"] = 0
  /\ LogBegin("worker")
  /\ UNCHANGED <<force_quit, main_pc, dk, worker_pc, sessvars>>

WorkerLogEnd ==
  /\ LogEnd("worker")
  /\ UNCHANGED <<force_quit, main_pc, dk, worker_pc, sessvars>>

\* while (!force_quit) sleep; return 0.
WorkerExit ==
  /\ worker_pc = "loop"
  /\ force_quit
  /\ lpc["worker"] = "idle"
  /\ worker_pc' = "done"
  /\ UNCHANGED <<force_quit, main_pc, dk, logvars, sessvars>>

-----------------------------------------------------------------------------
(* The io thread of each session.                                          *)

\* A completion handler that logs (reconnect chain, read errors, etc.).
\* Once ioc_.stop() is called no new handler starts.
IoLog(s) ==
  /\ io[s] = "running" /\ ~stopped[s]
  /\ LogBegin(s)
  /\ UNCHANGED <<force_quit, main_pc, dk, worker_pc, sessvars>>

IoLogEnd(s) ==
  /\ LogEnd(s)
  /\ UNCHANGED <<force_quit, main_pc, dk, worker_pc, sessvars>>

\* on_handshake sets connected_; a read error clears it.
IoLink(s) ==
  /\ io[s] = "running" /\ ~stopped[s] /\ lpc[s] = "idle"
  /\ connected' = [connected EXCEPT ![s] = ~@]
  /\ UNCHANGED <<force_quit, main_pc, dk, worker_pc, logvars, posted, stopped,
                 io, frame_sent, closing>>

\* The lambda posted by close(): ws_->close(normal).
IoRunClose(s) ==
  /\ io[s] = "running" /\ ~stopped[s] /\ lpc[s] = "idle"
  /\ posted[s]
  /\ posted' = [posted EXCEPT ![s] = FALSE]
  /\ frame_sent' = [frame_sent EXCEPT ![s] = TRUE]
  /\ UNCHANGED <<force_quit, main_pc, dk, worker_pc, logvars, connected,
                 stopped, io, closing>>

\* ioc_.run() returns once stopped and no handler is running; pending
\* handlers are left in the queue.
IoExit(s) ==
  /\ io[s] = "running" /\ stopped[s] /\ lpc[s] = "idle"
  /\ io' = [io EXCEPT ![s] = "done"]
  /\ UNCHANGED <<force_quit, main_pc, dk, worker_pc, logvars, connected,
                 posted, stopped, frame_sent, closing>>

-----------------------------------------------------------------------------
(* The main thread.                                                        *)

\* LOG_SYSTEM calls of main after the sessions' connect() (the io threads
\* already run), before the forwarding loop.
MainLog ==
  /\ main_pc = "startup"
  /\ dk = 1
  /\ LogBegin("main")
  /\ UNCHANGED <<force_quit, main_pc, dk, worker_pc, sessvars>>

MainLogEnd ==
  /\ LogEnd("main")
  /\ UNCHANGED <<force_quit, main_pc, dk, worker_pc, sessvars>>

\* Step of main from one point of its sequence to the next.
MainGo(from, to) ==
  /\ main_pc = from
  /\ main_pc' = to
  /\ UNCHANGED <<force_quit, worker_pc, dk>>

\* lcore_forward_loop(classifier) after the start-up calls.
StartForwarding ==
  /\ lpc["main"] = "idle"
  /\ MainGo("startup", "forward")
  /\ UNCHANGED <<logvars, sessvars>>

\* while (!force_quit) in lcore_forward_loop.
ForwardExit ==
  /\ force_quit
  /\ MainGo("forward", "wait_worker")
  /\ UNCHANGED <<logvars, sessvars>>

\* rte_eal_wait_lcore(worker_core_id).
WaitWorker ==
  /\ worker_pc = "done"
  /\ MainGo("wait_worker", "close_ports")
  /\ UNCHANGED <<logvars, sessvars>>

\* close_ports(): printf only, no LOG_SYSTEM.
ClosePorts ==
  /\ MainGo("close_ports", "log_shutdown")
  /\ UNCHANGED <<logvars, sessvars>>

MainLoggingShutdown ==
  /\ MainGo("log_shutdown", "eal_cleanup")
  /\ LoggingShutdown
  /\ UNCHANGED sessvars

\* rte_eal_cleanup(); return 0 runs the destructors of main's locals.
EalCleanup ==
  /\ MainGo("eal_cleanup", "post")
  /\ UNCHANGED <<logvars, sessvars>>

\* close(): connected_.exchange(false); post the close lambda when it was
\* connected.
ClosePost ==
  LET s == DestroyOrder[dk]
  IN /\ MainGo("post", "stop")
     /\ closing' = [closing EXCEPT ![s] = connected[s]]
     /\ posted' = [posted EXCEPT ![s] = connected[s]]
     /\ connected' = [connected EXCEPT ![s] = FALSE]
     /\ UNCHANGED <<logvars, stopped, io, frame_sent>>

\* Variant of CloseStop that joins without ioc_.stop().
CloseStopMissing ==
  /\ MainGo("stop", "join")
  /\ UNCHANGED <<logvars, sessvars>>

\* close(): ioc_.stop().
CloseStop ==
  LET s == DestroyOrder[dk]
  IN /\ MainGo("stop", "join")
     /\ stopped' = [stopped EXCEPT ![s] = TRUE]
     /\ UNCHANGED <<logvars, connected, posted, io, frame_sent, closing>>

\* close(): io_thread_.join(); then the next destructor, or the end.
CloseJoin ==
  /\ main_pc = "join"
  /\ io[DestroyOrder[dk]] = "done"
  /\ IF dk < Len(DestroyOrder)
     THEN main_pc' = "post" /\ dk' = dk + 1
     ELSE main_pc' = "done" /\ dk' = dk
  /\ UNCHANGED <<force_quit, worker_pc, logvars, sessvars>>

-----------------------------------------------------------------------------

Next ==
  \/ SignalLog \/ SignalQuit \/ WorkerLog \/ WorkerLogEnd \/ WorkerExit
  \/ MainLog \/ MainLogEnd \/ StartForwarding \/ ForwardExit \/ WaitWorker
  \/ ClosePorts \/ MainLoggingShutdown \/ EalCleanup
  \/ ClosePost \/ CloseStop \/ CloseJoin
  \/ \E s \in Sessions :
       IoLog(s) \/ IoLogEnd(s) \/ IoLink(s) \/ IoRunClose(s) \/ IoExit(s)

\* Every thread that has work runs: the lcores and io threads are not
\* starved by the scheduler. The signal, and what the venues cause, are
\* not forced.
Fairness ==
  /\ WF_vars(WorkerLogEnd) /\ WF_vars(WorkerExit) /\ WF_vars(MainLogEnd)
  /\ WF_vars(StartForwarding) /\ WF_vars(ForwardExit) /\ WF_vars(WaitWorker)
  /\ WF_vars(ClosePorts) /\ WF_vars(MainLoggingShutdown)
  /\ WF_vars(EalCleanup) /\ WF_vars(SignalQuit)
  /\ WF_vars(ClosePost) /\ WF_vars(CloseStop) /\ WF_vars(CloseJoin)
  /\ \A s \in Sessions :
       WF_vars(IoLogEnd(s)) /\ WF_vars(IoRunClose(s)) /\ WF_vars(IoExit(s))

Spec == Init /\ [][Next]_vars /\ Fairness

-----------------------------------------------------------------------------
(* Properties                                                              *)

TypeOK ==
  /\ force_quit \in BOOLEAN
  /\ main_pc \in MainPcs
  /\ dk \in DOMAIN DestroyOrder
  /\ worker_pc \in {"loop", "done"}
  /\ log_open \in BOOLEAN
  /\ lpc \in [Threads -> {"idle", "mid"}]
  /\ sink \in [Threads -> {"file", "cout"}]
  /\ lines \in [Threads -> 0..MaxLines]
  /\ lost \in BOOLEAN
  /\ connected \in [Sessions -> BOOLEAN]
  /\ posted \in [Sessions -> BOOLEAN]
  /\ stopped \in [Sessions -> BOOLEAN]
  /\ io \in [Sessions -> {"running", "done"}]
  /\ frame_sent \in [Sessions -> BOOLEAN]
  /\ closing \in [Sessions -> BOOLEAN]

\* Once force_quit is set (by the signal handler), main leaves the
\* forwarding loop, the worker returns, every session's close() gets its
\* io thread to return from ioc_.run() and main returns: nothing hangs in
\* rte_eal_wait_lcore or in io_thread_.join().
ShutdownCompletes == force_quit ~> main_pc = "done"

\* Spec 5: writes to a log sink are serialized by a per-sink mutex, so no
\* two threads are ever in the middle of a LOG_SYSTEM line on the same
\* stream.
LinesIntact ==
  \A t, u \in Threads :
    t /= u /\ lpc[t] = "mid" /\ lpc[u] = "mid" => sink[t] /= sink[u]

\* Spec 4.9: every LOG_SYSTEM line reaches the file or standard output;
\* none is written into the ofstream after logging_shutdown closed it.
NoLineLost == ~lost

\* Spec 4.9: closing a session that is connected triggers a WebSocket
\* close: by the time its io thread has returned, ws_->close() has run.
CloseFrameSent ==
  \A s \in Sessions : closing[s] /\ io[s] = "done" => frame_sent[s]

=============================================================================
