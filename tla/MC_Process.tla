------------------------------ MODULE MC_Process ------------------------------
(***************************************************************************)
(* The two parts of the process that run on the DPDK side, each checked in *)
(* a lane of its own: the forwarding dataplane with its ring consumer      *)
(* (Forwarding) and the shutdown of main, the worker lcore, the loggers    *)
(* and the sessions' io threads (Shutdown). They share no variable of the  *)
(* models: Shutdown abstracts the loop to its exit on force_quit. A        *)
(* behaviour picks its lane at the start, and fairness is stated for the   *)
(* steps of a lane only.                                                   *)
(***************************************************************************)
EXTENDS Naturals, Sequences

CONSTANTS b1, b2, b3

VARIABLES
  lane,
  refcnt, cls, has_virt, phy_rx, pc, pkts, i, ktx, ring, held,
  virt_tx, virt_rx, phy_tx,
  force_quit, main_pc, dk, worker_pc, log_open, lpc, sink, lines, lost,
  connected, posted, stopped, io, frame_sent, closing

fwdvars == <<refcnt, cls, has_virt, phy_rx, pc, pkts, i, ktx, ring, held,
             virt_tx, virt_rx, phy_tx>>
shutvars == <<force_quit, main_pc, dk, worker_pc, log_open, lpc, sink, lines,
              lost, connected, posted, stopped, io, frame_sent, closing>>
vars == <<lane, fwdvars, shutvars>>

\* Forwarding: three buffers, bursts of two, a ring of three slots (two
\* usable), RX queues of two.
Fw == INSTANCE Forwarding
        WITH Mbufs <- {b1, b2, b3}, BurstSize <- 2, RingSize <- 3, RxDescs <- 2

\* Shutdown: main.cpp destroys bybit_conn, then okx_conn; one log line per
\* thread.
S == INSTANCE Shutdown WITH DestroyOrder <- <<"bybit", "okx">>, MaxLines <- 1

Init ==
  /\ lane \in {"fwd", "shut"}
  /\ Fw!Init /\ S!Init

FwdStep(A) == lane = "fwd" /\ A /\ UNCHANGED <<lane, shutvars>>
ShutStep(A) == lane = "shut" /\ A /\ UNCHANGED <<lane, fwdvars>>

Next == FwdStep(Fw!Next) \/ ShutStep(S!Next)

\* Forwarding's fairness: the loop, the PMDs, the kernel and the consumer.
FwdFairness ==
  /\ WF_vars(FwdStep(Fw!Loop)) /\ WF_vars(FwdStep(Fw!KernelReceive))
  /\ WF_vars(FwdStep(Fw!PhyTxDone)) /\ WF_vars(FwdStep(Fw!ConsumerDequeue))
  /\ \A m \in {b1, b2, b3} : WF_vars(FwdStep(Fw!ConsumerFree(m)))

\* Shutdown's fairness: every thread with work runs.
ShutFairness ==
  /\ WF_vars(ShutStep(S!WorkerLogEnd)) /\ WF_vars(ShutStep(S!WorkerExit))
  /\ WF_vars(ShutStep(S!MainLogEnd)) /\ WF_vars(ShutStep(S!StartForwarding))
  /\ WF_vars(ShutStep(S!ForwardExit)) /\ WF_vars(ShutStep(S!WaitWorker))
  /\ WF_vars(ShutStep(S!ClosePorts)) /\ WF_vars(ShutStep(S!MainLoggingShutdown))
  /\ WF_vars(ShutStep(S!EalCleanup)) /\ WF_vars(ShutStep(S!SignalQuit))
  /\ WF_vars(ShutStep(S!ClosePost)) /\ WF_vars(ShutStep(S!CloseStop))
  /\ WF_vars(ShutStep(S!CloseJoin))
  /\ \A s \in S!Sessions :
       /\ WF_vars(ShutStep(S!IoLogEnd(s))) /\ WF_vars(ShutStep(S!IoRunClose(s)))
       /\ WF_vars(ShutStep(S!IoExit(s)))

Spec == Init /\ [][Next]_vars /\ FwdFairness /\ ShutFairness

-----------------------------------------------------------------------------
(* Properties                                                              *)

\* Every mbuf's reference count equals the places that hold it, across
\* partial tx_bursts, a full ring and the ring's consumer: no double free,
\* no use after free, no leak.
RefcountExact == Fw!RefcountExact

\* Spec 4.2: a FAST packet is on the kernel path and in the ring at most
\* once each, and only FAST packets are in the ring.
RingHoldsDuplicates == Fw!RingHoldsDuplicates

\* Every buffer taken from the pool is eventually returned to it.
BuffersReturn == Fw!BuffersReturn

\* After a signal, main leaves the forwarding loop, the worker and every
\* session's io thread return, and main returns.
ShutdownCompletes == S!ShutdownCompletes

=============================================================================
