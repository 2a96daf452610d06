----------------------------- MODULE Forwarding -----------------------------
(***************************************************************************)
(* The forwarding dataplane (lcore_forward_loop, forwarding.cpp) and the   *)
(* packet buffers it moves: each mbuf of the pool carries a DPDK reference *)
(* count, and a pointer to it may sit in a NIC descriptor ring, in the      *)
(* loop's burst arrays, in the HFT ring or with the ring's consumer.       *)
(*                                                                         *)
(* The loop is one busy-polling thread and each of its phases is a step:   *)
(* ingress rx_burst, the per-packet classify/duplicate/enqueue, the batch  *)
(* tx_burst to the virtual port, and the egress bridge back to the         *)
(* physical port. Around it run the physical NIC (arrivals and transmit    *)
(* completions), the kernel behind the virtual port, and the downstream    *)
(* consumer of the HFT ring. The classifier's verdict is a property of the *)
(* packet fixed when it arrives (Classifier.tla models the function).      *)
(***************************************************************************)
EXTENDS Naturals, Sequences, FiniteSets, SequencesExt

CONSTANTS
  Mbufs,       \* the packet-buffer pool (MBUF_POOL)
  BurstSize,   \* BURST_SIZE
  RingSize,    \* the count passed to rte_ring_create (RING_SIZE)
  RxDescs      \* bound: descriptors of a port's RX queue holding packets

ASSUME BurstSize \in Nat \ {0} /\ RingSize \in Nat \ {0} /\ RxDescs \in Nat

\* rte_ring_create without RING_F_EXACT_SZ: one slot always stays empty.
RingCapacity == RingSize - 1

VARIABLES
  refcnt,     \* mbuf -> its reference count; 0 means back in the pool
  cls,        \* mbuf -> the classifier's verdict on the packet it holds
  has_virt,   \* virt_port_id != RTE_MAX_ETHPORTS (fixed at start-up)
  phy_rx,     \* packets received by the physical NIC, not yet polled
  pc,         \* phase of the loop: "rx", "classify", "egress"
  pkts,       \* pkts_burst[0 .. nb_rx)
  i,          \* the loop index over pkts_burst
  ktx,        \* kernel_tx_burst[0 .. k_idx)
  ring,       \* hft_ring, oldest first
  held,       \* mbufs the ring's consumer has dequeued and not yet freed
  virt_tx,    \* packets accepted by the virtual port's TX, kernel-bound
  virt_rx,    \* packets the kernel sent, waiting on the virtual port's RX
  phy_tx      \* packets accepted by the physical port's TX

vars == <<refcnt, cls, has_virt, phy_rx, pc, pkts, i, ktx, ring, held,
          virt_tx, virt_rx, phy_tx>>

Verdicts == {"HFT", "STANDARD"}

\* Number of occurrences of mbuf m in sequence s.
Count(s, m) == Cardinality({k \in 1..Len(s) : s[k] = m})

\* rte_pktmbuf_free of every mbuf of s: each loses one reference.
FreeSeq(rc, s) == [m \in Mbufs |-> rc[m] - Count(s, m)]

MinOf(a, b) == IF a < b THEN a ELSE b

-----------------------------------------------------------------------------
(* The forwarding loop (one iteration of while (!force_quit)).            *)

\* rte_eth_rx_burst on the physical port: up to BURST_SIZE packets; with
\* none the ingress block is skipped. The per-burst timestamp written into
\* dynfield1 changes no reference and is left out.
RxPhy ==
  /\ pc = "rx"
  /\ LET n == MinOf(Len(phy_rx), BurstSize) IN
       /\ pkts' = SubSeq(phy_rx, 1, n)
       /\ phy_rx' = SubSeq(phy_rx, n + 1, Len(phy_rx))
       /\ pc' = IF n > 0 THEN "classify" ELSE "egress"
  /\ i' = 0 /\ ktx' = <<>>
  /\ UNCHANGED <<refcnt, cls, has_virt, ring, held, virt_tx, virt_rx, phy_tx>>

\* Variant of Classify without the rte_pktmbuf_free of the duplicate when
\* the ring is full.
ClassifyKeepDuplicate ==
  /\ pc = "classify"
  /\ i < Len(pkts)
  /\ LET m == pkts[i + 1] IN
       /\ \/ /\ cls[m] = "HFT"
             /\ refcnt' = [refcnt EXCEPT ![m] = @ + 1]
             /\ ring' = IF Len(ring) < RingCapacity THEN Append(ring, m) ELSE ring
          \/ /\ cls[m] = "STANDARD"
             /\ UNCHANGED <<refcnt, ring>>
       /\ ktx' = Append(ktx, m)
  /\ i' = i + 1
  /\ UNCHANGED <<cls, has_virt, phy_rx, pc, pkts, held, virt_tx, virt_rx,
                 phy_tx>>

\* Variant of Classify whose HFT branch also falls through to the standard
\* path, putting the packet into kernel_tx_burst twice.
ClassifyFallThrough ==
  /\ pc = "classify"
  /\ i < Len(pkts)
  /\ LET m == pkts[i + 1] IN
       /\ \/ /\ cls[m] = "HFT"
             /\ Len(ring) < RingCapacity
             /\ refcnt' = [refcnt EXCEPT ![m] = @ + 1]
             /\ ring' = Append(ring, m)
             /\ ktx' = ktx \o <<m, m>>
          \/ /\ cls[m] = "HFT"
             /\ Len(ring) >= RingCapacity
             /\ UNCHANGED <<refcnt, ring>>
             /\ ktx' = ktx \o <<m, m>>
          \/ /\ cls[m] = "STANDARD"
             /\ UNCHANGED <<refcnt, ring>>
             /\ ktx' = Append(ktx, m)
  /\ i' = i + 1
  /\ UNCHANGED <<cls, has_virt, phy_rx, pc, pkts, held, virt_tx, virt_rx,
                 phy_tx>>

\* One turn of the classification loop on pkts_burst[i]. An HFT packet gets
\* a second reference (rte_pktmbuf_refcnt_update), which is handed to the
\* ring by rte_ring_sp_enqueue or released by rte_pktmbuf_free if the ring
\* is full; either way the original goes to kernel_tx_burst.
Classify ==
  /\ pc = "classify"
  /\ i < Len(pkts)
  /\ LET m == pkts[i + 1] IN
       /\ \/ /\ cls[m] = "HFT"
             /\ Len(ring) < RingCapacity
             /\ refcnt' = [refcnt EXCEPT ![m] = @ + 1]
             /\ ring' = Append(ring, m)
          \/ /\ cls[m] = "HFT"
             /\ Len(ring) >= RingCapacity
             /\ refcnt' = [refcnt EXCEPT ![m] = @ + 1 - 1]
             /\ UNCHANGED ring
          \/ /\ cls[m] = "STANDARD"
             /\ UNCHANGED <<refcnt, ring>>
       /\ ktx' = Append(ktx, m)
  /\ i' = i + 1
  /\ UNCHANGED <<cls, has_virt, phy_rx, pc, pkts, held, virt_tx, virt_rx,
                 phy_tx>>

\* After the loop: rte_eth_tx_burst of kernel_tx_burst to the virtual port,
\* which takes some prefix of the batch; the rest is freed. Without a
\* virtual port the whole batch is freed.
TxVirt ==
  /\ pc = "classify"
  /\ i = Len(pkts)
  /\ \/ /\ has_virt
        /\ \E nb_tx \in 0..Len(ktx) :
             /\ virt_tx' = virt_tx \o SubSeq(ktx, 1, nb_tx)
             /\ refcnt' = FreeSeq(refcnt, SubSeq(ktx, nb_tx + 1, Len(ktx)))
     \/ /\ ~has_virt
        /\ refcnt' = FreeSeq(refcnt, ktx)
        /\ UNCHANGED virt_tx
  /\ pc' = "egress"
  /\ pkts' = <<>> /\ ktx' = <<>> /\ i' = 0
  /\ UNCHANGED <<cls, has_virt, phy_rx, ring, held, virt_rx, phy_tx>>

\* Variant of Egress that drops what the physical port refuses without
\* freeing it.
EgressNoFree ==
  /\ pc = "egress"
  /\ \/ /\ has_virt
        /\ LET n == MinOf(Len(virt_rx), BurstSize) IN
             /\ virt_rx' = SubSeq(virt_rx, n + 1, Len(virt_rx))
             /\ \E nb_tx \in 0..n : phy_tx' = phy_tx \o SubSeq(virt_rx, 1, nb_tx)
     \/ /\ ~has_virt
        /\ UNCHANGED <<virt_rx, phy_tx>>
  /\ pc' = "rx"
  /\ UNCHANGED <<refcnt, cls, has_virt, phy_rx, pkts, i, ktx, ring, held,
                 virt_tx>>

\* Egress bridge: rte_eth_rx_burst on the virtual port, then
\* rte_eth_tx_burst of what was received to the physical port, which takes
\* some prefix; the rest is freed. Then the next iteration starts.
Egress ==
  /\ pc = "egress"
  /\ \/ /\ has_virt
        /\ LET n     == MinOf(Len(virt_rx), BurstSize)
               burst == SubSeq(virt_rx, 1, n)
           IN /\ virt_rx' = SubSeq(virt_rx, n + 1, Len(virt_rx))
              /\ \E nb_tx \in 0..n :
                   /\ phy_tx' = phy_tx \o SubSeq(burst, 1, nb_tx)
                   /\ refcnt' = FreeSeq(refcnt, SubSeq(burst, nb_tx + 1, n))
     \/ /\ ~has_virt
        /\ UNCHANGED <<refcnt, virt_rx, phy_tx>>
  /\ pc' = "rx"
  /\ UNCHANGED <<cls, has_virt, phy_rx, pkts, i, ktx, ring, held, virt_tx>>

-----------------------------------------------------------------------------
(* Around the loop: NICs, the kernel and the ring's consumer.              *)

\* The physical NIC receives a packet into an mbuf taken from the pool.
PhyArrive(m, v) ==
  /\ refcnt[m] = 0
  /\ Len(phy_rx) < RxDescs
  /\ refcnt' = [refcnt EXCEPT ![m] = 1]
  /\ cls' = [cls EXCEPT ![m] = v]
  /\ phy_rx' = Append(phy_rx, m)
  /\ UNCHANGED <<has_virt, pc, pkts, i, ktx, ring, held, virt_tx, virt_rx,
                 phy_tx>>

\* The kernel takes the oldest packet from the virtual port; the PMD frees
\* the mbuf once it is transmitted.
KernelReceive ==
  /\ virt_tx /= <<>>
  /\ refcnt' = [refcnt EXCEPT ![Head(virt_tx)] = @ - 1]
  /\ virt_tx' = Tail(virt_tx)
  /\ UNCHANGED <<cls, has_virt, phy_rx, pc, pkts, i, ktx, ring, held,
                 virt_rx, phy_tx>>

\* The kernel sends a packet out through the virtual port: its PMD receives
\* it into an mbuf from the pool.
KernelSend(m) ==
  /\ has_virt
  /\ refcnt[m] = 0
  /\ Len(virt_rx) < RxDescs
  /\ refcnt' = [refcnt EXCEPT ![m] = 1]
  /\ cls' = [cls EXCEPT ![m] = "STANDARD"]
  /\ virt_rx' = Append(virt_rx, m)
  /\ UNCHANGED <<has_virt, phy_rx, pc, pkts, i, ktx, ring, held, virt_tx,
                 phy_tx>>

\* The physical NIC completes a transmission and its PMD frees the mbuf.
PhyTxDone ==
  /\ phy_tx /= <<>>
  /\ refcnt' = [refcnt EXCEPT ![Head(phy_tx)] = @ - 1]
  /\ phy_tx' = Tail(phy_tx)
  /\ UNCHANGED <<cls, has_virt, phy_rx, pc, pkts, i, ktx, ring, held,
                 virt_tx, virt_rx>>

\* The single consumer dequeues the oldest handle of the HFT ring ...
ConsumerDequeue ==
  /\ ring /= <<>>
  /\ held' = held \cup {Head(ring)}
  /\ ring' = Tail(ring)
  /\ UNCHANGED <<refcnt, cls, has_virt, phy_rx, pc, pkts, i, ktx, virt_tx,
                 virt_rx, phy_tx>>

\* ... and releases its reference when done with it.
ConsumerFree(m) ==
  /\ m \in held
  /\ held' = held \ {m}
  /\ refcnt' = [refcnt EXCEPT ![m] = @ - 1]
  /\ UNCHANGED <<cls, has_virt, phy_rx, pc, pkts, i, ktx, ring, virt_tx,
                 virt_rx, phy_tx>>

-----------------------------------------------------------------------------

\* Ports configured, the pool full, the ring empty, the loop about to poll;
\* the virtual port is present or not depending on the start-up discovery.
Init ==
  /\ refcnt = [m \in Mbufs |-> 0]
  /\ cls = [m \in Mbufs |-> "STANDARD"]
  /\ has_virt \in BOOLEAN
  /\ phy_rx = <<>> /\ pc = "rx" /\ pkts = <<>> /\ i = 0 /\ ktx = <<>>
  /\ ring = <<>> /\ held = {}
  /\ virt_tx = <<>> /\ virt_rx = <<>> /\ phy_tx = <<>>

Loop == RxPhy \/ Classify \/ TxVirt \/ Egress

Next ==
  \/ Loop
  \/ \E m \in Mbufs, v \in Verdicts : PhyArrive(m, v)
  \/ KernelReceive \/ \E m \in Mbufs : KernelSend(m) \/ PhyTxDone
  \/ ConsumerDequeue \/ \E m \in held : ConsumerFree(m)

\* The loop busy-polls on a dedicated core; the PMDs complete what they
\* accepted; the kernel drains the virtual port; the consumer keeps up.
\* Packet arrivals, from either side, are not fair.
Fairness ==
  /\ WF_vars(Loop) /\ WF_vars(KernelReceive) /\ WF_vars(PhyTxDone)
  /\ WF_vars(ConsumerDequeue) /\ \A m \in Mbufs : WF_vars(ConsumerFree(m))

Spec == Init /\ [][Next]_vars /\ Fairness

-----------------------------------------------------------------------------
(* Properties.                                                             *)

TypeOK ==
  /\ refcnt \in [Mbufs -> Nat]
  /\ cls \in [Mbufs -> Verdicts]
  /\ has_virt \in BOOLEAN
  /\ pc \in {"rx", "classify", "egress"}
  /\ \A q \in {phy_rx, pkts, ktx, ring, virt_tx, virt_rx, phy_tx} :
       q \in Seq(Mbufs)
  /\ i \in 0..Len(pkts) /\ held \subseteq Mbufs

\* The references to m held anywhere: a NIC queue, the part of pkts_burst
\* not yet classified, kernel_tx_burst, the ring, or the consumer.
Holders(m) ==
  Count(phy_rx, m) + Count(SubSeq(pkts, i + 1, Len(pkts)), m) + Count(ktx, m)
    + Count(ring, m) + Count(virt_tx, m) + Count(virt_rx, m)
    + Count(phy_tx, m) + (IF m \in held THEN 1 ELSE 0)

\* Reference counting is exact across the loop, the PMDs, the kernel and
\* the consumer: every mbuf's refcount equals the number of places that
\* hold it, so no mbuf goes back to the pool while still reachable (no
\* double free, no use after free) and none stays out of it unreachable
\* (no leak), whatever tx_burst accepts and however full the ring is.
RefcountExact == \A m \in Mbufs : refcnt[m] = Holders(m)

\* Spec 4.2: a FAST packet appears at most once on the kernel path
\* (kernel_tx_burst and the virtual port's TX) and at most once in the HFT
\* ring or with its consumer, and a packet in the ring is FAST.
RingHoldsDuplicates ==
  \A m \in Mbufs :
    /\ Count(ring, m) + (IF m \in held THEN 1 ELSE 0) <= 1
    /\ Count(ktx, m) + Count(virt_tx, m) <= 1
    /\ Count(ring, m) = 1 => cls[m] = "HFT"

\* Every buffer taken from the pool is eventually returned to it: the
\* loop, the PMDs and the consumer release every reference they obtain.
BuffersReturn == \A m \in Mbufs : refcnt[m] > 0 ~> refcnt[m] = 0

=============================================================================
