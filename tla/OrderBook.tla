------------------------------ MODULE OrderBook ------------------------------
(***************************************************************************)
(* OrderBook and OrderBookManager (order_book.h, order_book.cpp, which the *)
(* source tree carries inside aero_types.h). Writer threads call           *)
(* OrderBookManager::apply_update with the bid and ask levels of a message;*)
(* it builds one OrderBookUpdate per level, bids first, and calls          *)
(* apply_snapshot or apply_updates, which take the book's unique lock,     *)
(* clear both sides for a snapshot, and run apply_update_internal on each  *)
(* update in turn. Reader threads call get_bbo under the shared lock.      *)
(* The rest of the API is reachable too: OrderBookManager::apply_updates   *)
(* with pre-parsed updates (whose is_delete may be set on any quantity),   *)
(* the book's own apply_snapshot, apply_updates, apply_update and clear,   *)
(* and get_best_prices. The model holds the one book get_book returns for  *)
(* an (exchange, instrument) key; books of other keys share no state.      *)
(*                                                                         *)
(* bids_ and asks_ are std::maps: here functions from price to size, with  *)
(* NoLevel for a price the map does not hold. The map order (std::greater  *)
(* for bids, std::less for asks) is kept, since get_bbo reads begin().     *)
(***************************************************************************)
EXTENDS Naturals, Sequences, SequencesExt

CONSTANTS
  Prices,     \* price_int values
  Sizes,      \* sizes a level carries in a message (0 deletes)
  NoLevel,    \* a price the map does not hold
  Writers,    \* threads calling OrderBookManager::apply_update
  Readers,    \* threads calling get_bbo
  MaxLevels   \* bound: levels per side in one message

ASSUME NoLevel \notin Sizes

VARIABLES
  bids,       \* bids_: price -> size
  asks,       \* asks_: price -> size
  lock,       \* the writer holding mutex_ uniquely, or "free"
  pc,         \* per writer: "idle", "clear" (in apply_snapshot), "loop"
  updates,    \* per writer: the std::vector<OrderBookUpdate> it applies
  idx,        \* per writer: position of the range-for in updates
  snapshot,   \* per writer: whether its call clears both sides first
  bbo         \* per reader: its last get_bbo, {} when it returned false

vars == <<bids, asks, lock, pc, updates, idx, snapshot, bbo>>

Levels == [price : Prices, size : Sizes]
UpdateRecs ==
  [price : Prices, quantity : Sizes, side : {"BID", "ASK"},
   is_delete : BOOLEAN]

EmptyMap == [p \in Prices |-> NoLevel]

\* Key order of the two std::maps.
BidBefore(a, b) == a > b      \* std::greater<uint64_t>
AskBefore(a, b) == a < b      \* std::less<uint64_t>

Keys(m) == {p \in Prices : m[p] /= NoLevel}

\* begin() of a non-empty bids_ and asks_.
BidsBegin(m) == CHOOSE k \in Keys(m) : \A j \in Keys(m) \ {k} : BidBefore(k, j)
AsksBegin(m) == CHOOSE k \in Keys(m) : \A j \in Keys(m) \ {k} : AskBefore(k, j)

\* OrderBookManager::apply_update: one OrderBookUpdate per level, bids
\* before asks, is_delete set when the size is <= 0.
ToUpdates(lv, side) ==
  [n \in 1..Len(lv) |->
     [price |-> lv[n].price, quantity |-> lv[n].size, side |-> side,
      is_delete |-> lv[n].size <= 0]]

BuildUpdates(bl, al) == ToUpdates(bl, "BID") \o ToUpdates(al, "ASK")

\* Variant of UpdateMap that always assigns through operator[], never
\* erasing a level whose size is zero.
UpdateMapNoErase(m, u) == [m EXCEPT ![u.price] = u.quantity]

\* OrderBook::apply_update_internal on one map.
UpdateMap(m, u) ==
  IF u.is_delete \/ u.quantity <= 0
  THEN [m EXCEPT ![u.price] = NoLevel]       \* erase
  ELSE [m EXCEPT ![u.price] = u.quantity]    \* operator[] = quantity

Init ==
  /\ bids = EmptyMap
  /\ asks = EmptyMap
  /\ lock = "free"
  /\ pc = [w \in Writers |-> "idle"]
  /\ updates = [w \in Writers |-> <<>>]
  /\ idx = [w \in Writers |-> 1]
  /\ snapshot = [w \in Writers |-> FALSE]
  /\ bbo = [r \in Readers |-> {}]

-----------------------------------------------------------------------------
(* Writers                                                                 *)

\* OrderBookManager::apply_updates(exchange, instrument, updates, snap),
\* and the book's apply_snapshot (snap) or apply_updates (~snap) called
\* directly: the updates come pre-parsed and take the unique lock as is.
ApplyUpdates(w, us, is_snapshot) ==
  /\ pc[w] = "idle"
  /\ lock = "free"
  /\ lock' = w
  /\ updates' = [updates EXCEPT ![w] = us]
  /\ idx' = [idx EXCEPT ![w] = 1]
  /\ snapshot' = [snapshot EXCEPT ![w] = is_snapshot]
  /\ pc' = [pc EXCEPT ![w] = IF is_snapshot THEN "clear" ELSE "loop"]
  /\ UNCHANGED <<bids, asks, bbo>>

\* OrderBookManager::apply_update builds one update per level, then calls
\* apply_snapshot or apply_updates on get_book's book in the same way.
ApplyUpdate(w, bl, al, is_snapshot) ==
  ApplyUpdates(w, BuildUpdates(bl, al), is_snapshot)

\* OrderBook::apply_update(update): apply_updates of one update.
ApplyUpdateOne(w, u) == ApplyUpdates(w, <<u>>, FALSE)

\* OrderBook::clear: under the unique lock, bids_.clear(); asks_.clear();
\* the same critical section as apply_snapshot of no updates.
ClearBook(w) == ApplyUpdates(w, <<>>, TRUE)

\* Variant of Clear that forgets asks_.clear().
ClearBidsOnly(w) ==
  /\ pc[w] = "clear"
  /\ bids' = EmptyMap
  /\ pc' = [pc EXCEPT ![w] = "loop"]
  /\ UNCHANGED <<asks, lock, updates, idx, snapshot, bbo>>

\* apply_snapshot: bids_.clear(); asks_.clear().
Clear(w) ==
  /\ pc[w] = "clear"
  /\ bids' = EmptyMap
  /\ asks' = EmptyMap
  /\ pc' = [pc EXCEPT ![w] = "loop"]
  /\ UNCHANGED <<lock, updates, idx, snapshot, bbo>>

\* One iteration of the range-for: apply_update_internal(update).
ApplyOne(w) ==
  /\ pc[w] = "loop"
  /\ idx[w] <= Len(updates[w])
  /\ LET u == updates[w][idx[w]]
     IN /\ bids' = IF u.side = "BID" THEN UpdateMap(bids, u) ELSE bids
        /\ asks' = IF u.side = "BID" THEN asks ELSE UpdateMap(asks, u)
  /\ idx' = [idx EXCEPT ![w] = idx[w] + 1]
  /\ UNCHANGED <<lock, pc, updates, snapshot, bbo>>

\* End of the loop: the unique_lock goes out of scope and apply_update
\* returns, destroying its updates vector.
Unlock(w) ==
  /\ pc[w] = "loop"
  /\ idx[w] > Len(updates[w])
  /\ lock' = "free"
  /\ pc' = [pc EXCEPT ![w] = "idle"]
  /\ updates' = [updates EXCEPT ![w] = <<>>]
  /\ idx' = [idx EXCEPT ![w] = 1]
  /\ snapshot' = [snapshot EXCEPT ![w] = FALSE]
  /\ UNCHANGED <<bids, asks, bbo>>

-----------------------------------------------------------------------------
(* Readers                                                                 *)

\* Variant of GetBbo that reads the maps without taking the shared lock.
GetBboUnlocked(r) ==
  /\ bbo' = [bbo EXCEPT ![r] =
               IF Keys(bids) = {} \/ Keys(asks) = {} THEN {}
               ELSE LET bp == BidsBegin(bids)
                        ap == AsksBegin(asks)
                    IN {[bid_price |-> bp, bid_qty |-> bids[bp],
                         ask_price |-> ap, ask_qty |-> asks[ap]]}]
  /\ UNCHANGED <<bids, asks, lock, pc, updates, idx, snapshot>>

\* OrderBook::get_bbo under the shared lock: false when a side is empty,
\* else the begin() of each map.
GetBbo(r) ==
  /\ lock = "free"
  /\ bbo' = [bbo EXCEPT ![r] =
               IF Keys(bids) = {} \/ Keys(asks) = {} THEN {}
               ELSE LET bp == BidsBegin(bids)
                        ap == AsksBegin(asks)
                    IN {[bid_price |-> bp, bid_qty |-> bids[bp],
                         ask_price |-> ap, ask_qty |-> asks[ap]]}]
  /\ UNCHANGED <<bids, asks, lock, pc, updates, idx, snapshot>>

\* OrderBookManager::get_best_prices: get_book, then get_bbo on it; the
\* cast of the prices to double is exact below 2^53.
GetBestPrices(r) == GetBbo(r)

Next ==
  \/ \E w \in Writers :
       \/ \E bl, al \in BoundedSeq(Levels, MaxLevels), s \in BOOLEAN :
            ApplyUpdate(w, bl, al, s)
       \/ \E us \in BoundedSeq(UpdateRecs, MaxLevels), s \in BOOLEAN :
            ApplyUpdates(w, us, s)
       \/ \E u \in UpdateRecs : ApplyUpdateOne(w, u)
       \/ ClearBook(w)
       \/ Clear(w)
       \/ ApplyOne(w)
       \/ Unlock(w)
  \/ \E r \in Readers : GetBbo(r) \/ GetBestPrices(r)

Spec == Init /\ [][Next]_vars

-----------------------------------------------------------------------------
(* Properties                                                              *)

BboResults ==
  SUBSET [bid_price : Prices, bid_qty : Sizes, ask_price : Prices,
          ask_qty : Sizes]

\* Type invariant; a map never holds a level of size zero, since
\* apply_update_internal erases on a size <= 0.
TypeOK ==
  /\ bids \in [Prices -> {z \in Sizes : z > 0} \cup {NoLevel}]
  /\ asks \in [Prices -> {z \in Sizes : z > 0} \cup {NoLevel}]
  /\ lock \in Writers \cup {"free"}
  /\ pc \in [Writers -> {"idle", "clear", "loop"}]
  /\ updates \in [Writers -> Seq(UpdateRecs)]
  /\ idx \in [Writers -> Nat]
  /\ snapshot \in [Writers -> BOOLEAN]
  /\ bbo \in [Readers -> BboResults]

\* Prices in the updates of one side are distinct (a venue snapshot lists
\* each level once).
DistinctPerSide(us) ==
  \A m, n \in DOMAIN us :
    m /= n /\ us[m].side = us[n].side => us[m].price /= us[n].price

\* Spec 8: when apply_snapshot(U) (or clear, U empty) releases the lock,
\* each side holds exactly the levels of U with size > 0 and no delete
\* flag on that side and no others,
\* whatever the book held before and whatever deltas came earlier.
SnapshotExact ==
  [][\A w \in Writers :
       lock = w /\ lock' = "free" /\ snapshot[w]
       /\ DistinctPerSide(updates[w])
       => \A p \in Prices, sd \in {"BID", "ASK"} :
            LET now == IF sd = "BID" THEN bids' ELSE asks'
                hit == {n \in DOMAIN updates[w] :
                          updates[w][n].side = sd /\ updates[w][n].price = p
                          /\ ~updates[w][n].is_delete
                          /\ updates[w][n].quantity > 0}
            IN IF hit = {} THEN now[p] = NoLevel
               ELSE \E n \in hit : now[p] = updates[w][n].quantity]_vars

\* The book after the rest us of a loop of apply_update_internal.
RECURSIVE Finish(_, _)
Finish(bk, us) ==
  IF us = <<>> THEN bk
  ELSE LET u == Head(us)
       IN Finish([bk EXCEPT ![u.side] = UpdateMap(bk[u.side], u)], Tail(us))

\* The book the engine has committed to: the maps when no writer holds
\* the lock, else what they will be once the holder finishes its loop.
AbsBook ==
  IF lock = "free" THEN [BID |-> bids, ASK |-> asks]
  ELSE LET w    == lock
           base == IF pc[w] = "clear"
                   THEN [BID |-> EmptyMap, ASK |-> EmptyMap]
                   ELSE [BID |-> bids, ASK |-> asks]
       IN Finish(base, SubSeq(updates[w], idx[w], Len(updates[w])))

OBS == INSTANCE OrderBookSpec
         WITH book <- AbsBook, MaxUpdates <- 2 * MaxLevels

\* Spec 4.7: the engine behaves as a book to which each message is applied
\* atomically, and every get_bbo returns the highest bid and the lowest
\* ask of such a book: the unique lock of apply_snapshot/apply_updates and
\* the shared lock of get_bbo hide every half-applied message.
ObeysSpec == OBS!Spec

=============================================================================
