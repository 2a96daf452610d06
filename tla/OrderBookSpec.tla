---------------------------- MODULE OrderBookSpec ----------------------------
(***************************************************************************)
(* What the order-book engine promises (spec 4.7): one book, updated by    *)
(* whole messages, each applied atomically; get_bbo returns the highest    *)
(* bid and the lowest ask with their sizes, or nothing ({}) when a side is *)
(* empty. A level is a price mapped to a size; NoLevel marks an absent one.*)
(***************************************************************************)
EXTENDS Naturals, Sequences, SequencesExt

CONSTANTS
  Prices,    \* price_int values
  Sizes,     \* sizes a venue sends; a size <= 0 deletes the level
  NoLevel,   \* the size of an absent level
  Readers,   \* threads calling get_bbo
  MaxUpdates \* bound: updates in one message

\* One update of a message: side, price and size.
Updates == [side : {"BID", "ASK"}, price : Prices, size : Sizes]

EmptySide == [p \in Prices |-> NoLevel]

\* Spec merge rule: size <= 0 erases the level, any other size sets it.
Merge(book, u) ==
  [book EXCEPT ![u.side][u.price] = IF u.size <= 0 THEN NoLevel ELSE u.size]

RECURSIVE MergeAll(_, _)
MergeAll(book, us) ==
  IF us = <<>> THEN book ELSE MergeAll(Merge(book, Head(us)), Tail(us))

\* A whole message: a snapshot replaces both sides, a delta merges.
ApplyMessage(book, us, snap) ==
  MergeAll(IF snap THEN [BID |-> EmptySide, ASK |-> EmptySide] ELSE book, us)

Levels(side) == {p \in Prices : side[p] /= NoLevel}

\* Best bid and offer by the spec: highest bid, lowest ask.
Bbo(book) ==
  IF Levels(book.BID) = {} \/ Levels(book.ASK) = {} THEN {}
  ELSE LET bp == CHOOSE p \in Levels(book.BID) :
                   \A q \in Levels(book.BID) : q <= p
           ap == CHOOSE p \in Levels(book.ASK) :
                   \A q \in Levels(book.ASK) : p <= q
       IN {[bid_price |-> bp, bid_qty |-> book.BID[bp],
            ask_price |-> ap, ask_qty |-> book.ASK[ap]]}

VARIABLES book, bbo

Init ==
  /\ book = [BID |-> EmptySide, ASK |-> EmptySide]
  /\ bbo = [r \in Readers |-> {}]

Apply(us, snap) ==
  /\ book' = ApplyMessage(book, us, snap)
  /\ UNCHANGED bbo

GetBbo(r) ==
  /\ bbo' = [bbo EXCEPT ![r] = Bbo(book)]
  /\ UNCHANGED book

Next ==
  \/ \E us \in BoundedSeq(Updates, MaxUpdates), snap \in BOOLEAN : Apply(us, snap)
  \/ \E r \in Readers : GetBbo(r)

Spec == Init /\ [][Next]_<<book, bbo>>

=============================================================================
