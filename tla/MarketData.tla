----------------------------- MODULE MarketData -----------------------------
(***************************************************************************)
(* The market-data path from a venue message to a UDP datagram:            *)
(* OkxConnection/BybitConnection::process_message (C6) dispatches each     *)
(* message taken from the session queue to the venue adapter (C4): a ping  *)
(* is answered with a pong, a subscription response is logged, anything    *)
(* else is tried as an order book and, when it parses, handed to          *)
(* UdpPublisher::publish (C8), which serialises it into one datagram and   *)
(* calls a non-blocking sendto; EAGAIN drops the datagram silently.        *)
(*                                                                         *)
(* A JSON document is a record whose fields are the keys the adapters look *)
(* up, Absent where the key is missing; "text" tells a JSON document from  *)
(* the bare texts ping and pong. A number string is a record               *)
(* [digits, point] (digits / 10^point) or Junk, on which std::stod       *)
(* throws. A Bybit topic is the sequence of its dot-separated parts.       *)
(*                                                                         *)
(* The consumer of the feed is outside the repository: it is modelled from *)
(* spec 4.8 (the datagram layout) and 4.7 (snapshot replaces, delta        *)
(* merges), and the venue's own book from the spec's reading (4.4) of      *)
(* every message it sends.                                                 *)
(***************************************************************************)
EXTENDS Naturals, Sequences, SequencesExt

CONSTANTS
  Venues,       \* connections: a subset of {"OKX", "BYBIT"}
  Insts,        \* instrument names a venue sends
  SymBytes,     \* instrument name -> its bytes
  PriceTexts,   \* price strings: [digits, point] or Junk
  Junk,         \* a string std::stod cannot convert
  SizeTexts,    \* size strings: [digits |-> n, point |-> 0]
  Stamps,       \* steady_clock readings at publish
  NoLevel,      \* the size of an absent level
  Absent,       \* a key missing from a JSON document
  MaxLevels,    \* bound: levels per side in one message
  MaxMsgs,      \* bound: messages the venues send
  MaxDrops      \* bound: datagrams sendto drops (EAGAIN)

VARIABLES
  inq,          \* per venue: the session's inbound queue
  net,          \* datagrams sent to the consumer, in order
  pongs,        \* per venue: pongs process_message sent
  pings,        \* per venue: server pings the venue sent (spec reading)
  vbook,        \* per (exchange id, symbol): the venue's book
  cbook,        \* per (exchange id, symbol): the consumer's book
  synced,       \* per key: no datagram of it dropped since the last
                \* snapshot of it was sent
  sent,         \* messages sent by the venues
  drops         \* datagrams dropped by sendto

vars == <<inq, net, pongs, pings, vbook, cbook, synced, sent, drops>>

\* ExchangeId (aero_types.h): OKX = 0, BYBIT = 1.
ExId == [v \in Venues |-> IF v = "OKX" THEN 0 ELSE 1]
Keys == {<<ExId[v], SymBytes[i]>> : v \in Venues, i \in Insts}

\* round(stod(price) * PRICE_SCALE), PRICE_SCALE = 10^8.
Scale(p) == p.digits * 10^(8 - p.point)
Prices == {Scale(p) : p \in PriceTexts \ {Junk}}
SizeVals == {s.digits : s \in SizeTexts}
LevelTexts == PriceTexts \X SizeTexts

Book == INSTANCE OrderBookSpec
          WITH Prices <- Prices, Sizes <- SizeVals, Readers <- {},
               MaxUpdates <- 2 * MaxLevels, book <- vbook, bbo <- <<>>
EmptyBook == [BID |-> Book!EmptySide, ASK |-> Book!EmptySide]

-----------------------------------------------------------------------------
(* Adapters (C4)                                                           *)

\* A parsed book: ParsedOrderBook with instrument, is_snapshot, bids, asks.
Parsed(inst, snap, bl, al) ==
  [instrument |-> inst, is_snapshot |-> snap, bids |-> bl, asks |-> al]

\* The levels of a bids/asks array; stod throws on a junk string, and the
\* catch (...) makes the whole parse return false.
Throws(ls) == \E n \in DOMAIN ls : ls[n][1] = Junk
ToLevels(ls) == [n \in DOMAIN ls |-> [price |-> Scale(ls[n][1]),
                                      size |-> ls[n][2].digits]]
Side(ls) == IF ls = Absent THEN <<>> ELSE ls

\* OkxAdapter::is_ping_message: the four bytes "ping".
OkxIsPing(d) == d.text = "ping"

\* OkxAdapter::is_subscription_response: event decides when present.
OkxIsSubAck(d) ==
  /\ d.text = "json"
  /\ IF d.event /= Absent THEN d.event \in {"subscribe", "unsubscribe", "error"}
                          ELSE d.op = "subscribe"

\* Variant of OkxIsSnapshot without the books5 default.
OkxIsSnapshotNoDefault(d) == d.action = "snapshot"

\* is_snapshot: the action when present, else true for books5 only.
OkxIsSnapshot(d) ==
  IF d.action /= Absent THEN d.action = "snapshot" ELSE d.channel = "books5"

\* OkxAdapter::parse_orderbook_message: {} when it returns false.
OkxParse(d) ==
  IF \/ d.text /= "json" \/ d.channel \notin {"books-l2-tbt", "books5", "books"}
     \/ d.instId = Absent \/ d.data = Absent
  THEN {}
  ELSE LET snap == OkxIsSnapshot(d)
       IN IF d.data = <<>> THEN {Parsed(d.instId, snap, <<>>, <<>>)}
          ELSE LET it == d.data[1]    \* only the first data item
               IN IF Throws(Side(it.bids)) \/ Throws(Side(it.asks))
                     \/ it.ts = "junk"  \* stoull throws
                  THEN {}
                  ELSE {Parsed(d.instId, snap, ToLevels(Side(it.bids)),
                               ToLevels(Side(it.asks)))}

\* Variant of BybitIsPing that ignores the success field.
BybitIsPingAnyReply(d) == d.op = "ping"

\* BybitAdapter::is_ping_message: op is ping and no bool success field.
BybitIsPing(d) == d.op = "ping" /\ d.success = Absent

\* BybitAdapter::is_subscription_response.
BybitIsSubAck(d) ==
  d.success /= Absent /\ d.op \in {"subscribe", "unsubscribe"}

\* BybitAdapter::parse_orderbook_message: topic.find("orderbook") (a part
\* of the topic here), the instrument after the last dot, snapshot when
\* type is "snapshot".
BybitParse(d) ==
  IF \/ d.topic = Absent \/ \A n \in DOMAIN d.topic : d.topic[n] /= "orderbook"
     \/ Len(d.topic) < 2 \/ d.data = Absent
     \/ Throws(Side(d.data.b)) \/ Throws(Side(d.data.a))
  THEN {}
  ELSE {Parsed(Last(d.topic), d.type = "snapshot",
               ToLevels(Side(d.data.b)), ToLevels(Side(d.data.a)))}

IsPing(v, d)   == IF v = "OKX" THEN OkxIsPing(d) ELSE BybitIsPing(d)
IsSubAck(v, d) == IF v = "OKX" THEN OkxIsSubAck(d) ELSE BybitIsSubAck(d)
ParseBook(v, d) == IF v = "OKX" THEN OkxParse(d) ELSE BybitParse(d)

-----------------------------------------------------------------------------
(* UdpPublisher::serialize_and_send (C8)                                   *)

UDP_FEED_MAGIC == 1212568644    \* 0x48465444, "HFTD"
UDP_FEED_VERSION == 1

\* The k bytes of n, most significant first: the memory image of a field
\* stored through htons, htonl or rte_cpu_to_be_64.
RECURSIVE BE(_, _)
BE(n, k) == IF k = 0 THEN <<>> ELSE BE(n \div 256, k - 1) \o <<n % 256>>

\* The memory image of the IEEE-754 double of a size, after
\* rte_cpu_to_be_64 of its bits, for the sizes of the model.
F64BE(x) ==
  CASE x = 0 -> <<0, 0, 0, 0, 0, 0, 0, 0>>
    [] x = 1 -> <<63, 240, 0, 0, 0, 0, 0, 0>>    \* 0x3FF0000000000000
    [] x = 2 -> <<64, 0, 0, 0, 0, 0, 0, 0>>      \* 0x4000000000000000

\* Variant of Count16 that stores the count without htons.
Count16HostOrder(n) == Reverse(BE(n % 2^16, 2))

\* htons(static_cast<uint16_t>(size())).
Count16(n) == BE(n % 2^16, 2)

\* The packed UdpMarketHeader: 24 bytes.
Header(pb, ex, ts) ==
  BE(UDP_FEED_MAGIC, 4) \o BE(UDP_FEED_VERSION, 2)
  \o <<IF pb.is_snapshot THEN 1 ELSE 2, ex>> \o BE(ts, 8)
  \o BE(Len(SymBytes[pb.instrument]), 4)
  \o Count16(Len(pb.bids)) \o Count16(Len(pb.asks))

\* One packed UdpPriceLevel: price_int and the quantity's bits, both BE.
LevelBytes(l) == BE(l.price, 8) \o F64BE(l.size)

LevelsBytes(ls) == FoldLeft(LAMBDA acc, l : acc \o LevelBytes(l), <<>>, ls)

\* The datagram buffer: header, symbol, bids, asks.
SerializeAndSend(pb, ex, ts) ==
  Header(pb, ex, ts) \o SymBytes[pb.instrument]
  \o LevelsBytes(pb.bids) \o LevelsBytes(pb.asks)


-----------------------------------------------------------------------------
(* The venues: what each means by a message (kind and book), and the       *)
(* document it puts on the wire for it (spec 4.4 and the venue formats).   *)

Doc == [text |-> "json", event |-> Absent, op |-> Absent, success |-> Absent,
        channel |-> Absent, instId |-> Absent, action |-> Absent,
        data |-> Absent, topic |-> Absent, type |-> Absent]

Chans(v) == IF v = "OKX" THEN {"books5", "books"} ELSE {"orderbook.50"}
Snaps(ch) == IF ch = "books5" THEN {TRUE} ELSE BOOLEAN

VMsg(kind, ch, inst, snap, bl, al) ==
  [kind |-> kind, chan |-> ch, inst |-> inst, snap |-> snap, bids |-> bl,
   asks |-> al]

\* ping: a server ping; pong: the venue's reply to send_heartbeat; ack:
\* the reply to a subscribe; book: order-book data.
VenueMsgs(v) ==
  {VMsg(k, Absent, i, FALSE, <<>>, <<>>) : k \in {"ping", "pong", "ack"},
                                           i \in Insts}
  \cup UNION {{VMsg("book", ch, i, sn, bl, al) :
                 i \in Insts, sn \in Snaps(ch),
                 bl, al \in BoundedSeq(LevelTexts, MaxLevels)} : ch \in Chans(v)}

OkxEncode(m) ==
  CASE m.kind = "ping" -> [Doc EXCEPT !.text = "ping"]
    [] m.kind = "pong" -> [Doc EXCEPT !.text = "pong"]
    [] m.kind = "ack"  -> [Doc EXCEPT !.event = "subscribe", !.channel = "books",
                                      !.instId = m.inst]
    [] m.kind = "book" ->
         [Doc EXCEPT !.channel = m.chan, !.instId = m.inst,
                     !.action = IF m.chan = "books5" THEN Absent
                                ELSE IF m.snap THEN "snapshot" ELSE "update",
                     !.data = <<[bids |-> m.bids, asks |-> m.asks, ts |-> "ms"]>>]

BybitEncode(m) ==
  CASE m.kind = "ping" -> [Doc EXCEPT !.op = "ping"]
    [] m.kind = "pong" -> [Doc EXCEPT !.op = "ping", !.success = TRUE]
    [] m.kind = "ack"  -> [Doc EXCEPT !.op = "subscribe", !.success = TRUE]
    [] m.kind = "book" ->
         [Doc EXCEPT !.topic = <<"orderbook", "50", m.inst>>,
                     !.type = IF m.snap THEN "snapshot" ELSE "delta",
                     !.data = [b |-> m.bids, a |-> m.asks, ts |-> "ms"]]

Encode(v, m) == IF v = "OKX" THEN OkxEncode(m) ELSE BybitEncode(m)

\* The updates of a book message, bids then asks; a message with a price
\* stod cannot read is not an order book (spec 4.4).
SpecUpdates(m) ==
  [n \in DOMAIN m.bids |-> [side |-> "BID", price |-> Scale(m.bids[n][1]),
                            size |-> m.bids[n][2].digits]]
  \o [n \in DOMAIN m.asks |-> [side |-> "ASK", price |-> Scale(m.asks[n][1]),
                               size |-> m.asks[n][2].digits]]

IsBook(m) == m.kind = "book" /\ ~Throws(m.bids) /\ ~Throws(m.asks)

-----------------------------------------------------------------------------
(* The consumer of the feed (spec 4.8): decode, then apply to its book.    *)

RECURSIVE Num(_)
Num(s) == IF s = <<>> THEN 0 ELSE Num(Front(s)) * 256 + Last(s)

Field(d, off, k) == Num(SubSeq(d, off + 1, off + k))

SymLen(d) == Field(d, 16, 4)
Counts(d) == <<Field(d, 20, 2), Field(d, 22, 2)>>
LevelOff(d, n) == 24 + SymLen(d) + 16 * (n - 1)

\* A level whose price fits the model and whose quantity bits are a size.
LevelOk(d, off) ==
  /\ SubSeq(d, off + 1, off + 4) = <<0, 0, 0, 0>>
  /\ Field(d, off + 4, 4) \in Prices
  /\ \E x \in SizeVals : F64BE(x) = SubSeq(d, off + 9, off + 16)

DecodeLevel(d, off, side) ==
  [side |-> side, price |-> Field(d, off + 4, 4),
   size |-> CHOOSE x \in SizeVals : F64BE(x) = SubSeq(d, off + 9, off + 16)]

DecodeKey(d) == <<d[8], SubSeq(d, 25, 24 + SymLen(d))>>

Valid(d) ==
  /\ Len(d) >= 24
  /\ Field(d, 0, 4) = UDP_FEED_MAGIC /\ Field(d, 4, 2) = UDP_FEED_VERSION
  /\ d[7] \in {1, 2}
  /\ Len(d) = 24 + SymLen(d) + 16 * (Counts(d)[1] + Counts(d)[2])
  /\ DecodeKey(d) \in Keys
  /\ \A n \in 1 .. Counts(d)[1] + Counts(d)[2] : LevelOk(d, LevelOff(d, n))

DecodeUpdates(d) ==
  [n \in 1 .. Counts(d)[1] + Counts(d)[2] |->
     DecodeLevel(d, LevelOff(d, n), IF n <= Counts(d)[1] THEN "BID" ELSE "ASK")]

-----------------------------------------------------------------------------
(* Steps                                                                   *)

Init ==
  /\ inq = [v \in Venues |-> <<>>]
  /\ net = <<>>
  /\ pongs = [v \in Venues |-> 0]
  /\ pings = [v \in Venues |-> 0]
  /\ vbook = [k \in Keys |-> EmptyBook]
  /\ cbook = [k \in Keys |-> EmptyBook]
  /\ synced = [k \in Keys |-> TRUE]
  /\ sent = 0
  /\ drops = 0

\* The venue sends m and the session queues it (the session is VenueConnection's).
VenueSend(v, m) ==
  /\ sent < MaxMsgs
  /\ sent' = sent + 1
  /\ inq' = [inq EXCEPT ![v] = Append(@, Encode(v, m))]
  /\ pings' = [pings EXCEPT ![v] = @ + (IF m.kind = "ping" THEN 1 ELSE 0)]
  /\ vbook' = IF IsBook(m)
              THEN [vbook EXCEPT ![<<ExId[v], SymBytes[m.inst]>>] =
                      Book!ApplyMessage(@, SpecUpdates(m), m.snap)]
              ELSE vbook
  /\ UNCHANGED <<net, pongs, cbook, synced, drops>>

\* UdpPublisher::publish: the socket is open (is_initialized), so
\* serialize_and_send runs; the non-blocking sendto queues the datagram or
\* fails with EAGAIN, which the code ignores.
Publish(v, pb) ==
  \/ \E ts \in Stamps :
       /\ net' = Append(net, SerializeAndSend(pb, ExId[v], ts))
       /\ synced' = IF pb.is_snapshot
                    THEN [synced EXCEPT ![<<ExId[v], SymBytes[pb.instrument]>>] = TRUE]
                    ELSE synced
       /\ UNCHANGED drops
  \/ /\ drops < MaxDrops
     /\ drops' = drops + 1
     /\ synced' = [synced EXCEPT ![<<ExId[v], SymBytes[pb.instrument]>>] = FALSE]
     /\ UNCHANGED net

\* One turn of poll: the next message goes through process_message, which
\* answers a ping with a pong, returns on a subscription response, and
\* publishes what parse_orderbook_message accepts.
ProcessMessage(v) ==
  /\ inq[v] /= <<>>
  /\ inq' = [inq EXCEPT ![v] = Tail(@)]
  /\ LET d == Head(inq[v])
     IN IF IsPing(v, d)
        THEN /\ pongs' = [pongs EXCEPT ![v] = @ + 1]
             /\ UNCHANGED <<net, synced, drops>>
        ELSE IF IsSubAck(v, d) \/ ParseBook(v, d) = {}
        THEN UNCHANGED <<pongs, net, synced, drops>>
        ELSE /\ \E pb \in ParseBook(v, d) : Publish(v, pb)
             /\ UNCHANGED pongs
  /\ UNCHANGED <<pings, vbook, cbook, sent>>

\* BybitConnection::poll and process_message: the same dispatch, publishing
\* under ExchangeId::BYBIT. Its extra test, that the pong is not empty,
\* always holds: BybitAdapter::generate_pong_message returns a constant.
BybitProcessMessage == ProcessMessage("BYBIT")

\* The consumer reads the next datagram; it drops one it cannot decode.
Receive ==
  /\ net /= <<>>
  /\ net' = Tail(net)
  /\ LET d == Head(net)
     IN IF Valid(d)
        THEN cbook' = [cbook EXCEPT ![DecodeKey(d)] =
                         Book!ApplyMessage(@, DecodeUpdates(d), d[7] = 1)]
        ELSE UNCHANGED cbook
  /\ UNCHANGED <<inq, pongs, pings, vbook, synced, sent, drops>>

Next ==
  \/ \E v \in Venues : \E m \in VenueMsgs(v) : VenueSend(v, m)
  \/ \E v \in Venues \ {"BYBIT"} : ProcessMessage(v)
  \/ "BYBIT" \in Venues /\ BybitProcessMessage
  \/ Receive

Spec == Init /\ [][Next]_vars

-----------------------------------------------------------------------------
(* Properties                                                              *)

Quiescent == (\A v \in Venues : inq[v] = <<>>) /\ net = <<>>

\* Spec 4.8: every datagram serialize_and_send emits has the magic and
\* version, a message type of 1 or 2, a length that agrees with
\* symbol_len, bid_count and ask_count, and levels a consumer can read.
WireFormat == \A n \in DOMAIN net : Valid(net[n])

\* End to end, C4 to C8: once every queued message has been polled and
\* every datagram read, a consumer that lost no datagram of an instrument
\* after the last snapshot sent of it holds exactly the book the venue sent, for both
\* venues' formats, snapshot flags and price conversion.
FeedMatchesVenue ==
  Quiescent => \A k \in Keys : synced[k] => cbook[k] = vbook[k]

\* Spec 4.6: process_message answers each server ping with one pong and
\* nothing else: not the venue's reply to our own heartbeat, not an ack.
PongPerPing == Quiescent => pongs = pings

=============================================================================
