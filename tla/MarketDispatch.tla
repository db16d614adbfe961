----------------------------- MODULE MarketDispatch ---------------------------
(***************************************************************************)
(* ConnectionManager::on_raw_message (src/src/network/                     *)
(* connection_manager.cpp): what one incoming message does to the sequence *)
(* gates, the order-book guard, the counters and the callbacks.  Messages  *)
(* arrive one at a time, from a stream that may lose, repeat and reorder   *)
(* them.  A trade or depth message carries a payload for the parser that   *)
(* is well-formed or off in one field; the other messages are abstracted   *)
(* to the branch they take.  Of the latency samples only the one from the  *)
(* exchange to the receive time is kept.                                   *)
(***************************************************************************)
EXTENDS TradeSeqGate, Parser, FiniteSets

CONSTANTS Symbols,   \* the subscribed symbols
          MaxId,     \* bound: trade and update ids are 1..MaxId
          MaxMsgs    \* bound: messages in a behaviour

ASSUME DispatchBounds == MaxId \in 0..INT64_MAX /\ MaxMsgs \in Nat
ASSUME FiniteSymbols == IsFiniteSet(Symbols)

VARIABLES gates,     \* trade_seq_gates_
          lastBook,  \* last_orderbook_update_id_, 0 where the map has no entry
          metrics,   \* the counters of monitor/metrics.h this handler touches
          trades,    \* history: ids handed to on_trade_, per symbol
          topTrade,  \* history: highest trade id received, per symbol
          topBook,   \* history: highest update id handed to on_orderbook_
          silent,    \* history: messages dropped by design without a counter
          handed     \* history: payload and record of the callback the last
                     \* message ran, {} when it ran none

vars == <<gates, lastBook, metrics, trades, topTrade, topBook, silent, handed>>

Counters == {"msgs_recv", "parse_errors", "duplicate_count", "gap_count",
             "missing_records", "recovering_symbols", "trades_parsed",
             "orderbooks_parsed", "rollback_count", "callback_errors",
             "trade_latency", "ext_latency_negative_drop"}

Larger(a, b) == IF a > b THEN a ELSE b

(* Each counter of S goes up by one; so does msgs_recv with every message. *)
Count(S) == metrics' = [c \in Counters |->
               metrics[c] + (IF c \in S \cup {"msgs_recv"} THEN 1 ELSE 0)]

(* safe_invoke: a callback that throws is only counted, next to the counters
   of its message. *)
Invoked(counters, throws) == Count(counters \cup (IF throws THEN {"callback_errors"} ELSE {}))

(* The sample a trade with an exchange time adds, or the counted drop when the
   receive time is the earlier one. *)
LatencySample(trade, negative) ==
    IF trade.exchange_ts_us > 0
    THEN {IF negative THEN "ext_latency_negative_drop" ELSE "trade_latency"}
    ELSE {}

Init ==
    /\ gates = [s \in Symbols |-> NewGate]
    /\ lastBook = [s \in Symbols |-> 0]
    /\ metrics = [c \in Counters |-> 0]
    /\ trades = [s \in Symbols |-> <<>>]
    /\ topTrade = [s \in Symbols |-> 0]
    /\ topBook = [s \in Symbols |-> 0]
    /\ silent = 0
    /\ handed = {}

-------------------------------------------------------------------------------
(* Not JSON, a stream name of the wrong type or form, a symbol that is not
   subscribed, or a payload the parser rejects. *)
RejectMessage ==
    /\ Count({"parse_errors"})
    /\ handed' = {}
    /\ UNCHANGED <<gates, lastBook, trades, topTrade, topBook, silent>>

(* A control message without stream or data, or a stream of another type. *)
IgnoreMessage ==
    /\ Count({})
    /\ silent' = silent + 1
    /\ handed' = {}
    /\ UNCHANGED <<gates, lastBook, trades, topTrade, topBook>>

(* The gate passes the trade and the callback runs. *)
TradeAccepted(s, payload, trade) ==
    /\ OnLiveVerdict(gates[s], trade.trade_id) = "Accept"
    /\ \E throws, negative \in BOOLEAN :
          Invoked({"trades_parsed"} \cup LatencySample(trade, negative), throws)
    /\ trades' = [trades EXCEPT ![s] = Append(@, trade.trade_id)]
    /\ handed' = {[payload |-> payload, record |-> trade]}
    /\ UNCHANGED silent

TradeDuplicate(s, id) ==
    /\ OnLiveVerdict(gates[s], id) = "Duplicate"
    /\ Count({"duplicate_count"})
    /\ handed' = {}
    /\ UNCHANGED <<trades, silent>>

TradeGap(s, id) ==
    /\ OnLiveVerdict(gates[s], id) = "Gap"
    /\ metrics' = [metrics EXCEPT
          !["msgs_recv"] = @ + 1, !["gap_count"] = @ + 1,
          !["missing_records"] = @ + MissingCount(AfterLive(gates[s], id)),
          !["recovering_symbols"] = @ + 1]
    /\ handed' = {}
    /\ UNCHANGED <<trades, silent>>

(* Mutation: every trade held back counts as another gap. *)
HoldCountedAsGap == Count({"gap_count", "recovering_symbols"})
HoldCounted == Count({})

TradeHeld(s, id) ==
    /\ OnLiveVerdict(gates[s], id) = "Hold"
    /\ HoldCounted
    /\ silent' = silent + 1
    /\ handed' = {}
    /\ UNCHANGED trades

TradeMessage(s, payload) ==
    \/ ParseTrade(payload) = {} /\ RejectMessage
    \/ \E trade \in ParseTrade(payload) :
        LET id == trade.trade_id IN
        /\ \/ TradeAccepted(s, payload, trade)
           \/ TradeDuplicate(s, id) \/ TradeGap(s, id) \/ TradeHeld(s, id)
        /\ gates' = [gates EXCEPT ![s] = AfterLive(@, id)]
        /\ topTrade' = [topTrade EXCEPT ![s] = Larger(@, id)]
        /\ UNCHANGED <<lastBook, topBook>>

(* An older snapshot than the last one. *)
Rollback(s, id) == lastBook[s] # 0 /\ id < lastBook[s]

DepthMessage(s, payload) ==
    \/ ParseOrderbook(payload) = {} /\ RejectMessage
    \/ \E ob \in ParseOrderbook(payload) :
        LET id == ob.last_update_id IN
        /\ \/ /\ Rollback(s, id)
              /\ Count({"rollback_count"})
              /\ handed' = {}
              /\ UNCHANGED <<lastBook, topBook>>
           \/ /\ ~Rollback(s, id)
              /\ lastBook' = [lastBook EXCEPT ![s] = id]
              /\ topBook' = [topBook EXCEPT ![s] = Larger(@, id)]
              /\ \E throws \in BOOLEAN : Invoked({"orderbooks_parsed"}, throws)
              /\ handed' = {[payload |-> payload, record |-> ob]}
        /\ UNCHANGED <<gates, trades, topTrade, silent>>

-------------------------------------------------------------------------------
(* The payloads the stream may carry: a well-formed one of any id, or one that
   departs from the well-formed one of id 1 in one field.  Millisecond times lie around every
   limit of the conversion, unsigned values above INT64_MAX included. *)
Milliseconds == {-1, 0, 1, INT64_MAX \div UsPerMs, INT64_MAX \div UsPerMs + 1,
                 INT64_MAX, INT64_MAX + 1, 2 * INT64_MAX + 1}

SoundTrade(id) ==
    [e |-> "trade", s |-> "string", t |-> NumberField("integer", id),
     p |-> "positive", q |-> "positive", T |-> NumberField("integer", 1), m |-> "bool"]

TradePayloads ==
    LET sound == SoundTrade(1) IN
    UNION {{SoundTrade(id) : id \in 1..MaxId},
           {[sound EXCEPT !.e = c] : c \in {"absent", "untyped"}},
           {[sound EXCEPT !.s = c] : c \in {"absent", "untyped"}},
           {[sound EXCEPT !.m = c] : c \in {"absent", "untyped"}},
           {[sound EXCEPT !.p = c] : c \in DecimalTexts},
           {[sound EXCEPT !.q = c] : c \in {"malformed", "nonpositive"}},
           {[sound EXCEPT !.t = f] : f \in BadNumbers \cup {NumberField("float", 1)}},
           {[sound EXCEPT !.T = f] :
               f \in BadNumbers \cup {NumberField("integer", n) : n \in Milliseconds}}}

Sides == {Side("absent", <<>>), Side("untyped", <<>>), Side("array", <<>>)}
         \cup {Side("array", <<c>>) : c \in Level}
         \cup {Side("array", <<"positive", c>>) : c \in {"positive", "nonpositive"}}
         \cup {Side("array", <<"positive", "positive", "malformed">>)}

SoundBook(id) ==
    [lastUpdateId |-> NumberField("integer", id),
     bids |-> Side("array", <<"positive">>), asks |-> Side("array", <<"positive">>)]

BookPayloads ==
    LET sound == SoundBook(1) IN
    UNION {{SoundBook(id) : id \in 1..MaxId},
           {[sound EXCEPT !.lastUpdateId = f] :
               f \in BadNumbers \cup {NumberField("float", 1)}
                     \cup {NumberField("integer", n) : n \in {-1, 0, INT64_MAX + 1}}},
           {[sound EXCEPT !.bids = side] : side \in Sides},
           {[sound EXCEPT !.asks = Side("array", <<c>>)] : c \in {"positive", "malformed"}}}

OnRawMessage ==
    /\ metrics["msgs_recv"] < MaxMsgs
    /\ \/ RejectMessage
       \/ IgnoreMessage
       \/ \E s \in Symbols :
            \/ \E payload \in TradePayloads : TradeMessage(s, payload)
            \/ \E payload \in BookPayloads : DepthMessage(s, payload)

(* The stream may fall silent for good. *)
Quiet == metrics["msgs_recv"] = MaxMsgs /\ UNCHANGED vars

Next == OnRawMessage \/ Quiet

Spec == Init /\ [][Next]_vars

-------------------------------------------------------------------------------
Held == {s \in Symbols : ~CanTrade(gates[s])}

(* The trades <<symbol, id>> the open gaps span, from the last trade handed out to
   the one that revealed the gap. *)
MissingTrades == {m \in Symbols \X (1..MaxId) :
                     /\ m[1] \in Held
                     /\ gates[m[1]].last < m[2] /\ m[2] <= gates[m[1]].missingEnd}

(* However the stream loses, repeats, reorders and interleaves the symbols, the
   trades of a symbol reach on_trade_ with consecutive ids, and the snapshot
   last handed to on_orderbook_ is the newest one handed out. *)
CallbacksInSequence ==
    \A s \in Symbols :
        /\ \A i \in 1..Len(trades[s]) : i > 1 => trades[s][i] = trades[s][i - 1] + 1
        /\ lastBook[s] = topBook[s]

(* can_trade(s) is to be trusted: while it is true, no trade of s has been seen
   that is newer than the last one handed to on_trade_. *)
TrustedMeansCaughtUp ==
    \A s \in Symbols : CanTrade(gates[s]) =>
        IF trades[s] = <<>> THEN topTrade[s] = 0
                            ELSE topTrade[s] = trades[s][Len(trades[s])]

(* The counters kept by hand agree with the gates: a symbol in recovery is
   counted once, however many trades it holds back, and missing_records is the
   number of trades the open gaps span. *)
GapCountersMatchGates ==
    /\ metrics["recovering_symbols"] = Cardinality(Held)
    /\ metrics["gap_count"] = Cardinality(Held)
    /\ metrics["missing_records"] = Cardinality(MissingTrades)

(* Every message is counted in exactly one class, or is one of those the code
   drops by design without counting (control messages, unused streams, trades
   held back in recovery); and every trade handed to on_trade_ left an exchange
   latency sample or a counted drop. *)
MessageAccounting ==
    /\ metrics["msgs_recv"] =
          metrics["parse_errors"] + metrics["trades_parsed"]
          + metrics["orderbooks_parsed"] + metrics["duplicate_count"]
          + metrics["gap_count"] + metrics["rollback_count"] + silent
    /\ metrics["trades_parsed"] =
          metrics["trade_latency"] + metrics["ext_latency_negative_drop"]

(* A callback receives what its message says: a trade with the id and the time
   of the payload, the milliseconds scaled without overflow; a book whose
   levels are those the payload lists, sound ones first and zeros after them. *)
RecordsMatchMessages ==
    \A h \in handed :
        IF "trade_id" \in DOMAIN h.record
        THEN /\ h.record.trade_id = h.payload.t.num
             /\ h.record.exchange_ts_us = UsPerMs * h.payload.T.num
        ELSE \A side \in {"bids", "asks"}, i \in 1..ORDERBOOK_DEPTH :
                h.record[side][i] = (IF i <= Len(h.payload[side].levels)
                                     THEN "positive" ELSE "zero")
===============================================================================
