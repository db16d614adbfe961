------------------------- MODULE MarketDispatchProofs -------------------------
(* Proofs about MarketDispatch: any number of symbols, ids and messages, any
   width of the 64-bit integers and any depth of the order book. *)
EXTENDS MarketDispatch, FiniteSetTheorems, TLAPS

-------------------------------------------------------------------------------
(* What the parser makes of a payload *)

(* A number that fits keeps its value when it is read as an int64_t. *)
LEMMA WrappedFits ==
    ASSUME NEW n \in Nat, n <= INT64_MAX PROVE Wrapped(INT64_MAX, n) = n
<1>1. ASSUME NEW x \in Int, NEW k \in Nat, 0 <= x, x < k PROVE x % k = x
  BY <1>1
<1>. DEFINE x == n + INT64_MAX + 1  k == 2 * (INT64_MAX + 1)
<1>2. x \in Int /\ k \in Nat /\ 0 <= x /\ x < k  BY ParserConstants
<1>. HIDE DEF k, x
<1>3. x % k = x  BY <1>1, <1>2
<1>. QED  BY <1>3, ParserConstants DEF Wrapped, x, k

(* An unsigned number above the range becomes negative. *)
LEMMA WrappedAbove ==
    ASSUME NEW n \in Nat, n > INT64_MAX, n <= 2 * INT64_MAX + 1
    PROVE  Wrapped(INT64_MAX, n) \in Int /\ Wrapped(INT64_MAX, n) < 0
<1>1. ASSUME NEW x \in Int, NEW k \in Nat, k <= x, x < 2 * k PROVE x % k = x - k
  BY <1>1
<1>. DEFINE x == n + INT64_MAX + 1  k == 2 * (INT64_MAX + 1)
<1>2. x \in Int /\ k \in Nat /\ k <= x /\ x < 2 * k  BY ParserConstants
<1>. HIDE DEF k, x
<1>3. x % k = x - k  BY <1>1, <1>2
<1>. QED  BY <1>3, ParserConstants DEF Wrapped, x, k

(* The milliseconds a trade payload may hold: only those in the range of the
   check pass it, and they are what they were. *)
LEMMA MillisecondsRead ==
    ASSUME NEW n \in Milliseconds, TimestampInRange(Wrapped(INT64_MAX, n))
    PROVE  n \in Nat /\ n >= 1 /\ n <= INT64_MAX \div UsPerMs /\ Wrapped(INT64_MAX, n) = n
<1>1. INT64_MAX \in Nat /\ INT64_MAX \div UsPerMs \in Nat
  BY ParserConstants
<1>2. n \in Int /\ -1 <= n
  BY <1>1 DEF Milliseconds
<1>3. n <= 2 * INT64_MAX + 1
  <2>1. INT64_MAX \div UsPerMs <= INT64_MAX
    BY ParserConstants
  <2>. QED  BY <1>1, <2>1 DEF Milliseconds
<1>4. n # -1
  <2>1. ASSUME n = -1 PROVE FALSE
    <3>1. INT64_MAX % (2 * (INT64_MAX + 1)) = INT64_MAX
      <4>1. ASSUME NEW x \in Int, NEW k \in Nat, 0 <= x, x < k PROVE x % k = x
        BY <4>1
      <4>. QED  BY <4>1, <1>1
    <3>2. Wrapped(INT64_MAX, n) = -1
      BY <1>1, <2>1, <3>1 DEF Wrapped
    <3>. QED  BY <3>2 DEF TimestampInRange
  <2>. QED  BY <2>1
<1>5. n <= INT64_MAX
  BY <1>1, <1>2, <1>3, <1>4, WrappedAbove DEF TimestampInRange
<1>6. Wrapped(INT64_MAX, n) = n
  BY <1>2, <1>4, <1>5, WrappedFits
<1>. QED  BY <1>2, <1>4, <1>6 DEF TimestampInRange

(* A checked time can be scaled to microseconds without overflow. *)
LEMMA ScaledInRange ==
    ASSUME NEW n \in Nat, n <= INT64_MAX \div UsPerMs
    PROVE  n * UsPerMs \in Nat /\ n * UsPerMs <= INT64_MAX
<1>1. ASSUME NEW u \in Nat, u >= 1, NEW m \in Nat, NEW k \in Nat, k <= m \div u
      PROVE  k * u \in Nat /\ k * u <= m
  BY <1>1
<1>. QED  BY <1>1, ParserConstants

(* The ids of trades. *)
TradeIds == (1..MaxId) \cup {1}

(* Fields of the payloads a trade stream may carry: a number is the id of a
   trade, and a time is one of Milliseconds. *)
LEMMA TradePayloadFields ==
    ASSUME NEW payload \in TradePayloads
    PROVE  /\ IsNumber(payload.t) => payload.t.num \in TradeIds
           /\ IsNumber(payload.T) => payload.T.num \in Milliseconds
<1>. DEFINE sound == SoundTrade(1)
<1>1. CASE \E id \in 1..MaxId : payload = SoundTrade(id)
  BY <1>1 DEF SoundTrade, NumberField, TradeIds, Milliseconds
<1>2. CASE \E c : \/ payload = [sound EXCEPT !.e = c] \/ payload = [sound EXCEPT !.s = c]
                  \/ payload = [sound EXCEPT !.m = c] \/ payload = [sound EXCEPT !.p = c]
                  \/ payload = [sound EXCEPT !.q = c]
  BY <1>2 DEF SoundTrade, NumberField, TradeIds, Milliseconds
<1>3. CASE \E f \in BadNumbers \cup {NumberField("float", 1)} : payload = [sound EXCEPT !.t = f]
  BY <1>3 DEF SoundTrade, BadNumbers, NumberField, IsNumber, TradeIds, Milliseconds
<1>4. CASE \E f \in BadNumbers \cup {NumberField("integer", n) : n \in Milliseconds} :
              payload = [sound EXCEPT !.T = f]
  <2>1. PICK f \in BadNumbers \cup {NumberField("integer", n) : n \in Milliseconds} :
            payload = [sound EXCEPT !.T = f]
    BY <1>4
  <2>2. payload.T = f /\ payload.t.num = 1
    BY <2>1 DEF SoundTrade, NumberField
  <2>3. IsNumber(f) => f.num \in Milliseconds
    BY <2>1 DEF BadNumbers, NumberField, IsNumber
  <2>. QED  BY <2>2, <2>3 DEF TradeIds
<1>. QED  BY <1>1, <1>2, <1>3, <1>4 DEF TradePayloads

(* What parse_trade returns for them: the id and the scaled time of the payload. *)
LEMMA TradeParsed ==
    ASSUME NEW payload \in TradePayloads, NEW trade \in ParseTrade(payload)
    PROVE  /\ trade = [trade_id |-> payload.t.num, exchange_ts_us |-> UsPerMs * payload.T.num]
           /\ payload.t.num \in TradeIds
           /\ UsPerMs * payload.T.num \in Nat \ {0}
<1>1. /\ IsNumber(payload.t) /\ IsNumber(payload.T)
      /\ TimestampInRange(GetInt64(payload.T))
      /\ trade = [trade_id |-> GetInt64(payload.t),
                  exchange_ts_us |-> Wrapped(INT64_MAX, GetInt64(payload.T) * UsPerMs)]
  BY DEF ParseTrade
<1>2. payload.t.num \in TradeIds /\ payload.T.num \in Milliseconds
  BY <1>1, TradePayloadFields
<1>3. GetInt64(payload.t) = payload.t.num
  BY <1>2, WrappedFits, DispatchBounds, ParserConstants DEF GetInt64, TradeIds
<1>. DEFINE ms == payload.T.num
<1>4. ms \in Nat /\ ms >= 1 /\ ms <= INT64_MAX \div UsPerMs /\ GetInt64(payload.T) = ms
  BY <1>1, <1>2, MillisecondsRead DEF GetInt64
<1>. HIDE DEF ms
<1>5. ms * UsPerMs \in Nat /\ ms * UsPerMs <= INT64_MAX
  BY <1>4, ScaledInRange
<1>6. Wrapped(INT64_MAX, ms * UsPerMs) = ms * UsPerMs
  BY <1>5, WrappedFits
<1>7. ms * UsPerMs = UsPerMs * ms /\ ms * UsPerMs > 0
  BY <1>4, ParserConstants
<1>. QED  BY <1>1, <1>2, <1>3, <1>4, <1>5, <1>6, <1>7 DEF ms

(* A side of a book that was accepted lists sound levels first and zeros after
   them. *)
LEMMA SideParsed ==
    ASSUME NEW arr, LevelsSound(arr), Len(arr.levels) \in Nat
    PROVE  \A i \in 1..ORDERBOOK_DEPTH :
              Filled(arr)[i] = (IF i <= Len(arr.levels) THEN "positive" ELSE "zero")
BY ParserConstants
   DEF LevelsSound, Filled, Checked, Decimal, FinitePositive, ParseDoubleStrict

(* Fields of the payloads a depth stream may carry. *)
LEMMA BookPayloadFields ==
    ASSUME NEW payload \in BookPayloads
    PROVE  /\ payload.lastUpdateId.num \in Int
           /\ Len(payload.bids.levels) \in Nat /\ Len(payload.asks.levels) \in Nat
<1>. DEFINE sound == SoundBook(1)
<1>1. CASE \E id \in 1..MaxId : payload = SoundBook(id)
  BY <1>1 DEF SoundBook, NumberField, Side
<1>2. CASE \E f \in BadNumbers \cup {NumberField("float", 1)}
                    \cup {NumberField("integer", n) : n \in {-1, 0, INT64_MAX + 1}} :
              payload = [sound EXCEPT !.lastUpdateId = f]
  BY <1>2, ParserConstants DEF SoundBook, BadNumbers, NumberField, Side
<1>3. CASE \E side \in Sides : payload = [sound EXCEPT !.bids = side]
  <2>1. \A side \in Sides : Len(side.levels) \in Nat
    BY DEF Sides, Side
  <2>. QED  BY <1>3, <2>1 DEF SoundBook, NumberField, Side
<1>4. CASE \E c \in {"positive", "malformed"} :
              payload = [sound EXCEPT !.asks = Side("array", <<c>>)]
  BY <1>4 DEF SoundBook, NumberField, Side
<1>. QED  BY <1>1, <1>2, <1>3, <1>4 DEF BookPayloads

(* What parse_orderbook returns for them. *)
LEMMA BookParsed ==
    ASSUME NEW payload \in BookPayloads, NEW ob \in ParseOrderbook(payload)
    PROVE  /\ ob = [last_update_id |-> GetInt64(payload.lastUpdateId),
                    bids |-> Filled(payload.bids), asks |-> Filled(payload.asks)]
           /\ ob.last_update_id \in Nat \ {0}
           /\ LevelsSound(payload.bids) /\ LevelsSound(payload.asks)
<1>1. /\ ob = [last_update_id |-> GetInt64(payload.lastUpdateId),
               bids |-> Filled(payload.bids), asks |-> Filled(payload.asks)]
      /\ GetInt64(payload.lastUpdateId) > 0
      /\ LevelsSound(payload.bids) /\ LevelsSound(payload.asks)
  BY DEF ParseOrderbook
<1>2. GetInt64(payload.lastUpdateId) \in Int
  BY BookPayloadFields, ParserConstants DEF GetInt64, Wrapped
<1>. QED  BY <1>1, <1>2

-------------------------------------------------------------------------------
(* The inductive invariant *)

TypeOK ==
    /\ gates \in [Symbols -> Gate]
    /\ lastBook \in [Symbols -> Nat] /\ topBook \in [Symbols -> Nat]
    /\ metrics \in [Counters -> Nat]
    /\ trades \in [Symbols -> Seq(Nat)] /\ topTrade \in [Symbols -> Nat]
    /\ silent \in Nat

(* The gate of a symbol knows the last trade that was handed out, and while it is
   live that is the highest one received. *)
GateInv ==
    \A s \in Symbols :
        /\ gates[s].hasLast <=> trades[s] # <<>>
        /\ gates[s].last = (IF trades[s] = <<>> THEN 0 ELSE trades[s][Len(trades[s])])
        /\ CanTrade(gates[s]) => topTrade[s] = gates[s].last

DispatchInv ==
    TypeOK /\ GateInv /\ CallbacksInSequence /\ GapCountersMatchGates /\ MessageAccounting
    /\ RecordsMatchMessages

(* Nothing has been received yet. *)
LEMMA InitDispatch == Init => DispatchInv
<1>. SUFFICES ASSUME Init PROVE DispatchInv  OBVIOUS
<1>1. NewGate \in Gate  BY DEF NewGate, Gate
<1>2. TypeOK  BY <1>1 DEF Init, TypeOK
<1>3. GateInv  BY DEF Init, NewGate, CanTrade, GateInv
<1>8. CallbacksInSequence  BY DEF Init, CallbacksInSequence
<1>4. Held = {} /\ MissingTrades = {}
  BY DEF Init, NewGate, CanTrade, Held, MissingTrades
<1>5. GapCountersMatchGates
  BY <1>4, FS_EmptySet DEF Init, Counters, GapCountersMatchGates
<1>6. MessageAccounting  BY DEF Init, Counters, MessageAccounting
<1>7. RecordsMatchMessages  BY DEF Init, RecordsMatchMessages
<1>. QED  BY <1>2, <1>3, <1>5, <1>6, <1>7, <1>8 DEF DispatchInv

(* The trades the gaps span are finitely many. *)
LEMMA FiniteGaps == IsFiniteSet(Held) /\ IsFiniteSet(MissingTrades)
<1>1. IsFiniteSet(Symbols \X (1..MaxId))
  <2>1. 1 \in Int /\ MaxId \in Int  BY DispatchBounds, ParserConstants
  <2>2. IsFiniteSet(1..MaxId)  BY <2>1, FS_Interval
  <2>. QED  BY <2>2, FiniteSymbols, FS_Product
<1>2. Held \in SUBSET Symbols /\ MissingTrades \in SUBSET (Symbols \X (1..MaxId))
  BY DEF Held, MissingTrades
<1>. QED  BY <1>1, <1>2, FiniteSymbols, FS_Subset

(* Whether a set of counters has c, as a number. *)
In(S, c) == IF c \in S THEN 1 ELSE 0

(* Counting a message in some classes raises those counters and msgs_recv. *)
LEMMA Counting ==
    ASSUME metrics \in [Counters -> Nat], NEW S, "msgs_recv" \notin S, Count(S)
    PROVE  /\ metrics' \in [Counters -> Nat]
           /\ metrics'["msgs_recv"] = metrics["msgs_recv"] + 1
           /\ \A c \in Counters \ {"msgs_recv"} : metrics'[c] = metrics[c] + In(S, c)
<1>1. metrics' \in [Counters -> Nat]  BY DEF Count
<1>2. \A c \in Counters : metrics'[c] = metrics[c] + (IF c \in S \cup {"msgs_recv"} THEN 1 ELSE 0)
  BY DEF Count
<1>3. "msgs_recv" \in Counters  BY DEF Counters
<1>. QED  BY <1>1, <1>2, <1>3 DEF In

(* A message that is counted in one class, or is dropped by design, keeps the
   accounts, if a trade comes with a latency sample or a counted drop. *)
LEMMA OneClass ==
    ASSUME TypeOK, MessageAccounting, NEW S, "msgs_recv" \notin S, Count(S),
           NEW drop \in {0, 1}, silent' = silent + drop,
           In(S, "parse_errors") + In(S, "trades_parsed") + In(S, "orderbooks_parsed")
           + In(S, "duplicate_count") + In(S, "gap_count") + In(S, "rollback_count") + drop = 1,
           In(S, "trades_parsed") = In(S, "trade_latency") + In(S, "ext_latency_negative_drop")
    PROVE  MessageAccounting' /\ silent' \in Nat
<1>1. /\ metrics'["msgs_recv"] = metrics["msgs_recv"] + 1
      /\ \A c \in Counters \ {"msgs_recv"} : metrics'[c] = metrics[c] + In(S, c)
  BY Counting DEF TypeOK
<1>2. \A c : In(S, c) \in {0, 1}  BY DEF In
<1>3. {"parse_errors", "trades_parsed", "orderbooks_parsed", "duplicate_count", "gap_count",
       "rollback_count", "trade_latency", "ext_latency_negative_drop"}
         \subseteq Counters \ {"msgs_recv"}
  BY DEF Counters
<1>4. \A c \in Counters : metrics[c] \in Nat  BY DEF TypeOK
<1>5. metrics["msgs_recv"] \in Nat /\ silent \in Nat  BY DEF Counters, TypeOK
<1>6. \A c \in {"parse_errors", "trades_parsed", "orderbooks_parsed", "duplicate_count",
               "gap_count", "rollback_count", "trade_latency", "ext_latency_negative_drop"} :
          metrics[c] \in Nat /\ metrics'[c] = metrics[c] + In(S, c)
  BY <1>1, <1>3, <1>4
<1>7. /\ metrics["parse_errors"] \in Nat /\ metrics'["parse_errors"] = metrics["parse_errors"] + In(S, "parse_errors")
      /\ metrics["trades_parsed"] \in Nat /\ metrics'["trades_parsed"] = metrics["trades_parsed"] + In(S, "trades_parsed")
      /\ metrics["orderbooks_parsed"] \in Nat /\ metrics'["orderbooks_parsed"] = metrics["orderbooks_parsed"] + In(S, "orderbooks_parsed")
      /\ metrics["duplicate_count"] \in Nat /\ metrics'["duplicate_count"] = metrics["duplicate_count"] + In(S, "duplicate_count")
      /\ metrics["gap_count"] \in Nat /\ metrics'["gap_count"] = metrics["gap_count"] + In(S, "gap_count")
      /\ metrics["rollback_count"] \in Nat /\ metrics'["rollback_count"] = metrics["rollback_count"] + In(S, "rollback_count")
      /\ metrics["trade_latency"] \in Nat /\ metrics'["trade_latency"] = metrics["trade_latency"] + In(S, "trade_latency")
      /\ metrics["ext_latency_negative_drop"] \in Nat /\ metrics'["ext_latency_negative_drop"] = metrics["ext_latency_negative_drop"] + In(S, "ext_latency_negative_drop")
  BY <1>6
<1>8. metrics'["msgs_recv"] = metrics["msgs_recv"] + 1  BY <1>1
<1>9. In(S, "parse_errors") \in Int /\ In(S, "trades_parsed") \in Int
      /\ In(S, "orderbooks_parsed") \in Int
      /\ In(S, "duplicate_count") \in Int
      /\ In(S, "gap_count") \in Int
      /\ In(S, "rollback_count") \in Int
      /\ In(S, "trade_latency") \in Int
      /\ In(S, "ext_latency_negative_drop") \in Int
  BY <1>2
<1>. QED  BY <1>5, <1>7, <1>8, <1>9 DEF MessageAccounting

(* A message that touches no gate's state and counts no gap keeps the counters in
   step with the gates. *)
LEMMA NoGap ==
    ASSUME TypeOK, GapCountersMatchGates, NEW S, "msgs_recv" \notin S, Count(S),
           S \cap {"gap_count", "recovering_symbols", "missing_records"} = {},
           UNCHANGED <<Held, MissingTrades>>
    PROVE  GapCountersMatchGates'
<1>1. \A c \in Counters \ {"msgs_recv"} : metrics'[c] = metrics[c] + In(S, c)
  BY Counting DEF TypeOK
<1>2. \A c \in {"gap_count", "recovering_symbols", "missing_records"} :
          c \in Counters \ {"msgs_recv"} /\ In(S, c) = 0
  BY DEF Counters, In
<1>3. \A c \in Counters : metrics[c] \in Nat  BY DEF TypeOK
<1>. QED  BY <1>1, <1>2, <1>3 DEF GapCountersMatchGates

(* A rejected message changes counters only. *)
LEMMA RejectKeeps == ASSUME DispatchInv, RejectMessage PROVE DispatchInv'
<1>. DEFINE S == {"parse_errors"}
<1>1. Count(S) /\ silent' = silent + 0 /\ "msgs_recv" \notin S
  BY DEF RejectMessage, DispatchInv, TypeOK
<1>2. UNCHANGED <<Held, MissingTrades>>
  BY DEF RejectMessage, Held, MissingTrades
<1>3. MessageAccounting' /\ silent' \in Nat
  BY <1>1, OneClass DEF DispatchInv, In
<1>4. GapCountersMatchGates'
  BY <1>1, <1>2, NoGap DEF DispatchInv
<1>5. TypeOK'
  BY <1>1, <1>3, Counting DEF DispatchInv, TypeOK, RejectMessage
<1>6. GateInv' /\ CallbacksInSequence' /\ RecordsMatchMessages'
  BY DEF RejectMessage, DispatchInv, GateInv, CallbacksInSequence, RecordsMatchMessages
<1>. QED  BY <1>3, <1>4, <1>5, <1>6 DEF DispatchInv

(* So does one that is dropped by design. *)
LEMMA IgnoreKeeps == ASSUME DispatchInv, IgnoreMessage PROVE DispatchInv'
<1>1. Count({}) /\ silent' = silent + 1
  BY DEF IgnoreMessage
<1>2. UNCHANGED <<Held, MissingTrades>>
  BY DEF IgnoreMessage, Held, MissingTrades
<1>3. MessageAccounting' /\ silent' \in Nat
  BY <1>1, OneClass DEF DispatchInv, In
<1>4. GapCountersMatchGates'
  BY <1>1, <1>2, NoGap DEF DispatchInv
<1>5. TypeOK'
  BY <1>1, <1>3, Counting DEF DispatchInv, TypeOK, IgnoreMessage
<1>6. GateInv' /\ CallbacksInSequence' /\ RecordsMatchMessages'
  BY DEF IgnoreMessage, DispatchInv, GateInv, CallbacksInSequence, RecordsMatchMessages
<1>. QED  BY <1>3, <1>4, <1>5, <1>6 DEF DispatchInv

(* A depth message: a rollback changes counters only, any other snapshot is the
   newest one. *)
LEMMA DepthKeeps ==
    ASSUME DispatchInv, NEW s \in Symbols, NEW payload \in BookPayloads,
           DepthMessage(s, payload)
    PROVE  DispatchInv'
<1>1. CASE RejectMessage  BY <1>1, RejectKeeps
<1>2. ASSUME NEW ob \in ParseOrderbook(payload),
             UNCHANGED <<gates, trades, topTrade, silent>>,
             Rollback(s, ob.last_update_id), Count({"rollback_count"}), handed' = {},
             UNCHANGED <<lastBook, topBook>>
      PROVE  DispatchInv'
  <2>. DEFINE S == {"rollback_count"}
  <2>1. Count(S) /\ silent' = silent + 0 /\ "msgs_recv" \notin S
    BY <1>2 DEF DispatchInv, TypeOK
  <2>2. UNCHANGED <<Held, MissingTrades>>  BY <1>2 DEF Held, MissingTrades
  <2>3. MessageAccounting' /\ silent' \in Nat  BY <2>1, OneClass DEF DispatchInv, In
  <2>4. GapCountersMatchGates'  BY <2>1, <2>2, NoGap DEF DispatchInv
  <2>5. TypeOK'  BY <1>2, <2>1, <2>3, Counting DEF DispatchInv, TypeOK
  <2>6. GateInv' /\ CallbacksInSequence' /\ RecordsMatchMessages'
    BY <1>2 DEF DispatchInv, GateInv, CallbacksInSequence, RecordsMatchMessages
  <2>. QED  BY <2>3, <2>4, <2>5, <2>6 DEF DispatchInv
<1>3. ASSUME NEW ob \in ParseOrderbook(payload),
             UNCHANGED <<gates, trades, topTrade, silent>>,
             ~Rollback(s, ob.last_update_id),
             lastBook' = [lastBook EXCEPT ![s] = ob.last_update_id],
             topBook' = [topBook EXCEPT ![s] = Larger(@, ob.last_update_id)],
             NEW throws \in BOOLEAN, Invoked({"orderbooks_parsed"}, throws),
             handed' = {[payload |-> payload, record |-> ob]}
      PROVE  DispatchInv'
  <2>. DEFINE S == {"orderbooks_parsed"} \cup (IF throws THEN {"callback_errors"} ELSE {})
  <2>1. Count(S) /\ silent' = silent + 0 /\ "msgs_recv" \notin S
    BY <1>3 DEF DispatchInv, TypeOK, Invoked
  <2>2. UNCHANGED <<Held, MissingTrades>>  BY <1>3 DEF Held, MissingTrades
  <2>3. MessageAccounting' /\ silent' \in Nat  BY <2>1, OneClass DEF DispatchInv, In
  <2>4. GapCountersMatchGates'  BY <2>1, <2>2, NoGap DEF DispatchInv
  <2>5. ob.last_update_id \in Nat \ {0}  BY BookParsed
  <2>6. TypeOK'
    BY <1>3, <2>1, <2>3, <2>5, Counting DEF DispatchInv, TypeOK, Larger
  <2>7. GateInv'  BY <1>3 DEF DispatchInv, GateInv
  <2>8. CallbacksInSequence'
    BY <1>3, <2>5 DEF DispatchInv, TypeOK, CallbacksInSequence, Rollback, Larger
  <2>9. RecordsMatchMessages'
    <3>1. ob = [last_update_id |-> GetInt64(payload.lastUpdateId),
                bids |-> Filled(payload.bids), asks |-> Filled(payload.asks)]
      BY BookParsed
    <3>2. "trade_id" \notin DOMAIN ob  BY <3>1
    <3>3. \A i \in 1..ORDERBOOK_DEPTH :
             /\ ob["bids"][i] = (IF i <= Len(payload["bids"].levels) THEN "positive" ELSE "zero")
             /\ ob["asks"][i] = (IF i <= Len(payload["asks"].levels) THEN "positive" ELSE "zero")
      BY <3>1, BookParsed, BookPayloadFields, SideParsed
    <3>4. \A h \in handed' : h.payload = payload /\ h.record = ob  BY <1>3
    <3>. QED  BY <3>2, <3>3, <3>4 DEF RecordsMatchMessages
  <2>. QED  BY <2>3, <2>4, <2>6, <2>7, <2>8, <2>9 DEF DispatchInv
<1>. QED  BY <1>1, <1>2, <1>3 DEF DepthMessage

(* One more id at the end of consecutive ones. *)
LEMMA AppendNext ==
    ASSUME NEW q \in Seq(Nat), NEW id \in Nat,
           \A i \in 1..Len(q) : i > 1 => q[i] = q[i - 1] + 1,
           q # <<>> => id = q[Len(q)] + 1,
           NEW r, r = Append(q, id)
    PROVE  /\ r \in Seq(Nat) /\ r # <<>> /\ r[Len(r)] = id
           /\ \A i \in 1..Len(r) : i > 1 => r[i] = r[i - 1] + 1
<1>1. /\ r \in Seq(Nat) /\ r # <<>> /\ Len(r) = Len(q) + 1 /\ r[Len(r)] = id
      /\ \A i \in 1..Len(q) : r[i] = q[i]
  OBVIOUS
<1>2. ASSUME NEW i \in 1..Len(r), i > 1 PROVE r[i] = r[i - 1] + 1
  <2>1. CASE i <= Len(q)  BY <1>1, <1>2, <2>1
  <2>2. CASE i = Len(q) + 1  BY <1>1, <1>2, <2>2
  <2>3. i <= Len(q) \/ i = Len(q) + 1
    <3>1. Len(q) \in Nat  OBVIOUS
    <3>2. i \in 1..(Len(q) + 1)  BY <1>1
    <3>. QED  BY <3>1, <3>2
  <2>. QED  BY <2>1, <2>2, <2>3
<1>. QED  BY <1>1, <1>2

(* The gate's verdict on an id, as conditions. *)
LEMMA Verdict ==
    ASSUME NEW g \in Gate, NEW id \in Nat
    PROVE  /\ OnLiveVerdict(g, id) = "Accept" =>
                 /\ g.state = "Live" /\ (g.hasLast => id = g.last + 1)
                 /\ AfterLive(g, id) = [g EXCEPT !.hasLast = TRUE, !.last = id]
           /\ OnLiveVerdict(g, id) = "Duplicate" =>
                 g.state = "Live" /\ g.hasLast /\ id <= g.last /\ AfterLive(g, id) = g
           /\ OnLiveVerdict(g, id) = "Gap" =>
                 /\ g.state = "Live" /\ g.hasLast /\ id > g.last + 1
                 /\ AfterLive(g, id) = OpenGap(g, id)
           /\ OnLiveVerdict(g, id) = "Hold" =>
                 g.state = "Recovering" /\ AfterLive(g, id) = g
BY DEF Gate, OnLiveVerdict, AfterLive

(* What a parsed trade does to the state of its symbol. *)
TradeStep(s, id) ==
    /\ gates' = [gates EXCEPT ![s] = AfterLive(@, id)]
    /\ topTrade' = [topTrade EXCEPT ![s] = Larger(@, id)]
    /\ UNCHANGED <<lastBook, topBook>>

(* A trade the gate does not pass, and that opens no gap, leaves the gates alone;
   the id it brings is older, or the symbol is in recovery. *)
LEMMA IdleTradeKeeps ==
    ASSUME DispatchInv, NEW s \in Symbols, NEW id \in TradeIds, TradeStep(s, id),
           TradeDuplicate(s, id) \/ TradeHeld(s, id)
    PROVE  DispatchInv'
<1>. USE DEF DispatchInv
<1>1. id \in Nat /\ gates[s] \in Gate
  BY DispatchBounds, ParserConstants DEF TradeIds, TypeOK
<1>2. /\ AfterLive(gates[s], id) = gates[s]
      /\ gates[s].state = "Live" => id <= gates[s].last
  <2>1. OnLiveVerdict(gates[s], id) \in {"Duplicate", "Hold"}
    BY DEF TradeDuplicate, TradeHeld
  <2>. QED  BY <1>1, <2>1, Verdict
<1>3. gates' = gates /\ trades' = trades /\ handed' = {}
  BY <1>2 DEF TradeStep, TradeDuplicate, TradeHeld, TypeOK
<1>4. UNCHANGED <<Held, MissingTrades>>  BY <1>3 DEF Held, MissingTrades
<1>5. /\ metrics' \in [Counters -> Nat] /\ silent' \in Nat
      /\ MessageAccounting' /\ GapCountersMatchGates'
  <2>1. CASE TradeDuplicate(s, id)
    <3>. DEFINE S == {"duplicate_count"}
    <3>1. Count(S) /\ silent' = silent + 0 /\ "msgs_recv" \notin S
      BY <2>1 DEF TradeDuplicate, TypeOK
    <3>2. MessageAccounting' /\ silent' \in Nat  BY <3>1, OneClass DEF In
    <3>. QED  BY <1>4, <3>1, <3>2, NoGap, Counting DEF TypeOK
  <2>2. CASE TradeHeld(s, id)
    <3>1. Count({}) /\ silent' = silent + 1  BY <2>2 DEF TradeHeld, HoldCounted
    <3>2. MessageAccounting' /\ silent' \in Nat  BY <3>1, OneClass DEF In
    <3>. QED  BY <1>4, <3>1, <3>2, NoGap, Counting DEF TypeOK
  <2>. QED  BY <2>1, <2>2
<1>6. TypeOK'  BY <1>1, <1>3, <1>5 DEF TypeOK, TradeStep, Larger
<1>7. GateInv'
  BY <1>1, <1>2, <1>3 DEF GateInv, TradeStep, Larger, TypeOK, Gate, CanTrade
<1>8. CallbacksInSequence' /\ RecordsMatchMessages'
  BY <1>3 DEF CallbacksInSequence, RecordsMatchMessages, TradeStep
<1>. QED  BY <1>5, <1>6, <1>7, <1>8

(* A trade the gate passes is the next one of its symbol, and the gate stays
   live. *)
LEMMA AcceptedTradeKeeps ==
    ASSUME DispatchInv, NEW s \in Symbols, NEW payload \in TradePayloads,
           NEW trade \in ParseTrade(payload), TradeStep(s, trade.trade_id),
           TradeAccepted(s, payload, trade)
    PROVE  DispatchInv'
<1>. USE DEF DispatchInv
<1>. DEFINE id == trade.trade_id
<1>1. /\ trade = [trade_id |-> payload.t.num, exchange_ts_us |-> UsPerMs * payload.T.num]
      /\ id \in Nat /\ trade.exchange_ts_us > 0
  BY TradeParsed, DispatchBounds, ParserConstants DEF TradeIds
<1>2. gates[s] \in Gate  BY DEF TypeOK
<1>3. /\ gates[s].state = "Live" /\ (gates[s].hasLast => id = gates[s].last + 1)
      /\ gates' = [gates EXCEPT ![s] = [@ EXCEPT !.hasLast = TRUE, !.last = id]]
  <2>. HIDE DEF id
  <2>1. OnLiveVerdict(gates[s], id) = "Accept"  BY DEF TradeAccepted, id
  <2>2. /\ gates[s].state = "Live" /\ (gates[s].hasLast => id = gates[s].last + 1)
        /\ AfterLive(gates[s], id) = [gates[s] EXCEPT !.hasLast = TRUE, !.last = id]
    BY <1>1, <1>2, <2>1, Verdict
  <2>3. gates' = [gates EXCEPT ![s] = AfterLive(@, id)]  BY DEF TradeStep, id
  <2>. QED  BY <2>2, <2>3
<1>4. /\ trades' = [trades EXCEPT ![s] = Append(@, id)]
      /\ handed' = {[payload |-> payload, record |-> trade]} /\ silent' = silent + 0
  BY DEF TradeAccepted, TypeOK
<1>5. UNCHANGED <<Held, MissingTrades>>
  <2>1. \A t \in Symbols : CanTrade(gates'[t]) <=> CanTrade(gates[t])
    BY <1>2, <1>3 DEF CanTrade, TypeOK, Gate
  <2>2. s \notin Held  BY <1>3 DEF Held, CanTrade
  <2>3. \A t \in Held : gates'[t] = gates[t]  BY <1>3, <2>2 DEF Held, TypeOK
  <2>4. UNCHANGED Held  BY <2>1 DEF Held
  <2>. QED  BY <2>3, <2>4 DEF MissingTrades
<1>6. PICK throws \in BOOLEAN, negative \in BOOLEAN :
         Invoked({"trades_parsed"} \cup LatencySample(trade, negative), throws)
  BY DEF TradeAccepted
<1>. DEFINE sample == IF negative THEN "ext_latency_negative_drop" ELSE "trade_latency"
            S == {"trades_parsed", sample} \cup (IF throws THEN {"callback_errors"} ELSE {})
<1>7. Count(S) /\ "msgs_recv" \notin S
  <2>1. LatencySample(trade, negative) = {sample}  BY <1>1 DEF LatencySample
  <2>. QED  BY <1>6, <2>1 DEF Invoked
<1>8. MessageAccounting' /\ silent' \in Nat  BY <1>4, <1>7, OneClass DEF In
<1>9. GapCountersMatchGates'  BY <1>5, <1>7, NoGap
<1>10. metrics' \in [Counters -> Nat]  BY <1>7, Counting DEF TypeOK
<1>11. /\ trades'[s] \in Seq(Nat) /\ trades'[s] # <<>>
       /\ trades'[s][Len(trades'[s])] = id
       /\ \A i \in 1..Len(trades'[s]) : i > 1 => trades'[s][i] = trades'[s][i - 1] + 1
  <2>1. trades'[s] = Append(trades[s], id) /\ trades[s] \in Seq(Nat)  BY <1>4 DEF TypeOK
  <2>2. trades[s] # <<>> => id = trades[s][Len(trades[s])] + 1  BY <1>3 DEF GateInv
  <2>3. \A i \in 1..Len(trades[s]) : i > 1 => trades[s][i] = trades[s][i - 1] + 1
    BY DEF CallbacksInSequence
  <2>. DEFINE q == trades[s]  r == trades'[s]
  <2>. HIDE DEF id, q, r
  <2>4. /\ q \in Seq(Nat) /\ r = Append(q, id) /\ (q # <<>> => id = q[Len(q)] + 1)
        /\ \A i \in 1..Len(q) : i > 1 => q[i] = q[i - 1] + 1
    BY <2>1, <2>2, <2>3 DEF q, r
  <2>5. /\ r \in Seq(Nat) /\ r # <<>> /\ r[Len(r)] = id
        /\ \A i \in 1..Len(r) : i > 1 => r[i] = r[i - 1] + 1
    <3>1. id \in Nat  BY <1>1
    <3>. QED  BY ONLY <2>4, <3>1, AppendNext
  <2>. QED  BY <2>5 DEF r
<1>12. TypeOK'
  <2>. HIDE DEF id
  <2>1. gates' \in [Symbols -> Gate]  BY <1>1, <1>2, <1>3 DEF TypeOK, Gate
  <2>2. trades' \in [Symbols -> Seq(Nat)]  BY <1>4, <1>11 DEF TypeOK
  <2>3. topTrade' \in [Symbols -> Nat] /\ lastBook' = lastBook /\ topBook' = topBook
    BY <1>1 DEF TypeOK, TradeStep, Larger, id
  <2>. QED  BY <1>8, <1>10, <2>1, <2>2, <2>3 DEF TypeOK
<1>13. GateInv'
  <2>. HIDE DEF id
  <2>1. gates'[s] = [gates[s] EXCEPT !.hasLast = TRUE, !.last = id]  BY <1>3 DEF TypeOK
  <2>2. gates'[s].hasLast /\ gates'[s].last = id  BY <1>2, <2>1 DEF Gate
  <2>3. topTrade'[s] = id
    <3>1. topTrade[s] = gates[s].last /\ gates[s].last \in Nat
      BY <1>2, <1>3 DEF GateInv, CanTrade, Gate
    <3>2. gates[s].last <= id
      BY <1>1, <1>3, <3>1 DEF GateInv
    <3>. QED  BY <1>1, <3>1, <3>2 DEF TradeStep, Larger, TypeOK, id
  <2>4. \A t \in Symbols \ {s} : /\ gates'[t] = gates[t] /\ trades'[t] = trades[t]
                                /\ topTrade'[t] = topTrade[t]
    BY <1>3, <1>4 DEF TradeStep, TypeOK
  <2>. QED  BY <1>11, <2>2, <2>3, <2>4 DEF GateInv
<1>14. CallbacksInSequence'
  BY <1>4, <1>11 DEF CallbacksInSequence, TradeStep, TypeOK
<1>15. RecordsMatchMessages'
  BY <1>1, <1>4 DEF RecordsMatchMessages
<1>. QED  BY <1>8, <1>9, <1>12, <1>13, <1>14, <1>15

(* A trade that reveals a gap: one more symbol in recovery, and as many trades
   missing as missing_records is raised by. *)
LEMMA GapKeeps ==
    ASSUME DispatchInv, NEW s \in Symbols, NEW id \in TradeIds, TradeStep(s, id),
           TradeGap(s, id)
    PROVE  DispatchInv'
<1>. USE DEF DispatchInv
<1>1. id \in Nat /\ gates[s] \in Gate
  BY DispatchBounds, ParserConstants DEF TradeIds, TypeOK
<1>. DEFINE last == gates[s].last
<1>2. /\ gates[s].state = "Live" /\ gates[s].hasLast /\ id > last + 1 /\ last \in Nat
      /\ gates' = [gates EXCEPT ![s] = [@ EXCEPT !.state = "Recovering",
                                                 !.missingBegin = last + 1,
                                                 !.missingEnd = id - 1]]
  BY <1>1, Verdict DEF TradeStep, TradeGap, TypeOK, Gate, OpenGap
<1>3. id \in 1..MaxId  BY <1>1, <1>2 DEF TradeIds
<1>4. Held' = Held \cup {s} /\ s \notin Held
  BY <1>1, <1>2 DEF Held, CanTrade, TypeOK, Gate
<1>. DEFINE New == {s} \X ((last + 1)..(id - 1))
<1>5. MissingTrades' = MissingTrades \cup New /\ MissingTrades \cap New = {}
  <2>1. \A t \in Held : gates'[t] = gates[t]  BY <1>2, <1>4 DEF Held, TypeOK
  <2>2. gates'[s].last = last /\ gates'[s].missingEnd = id - 1
    BY <1>1, <1>2 DEF TypeOK, Gate
  <2>3. ASSUME NEW m \in MissingTrades' PROVE m \in MissingTrades \cup New
    <3>1. /\ m \in Symbols \X (1..MaxId) /\ m[1] \in Held \cup {s}
          /\ gates'[m[1]].last < m[2] /\ m[2] <= gates'[m[1]].missingEnd
      BY <1>4 DEF MissingTrades
    <3>2. CASE m[1] = s  BY <1>1, <1>2, <2>2, <3>1, <3>2
    <3>3. CASE m[1] \in Held  BY <2>1, <3>1, <3>3 DEF MissingTrades
    <3>. QED  BY <3>1, <3>2, <3>3
  <2>4. ASSUME NEW m \in MissingTrades PROVE m \in MissingTrades'
    BY <1>4, <2>1 DEF MissingTrades
  <2>5. ASSUME NEW m \in New PROVE m \in MissingTrades'
    <3>0. PICK k \in (last + 1)..(id - 1) : m = <<s, k>>  OBVIOUS
    <3>1. /\ m \in Symbols \X (1..MaxId) /\ m[1] = s
          /\ last < m[2] /\ m[2] <= id - 1
      <4>1. k \in 1..MaxId /\ last < k /\ k <= id - 1
        BY <1>1, <1>2, <1>3, <3>0, DispatchBounds
      <4>. QED  BY <3>0, <4>1
    <3>. QED  BY <1>4, <2>2, <3>1 DEF MissingTrades
  <2>6. ASSUME NEW m \in MissingTrades PROVE m \notin New
    <3>1. m[1] \in Held  BY DEF MissingTrades
    <3>. QED  BY <1>4, <3>1
  <2>. QED  BY <2>3, <2>4, <2>5, <2>6
<1>6. IsFiniteSet(New) /\ Cardinality(New) = id - 1 - last
  <2>1. last + 1 \in Int /\ id - 1 \in Int /\ last + 1 <= id - 1  BY <1>1, <1>2
  <2>2. /\ IsFiniteSet((last + 1)..(id - 1))
        /\ Cardinality((last + 1)..(id - 1)) = id - 1 - (last + 1) + 1
    BY <2>1, FS_Interval
  <2>3. IsFiniteSet({s}) /\ Cardinality({s}) = 1  BY FS_Singleton
  <2>4. IsFiniteSet(New) /\ Cardinality(New) = 1 * Cardinality((last + 1)..(id - 1))
    BY <2>2, <2>3, FS_Product
  <2>. QED  BY <1>1, <1>2, <2>2, <2>4
<1>7. /\ Cardinality(Held') = Cardinality(Held) + 1 /\ Cardinality(Held) \in Nat
      /\ Cardinality(MissingTrades') = Cardinality(MissingTrades) + (id - 1 - last)
      /\ Cardinality(MissingTrades) \in Nat
  <2>1. IsFiniteSet(Held) /\ IsFiniteSet(MissingTrades)  BY FiniteGaps
  <2>2. Cardinality(Held \cup {s}) = Cardinality(Held) + 1  BY <1>4, <2>1, FS_AddElement
  <2>3. Cardinality(MissingTrades) \in Nat /\ Cardinality(Held) \in Nat
    BY <2>1, FS_CardinalityType
  <2>. HIDE DEF New
  <2>4. Cardinality(MissingTrades \cup New) =
            Cardinality(MissingTrades) + Cardinality(New) - Cardinality({})
    BY <1>5, <1>6, <2>1, FS_Union
  <2>5. Cardinality({}) = 0  BY FS_EmptySet
  <2>. QED  BY <1>1, <1>2, <1>4, <1>5, <1>6, <2>2, <2>3, <2>4, <2>5
<1>8. MissingCount(AfterLive(gates[s], id)) = id - 1 - last
  <2>1. AfterLive(gates[s], id) = OpenGap(gates[s], id)  BY <1>1, Verdict DEF TradeGap
  <2>2. /\ OpenGap(gates[s], id).missingEnd = id - 1
        /\ OpenGap(gates[s], id).missingBegin = last + 1
    BY <1>1 DEF OpenGap, Gate
  <2>. QED  BY <1>1, <1>2, <2>1, <2>2 DEF MissingCount
<1>9. /\ metrics' = [metrics EXCEPT
             !["msgs_recv"] = @ + 1, !["gap_count"] = @ + 1,
             !["missing_records"] = @ + (id - 1 - last),
             !["recovering_symbols"] = @ + 1]
      /\ handed' = {} /\ trades' = trades /\ silent' = silent
  BY <1>8 DEF TradeGap
<1>10. id - 1 - last \in Nat  BY <1>1, <1>2
<1>. HIDE DEF last
<1>11. /\ metrics'["msgs_recv"] = metrics["msgs_recv"] + 1
       /\ metrics'["gap_count"] = metrics["gap_count"] + 1
       /\ metrics'["missing_records"] = metrics["missing_records"] + (id - 1 - last)
       /\ metrics'["recovering_symbols"] = metrics["recovering_symbols"] + 1
       /\ \A c \in Counters \ {"msgs_recv", "gap_count", "missing_records", "recovering_symbols"} :
             metrics'[c] = metrics[c]
       /\ DOMAIN metrics' = Counters /\ metrics' = [c \in Counters |-> metrics'[c]]
  BY <1>9 DEF TypeOK, Counters
<1>12. \A c \in Counters : metrics[c] \in Nat  BY DEF TypeOK
<1>17. metrics' \in [Counters -> Nat]
  <2>1. ASSUME NEW c \in Counters PROVE metrics'[c] \in Nat  BY <1>10, <1>11, <1>12
  <2>. QED  BY <1>11, <2>1
<1>18. GapCountersMatchGates'
  BY <1>4, <1>7, <1>11 DEF GapCountersMatchGates
<1>13. MessageAccounting'
  <2>1. {"parse_errors", "trades_parsed", "orderbooks_parsed", "duplicate_count",
         "rollback_count", "trade_latency", "ext_latency_negative_drop"} \subseteq
            Counters \ {"msgs_recv", "gap_count", "missing_records", "recovering_symbols"}
    BY DEF Counters
  <2>2. \A c \in {"parse_errors", "trades_parsed", "orderbooks_parsed", "duplicate_count",
                  "rollback_count", "trade_latency", "ext_latency_negative_drop"} :
           metrics[c] \in Nat /\ metrics'[c] = metrics[c]
    BY <1>11, <1>12, <2>1
  <2>3. metrics["msgs_recv"] \in Nat /\ metrics["gap_count"] \in Nat /\ silent \in Nat
    BY <1>12 DEF Counters, TypeOK
  <2>4. metrics'["msgs_recv"] = metrics["msgs_recv"] + 1
        /\ metrics'["gap_count"] = metrics["gap_count"] + 1 /\ silent' = silent
    BY <1>9, <1>11
  <2>. QED  BY <2>2, <2>3, <2>4 DEF MessageAccounting
<1>14. TypeOK'
  <2>1. last + 1 \in Nat /\ id - 1 \in Nat  BY <1>1, <1>2
  <2>2. gates' \in [Symbols -> Gate]  BY <1>1, <1>2, <2>1 DEF TypeOK, Gate
  <2>3. topTrade' \in [Symbols -> Nat] /\ lastBook' = lastBook /\ topBook' = topBook
    BY <1>1 DEF TypeOK, TradeStep, Larger
  <2>. QED  BY <1>9, <1>17, <2>2, <2>3 DEF TypeOK
<1>15. GateInv'
  <2>1. /\ gates'[s].hasLast = gates[s].hasLast /\ gates'[s].last = gates[s].last
        /\ ~CanTrade(gates'[s])
    BY <1>1, <1>2 DEF TypeOK, Gate, CanTrade
  <2>2. \A t \in Symbols \ {s} : gates'[t] = gates[t] /\ topTrade'[t] = topTrade[t]
    BY <1>2 DEF TypeOK, TradeStep
  <2>. QED  BY <1>9, <2>1, <2>2 DEF GateInv
<1>16. CallbacksInSequence' /\ RecordsMatchMessages'
  BY <1>9 DEF CallbacksInSequence, RecordsMatchMessages, TradeStep
<1>. QED  BY <1>13, <1>14, <1>15, <1>16, <1>18

-------------------------------------------------------------------------------
(* The invariant holds whatever the stream loses, repeats, reorders and distorts. *)
THEOREM DispatchInvariance == Spec => []DispatchInv
<1>1. ASSUME DispatchInv, [Next]_vars PROVE DispatchInv'
  <2>1. CASE UNCHANGED vars
    BY <1>1, <2>1
       DEF vars, DispatchInv, TypeOK, GateInv, CallbacksInSequence, GapCountersMatchGates,
           Held, MissingTrades, MessageAccounting, RecordsMatchMessages
  <2>2. CASE RejectMessage  BY <1>1, <2>2, RejectKeeps
  <2>3. CASE IgnoreMessage  BY <1>1, <2>3, IgnoreKeeps
  <2>4. ASSUME NEW s \in Symbols, NEW payload \in TradePayloads, TradeMessage(s, payload)
        PROVE  DispatchInv'
    <3>1. CASE RejectMessage  BY <1>1, <3>1, RejectKeeps
    <3>2. ASSUME NEW trade \in ParseTrade(payload), TradeStep(s, trade.trade_id),
                 \/ TradeAccepted(s, payload, trade)
                 \/ TradeDuplicate(s, trade.trade_id)
                 \/ TradeGap(s, trade.trade_id) \/ TradeHeld(s, trade.trade_id)
          PROVE  DispatchInv'
      <4>1. trade.trade_id \in TradeIds  BY TradeParsed
      <4>. QED
        BY <1>1, <3>2, <4>1, AcceptedTradeKeeps, IdleTradeKeeps, GapKeeps
    <3>. QED  BY <2>4, <3>1, <3>2 DEF TradeMessage, TradeStep
  <2>5. ASSUME NEW s \in Symbols, NEW payload \in BookPayloads, DepthMessage(s, payload)
        PROVE  DispatchInv'
    BY <1>1, <2>5, DepthKeeps
  <2>. QED  BY <1>1, <2>1, <2>2, <2>3, <2>4, <2>5 DEF Next, OnRawMessage, Quiet
<1>. QED  BY InitDispatch, <1>1, PTL DEF Spec

(* The trades of a symbol reach on_trade_ with consecutive ids, and the snapshot
   last handed to on_orderbook_ is the newest one handed out. *)
THEOREM CallbackOrder == Spec => []CallbacksInSequence
BY DispatchInvariance, PTL DEF DispatchInv

(* While can_trade(s) is true no newer trade of s has been seen than the last one
   handed out. *)
THEOREM TrustIsEarned == Spec => []TrustedMeansCaughtUp
<1>1. DispatchInv => TrustedMeansCaughtUp  BY DEF DispatchInv, GateInv, TrustedMeansCaughtUp
<1>. QED  BY DispatchInvariance, <1>1, PTL

(* gap_count, recovering_symbols and missing_records agree with the gates. *)
THEOREM GapCountersAgree == Spec => []GapCountersMatchGates
BY DispatchInvariance, PTL DEF DispatchInv

(* Every message is counted in exactly one class or dropped by design. *)
THEOREM EveryMessageCounted == Spec => []MessageAccounting
BY DispatchInvariance, PTL DEF DispatchInv

(* A callback receives what its message says, times scaled without overflow. *)
THEOREM RecordsAreFaithful == Spec => []RecordsMatchMessages
BY DispatchInvariance, PTL DEF DispatchInv
===============================================================================
