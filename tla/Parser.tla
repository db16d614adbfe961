-------------------------------- MODULE Parser --------------------------------
(***************************************************************************)
(* Parser::parse_trade and Parser::parse_orderbook                         *)
(* (src/src/parser/parser.cpp) as functions from a payload to an optional  *)
(* record: the empty set stands for std::nullopt.  A JSON field is         *)
(* abstracted to its type and the class or number it holds; 64-bit         *)
(* integers keep their width, which is INT64_MAX here.                     *)
(***************************************************************************)
EXTENDS JsonValues, Sequences

CONSTANTS INT64_MAX,       \* largest signed integer
          UsPerMs,         \* 1000: microseconds in a millisecond
          ORDERBOOK_DEPTH  \* 20: levels of a snapshot on each side

ASSUME ParserConstants ==
    /\ INT64_MAX \in Nat /\ UsPerMs \in 1..INT64_MAX
    /\ ORDERBOOK_DEPTH \in Nat \ {0}

GetInt64(f) == Wrapped(INT64_MAX, f.num)

-------------------------------------------------------------------------------
(* Price and quantity are strings: parse_double_strict takes all of the text
   or nothing, and what it takes may still be infinite, NaN or not positive. *)
DecimalTexts == {"absent", "untyped", "malformed", "nonfinite", "nonpositive", "positive"}
ParseDoubleStrict(text) == text \in {"nonfinite", "nonpositive", "positive"}
FinitePositive(text) == text = "positive"
Decimal(text) == ParseDoubleStrict(text) /\ FinitePositive(text)

(* The exchange's milliseconds are checked before they become microseconds.
   Mutation: the check forgets the multiplication. *)
TimestampInRangeUnscaled(ms) == ms > 0 /\ ms <= INT64_MAX
TimestampInRange(ms) == ms > 0 /\ ms <= INT64_MAX \div UsPerMs

(* Fields: e (event), s (symbol), t (trade id), p, q (price, quantity), T
   (milliseconds), m (buyer is maker).  Every rejection gives nullopt, the
   exceptions of get<> included. *)
ParseTrade(j) ==
    IF /\ j.e = "trade"
       /\ Decimal(j.p) /\ Decimal(j.q)
       /\ IsNumber(j.T) /\ TimestampInRange(GetInt64(j.T))
       /\ IsNumber(j.t) /\ j.m = "bool" /\ j.s = "string"
    THEN {[trade_id |-> GetInt64(j.t),
           exchange_ts_us |-> Wrapped(INT64_MAX, GetInt64(j.T) * UsPerMs)]}
    ELSE {}

-------------------------------------------------------------------------------
(* parse_levels: the first ORDERBOOK_DEPTH levels of an array are checked, and
   a level is a pair of two texts; the levels that are not there stay zero. *)
Side(type, levels) == [type |-> type, levels |-> levels]
Level == {"short", "untyped", "malformed", "nonfinite", "nonpositive", "positive"}

Checked(arr) == 1..(IF Len(arr.levels) < ORDERBOOK_DEPTH THEN Len(arr.levels)
                                                         ELSE ORDERBOOK_DEPTH)

(* Mutation: a level that does not parse is skipped. *)
LevelsSoundSkipping(arr) == arr.type = "array"
LevelsSound(arr) ==
    /\ arr.type = "array"
    /\ \A i \in Checked(arr) : Decimal(arr.levels[i])

Filled(arr) == [i \in 1..ORDERBOOK_DEPTH |->
                   IF i \in Checked(arr) THEN arr.levels[i] ELSE "zero"]

ParseOrderbook(j) ==
    IF /\ j.bids.type # "absent" /\ j.asks.type # "absent"
       /\ j.lastUpdateId.type = "integer" /\ GetInt64(j.lastUpdateId) > 0
       /\ LevelsSound(j.bids) /\ LevelsSound(j.asks)
    THEN {[last_update_id |-> GetInt64(j.lastUpdateId),
           bids |-> Filled(j.bids), asks |-> Filled(j.asks)]}
    ELSE {}
===============================================================================
