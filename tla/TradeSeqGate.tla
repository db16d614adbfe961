----------------------------- MODULE TradeSeqGate -----------------------------
(***************************************************************************)
(* The sequence gate of one symbol (src/src/network/trade_seq_gate.h) as   *)
(* functions of its members: what on_live_trade and on_replay_trade answer *)
(* and what they leave in the gate.  Trade ids stay far below the limits   *)
(* of int64_t.                                                             *)
(***************************************************************************)
EXTENDS Integers

Gate == [hasLast : BOOLEAN, last : Nat, missingBegin : Nat, missingEnd : Nat,
         state : {"Live", "Recovering"}]

Verdicts == {"Accept", "Duplicate", "Gap", "Hold"}

NewGate == [hasLast |-> FALSE, last |-> 0, missingBegin |-> 0, missingEnd |-> 0,
            state |-> "Live"]

CanTrade(g) == g.state = "Live"

(* Mutation: a repeated id passes. *)
OnLiveVerdictNoDuplicate(g, id) ==
    CASE g.state = "Recovering" -> "Hold"
      [] g.state = "Live" /\ (~g.hasLast \/ id \in {g.last, g.last + 1}) -> "Accept"
      [] g.state = "Live" /\ g.hasLast /\ id < g.last -> "Duplicate"
      [] OTHER -> "Gap"
(* on_live_trade: the action it returns. *)
OnLiveVerdict(g, id) ==
    CASE g.state = "Recovering" -> "Hold"
      [] g.state = "Live" /\ (~g.hasLast \/ id = g.last + 1) -> "Accept"
      [] g.state = "Live" /\ g.hasLast /\ id <= g.last -> "Duplicate"
      [] g.state = "Live" /\ g.hasLast /\ id > g.last + 1 -> "Gap"

(* The closed range of missing ids on_live_trade records when id opens a gap;
   last stays before the gap.  Mutation: the id that opens the gap is part of
   it. *)
OpenGapInclusive(g, id) == [g EXCEPT !.state = "Recovering",
                                     !.missingBegin = g.last + 1,
                                     !.missingEnd = id]
OpenGap(g, id) == [g EXCEPT !.state = "Recovering",
                            !.missingBegin = g.last + 1,
                            !.missingEnd = id - 1]

(* on_live_trade: the gate it leaves. *)
AfterLive(g, id) ==
    CASE OnLiveVerdict(g, id) = "Accept" -> [g EXCEPT !.hasLast = TRUE, !.last = id]
      [] OnLiveVerdict(g, id) = "Gap"    -> OpenGap(g, id)
      [] OTHER                           -> g

MissingCount(g) == g.missingEnd - g.missingBegin + 1

(* on_replay_trade: whether it takes the retransmitted id.
   Mutation: any id of the missing range is taken. *)
OnReplayAcceptsAny(g, id) ==
    /\ g.state = "Recovering" /\ g.hasLast
    /\ id \in g.missingBegin..g.missingEnd
OnReplayAccepts(g, id) ==
    /\ g.state = "Recovering" /\ g.hasLast
    /\ id = g.last + 1

(* on_replay_trade: the gate it leaves.  Mutation: the last missing id is not
   waited for. *)
GapFilledEarly(g, id) == id + 1 >= g.missingEnd
GapFilled(g, id) == id = g.missingEnd

AfterReplay(g, id) ==
    IF ~OnReplayAccepts(g, id) THEN g
    ELSE IF GapFilled(g, id)
         THEN [g EXCEPT !.last = id, !.state = "Live",
                        !.missingBegin = 0, !.missingEnd = 0]
         ELSE [g EXCEPT !.last = id]
===============================================================================
