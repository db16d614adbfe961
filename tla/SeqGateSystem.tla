----------------------------- MODULE SeqGateSystem ----------------------------
(***************************************************************************)
(* One sequence gate (src/src/network/trade_seq_gate.h) driven by a live   *)
(* stream that may lose, repeat and reorder trades, and by a recovery      *)
(* source that retransmits ids in any order.  passed is the history of the *)
(* ids the gate let through, from either side.                             *)
(***************************************************************************)
EXTENDS TradeSeqGate, Sequences

CONSTANT MaxId    \* bound: trade ids are 1..MaxId
ASSUME MaxIdAssumption == MaxId \in Nat

VARIABLES gate,      \* the members of the gate
          passed,    \* history: the ids let through
          gap,       \* history: the last gap, how much had passed and what opened it
          topLive    \* history: the newest id the live stream has brought
vars == <<gate, passed, gap, topLive>>

Ids == 1..MaxId

Init == /\ gate = NewGate /\ passed = <<>>
        /\ gap = [at |-> 0, opener |-> 0]
        /\ topLive = 0

OnLiveTrade(id) ==
    /\ gate' = AfterLive(gate, id)
    /\ passed' = IF OnLiveVerdict(gate, id) = "Accept" THEN Append(passed, id) ELSE passed
    /\ gap' = IF OnLiveVerdict(gate, id) = "Gap"
              THEN [at |-> Len(passed), opener |-> id] ELSE gap
    /\ topLive' = IF id > topLive THEN id ELSE topLive

OnReplayTrade(id) ==
    /\ gate' = AfterReplay(gate, id)
    /\ passed' = IF OnReplayAccepts(gate, id) THEN Append(passed, id) ELSE passed
    /\ UNCHANGED <<gap, topLive>>

Next == \E id \in Ids : OnLiveTrade(id) \/ OnReplayTrade(id)

Spec == Init /\ [][Next]_vars

-------------------------------------------------------------------------------
(* The gate and its history have their types. *)
TypeOK == /\ gate \in Gate /\ passed \in Seq(Nat)
          /\ gap \in [at : Nat, opener : Nat] /\ topLive \in Nat

(* missing_range() is exactly what is missing: from the moment a gap opens until
   it is filled, the range begins right after the last id that had passed when
   the gap opened and ends right before the id that opened it, and the next id
   on_replay_trade waits for lies in it; in Live there is no range. *)
MissingRangeIsOpen ==
    IF gate.state = "Recovering"
    THEN /\ gate.hasLast
         /\ gap.at \in 1..Len(passed)
         /\ gate.missingBegin = passed[gap.at] + 1
         /\ gate.missingEnd = gap.opener - 1
         /\ gate.last + 1 \in gate.missingBegin..gate.missingEnd
    ELSE gate.missingBegin = 0 /\ gate.missingEnd = 0

(* can_trade() promises that the live trades can be trusted
   (connection_manager.h:43); this is what the gate keeps of it.  A gate that
   says yes may be behind the live stream only after a recovery, which drops the
   trade that opened the gap and those that came meanwhile: then it has let
   through everything before the opener, and in all other cases everything up to
   the newest trade the live stream brought. *)
BehindOnlyAfterRecovery ==
    CanTrade(gate) /\ gate.last < topLive =>
        gap.opener > 0 /\ gate.last >= gap.opener - 1

(* last_id() is the last id let through, and there is one as soon as any was. *)
LastIsLastPassed ==
    /\ gate.hasLast <=> passed # <<>>
    /\ gate.hasLast => gate.last = passed[Len(passed)]

(* Whatever is lost, repeated, reordered or retransmitted, the ids let through
   are consecutive: no trade is skipped and none is delivered twice. *)
NothingSkipped ==
    \A i \in 1..Len(passed) : i > 1 => passed[i] = passed[i - 1] + 1

(* The gate implements the abstract ordered log. *)
Log == INSTANCE OrderedDelivery WITH log <- passed
ImplementsOrderedDelivery == Log!Spec
===============================================================================
