----------------------------- MODULE SeqGateProofs ----------------------------
(* Proofs about SeqGateSystem, for every bound on the trade ids. *)
EXTENDS SeqGateSystem, TLAPS

(* The inductive invariant: NothingSkipped alone is not inductive, because what
   the gate lets through is decided by last, not by what has passed.  The first
   live trade always passes, so nothing was received before it (FirstPasses). *)
FirstPasses == ~gate.hasLast => gate.state = "Live" /\ topLive = 0
IInv == /\ TypeOK /\ MissingRangeIsOpen /\ LastIsLastPassed /\ NothingSkipped
        /\ FirstPasses /\ BehindOnlyAfterRecovery

(* The initial gate satisfies the invariant. *)
LEMMA InitIInv == Init => IInv
BY DEF Init, NewGate, IInv, TypeOK, Gate, MissingRangeIsOpen, LastIsLastPassed,
       NothingSkipped, FirstPasses, BehindOnlyAfterRecovery

(* Letting one more id through at the end of passed keeps it consecutive. *)
LEMMA PassNext ==
    ASSUME passed \in Seq(Nat), NothingSkipped, NEW id \in Nat,
           passed # <<>> => id = passed[Len(passed)] + 1,
           passed' = Append(passed, id)
    PROVE  /\ passed' \in Seq(Nat)
           /\ passed' # <<>>
           /\ passed'[Len(passed')] = id
           /\ NothingSkipped'
           /\ \A i \in 1..Len(passed) : passed'[i] = passed[i]
           /\ Len(passed') = Len(passed) + 1
  <1>1. /\ passed' \in Seq(Nat) /\ passed' # <<>>
        /\ passed'[Len(passed')] = id
        /\ Len(passed') = Len(passed) + 1
        /\ \A i \in 1..Len(passed) : passed'[i] = passed[i]
    OBVIOUS
  <1>2. NothingSkipped'
    <2> SUFFICES ASSUME NEW i \in 1..Len(passed'), i > 1
                 PROVE  passed'[i] = passed'[i - 1] + 1
      BY DEF NothingSkipped
    <2>1. CASE i \in 1..Len(passed)
      BY <1>1, <2>1 DEF NothingSkipped
    <2>2. CASE i = Len(passed')
      <3>1. i - 1 = Len(passed) /\ i - 1 \in 1..Len(passed)
        BY <1>1, <2>2
      <3>2. passed # <<>>
        BY <3>1
      <3> QED BY <1>1, <2>2, <3>1, <3>2
    <2> QED BY <1>1, <2>1, <2>2
  <1> QED BY <1>1, <1>2

(* What the verdict on a live trade makes of the history of the live stream. *)
LEMMA LiveKeepsTrust ==
    ASSUME IInv, NEW id \in Ids, OnLiveTrade(id)
    PROVE  FirstPasses' /\ BehindOnlyAfterRecovery' /\ topLive' \in Nat
  <1>0. /\ id \in Nat /\ gate \in Gate /\ gate.last \in Nat /\ topLive \in Nat
        /\ gap.opener \in Nat
        /\ topLive' = IF id > topLive THEN id ELSE topLive
    BY MaxIdAssumption DEF IInv, Ids, TypeOK, Gate, OnLiveTrade
  <1>1. CASE OnLiveVerdict(gate, id) = "Accept"
    <2>1. /\ gate.state = "Live" /\ (gate.hasLast => id = gate.last + 1)
          /\ gate' = [gate EXCEPT !.hasLast = TRUE, !.last = id] /\ gap' = gap
      BY <1>0, <1>1 DEF OnLiveVerdict, Gate, OnLiveTrade, AfterLive
    <2>2. gate'.hasLast /\ gate'.last = id
      BY <1>0, <2>1 DEF Gate
    <2> QED BY <1>0, <2>1, <2>2 DEF IInv, FirstPasses, BehindOnlyAfterRecovery, CanTrade
  <1>2. CASE OnLiveVerdict(gate, id) = "Gap"
    <2>1. gate.hasLast /\ gate' = OpenGap(gate, id)
      BY <1>0, <1>2 DEF OnLiveVerdict, Gate, OnLiveTrade, AfterLive
    <2>2. gate'.hasLast /\ gate'.state = "Recovering"
      BY <1>0, <2>1 DEF Gate, OpenGap
    <2> QED BY <1>0, <2>2 DEF FirstPasses, BehindOnlyAfterRecovery, CanTrade
  <1>3. CASE OnLiveVerdict(gate, id) \notin {"Accept", "Gap"}
    <2>1. gate' = gate /\ gap' = gap
      BY <1>3 DEF OnLiveTrade, AfterLive
    <2>2. gate.hasLast /\ (gate.state = "Live" => id <= gate.last)
      BY <1>0, <1>3 DEF IInv, FirstPasses, OnLiveVerdict, Gate
    <2> QED BY <1>0, <2>1, <2>2 DEF IInv, FirstPasses, BehindOnlyAfterRecovery, CanTrade
  <1> QED BY <1>1, <1>2, <1>3

(* A live trade keeps the invariant: in each of the four verdicts. *)
LEMMA LiveKeepsIInv ==
    ASSUME IInv, NEW id \in Ids, OnLiveTrade(id)
    PROVE  IInv'
  <1> USE DEF IInv
  <1>0. id \in Nat /\ gate \in Gate
    BY MaxIdAssumption DEF Ids, TypeOK
  <1>4. FirstPasses' /\ BehindOnlyAfterRecovery' /\ topLive' \in Nat
    BY LiveKeepsTrust
  <1>1. CASE OnLiveVerdict(gate, id) = "Accept"
    <2>1. gate.state = "Live" /\ (gate.hasLast => id = gate.last + 1)
      BY <1>0, <1>1 DEF OnLiveVerdict, Gate
    <2>2. /\ gate' = [gate EXCEPT !.hasLast = TRUE, !.last = id]
          /\ passed' = Append(passed, id)
          /\ gap' = gap
      BY <1>1 DEF OnLiveTrade, AfterLive
    <2>3. passed # <<>> => id = passed[Len(passed)] + 1
      BY <2>1 DEF LastIsLastPassed
    <2>4. /\ passed' \in Seq(Nat) /\ passed' # <<>> /\ passed'[Len(passed')] = id
          /\ NothingSkipped'
      BY <1>0, <2>2, <2>3, PassNext DEF TypeOK
    <2>5. TypeOK'
      <3>1. gate' \in Gate
        BY <1>0, <2>2 DEF Gate
      <3> QED BY <1>4, <2>2, <2>4, <3>1 DEF TypeOK
    <2>6. MissingRangeIsOpen'
      BY <1>0, <2>1, <2>2 DEF MissingRangeIsOpen, Gate
    <2>7. LastIsLastPassed'
      BY <1>0, <2>2, <2>4 DEF LastIsLastPassed, Gate
    <2> QED BY <1>4, <2>4, <2>5, <2>6, <2>7
  <1>2. CASE OnLiveVerdict(gate, id) = "Gap"
    <2>1. gate.state = "Live" /\ gate.hasLast /\ id > gate.last + 1
      BY <1>0, <1>2 DEF OnLiveVerdict, Gate
    <2>2. /\ gate' = OpenGap(gate, id) /\ passed' = passed
          /\ gap' = [at |-> Len(passed), opener |-> id]
      BY <1>2 DEF OnLiveTrade, AfterLive
    <2>3. TypeOK'
      <3>0. gate.last \in Nat /\ gate.last + 1 \in Nat /\ id - 1 \in Nat
        <4>1. gate.last \in Nat
          BY <1>0 DEF Gate
        <4> QED BY <1>0, <2>1, <4>1
      <3>1. gate' \in Gate
        BY <1>0, <2>2, <3>0 DEF Gate, OpenGap
      <3>2. Len(passed) \in Nat
        BY DEF TypeOK
      <3> QED BY <1>0, <1>4, <2>2, <3>1, <3>2 DEF TypeOK
    <2>4. MissingRangeIsOpen'
      <3>1. /\ passed # <<>> /\ Len(passed) \in 1..Len(passed)
            /\ gate.last = passed[Len(passed)]
        BY <2>1 DEF TypeOK, LastIsLastPassed
      <3>2. /\ gate'.state = "Recovering" /\ gate'.hasLast
            /\ gate'.last = gate.last /\ gate.last \in Nat
            /\ gate'.missingBegin = gate.last + 1 /\ gate'.missingEnd = id - 1
        BY <1>0, <2>1, <2>2 DEF OpenGap, Gate
      <3>3. gap'.at = Len(passed) /\ gap'.opener = id
        BY <2>2
      <3>4. gate'.last + 1 \in gate'.missingBegin..gate'.missingEnd
        BY <1>0, <2>1, <3>2
      <3> QED BY <2>2, <3>1, <3>2, <3>3, <3>4 DEF MissingRangeIsOpen
    <2>5. LastIsLastPassed'
      BY <1>0, <2>2 DEF LastIsLastPassed, OpenGap, Gate
    <2> QED BY <1>4, <2>2, <2>3, <2>4, <2>5 DEF NothingSkipped
  <1>3. CASE OnLiveVerdict(gate, id) \notin {"Accept", "Gap"}
    <2>1. gate' = gate /\ passed' = passed /\ gap' = gap
      BY <1>3 DEF OnLiveTrade, AfterLive
    <2>2. TypeOK'
      BY <1>4, <2>1 DEF TypeOK
    <2> QED BY <1>4, <2>1, <2>2 DEF MissingRangeIsOpen, LastIsLastPassed, NothingSkipped
  <1> QED BY <1>1, <1>2, <1>3

(* A retransmitted trade keeps the invariant. *)
LEMMA ReplayKeepsIInv ==
    ASSUME IInv, NEW id \in Ids, OnReplayTrade(id)
    PROVE  IInv'
  <1> USE DEF IInv
  <1>0. id \in Nat /\ gate \in Gate
    BY MaxIdAssumption DEF Ids, TypeOK
  <1>1. CASE OnReplayAccepts(gate, id)
    <2>1. gate.state = "Recovering" /\ gate.hasLast /\ id = gate.last + 1
      BY <1>1 DEF OnReplayAccepts
    <2>2. /\ gate' = AfterReplay(gate, id)
          /\ passed' = Append(passed, id)
          /\ gap' = gap /\ topLive' = topLive
      BY <1>1 DEF OnReplayTrade
    <2>3. passed # <<>> /\ id = passed[Len(passed)] + 1
      BY <2>1 DEF LastIsLastPassed
    <2>4. /\ passed' \in Seq(Nat) /\ passed' # <<>> /\ passed'[Len(passed')] = id
          /\ NothingSkipped'
          /\ \A i \in 1..Len(passed) : passed'[i] = passed[i]
          /\ Len(passed') = Len(passed) + 1
      BY <1>0, <2>2, <2>3, PassNext DEF TypeOK
    <2>5. TypeOK'
      <3>1. gate' \in Gate
        BY <1>0, <1>1, <2>2 DEF Gate, AfterReplay
      <3> QED BY <2>2, <2>4, <3>1 DEF TypeOK
    <2>6. gate'.hasLast = gate.hasLast /\ gate'.last = id
      BY <1>0, <1>1, <2>2 DEF AfterReplay, Gate
    <2>7. LastIsLastPassed'
      BY <2>1, <2>4, <2>6 DEF LastIsLastPassed
    <2>8. MissingRangeIsOpen'
      <3>1. CASE GapFilled(gate, id)
        BY <1>0, <1>1, <2>2, <3>1 DEF AfterReplay, MissingRangeIsOpen, Gate
      <3>2. CASE ~GapFilled(gate, id)
        <4>1. gate' = [gate EXCEPT !.last = id] /\ id # gate.missingEnd
          BY <1>1, <2>2, <3>2 DEF AfterReplay, GapFilled
        <4>2. /\ gate'.state = "Recovering" /\ gate'.hasLast /\ gate'.last = id
              /\ gate'.missingBegin = gate.missingBegin
              /\ gate'.missingEnd = gate.missingEnd
              /\ gate.missingBegin \in Nat /\ gate.missingEnd \in Nat
              /\ gate.last \in Nat
          BY <1>0, <2>1, <4>1 DEF Gate
        <4>3. /\ gap.at \in 1..Len(passed)
              /\ gate.missingBegin = passed[gap.at] + 1
              /\ gate.missingEnd = gap.opener - 1
              /\ id \in gate.missingBegin..gate.missingEnd
          BY <2>1 DEF MissingRangeIsOpen
        <4>4. /\ gap'.at \in 1..Len(passed')
              /\ passed'[gap'.at] = passed[gap.at]
          BY <2>2, <2>4, <4>3 DEF TypeOK
        <4>5. id + 1 \in gate.missingBegin..gate.missingEnd
          BY <1>0, <4>1, <4>2, <4>3
        <4> QED BY <2>2, <4>2, <4>3, <4>4, <4>5 DEF MissingRangeIsOpen
      <3> QED BY <3>1, <3>2
    <2>9. FirstPasses'
      BY <2>1, <2>6 DEF FirstPasses
    <2>10. BehindOnlyAfterRecovery'
      <3>1. CASE GapFilled(gate, id)
        BY <1>0, <2>1, <2>2, <2>6, <3>1
           DEF MissingRangeIsOpen, TypeOK, GapFilled, BehindOnlyAfterRecovery
      <3>2. CASE ~GapFilled(gate, id)
        BY <1>0, <1>1, <2>1, <2>2, <3>2
           DEF AfterReplay, Gate, BehindOnlyAfterRecovery, CanTrade
      <3> QED BY <3>1, <3>2
    <2> QED BY <2>4, <2>5, <2>7, <2>8, <2>9, <2>10
  <1>2. CASE ~OnReplayAccepts(gate, id)
    <2>1. gate' = gate /\ passed' = passed /\ gap' = gap /\ topLive' = topLive
      BY <1>2 DEF OnReplayTrade, AfterReplay
    <2> QED BY <2>1 DEF TypeOK, MissingRangeIsOpen, LastIsLastPassed, NothingSkipped,
                        FirstPasses, BehindOnlyAfterRecovery
  <1> QED BY <1>1, <1>2

(* The invariant holds in every reachable state. *)
THEOREM Invariance == Spec => []IInv
  <1>1. Init => IInv
    BY InitIInv
  <1>2. IInv /\ [Next]_vars => IInv'
    <2> SUFFICES ASSUME IInv, [Next]_vars PROVE IInv'
      OBVIOUS
    <2>1. CASE UNCHANGED vars
      BY <2>1 DEF vars, IInv, TypeOK, MissingRangeIsOpen, LastIsLastPassed, NothingSkipped,
                  FirstPasses, BehindOnlyAfterRecovery
    <2>2. CASE Next
      BY <2>2, LiveKeepsIInv, ReplayKeepsIInv DEF Next
    <2> QED BY <2>1, <2>2
  <1> QED BY <1>1, <1>2, PTL DEF Spec

(* The gate skips no trade and lets none through twice, whatever the stream and
   the recovery source do. *)
THEOREM GateSkipsNothing == Spec => []NothingSkipped
BY Invariance, PTL DEF IInv

(* While the gate is in Recovering, and only then, missing_range() reports a
   range: from the id after the last one passed when the gap opened to the id
   before the one that opened it. *)
THEOREM GateRangeIsOpen == Spec => []MissingRangeIsOpen
BY Invariance, PTL DEF IInv

(* A gate that says can_trade() lags behind the live stream only after a
   recovery, and then by no trade before the one that opened the gap. *)
THEOREM GateLagIsBounded == Spec => []BehindOnlyAfterRecovery
BY Invariance, PTL DEF IInv

(* The gate implements the abstract ordered log. *)
THEOREM GateImplementsOrderedDelivery == Spec => ImplementsOrderedDelivery
  <1>1. Init => Log!Init
    BY DEF Init, Log!Init
  <1>2. IInv /\ [Next]_vars => [Log!Next]_passed
    <2> SUFFICES ASSUME IInv, [Next]_vars, passed' # passed PROVE Log!Next
      OBVIOUS
    <2>1. PICK id \in Ids : OnLiveTrade(id) \/ OnReplayTrade(id)
      BY DEF Next, vars
    <2>2. id \in Nat /\ gate \in Gate
      BY MaxIdAssumption DEF Ids, IInv, TypeOK
    <2>3. /\ passed' = Append(passed, id)
          /\ gate.hasLast => id = gate.last + 1
      BY <2>1, <2>2 DEF OnLiveTrade, OnReplayTrade, OnLiveVerdict, OnReplayAccepts, Gate
    <2> QED BY <2>3 DEF IInv, LastIsLastPassed, Log!Next, Log!Deliver
  <1> QED BY <1>1, <1>2, Invariance, PTL DEF Spec, ImplementsOrderedDelivery, Log!Spec
===============================================================================
