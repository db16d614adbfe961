--------------------------- MODULE ClockOffsetProofs ---------------------------
(***************************************************************************)
(* The calibration is right for every limit, unit, delay and clock.        *)
(***************************************************************************)
EXTENDS ClockOffset, TLAPS

AcceptedOffsets == {0} \cup {a.offset : a \in accepted}

(* What the last latency says of the offset it was computed with. *)
Measured == /\ sample.recorded = {} => sample.true + sample.offset - sample.skew < 0
            /\ \A r \in sample.recorded :
                  /\ r >= sample.true + sample.offset - sample.skew
                  /\ r <= sample.true + sample.offset - sample.skew + Tick - 1

(* The inductive invariant: all that was accepted is accurate, and whatever  *)
(* is stored, about to be stored or was used comes from there.               *)
ClockInv == /\ TypeOK
            /\ \A a \in accepted : SampleOk(a)
            /\ offset \in AcceptedOffsets /\ pending \in AcceptedOffsets
            /\ UsesAcceptedOffset
            /\ Measured

(* The midpoint of a request is within half of its round trip of the moment  *)
(* the exchange read its clock, so the offset of an accepted clean sample is *)
(* the skew within MaxError.                                                 *)
LEMMA MidpointError ==
    ASSUME NEW send \in Instants, NEW out \in Delays, NEW back \in Delays,
           NEW cut \in 0 .. Tick - 1, NEW s \in Int,
           Rtt(send, send + out + back) <= MaxRtt
    PROVE  Abs(SampleOffset(send, send + out + back, send + out + s - cut) - s) <= MaxError
<1>1. send \in Int /\ out \in Nat /\ back \in Nat /\ MaxRtt \in Nat /\ Tick \in Nat /\ cut \in Int
         /\ cut >= 0 /\ cut <= Tick - 1
  BY ClockAssumption
<1>2. out + back <= MaxRtt
  BY <1>1 DEF Rtt
<1>3. SampleOffset(send, send + out + back, send + out + s - cut) - s
         = out - cut - (out + back) \div 2
  BY <1>1 DEF SampleOffset, Rtt
<1>4. /\ out - cut - (out + back) \div 2 <= (MaxRtt + 1) \div 2
      /\ out - cut - (out + back) \div 2 >= -((MaxRtt + 1) \div 2 + Tick - 1)
  BY <1>1, <1>2
<1> QED
  BY <1>1, <1>3, <1>4 DEF Abs, MaxError

(* An attempt keeps the invariant's facts on what was accepted. *)
LEMMA AttemptKeeps ==
    ASSUME ClockInv,
           NEW send \in Int, NEW recv \in Int, NEW server \in Int, NEW clean \in BOOLEAN,
           clean /\ Accepts(send, recv, server)
             => Abs(SampleOffset(send, recv, server) - skew) <= MaxError,
           OnSample(send, recv, server, clean), skew' \in Skews,
           UNCHANGED <<hasOffset, offset, acceptCount, seen, sample>>
    PROVE  ClockInv'
<1>0. skew \in Int /\ skew \in Skews
  BY ClockAssumption DEF ClockInv, TypeOK
<1>1. CASE ~Accepts(send, recv, server)
  BY <1>1, <1>0 DEF OnSample, ClockInv, TypeOK, UsesAcceptedOffset, Measured, AcceptedOffsets, SampleOk
<1>2. CASE Accepts(send, recv, server)
  <2> DEFINE new == [offset |-> SampleOffset(send, recv, server), skew |-> skew, clean |-> clean]
  <2>1. SampleOffset(send, recv, server) \in Int
    BY DEF SampleOffset, Rtt
  <2>2. new \in Samples
    BY <2>1, <1>0 DEF Samples
  <2>3. /\ pending' = SampleOffset(send, recv, server) /\ todo' = Stores
        /\ accepted' = accepted \cup {new} /\ failCount' = failCount
    BY <1>2 DEF OnSample
  <2>4. SampleOk(new)
    BY <1>2, <1>0 DEF SampleOk, Accepts
  <2>5. TypeOK'
    BY <2>1, <2>2, <2>3 DEF ClockInv, TypeOK
  <2>6. (\A a \in accepted : SampleOk(a))'
    BY <2>3, <2>4 DEF ClockInv, SampleOk
  <2>7. AcceptedOffsets \subseteq AcceptedOffsets' /\ new.offset \in AcceptedOffsets'
    <3> HIDE DEF new
    <3> QED
      BY <2>3 DEF AcceptedOffsets
  <2>8. offset' \in AcceptedOffsets' /\ pending' \in AcceptedOffsets'
    BY <2>3, <2>7 DEF ClockInv
  <2>9. UsesAcceptedOffset'
    BY <2>7 DEF ClockInv, AcceptedOffsets, UsesAcceptedOffset
  <2>10. Measured'
    BY DEF ClockInv, Measured
  <2> QED
    BY <2>5, <2>6, <2>8, <2>9, <2>10 DEF ClockInv
<1> QED
  BY <1>1, <1>2

LEMMA ClockInitial == Init => ClockInv
<1> SUFFICES ASSUME Init PROVE ClockInv
  OBVIOUS
<1>0. {0} \in SUBSET Nat /\ {} \in SUBSET Samples /\ {} \in SUBSET Stores
  OBVIOUS
<1>1. TypeOK
  <2>1. sample \in [offset : Int, skew : Int, true : Int, recorded : SUBSET Nat]
    BY <1>0 DEF Init
  <2>2. hasOffset \in BOOLEAN /\ seen \in {"none", "yes", "no"}
    BY Zenon DEF Init
  <2>3. /\ skew \in Skews /\ offset \in Int /\ acceptCount \in Nat /\ failCount \in Nat
        /\ pending \in Int
    BY DEF Init
  <2> QED
    BY <1>0, <2>1, <2>2, <2>3 DEF Init, TypeOK
<1> QED
  BY <1>1, ClockAssumption DEF Init, ClockInv, AcceptedOffsets, UsesAcceptedOffset, Measured

LEMMA ClockStep == ClockInv /\ [Next]_vars => ClockInv'
<1> SUFFICES ASSUME ClockInv, [Next]_vars PROVE ClockInv'
  OBVIOUS
<1>0. skew \in Int /\ skew \in Skews /\ Tick \in Nat \ {0}
  BY ClockAssumption DEF ClockInv, TypeOK
<1>1. ASSUME NEW send \in Instants, NEW out \in Delays, NEW back \in Delays,
             NEW cut \in 0 .. Tick - 1, Request(send, out, back, cut)
      PROVE  ClockInv'
  <2>1. /\ send \in Int /\ send + out + back \in Int /\ send + out + skew - cut \in Int
    BY <1>0, ClockAssumption
  <2>2. Accepts(send, send + out + back, send + out + skew - cut)
          => Abs(SampleOffset(send, send + out + back, send + out + skew - cut) - skew) <= MaxError
    BY <1>0, MidpointError DEF Accepts
  <2>3. /\ OnSample(send, send + out + back, send + out + skew - cut, TRUE)
        /\ UNCHANGED <<skew, hasOffset, offset, acceptCount, seen, sample>>
    BY <1>1 DEF Request
  <2> QED
    BY <1>0, <2>1, <2>2, <2>3, AttemptKeeps
<1>2. ASSUME NEW send \in Instants, NEW out \in Delays, NEW back \in Delays,
             NEW new \in Skews, RequestAcrossStep(send, out, back, new)
      PROVE  ClockInv'
  <2>1. /\ send \in Int /\ send + out + back + skew - new \in Int /\ send + out + skew \in Int
    BY <1>0, ClockAssumption
  <2>2. /\ OnSample(send, send + out + back + skew - new, send + out + skew, FALSE)
        /\ skew' \in Skews /\ UNCHANGED <<hasOffset, offset, acceptCount, seen, sample>>
    BY <1>2 DEF RequestAcrossStep
  <2> QED
    BY <2>1, <2>2, AttemptKeeps
<1>3. ASSUME NEW send \in Instants, NEW out \in Delays, NEW server \in WrongTimes,
             WrongAnswer(send, out, server)
      PROVE  ClockInv'
  <2>1. /\ send \in Int /\ send + out \in Int /\ server \in Int
    BY ClockAssumption
  <2>2. /\ OnSample(send, send + out, server, FALSE)
        /\ UNCHANGED <<skew, hasOffset, offset, acceptCount, seen, sample>>
    BY <1>3 DEF WrongAnswer
  <2> QED
    BY <1>0, <2>1, <2>2, AttemptKeeps
<1>4. CASE OnTransportFailure
  BY <1>4 DEF OnTransportFailure, ClockInv, TypeOK, AcceptedOffsets, UsesAcceptedOffset, Measured, SampleOk
<1>5. ASSUME NEW x \in Stores, Store(x) PROVE ClockInv'
  <2>1. TypeOK'
    BY <1>5 DEF Store, ClockInv, TypeOK
  <2>2. offset' \in AcceptedOffsets'
    BY <1>5 DEF Store, ClockInv, AcceptedOffsets
  <2> QED
    BY <1>5, <2>1, <2>2 DEF Store, ClockInv, AcceptedOffsets, UsesAcceptedOffset, Measured, SampleOk
<1>6. ASSUME NEW new \in Skews, SetLocalClock(new) PROVE ClockInv'
  BY <1>6 DEF SetLocalClock, ClockInv, TypeOK, AcceptedOffsets, UsesAcceptedOffset, Measured, SampleOk
<1>7. CASE ReadHas
  BY <1>7 DEF ReadHas, ClockInv, TypeOK, AcceptedOffsets, UsesAcceptedOffset, Measured, SampleOk
<1>8. ASSUME NEW t \in Instants, NEW delay \in Delays, NEW cut \in 0 .. Tick - 1,
             RecordLatency(t, delay, cut)
      PROVE  ClockInv'
  <2> DEFINE used == IF seen = "yes" THEN offset ELSE 0
             lat == t + delay + used - (t + skew - cut)
  <2>1. t \in Int /\ delay \in Int /\ used \in Int /\ cut \in Int /\ cut >= 0 /\ cut <= Tick - 1
    BY <1>0, ClockAssumption DEF ClockInv, TypeOK
  <2>2. lat = delay + used - skew + cut /\ lat \in Int
    BY <2>1, <1>0
  <2>3. sample' = [offset |-> used, skew |-> skew, true |-> delay,
                   recorded |-> IF lat < 0 THEN {} ELSE {lat}]
    BY <1>8 DEF RecordLatency, ExchangeToRecv
  <2>4. sample' \in [offset : Int, skew : Int, true : Int, recorded : SUBSET Nat]
    <3> HIDE DEF used, lat
    <3>1. (IF lat < 0 THEN {} ELSE {lat}) \in SUBSET Nat
      BY <2>2
    <3> QED
      BY <2>1, <2>3, <3>1, <1>0
  <2>5. Measured'
    <3> HIDE DEF used, lat
    <3>1. CASE lat < 0
      BY <3>1, <2>1, <2>2, <2>3, <1>0 DEF Measured
    <3>2. CASE ~(lat < 0)
      BY <3>2, <2>1, <2>2, <2>3, <1>0 DEF Measured
    <3> QED
      BY <3>1, <3>2
  <2>6. TypeOK'
    BY <1>8, <2>4 DEF RecordLatency, ClockInv, TypeOK
  <2>7. UsesAcceptedOffset'
    BY <1>8, <2>3 DEF RecordLatency, ClockInv, AcceptedOffsets, UsesAcceptedOffset
  <2> QED
    BY <1>8, <2>5, <2>6, <2>7 DEF RecordLatency, ClockInv, AcceptedOffsets, SampleOk
<1>9. CASE UNCHANGED vars
  BY <1>9 DEF vars, ClockInv, TypeOK, AcceptedOffsets, UsesAcceptedOffset, Measured, SampleOk
<1> QED
  BY <1>1, <1>2, <1>3, <1>4, <1>5, <1>6, <1>7, <1>8, <1>9 DEF Next

(* A latency computed with an accurate offset is accurate. *)
LEMMA ClockInvImplies == ClockInv => LatencyIsRight
<1> SUFFICES ASSUME ClockInv,
                    NEW a \in accepted, a.offset = sample.offset, a.skew = sample.skew, a.clean
             PROVE  /\ sample.recorded = {} => sample.true < MaxError
                    /\ \A r \in sample.recorded : Abs(r - sample.true) <= MaxError + Tick - 1
  BY DEF LatencyIsRight
<1> DEFINE e == sample.offset - sample.skew
<1>1. /\ sample.offset \in Int /\ sample.skew \in Int /\ sample.true \in Int
      /\ sample.recorded \subseteq Nat /\ Tick \in Nat \ {0} /\ MaxRtt \in Nat
  BY ClockAssumption DEF ClockInv, TypeOK
<1>2. MaxError \in Int
  BY <1>1 DEF MaxError
<1>3. Abs(e) <= MaxError
  BY DEF ClockInv, SampleOk
<1>4. e \in Int /\ e <= MaxError /\ -e <= MaxError
  BY <1>1, <1>2, <1>3 DEF Abs
<1>5. sample.recorded = {} => sample.true < MaxError
  BY <1>1, <1>2, <1>4 DEF ClockInv, Measured
<1>6. ASSUME NEW r \in sample.recorded
      PROVE  Abs(r - sample.true) <= MaxError + Tick - 1
  <2>1. r \in Int /\ r - sample.true >= e /\ r - sample.true <= e + Tick - 1
    BY <1>1, <1>6 DEF ClockInv, Measured
  <2> QED
    BY <1>1, <1>2, <1>4, <2>1 DEF Abs
<1> QED
  BY <1>5, <1>6

(* ClockInv holds throughout (clock_offset.h, both threads). *)
THEOREM ClockInvariance == Spec => []ClockInv
  BY ClockInitial, ClockStep, PTL DEF Spec

(* offset_us() only ever yields 0 or the offset of an accepted sample. *)
THEOREM OffsetIsAccepted == Spec => []UsesAcceptedOffset
<1>1. ClockInv => UsesAcceptedOffset
  BY DEF ClockInv
<1> QED
  BY <1>1, ClockInvariance, PTL

(* For all limits and delays a latency recorded under a valid calibration    *)
(* is off by at most MaxError and a tick, and only smaller ones are dropped. *)
THEOREM LatencyBound == Spec => []LatencyIsRight
  BY ClockInvariance, ClockInvImplies, PTL
=============================================================================
