------------------------------ MODULE ClockOffset ------------------------------
(***************************************************************************)
(* The clock calibration of src/src/network/clock_offset.h: the clock      *)
(* thread asks the exchange for its time, accepts or rejects the sample    *)
(* and publishes an offset in relaxed atomics; the read thread adds the    *)
(* offset to the local receive time of a trade to get its latency.         *)
(*                                                                         *)
(* Local instants are readings of wall_us_now.  skew is what the exchange  *)
(* clock is ahead of the local one; it changes when the local clock is     *)
(* set, perhaps while a request is under way.  Answers and trades carry    *)
(* whole milliseconds, so up to Tick - 1 is cut off.                       *)
(***************************************************************************)
EXTENDS Integers

CONSTANTS MaxRtt, MaxAbsOffset,   \* kMaxRttUs, kMaxAbsOffsetUs
          Tick,                   \* microseconds in the unit of exchange times
          Skews,                  \* the values of skew
          Instants, Delays,       \* local times of requests, ways of a message
          WrongTimes,             \* what a faulty answer may say
          MaxAttempts             \* bound: calibrations in a behaviour

ASSUME ClockAssumption ==
    /\ MaxRtt \in Nat /\ MaxAbsOffset \in Nat /\ Tick \in Nat \ {0}
    /\ Skews \subseteq Int /\ 0 \in Skews /\ Instants \subseteq Int
    /\ Delays \subseteq Nat /\ WrongTimes \subseteq Int /\ MaxAttempts \in Nat

VARIABLES skew,
          hasOffset, offset,          \* has_offset_, offset_us_
          acceptCount, failCount,     \* accept_count_, fail_count_
          todo, pending,              \* stores of on_sample not yet visible, and their value
          seen,                       \* read thread: has_offset() as it read it
          sample,                     \* the last latency: offset used, true and recorded value
          accepted                    \* history: the samples accepted, skew then, measured cleanly

vars == <<skew, hasOffset, offset, acceptCount, failCount, todo, pending, seen, sample, accepted>>

Samples == [offset : Int, skew : Int, clean : BOOLEAN]
Stores == {"offset", "has", "count"}

Init == /\ skew \in Skews
        /\ hasOffset = FALSE /\ offset = 0 /\ acceptCount = 0 /\ failCount = 0
        /\ todo = {} /\ pending = 0
        /\ seen = "none"
        /\ sample = [offset |-> 0, skew |-> 0, true |-> 0, recorded |-> {0}]
        /\ accepted = {}

-----------------------------------------------------------------------------
(* on_sample *)

Rtt(send, recv) == recv - send
Abs(n) == IF n < 0 THEN -n ELSE n

(* Mutation: the time of arrival stands for the middle of the request. *)
SampleOffsetAtArrival(send, recv, server) == server - recv
SampleOffset(send, recv, server) == server - (send + Rtt(send, recv) \div 2)

Accepts(send, recv, server) ==
    /\ server > 0 /\ recv >= send
    /\ Rtt(send, recv) <= MaxRtt
    /\ Abs(SampleOffset(send, recv, server)) <= MaxAbsOffset

(* The clock thread is between two attempts. *)
Ready == todo = {} /\ acceptCount + failCount < MaxAttempts

(* Mutation: the offset is stored before the sample is judged. *)
OnSampleStoredFirst(send, recv, server, clean) ==
    /\ pending' = SampleOffset(send, recv, server)
    /\ \/ /\ Accepts(send, recv, server)
          /\ todo' = Stores
          /\ accepted' = accepted \cup {[offset |-> pending', skew |-> skew, clean |-> clean]}
          /\ UNCHANGED failCount
       \/ /\ ~Accepts(send, recv, server)
          /\ failCount' = failCount + 1 /\ todo' = {"offset"}
          /\ UNCHANGED accepted
OnSample(send, recv, server, clean) ==
    \/ /\ Accepts(send, recv, server)
       /\ pending' = SampleOffset(send, recv, server)
       /\ todo' = Stores
       /\ accepted' = accepted \cup {[offset |-> pending', skew |-> skew, clean |-> clean]}
       /\ UNCHANGED failCount
    \/ /\ ~Accepts(send, recv, server)
       /\ failCount' = failCount + 1
       /\ UNCHANGED <<pending, todo, accepted>>

(* A request and its answer: out and back are the ways of the two messages. *)
Request(send, out, back, cut) ==
    /\ Ready
    /\ OnSample(send, send + out + back, send + out + skew - cut, TRUE)
    /\ UNCHANGED <<skew, hasOffset, offset, acceptCount, seen, sample>>

(* The same, with the local clock set before the answer arrives. *)
RequestAcrossStep(send, out, back, new) ==
    /\ Ready /\ new # skew
    /\ OnSample(send, send + out + back + skew - new, send + out + skew, FALSE)
    /\ skew' = new
    /\ UNCHANGED <<hasOffset, offset, acceptCount, seen, sample>>

(* An answer that cannot be parsed counts as time 0, another is just wrong. *)
WrongAnswer(send, out, server) ==
    /\ Ready
    /\ OnSample(send, send + out, server, FALSE)
    /\ UNCHANGED <<skew, hasOffset, offset, acceptCount, seen, sample>>

OnTransportFailure ==
    /\ Ready
    /\ failCount' = failCount + 1
    /\ UNCHANGED <<skew, hasOffset, offset, acceptCount, todo, pending, seen, sample, accepted>>

(* The relaxed stores become visible to the read thread in any order. *)
Store(x) ==
    /\ x \in todo /\ todo' = todo \ {x}
    /\ offset' = IF x = "offset" THEN pending ELSE offset
    /\ hasOffset' = (hasOffset \/ x = "has")
    /\ acceptCount' = IF x = "count" THEN acceptCount + 1 ELSE acceptCount
    /\ UNCHANGED <<skew, failCount, pending, seen, sample, accepted>>

SetLocalClock(new) ==
    /\ skew' = new
    /\ UNCHANGED <<hasOffset, offset, acceptCount, failCount, todo, pending, seen, sample, accepted>>

-----------------------------------------------------------------------------
(* The read thread: offset_us() reads two atomics. *)

ReadHas == /\ seen = "none"
           /\ seen' = IF hasOffset THEN "yes" ELSE "no"
           /\ UNCHANGED <<skew, hasOffset, offset, acceptCount, failCount, todo, pending, sample, accepted>>

(* exchange_to_recv_us of a trade with an exchange time; {} is nullopt. *)
ExchangeToRecv(exch, recv, off) ==
    IF recv + off - exch < 0 THEN {} ELSE {recv + off - exch}

(* A trade stamped by the exchange at local instant t (of which cut is cut   *)
(* off) arrives after the given delay.                                       *)
RecordLatency(t, delay, cut) ==
    /\ seen # "none" /\ seen' = "none"
    /\ t + skew - cut > 0
    /\ LET used == IF seen = "yes" THEN offset ELSE 0
       IN  sample' = [offset |-> used, skew |-> skew, true |-> delay,
                      recorded |-> ExchangeToRecv(t + skew - cut, t + delay, used)]
    /\ UNCHANGED <<skew, hasOffset, offset, acceptCount, failCount, todo, pending, accepted>>

Next == \/ \E send \in Instants, out, back \in Delays :
              \/ \E cut \in 0 .. Tick - 1 : Request(send, out, back, cut)
              \/ \E new \in Skews : RequestAcrossStep(send, out, back, new)
        \/ \E send \in Instants, out \in Delays, server \in WrongTimes :
              WrongAnswer(send, out, server)
        \/ OnTransportFailure
        \/ \E x \in Stores : Store(x)
        \/ \E new \in Skews : SetLocalClock(new)
        \/ ReadHas
        \/ \E t \in Instants, delay \in Delays, cut \in 0 .. Tick - 1 : RecordLatency(t, delay, cut)

Spec == Init /\ [][Next]_vars

-----------------------------------------------------------------------------
TypeOK == /\ skew \in Skews /\ hasOffset \in BOOLEAN /\ offset \in Int
          /\ acceptCount \in Nat /\ failCount \in Nat
          /\ todo \in SUBSET Stores /\ pending \in Int
          /\ seen \in {"none", "yes", "no"}
          /\ sample \in [offset : Int, skew : Int, true : Int, recorded : SUBSET Nat]
          /\ accepted \in SUBSET Samples

(* How far the offset of a clean sample can be off: half of the largest     *)
(* round trip and what is cut off the exchange's answer.                    *)
MaxError == (MaxRtt + 1) \div 2 + Tick - 1

(* What an accepted sample says: it is in range, and if the clock was not    *)
(* set during the request and the answer was right, it is the true offset   *)
(* within MaxError.                                                         *)
SampleOk(a) == /\ Abs(a.offset) <= MaxAbsOffset
               /\ a.clean => Abs(a.offset - a.skew) <= MaxError

(* The read thread uses 0 or the offset of an accepted sample, however its  *)
(* two loads and the three stores of the clock thread interleave: a         *)
(* rejected sample never takes effect, and no mixture of samples does.      *)
UsesAcceptedOffset ==
    sample.offset \in {0} \cup {a.offset : a \in accepted}

(* A latency computed with an offset measured cleanly for the clock as it   *)
(* was set at that moment is off by no more than the calibration error and  *)
(* the cut-off of the trade's time; one dropped as negative was that small. *)
LatencyIsRight ==
    (\E a \in accepted : a.offset = sample.offset /\ a.skew = sample.skew /\ a.clean)
      => /\ sample.recorded = {} => sample.true < MaxError
         /\ \A r \in sample.recorded : Abs(r - sample.true) <= MaxError + Tick - 1

=============================================================================
