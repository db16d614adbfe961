------------------------------- MODULE FeedProofs -------------------------------
(* Proofs about Feed: start(), stop(), the rollback of a start() that throws, and
   the read thread, for any set of streams. *)
EXTENDS Feed, TLAPS

TypeOK ==
    /\ persist \in BOOLEAN /\ started \in BOOLEAN
    /\ call \in {"none", "start", "stop"} /\ step \in 1..3
    /\ writer \in [Streams -> {"open", "closed"}] /\ openFailed \subseteq Streams
    /\ cm \in {"stopped", "half", "running", "stopping"}
    /\ registered \in BOOLEAN /\ linger \in BOOLEAN
    /\ io \in {Quiet} \cup [at : {"write", "user"}, stream : Streams]

(* Where the owner's call is tells how far the connection has come: start() finds
   it stopped up to its last step, stop() leaves it stopped after the join. *)
PhaseInv ==
    /\ call = "start" => started /\ cm = "stopped"
    /\ call = "stop" =>
          /\ ~started
          /\ step = 1 => cm # "stopping"
          /\ step = 2 => cm \notin {"half", "running"}
          /\ step = 3 => cm = "stopped"
    /\ call = "none" => step = 1 /\ cm = (IF started THEN "running" ELSE "stopped")

(* A callback runs only over a connection that is not stopped, or for a client
   that outlived cm_->stop(). *)
CallbackInv == io = Quiet \/ linger \/ cm # "stopped"

(* The writers are closed where start() begins and stop() has returned; they have
   been opened, or have failed to open, once start() is past their opening and as
   long as the connection is not stopped. *)
WriterInv ==
    /\ (call = "none" /\ ~started) \/ (call = "start" /\ step = 1) =>
          \A s \in Streams : writer[s] = "closed"
    /\ persist /\ (cm # "stopped" \/ (call = "start" /\ step > 1)) =>
          \A s \in Streams : writer[s] = "open" \/ s \in openFailed

FeedInv == TypeOK /\ PhaseInv /\ CallbackInv /\ WriterInv

USE DEF FeedInv, TypeOK, PhaseInv, CallbackInv, WriterInv, Quiet

-----------------------------------------------------------------------------
(* A feed that has just been constructed satisfies it. *)
LEMMA InitFeed == Init => FeedInv
<1>. SUFFICES ASSUME Init PROVE FeedInv  OBVIOUS
<1>1. TypeOK
  <2>1. persist \in BOOLEAN /\ started \in BOOLEAN /\ registered \in BOOLEAN /\ linger \in BOOLEAN
    BY Zenon DEF Init
  <2>2. writer \in [Streams -> {"open", "closed"}]  BY DEF Init
  <2>. QED  BY <2>1, <2>2 DEF Init
<1>2. PhaseInv  BY DEF Init
<1>3. CallbackInv  BY DEF Init
<1>4. WriterInv  BY DEF Init
<1>. QED  BY <1>1, <1>2, <1>3, <1>4

(* A step of a call is at the place that its name has in the sequence. *)
LEMMA Places ==
    ASSUME FeedInv
    PROVE  /\ At("start", "open") <=> call = "start" /\ step = 1
           /\ At("start", "register") <=> call = "start" /\ step = 2
           /\ At("start", "connect") <=> call = "start" /\ step = 3
           /\ At("stop", "disconnect") <=> call = "stop" /\ step = 1
           /\ At("stop", "join") <=> call = "stop" /\ step = 2
           /\ At("stop", "close") <=> call = "stop" /\ step = 3
<1>1. step = 1 \/ step = 2 \/ step = 3  OBVIOUS
<1>. QED  BY <1>1 DEF At, StartSequence, StopSequence

(* start() and stop() are entered. *)
LEMMA CallStartKeeps == ASSUME FeedInv, CallStart PROVE FeedInv'
BY DEF CallStart

(* stop() is entered. *)
LEMMA CallStopKeeps == ASSUME FeedInv, CallStop PROVE FeedInv'
<1>0. started' \in BOOLEAN  BY Zenon DEF CallStop
<1>1. TypeOK'  BY <1>0 DEF CallStop
<1>2. PhaseInv'  BY DEF CallStop
<1>3. CallbackInv'  BY DEF CallStop
<1>4. WriterInv'  BY DEF CallStop
<1>. QED  BY <1>1, <1>2, <1>3, <1>4

(* The writers are opened, whichever of them can be. *)
LEMMA OpenWritersKeeps == ASSUME FeedInv, OpenWriters PROVE FeedInv'
BY Places DEF OpenWriters, Advance

(* The callbacks are set. *)
LEMMA RegisterKeeps == ASSUME FeedInv, Register PROVE FeedInv'
BY Places DEF Register, Advance

(* The connection is started. *)
LEMMA ConnectKeeps == ASSUME FeedInv, Connect PROVE FeedInv'
BY Places DEF Connect, Advance

(* start() throws anywhere and runs stop(). *)
LEMMA StartThrowsKeeps == ASSUME FeedInv, StartThrows PROVE FeedInv'
<1>. USE Places DEF StartThrows, Rollback
<1>1. TypeOK'
  <2>1. started' \in BOOLEAN /\ persist' \in BOOLEAN /\ registered' \in BOOLEAN /\ linger' \in BOOLEAN
    BY Zenon
  <2>2. writer' \in [Streams -> {"open", "closed"}] /\ openFailed' \subseteq Streams  OBVIOUS
  <2>3. cm' \in {"stopped", "half", "running", "stopping"}  OBVIOUS
  <2>4. call' \in {"none", "start", "stop"} /\ step' \in 1..3  OBVIOUS
  <2>. QED  BY <2>1, <2>2, <2>3, <2>4
<1>2. PhaseInv'  OBVIOUS
<1>3. CallbackInv'  OBVIOUS
<1>4. WriterInv'  OBVIOUS
<1>. QED  BY <1>1, <1>2, <1>3, <1>4

(* stop() stops the connection, ... *)
LEMMA DisconnectKeeps == ASSUME FeedInv, Disconnect PROVE FeedInv'
<1>. USE Places DEF Disconnect, Advance
<1>1. TypeOK'
  <2>1. linger' \in BOOLEAN  BY Zenon
  <2>2. cm' \in {"stopped", "half", "running", "stopping"}  OBVIOUS
  <2>3. call' \in {"none", "start", "stop"} /\ step' \in 1..3  OBVIOUS
  <2>. QED  BY <2>1, <2>2, <2>3
<1>2. PhaseInv'  OBVIOUS
<1>3. CallbackInv'  OBVIOUS
<1>4. WriterInv'  OBVIOUS
<1>. QED  BY <1>1, <1>2, <1>3, <1>4

(* ... joins the read thread it knows of, ... *)
LEMMA JoinKeeps == ASSUME FeedInv, Join PROVE FeedInv'
BY Places DEF Join, Advance

(* ... and closes the writers. *)
LEMMA CloseWritersKeeps == ASSUME FeedInv, CloseWriters PROVE FeedInv'
BY Places DEF CloseWriters, Advance

(* A message arrives. *)
LEMMA DeliverKeeps == ASSUME FeedInv, NEW s \in Streams, Deliver(s) PROVE FeedInv'
BY DEF Deliver, Delivers

(* The record is written, *)
LEMMA WriteRecordKeeps == ASSUME FeedInv, WriteRecord PROVE FeedInv'
BY DEF WriteRecord

(* the user's callback returns, and a client that outlived stop() ends. *)
LEMMA UserCallbackKeeps == ASSUME FeedInv, UserCallback PROVE FeedInv'
BY DEF UserCallback

(* A client that outlived stop() ends. *)
LEMMA LingererEndsKeeps == ASSUME FeedInv, LingererEnds PROVE FeedInv'
BY DEF LingererEnds

(* FeedInv holds in every reachable state. *)
THEOREM FeedInvariance == Spec => []FeedInv
<1>. HIDE DEF FeedInv
<1>1. ASSUME FeedInv, [Next]_vars PROVE FeedInv'
  <2>1. CASE UNCHANGED vars  BY <1>1, <2>1 DEF vars, FeedInv
  <2>2. CASE Next
    BY <1>1, <2>2, CallStartKeeps, CallStopKeeps, OpenWritersKeeps, RegisterKeeps, ConnectKeeps, StartThrowsKeeps,
       DisconnectKeeps, JoinKeeps, CloseWritersKeeps, DeliverKeeps, WriteRecordKeeps,
       UserCallbackKeeps, LingererEndsKeeps DEF Next
  <2>. QED  BY <1>1, <2>1, <2>2
<1>. QED  BY InitFeed, <1>1, PTL DEF Spec

(* A feed that is not started is clean, after stop() as after a start() that
   threw at any step: connection stopped, writers closed, and no callback but one
   of a client that outlived cm_->stop(). *)
THEOREM StoppedFeedIsClean == Spec => []StoppedIsClean
<1>1. FeedInv => StoppedIsClean  BY DEF StoppedIsClean
<1>. HIDE DEF FeedInv
<1>. QED  BY FeedInvariance, <1>1, PTL

(* The callback of a message finds the writer open or knows it failed to open. *)
THEOREM WritersOpenForWrites == Spec => []WritesMeetOpenWriters
<1>1. FeedInv => WritesMeetOpenWriters  BY DEF WritesMeetOpenWriters
<1>. HIDE DEF FeedInv
<1>. QED  BY FeedInvariance, <1>1, PTL

(* start() replaces the callbacks with the manager stopped, and no read thread is
   inside one of them but that of a client which outlived the last stop(). *)
THEOREM RegistrationMeetsOnlyLingerers == Spec => []OnlyLingerersMeetRegistration
<1>1. FeedInv => OnlyLingerersMeetRegistration
  BY Places DEF OnlyLingerersMeetRegistration
<1>. HIDE DEF FeedInv
<1>. QED  BY FeedInvariance, <1>1, PTL
=============================================================================
