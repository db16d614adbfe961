---------------------------------- MODULE Feed ----------------------------------
(***************************************************************************)
(* MarketDataFeed (src/src/api/feed.cpp): start() and stop() on the        *)
(* owner's thread against the callbacks on the read thread.  The writers   *)
(* are reduced to open and closed (RecordWriter has their insides), the    *)
(* connection manager to running and stopped (Connection): stop() of the   *)
(* latter joins a read thread that may be inside a callback, but may also  *)
(* miss a client that is just being connected, as the run                  *)
(* connection_stop_quiet shows; that client then lingers.                  *)
(***************************************************************************)
EXTENDS Integers, Sequences

CONSTANT Streams               \* trades and order books, each with its writer

VARIABLES persist,             \* persist_
          started,             \* started_
          call, step,          \* the owner's call and the step it is at
          writer,              \* per stream "closed" or "open"
          openFailed,          \* history: streams whose last open failed
          cm,                  \* "stopped", "half" started, "running" or "stopping"
          registered,          \* the callbacks are set in the connection manager
          linger,              \* clients that outlive cm_->stop()
          io                   \* what the read thread is at

vars == <<persist, started, call, step, writer, openFailed, cm, registered, linger, io>>

Quiet == [at |-> "none"]

Init == /\ persist \in BOOLEAN
        /\ started = FALSE /\ call = "none" /\ step = 1
        /\ writer = [s \in Streams |-> "closed"] /\ openFailed = {}
        /\ cm = "stopped" /\ registered = FALSE /\ linger = FALSE
        /\ io = Quiet

-----------------------------------------------------------------------------
(* The steps of the two calls, in order. *)

(* Mutation: the connection is started before the callbacks are set. *)
StartSequenceConnectFirst == <<"open", "connect", "register">>
StartSequence == <<"open", "register", "connect">>

(* Mutation: the writers are closed before the connection is stopped. *)
StopSequenceCloseFirst == <<"close", "disconnect", "join">>
StopSequence == <<"disconnect", "join", "close">>

At(c, name) == /\ call = c
               /\ IF c = "start" THEN StartSequence[step] = name
                                 ELSE StopSequence[step] = name

(* The call goes on to its next step or returns. *)
Advance == IF step = 3 THEN call' = "none" /\ step' = 1
                       ELSE step' = step + 1 /\ UNCHANGED call

CallStart == /\ call = "none" /\ ~started
             /\ started' = TRUE /\ call' = "start" /\ step' = 1
             /\ UNCHANGED <<persist, writer, openFailed, cm, registered, linger, io>>

(* stop() or the destructor. *)
CallStop == /\ call = "none" /\ started
            /\ started' = FALSE /\ call' = "stop" /\ step' = 1
            /\ UNCHANGED <<persist, writer, openFailed, cm, registered, linger, io>>

(* With a data directory both writers are opened; a failure is only logged. *)
OpenWriters ==
    /\ At("start", "open")
    /\ \E opened \in IF persist THEN SUBSET Streams ELSE {{}} :
          /\ writer' = [s \in Streams |-> IF s \in opened THEN "open" ELSE writer[s]]
          /\ openFailed' = IF persist THEN Streams \ opened ELSE {}
    /\ Advance
    /\ UNCHANGED <<persist, started, cm, registered, linger, io>>

Register ==
    /\ At("start", "register")
    /\ registered' = TRUE
    /\ Advance
    /\ UNCHANGED <<persist, started, writer, openFailed, cm, linger, io>>

(* cm_->start *)
Connect ==
    /\ At("start", "connect")
    /\ cm' = "running"
    /\ Advance
    /\ UNCHANGED <<persist, started, writer, openFailed, registered, linger, io>>

(* Mutation: a failed start only resets the flag. *)
RollbackFlagOnly == call' = "none" /\ step' = 1
Rollback == call' = "stop" /\ step' = 1

(* A step of start() throws, having done its work or a part of it, and the  *)
(* handler runs stop().  cm_->start creates the reconnect thread last: if   *)
(* it throws, running_ is set and no client will exist.                     *)
StartThrows ==
    /\ call = "start"
    /\ \E opened \in IF persist /\ At("start", "open") THEN SUBSET Streams ELSE {{}} :
          /\ writer' = [s \in Streams |-> IF s \in opened THEN "open" ELSE writer[s]]
          /\ openFailed' = IF At("start", "open") /\ persist THEN Streams \ opened ELSE openFailed
    /\ IF At("start", "connect") THEN cm' = "half" ELSE UNCHANGED cm
    /\ started' = FALSE
    /\ Rollback
    /\ UNCHANGED <<persist, registered, linger, io>>

(* cm_->stop: no new messages of the client it knows; it joins the thread.  *)
Disconnect ==
    /\ At("stop", "disconnect")
    /\ cm' = IF cm = "stopped" THEN cm ELSE "stopping"
    /\ \/ UNCHANGED linger
       \/ cm = "running" /\ linger' = TRUE
    /\ Advance
    /\ UNCHANGED <<persist, started, writer, openFailed, registered, io>>

Join ==
    /\ At("stop", "join")
    /\ io = Quiet \/ linger
    /\ cm' = "stopped"
    /\ Advance
    /\ UNCHANGED <<persist, started, writer, openFailed, registered, linger, io>>

CloseWriters ==
    /\ At("stop", "close")
    /\ writer' = [s \in Streams |-> "closed"]
    /\ Advance
    /\ UNCHANGED <<persist, started, openFailed, cm, registered, linger, io>>

-----------------------------------------------------------------------------
(* The read thread. *)

Delivers == cm = "running" \/ linger

Deliver(s) ==
    /\ io = Quiet /\ Delivers /\ registered
    /\ io' = [at |-> "write", stream |-> s]
    /\ UNCHANGED <<persist, started, call, step, writer, openFailed, cm, registered, linger>>

(* The internal callback writes first and ignores the result; what the     *)
(* writer does with the record is in RecordWriter.                         *)
WriteRecord ==
    /\ io.at = "write"
    /\ io' = [io EXCEPT !.at = "user"]
    /\ UNCHANGED <<persist, started, call, step, writer, openFailed, cm, registered, linger>>

(* The user's callback returns or throws; an exception is counted and goes  *)
(* no further.                                                              *)
UserCallback ==
    /\ io.at = "user"
    /\ io' = Quiet
    /\ UNCHANGED <<persist, started, call, step, writer, openFailed, cm, registered, linger>>

(* A client left over by stop() loses its connection. *)
LingererEnds ==
    /\ linger /\ io = Quiet
    /\ linger' = FALSE
    /\ UNCHANGED <<persist, started, call, step, writer, openFailed, cm, registered, io>>

Next == \/ CallStart \/ CallStop
        \/ OpenWriters \/ Register \/ Connect \/ StartThrows
        \/ Disconnect \/ Join \/ CloseWriters
        \/ \E s \in Streams : Deliver(s)
        \/ WriteRecord \/ UserCallback \/ LingererEnds

Spec == Init /\ [][Next]_vars

-----------------------------------------------------------------------------
(* Whenever no call is under way and the feed is not started, after stop()  *)
(* as after a start() that threw at any step, the connection is stopped,    *)
(* both writers are closed and no callback runs, except one of a client     *)
(* that outlived cm_->stop().                                               *)
StoppedIsClean ==
    call = "none" /\ ~started
      => /\ cm = "stopped" /\ \A s \in Streams : writer[s] = "closed"
         /\ io = Quiet \/ linger

(* A record on its way to a writer finds it open, unless that writer could  *)
(* not be opened or the record comes from a client that outlived            *)
(* cm_->stop(): start() opens before it connects, stop() closes last, and   *)
(* that also holds across restarts and rolled-back starts.                  *)
WritesMeetOpenWriters ==
    io.at = "write" /\ persist /\ ~linger
      => writer[io.stream] = "open" \/ io.stream \in openFailed

(* start() registers the callbacks while the manager is stopped, and the    *)
(* only read thread that may be calling the plain std::functions it then    *)
(* replaces is that of a client which outlived the cm_->stop() before; that *)
(* one may, and the assignment then races with its calls, against what      *)
(* src/include/mds/feed.h:82-83 asks for.                                   *)
OnlyLingerersMeetRegistration ==
    At("start", "register") => cm = "stopped" /\ (io = Quiet \/ linger)
=============================================================================
