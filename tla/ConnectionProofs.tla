--------------------------- MODULE ConnectionProofs ---------------------------
(* Proofs about Connection: what holds of the manager, its client and their
   threads in every interleaving, for every reconnect limit; and about Heartbeat:
   the timing of the heartbeat thread, for every interval and time-out. *)
EXTENDS Connection, Heartbeat, TLAPS

(* The thread that runs notify_disconnect is the read thread or whoever is
   inside disconnect(). *)
Reporters == {"reader", "closer"}
Stopping == {"lock", "disconnect", "wake", "join", "stopped"}

Labels ==
    {"new", "started", "lock", "disconnect", "wake", "join", "stopped", "none", "exited",
     "top", "replace", "destroy", "connect", "inner", "outer", "reset", "send", "check",
     "dozing", "asleep", "decide", "backoff", "sync", "waiting", "reading", "ending",
     "cas", "drop", "flag", "idle", "close", "shut", "end"}

Types ==
    /\ pc \in [Threads -> Labels]
    /\ running \in BOOLEAN /\ needReconnect \in BOOLEAN
    /\ client \in [connected : BOOLEAN, notified : BOOLEAN, running : BOOLEAN,
                   stream : {"down", "up", "silent", "reset", "dead"}]
    /\ callbacks \in 0..1

(* client_mutex_ is held exactly where the code holds it, and disconnect() runs
   under it. *)
MutexInv ==
    /\ clientMutex = "owner" <=> pc["owner"] = "disconnect"
    /\ clientMutex = "reconnect" <=> pc["reconnect"] \in {"destroy", "new"}
    /\ pc["closer"] # "idle" => pc["owner"] = "disconnect" \/ pc["reconnect"] = "destroy"

(* running_ is true between start() and stop() only, and once a stop() has
   returned the reconnect thread is gone for good. *)
OwnerInv ==
    /\ pc["owner"] \in {"new", "started"} \cup Stopping
    /\ stops \in 0..2
    /\ stops = 0 <=> pc["owner"] \in {"new", "started"}
    /\ running => pc["owner"] = "started"
    /\ pc["owner"] = "new" => pc["reconnect"] = "none" /\ pc["reader"] = "none"
    /\ pc["owner"] = "stopped" \/ stops = 2 => pc["reconnect"] \in Gone

(* A client that is being connected has no threads yet and nobody closes it;
   a client whose read thread has not ended has been reported by nobody and
   passes for connected as soon as connect() has said so. *)
ClientInv ==
    /\ pc["reconnect"] = "connect" =>
          /\ client = NewClient /\ callbacks = 0
          /\ pc["reader"] = "none" /\ pc["beat"] = "none" /\ pc["closer"] = "idle"
    /\ pc["reader"] \in {"reading", "ending", "cas"} =>
          /\ ~client.notified
          /\ client.connected \/ pc["reconnect"] = "inner"

(* disconnect() reports only after it has joined the client's threads; who has
   won disconnect_notified_ runs the callback once. *)
ReportInv ==
    /\ pc["closer"] \in {"cas", "drop", "flag", "wake", "end"} =>
          pc["reader"] \in Gone /\ pc["beat"] \in Gone
    /\ \A t \in Reporters : pc[t] \in {"drop", "flag"} => callbacks = 0
    /\ ~client.notified =>
          callbacks = 0 /\ \A t \in Reporters : pc[t] \notin {"drop", "flag", "wake"}

(* While the manager runs, a read thread ends for one reason only, a socket that
   is dead, and its report outlives reconnect_loop's reset. *)
LossInv ==
    /\ pc["reader"] = "reading" /\ ~client.running /\ client.stream # "dead" =>
          ~running \/ pc["reconnect"] \in {"destroy", "new"}
    /\ pc["reader"] \in {"ending", "cas", "drop", "flag", "wake", "exited"} =>
          client.stream = "dead" \/ ~running \/ pc["reconnect"] \in {"destroy", "new"}
    /\ pc["reconnect"] \in {"check", "dozing", "asleep"} /\ pc["reader"] \in {"wake", "exited"} =>
          needReconnect \/ ~running

(* The destructor's stop() closes the socket of a client that still reads. *)
DeathInv ==
    stops = 2 /\ pc["reader"] = "reading" /\ client.stream # "dead" =>
        \/ pc["owner"] = "lock"
        \/ pc["owner"] = "disconnect" /\ pc["closer"] \in {"close", "shut"}

ConnInv == Types /\ MutexInv /\ OwnerInv /\ ClientInv /\ ReportInv /\ LossInv /\ DeathInv

-------------------------------------------------------------------------------
(* A client fresh from its constructor is well-formed. *)
LEMMA NewClientType ==
    NewClient \in [connected : BOOLEAN, notified : BOOLEAN, running : BOOLEAN,
                   stream : {"down", "up", "silent", "reset", "dead"}]
BY DEF NewClient

(* A manager that has been constructed and not started satisfies it. *)
LEMMA InitConn == Init => ConnInv
<1>. SUFFICES ASSUME Init PROVE ConnInv  OBVIOUS
<1>1. Types
  <2>1. pc \in [Threads -> {"new", "idle", "none"}]  BY DEF Init, Threads
  <2>2. pc \in [Threads -> Labels]  BY <2>1 DEF Labels
  <2>3. client \in [connected : BOOLEAN, notified : BOOLEAN, running : BOOLEAN,
                    stream : {"down", "up", "silent", "reset", "dead"}]
    BY NewClientType DEF Init
  <2>4. running \in BOOLEAN /\ needReconnect \in BOOLEAN  BY Zenon DEF Init
  <2>5. callbacks \in 0..1  BY DEF Init
  <2>. QED  BY <2>2, <2>3, <2>4, <2>5 DEF Types
<1>2. MutexInv  BY DEF Init, Threads, MutexInv
<1>3. OwnerInv  BY DEF Init, Threads, OwnerInv, Stopping
<1>4. ClientInv  BY DEF Init, Threads, ClientInv, NewClient
<1>5. ReportInv  BY DEF Init, Threads, ReportInv, Reporters, NewClient
<1>6. LossInv  BY DEF Init, Threads, LossInv
<1>7. DeathInv  BY DEF Init, Threads, DeathInv
<1>. QED  BY <1>1, <1>2, <1>3, <1>4, <1>5, <1>6, <1>7 DEF ConnInv

(* Every lemma below says that one operation, in whatever interleaving it
   comes, keeps ConnInv; the definitions they all expand are named once. *)
USE DEF ConnInv, Types, MutexInv, OwnerInv, ClientInv, ReportInv, LossInv, DeathInv
USE DEF Threads, Labels, Reporters, Stopping, Gone, Goto, RecStays

(* start(): running_ is set where no read thread can have ended yet. *)
LEMMA StartKeeps == ASSUME ConnInv, Start PROVE ConnInv'
<1>. USE DEF Start
<1>1. Types'  OBVIOUS
<1>2. MutexInv'  OBVIOUS
<1>3. OwnerInv'  OBVIOUS
<1>4. ClientInv'  OBVIOUS
<1>5. ReportInv'  OBVIOUS
<1>6. LossInv'  OBVIOUS
<1>7. DeathInv'  OBVIOUS
<1>. QED  BY <1>1, <1>2, <1>3, <1>4, <1>5, <1>6, <1>7

(* stop() begins, for the first or for the second time. *)
LEMMA StopBeginKeeps == ASSUME ConnInv, StopBegin PROVE ConnInv'
<1>. USE DEF StopBegin, StopEntry
<1>1. Types'  OBVIOUS
<1>2. MutexInv'  OBVIOUS
<1>3. OwnerInv'  OBVIOUS
<1>4. ClientInv'  OBVIOUS
<1>5. ReportInv'  OBVIOUS
<1>6. LossInv'  OBVIOUS
<1>7. DeathInv'  OBVIOUS
<1>. QED  BY <1>1, <1>2, <1>3, <1>4, <1>5, <1>6, <1>7

(* stop() takes client_mutex_; a client in the middle of connect() is passed over. *)
LEMMA StopLockKeeps == ASSUME ConnInv, StopLock PROVE ConnInv'
<1>. USE DEF StopLock, LockClient, NewClient
<1>1. Types'  OBVIOUS
<1>2. MutexInv'  OBVIOUS
<1>3. OwnerInv'  OBVIOUS
<1>4. ClientInv'  OBVIOUS
<1>5. ReportInv'  OBVIOUS
<1>6. LossInv'  OBVIOUS
<1>7. DeathInv'  OBVIOUS
<1>. QED  BY <1>1, <1>2, <1>3, <1>4, <1>5, <1>6, <1>7

(* stop() lets client_mutex_ go when disconnect() has returned. *)
LEMMA StopUnlockKeeps == ASSUME ConnInv, StopUnlock PROVE ConnInv'
BY DEF StopUnlock

(* stop() notifies cv_. *)
LEMMA StopWakeKeeps == ASSUME ConnInv, StopWake PROVE ConnInv'
BY DEF StopWake, NotifyAll

(* stop() has joined the manager's threads. *)
LEMMA StopJoinKeeps == ASSUME ConnInv, StopJoin PROVE ConnInv'
BY DEF StopJoin

(* disconnect(), the steps of notify_disconnect included: it reports when the
   read thread is gone, so nobody competes for disconnect_notified_. *)
LEMMA CloserStepKeeps == ASSUME ConnInv, CloserStep PROVE ConnInv'
<1>. USE DEF CloserStep, NotifyDisconnect
<1>1. CASE pc["closer"] = "close"
  <2>1. /\ client' = [client EXCEPT !.running = FALSE] /\ Goto("closer", "shut")
        /\ UNCHANGED <<needReconnect, callbacks>>
        /\ UNCHANGED <<running, clientMutex, stops>>
    BY <1>1
  <2>. HIDE DEF CloserStep, NotifyDisconnect
  <2>. QED  BY <1>1, <2>1
<1>2. CASE pc["closer"] = "shut"
  <2>1. /\ client' = [client EXCEPT !.stream = "dead"] /\ Goto("closer", "join")
        /\ UNCHANGED <<needReconnect, callbacks>>
        /\ UNCHANGED <<running, clientMutex, stops>>
    BY <1>2
  <2>. HIDE DEF CloserStep, NotifyDisconnect
  <2>. QED  BY <1>2, <2>1
<1>3. CASE pc["closer"] = "join"
  <2>1. /\ pc["reader"] \in Gone /\ pc["beat"] \in Gone /\ Goto("closer", "cas")
        /\ UNCHANGED <<needReconnect, callbacks, client>>
        /\ UNCHANGED <<running, clientMutex, stops>>
    BY <1>3
  <2>. HIDE DEF CloserStep, NotifyDisconnect
  <2>. QED  BY <1>3, <2>1
<1>4. CASE pc["closer"] = "cas"
  <2>1. /\ Cas("closer", "end") /\ UNCHANGED <<needReconnect, callbacks>>
        /\ UNCHANGED <<running, clientMutex, stops>>
    BY <1>4
  <2>. HIDE DEF CloserStep, NotifyDisconnect
  <2>2. CASE client.notified
    <3>1. Goto("closer", "end") /\ UNCHANGED client  BY <2>1, <2>2 DEF Cas
    <3>. QED  BY <1>4, <2>1, <2>2, <3>1
  <2>3. CASE ~client.notified
    <3>1. client' = [client EXCEPT !.notified = TRUE] /\ Goto("closer", "drop")
      BY <2>1, <2>3 DEF Cas
    <3>2. Types'  BY <1>4, <2>1, <2>3, <3>1
    <3>3. MutexInv'  BY <1>4, <2>1, <2>3, <3>1
    <3>4. OwnerInv'  BY <1>4, <2>1, <2>3, <3>1
    <3>5. ClientInv'  BY <1>4, <2>1, <2>3, <3>1
    <3>6. ReportInv'  BY <1>4, <2>1, <2>3, <3>1
    <3>7. LossInv'  BY <1>4, <2>1, <2>3, <3>1
    <3>8. DeathInv'  BY <1>4, <2>1, <2>3, <3>1
    <3>. QED  BY <3>2, <3>3, <3>4, <3>5, <3>6, <3>7, <3>8
  <2>. QED  BY <2>2, <2>3
<1>5. CASE pc["closer"] = "drop"
  <2>1. /\ client' = [client EXCEPT !.connected = FALSE] /\ Goto("closer", "flag")
        /\ UNCHANGED <<needReconnect, callbacks>>
        /\ UNCHANGED <<running, clientMutex, stops>>
    BY <1>5
  <2>. HIDE DEF CloserStep, NotifyDisconnect
  <2>. QED  BY <1>5, <2>1
<1>6. CASE pc["closer"] = "flag"
  <2>1. /\ needReconnect' = TRUE /\ callbacks' = callbacks + 1 /\ Goto("closer", "wake")
        /\ UNCHANGED client
        /\ UNCHANGED <<running, clientMutex, stops>>
    BY <1>6
  <2>. HIDE DEF CloserStep, NotifyDisconnect
  <2>. QED  BY <1>6, <2>1
<1>7. CASE pc["closer"] = "wake"
  <2>1. /\ NotifyAll("closer", "end") /\ UNCHANGED <<needReconnect, callbacks, client>>
        /\ UNCHANGED <<running, clientMutex, stops>>
    BY <1>7 DEF NotifyAll
  <2>. HIDE DEF CloserStep, NotifyDisconnect
  <2>. QED  BY <1>7, <2>1 DEF NotifyAll
<1>8. CASE pc["closer"] = "end"
  <2>1. /\ client' = [client EXCEPT !.connected = FALSE] /\ Goto("closer", "idle")
        /\ UNCHANGED <<needReconnect, callbacks>>
        /\ UNCHANGED <<running, clientMutex, stops>>
    BY <1>8
  <2>. HIDE DEF CloserStep, NotifyDisconnect
  <2>. QED  BY <1>8, <2>1
<1>. QED  BY <1>1, <1>2, <1>3, <1>4, <1>5, <1>6, <1>7, <1>8

(* ws_.close gives up on a silent link. *)
LEMMA CloseGivesUpKeeps == ASSUME ConnInv, CloseGivesUp PROVE ConnInv'
BY DEF CloseGivesUp

(* read_loop ends: while the manager runs, only on a socket that is dead. *)
LEMMA ReadEndsKeeps == ASSUME ConnInv, ReadEnds PROVE ConnInv'
BY DEF ReadEnds

(* read_loop clears running_ on its way to the report. *)
LEMMA ReadEndingKeeps == ASSUME ConnInv, ReadEnding PROVE ConnInv'
BY DEF ReadEnding

(* notify_disconnect by the read thread, which is always the first to report. *)
LEMMA ReaderReportKeeps ==
    ASSUME ConnInv, NotifyDisconnect("reader", "exited") PROVE ConnInv'
<1>. USE DEF NotifyDisconnect
<1>1. CASE pc["reader"] = "cas"
  <2>1. /\ Cas("reader", "exited") /\ UNCHANGED <<needReconnect, callbacks>>
        /\ UNCHANGED <<running, clientMutex, stops>>
    BY <1>1
  <2>. HIDE DEF NotifyDisconnect
  <2>2. CASE client.notified
    <3>1. Goto("reader", "exited") /\ UNCHANGED client  BY <2>1, <2>2 DEF Cas
    <3>. QED  BY <1>1, <2>1, <2>2, <3>1
  <2>3. CASE ~client.notified
    <3>1. client' = [client EXCEPT !.notified = TRUE] /\ Goto("reader", "drop")
      BY <2>1, <2>3 DEF Cas
    <3>2. Types'  BY <1>1, <2>1, <2>3, <3>1
    <3>3. MutexInv'  BY <1>1, <2>1, <2>3, <3>1
    <3>4. OwnerInv'  BY <1>1, <2>1, <2>3, <3>1
    <3>5. ClientInv'  BY <1>1, <2>1, <2>3, <3>1
    <3>6. ReportInv'  BY <1>1, <2>1, <2>3, <3>1
    <3>7. LossInv'  BY <1>1, <2>1, <2>3, <3>1
    <3>8. DeathInv'  BY <1>1, <2>1, <2>3, <3>1
    <3>. QED  BY <3>2, <3>3, <3>4, <3>5, <3>6, <3>7, <3>8
  <2>. QED  BY <2>2, <2>3
<1>2. CASE pc["reader"] = "drop"
  <2>1. /\ client' = [client EXCEPT !.connected = FALSE] /\ Goto("reader", "flag")
        /\ UNCHANGED <<needReconnect, callbacks>>
        /\ UNCHANGED <<running, clientMutex, stops>>
    BY <1>2
  <2>. HIDE DEF NotifyDisconnect
  <2>. QED  BY <1>2, <2>1
<1>3. CASE pc["reader"] = "flag"
  <2>1. /\ needReconnect' = TRUE /\ callbacks' = callbacks + 1 /\ Goto("reader", "wake")
        /\ UNCHANGED client
        /\ UNCHANGED <<running, clientMutex, stops>>
    BY <1>3
  <2>. HIDE DEF NotifyDisconnect
  <2>. QED  BY <1>3, <2>1
<1>4. CASE pc["reader"] = "wake"
  <2>1. /\ NotifyAll("reader", "exited") /\ UNCHANGED <<needReconnect, callbacks, client>>
        /\ UNCHANGED <<running, clientMutex, stops>>
    BY <1>4 DEF NotifyAll
  <2>. HIDE DEF NotifyDisconnect
  <2>. QED  BY <1>4, <2>1 DEF NotifyAll
<1>. QED  BY <1>1, <1>2, <1>3, <1>4

(* heartbeat_loop sees running_ false. *)
LEMMA BeatExitKeeps == ASSUME ConnInv, BeatExit PROVE ConnInv'
BY DEF BeatExit

(* heartbeat_loop gives up the link: the read that follows fails. *)
LEMMA BeatTimeoutKeeps == ASSUME ConnInv, BeatTimeout PROVE ConnInv'
BY DEF BeatTimeout, GiveUpLink

(* clock_sync_loop: the request. *)
LEMMA ClockSampleKeeps == ASSUME ConnInv, ClockSample PROVE ConnInv'
BY DEF ClockSample

(* clock_sync_loop: the wait. *)
LEMMA ClockWakesKeeps == ASSUME ConnInv, ClockWakes PROVE ConnInv'
BY DEF ClockWakes, ClockNext

(* The loop condition of reconnect_loop. *)
LEMMA RecTopKeeps == ASSUME ConnInv, RecTop PROVE ConnInv'
BY DEF RecTop

(* reconnect_loop takes client_mutex_ to replace the client. *)
LEMMA RecLockKeeps == ASSUME ConnInv, RecLock PROVE ConnInv'
BY DEF RecLock, LockClient

(* The old client's destructor. *)
LEMMA RecDestroyKeeps == ASSUME ConnInv, RecDestroy PROVE ConnInv'
BY DEF RecDestroy

(* The new client replaces it, and the callback count starts again. *)
LEMMA RecNewKeeps == ASSUME ConnInv, RecNew PROVE ConnInv'
BY DEF RecNew, NewClient

(* connect() fails. *)
LEMMA RecConnectFailsKeeps == ASSUME ConnInv, RecConnectFails PROVE ConnInv'
BY DEF RecConnectFails

(* connect() starts the client's threads. *)
LEMMA RecConnectedKeeps == ASSUME ConnInv, RecConnected PROVE ConnInv'
<1>. USE DEF RecConnected, NewClient
<1>1. Types'  OBVIOUS
<1>2. MutexInv'  OBVIOUS
<1>3. OwnerInv'  OBVIOUS
<1>4. ClientInv'  OBVIOUS
<1>5. ReportInv'  OBVIOUS
<1>6. LossInv'  OBVIOUS
<1>7. DeathInv'  OBVIOUS
<1>. QED  BY <1>1, <1>2, <1>3, <1>4, <1>5, <1>6, <1>7

(* connect() sets connected_, twice. *)
LEMMA RecMarkConnectedKeeps == ASSUME ConnInv, RecMarkConnected PROVE ConnInv'
<1>. USE DEF RecMarkConnected
<1>1. Types'  OBVIOUS
<1>2. MutexInv'  OBVIOUS
<1>3. OwnerInv'  OBVIOUS
<1>4. ClientInv'  OBVIOUS
<1>5. ReportInv'  OBVIOUS
<1>6. LossInv'  OBVIOUS
<1>7. DeathInv'  OBVIOUS
<1>. QED  BY <1>1, <1>2, <1>3, <1>4, <1>5, <1>6, <1>7

(* reconnect_loop clears need_reconnect_ with the client's threads already running. *)
LEMMA RecResetKeeps == ASSUME ConnInv, RecReset PROVE ConnInv'
<1>. USE DEF RecReset
<1>1. Types'  OBVIOUS
<1>2. MutexInv'  OBVIOUS
<1>3. OwnerInv'  OBVIOUS
<1>4. ClientInv'  OBVIOUS
<1>5. ReportInv'  OBVIOUS
<1>6. LossInv'  OBVIOUS
<1>7. DeathInv'  OBVIOUS
<1>. QED  BY <1>1, <1>2, <1>3, <1>4, <1>5, <1>6, <1>7

(* The subscription goes out, which it cannot on a dead socket. *)
LEMMA RecSendKeeps == ASSUME ConnInv, RecSend PROVE ConnInv'
BY DEF RecSend, CanSend

(* The subscription fails, and a reconnect is asked for. *)
LEMMA RecSendFailsKeeps == ASSUME ConnInv, RecSendFails PROVE ConnInv'
BY DEF RecSendFails, SendFailed

(* The predicate of cv_.wait is read. *)
LEMMA RecCheckKeeps == ASSUME ConnInv, RecCheck PROVE ConnInv'
BY DEF RecCheck

(* reconnect_loop falls asleep. *)
LEMMA RecSleepKeeps == ASSUME ConnInv, RecSleep PROVE ConnInv'
BY DEF RecSleep

(* cv_.wait returns on its own. *)
LEMMA SpuriousWakeupKeeps == ASSUME ConnInv, SpuriousWakeup PROVE ConnInv'
BY DEF SpuriousWakeup

(* reconnect_loop goes on or ends. *)
LEMMA RecDecideKeeps == ASSUME ConnInv, RecDecide PROVE ConnInv'
BY DEF RecDecide

(* reconnect_loop backs off. *)
LEMMA RecBackoffKeeps == ASSUME ConnInv, RecBackoff PROVE ConnInv'
BY DEF RecBackoff

(* The network takes the link away. *)
LEMMA LoseLinkKeeps ==
    ASSUME ConnInv, NEW how \in {"reset", "silent"}, LoseLink(how) PROVE ConnInv'
<1>. USE DEF LoseLink, NewClient
<1>1. Types'  OBVIOUS
<1>2. MutexInv'  OBVIOUS
<1>3. OwnerInv'  OBVIOUS
<1>4. ClientInv'  OBVIOUS
<1>5. ReportInv'  OBVIOUS
<1>6. LossInv'  OBVIOUS
<1>7. DeathInv'  OBVIOUS
<1>. QED  BY <1>1, <1>2, <1>3, <1>4, <1>5, <1>6, <1>7

(* A step that changes nothing. *)
LEMMA StutterKeeps == ASSUME ConnInv, UNCHANGED vars PROVE ConnInv'
BY DEF vars

-------------------------------------------------------------------------------
(* ConnInv holds in every reachable state, for every max_reconnect_attempts. *)
THEOREM ConnInvariance == Spec => []ConnInv
<1>. HIDE DEF ConnInv, RecStays
<1>1. ASSUME ConnInv, [Next]_vars PROVE ConnInv'
  <2>1. CASE Start \/ StopBegin \/ OwnerStep
    BY <1>1, <2>1, StartKeeps, StopBeginKeeps, StopLockKeeps, StopUnlockKeeps, StopWakeKeeps,
       StopJoinKeeps DEF OwnerStep
  <2>2. CASE CloserStep \/ CloseGivesUp
    BY <1>1, <2>2, CloserStepKeeps, CloseGivesUpKeeps
  <2>3. CASE ReconnectStep \/ Connecting \/ SpuriousWakeup
    BY <1>1, <2>3, RecTopKeeps, RecLockKeeps, RecDestroyKeeps, RecNewKeeps,
       RecConnectFailsKeeps, RecConnectedKeeps, RecMarkConnectedKeeps, RecResetKeeps,
       RecSendKeeps, RecSendFailsKeeps, RecCheckKeeps, RecSleepKeeps, RecDecideKeeps,
       RecBackoffKeeps, SpuriousWakeupKeeps DEF ReconnectStep, Connecting
  <2>4. CASE ReaderStep
    BY <1>1, <2>4, ReadEndsKeeps, ReadEndingKeeps, ReaderReportKeeps DEF ReaderStep
  <2>5. CASE BeatExit \/ BeatTimeout \/ ClockSample \/ ClockWakes
    BY <1>1, <2>5, BeatExitKeeps, BeatTimeoutKeeps, ClockSampleKeeps, ClockWakesKeeps
  <2>6. CASE \E how \in {"reset", "silent"} : LoseLink(how)
    BY <1>1, <2>6, LoseLinkKeeps
  <2>7. CASE Destroyed \/ UNCHANGED vars
    BY <1>1, <2>7, StutterKeeps DEF Destroyed
  <2>. QED  BY <1>1, <2>1, <2>2, <2>3, <2>4, <2>5, <2>6, <2>7 DEF Next
<1>. QED  BY InitConn, <1>1, PTL DEF Spec

(* on_disconnect_ runs at most once per client: the read thread reports before
   disconnect() can have joined it, and the second report loses
   disconnect_notified_. *)
THEOREM DisconnectReportedOnce == Spec => []DisconnectOnce
<1>1. ConnInv => DisconnectOnce  BY DEF DisconnectOnce
<1>. HIDE DEF ConnInv
<1>. QED  BY ConnInvariance, <1>1, PTL

(* reconnect_loop never waits on a link whose loss has been reported: the reset
   of need_reconnect_ is followed by a send, which fails on the dead socket. *)
THEOREM LossRemembered == Spec => []LossNotForgotten
<1>1. ConnInv => LossNotForgotten  BY DEF LossNotForgotten
<1>. HIDE DEF ConnInv
<1>. QED  BY ConnInvariance, <1>1, PTL

(* After the destructor's stop() no read thread takes another message. *)
THEOREM DeliveryEnds == Spec => []DestructionEndsDelivery
<1>1. ConnInv => DestructionEndsDelivery  BY DEF DestructionEndsDelivery
<1>. HIDE DEF ConnInv
<1>. QED  BY ConnInvariance, <1>1, PTL

-------------------------------------------------------------------------------
(* The heartbeat's timing *)

BeatTypes == /\ now \in Nat /\ lastRecv \in Nat /\ nextBeat \in Nat /\ pings \in Nat
             /\ link \in {"up", "closed"} /\ peer \in {"alive", "silent"}

(* The inductive invariant: the wait that precedes the decision ends no later
   than one interval after a moment at which the data was fresh enough, and the
   wakeup follows it within the delay. *)
BeatInv == /\ BeatTypes
           /\ lastRecv <= now /\ lastData = lastRecv
           /\ link = "up" => /\ now <= nextBeat + MaxDelay
                             /\ nextBeat - lastRecv <= NoDataTimeout + PingInterval

(* BeatInv holds in every reachable state. *)
THEOREM BeatInvariance == BeatSpec => []BeatInv
  <1>1. BeatInit => BeatInv
    BY IntervalAssumption DEF BeatInit, BeatInv, BeatTypes
  <1>2. BeatInv /\ [BeatNext]_beatVars => BeatInv'
    <2> SUFFICES ASSUME BeatInv, [BeatNext]_beatVars PROVE BeatInv'
      OBVIOUS
    <2> USE IntervalAssumption DEF BeatInv, BeatTypes
    <2>1. CASE Tick
      BY <2>1 DEF Tick
    <2>2. CASE Receive
      BY <2>2 DEF Receive
    <2>3. CASE PeerFallsSilent
      BY <2>3 DEF PeerFallsSilent
    <2>4. CASE BeatPing
      BY <2>4 DEF BeatPing, TimedOut, RecvTimeAfterPing
    <2>5. CASE BeatClose
      BY <2>5 DEF BeatClose
    <2>6. CASE Halt \/ UNCHANGED beatVars
      BY <2>6 DEF Halt, beatVars
    <2> QED BY <2>1, <2>2, <2>3, <2>4, <2>5, <2>6 DEF BeatNext
  <1> QED BY <1>1, <1>2, PTL DEF BeatSpec

(* For every interval and time-out that Config accepts and every delay of the
   wakeups, a connection without data is closed at the latest one ping interval
   and one delay after the time-out. *)
THEOREM SilentLinkIsClosedInTime == BeatSpec => []SilentLinkClosedInTime
  <1>1. BeatInv => SilentLinkClosedInTime
    BY IntervalAssumption DEF BeatInv, BeatTypes, SilentLinkClosedInTime
  <1> QED BY <1>1, BeatInvariance, PTL

(* The pings keep up with the silence: the present wait ends at most one interval
   from now, and the wakeup after it comes no later than one prolonged interval
   for each ping sent and one more after the last data. *)
Beat == PingInterval + MaxDelay
PingInv == /\ link = "up" => /\ nextBeat <= now + PingInterval
                             /\ nextBeat + MaxDelay - lastRecv <= (pings + 1) * Beat
           /\ PingsPrecedeClose

(* PingInv is inductive together with BeatInv. *)
LEMMA PingStep == ASSUME BeatInv, PingInv, [BeatNext]_beatVars PROVE PingInv'
  <1> USE IntervalAssumption DEF PingInv, PingsPrecedeClose
  <1>0. Beat \in Nat \ {0} /\ Beat = PingInterval + MaxDelay
    BY DEF Beat
  <1>1. /\ now \in Nat /\ lastRecv \in Nat /\ nextBeat \in Nat /\ pings \in Nat
        /\ lastRecv <= now /\ link \in {"up", "closed"}
        /\ link = "up" => now <= nextBeat + MaxDelay
    BY DEF BeatInv, BeatTypes
  <1>2. CASE Tick
    BY <1>1, <1>2 DEF Tick
  <1>3. CASE Receive
    <2>1. /\ nextBeat' = nextBeat /\ lastRecv' = now /\ pings' = 0 /\ now' = now
          /\ link' = "up" /\ nextBeat <= now + PingInterval
      BY <1>3 DEF Receive
    <2>2. nextBeat' + MaxDelay - lastRecv' <= (pings' + 1) * Beat
      BY <1>0, <1>1, <2>1
    <2> QED BY <2>1, <2>2
  <1>4. CASE PeerFallsSilent
    BY <1>4 DEF PeerFallsSilent
  <1>5. CASE BeatPing
    <2>1. (pings + 1 + 1) * Beat = (pings + 1) * Beat + Beat
      BY <1>0, <1>1
    <2> DEFINE reach == (pings + 1) * Beat
    <2>2. reach \in Int /\ nextBeat + MaxDelay - lastRecv <= reach
      BY <1>0, <1>1, <1>5 DEF BeatPing
    <2> HIDE DEF reach
    <2>3. /\ nextBeat' + MaxDelay - lastRecv' <= reach + Beat
          /\ nextBeat' <= now' + PingInterval
      BY <1>0, <1>1, <1>5, <2>2 DEF BeatPing, RecvTimeAfterPing
    <2>4. pings' = pings + 1 /\ link' = "up"
      BY <1>5 DEF BeatPing
    <2> QED BY <2>1, <2>3, <2>4 DEF reach
  <1>6. CASE BeatClose
    <2>1. NoDataTimeout < (pings + 1) * Beat
      <3> DEFINE reach == (pings + 1) * Beat
      <3>1. reach \in Int /\ nextBeat + MaxDelay - lastRecv <= reach
        BY <1>0, <1>1, <1>6 DEF BeatClose
      <3> HIDE DEF reach
      <3>2. NoDataTimeout < reach
        BY <1>1, <1>6, <3>1 DEF BeatClose, TimedOut
      <3> QED BY <3>2 DEF reach
    <2>2. NoDataTimeout \div Beat <= pings
      <3> DEFINE q == NoDataTimeout \div Beat
      <3>1. q \in Nat /\ q * Beat <= NoDataTimeout
        BY <1>0
      <3> HIDE DEF q
      <3>2. ASSUME q >= pings + 1 PROVE FALSE
        <4>1. q * Beat >= (pings + 1) * Beat
          BY <1>0, <1>1, <3>1, <3>2
        <4> QED BY <1>0, <1>1, <2>1, <3>1, <4>1
      <3>3. q <= pings
        BY <1>1, <3>1, <3>2
      <3> QED BY <3>3 DEF q
    <2> QED BY <1>0, <1>1, <1>6, <2>2 DEF BeatClose
  <1>7. CASE Halt \/ UNCHANGED beatVars
    BY <1>7 DEF Halt, beatVars
  <1> QED BY <1>2, <1>3, <1>4, <1>5, <1>6, <1>7 DEF BeatNext

(* For every interval and time-out that Config accepts and every delay of the
   wakeups, a connection is closed only after that many pings without data. *)
THEOREM CloseFollowsPings == BeatSpec => []PingsPrecedeClose
  <1>1. BeatInit => PingInv
    BY IntervalAssumption DEF BeatInit, PingInv, PingsPrecedeClose, Beat
  <1>2. PingInv => PingsPrecedeClose
    BY DEF PingInv
  <1> QED BY <1>1, <1>2, PingStep, BeatInvariance, PTL DEF BeatSpec
===============================================================================
