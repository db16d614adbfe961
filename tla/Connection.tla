------------------------------- MODULE Connection ------------------------------
(***************************************************************************)
(* ConnectionManager's lifecycle (src/src/network/connection_manager.cpp)  *)
(* and the WebSocketClient it owns (src/src/network/websocket_client.cpp): *)
(* the reconnect thread, the clock thread, the client's read and heartbeat *)
(* threads, and the owner that calls start() and stop() (again from the    *)
(* destructor).  Message contents are the business of MarketDispatch.      *)
(*                                                                         *)
(* External: the Beast stream.  Its read fails once the peer has reset the *)
(* link or the socket was closed here; once a read has failed or the       *)
(* socket was closed, a write fails too, while a write on a silent link    *)
(* only fills the send buffer.  ws_.close waits for the peer's answer, and *)
(* neither it nor a connection attempt nor an HTTP request has a deadline: *)
(* the time-outs of tcp_stream apply to asynchronous operations only, and  *)
(* all of these are synchronous.                                           *)
(***************************************************************************)
EXTENDS Naturals

CONSTANT MaxReconnect    \* config max_reconnect_attempts; 0 is unlimited
ASSUME MaxReconnectAssumption == MaxReconnect \in Nat

VARIABLES
    pc,              \* program counter of each thread
    running,         \* ConnectionManager::running_
    needReconnect,   \* need_reconnect_
    attempt,         \* local of reconnect_loop, saturating at MaxReconnect
    clientMutex,     \* who holds client_mutex_
    client,          \* client_: connected_, disconnect_notified_, running_, stream
    stops,           \* history: calls of stop() begun, at most 2
    callbacks,       \* history: on_disconnect_ calls of the present client
    hasSymbols       \* config symbols is not empty

vars == <<pc, running, needReconnect, attempt, clientMutex, client, stops, callbacks,
          hasSymbols>>

(* "closer" is whichever thread is inside WebSocketClient::disconnect; it holds
   client_mutex_, so there is at most one. *)
Threads == {"owner", "reconnect", "clock", "reader", "beat", "closer"}

(* No client yet, or one fresh from its constructor. *)
NewClient == [connected |-> FALSE, notified |-> FALSE, running |-> FALSE,
              stream |-> "down"]

Gone == {"none", "exited"}

Goto(t, l) == pc' = [pc EXCEPT ![t] = l]

(* cv_.notify_all() by thread t, which goes on at l: it wakes the reconnect
   thread only if that is asleep.  Only the reconnect thread ever takes
   cv_mutex_. *)
NotifyAll(t, l) == pc' = [pc EXCEPT ![t] = l,
    !["reconnect"] = IF @ = "asleep" THEN "check" ELSE @]

(* lock_guard on client_mutex_ by thread t. *)
LockClient(t) == clientMutex = "free" /\ clientMutex' = t

-------------------------------------------------------------------------------
(* The owner: start(), stop(), and stop() again from the destructor. *)

Start ==
    /\ pc["owner"] = "new"
    /\ running' = TRUE
    /\ \E c \in {"sync", "none"} :    \* with or without a rest_api_url
          pc' = [pc EXCEPT !["owner"] = "started", !["reconnect"] = "top",
                           !["clock"] = c]
    /\ UNCHANGED <<needReconnect, attempt, clientMutex, client, stops, callbacks, hasSymbols>>

(* stop() runs in full however often it is called.  Mutation: it returns at
   once when running_ is already false. *)
StopEntryOnce == IF running THEN "lock" ELSE "stopped"
StopEntry == "lock"

StopBegin ==
    /\ pc["owner"] \in {"started", "stopped"} /\ stops < 2
    /\ running' = FALSE
    /\ stops' = stops + 1
    /\ Goto("owner", StopEntry)
    /\ UNCHANGED <<needReconnect, attempt, clientMutex, client, callbacks, hasSymbols>>

(* client_->disconnect() under client_mutex_: a client whose connected_ is
   false is left alone. *)
StopLock ==
    /\ pc["owner"] = "lock"
    /\ LockClient("owner")
    /\ pc' = [pc EXCEPT !["owner"] = "disconnect",
                        !["closer"] = IF client.connected THEN "close" ELSE "idle"]
    /\ UNCHANGED <<running, needReconnect, attempt, client, stops, callbacks, hasSymbols>>

StopUnlock ==
    /\ pc["owner"] = "disconnect" /\ pc["closer"] = "idle"
    /\ clientMutex' = "free"
    /\ Goto("owner", "wake")
    /\ UNCHANGED <<running, needReconnect, attempt, client, stops, callbacks, hasSymbols>>

StopWake ==
    /\ pc["owner"] = "wake"
    /\ NotifyAll("owner", "join")
    /\ UNCHANGED <<running, needReconnect, attempt, clientMutex, client, stops, callbacks,
                   hasSymbols>>

(* join the reconnect thread, then the clock thread *)
StopJoin ==
    /\ pc["owner"] = "join"
    /\ pc["reconnect"] \in Gone /\ pc["clock"] \in Gone
    /\ Goto("owner", "stopped")
    /\ UNCHANGED <<running, needReconnect, attempt, clientMutex, client, stops, callbacks,
                   hasSymbols>>

OwnerStep == StopLock \/ StopUnlock \/ StopWake \/ StopJoin

-------------------------------------------------------------------------------
(* WebSocketClient::Impl::notify_disconnect by thread t, which goes on at l.
   Mutation: the flag is not a compare-and-swap. *)
CasUnchecked(t, l) == client' = [client EXCEPT !.notified = TRUE] /\ Goto(t, "drop")
Cas(t, l) == IF client.notified
             THEN Goto(t, l) /\ UNCHANGED client
             ELSE client' = [client EXCEPT !.notified = TRUE] /\ Goto(t, "drop")

NotifyDisconnect(t, l) ==
    /\ \/ /\ pc[t] = "cas"
          /\ Cas(t, l)
          /\ UNCHANGED <<needReconnect, callbacks>>
       \/ /\ pc[t] = "drop"
          /\ client' = [client EXCEPT !.connected = FALSE]
          /\ Goto(t, "flag")
          /\ UNCHANGED <<needReconnect, callbacks>>
       \/ /\ pc[t] = "flag"
          /\ needReconnect' = TRUE
          /\ callbacks' = callbacks + 1
          /\ Goto(t, "wake")
          /\ UNCHANGED client
       \/ /\ pc[t] = "wake"
          /\ NotifyAll(t, l)
          /\ UNCHANGED <<needReconnect, callbacks, client>>
    /\ UNCHANGED <<running, attempt, clientMutex, stops, hasSymbols>>

(* Impl::disconnect and the connected_ = false after it.  ws_.close sends a
   close frame and waits, with client_mutex_ held, until the peer answers it or
   the link fails; on a silent link it does not return by itself. *)
CloserStep ==
    \/ /\ pc["closer"] = "close"
       /\ client' = [client EXCEPT !.running = FALSE]
       /\ Goto("closer", "shut")
       /\ UNCHANGED <<running, needReconnect, attempt, clientMutex, stops, callbacks, hasSymbols>>
    \/ /\ pc["closer"] = "shut" /\ client.stream # "silent"
       /\ client' = [client EXCEPT !.stream = "dead"]
       /\ Goto("closer", "join")
       /\ UNCHANGED <<running, needReconnect, attempt, clientMutex, stops, callbacks, hasSymbols>>
    \/ /\ pc["closer"] = "join"
       /\ pc["reader"] \in Gone /\ pc["beat"] \in Gone
       /\ Goto("closer", "cas")
       /\ UNCHANGED <<running, needReconnect, attempt, clientMutex, client, stops, callbacks,
                      hasSymbols>>
    \/ NotifyDisconnect("closer", "end")
    \/ /\ pc["closer"] = "end"
       /\ client' = [client EXCEPT !.connected = FALSE]
       /\ Goto("closer", "idle")
       /\ UNCHANGED <<running, needReconnect, attempt, clientMutex, stops, callbacks, hasSymbols>>

(* The operating system gives up the unanswered close frame, or the peer comes
   back and answers it. *)
CloseGivesUp ==
    /\ pc["closer"] = "shut" /\ client.stream = "silent"
    /\ client' = [client EXCEPT !.stream = "dead"]
    /\ Goto("closer", "join")
    /\ UNCHANGED <<running, needReconnect, attempt, clientMutex, stops, callbacks, hasSymbols>>

-------------------------------------------------------------------------------
(* The client's threads *)

(* read_loop: ws_.read fails, or running_ is seen false after a message. *)
ReadEnds ==
    /\ pc["reader"] = "reading"
    /\ \/ /\ client.stream \in {"reset", "dead"}
          /\ client' = [client EXCEPT !.stream = "dead"]
       \/ /\ client.stream = "up" /\ ~client.running
          /\ UNCHANGED client
    /\ Goto("reader", "ending")
    /\ UNCHANGED <<running, needReconnect, attempt, clientMutex, stops, callbacks, hasSymbols>>

ReadEnding ==
    /\ pc["reader"] = "ending"
    /\ client' = [client EXCEPT !.running = FALSE]
    /\ Goto("reader", "cas")
    /\ UNCHANGED <<running, needReconnect, attempt, clientMutex, stops, callbacks, hasSymbols>>

ReaderStep == ReadEnds \/ ReadEnding \/ NotifyDisconnect("reader", "exited")

(* heartbeat_loop: running_ is seen false. *)
BeatExit ==
    /\ pc["beat"] = "waiting" /\ ~client.running
    /\ Goto("beat", "exited")
    /\ UNCHANGED <<running, needReconnect, attempt, clientMutex, client, stops, callbacks,
                   hasSymbols>>

(* heartbeat_loop: nothing was received for no_data_timeout_ms_.
   Mutation: the socket is left open. *)
GiveUpLinkOpen == client' = [client EXCEPT !.running = FALSE]
GiveUpLink == client' = [client EXCEPT !.running = FALSE, !.stream = "dead"]

BeatTimeout ==
    /\ pc["beat"] = "waiting" /\ client.running
    /\ GiveUpLink
    /\ Goto("beat", "exited")
    /\ UNCHANGED <<running, needReconnect, attempt, clientMutex, stops, callbacks, hasSymbols>>

(* The network: the peer resets the link, or it goes silent. *)
LoseLink(how) ==
    /\ client.stream = "up"
    /\ client' = [client EXCEPT !.stream = how]
    /\ UNCHANGED <<pc, running, needReconnect, attempt, clientMutex, stops, callbacks, hasSymbols>>

-------------------------------------------------------------------------------
(* The loop condition.  Mutation: an endless loop. *)
ClockNextForever == "sync"
ClockNext == IF running THEN "sync" ELSE "exited"

(* clock_sync_loop: http_get returns and the sample is stored. *)
ClockSample ==
    /\ pc["clock"] = "sync"
    /\ Goto("clock", "waiting")
    /\ UNCHANGED <<running, needReconnect, attempt, clientMutex, client, stops, callbacks,
                   hasSymbols>>

(* clock_sync_loop: the timed wait ends, or stop() cuts it short. *)
ClockWakes ==
    /\ pc["clock"] = "waiting"
    /\ Goto("clock", ClockNext)
    /\ UNCHANGED <<running, needReconnect, attempt, clientMutex, client, stops, callbacks,
                   hasSymbols>>

-------------------------------------------------------------------------------
(* reconnect_loop *)

RecStays == UNCHANGED <<running, stops, hasSymbols>>

RecTop ==
    /\ pc["reconnect"] = "top"
    /\ Goto("reconnect", IF running THEN "replace" ELSE "exited")
    /\ UNCHANGED <<needReconnect, attempt, clientMutex, client, callbacks>> /\ RecStays

(* client_ = make_unique: the old client's destructor disconnects it, and
   joins its threads. *)
RecLock ==
    /\ pc["reconnect"] = "replace"
    /\ LockClient("reconnect")
    /\ pc' = [pc EXCEPT !["reconnect"] = "destroy",
                        !["closer"] = IF client.connected THEN "close" ELSE "idle"]
    /\ UNCHANGED <<needReconnect, attempt, client, callbacks>> /\ RecStays

RecDestroy ==
    /\ pc["reconnect"] = "destroy" /\ pc["closer"] = "idle"
    /\ client' = [client EXCEPT !.running = FALSE]
    /\ Goto("reconnect", "new")
    /\ UNCHANGED <<needReconnect, attempt, clientMutex, callbacks>> /\ RecStays

RecNew ==
    /\ pc["reconnect"] = "new"
    /\ pc["reader"] \in Gone /\ pc["beat"] \in Gone
    /\ client' = NewClient
    /\ clientMutex' = "free"
    /\ callbacks' = 0
    /\ pc' = [pc EXCEPT !["reconnect"] = IF hasSymbols THEN "connect" ELSE "exited",
                        !["reader"] = "none", !["beat"] = "none"]
    /\ UNCHANGED <<needReconnect, attempt>> /\ RecStays

RecConnectFails ==
    /\ pc["reconnect"] = "connect"
    /\ Goto("reconnect", "decide")
    /\ UNCHANGED <<needReconnect, attempt, clientMutex, client, callbacks>> /\ RecStays

(* Impl::connect up to the release of lifecycle_mutex_. *)
RecConnected ==
    /\ pc["reconnect"] = "connect"
    /\ client' = [client EXCEPT !.running = TRUE, !.stream = "up"]
    /\ pc' = [pc EXCEPT !["reconnect"] = "inner", !["reader"] = "reading",
                        !["beat"] = "waiting"]
    /\ UNCHANGED <<needReconnect, attempt, clientMutex, callbacks>> /\ RecStays

(* connected_ = true, in Impl::connect and once more in WebSocketClient. *)
RecMarkConnected ==
    /\ pc["reconnect"] \in {"inner", "outer"}
    /\ client' = [client EXCEPT !.connected = TRUE]
    /\ Goto("reconnect", IF pc["reconnect"] = "inner" THEN "outer" ELSE "reset")
    /\ UNCHANGED <<needReconnect, attempt, clientMutex, callbacks>> /\ RecStays

RecReset ==
    /\ pc["reconnect"] = "reset"
    /\ attempt' = 0
    /\ needReconnect' = FALSE
    /\ Goto("reconnect", "send")
    /\ UNCHANGED <<clientMutex, client, callbacks>> /\ RecStays

(* connect() returns, in one way or the other. *)
Connecting == RecConnectFails \/ RecConnected

(* send: the subscription.  It may go out on a link that is already lost. *)
CanSend == client.connected /\ client.stream # "dead"

RecSend ==
    /\ pc["reconnect"] = "send" /\ CanSend
    /\ Goto("reconnect", "check")
    /\ UNCHANGED <<needReconnect, attempt, clientMutex, client, callbacks>> /\ RecStays

(* Mutation: a failed subscription does not ask for a reconnect. *)
SendFailedWaits == UNCHANGED needReconnect /\ Goto("reconnect", "check")
SendFailed == needReconnect' = TRUE /\ Goto("reconnect", "decide")

RecSendFails ==
    /\ pc["reconnect"] = "send" /\ (~client.connected \/ client.stream \in {"reset", "dead"})
    /\ SendFailed
    /\ UNCHANGED <<attempt, clientMutex, client, callbacks>> /\ RecStays

(* cv_.wait: the predicate is read, then the thread falls asleep. *)
RecCheck ==
    /\ pc["reconnect"] = "check"
    /\ Goto("reconnect", IF needReconnect \/ ~running THEN "decide" ELSE "dozing")
    /\ UNCHANGED <<needReconnect, attempt, clientMutex, client, callbacks>> /\ RecStays

RecSleep ==
    /\ pc["reconnect"] = "dozing"
    /\ Goto("reconnect", "asleep")
    /\ UNCHANGED <<needReconnect, attempt, clientMutex, client, callbacks>> /\ RecStays

SpuriousWakeup ==
    /\ pc["reconnect"] = "asleep"
    /\ Goto("reconnect", "check")
    /\ UNCHANGED <<needReconnect, attempt, clientMutex, client, callbacks>> /\ RecStays

(* Stopped, out of attempts, or on to the back-off. *)
RecDecide ==
    /\ pc["reconnect"] = "decide"
    /\ Goto("reconnect",
            IF ~running \/ (MaxReconnect > 0 /\ attempt >= MaxReconnect)
            THEN "exited" ELSE "backoff")
    /\ UNCHANGED <<needReconnect, attempt, clientMutex, client, callbacks>> /\ RecStays

RecBackoff ==
    /\ pc["reconnect"] = "backoff"
    /\ attempt' = IF attempt < MaxReconnect THEN attempt + 1 ELSE attempt
    /\ Goto("reconnect", "top")
    /\ UNCHANGED <<needReconnect, clientMutex, client, callbacks>> /\ RecStays

ReconnectStep ==
    \/ RecTop \/ RecLock \/ RecDestroy \/ RecNew \/ RecMarkConnected \/ RecReset
    \/ RecSend \/ RecSendFails \/ RecCheck \/ RecSleep \/ RecDecide \/ RecBackoff

-------------------------------------------------------------------------------
Init ==
    /\ pc = [t \in Threads |-> CASE t = "owner" -> "new" [] t = "closer" -> "idle"
                                 [] OTHER -> "none"]
    /\ running = FALSE /\ needReconnect = FALSE /\ attempt = 0
    /\ clientMutex = "free" /\ client = NewClient
    /\ stops = 0 /\ callbacks = 0
    /\ hasSymbols \in BOOLEAN

Destroyed == stops = 2 /\ pc["owner"] = "stopped" /\ UNCHANGED vars

Next ==
    \/ Start \/ StopBegin \/ OwnerStep \/ CloserStep \/ CloseGivesUp
    \/ ReconnectStep \/ Connecting \/ SpuriousWakeup
    \/ ReaderStep \/ BeatExit \/ BeatTimeout \/ ClockSample \/ ClockWakes
    \/ \E how \in {"reset", "silent"} : LoseLink(how)
    \/ Destroyed

(* Every thread that can run does, timed waits end, and a silent link times out
   as long as its heartbeat thread runs.  Nothing forces stop(), a loss of the
   link, a time-out of a live link or a spurious wakeup; nor does anything make a
   call come back that waits for an answer from the network. *)
Fairness ==
    /\ WF_vars(OwnerStep) /\ WF_vars(CloserStep) /\ WF_vars(ReconnectStep)
    /\ WF_vars(ReaderStep) /\ WF_vars(BeatExit) /\ WF_vars(ClockWakes)
    /\ WF_vars(client.stream = "silent" /\ BeatTimeout)

(* A network on which every call is answered or fails in the end. *)
NetworkAnswers ==
    WF_vars(CloseGivesUp) /\ WF_vars(Connecting) /\ WF_vars(ClockSample)

Spec == Init /\ [][Next]_vars
FairSpec == Spec /\ Fairness
AnsweringSpec == FairSpec /\ NetworkAnswers

-------------------------------------------------------------------------------
(* on_disconnect_ runs at most once for a client, although its read thread and a
   disconnect() from the owner or the destructor may all report the end. *)
DisconnectOnce == callbacks <= 1

(* The loss of a link is not forgotten: although reconnect_loop clears
   need_reconnect_ after the client's threads are running, it never waits for a
   disconnect that has been reported already. *)
LossNotForgotten ==
    pc["reconnect"] \in {"dozing", "asleep"} /\ pc["reader"] = "exited" =>
        needReconnect \/ ~running

(* After the destructor's stop() no connection is left: the reconnect thread is
   gone, the socket is closed, and a read thread that is still there is on its
   way out and takes no further message. *)
DestructionEndsDelivery ==
    stops = 2 /\ pc["owner"] = "stopped" =>
        /\ pc["reconnect"] \in Gone
        /\ pc["reader"] # "reading" \/ client.stream = "dead"

(* stop() returns, or one of four waits has no end: for a reconnect thread that
   slept through both notifications, for a connection attempt or a clock request
   that is not answered, or for the peer of a silent link to answer the close
   frame.  No lock order, join or notification besides makes it hang. *)
StopHangsInNamedWaits ==
    pc["owner"] = "lock" ~>
        \/ pc["owner"] = "stopped"
        \/ [](pc["owner"] = "join" /\ pc["reconnect"] = "asleep")
        \/ [](pc["owner"] = "join" /\ pc["reconnect"] = "connect")
        \/ [](pc["owner"] = "join" /\ pc["clock"] = "sync")
        \/ [](pc["closer"] = "shut" /\ client.stream = "silent")

(* A link that was reset or fell silent is given up and a new connection is
   tried, unless the loop has ended, the reconnect thread sleeps through the
   notification, or whoever closes the silent link waits for its peer. *)
LostLinkIsReplaced ==
    client.stream \in {"reset", "silent"} ~>
        \/ pc["reconnect"] \in {"connect", "exited"}
        \/ [](pc["reconnect"] = "asleep" /\ needReconnect)
        \/ [](pc["closer"] = "shut" /\ client.stream = "silent")

(* What src/src/network/connection_manager.cpp:121-122 says of stop(): the
   disconnect wakes reconnect_loop, so that join does not hang.  Asked of a
   network that answers, where only the notification itself can fail. *)
StopReturns == pc["owner"] = "lock" ~> pc["owner"] = "stopped"

(* What src/include/mds/feed.h:90 says of stop(): it stops receiving and waits
   for the internal threads to exit. *)
StopEndsThreads == pc["owner"] = "stopped" => \A t \in {"reader", "beat"} : pc[t] \in Gone
===============================================================================
