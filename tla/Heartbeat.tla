------------------------------- MODULE Heartbeat -------------------------------
(***************************************************************************)
(* The timing of Impl::heartbeat_loop and read_loop                        *)
(* (src/src/network/websocket_client.cpp) on one connection: the heartbeat *)
(* thread waits for ping_interval_ms_, closes the socket when no data      *)
(* arrived for no_data_timeout_ms_ and otherwise sends a ping.  Only data  *)
(* messages make ws_.read return and refresh last_recv_time_ms_; the peer  *)
(* answers a ping with a pong that Beast consumes inside the read          *)
(* (external).  wait_for never ends early but may end late, by up to       *)
(* MaxDelay, and the next wait starts from there, so the wakeups drift.    *)
(* Time is counted in ticks.                                               *)
(***************************************************************************)
EXTENDS Integers

CONSTANTS PingInterval, NoDataTimeout,
          MaxDelay,                     \* how late the heartbeat thread may wake
          MaxTime                       \* bound: ticks in a behaviour

(* Config::validate (src/src/config/config.h) *)
ASSUME IntervalAssumption ==
    /\ PingInterval \in Nat \ {0} /\ NoDataTimeout \in Nat
    /\ PingInterval < NoDataTimeout
    /\ MaxDelay \in Nat /\ MaxTime \in Nat

VARIABLES now,        \* steady_clock
          lastRecv,   \* last_recv_time_ms_
          nextBeat,   \* the instant until which wait_for waits
          link,       \* the socket, "up" or "closed"
          peer,       \* "alive": it sends data when it has some and answers pings
          lastData,   \* history: when the peer's last data message arrived
          pings       \* history: pings sent since the last data message

beatVars == <<now, lastRecv, nextBeat, link, peer, lastData, pings>>

BeatInit == /\ now = 0 /\ lastRecv = 0 /\ nextBeat = PingInterval
            /\ link = "up" /\ peer = "alive" /\ lastData = 0 /\ pings = 0

(* Time passes, but no further than the latest wakeup of the heartbeat thread. *)
Tick == /\ now < MaxTime
        /\ link = "up" => now < nextBeat + MaxDelay
        /\ now' = now + 1
        /\ UNCHANGED <<lastRecv, nextBeat, link, peer, lastData, pings>>

(* read_loop: a data message. *)
Receive == /\ link = "up" /\ peer = "alive"
           /\ lastRecv' = now /\ lastData' = now
           /\ pings' = 0
           /\ UNCHANGED <<now, nextBeat, link, peer>>

PeerFallsSilent == /\ peer = "alive"
                   /\ peer' = "silent"
                   /\ UNCHANGED <<now, lastRecv, nextBeat, link, lastData, pings>>

(* Mutation: the time-out compares with the ping interval. *)
TimedOutAfterPing == now - lastRecv > PingInterval
TimedOut == now - lastRecv > NoDataTimeout

(* Mutation: sending a ping counts as a sign of life. *)
RecvTimeAfterPingNow == now
RecvTimeAfterPing == lastRecv

BeatPing == /\ link = "up" /\ now >= nextBeat /\ ~TimedOut
            /\ nextBeat' = now + PingInterval
            /\ lastRecv' = RecvTimeAfterPing
            /\ pings' = pings + 1
            /\ UNCHANGED <<now, link, peer, lastData>>

BeatClose == /\ link = "up" /\ now >= nextBeat /\ TimedOut
             /\ link' = "closed"
             /\ UNCHANGED <<now, lastRecv, nextBeat, peer, lastData, pings>>

(* The bound on time is reached. *)
Halt == now = MaxTime /\ UNCHANGED beatVars

BeatNext == Tick \/ Receive \/ PeerFallsSilent \/ BeatPing \/ BeatClose \/ Halt

BeatSpec == BeatInit /\ [][BeatNext]_beatVars

-------------------------------------------------------------------------------
(* A dead connection is noticed: while the socket is open, the last data message
   is no older than the time-out plus one ping interval and one late wakeup. *)
SilentLinkClosedInTime ==
    link = "up" => now - lastData <= NoDataTimeout + PingInterval + MaxDelay

(* A connection is not given up lightly, however the wakeups drift: before the
   socket is closed, as many pings have gone out since the last data as whole
   intervals, each prolonged by the delay, fit into the time-out.  With the
   defaults (1 s, 3 s) and wakeups up to half a second late these are two. *)
PingsPrecedeClose ==
    link = "closed" => pings >= NoDataTimeout \div (PingInterval + MaxDelay)
===============================================================================
