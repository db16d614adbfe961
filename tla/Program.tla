-------------------------------- MODULE Program --------------------------------
(***************************************************************************)
(* The command line program (src/src/main.cpp): the steps of main() and    *)
(* run_live(), the signal handler, the reporter thread and, reduced to     *)
(* what they touch, the read thread and the connection manager.  A message *)
(* adds one sample to one histogram, which stands for the six the reporter *)
(* takes one after the other; its callback pushes it into a cache and      *)
(* offers it to a writer.  As in Feed, mgr.stop() joins the read thread    *)
(* but may miss a client that is being connected, which lives on until mgr *)
(* is destroyed; and neither mgr.stop() nor its repetition in the          *)
(* destructor is sure to return (Connection).                              *)
(***************************************************************************)
EXTENDS LatencyHistogram, RingBuffer, Config, CommandLine

CONSTANTS Latencies,   \* the latencies a sample may have
          kLatencyReportIntervalSeconds,
          MaxMsgs,     \* bound: messages in a behaviour
          MaxWords     \* bound: command line arguments

ASSUME ProgramConstants ==
    /\ Latencies \subseteq 0..ULLONG_MAX
    /\ kLatencyReportIntervalSeconds \in Nat \ {0}
    /\ MaxMsgs \in Nat /\ MaxWords \in Nat

VARIABLES phase,     \* where main() is
          exit,      \* "none", the exit code or "killed"
          argv,      \* the arguments, dropped once they are parsed
          cli,       \* what parse_cli_options made of them
          source,    \* history: the file and environment cfg was loaded from
          cfg,       \* the configuration; with cli dropped when live starts
          handlers,  \* the signal handlers are installed
          running,   \* g_running
          alive,     \* the objects of run_live that are constructed
          link,      \* the manager's client: "down", "up" or "lingering"
          started,   \* mgr is started and not stopped
          reader,    \* the read thread: "idle", "callback" or "sample"
          msgs,      \* metrics.msgs_recv
          cache,     \* trade_cache
          rep,       \* where the reporter thread is
          ticks      \* seconds_tick modulo the report interval

mainVars == <<phase, exit, argv, cli, source, cfg, handlers, alive>>
linkVars == <<link, started, reader, msgs, cache>>
repVars == <<rep, ticks>>
vars == <<mainVars, running, linkVars, repVars, histVars>>

NoSource == [file |-> [state |-> "missing", json |-> EmptyObject], env |-> ""]
NoCache == NewRing(1)

Init ==
    /\ phase = "args" /\ exit = "none"
    /\ argv \in SeqOf(Words, MaxWords)
    /\ cli = ScanStart /\ source = NoSource /\ cfg = Defaults
    /\ handlers = FALSE /\ running = TRUE /\ alive = {}
    /\ link = "down" /\ started = FALSE /\ reader = "idle" /\ msgs = 0 /\ cache = NoCache
    /\ rep = "none" /\ ticks = 0
    /\ HistInit

Goto(p) == phase' = p /\ UNCHANGED exit
Exit(code) == phase' = "exited" /\ exit' = code

-------------------------------------------------------------------------------
(* main() up to the choice of the mode. *)

ParseArgs ==
    /\ phase = "args"
    /\ cli' = Startup(argv)
    /\ \/ cli'.status = "refused" /\ Exit("1")
       \/ cli'.status = "help" /\ Exit("0")
       \/ cli'.status = "run" /\ Goto("parsed")
    /\ UNCHANGED <<argv, source, cfg, handlers, alive, running, linkVars, repVars, histVars>>

InstallHandlers ==
    /\ phase = "parsed"
    /\ handlers' = (cli.options.mode = "live")
    /\ argv' = <<>>
    /\ Goto("config")
    /\ UNCHANGED <<cli, source, cfg, alive, running, linkVars, repVars, histVars>>

LoadConfig ==
    /\ phase = "config"
    /\ \E file \in Files, env \in Environments :
          \/ /\ Load(file, env) = {}
             /\ Exit("1")
             /\ UNCHANGED <<source, cfg>>
          \/ /\ cfg' \in Load(file, env)
             /\ source' = [file |-> file, env |-> env]
             /\ Goto("loaded")
    /\ UNCHANGED <<argv, cli, handlers, alive, running, linkVars, repVars, histVars>>

(* The two offline modes; what they do is in Replay and in Benchmark. *)
RunOffline ==
    /\ phase = "loaded" /\ cli.options.mode \in {"replay", "bench"}
    /\ Goto("offline")
    /\ cfg' = Defaults /\ source' = NoSource
    /\ UNCHANGED <<argv, cli, handlers, alive, running, linkVars, repVars, histVars>>

OfflineEnds ==
    /\ phase = "offline"
    /\ \E ok \in BOOLEAN : Exit(IF ok THEN "0" ELSE "1")
    /\ UNCHANGED <<argv, cli, source, cfg, handlers, alive, running, linkVars, repVars,
                   histVars>>

-------------------------------------------------------------------------------
(* run_live() *)

CheckSources ==
    /\ phase = "loaded" /\ cli.options.mode = "live"
    /\ IF cfg.data_sources = <<>> \/ cfg.data_sources[1] = ""
       THEN Exit("1") /\ UNCHANGED alive
       ELSE Goto("metrics") /\ alive' = {"metrics"}
    /\ cfg' = [Defaults EXCEPT !.ring_buffer_size = cfg.ring_buffer_size]
    /\ cli' = ScanStart /\ source' = NoSource
    /\ UNCHANGED <<argv, handlers, running, linkVars, repVars, histVars>>

(* open() fails: run_live returns and what it has built is destroyed. *)
OpenWriter(from, to, writer) ==
    /\ phase = from
    /\ \/ Goto(to) /\ alive' = alive \cup {writer}
       \/ Exit("1") /\ alive' = {}
    /\ UNCHANGED <<argv, cli, source, cfg, handlers, running, linkVars, repVars, histVars>>

OpenTradeWriter == OpenWriter("metrics", "tradesOpen", "tradeWriter")
OpenOrderbookWriter == OpenWriter("tradesOpen", "writersOpen", "orderbookWriter")

(* The caches, the manager, and the print counters its callbacks capture. *)
BuildManager ==
    /\ phase = "writersOpen"
    /\ ValidCapacity(cfg.ring_buffer_size)
    /\ cache' = NewRing(cfg.ring_buffer_size)
    /\ cfg' = Defaults
    /\ alive' = alive \cup {"caches", "mgr", "counters"}
    /\ Goto("built")
    /\ UNCHANGED <<argv, cli, source, handlers, running, link, started, reader, msgs, repVars, histVars>>

StartManager ==
    /\ phase = "built"
    /\ started' = TRUE
    /\ Goto("started")
    /\ UNCHANGED <<argv, cli, source, cfg, handlers, alive, running, link, reader, msgs, cache,
                   repVars, histVars>>

StartReporter ==
    /\ phase = "started"
    /\ rep' = "sleep"
    /\ Goto("live")
    /\ UNCHANGED <<argv, cli, source, cfg, handlers, alive, running, linkVars, ticks, histVars>>

LoopEnds ==
    /\ phase = "live" /\ ~running
    /\ Goto("stopping")
    /\ UNCHANGED <<argv, cli, source, cfg, handlers, alive, running, linkVars, repVars,
                   histVars>>

ReaderFree == reader = "idle" /\ rec.at = "idle"

(* mgr.stop() returns. *)
StopManager ==
    /\ phase = "stopping"
    /\ ReaderFree
    /\ started' = FALSE
    /\ \/ link' = "down"
       \/ link = "down" /\ link' = "lingering"
    /\ Goto("joining")
    /\ UNCHANGED <<argv, cli, source, cfg, handlers, alive, running, reader, msgs, cache, repVars, histVars>>

JoinReporter ==
    /\ phase = "joining" /\ rep = "done"
    /\ Goto("unwinding")
    /\ UNCHANGED <<argv, cli, source, cfg, handlers, alive, running, linkVars, repVars,
                   histVars>>

(* The locals go in the reverse order of their declarations.  Mutation: the
   manager is declared first. *)
DestructionManagerLast ==
    <<"counters", "caches", "orderbookWriter", "tradeWriter", "metrics", "mgr">>
Destruction == <<"counters", "mgr", "caches", "orderbookWriter", "tradeWriter", "metrics">>

(* The destructor of mgr joins the read thread of any client left. *)
DestroyNext ==
    /\ phase = "unwinding"
    /\ \E k \in DOMAIN Destruction :
          LET next == Destruction[k] IN
          /\ next \in alive /\ \A j \in 1..(k - 1) : Destruction[j] \notin alive
          /\ next = "mgr" => ReaderFree
          /\ link' = IF next = "mgr" THEN "down" ELSE link
          /\ alive' = alive \ {next}
    /\ Goto(phase)
    /\ UNCHANGED <<argv, cli, source, cfg, handlers, running, started, reader, msgs, cache,
                   repVars, histVars>>

ReturnFromMain ==
    /\ phase = "unwinding" /\ alive = {}
    /\ Exit("0")
    /\ UNCHANGED <<argv, cli, source, cfg, handlers, alive, running, linkVars, repVars,
                   histVars>>

-------------------------------------------------------------------------------
(* SIGINT or SIGTERM: the handler only clears g_running; without a handler the
   signal ends the process. *)
Signal ==
    /\ phase # "exited" /\ running
    /\ IF handlers
       THEN running' = FALSE /\ UNCHANGED <<phase, exit>>
       ELSE Exit("killed") /\ UNCHANGED running
    /\ UNCHANGED <<argv, cli, source, cfg, handlers, alive, linkVars, repVars, histVars>>

(* The manager's threads connect and lose clients. *)
LinkUp ==
    /\ started /\ link = "down"
    /\ link' = "up"
    /\ UNCHANGED <<mainVars, running, started, reader, msgs, cache, repVars, histVars>>

LinkLost ==
    /\ link # "down" /\ ReaderFree
    /\ link' = "down"
    /\ UNCHANGED <<mainVars, running, started, reader, msgs, cache, repVars, histVars>>

(* on_raw_message of a trade: the counter, the callback, the sample. *)
Receive ==
    /\ link # "down" /\ ReaderFree /\ msgs < MaxMsgs
    /\ msgs' = msgs + 1
    /\ reader' = "callback"
    /\ UNCHANGED <<mainVars, running, link, started, cache, repVars, histVars>>

(* The callback: cache.push and writer.write, whose failure is only logged.
   How long write() took is left out. *)
Callback ==
    /\ reader = "callback"
    /\ cache' = Push(cache, msgs)
    /\ reader' = "sample"
    /\ UNCHANGED <<mainVars, running, link, started, msgs, repVars, histVars>>

RecordSample ==
    /\ reader = "sample"
    /\ \E us \in Latencies : RecordBegin([id |-> msgs, us |-> us])
    /\ reader' = "idle"
    /\ UNCHANGED <<mainVars, running, link, started, msgs, cache, repVars>>

RecordStep == /\ RecordBucket \/ RecordLoad \/ RecordCas \/ RecordCasFails
              /\ UNCHANGED <<mainVars, running, linkVars, repVars>>

-------------------------------------------------------------------------------
(* reporter_loop *)

(* The loop looks at the flag before and after its second of sleep.  Mutation:
   it does not look. *)
BreakDueNever == FALSE
BreakDue == ~running

(* A second has passed: the rates are printed, and when a window is full the
   histogram is collected before the loop goes on. *)
ReporterTick ==
    /\ rep = "sleep" /\ ~BreakDue
    /\ ticks' = (ticks + 1) % kLatencyReportIntervalSeconds
    /\ IF ticks' = 0 THEN rep' = "collect" /\ SnapshotBegin
                     ELSE UNCHANGED <<rep, histVars>>
    /\ UNCHANGED <<mainVars, running, linkVars>>

(* After the loop what is left of a window is collected.  Mutation: it is not. *)
FinalFlushSkipped == rep' = "done" /\ UNCHANGED histVars
FinalFlush == rep' = "final" /\ SnapshotBegin

ReporterBreak ==
    /\ rep = "sleep" /\ BreakDue
    /\ FinalFlush
    /\ UNCHANGED <<mainVars, running, linkVars, ticks>>

CollectStep ==
    /\ rep \in {"collect", "final"}
    /\ \/ SnapshotBucket /\ UNCHANGED rep
       \/ SnapshotMax /\ rep' = IF rep = "final" THEN "done" ELSE "sleep"
    /\ UNCHANGED <<mainVars, running, linkVars, ticks>>

-------------------------------------------------------------------------------
MainStep ==
    \/ ParseArgs \/ InstallHandlers \/ LoadConfig \/ RunOffline \/ OfflineEnds
    \/ CheckSources \/ OpenTradeWriter \/ OpenOrderbookWriter \/ BuildManager
    \/ StartManager \/ StartReporter \/ LoopEnds \/ StopManager \/ JoinReporter
    \/ DestroyNext \/ ReturnFromMain

ReaderStep == Callback \/ RecordSample \/ RecordStep
ReporterStep == ReporterTick \/ ReporterBreak \/ CollectStep

Exited == phase = "exited" /\ UNCHANGED vars

Next == \/ MainStep \/ Signal \/ LinkUp \/ LinkLost \/ Receive
        \/ ReaderStep \/ ReporterStep \/ Exited

(* main() is in mgr.stop(), or in the destructor of mgr with a client to
   disconnect: calls that Connection shows waiting without end. *)
AwaitsManager ==
    \/ phase = "stopping"
    \/ /\ phase = "unwinding" /\ link = "lingering"
       /\ "counters" \notin alive /\ "mgr" \in alive

(* The threads run, except where main() waits for the manager; the network owes
   nothing. *)
Spec == Init /\ [][Next]_vars
        /\ WF_vars(~AwaitsManager /\ MainStep)
        /\ WF_vars(ReaderStep) /\ WF_vars(ReporterStep)

-------------------------------------------------------------------------------
ReporterActive == rep \notin {"none", "done"}

(* However the program ends, whoever runs meets the objects it uses: the callback
   of a client, one that outlived mgr.stop() too, its caches and writers, a
   handler the metrics, the reporter the metrics and writers.  The print counters
   are there for every callback but one of a client that outlived mgr.stop(), which
   may run after their end, as they are declared after mgr (against
   src/src/main.cpp:271-273: captured references are always valid). *)
CallbacksFindLiveObjects ==
    /\ reader = "callback" => {"caches", "tradeWriter", "orderbookWriter"} \subseteq alive
    /\ reader = "callback" /\ link # "lingering" => "counters" \in alive
    /\ ~ReaderFree => {"mgr", "metrics"} \subseteq alive
    /\ ReporterActive => {"metrics", "tradeWriter", "orderbookWriter"} \subseteq alive

(* record() and snapshot_and_reset() neither lose nor repeat a sample: each is
   in exactly one of the buckets, the snapshot under way and the reports. *)
SamplesConserved ==
    /\ Counted \cap Taken = {} /\ Counted \cap reported = {} /\ Taken \cap reported = {}
    /\ {s.id : s \in Counted \cup Taken \cup reported}
          = 1..(IF reader # "idle" \/ rec.at = "bucket" THEN msgs - 1 ELSE msgs)

(* No maximum is lost between windows: every sample whose record() is over is
   bounded by max_us_ or by a maximum that was reported. *)
MaxNotLost ==
    \A s \in (Counted \cup Taken \cup reported) \ {rec.sample} :
        s.us <= max_us \/ s.us <= topMax

(* A reported percentile is above the sample of that rank, and by no more than
   a factor of two. *)
PercentilesBracket ==
    \A r \in reports : r.samples # {} => \A p \in DOMAIN Percentiles :
        \E s \in r.samples :
            /\ Percentiles[p][2] * Cardinality({t \in r.samples : t.us < s.us})
                  < Percentiles[p][1] * Cardinality(r.samples)
            /\ Percentiles[p][2] * Cardinality({t \in r.samples : t.us <= s.us})
                  >= Percentiles[p][1] * Cardinality(r.samples)
            /\ s.us <= r.est[p]
            /\ r.est[p] <= 2 * (IF s.us = 0 THEN 1 ELSE s.us)

(* The cache holds the newest messages in the order of their callbacks. *)
CacheIsNewest ==
    "caches" \in alive =>
        LET pushed == IF reader = "callback" THEN msgs - 1 ELSE msgs
        IN  \A n \in 0..(MaxMsgs + 1) :
              LET take == CHOOSE k \in {n, pushed, cache.cap} :
                             \A m \in {n, pushed, cache.cap} : k <= m
              IN  Snapshot(cache, n) = [i \in 1..take |-> pushed - take + i]

(* The arguments are refused, answered with help or run exactly as the usage
   text reads them, with the mode they name and the value of every flag that has
   one: the number of messages, which may be left out, the gap and the CPU. *)
CommandLineMeaning ==
    argv # <<>> /\ (phase = "parsed" \/ exit \in {"0", "1"}) =>
        LET n == Len(argv)
        IN  /\ cli.status = IF AsksHelp(argv, n) THEN "help"
                            ELSE IF Runs(argv, n) THEN "run" ELSE "refused"
            /\ cli.status = "run" =>
                  /\ cli.options.mode = Mode(argv, n)
                  /\ cli.options.write = HasFlag(argv, n, "--bench-write")
                  /\ MessagesGiven(argv, n, cli.options.messages)
                  /\ LastGiven(argv, n, "--bench-gap-us", 0, cli.options.gap)
                  /\ LastGiven(argv, n, "--pin-cpu", -1, cli.options.pin)

(* Whatever the file says, a loaded configuration suits the components that use
   it: the ring size is the one written, in range, the ping comes before the
   time-out, and a proxy named in the file, even as none, beats the
   environment's. *)
LoadedConfigIsUsable ==
    phase = "loaded" =>
        LET j == source.file.json IN
        /\ cfg.ring_buffer_size \in 1..kMaxRingBufferSize
        /\ j.ring_buffer_size.type # "absent" => cfg.ring_buffer_size = j.ring_buffer_size.num
        /\ 0 < cfg.ping_interval_ms /\ cfg.ping_interval_ms < cfg.no_data_timeout_ms
        /\ cfg.reconnect_interval_ms > 0
        /\ j.proxy_url.type = "string" => cfg.proxy_url = j.proxy_url.text

(* A signal ends the program once its handler is installed, whatever the threads
   are at, unless a call of mgr.stop() from run_live or from the destructor of
   mgr does not return; nothing else keeps main() from its end. *)
SignalStopsProgram == ~running ~> phase = "exited" \/ []AwaitsManager

(* A sample counted before the signal is in a report sooner or later: without a
   signal the next window has it, with one the collection after the loop. *)
SamplesAreReported ==
    \A n \in 1..MaxMsgs : (running /\ \E s \in Counted : s.id = n)
                              ~> (\E s \in reported : s.id = n)
===============================================================================
