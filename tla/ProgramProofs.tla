----------------------------- MODULE ProgramProofs -----------------------------
(* Proofs about Program: the shutdown order, the latency histogram under its two
   threads and its percentiles, the arguments, the loaded configuration and the ring
   buffer, for any sizes. *)
EXTENDS Program, FiniteSetTheorems, SequenceTheorems, TLAPS

-------------------------------------------------------------------------------
(* main() and the threads *)

All == {"metrics", "tradeWriter", "orderbookWriter", "caches", "mgr", "counters"}
Setup == {"args", "parsed", "config", "loaded", "offline"}
Opening == {"metrics", "tradesOpen", "writersOpen"}
Running == {"started", "live", "stopping"}

ControlTypes ==
    /\ phase \in Setup \cup Opening \cup Running \cup {"built", "joining", "unwinding", "exited"}
    /\ link \in {"down", "up", "lingering"} /\ reader \in {"idle", "callback", "sample"}
    /\ rep \in {"none", "sleep", "collect", "final", "done"}

(* What is constructed depends on how far run_live() has come; only the print
   counters go before the manager. *)
AliveInv ==
    /\ alive \subseteq All
    /\ phase \in Setup \cup {"exited"} => alive = {}
    /\ phase = "metrics" => alive = {"metrics"}
    /\ phase = "tradesOpen" => alive = {"metrics", "tradeWriter"}
    /\ phase = "writersOpen" => alive = {"metrics", "tradeWriter", "orderbookWriter"}
    /\ phase \in Running \cup {"built", "joining"} => alive = All
    /\ phase = "unwinding" /\ "mgr" \in alive => All \ {"counters"} \subseteq alive

(* Live mode has its signal handlers before anything is constructed, so that a
   signal never ends the process between a constructor and its destructor. *)
HandlerInv ==
    /\ alive # {} => handlers = TRUE
    /\ phase \in {"config", "loaded"} /\ cli.options.mode = "live" => handlers = TRUE

(* A message is handled only for a client that is there, the manager outlives its
   clients, and only one that outlived mgr.stop() is there after it. *)
LinkInv ==
    /\ started => phase \in Running
    /\ link = "up" => phase \in Running
    /\ link # "down" => "mgr" \in alive
    /\ ~ReaderFree => link # "down"

(* The reporter runs between its start and its join. *)
ReporterInv == ReporterActive => phase \in {"live", "stopping", "joining"}

ControlInv == ControlTypes /\ AliveInv /\ HandlerInv /\ LinkInv /\ ReporterInv

(* Nothing runs before main() has parsed its arguments. *)
LEMMA ControlInit == Init => ControlInv
BY DEF Init, HistInit, ControlInv, ControlTypes, AliveInv, HandlerInv, LinkInv, ReporterInv,
       ReaderFree, ReporterActive, Setup, Opening, Running, All

(* main() up to the choice of the mode constructs nothing. *)
LEMMA SetupKeepsControl ==
    ASSUME ControlInv,
           ParseArgs \/ InstallHandlers \/ LoadConfig \/ RunOffline \/ OfflineEnds
    PROVE  ControlInv'
<1>. USE DEF ControlInv, ControlTypes, AliveInv, HandlerInv, LinkInv, ReporterInv, ReaderFree,
             ReporterActive, Setup, Opening, Running, linkVars, repVars, histVars, Goto, Exit
<1>1. CASE ParseArgs
  <2>1. phase' \in {"exited", "parsed"}  BY <1>1 DEF ParseArgs
  <2>. QED  BY <1>1, <2>1 DEF ParseArgs
<1>2. CASE InstallHandlers  BY <1>2 DEF InstallHandlers
<1>3. CASE LoadConfig  BY <1>3 DEF LoadConfig
<1>4. CASE RunOffline  BY <1>4 DEF RunOffline
<1>5. CASE OfflineEnds  BY <1>5 DEF OfflineEnds
<1>. QED  BY <1>1, <1>2, <1>3, <1>4, <1>5

(* run_live() constructs the metrics, the writers, the caches and the manager, in
   this order, with the handlers installed. *)
LEMMA BuildingKeepsControl ==
    ASSUME ControlInv,
           CheckSources \/ OpenTradeWriter \/ OpenOrderbookWriter \/ BuildManager
    PROVE  ControlInv'
<1>. USE DEF ControlInv, ControlTypes, AliveInv, HandlerInv, LinkInv, ReporterInv, ReaderFree,
             ReporterActive, Setup, Opening, Running, All, linkVars, repVars, histVars, Goto, Exit
<1>1. CASE CheckSources  BY <1>1 DEF CheckSources
<1>2. CASE OpenTradeWriter  BY <1>2 DEF OpenTradeWriter, OpenWriter
<1>3. CASE OpenOrderbookWriter  BY <1>3 DEF OpenOrderbookWriter, OpenWriter
<1>4. CASE BuildManager  BY <1>4 DEF BuildManager
<1>. QED  BY <1>1, <1>2, <1>3, <1>4

(* From mgr.start() to the reporter's join everything stays constructed. *)
LEMMA RunningKeepsControl ==
    ASSUME ControlInv,
           StartManager \/ StartReporter \/ LoopEnds \/ StopManager \/ JoinReporter
    PROVE  ControlInv'
<1>. USE DEF ControlInv, ControlTypes, AliveInv, HandlerInv, LinkInv, ReporterInv, ReaderFree,
             ReporterActive, Setup, Opening, Running, All, linkVars, repVars, histVars, Goto
<1>1. CASE StartManager  BY <1>1 DEF StartManager
<1>2. CASE StartReporter  BY <1>2 DEF StartReporter
<1>3. CASE LoopEnds  BY <1>3 DEF LoopEnds
<1>4. CASE StopManager  BY <1>4 DEF StopManager
<1>5. CASE JoinReporter  BY <1>5 DEF JoinReporter
<1>. QED  BY <1>1, <1>2, <1>3, <1>4, <1>5

(* The manager is destroyed after the print counters and before all else. *)
LEMMA UnwindingKeepsControl ==
    ASSUME ControlInv, DestroyNext \/ ReturnFromMain
    PROVE  ControlInv'
<1>. USE DEF ControlInv, ControlTypes, AliveInv, HandlerInv, LinkInv, ReporterInv, ReaderFree,
             ReporterActive, Setup, Opening, Running, All, linkVars, repVars, histVars, Goto, Exit
<1>1. CASE DestroyNext
  <2>1. PICK k \in DOMAIN Destruction :
          /\ Destruction[k] \in alive /\ \A j \in 1..(k - 1) : Destruction[j] \notin alive
          /\ Destruction[k] = "mgr" => ReaderFree
          /\ link' = IF Destruction[k] = "mgr" THEN "down" ELSE link
          /\ alive' = alive \ {Destruction[k]}
    BY <1>1 DEF DestroyNext
  <2>2. Destruction[k] \in {"counters", "mgr"} \/ "mgr" \notin alive
    <3>1. CASE k \in {1, 2}  BY <3>1 DEF Destruction
    <3>2. CASE k \notin {1, 2}
      <4>1. 2 \in 1..(k - 1) /\ Destruction[2] = "mgr"  BY <3>2 DEF Destruction
      <4>. QED  BY <2>1, <4>1
    <3>. QED  BY <3>1, <3>2
  <2>. DEFINE gone == Destruction[k]
  <2>. HIDE DEF gone
  <2>3. /\ (gone \in {"counters", "mgr"} \/ "mgr" \notin alive) /\ gone \in alive
        /\ gone = "mgr" => ReaderFree
        /\ link' = IF gone = "mgr" THEN "down" ELSE link
        /\ alive' = alive \ {gone}
    BY <2>1, <2>2 DEF gone
  <2>. QED  BY <1>1, <2>3 DEF DestroyNext
<1>2. CASE ReturnFromMain  BY <1>2 DEF ReturnFromMain
<1>. QED  BY <1>1, <1>2

(* A signal ends the process only where nothing is constructed. *)
LEMMA SignalKeepsControl == ASSUME ControlInv, Signal PROVE ControlInv'
<1>. USE DEF ControlInv, ControlTypes, AliveInv, HandlerInv, LinkInv, ReporterInv, ReaderFree,
             ReporterActive, Setup, Opening, Running, All, linkVars, repVars, histVars, Exit
<1>1. CASE handlers  BY <1>1 DEF Signal
<1>2. CASE ~handlers
  <2>1. alive = {} /\ link = "down" /\ ReaderFree  BY <1>2
  <2>2. phase \notin Running /\ ~ReporterActive  BY <2>1
  <2>. QED  BY <1>2, <2>1, <2>2 DEF Signal
<1>. QED  BY <1>1, <1>2

(* The manager's threads and the read thread need the client they work for. *)
LEMMA LinkKeepsControl ==
    ASSUME ControlInv, LinkUp \/ LinkLost \/ Receive \/ ReaderStep
    PROVE  ControlInv'
<1>. USE DEF ControlInv, ControlTypes, AliveInv, HandlerInv, LinkInv, ReporterInv, ReaderFree,
             ReporterActive, Setup, Opening, Running, All, mainVars, linkVars, repVars, histVars
<1>1. CASE LinkUp  BY <1>1 DEF LinkUp
<1>2. CASE LinkLost  BY <1>2 DEF LinkLost
<1>3. CASE Receive  BY <1>3 DEF Receive
<1>4. CASE Callback  BY <1>4 DEF Callback
<1>5. CASE RecordSample  BY <1>5 DEF RecordSample, RecordBegin
<1>6. CASE RecordStep
  <2>1. rec.at # "idle"
    BY <1>6 DEF RecordStep, RecordBucket, RecordLoad, RecordCas, RecordCasFails
  <2>. QED  BY <1>6, <2>1 DEF RecordStep
<1>. QED  BY <1>1, <1>2, <1>3, <1>4, <1>5, <1>6 DEF ReaderStep

(* The reporter collects between its start and its join. *)
LEMMA ReporterKeepsControl == ASSUME ControlInv, ReporterStep PROVE ControlInv'
<1>. USE DEF ControlInv, ControlTypes, AliveInv, HandlerInv, LinkInv, ReporterInv, ReaderFree,
             ReporterActive, Setup, Opening, Running, All, mainVars, linkVars, histVars
<1>1. CASE ReporterTick  BY <1>1 DEF ReporterTick, SnapshotBegin
<1>2. CASE ReporterBreak  BY <1>2 DEF ReporterBreak, FinalFlush, SnapshotBegin
<1>3. CASE CollectStep  BY <1>3 DEF CollectStep, SnapshotBucket, SnapshotMax
<1>. QED  BY <1>1, <1>2, <1>3 DEF ReporterStep

(* The order of construction and destruction holds throughout. *)
LEMMA ControlStep == ASSUME ControlInv, [Next]_vars PROVE ControlInv'
<1>1. CASE UNCHANGED vars
  BY <1>1 DEF vars, mainVars, linkVars, repVars, histVars, ControlInv, ControlTypes, AliveInv,
              HandlerInv, LinkInv, ReporterInv, ReaderFree, ReporterActive
<1>2. CASE Exited  BY <1>1, <1>2 DEF Exited
<1>3. CASE MainStep
  BY <1>3, SetupKeepsControl, BuildingKeepsControl, RunningKeepsControl, UnwindingKeepsControl
     DEF MainStep
<1>. QED
  BY <1>1, <1>2, <1>3, SignalKeepsControl, LinkKeepsControl, ReporterKeepsControl DEF Next

(* However the program ends, the callbacks, the read thread and the reporter meet
   the metrics, writers and caches constructed: run_live() declares the manager
   after them, and joins the reporter before anything is destroyed.  The print
   counters, declared after the manager, are there for every callback except those
   of a client that outlived mgr.stop(). *)
THEOREM ShutdownOrder == Spec => []CallbacksFindLiveObjects
<1>1. ControlInv => CallbacksFindLiveObjects
  BY DEF ControlInv, ControlTypes, AliveInv, HandlerInv, LinkInv, ReporterInv, ReaderFree,
         CallbacksFindLiveObjects, Running, Setup, Opening, All
<1>. QED  BY ControlInit, ControlStep, <1>1, PTL DEF Spec

-------------------------------------------------------------------------------
(* The histogram *)

Sample == [id : Nat, us : Nat]

HistTypes ==
    /\ buckets \in [Buckets -> SUBSET Sample]
    /\ max_us \in Nat /\ topMax \in Nat /\ reported \subseteq Sample
    /\ rec \in [at : {"idle", "bucket", "load", "cas"}, sample : Sample, cur : Nat]
    /\ snap \in [at : {"idle", "bucket", "max"}, i : Nat, local : [Buckets -> SUBSET Sample]]
    /\ msgs \in Nat /\ reader \in {"idle", "callback", "sample"}

(* record() has the sample of the last message in hand until it is counted. *)
RecordInv ==
    /\ rec.at = "idle" => rec.sample = None
    /\ rec.at = "cas" => rec.sample.us > rec.cur
    /\ rec.at # "idle" => reader = "idle" /\ rec.sample.us \in Latencies
    /\ rec.at = "bucket" => rec.sample.id = msgs
    /\ reader # "idle" \/ rec.at = "bucket" => msgs > 0

(* A sample is in the bucket of its latency only, there and in the snapshot; the
   snapshot under way has taken nothing yet from the buckets it has not come to. *)
BucketInv ==
    /\ \A i \in Buckets : \A s \in buckets[i] \cup snap.local[i] : Idx(s.us) = i
    /\ snap.at = "bucket" => snap.i \in Buckets
    /\ \A i \in Buckets :
          snap.at = "idle" \/ (snap.at = "bucket" /\ i >= snap.i) => snap.local[i] = {}

(* The samples the histogram and the reporter hold: finitely many, so that they can
   be counted and ranked. *)
Holding == Counted \cup Taken \cup reported

HeldInv == IsFiniteSet(Holding) /\ \A s \in Holding : s.us \in Latencies

HistInv == HistTypes /\ RecordInv /\ BucketInv /\ HeldInv /\ SamplesConserved /\ MaxNotLost

(* Every non-empty set of natural numbers has a least element. *)
LEMMA LeastNat ==
    ASSUME NEW T \in SUBSET Nat, T # {}
    PROVE  \E m \in T : \A k \in T : m <= k
<1>. DEFINE F == {0..n : n \in T}
<1>1. \A n \in Nat : 0..n \in FiniteSubsetsOf(Nat)
  <2>1. \A n \in Nat : IsFiniteSet(0..n)  BY FS_Interval
  <2>. QED  BY <2>1 DEF FiniteSubsetsOf
<1>2. F \subseteq FiniteSubsetsOf(Nat) /\ F # {}  BY <1>1
<1>3. IsWellFoundedOn(StrictSubsetOrdering(Nat), FiniteSubsetsOf(Nat))
  BY FS_StrictSubsetOrderingWellFounded
<1>. HIDE DEF F
<1>4. PICK x \in F : \A y \in F : <<y, x>> \notin StrictSubsetOrdering(Nat)
  BY <1>2, <1>3, WFMin
<1>5. PICK m \in T : x = 0..m  BY DEF F
<1>6. ASSUME NEW k \in T, k < m PROVE FALSE
  <2>1. 0..k \in F  BY DEF F
  <2>2. 0..k \subseteq 0..m /\ 0..k # 0..m  
    <3>1. m \in 0..m /\ m \notin 0..k  BY <1>6
    <3>. QED  BY <3>1, <1>6
  <2>3. 0..k \in SUBSET Nat /\ 0..m \in SUBSET Nat OBVIOUS
  <2>. QED  BY <1>4, <1>5, <2>1, <2>2, <2>3 DEF StrictSubsetOrdering
<1>. QED  BY <1>6

(* g lists the powers of two up to n, by doubling. *)
Doubles(g, n) ==
    g \in [0..n -> Nat] /\ g[0] = 1 /\ \A k \in 1..n : g[k] = 2 * g[k - 1]

(* There is such a list for every n: the least n without one would have the list
   of n - 1 to extend. *)
LEMMA DoublesExist == \A n \in Nat : \E g : Doubles(g, n)
<1>. DEFINE T == {n \in Nat : ~\E g : Doubles(g, n)}
<1>1. SUFFICES ASSUME T # {} PROVE FALSE  OBVIOUS
<1>2. PICK n \in T : \A k \in T : n <= k  BY <1>1, LeastNat
<1>3. CASE n = 0
  <2>1. Doubles([k \in 0..0 |-> 1], 0)  BY DEF Doubles
  <2>. QED  BY <1>3, <2>1
<1>4. CASE n # 0
  <2>1. n - 1 \in Nat /\ n - 1 \notin T  BY <1>2, <1>4
  <2>2. PICK g : Doubles(g, n - 1)  BY <2>1
  <2>. DEFINE h == [k \in 0..n |-> IF k = n THEN 2 * g[n - 1] ELSE g[k]]
  <2>3. g[n - 1] \in Nat  BY <2>1, <2>2 DEF Doubles
  <2>4. h \in [0..n -> Nat] /\ h[0] = 1
    <3>1. ASSUME NEW k \in 0..n, k # n PROVE g[k] \in Nat
      <4>1. k \in 0..(n - 1)  BY <3>1
      <4>. QED  BY <2>2, <4>1 DEF Doubles
    <3>2. 0 \in 0..n /\ 0 # n /\ g[0] = 1  BY <1>4, <2>2 DEF Doubles
    <3>. QED  BY <2>3, <3>1, <3>2
  <2>5. ASSUME NEW k \in 1..n PROVE h[k] = 2 * h[k - 1]
    <3>1. k - 1 \in 0..n /\ k \in 0..n /\ k - 1 # n  OBVIOUS
    <3>2. h[k - 1] = g[k - 1] /\ h[k] = IF k = n THEN 2 * g[n - 1] ELSE g[k]  BY <3>1
    <3>3. k # n => k \in 1..(n - 1)  OBVIOUS
    <3>. QED  BY <2>2, <3>2, <3>3 DEF Doubles
  <2>6. Doubles(h, n)  BY <2>4, <2>5 DEF Doubles
  <2>. QED  BY <2>6
<1>. QED  BY <1>3, <1>4

(* And any two agree: there is no least place where they differ. *)
LEMMA DoublesAgree ==
    ASSUME NEW n \in Nat, NEW m \in Nat, n <= m, NEW g, NEW h, Doubles(g, n), Doubles(h, m)
    PROVE  \A k \in 0..n : g[k] = h[k]
<1>. DEFINE T == {k \in 0..n : g[k] # h[k]}
<1>1. SUFFICES ASSUME T # {} PROVE FALSE  OBVIOUS
<1>2. T \in SUBSET Nat  OBVIOUS
<1>3. PICK k \in T : \A j \in T : k <= j  BY <1>1, <1>2, LeastNat
<1>4. k # 0  BY <1>3 DEF Doubles
<1>5. k - 1 \in 0..n /\ k - 1 \notin T  BY <1>3, <1>4
<1>6. g[k] = 2 * g[k - 1] /\ h[k] = 2 * h[k - 1]  BY <1>3, <1>4 DEF Doubles
<1>. QED  BY <1>3, <1>5, <1>6

(* The shift doubles with every place: there is a function that satisfies its
   recursion. *)
LEMMA ShiftDoubles ==
    /\ Shifted \in [Nat -> Nat] /\ Shifted[0] = 1
    /\ \A n \in Nat : Shifted[n + 1] = 2 * Shifted[n]
<1>. DEFINE L(n) == CHOOSE g : Doubles(g, n)
            P == [n \in Nat |-> L(n)[n]]
            Body(f) == [n \in Nat |-> IF n = 0 THEN 1 ELSE 2 * f[n - 1]]
<1>1. \A n \in Nat : Doubles(L(n), n)  BY DoublesExist
<1>. HIDE DEF L
<1>2. P \in [Nat -> Nat]
  <2>1. ASSUME NEW n \in Nat PROVE L(n)[n] \in Nat  BY <1>1 DEF Doubles
  <2>. QED  BY <2>1
<1>3. P[0] = 1  BY <1>1 DEF Doubles
<1>4. ASSUME NEW n \in Nat \ {0} PROVE P[n] = 2 * P[n - 1]
  <2>1. n - 1 \in Nat /\ n - 1 <= n /\ n - 1 \in 0..(n - 1) /\ n \in 1..n  OBVIOUS
  <2>2. L(n - 1)[n - 1] = L(n)[n - 1]  BY <1>1, <2>1, DoublesAgree
  <2>3. L(n)[n] = 2 * L(n)[n - 1]  BY <1>1, <2>1 DEF Doubles
  <2>. QED  BY <2>1, <2>2, <2>3
<1>. HIDE DEF P
<1>5. P = Body(P)
  <2>1. ASSUME NEW n \in Nat PROVE P[n] = Body(P)[n]  BY <1>3, <1>4
  <2>2. P = [n \in Nat |-> P[n]]  BY <1>2
  <2>. QED  BY <2>1, <2>2
<1>6. Shifted = Body(Shifted)
  <2>1. Shifted = CHOOSE f : f = Body(f)  BY DEF Shifted
  <2>. HIDE DEF Body
  <2>. QED  BY <1>5, <2>1
<1>7. Shifted[0] = 1 /\ \A n \in Nat \ {0} : Shifted[n] = 2 * Shifted[n - 1]
  BY <1>6
<1>. HIDE DEF Body
<1>. DEFINE T == {n \in Nat : Shifted[n] \notin Nat}
<1>8. T = {}
  <2>1. SUFFICES ASSUME T # {} PROVE FALSE  OBVIOUS
  <2>2. PICK n \in T : \A k \in T : n <= k  BY <2>1, LeastNat
  <2>3. n # 0  BY <1>7, <2>2
  <2>4. n - 1 \in Nat /\ n - 1 \notin T  BY <2>2, <2>3
  <2>5. Shifted[n] = 2 * Shifted[n - 1]  BY <1>7, <2>3
  <2>. QED  BY <2>2, <2>4, <2>5
<1>9. Shifted = [n \in Nat |-> Shifted[n]]
  <2>1. \A f : Body(f) = [n \in Nat |-> Body(f)[n]]  BY DEF Body
  <2>. QED  BY <1>6, <2>1
<1>10. \A n \in Nat : Shifted[n + 1] = 2 * Shifted[n]
  <2>1. \A n \in Nat : n + 1 \in Nat \ {0} /\ (n + 1) - 1 = n  OBVIOUS
  <2>. QED  BY <1>7, <2>1
<1>. QED  BY <1>7, <1>8, <1>9, <1>10

(* More places, a greater value. *)
LEMMA ShiftGrows == \A i, j \in Nat : i <= j => Shifted[i] <= Shifted[j]
<1>. SUFFICES ASSUME NEW i \in Nat PROVE \A j \in Nat : i <= j => Shifted[i] <= Shifted[j]
  OBVIOUS
<1>. DEFINE T == {j \in Nat : i <= j /\ ~(Shifted[i] <= Shifted[j])}
<1>1. SUFFICES ASSUME T # {} PROVE FALSE  OBVIOUS
<1>2. PICK j \in T : \A k \in T : j <= k  BY <1>1, LeastNat
<1>3. i # j /\ Shifted[i] \in Nat /\ Shifted[j] \in Nat  BY <1>2, ShiftDoubles
<1>4. j - 1 \in Nat /\ i <= j - 1 /\ j - 1 \notin T  BY <1>2, <1>3
<1>5. Shifted[j - 1] \in Nat /\ Shifted[(j - 1) + 1] = 2 * Shifted[j - 1] /\ (j - 1) + 1 = j
  BY <1>4, ShiftDoubles
<1>. QED  BY <1>2, <1>3, <1>4, <1>5

(* Every latency of kBuckets bits has its bucket, and lies between its bounds. *)
LEMMA IdxInBuckets ==
    ASSUME NEW us \in 0..ULLONG_MAX
    PROVE  /\ Idx(us) \in Buckets /\ us < Shifted[Idx(us) + 1]
           /\ IF us = 0 THEN Idx(us) = 0 ELSE Shifted[Idx(us)] <= us
<1>0. Shifted[0] = 1 /\ Shifted[0 + 1] = 2 /\ \A i \in Nat : Shifted[i] \in Nat
  BY ShiftDoubles
<1>1. CASE us = 0
  <2>1. Idx(us) = 0 /\ 0 \in Buckets  BY <1>1, HistogramSize DEF Idx, Buckets
  <2>. QED  BY <1>0, <1>1, <2>1
<1>2. CASE us # 0
  <2>0. us \in Nat /\ us < Shifted[kBuckets]  BY <1>0, HistogramSize DEF ULLONG_MAX
  <2>. DEFINE T == {i \in Nat : us < Shifted[i]}
  <2>1. kBuckets \in T  BY <2>0, HistogramSize
  <2>2. PICK m \in T : \A k \in T : m <= k  BY <2>1, LeastNat
  <2>3. m # 0
    <3>1. 0 \notin T  BY <1>0, <1>2, <2>0
    <3>. QED  BY <3>1
  <2>4. m - 1 \in Nat /\ m - 1 \notin T  BY <2>2, <2>3
  <2>5. m - 1 \in Buckets  BY <2>1, <2>2, <2>4, HistogramSize DEF Buckets
  <2>6. Shifted[m - 1] <= us /\ us < Shifted[(m - 1) + 1]
    <3>1. Shifted[m - 1] <= us  BY <1>0, <2>0, <2>4
    <3>2. (m - 1) + 1 = m  BY <2>4
    <3>. QED  BY <2>2, <3>1, <3>2
  <2>7. Idx(us) \in Buckets /\ Shifted[Idx(us)] <= us /\ us < Shifted[Idx(us) + 1]
    BY <1>2, <2>5, <2>6 DEF Idx
  <2>. QED  BY <1>2, <2>7
<1>. QED  BY <1>1, <1>2

(* The samples that are counted. *)
CountedMsgs == IF reader # "idle" \/ rec.at = "bucket" THEN msgs - 1 ELSE msgs

(* The ids of a set of samples are 1 to n: none is beyond, none is missing. *)
IdsUpTo(S, n) == (\A s \in S : s.id \in 1..n) /\ (\A k \in 1..n : \E s \in S : s.id = k)

(* The set of the ids says the same. *)
LEMMA IdsAreUpTo ==
    ASSUME NEW S, NEW n PROVE ({s.id : s \in S} = 1..n) <=> IdsUpTo(S, n)
BY Zenon DEF IdsUpTo

(* SamplesConserved, element by element. *)
LEMMA ConservedMeans ==
    SamplesConserved <=> /\ Counted \cap Taken = {} /\ Counted \cap reported = {}
                         /\ Taken \cap reported = {}
                         /\ IdsUpTo(Holding, CountedMsgs)
<1>. DEFINE n == CountedMsgs  S == Holding
<1>1. ({s.id : s \in S} = 1..n) <=> IdsUpTo(S, n)
  <2>. HIDE DEF n, S
  <2>. QED  BY IdsAreUpTo
<1>. QED  BY <1>1 DEF SamplesConserved, CountedMsgs, Holding

(* The same after a step. *)
LEMMA ConservedAfter ==
    /\ (Counted \cap Taken = {} /\ Counted \cap reported = {} /\ Taken \cap reported = {})'
    /\ IdsUpTo(Holding', CountedMsgs')
    => SamplesConserved'
<1>. DEFINE n == CountedMsgs'  S == Holding'
<1>1. ({s.id : s \in S} = 1..n) <=> IdsUpTo(S, n)
  <2>. HIDE DEF n, S
  <2>. QED  BY IdsAreUpTo
<1>. QED  BY <1>1 DEF SamplesConserved, CountedMsgs, Holding

(* What the sets of samples hold are samples, with ids from 1. *)
LEMMA HeldSamples ==
    ASSUME HistInv
    PROVE  /\ Counted \subseteq Sample /\ Taken \subseteq Sample /\ Holding \subseteq Sample
           /\ CountedMsgs \in Nat /\ None \in Sample /\ None \notin Holding
           /\ IdsUpTo(Holding, CountedMsgs)
<1>1. Counted \subseteq Sample /\ Taken \subseteq Sample /\ Holding \subseteq Sample
  BY DEF HistInv, HistTypes, Counted, Taken, Holding
<1>2. CountedMsgs \in Nat
  BY DEF HistInv, HistTypes, RecordInv, CountedMsgs
<1>3. None \in Sample  BY DEF None, Sample
<1>4. IdsUpTo(Holding, CountedMsgs)  BY ConservedMeans DEF HistInv
<1>5. None \notin Holding
  <2>1. None.id = 0  BY DEF None
  <2>. QED  BY <1>2, <1>4, <2>1 DEF IdsUpTo
<1>. QED  BY <1>1, <1>2, <1>3, <1>4, <1>5

(* The histogram starts empty. *)
LEMMA HistInitially == Init => HistInv
<1>. SUFFICES ASSUME Init PROVE HistInv  OBVIOUS
<1>. USE DEF Init, HistInit
<1>1. HistTypes
  BY HistogramSize DEF HistTypes, Sample, None
<1>2. RecordInv  BY DEF RecordInv
<1>3. BucketInv  BY DEF BucketInv
<1>4. Counted = {} /\ Taken = {}  BY DEF Counted, Taken
<1>5. SamplesConserved
  <2>1. CountedMsgs = 0 /\ Holding = {}  BY <1>4 DEF CountedMsgs, Holding
  <2>2. IdsUpTo(Holding, CountedMsgs)  BY <2>1 DEF IdsUpTo
  <2>. QED  BY <1>4, <2>2, ConservedMeans
<1>6. MaxNotLost  BY <1>4 DEF MaxNotLost
<1>7. HeldInv
  <2>1. Holding = {}  BY <1>4 DEF Holding
  <2>. QED  BY <2>1, FS_EmptySet DEF HeldInv
<1>. QED  BY <1>1, <1>2, <1>3, <1>5, <1>6, <1>7 DEF HistInv

(* main(), the signal handler and the manager's threads do not touch it. *)
LEMMA HistFrame ==
    ASSUME HistInv, UNCHANGED <<histVars, reader, msgs>> PROVE HistInv'
BY DEF HistInv, histVars, HistTypes, RecordInv, BucketInv, HeldInv, SamplesConserved, MaxNotLost,
       Counted, Taken, Holding

(* The next message, its callback and the beginning of its record(). *)
LEMMA MessageKeepsHist ==
    ASSUME HistInv, Receive \/ Callback \/ RecordSample PROVE HistInv'
<1>1. UNCHANGED <<buckets, max_us, snap, reported, topMax>>
  BY DEF Receive, Callback, RecordSample, RecordBegin, histVars
<1>2. /\ HistTypes' /\ RecordInv' /\ CountedMsgs' = CountedMsgs
      /\ rec.sample = None \/ rec' = rec
  <2>. USE DEF HistInv, HistTypes, RecordInv, CountedMsgs
  <2>1. CASE Receive  BY <2>1, <1>1 DEF Receive, ReaderFree, histVars
  <2>2. CASE Callback  BY <2>2, <1>1 DEF Callback, histVars
  <2>3. CASE RecordSample
    <3>1. PICK us \in Latencies : rec' = [at |-> "bucket", sample |-> [id |-> msgs, us |-> us],
                                          cur |-> 0]
      BY <2>3 DEF RecordSample, RecordBegin
    <3>2. us \in Nat  BY ProgramConstants
    <3>. QED  BY <2>3, <1>1, <3>1, <3>2 DEF RecordSample, RecordBegin, Sample
  <2>. QED  BY <2>1, <2>2, <2>3
<1>3. BucketInv'  BY <1>1 DEF HistInv, BucketInv
<1>4. Counted' = Counted /\ Taken' = Taken /\ Holding' = Holding
  BY <1>1 DEF Counted, Taken, Holding
<1>5. SamplesConserved'
  <2>1. IdsUpTo(Holding', CountedMsgs')  BY <1>2, <1>4, HeldSamples
  <2>. QED  BY <1>1, <1>4, <2>1, ConservedAfter DEF HistInv, SamplesConserved
<1>6. MaxNotLost'
  BY <1>1, <1>2, <1>4, HeldSamples DEF HistInv, MaxNotLost, Holding
<1>7. HeldInv'  BY <1>4 DEF HistInv, HeldInv
<1>. QED  BY <1>2, <1>3, <1>5, <1>6, <1>7 DEF HistInv

(* The counter of the sample's bucket is raised: the sample is there and nowhere
   else, for no other has its id. *)
LEMMA RecordBucketKeepsHist ==
    ASSUME HistInv, RecordBucket, UNCHANGED <<reader, msgs>> PROVE HistInv'
<1>. DEFINE new == rec.sample  at == Idx(rec.sample.us)
<1>1. /\ rec.at = "bucket" /\ new \in Sample /\ new.us \in Latencies /\ new.id = msgs
      /\ reader = "idle" /\ msgs \in Nat \ {0} /\ CountedMsgs = msgs - 1 /\ CountedMsgs' = msgs
      /\ rec' = [rec EXCEPT !.at = "load"]
  BY DEF RecordBucket, HistInv, HistTypes, RecordInv, CountedMsgs
<1>2. at \in Buckets  BY <1>1, IdxInBuckets, ProgramConstants
<1>3. /\ buckets' = [buckets EXCEPT ![at] = @ \cup {new}]
      /\ UNCHANGED <<max_us, snap, reported, topMax>>
  BY DEF RecordBucket
<1>4. HistTypes'
  BY <1>1, <1>2, <1>3 DEF HistInv, HistTypes
<1>5. RecordInv'
  BY <1>1 DEF HistInv, HistTypes, RecordInv
<1>6. BucketInv'
  <2>1. ASSUME NEW i \in Buckets, NEW s \in buckets'[i] \cup snap'.local[i] PROVE Idx(s.us) = i
    <3>1. s \in buckets[i] \cup snap.local[i] \/ (i = at /\ s = new)
      BY <1>2, <1>3 DEF HistInv, HistTypes
    <3>. QED  BY <3>1 DEF HistInv, BucketInv
  <2>. QED  BY <2>1, <1>3 DEF HistInv, BucketInv
<1>7. Counted' = Counted \cup {new}
  <2>1. ASSUME NEW s \in Counted' PROVE s \in Counted \/ s = new
    BY <2>1, <1>2, <1>3 DEF Counted, HistInv, HistTypes
  <2>2. ASSUME NEW s, s \in Counted \/ s = new PROVE s \in Counted'
    BY <2>2, <1>2, <1>3 DEF Counted, HistInv, HistTypes
  <2>. QED  BY <2>1, <2>2
<1>8. Taken' = Taken /\ Holding' = Holding \cup {new}
  BY <1>3, <1>7 DEF Taken, Holding
<1>9. new \notin Holding
  BY <1>1, HeldSamples DEF IdsUpTo
<1>10. SamplesConserved'
  <2>1. IdsUpTo(Holding', CountedMsgs')
    <3>. HIDE DEF new
    <3>1. ASSUME NEW s \in Holding' PROVE s.id \in 1..msgs
      <4>1. CASE s \in Holding
        <5>1. s.id \in 1..(msgs - 1)  BY <4>1, <1>1, HeldSamples DEF IdsUpTo
        <5>. QED  BY <5>1, <1>1
      <4>2. CASE s = new  BY <4>2, <1>1
      <4>. QED  BY <1>8, <4>1, <4>2
    <3>2. ASSUME NEW k \in 1..msgs PROVE \E s \in Holding' : s.id = k
      <4>1. CASE k = msgs  BY <4>1, <1>1, <1>8
      <4>2. CASE k # msgs
        <5>1. k \in 1..(msgs - 1)  BY <4>2, <1>1
        <5>. QED  BY <5>1, <1>1, <1>8, HeldSamples DEF IdsUpTo
      <4>. QED  BY <4>1, <4>2
    <3>. QED  BY <3>1, <3>2, <1>1 DEF IdsUpTo
  <2>2. (Counted \cap Taken = {} /\ Counted \cap reported = {} /\ Taken \cap reported = {})'
    BY <1>3, <1>7, <1>8, <1>9 DEF HistInv, SamplesConserved, Holding
  <2>. QED  BY <2>1, <2>2, ConservedAfter
<1>11. MaxNotLost'
  <2>1. rec'.sample = new  BY <1>1 DEF HistInv, HistTypes
  <2>. QED  BY <1>3, <1>8, <2>1 DEF HistInv, MaxNotLost, Holding
<1>12. HeldInv'
  <2>. HIDE DEF new
  <2>1. IsFiniteSet(Holding \cup {new})  BY FS_AddElement DEF HistInv, HeldInv
  <2>. QED  BY <1>1, <1>8, <2>1 DEF HistInv, HeldInv
<1>. QED  BY <1>4, <1>5, <1>6, <1>10, <1>11, <1>12 DEF HistInv

(* The loop that raises the maximum: it ends with the sample bounded by max_us_. *)
LEMMA RaiseKeepsHist ==
    ASSUME HistInv, RecordLoad \/ RecordCas \/ RecordCasFails, UNCHANGED <<reader, msgs>>
    PROVE  HistInv'
<1>1. UNCHANGED <<buckets, snap, reported, topMax>>
  BY DEF RecordLoad, RecordCas, RecordCasFails
<1>2. /\ rec.at \in {"load", "cas"} /\ rec.sample \in Sample /\ max_us \in Nat
  BY DEF RecordLoad, RecordCas, RecordCasFails, HistInv, HistTypes
<1>3. \/ rec' = RecordIdle /\ rec.sample.us <= max_us' /\ max_us <= max_us' /\ max_us' \in Nat
      \/ /\ rec' = [rec EXCEPT !.at = "cas", !.cur = max_us]
         /\ rec.sample.us > max_us /\ UNCHANGED max_us
  BY <1>2 DEF RecordLoad, RecordCas, RecordCasFails, AfterFailedCas, RaiseOver, HistInv,
              HistTypes, RecordInv, Sample
<1>4. RecordIdle.at = "idle" /\ RecordIdle.sample = None
  BY DEF RecordIdle
<1>5. /\ RecordIdle \in [at : {"idle", "bucket", "load", "cas"}, sample : Sample, cur : Nat]
      /\ rec' = [rec EXCEPT !.at = "cas", !.cur = max_us] =>
            /\ rec' \in [at : {"idle", "bucket", "load", "cas"}, sample : Sample, cur : Nat]
            /\ rec'.at = "cas" /\ rec'.sample = rec.sample /\ rec'.cur = max_us
  <2>1. None \in Sample  BY DEF None, Sample
  <2>2. rec \in [at : {"idle", "bucket", "load", "cas"}, sample : Sample, cur : Nat]
    BY DEF HistInv, HistTypes
  <2>. QED  BY <1>2, <2>1, <2>2 DEF RecordIdle
<1>6. HistTypes'
  <2>1. rec' \in [at : {"idle", "bucket", "load", "cas"}, sample : Sample, cur : Nat]
    BY <1>3, <1>5
  <2>2. max_us' \in Nat  BY <1>2, <1>3
  <2>. QED  BY <1>1, <2>1, <2>2 DEF HistInv, HistTypes
<1>7. RecordInv' /\ CountedMsgs' = CountedMsgs
  <2>. USE DEF HistInv, RecordInv, CountedMsgs
  <2>1. CASE rec' = RecordIdle  BY <1>2, <1>4, <2>1
  <2>2. CASE rec' # RecordIdle  BY <1>2, <1>3, <1>5, <2>2
  <2>. QED  BY <2>1, <2>2
<1>8. BucketInv'  BY <1>1 DEF HistInv, BucketInv
<1>9. Counted' = Counted /\ Taken' = Taken /\ Holding' = Holding
  BY <1>1 DEF Counted, Taken, Holding
<1>10. SamplesConserved'
  <2>1. IdsUpTo(Holding', CountedMsgs')  BY <1>7, <1>9, HeldSamples
  <2>. QED  BY <1>1, <1>9, <2>1, ConservedAfter DEF HistInv, SamplesConserved
<1>11. MaxNotLost'
  <2>1. ASSUME NEW s \in Holding, s # rec'.sample PROVE s.us <= max_us' \/ s.us <= topMax
    <3>1. s \in Sample  BY HeldSamples
    <3>2. s # rec.sample => s.us <= max_us \/ s.us <= topMax
      BY DEF HistInv, MaxNotLost, Holding
    <3>3. CASE rec' = RecordIdle
      <4>1. rec.sample.us <= max_us' /\ max_us <= max_us' /\ max_us' \in Nat
        BY <1>2, <1>3, <1>4, <1>5, <3>3
      <4>. QED  BY <1>2, <3>1, <3>2, <4>1 DEF Sample
    <3>4. CASE rec' # RecordIdle  BY <1>3, <1>5, <2>1, <3>2, <3>4
    <3>. QED  BY <3>3, <3>4
  <2>. QED  BY <1>1, <1>9, <2>1 DEF MaxNotLost, Holding
<1>12. HeldInv'  BY <1>9 DEF HistInv, HeldInv
<1>. QED  BY <1>6, <1>7, <1>8, <1>10, <1>11, <1>12 DEF HistInv

(* A snapshot begins with an empty local copy. *)
LEMMA SnapshotBeginKeepsHist ==
    ASSUME HistInv, SnapshotBegin, UNCHANGED <<reader, msgs>> PROVE HistInv'
<1>. DEFINE empty == [i \in Buckets |-> {}]
<1>1. /\ UNCHANGED <<buckets, max_us, rec, reported, topMax>>
      /\ snap' = [at |-> "bucket", i |-> 0, local |-> empty] /\ snap.at = "idle"
  BY DEF SnapshotBegin
<1>2. 0 \in Buckets  BY HistogramSize DEF Buckets
<1>3. empty \in [Buckets -> SUBSET Sample] /\ \A i \in Buckets : empty[i] = {}
  OBVIOUS
<1>. HIDE DEF empty
<1>4. HistTypes'  BY <1>1, <1>3 DEF HistInv, HistTypes
<1>5. RecordInv' /\ CountedMsgs' = CountedMsgs  BY <1>1 DEF HistInv, RecordInv, CountedMsgs
<1>6. BucketInv'  BY <1>1, <1>2, <1>3 DEF HistInv, BucketInv
<1>7. Taken = {} /\ Taken' = {} /\ Counted' = Counted /\ Holding' = Holding
  BY <1>1, <1>3 DEF HistInv, BucketInv, Taken, Counted, Holding
<1>8. SamplesConserved'
  <2>1. IdsUpTo(Holding', CountedMsgs')  BY <1>5, <1>7, HeldSamples
  <2>. QED  BY <1>1, <1>7, <2>1, ConservedAfter DEF HistInv, SamplesConserved
<1>9. MaxNotLost'  BY <1>1, <1>7 DEF HistInv, MaxNotLost
<1>10. HeldInv'  BY <1>7 DEF HistInv, HeldInv
<1>. QED  BY <1>4, <1>5, <1>6, <1>8, <1>9, <1>10 DEF HistInv

(* exchange(0) moves the samples of one bucket into the snapshot, all of them and
   no other: the buckets are disjoint. *)
LEMMA SnapshotBucketKeepsHist ==
    ASSUME HistInv, SnapshotBucket, UNCHANGED <<reader, msgs>> PROVE HistInv'
<1>. DEFINE at == snap.i
<1>1. /\ UNCHANGED <<max_us, rec, reported, topMax>>
      /\ buckets' = [buckets EXCEPT ![at] = {}] /\ snap.at = "bucket" /\ at \in Buckets
      /\ snap' = [at |-> IF at = kBuckets - 1 THEN "max" ELSE "bucket",
                  i |-> at + 1, local |-> [snap.local EXCEPT ![at] = buckets[at]]]
  BY DEF SnapshotBucket, ResetBucket, HistInv, BucketInv
<1>2. /\ buckets \in [Buckets -> SUBSET Sample] /\ snap.local \in [Buckets -> SUBSET Sample]
      /\ snap.local[at] = {} /\ kBuckets \in Nat /\ at \in Nat
      /\ at = kBuckets - 1 \/ at + 1 \in Buckets
  <2>1. at >= at  BY <1>1, HistogramSize DEF Buckets
  <2>. QED  BY <1>1, <2>1, HistogramSize DEF HistInv, HistTypes, BucketInv, Buckets
<1>. DEFINE old == buckets[at]
<1>3. /\ buckets' \in [Buckets -> SUBSET Sample] /\ snap'.local \in [Buckets -> SUBSET Sample]
      /\ buckets'[at] = {} /\ \A i \in Buckets \ {at} : buckets'[i] = buckets[i]
      /\ snap'.local[at] = old /\ \A i \in Buckets \ {at} : snap'.local[i] = snap.local[i]
  BY <1>1, <1>2
<1>4. HistTypes'
  <2>1. snap' \in [at : {"idle", "bucket", "max"}, i : Nat, local : [Buckets -> SUBSET Sample]]
    BY <1>1, <1>2
  <2>. QED  BY <1>1, <1>3, <2>1 DEF HistInv, HistTypes
<1>5. RecordInv' /\ CountedMsgs' = CountedMsgs  BY <1>1 DEF HistInv, RecordInv, CountedMsgs
<1>6. BucketInv'
  <2>1. \A i \in Buckets : \A s \in buckets'[i] \cup snap'.local[i] : Idx(s.us) = i
    BY <1>3 DEF HistInv, BucketInv
  <2>2. snap'.at = "bucket" => snap'.i \in Buckets
    BY <1>1, <1>2
  <2>3. ASSUME NEW i \in Buckets, snap'.at = "bucket", i >= snap'.i PROVE snap'.local[i] = {}
    <3>1. i # at /\ i >= at  BY <1>1, <1>2, <2>3 DEF Buckets
    <3>. QED  BY <1>1, <1>3, <3>1 DEF HistInv, BucketInv
  <2>4. snap'.at # "idle"  BY <1>1
  <2>. QED  BY <2>1, <2>2, <2>3, <2>4 DEF BucketInv
<1>7. Counted' = Counted \ old
  <2>1. \A i \in Buckets \ {at} : buckets[i] \cap old = {}
    BY <1>1 DEF HistInv, BucketInv
  <2>. HIDE DEF old
  <2>2. ASSUME NEW s \in Counted' PROVE s \in Counted \ old
    <3>1. PICK i \in Buckets : s \in buckets'[i]  BY DEF Counted
    <3>. QED  BY <1>3, <2>1, <3>1 DEF Counted
  <2>3. ASSUME NEW s \in Counted \ old PROVE s \in Counted'
    <3>1. PICK i \in Buckets : s \in buckets[i]  BY DEF Counted
    <3>2. i # at  BY <3>1 DEF old
    <3>. QED  BY <1>3, <3>1, <3>2 DEF Counted
  <2>. QED  BY <2>2, <2>3
<1>8. Taken' = Taken \cup old
  <2>1. ASSUME NEW s \in Taken' PROVE s \in Taken \cup old
    <3>1. PICK i \in Buckets : s \in snap'.local[i]  BY DEF Taken
    <3>. QED  BY <1>3, <3>1 DEF Taken
  <2>2. ASSUME NEW s \in Taken \cup old PROVE s \in Taken'
    <3>1. CASE s \in old  BY <1>1, <1>3, <3>1 DEF Taken
    <3>2. CASE s \in Taken
      <4>1. PICK i \in Buckets : s \in snap.local[i]  BY <3>2 DEF Taken
      <4>. QED  BY <1>2, <1>3, <4>1 DEF Taken
    <3>. QED  BY <2>2, <3>1, <3>2
  <2>. QED  BY <2>1, <2>2
<1>9. old \subseteq Counted  BY <1>1 DEF Counted
<1>. HIDE DEF old
<1>10. Holding' = Holding  BY <1>1, <1>7, <1>8, <1>9 DEF Holding
<1>11. SamplesConserved'
  <2>1. IdsUpTo(Holding', CountedMsgs')  BY <1>5, <1>10, HeldSamples
  <2>2. (Counted \cap Taken = {} /\ Counted \cap reported = {} /\ Taken \cap reported = {})'
    BY <1>1, <1>7, <1>8, <1>9 DEF HistInv, SamplesConserved
  <2>. QED  BY <2>1, <2>2, ConservedAfter
<1>12. MaxNotLost'  BY <1>1, <1>10 DEF HistInv, MaxNotLost, Holding
<1>13. HeldInv'  BY <1>10 DEF HistInv, HeldInv
<1>. QED  BY <1>4, <1>5, <1>6, <1>11, <1>12, <1>13 DEF HistInv

(* The end of a snapshot hands its samples to the report, with the maximum. *)
LEMMA SnapshotMaxKeepsHist ==
    ASSUME HistInv, SnapshotMax, UNCHANGED <<reader, msgs>> PROVE HistInv'
<1>. DEFINE empty == [i \in Buckets |-> {}]
<1>1. /\ UNCHANGED <<buckets, rec>> /\ max_us' = 0
      /\ snap' = [at |-> "idle", i |-> 0, local |-> empty] /\ reported' = reported \cup Taken
      /\ topMax' = IF max_us > topMax THEN max_us ELSE topMax
  BY DEF SnapshotMax, Taken
<1>2. empty \in [Buckets -> SUBSET Sample] /\ \A i \in Buckets : empty[i] = {}
  OBVIOUS
<1>. HIDE DEF empty
<1>3. max_us \in Nat /\ topMax \in Nat  BY DEF HistInv, HistTypes
<1>4. HistTypes'
  <2>1. reported' \subseteq Sample  BY <1>1, HeldSamples DEF HistInv, HistTypes
  <2>2. snap' \in [at : {"idle", "bucket", "max"}, i : Nat, local : [Buckets -> SUBSET Sample]]
    BY <1>1, <1>2
  <2>. QED  BY <1>1, <1>3, <2>1, <2>2 DEF HistInv, HistTypes
<1>5. RecordInv' /\ CountedMsgs' = CountedMsgs  BY <1>1 DEF HistInv, RecordInv, CountedMsgs
<1>6. BucketInv'  BY <1>1, <1>2 DEF HistInv, BucketInv
<1>7. Taken' = {} /\ Counted' = Counted  BY <1>1, <1>2 DEF Taken, Counted
<1>8. Holding' = Holding  BY <1>1, <1>7 DEF Holding
<1>9. SamplesConserved'
  <2>1. IdsUpTo(Holding', CountedMsgs')  BY <1>5, <1>8, HeldSamples
  <2>2. (Counted \cap Taken = {} /\ Counted \cap reported = {} /\ Taken \cap reported = {})'
    BY <1>1, <1>7 DEF HistInv, SamplesConserved
  <2>. QED  BY <2>1, <2>2, ConservedAfter
<1>10. MaxNotLost'
  <2>1. ASSUME NEW s \in Holding, s # rec.sample PROVE s.us <= topMax'
    <3>1. s.us \in Nat /\ (s.us <= max_us \/ s.us <= topMax)
      BY <2>1, HeldSamples DEF HistInv, MaxNotLost, Holding, Sample
    <3>. QED  BY <1>1, <1>3, <3>1
  <2>. QED  BY <1>1, <1>8, <2>1 DEF MaxNotLost, Holding
<1>11. HeldInv'  BY <1>8 DEF HistInv, HeldInv
<1>. QED  BY <1>4, <1>5, <1>6, <1>9, <1>10, <1>11 DEF HistInv

(* record() and snapshot_and_reset() keep the histogram whole, whatever steps of
   theirs alternate. *)
LEMMA HistStep == ASSUME HistInv, [Next]_vars PROVE HistInv'
<1>1. CASE UNCHANGED vars  BY <1>1, HistFrame DEF vars, linkVars
<1>2. CASE MainStep
  <2>1. UNCHANGED <<histVars, reader, msgs>>
    BY <1>2 DEF MainStep, ParseArgs, InstallHandlers, LoadConfig, RunOffline, OfflineEnds,
                CheckSources, OpenTradeWriter, OpenOrderbookWriter, OpenWriter, BuildManager,
                StartManager, StartReporter, LoopEnds, StopManager, JoinReporter, DestroyNext,
                ReturnFromMain, linkVars
  <2>. QED  BY <2>1, HistFrame
<1>3. CASE Signal \/ LinkUp \/ LinkLost \/ Exited
  <2>1. UNCHANGED <<histVars, reader, msgs>>
    BY <1>3 DEF Signal, LinkUp, LinkLost, Exited, vars, linkVars
  <2>. QED  BY <2>1, HistFrame
<1>4. CASE Receive  BY <1>4, MessageKeepsHist
<1>5. CASE ReaderStep
  <2>1. CASE RecordStep
    BY <2>1, RecordBucketKeepsHist, RaiseKeepsHist DEF RecordStep, linkVars
  <2>. QED  BY <1>5, <2>1, MessageKeepsHist DEF ReaderStep
<1>6. CASE ReporterStep
  <2>. USE DEF linkVars
  <2>1. CASE ReporterTick  BY <2>1, SnapshotBeginKeepsHist, HistFrame DEF ReporterTick
  <2>2. CASE ReporterBreak  BY <2>2, SnapshotBeginKeepsHist DEF ReporterBreak, FinalFlush
  <2>3. CASE CollectStep
    BY <2>3, SnapshotBucketKeepsHist, SnapshotMaxKeepsHist DEF CollectStep
  <2>. QED  BY <1>6, <2>1, <2>2, <2>3 DEF ReporterStep
<1>. QED  BY <1>1, <1>2, <1>3, <1>4, <1>5, <1>6 DEF Next

(* The histogram's invariant holds of every behaviour. *)
THEOREM HistInvariance == Spec => []HistInv
BY HistInitially, HistStep, PTL DEF Spec

(* No sample is lost or counted twice between record() and snapshot_and_reset(). *)
THEOREM SamplesAreConserved == Spec => []SamplesConserved
BY HistInvariance, PTL DEF HistInv

(* No maximum is lost between two windows. *)
THEOREM MaximumKept == Spec => []MaxNotLost
BY HistInvariance, PTL DEF HistInv

-------------------------------------------------------------------------------
(* The percentiles *)

(* A latency in a lower bucket is smaller. *)
LEMMA LowerBucketIsSmaller ==
    ASSUME NEW a \in 0..ULLONG_MAX, NEW b \in 0..ULLONG_MAX, Idx(a) < Idx(b)
    PROVE  a < b
<1>1. Idx(a) \in Nat /\ Idx(b) \in Nat  BY IdxInBuckets, HistogramSize DEF Buckets
<1>2. Idx(a) + 1 \in Nat /\ Idx(a) + 1 <= Idx(b) /\ Idx(b) # 0  BY <1>1
<1>3. a < Shifted[Idx(a) + 1] /\ Shifted[Idx(b)] <= b  BY <1>2, IdxInBuckets
<1>4. /\ Shifted[Idx(a) + 1] <= Shifted[Idx(b)]
      /\ Shifted[Idx(a) + 1] \in Nat /\ Shifted[Idx(b)] \in Nat
  BY <1>1, <1>2, ShiftGrows, ShiftDoubles
<1>5. a \in Int /\ b \in Int  OBVIOUS
<1>. QED  BY <1>3, <1>4, <1>5

(* The rounded-up rank: a count reaches it exactly when it reaches the percentile's
   part of the total. *)
LEMMA TargetIsRank ==
    ASSUME NEW p \in DOMAIN Percentiles, NEW n \in Nat \ {0}
    PROVE  LET T == Target(n, Percentiles[p][1], Percentiles[p][2])
           IN  /\ T \in 1..n
               /\ \A c \in Nat :
                     (c >= T) <=> (Percentiles[p][2] * c >= Percentiles[p][1] * n)
<1>1. \/ Percentiles[p] = <<50, 100>> \/ Percentiles[p] = <<95, 100>>
      \/ Percentiles[p] = <<99, 100>> \/ Percentiles[p] = <<999, 1000>>
  BY DEF Percentiles
<1>2. CASE Percentiles[p] = <<50, 100>>  BY <1>2 DEF Target
<1>3. CASE Percentiles[p] = <<95, 100>>  BY <1>3 DEF Target
<1>4. CASE Percentiles[p] = <<99, 100>>  BY <1>4 DEF Target
<1>5. CASE Percentiles[p] = <<999, 1000>>  BY <1>5 DEF Target
<1>. QED  BY <1>1, <1>2, <1>3, <1>4, <1>5

(* The samples below a latency, and the samples up to it. *)
Under(S, u) == {t \in S : t.us < u}
Upto(S, u) == {t \in S : t.us <= u}

(* Of finitely many samples, for every rank T, there is one that has fewer than T
   below it and at least T up to it: the one with the least such latency. *)
LEMMA SampleOfRank ==
    ASSUME NEW S \in SUBSET Sample, IsFiniteSet(S), NEW T \in 1..Cardinality(S),
           \A s \in S : s.us <= ULLONG_MAX
    PROVE  \E s \in S : /\ Cardinality(Under(S, s.us)) < T
                        /\ Cardinality(Upto(S, s.us)) >= T
<1>. DEFINE U == {u \in Nat : Cardinality(Upto(S, u)) >= T}
<1>1. T \in Nat \ {0} /\ Cardinality(S) \in Nat /\ \A s \in S : s.us \in Nat
  BY FS_CardinalityType DEF Sample
<1>2. ULLONG_MAX \in Nat
  <2>1. 0 \in Nat /\ kBuckets \in Nat /\ 0 <= kBuckets  BY HistogramSize
  <2>2. Shifted[0] <= Shifted[kBuckets]  BY <2>1, ShiftGrows
  <2>3. Shifted[0] = 1 /\ Shifted[kBuckets] \in Nat  BY <2>1, ShiftDoubles
  <2>. QED  BY <2>2, <2>3 DEF ULLONG_MAX
<1>3. ULLONG_MAX \in U
  <2>1. Upto(S, ULLONG_MAX) = S  BY DEF Upto
  <2>. QED  BY <1>1, <1>2, <2>1
<1>. HIDE DEF U
<1>4. PICK u \in U : \A k \in U : u <= k
  <2>1. U \subseteq Nat  BY DEF U
  <2>. QED  BY <1>3, <2>1, LeastNat
<1>5. u \in Nat /\ Cardinality(Upto(S, u)) >= T  BY DEF U
<1>6. Cardinality(Under(S, u)) < T
  <2>1. CASE u = 0
    <3>1. Under(S, u) = {}  BY <1>1, <2>1 DEF Under
    <3>. QED  BY <1>1, <3>1, FS_EmptySet
  <2>2. CASE u # 0
    <3>1. u - 1 \in Nat /\ u - 1 \notin U  BY <1>4, <1>5, <2>2
    <3>2. Under(S, u) = Upto(S, u - 1)  BY <1>1, <1>5, <3>1 DEF Under, Upto
    <3>3. Upto(S, u - 1) \subseteq S  BY DEF Upto
    <3>4. Cardinality(Upto(S, u - 1)) \in Nat  BY <3>3, FS_Subset, FS_CardinalityType
    <3>. QED  BY <1>1, <3>1, <3>2, <3>4 DEF U
  <2>. QED  BY <2>1, <2>2
<1>7. \E s \in S : s.us = u
  <2>1. SUFFICES ASSUME \A s \in S : s.us # u PROVE FALSE  OBVIOUS
  <2>2. Under(S, u) = Upto(S, u)  BY <1>1, <1>5, <2>1 DEF Under, Upto
  <2>3. Upto(S, u) \subseteq S  BY DEF Upto
  <2>4. Cardinality(Upto(S, u)) \in Nat  BY <2>3, FS_Subset, FS_CardinalityType
  <2>. QED  BY <1>1, <1>5, <1>6, <2>2, <2>4
<1>. QED  BY <1>5, <1>6, <1>7

(* percentile_target: the first bucket that reaches the rank is the bucket of the
   sample of that rank, and its upper bound is off by a factor of two at most. *)
LEMMA EstimateBrackets ==
    ASSUME NEW local \in [Buckets -> SUBSET Sample], NEW S, S = UNION {local[i] : i \in Buckets},
           IsFiniteSet(S), NEW T \in 1..Cardinality(S),
           \A i \in Buckets : \A s \in local[i] : s.us \in 0..ULLONG_MAX /\ Idx(s.us) = i
    PROVE  \E s \in S : /\ Cardinality(Under(S, s.us)) < T
                        /\ Cardinality(Upto(S, s.us)) >= T
                        /\ s.us <= PercentileTarget(local, T)
                        /\ PercentileTarget(local, T) <= 2 * (IF s.us = 0 THEN 1 ELSE s.us)
<1>. DEFINE First(i) == /\ CumulativeCount(local, i) >= T
                        /\ \A k \in 0..(i - 1) : CumulativeCount(local, k) < T
            Lowest(i) == UNION {local[k] : k \in 0..i}
<1>1. /\ T \in Nat \ {0} /\ Cardinality(S) \in Nat /\ S \subseteq Sample
      /\ kBuckets \in Nat \ {0} /\ kBuckets - 1 \in Buckets
  BY FS_CardinalityType, HistogramSize DEF Buckets
<1>2. \A s \in S : s.us \in 0..ULLONG_MAX /\ Idx(s.us) \in Buckets /\ s \in local[Idx(s.us)]
  OBVIOUS
<1>3. \A i \in Buckets : Lowest(i) = {s \in S : Idx(s.us) <= i}
  <2>1. ASSUME NEW i \in Buckets PROVE i \in Nat /\ 0..i \subseteq Buckets
    BY HistogramSize DEF Buckets
  <2>2. ASSUME NEW i \in Buckets, NEW s \in Lowest(i) PROVE s \in S /\ Idx(s.us) <= i
    <3>1. PICK k \in 0..i : s \in local[k]  OBVIOUS
    <3>. QED  BY <2>1, <3>1
  <2>3. ASSUME NEW i \in Buckets, NEW s \in S, Idx(s.us) <= i PROVE s \in Lowest(i)
    <3>1. Idx(s.us) \in 0..i  BY <1>2, <2>1, <2>3, HistogramSize DEF Buckets
    <3>. QED  BY <1>2, <3>1
  <2>. QED  BY <2>2, <2>3
<1>4. \A i \in Buckets : CumulativeCount(local, i) = Cardinality(Lowest(i))
  BY DEF CumulativeCount
<1>. HIDE DEF Lowest
<1>5. \A i \in Buckets : Lowest(i) \subseteq S /\ IsFiniteSet(Lowest(i)) /\ Cardinality(Lowest(i)) \in Nat
  <2>1. \A i \in Buckets : Lowest(i) \subseteq S  BY <1>3
  <2>. QED  BY <2>1, FS_Subset, FS_CardinalityType
<1>6. \E i \in Buckets : First(i)
  <2>. DEFINE R == {i \in Buckets : Cardinality(Lowest(i)) >= T}
  <2>1. kBuckets - 1 \in R
    <3>1. \A s \in S : Idx(s.us) <= kBuckets - 1  BY <1>2, HistogramSize DEF Buckets
    <3>2. Lowest(kBuckets - 1) = S  BY <1>1, <1>3, <3>1
    <3>. QED  BY <1>1, <3>2
  <2>2. R \subseteq Nat  BY HistogramSize DEF Buckets
  <2>. HIDE DEF R
  <2>3. PICK i \in R : \A k \in R : i <= k  BY <2>1, <2>2, LeastNat
  <2>4. i \in Buckets /\ Cardinality(Lowest(i)) >= T  BY <2>3 DEF R
  <2>5. ASSUME NEW k \in 0..(i - 1) PROVE CumulativeCount(local, k) < T
    <3>1. k \in Buckets /\ ~(i <= k)  BY <2>4, HistogramSize DEF Buckets
    <3>2. k \notin R  BY <2>3, <3>1
    <3>. QED  BY <1>1, <1>4, <1>5, <3>1, <3>2 DEF R
  <2>. QED  BY <1>4, <2>4, <2>5
<1>. DEFINE f == CHOOSE i \in Buckets : First(i)
<1>7. f \in Buckets /\ First(f)  BY <1>6
<1>8. PercentileTarget(local, T) = IF f = kBuckets - 1 THEN ULLONG_MAX ELSE Shifted[f + 1]
  BY DEF PercentileTarget
<1>. HIDE DEF f
<1>9. PICK s \in S : /\ Cardinality(Under(S, s.us)) < T
                     /\ Cardinality(Upto(S, s.us)) >= T
  <2>1. \A s \in S : s.us <= ULLONG_MAX  BY <1>2
  <2>. QED  BY <1>1, <2>1, SampleOfRank
<1>. DEFINE b == Idx(s.us)  low == Under(S, s.us)  up == Upto(S, s.us)
<1>10. b \in Buckets /\ s.us \in 0..ULLONG_MAX /\ b \in Nat /\ f \in Nat
  BY <1>2, <1>7, HistogramSize DEF Buckets
<1>11. f <= b
  <2>1. up \subseteq Lowest(b)
    <3>1. ASSUME NEW t \in up PROVE t \in S /\ Idx(t.us) <= b
      <4>1. t.us \in 0..ULLONG_MAX /\ Idx(t.us) \in Nat /\ ~(s.us < t.us)
        BY <1>2, <1>10, HistogramSize DEF Buckets, Upto
      <4>2. ~(b < Idx(t.us))  BY <1>10, <4>1, LowerBucketIsSmaller
      <4>. QED  BY <1>10, <4>1, <4>2 DEF Upto
    <3>. QED  BY <1>3, <1>10, <3>1
  <2>2. Cardinality(up) <= Cardinality(Lowest(b)) /\ Cardinality(up) \in Nat
    BY <1>5, <1>10, <2>1, FS_Subset, FS_CardinalityType
  <2>3. CumulativeCount(local, b) >= T /\ CumulativeCount(local, b) \in Nat
    BY <1>1, <1>4, <1>5, <1>9, <1>10, <2>2
  <2>4. b \notin 0..(f - 1)  BY <1>1, <1>7, <2>3
  <2>. QED  BY <1>10, <2>4
<1>12. ~(f < b)
  <2>1. SUFFICES ASSUME f < b PROVE FALSE  OBVIOUS
  <2>2. Lowest(f) \subseteq low
    <3>1. ASSUME NEW t \in Lowest(f) PROVE t \in S /\ t.us < s.us
      <4>1. t \in S /\ Idx(t.us) <= f  BY <1>3, <1>7
      <4>2. t.us \in 0..ULLONG_MAX /\ Idx(t.us) \in Nat
        BY <1>2, <4>1, HistogramSize DEF Buckets
      <4>3. Idx(t.us) < b  BY <1>10, <2>1, <4>1, <4>2
      <4>. QED  BY <1>10, <4>1, <4>2, <4>3, LowerBucketIsSmaller
    <3>. QED  BY <3>1 DEF Under
  <2>3. low \subseteq S  BY DEF Under
  <2>4. Cardinality(Lowest(f)) <= Cardinality(low) /\ Cardinality(low) \in Nat
    BY <2>2, <2>3, FS_Subset, FS_CardinalityType
  <2>. QED  BY <1>1, <1>4, <1>5, <1>7, <1>9, <2>4
<1>13. Idx(s.us) = f  BY <1>10, <1>11, <1>12
<1>14. /\ s.us < Shifted[f + 1] /\ Shifted[f + 1] = 2 * Shifted[f] /\ Shifted[f] \in Nat
       /\ IF s.us = 0 THEN f = 0 /\ Shifted[f] = 1 ELSE Shifted[f] <= s.us
       /\ f = kBuckets - 1 => ULLONG_MAX = Shifted[f + 1] - 1
  <2>1. f = kBuckets - 1 => f + 1 = kBuckets  BY <1>1
  <2>. QED  BY <1>10, <1>13, <2>1, IdxInBuckets, ShiftDoubles DEF ULLONG_MAX
<1>15. s.us \in Nat  BY <1>10
<1>16. /\ s.us <= PercentileTarget(local, T)
       /\ PercentileTarget(local, T) <= 2 * (IF s.us = 0 THEN 1 ELSE s.us)
  BY <1>8, <1>14, <1>15
<1>. QED  BY <1>9, <1>16

(* The report that ends a snapshot brackets every percentile of its samples. *)
LEMMA SnapshotMaxBrackets ==
    ASSUME HistInv, SnapshotMax PROVE PercentilesBracket'
<1>. DEFINE local == snap.local
            empty == \A i \in Buckets : local[i] = {}
            est == IF empty THEN [p \in DOMAIN Percentiles |-> 0]
                            ELSE [p \in DOMAIN Percentiles |-> PercentileOf(local, p)]
<1>1. reports' = {[samples |-> Taken, est |-> est]}  BY DEF SnapshotMax, Taken
<1>2. local \in [Buckets -> SUBSET Sample] /\ Taken = UNION {local[i] : i \in Buckets}
  BY DEF HistInv, HistTypes, Taken
<1>3. IsFiniteSet(Taken)  BY FS_Subset DEF HistInv, HeldInv, Holding
<1>4. \A i \in Buckets : \A s \in local[i] : s.us \in 0..ULLONG_MAX /\ Idx(s.us) = i
  <2>1. ASSUME NEW i \in Buckets, NEW s \in local[i] PROVE s.us \in 0..ULLONG_MAX
    <3>1. s \in Holding  BY <1>2 DEF Holding
    <3>. QED  BY <3>1, ProgramConstants DEF HistInv, HeldInv
  <2>. QED  BY <2>1 DEF HistInv, BucketInv
<1>. HIDE DEF local
<1>5. ASSUME NEW p \in DOMAIN Percentiles, Taken # {}
      PROVE  \E s \in Taken :
               /\ Percentiles[p][2] * Cardinality(Under(Taken, s.us))
                     < Percentiles[p][1] * Cardinality(Taken)
               /\ Percentiles[p][2] * Cardinality(Upto(Taken, s.us))
                     >= Percentiles[p][1] * Cardinality(Taken)
               /\ s.us <= est[p] /\ est[p] <= 2 * (IF s.us = 0 THEN 1 ELSE s.us)
  <2>. DEFINE n == Cardinality(Taken)
              T == Target(n, Percentiles[p][1], Percentiles[p][2])
  <2>1. n \in Nat \ {0}  BY <1>3, <1>5, FS_CardinalityType, FS_EmptySet
  <2>2. ~empty  BY <1>2, <1>5
  <2>3. CumulativeCount(local, kBuckets - 1) = n  BY <1>2 DEF CumulativeCount, Buckets
  <2>4. est[p] = PercentileTarget(local, T)  BY <2>2, <2>3 DEF PercentileOf
  <2>. HIDE DEF est, empty
  <2>5. T \in 1..n /\ \A c \in Nat : (c >= T) <=> (Percentiles[p][2] * c >= Percentiles[p][1] * n)
    <3>. HIDE DEF n
    <3>. QED  BY <2>1, TargetIsRank
  <2>. HIDE DEF T
  <2>6. PICK s \in Taken : /\ Cardinality(Under(Taken, s.us)) < T
                           /\ Cardinality(Upto(Taken, s.us)) >= T
                           /\ s.us <= PercentileTarget(local, T)
                           /\ PercentileTarget(local, T) <= 2 * (IF s.us = 0 THEN 1 ELSE s.us)
    BY <1>2, <1>3, <1>4, <2>5, EstimateBrackets
  <2>. DEFINE low == Cardinality(Under(Taken, s.us))  up == Cardinality(Upto(Taken, s.us))
  <2>7. low \in Nat /\ up \in Nat
    <3>1. Under(Taken, s.us) \subseteq Taken /\ Upto(Taken, s.us) \subseteq Taken
      BY DEF Under, Upto
    <3>. QED  BY <1>3, <3>1, FS_Subset, FS_CardinalityType
  <2>8. Percentiles[p][2] * up >= Percentiles[p][1] * n  BY <2>5, <2>6, <2>7
  <2>9. ~(low >= T)
    <3>1. T \in Int  BY <2>5
    <3>. HIDE DEF low, up
    <3>2. low < T  BY <2>6 DEF low
    <3>. QED  BY <2>7, <3>1, <3>2
  <2>10. ~(Percentiles[p][2] * low >= Percentiles[p][1] * n)  BY <2>5, <2>7, <2>9
  <2>11. Percentiles[p][2] \in Nat /\ Percentiles[p][1] \in Nat  BY DEF Percentiles
  <2>12. Percentiles[p][2] * low < Percentiles[p][1] * n
    <3>. HIDE DEF low, up, n
    <3>. QED  BY <2>1, <2>7, <2>10, <2>11
  <2>. QED  BY <2>4, <2>6, <2>8, <2>12
<1>. HIDE DEF est
<1>6. \A r \in reports' : r.samples = Taken /\ r.est = est  BY <1>1
<1>. QED  BY <1>5, <1>6 DEF PercentilesBracket, Under, Upto

(* Only a snapshot touches the report. *)
LEMMA BracketStep ==
    ASSUME HistInv, PercentilesBracket, [Next]_vars PROVE PercentilesBracket'
<1>1. CASE SnapshotMax  BY <1>1, SnapshotMaxBrackets
<1>2. CASE SnapshotBegin  BY <1>2 DEF SnapshotBegin, PercentilesBracket
<1>3. CASE UNCHANGED reports  BY <1>3 DEF PercentilesBracket
<1>4. MainStep => UNCHANGED reports
  BY DEF MainStep, ParseArgs, InstallHandlers, LoadConfig, RunOffline, OfflineEnds,
         CheckSources, OpenTradeWriter, OpenOrderbookWriter, OpenWriter, BuildManager,
         StartManager, StartReporter, LoopEnds, StopManager, JoinReporter, DestroyNext,
         ReturnFromMain, histVars
<1>5. Signal \/ LinkUp \/ LinkLost \/ Receive \/ Exited \/ UNCHANGED vars => UNCHANGED reports
  BY DEF Signal, LinkUp, LinkLost, Receive, Exited, vars, histVars
<1>6. ReaderStep => UNCHANGED reports
  BY DEF ReaderStep, Callback, RecordSample, RecordBegin, RecordStep, RecordBucket, RecordLoad,
         RecordCas, RecordCasFails, histVars
<1>7. ReporterStep => SnapshotBegin \/ SnapshotMax \/ UNCHANGED reports
  BY DEF ReporterStep, ReporterTick, ReporterBreak, FinalFlush, CollectStep, SnapshotBucket,
         histVars
<1>. QED  BY <1>1, <1>2, <1>3, <1>4, <1>5, <1>6, <1>7 DEF Next

(* Whatever samples the two threads leave in a snapshot, each percentile it reports
   is at least the sample of that rank and at most twice it. *)
THEOREM PercentilesAreBracketed == Spec => []PercentilesBracket
<1>1. Init => PercentilesBracket  BY DEF Init, HistInit, PercentilesBracket
<1>. QED  BY <1>1, HistInvariance, BracketStep, PTL DEF Spec

-------------------------------------------------------------------------------
(* The arguments *)

(* The states of the scan, word by word. *)
ScanStates(words, f, n) ==
    f = [k \in 0..n |-> IF k = 0 THEN ScanStart ELSE ScanWord(f[k - 1], words[k])]

(* A scan goes on from any number of words to the next. *)
LEMMA ScanExists ==
    ASSUME NEW words PROVE \A n \in Nat : \E f : ScanStates(words, f, n)
<1>. DEFINE T == {n \in Nat : ~\E f : ScanStates(words, f, n)}
<1>1. SUFFICES ASSUME T # {} PROVE FALSE  OBVIOUS
<1>2. PICK n \in T : \A k \in T : n <= k  BY <1>1, LeastNat
<1>3. CASE n = 0
  <2>1. ScanStates(words, [k \in 0..0 |-> ScanStart], 0)  BY DEF ScanStates
  <2>. QED  BY <1>3, <2>1
<1>4. CASE n # 0
  <2>1. n - 1 \in Nat /\ n - 1 \notin T  BY <1>2, <1>4
  <2>2. PICK f : ScanStates(words, f, n - 1)  BY <2>1
  <2>. DEFINE g == [k \in 0..n |-> IF k = n THEN ScanWord(f[n - 1], words[n]) ELSE f[k]]
              h == [k \in 0..n |-> IF k = 0 THEN ScanStart ELSE ScanWord(g[k - 1], words[k])]
  <2>3. ASSUME NEW k \in 0..n PROVE g[k] = h[k]
    <3>1. CASE k = n
      <4>1. k # 0 /\ k - 1 \in 0..n /\ k - 1 # n  BY <1>4, <3>1
      <4>. QED  BY <3>1, <4>1
    <3>2. CASE k # n
      <4>1. k \in 0..(n - 1) /\ (k # 0 => k - 1 \in 0..n /\ k - 1 # n)  BY <3>2
      <4>2. f[k] = IF k = 0 THEN ScanStart ELSE ScanWord(f[k - 1], words[k])
        BY <2>2, <4>1 DEF ScanStates
      <4>. QED  BY <3>2, <4>1, <4>2
    <3>. QED  BY <3>1, <3>2
  <2>4. g = h  BY <2>3
  <2>5. ScanStates(words, g, n)  BY <2>4 DEF ScanStates
  <2>. QED  BY <2>5
<1>. QED  BY <1>3, <1>4

(* The scan starts with nothing wanted and takes one word at a time. *)
LEMMA ScanSteps ==
    ASSUME NEW words, Len(words) \in Nat
    PROVE  /\ Scan(words)[0] = ScanStart
           /\ \A k \in 1..Len(words) : Scan(words)[k] = ScanWord(Scan(words)[k - 1], words[k])
<1>1. Scan(words) = CHOOSE f : ScanStates(words, f, Len(words))
  BY DEF Scan, ScanStates
<1>2. ScanStates(words, Scan(words), Len(words))
  <2>1. \E f : ScanStates(words, f, Len(words))  BY ScanExists
  <2>. QED  BY <1>1, <2>1
<1>. DEFINE f == Scan(words)  n == Len(words)
<1>3. f = [k \in 0..n |-> IF k = 0 THEN ScanStart ELSE ScanWord(f[k - 1], words[k])]
  BY <1>2 DEF ScanStates
<1>. HIDE DEF f, n
<1>4. \A k \in 0..n : f[k] = IF k = 0 THEN ScanStart ELSE ScanWord(f[k - 1], words[k])
  BY <1>3
<1>5. n \in Nat  BY DEF n
<1>6. f[0] = ScanStart /\ \A k \in 1..n : f[k] = ScanWord(f[k - 1], words[k])  BY <1>4, <1>5
<1>. QED  BY <1>6 DEF f, n

Options == [mode : {"live", "replay", "bench"}, messages : Nat, gap : Nat, gapGiven : BOOLEAN,
            write : BOOLEAN, pin : Int]
ScanState == [options : Options, wants : {"nothing", "messages", "gap", "pin"},
              status : {"run", "help", "refused"}]

(* The numbers the words stand for. *)
LEMMA WordNumbers ==
    /\ NumberOf("0") = {0} /\ NumberOf("1") = {1}
    /\ NumberOf("wide") = {MaxPin + 1} /\ NumberOf("long") = {MaxGapUs + 1}
    /\ \A word : word \notin {"0", "1", "wide", "long"} => NumberOf(word) = {}
BY DEF NumberOf

(* The value of a flag is stored when it is one of the flag's values, and refused
   when it is not. *)
LEMMA ValueIsTaken ==
    ASSUME NEW st \in ScanState, NEW word, st.status = "run", st.wants \in {"gap", "pin"}
    PROVE  LET new == ScanWord(st, word)  o == st.options
               flag == IF st.wants = "gap" THEN "--bench-gap-us" ELSE "--pin-cpu"
           IN  /\ new \in ScanState
               /\ IF word \in Values(flag)
                  THEN /\ new.status = "run" /\ new.wants = "nothing"
                       /\ new.options.mode = o.mode /\ new.options.write = o.write
                       /\ new.options.messages = o.messages
                       /\ IF st.wants = "gap"
                          THEN /\ new.options.gapGiven = TRUE /\ new.options.pin = o.pin
                               /\ NumberOf(word) = {new.options.gap}
                          ELSE /\ new.options.gapGiven = o.gapGiven /\ new.options.gap = o.gap
                               /\ NumberOf(word) = {new.options.pin}
                  ELSE new.status = "refused"
<1>0. MaxPin \in Nat \ {0} /\ MaxGapUs \in Nat /\ MaxPin < MaxGapUs  BY CommandLineLimits
<1>1. st.options \in Options /\ DOMAIN st = {"options", "wants", "status"}  BY DEF ScanState
<1>2. CASE st.wants = "gap"
  <2>. DEFINE N == {n \in ParseU64WithMin(word, 0) : n <= MaxGapUs}
              g == [st EXCEPT !.options.gapGiven = TRUE]
  <2>1. ScanWord(st, word) = TakeValue(g, "gap", N)  BY <1>2 DEF ScanWord, TakeGap
  <2>2. Values("--bench-gap-us") = {"0", "1", "wide"}  BY DEF Values
  <2>3. CASE word \in {"0", "1", "wide"}
    <3>1. PICK x \in Nat : NumberOf(word) = {x} /\ x <= MaxGapUs  BY <1>0, <2>3, WordNumbers
    <3>2. N = {x}  BY <3>1 DEF ParseU64WithMin
    <3>3. (CHOOSE n \in N : TRUE) = x /\ N # {}  BY <3>2
    <3>4. ScanWord(st, word) = [g EXCEPT !.wants = "nothing", !.options["gap"] = x]
      BY <2>1, <3>3 DEF TakeValue
    <3>. DEFINE o == st.options  no == [o EXCEPT !.gapGiven = TRUE, !.gap = x]
    <3>5. ScanWord(st, word) = [st EXCEPT !.wants = "nothing", !.options = no]
      BY <1>1, <3>4 DEF ScanState, Options
    <3>6. /\ no \in Options /\ no.mode = o.mode /\ no.write = o.write /\ no.gapGiven = TRUE
          /\ no.pin = o.pin /\ no.gap = x /\ no.messages = o.messages
      BY <1>1 DEF Options
    <3>. HIDE DEF no
    <3>7. /\ ScanWord(st, word) \in ScanState /\ ScanWord(st, word).options = no
          /\ ScanWord(st, word).status = "run" /\ ScanWord(st, word).wants = "nothing"
      BY <3>5, <3>6 DEF ScanState
    <3>. QED  BY <1>2, <2>2, <2>3, <3>1, <3>6, <3>7
  <2>4. CASE word \notin {"0", "1", "wide"}
    <3>1. N = {}  BY <1>0, <2>4, WordNumbers DEF ParseU64WithMin
    <3>2. ScanWord(st, word) = [g EXCEPT !.status = "refused"]
      BY <2>1, <3>1 DEF TakeValue, Refuse
    <3>. QED  BY <1>2, <2>2, <2>4, <3>2 DEF ScanState, Options
  <2>. QED  BY <2>3, <2>4
<1>3. CASE st.wants = "pin"
  <2>. DEFINE N == {n \in ParseU64WithMin(word, 0) : n <= MaxPin}
  <2>1. ScanWord(st, word) = TakeValue(st, "pin", N)  BY <1>3 DEF ScanWord, TakePin
  <2>2. Values("--pin-cpu") = {"0", "1"}  BY DEF Values
  <2>3. CASE word \in {"0", "1"}
    <3>1. PICK x \in Nat : NumberOf(word) = {x} /\ x <= MaxPin  BY <1>0, <2>3, WordNumbers
    <3>2. N = {x}  BY <3>1 DEF ParseU64WithMin
    <3>3. (CHOOSE n \in N : TRUE) = x /\ N # {}  BY <3>2
    <3>4. ScanWord(st, word) = [st EXCEPT !.wants = "nothing", !.options["pin"] = x]
      BY <2>1, <3>3 DEF TakeValue
    <3>. DEFINE o == st.options  no == [o EXCEPT !.pin = x]
    <3>5. ScanWord(st, word) = [st EXCEPT !.wants = "nothing", !.options = no]
      BY <1>1, <3>4 DEF ScanState, Options
    <3>6. /\ no \in Options /\ no.mode = o.mode /\ no.write = o.write
          /\ no.gapGiven = o.gapGiven /\ no.gap = o.gap /\ no.pin = x /\ no.messages = o.messages
      BY <1>1 DEF Options
    <3>. HIDE DEF no
    <3>7. /\ ScanWord(st, word) \in ScanState /\ ScanWord(st, word).options = no
          /\ ScanWord(st, word).status = "run" /\ ScanWord(st, word).wants = "nothing"
      BY <3>5, <3>6 DEF ScanState
    <3>. QED  BY <1>3, <2>2, <2>3, <3>1, <3>6, <3>7
  <2>4. CASE word \notin {"0", "1"}
    <3>1. N = {}  BY <1>0, <2>4, WordNumbers DEF ParseU64WithMin
    <3>2. ScanWord(st, word) = [st EXCEPT !.status = "refused"]
      BY <2>1, <3>1 DEF TakeValue, Refuse
    <3>. QED  BY <1>3, <2>2, <2>4, <3>2 DEF ScanState, Options
  <2>. QED  BY <2>3, <2>4
<1>. QED  BY <1>2, <1>3

(* Where a flag may stand, it is taken; only --bench-pipeline may have a value
   there. *)
LEMMA FlagIsTaken ==
    ASSUME NEW st \in ScanState, NEW word, st.status = "run", st.wants \in {"nothing", "messages"}
    PROVE  LET new == ScanWord(st, word)  o == st.options
               value == st.wants = "messages" /\ word \in Values("--bench-pipeline")
               again == word \in ModeFlags /\ o.mode # "live"
           IN  /\ new \in ScanState
               /\ new.status = IF value \/ (word \in Flags \ {"--help"} /\ ~again) THEN "run"
                               ELSE IF word = "--help" THEN "help" ELSE "refused"
               /\ new.status = "run" =>
                    /\ new.wants = CASE word = "--bench-pipeline" -> "messages"
                                      [] word = "--bench-gap-us"   -> "gap"
                                      [] word = "--pin-cpu"        -> "pin"
                                      [] OTHER                     -> "nothing"
                    /\ new.options.mode = CASE word = "--replay"         -> "replay"
                                             [] word = "--bench-pipeline" -> "bench"
                                             [] OTHER                     -> o.mode
                    /\ new.options.write = IF word = "--bench-write" THEN TRUE ELSE o.write
                    /\ new.options.gapGiven = o.gapGiven /\ new.options.gap = o.gap
                    /\ new.options.pin = o.pin
                    /\ IF value THEN NumberOf(word) = {new.options.messages}
                                ELSE new.options.messages = o.messages
<1>. DEFINE at == [st EXCEPT !.wants = "nothing"]
<1>0. MaxPin \in Nat \ {0} /\ MaxGapUs \in Nat /\ MaxPin < MaxGapUs  BY CommandLineLimits
<1>1. at \in ScanState /\ at.options = st.options /\ at.status = "run" /\ at.wants = "nothing"
  BY DEF ScanState
<1>2. Values("--bench-pipeline") = {"1", "wide", "long"}  BY DEF Values
<1>3. CASE st.wants = "messages" /\ ~Dashed(word)
  <2>. DEFINE N == ParseU64WithMin(word, 1)
  <2>1. ScanWord(st, word) = TakeValue(st, "messages", N)
    BY <1>3 DEF ScanWord, TakeMessages
  <2>2. word \notin Flags  BY <1>3 DEF Dashed
  <2>3. CASE word \in {"1", "wide", "long"}
    <3>1. PICK x \in Nat : NumberOf(word) = {x} /\ x >= 1  BY <1>0, <2>3, WordNumbers
    <3>2. N = {x}  BY <3>1 DEF ParseU64WithMin
    <3>3. (CHOOSE n \in N : TRUE) = x /\ N # {}  BY <3>2
    <3>4. ScanWord(st, word) = [st EXCEPT !.wants = "nothing", !.options["messages"] = x]
      BY <2>1, <3>3 DEF TakeValue
    <3>. DEFINE o == st.options  no == [o EXCEPT !.messages = x]
    <3>5. ScanWord(st, word) = [st EXCEPT !.wants = "nothing", !.options = no]
      BY <3>4 DEF ScanState, Options
    <3>6. /\ no \in Options /\ no.mode = o.mode /\ no.write = o.write
          /\ no.gapGiven = o.gapGiven /\ no.gap = o.gap /\ no.pin = o.pin
          /\ no.messages = x
      BY <1>1 DEF Options, ScanState
    <3>. HIDE DEF no
    <3>7. /\ ScanWord(st, word) \in ScanState /\ ScanWord(st, word).options = no
          /\ ScanWord(st, word).status = "run" /\ ScanWord(st, word).wants = "nothing"
      BY <3>5, <3>6 DEF ScanState
    <3>. QED  BY <1>2, <1>3, <2>2, <2>3, <3>1, <3>6, <3>7 DEF Flags, ModeFlags
  <2>4. CASE word \notin {"1", "wide", "long"}
    <3>1. N = {}  BY <2>4, WordNumbers DEF ParseU64WithMin
    <3>2. ScanWord(st, word) = [st EXCEPT !.status = "refused"]
      BY <2>1, <3>1 DEF TakeValue, Refuse
    <3>. QED  BY <1>2, <2>2, <2>4, <3>2 DEF ScanState, Options, Flags
  <2>. QED  BY <2>3, <2>4
<1>4. CASE st.wants = "nothing" \/ Dashed(word)
  <2>1. ScanWord(st, word) = TakeFlag(at, word)
    <3>1. st.wants = "nothing" => at = st  BY DEF ScanState
    <3>. QED  BY <1>4, <3>1 DEF ScanWord
  <2>2. ~(st.wants = "messages" /\ word \in Values("--bench-pipeline"))
    BY <1>2, <1>4 DEF Dashed, Flags
  <2>. HIDE DEF at
  <2>3. CASE word \notin Flags  BY <1>1, <2>1, <2>2, <2>3 DEF TakeFlag, Refuse, Flags, ScanState
  <2>4. CASE word = "--help"
    BY <1>1, <2>1, <2>2, <2>4 DEF TakeFlag, Flags, ModeFlags, ScanState
  <2>5. CASE word = "--replay"
    BY <1>1, <2>1, <2>2, <2>5
       DEF TakeFlag, SelectMode, Refuse, Flags, ModeFlags, ScanState, Options
  <2>6. CASE word = "--bench-pipeline"
    BY <1>1, <2>1, <2>2, <2>6
       DEF TakeFlag, SelectMode, Refuse, Flags, ModeFlags, ScanState, Options
  <2>7. CASE word = "--bench-write"
    <3>. DEFINE o == st.options  no == [o EXCEPT !.write = TRUE]
    <3>1. ScanWord(st, word) = [at EXCEPT !.options = no]
      BY <1>1, <2>1, <2>7 DEF TakeFlag, ScanState, Options
    <3>2. /\ no \in Options /\ no.mode = o.mode /\ no.write = TRUE
          /\ no.gapGiven = o.gapGiven /\ no.gap = o.gap /\ no.pin = o.pin
          /\ no.messages = o.messages
      BY DEF Options, ScanState
    <3>. HIDE DEF no
    <3>3. /\ ScanWord(st, word) \in ScanState /\ ScanWord(st, word).options = no
          /\ ScanWord(st, word).status = "run" /\ ScanWord(st, word).wants = "nothing"
      BY <1>1, <3>1, <3>2 DEF ScanState
    <3>. QED  BY <2>2, <2>7, <3>2, <3>3 DEF Flags, ModeFlags
  <2>8. CASE word \in {"--bench-gap-us", "--pin-cpu"}
    BY <1>1, <2>1, <2>2, <2>8 DEF TakeFlag, Flags, ModeFlags, ScanState, Options
  <2>. QED  BY <2>3, <2>4, <2>5, <2>6, <2>7, <2>8 DEF Flags
<1>. QED  BY <1>3, <1>4

(* The first n words are the beginning of a sentence: only the last may still need
   its value. *)
Beginning(words, n) ==
    /\ \A k \in 1..n : \/ words[k] \in Flags \ {"--help"}
                        \/ (k > 1 /\ words[k] \in Values(words[k - 1]))
    /\ \A k \in 1..(n - 1) : words[k] \in NeedsValue => words[k + 1] \in Values(words[k])
    /\ \A i, k \in 1..n : words[i] \in ModeFlags /\ words[k] \in ModeFlags => i = k

(* The last of the first n words. *)
LastIs(words, n, flag) == n > 0 /\ words[n] = flag

(* The options are those of the words so far; a value that is still to come may
   change one. *)
OptionsFit(words, n, st) ==
    /\ st.options.mode = Mode(words, n)
    /\ st.options.write = HasFlag(words, n, "--bench-write")
    /\ MessagesGiven(words, n, st.options.messages)
    /\ st.wants # "gap" => /\ st.options.gapGiven = HasFlag(words, n, "--bench-gap-us")
                           /\ LastGiven(words, n, "--bench-gap-us", 0, st.options.gap)
    /\ st.wants # "pin" => LastGiven(words, n, "--pin-cpu", -1, st.options.pin)

(* What the state of the scan says of the first n words; a refusal is final. *)
ScanInv(words, n, st) ==
    /\ st \in ScanState
    /\ st.status = "run" =>
          /\ Beginning(words, n) /\ ~AsksHelp(words, n) /\ OptionsFit(words, n, st)
          /\ st.wants = "messages" <=> LastIs(words, n, "--bench-pipeline")
          /\ st.wants = "gap" <=> LastIs(words, n, "--bench-gap-us")
          /\ st.wants = "pin" <=> LastIs(words, n, "--pin-cpu")
    /\ st.status = "help" => AsksHelp(words, n)
    /\ st.status = "refused" => /\ ~AsksHelp(words, n)
                                /\ \A m \in Nat : m >= n => ~Sentence(words, m)

(* A sentence is a beginning whose last word needs no value. *)
LEMMA SentenceIsBeginning ==
    ASSUME NEW words, NEW n \in Nat
    PROVE  Sentence(words, n) <=>
             Beginning(words, n) /\ (n > 0 => words[n] \notin NeedsValue)
<1>1. ASSUME Sentence(words, n)
      PROVE  Beginning(words, n) /\ (n > 0 => words[n] \notin NeedsValue)
  BY <1>1 DEF Sentence, Beginning
<1>2. ASSUME Beginning(words, n), n > 0 => words[n] \notin NeedsValue
      PROVE  Sentence(words, n)
  <2>1. ASSUME NEW k \in 1..n, words[k] \in NeedsValue
        PROVE  k < n /\ words[k + 1] \in Values(words[k])
    <3>1. k # n  BY <1>2, <2>1
    <3>2. k \in 1..(n - 1)  BY <3>1
    <3>. QED  BY <1>2, <2>1, <3>2 DEF Beginning
  <2>. QED  BY <1>2, <2>1 DEF Sentence, Beginning
<1>. QED  BY <1>1, <1>2

(* The first n words of a sentence are a beginning. *)
LEMMA SentencesBegin ==
    ASSUME NEW words, NEW n \in Nat, NEW m \in Nat, n <= m, Sentence(words, m)
    PROVE  Beginning(words, n)
<1>1. \A k \in 1..n : k \in 1..m  OBVIOUS
<1>2. \A k \in 1..(n - 1) : k \in 1..m  OBVIOUS
<1>. QED  BY <1>1, <1>2 DEF Sentence, Beginning

(* One more word. *)
LEMMA OneMoreWord ==
    ASSUME NEW words, NEW n \in Nat
    PROVE  /\ \A flag : HasFlag(words, n + 1, flag) <=> HasFlag(words, n, flag) \/ words[n + 1] = flag
           /\ AsksHelp(words, n + 1) <=>
                 AsksHelp(words, n) \/ (words[n + 1] = "--help" /\ Sentence(words, n))
           /\ Beginning(words, n + 1) <=>
                 /\ Beginning(words, n)
                 /\ \/ words[n + 1] \in Flags \ {"--help"}
                    \/ (n > 0 /\ words[n + 1] \in Values(words[n]))
                 /\ n > 0 /\ words[n] \in NeedsValue => words[n + 1] \in Values(words[n])
                 /\ words[n + 1] \in ModeFlags => \A k \in 1..n : words[k] \notin ModeFlags
<1>1. \A k : k \in 1..(n + 1) <=> k \in 1..n \/ k = n + 1  OBVIOUS
<1>2. \A flag : HasFlag(words, n + 1, flag) <=> HasFlag(words, n, flag) \/ words[n + 1] = flag
  BY <1>1 DEF HasFlag
<1>3. AsksHelp(words, n + 1) <=>
        AsksHelp(words, n) \/ (words[n + 1] = "--help" /\ Sentence(words, n))
  <2>1. (n + 1) - 1 = n  OBVIOUS
  <2>. QED  BY <1>1, <2>1 DEF AsksHelp
<1>. DEFINE fits == /\ \/ words[n + 1] \in Flags \ {"--help"}
                       \/ (n > 0 /\ words[n + 1] \in Values(words[n]))
                    /\ n > 0 /\ words[n] \in NeedsValue => words[n + 1] \in Values(words[n])
                    /\ words[n + 1] \in ModeFlags => \A k \in 1..n : words[k] \notin ModeFlags
<1>4. (n + 1) - 1 = n /\ n + 1 \in 1..(n + 1) /\ (n > 0 => n \in 1..((n + 1) - 1))  OBVIOUS
<1>5. ASSUME Beginning(words, n + 1) PROVE Beginning(words, n) /\ fits
  <2>1. /\ \A k \in 1..n : k \in 1..(n + 1) /\ k # n + 1
        /\ \A k \in 1..(n - 1) : k \in 1..((n + 1) - 1)
    OBVIOUS
  <2>2. Beginning(words, n)  BY <1>5, <2>1 DEF Beginning
  <2>3. \/ words[n + 1] \in Flags \ {"--help"}
        \/ (n > 0 /\ words[n + 1] \in Values(words[n]))
    BY <1>4, <1>5 DEF Beginning
  <2>4. n > 0 /\ words[n] \in NeedsValue => words[n + 1] \in Values(words[n])
    BY <1>4, <1>5 DEF Beginning
  <2>5. words[n + 1] \in ModeFlags => \A k \in 1..n : words[k] \notin ModeFlags
    BY <1>4, <1>5, <2>1 DEF Beginning
  <2>. QED  BY <2>2, <2>3, <2>4, <2>5
<1>6. ASSUME Beginning(words, n), fits PROVE Beginning(words, n + 1)
  <2>1. ASSUME NEW k \in 1..(n + 1)
        PROVE  \/ words[k] \in Flags \ {"--help"}
               \/ (k > 1 /\ words[k] \in Values(words[k - 1]))
    <3>1. CASE k = n + 1  BY <1>4, <1>6, <3>1
    <3>2. CASE k \in 1..n  BY <1>6, <3>2 DEF Beginning
    <3>. QED  BY <1>1, <3>1, <3>2
  <2>2. ASSUME NEW k \in 1..((n + 1) - 1), words[k] \in NeedsValue
        PROVE  words[k + 1] \in Values(words[k])
    <3>1. CASE k = n  BY <1>6, <2>2, <3>1
    <3>2. CASE k # n
      <4>1. k \in 1..(n - 1)  BY <3>2
      <4>. QED  BY <1>6, <2>2, <4>1 DEF Beginning
    <3>. QED  BY <3>1, <3>2
  <2>3. ASSUME NEW j \in 1..(n + 1), NEW k \in 1..(n + 1),
               words[j] \in ModeFlags, words[k] \in ModeFlags
        PROVE  j = k
    BY <1>1, <1>6, <2>3 DEF Beginning
  <2>. QED  BY <2>1, <2>2, <2>3 DEF Beginning
<1>. QED  BY <1>2, <1>3, <1>5, <1>6

(* A value given is the last one until its flag comes again. *)
LEMMA GivenValue ==
    ASSUME NEW words, NEW n \in Nat, NEW flag, NEW default, NEW value, words[n + 1] # flag,
           \/ LastIs(words, n, flag) /\ NumberOf(words[n + 1]) = {value}
           \/ ~LastIs(words, n, flag) /\ LastGiven(words, n, flag, default, value)
    PROVE  LastGiven(words, n + 1, flag, default, value)
<1>1. \A k \in 1..n : k \in 1..(n + 1)  OBVIOUS
<1>2. HasFlag(words, n + 1, flag) <=> HasFlag(words, n, flag)  BY OneMoreWord
<1>3. CASE LastIs(words, n, flag) /\ NumberOf(words[n + 1]) = {value}
  <2>1. n \in 1..(n + 1) /\ words[n] = flag /\ n \in 1..n  BY <1>3 DEF LastIs
  <2>2. \A j \in (n + 1)..(n + 1) : words[j] # flag
    <3>1. \A j \in (n + 1)..(n + 1) : j = n + 1  OBVIOUS
    <3>. QED  BY <3>1
  <2>. QED  BY <1>2, <1>3, <2>1, <2>2 DEF LastGiven, HasFlag
<1>4. CASE ~LastIs(words, n, flag) /\ LastGiven(words, n, flag, default, value)
  <2>1. CASE ~HasFlag(words, n, flag)  BY <1>2, <1>4, <2>1 DEF LastGiven
  <2>2. CASE HasFlag(words, n, flag)
    <3>1. PICK k \in 1..n : /\ words[k] = flag /\ NumberOf(words[k + 1]) = {value}
                            /\ \A j \in (k + 1)..n : words[j] # flag
      BY <1>4, <2>2 DEF LastGiven
    <3>2. ASSUME NEW j \in (k + 1)..(n + 1) PROVE words[j] # flag
      <4>1. j = n + 1 \/ j \in (k + 1)..n  OBVIOUS
      <4>. QED  BY <3>1, <4>1
    <3>3. \A j \in (k + 1)..(n + 1) : words[j] # flag  BY <3>2
    <3>. QED  BY <1>1, <1>2, <2>2, <3>1, <3>3 DEF LastGiven
  <2>. QED  BY <2>1, <2>2
<1>. QED  BY <1>3, <1>4

(* The number of messages stays until --bench-pipeline is given its value. *)
LEMMA MessagesStay ==
    ASSUME NEW words, NEW n \in Nat, NEW value, MessagesGiven(words, n, value),
           ~(LastIs(words, n, "--bench-pipeline") /\ words[n + 1] \in Values(words[n]))
    PROVE  MessagesGiven(words, n + 1, value)
<1>1. \A k : k \in 1..((n + 1) - 1) <=> k \in 1..(n - 1) \/ (k = n /\ n > 0)  OBVIOUS
<1>2. Counts(words, n + 1) = Counts(words, n)  BY <1>1 DEF Counts, LastIs
<1>. QED  BY <1>2 DEF MessagesGiven

(* Its value counts: among the words of a sentence it stands only once. *)
LEMMA MessagesTaken ==
    ASSUME NEW words, NEW n \in Nat, NEW value, Beginning(words, n),
           LastIs(words, n, "--bench-pipeline"), words[n + 1] \in Values(words[n]),
           NumberOf(words[n + 1]) = {value}
    PROVE  MessagesGiven(words, n + 1, value)
<1>1. \A k \in 1..n : words[k] = "--bench-pipeline" => k = n
  <2>1. n \in 1..n /\ words[n] = "--bench-pipeline"  BY DEF LastIs
  <2>. QED  BY <2>1 DEF Beginning, ModeFlags
<1>2. (n + 1) - 1 = n  OBVIOUS
<1>3. Counts(words, n + 1) = {n}  BY <1>1, <1>2 DEF Counts, LastIs
<1>. QED  BY <1>3 DEF MessagesGiven

(* Only these three flags have values. *)
LEMMA ValuesOf ==
    /\ Values("--bench-pipeline") = {"1", "wide", "long"}
    /\ Values("--bench-gap-us") = {"0", "1", "wide"} /\ Values("--pin-cpu") = {"0", "1"}
    /\ \A word : word \notin {"--bench-pipeline", "--bench-gap-us", "--pin-cpu"} => Values(word) = {}
BY DEF Values

(* A value is no flag, so that the flags so far stay what they were. *)
LEMMA ValueChangesNoFlag ==
    ASSUME NEW words, NEW n \in Nat, words[n + 1] \notin Flags
    PROVE  /\ \A flag \in Flags : HasFlag(words, n + 1, flag) <=> HasFlag(words, n, flag)
           /\ Mode(words, n + 1) = Mode(words, n)
<1>1. \A flag \in Flags : HasFlag(words, n + 1, flag) <=> HasFlag(words, n, flag)
  BY OneMoreWord
<1>2. "--replay" \in Flags /\ "--bench-pipeline" \in Flags  BY DEF Flags
<1>. QED  BY <1>1, <1>2 DEF Mode

(* The word after a flag that needs a value. *)
LEMMA ValueStep ==
    ASSUME NEW words, NEW n \in Nat, NEW st, ScanInv(words, n, st), st.status = "run",
           st.wants \in {"gap", "pin"}
    PROVE  ScanInv(words, n + 1, ScanWord(st, words[n + 1]))
<1>. DEFINE word == words[n + 1]  new == ScanWord(st, word)
            flag == IF st.wants = "gap" THEN "--bench-gap-us" ELSE "--pin-cpu"
<1>1. /\ st \in ScanState /\ Beginning(words, n) /\ ~AsksHelp(words, n) /\ OptionsFit(words, n, st)
      /\ LastIs(words, n, flag) /\ n > 0 /\ words[n] = flag /\ flag \in NeedsValue
  BY DEF ScanInv, LastIs, NeedsValue
<1>2. ~Sentence(words, n)  BY <1>1, SentenceIsBeginning
<1>3. ~AsksHelp(words, n + 1)  BY <1>1, <1>2, OneMoreWord
<1>4. new \in ScanState  BY <1>1, ValueIsTaken
<1>5. CASE word \in Values(flag)
  <2>1. word \notin Flags /\ word \notin ModeFlags  BY <1>5, ValuesOf DEF Flags, ModeFlags
  <2>2. Beginning(words, n + 1)
    BY <1>1, <1>5, <2>1, OneMoreWord
  <2>3. /\ new.status = "run" /\ new.wants = "nothing"
        /\ new.options.mode = st.options.mode /\ new.options.write = st.options.write
        /\ new.options.messages = st.options.messages
        /\ IF st.wants = "gap"
           THEN /\ new.options.gapGiven = TRUE /\ new.options.pin = st.options.pin
                /\ NumberOf(word) = {new.options.gap}
           ELSE /\ new.options.gapGiven = st.options.gapGiven /\ new.options.gap = st.options.gap
                /\ NumberOf(word) = {new.options.pin}
    BY <1>1, <1>5, ValueIsTaken
  <2>. HIDE DEF new
  <2>4. /\ ~LastIs(words, n + 1, "--bench-pipeline") /\ ~LastIs(words, n + 1, "--bench-gap-us")
        /\ ~LastIs(words, n + 1, "--pin-cpu")
    BY <2>1 DEF LastIs, Flags
  <2>5. /\ new.options.mode = Mode(words, n + 1)
        /\ new.options.write = HasFlag(words, n + 1, "--bench-write")
        /\ MessagesGiven(words, n + 1, new.options.messages)
    <3>1. "--bench-write" \in Flags  BY DEF Flags
    <3>2. HasFlag(words, n + 1, "--bench-write") = HasFlag(words, n, "--bench-write")
      BY <2>1, <3>1, ValueChangesNoFlag DEF HasFlag
    <3>3. MessagesGiven(words, n, new.options.messages)  BY <1>1, <2>3 DEF OptionsFit
    <3>4. ~LastIs(words, n, "--bench-pipeline")  BY <1>1 DEF LastIs
    <3>5. MessagesGiven(words, n + 1, new.options.messages)  BY <3>3, <3>4, MessagesStay
    <3>. QED  BY <1>1, <2>1, <2>3, <3>2, <3>5, ValueChangesNoFlag DEF OptionsFit
  <2>6. word # "--bench-gap-us" /\ word # "--pin-cpu"  BY <2>1 DEF Flags
  <2>7. CASE st.wants = "gap"
    <3>1. LastGiven(words, n + 1, "--bench-gap-us", 0, new.options.gap)
      BY <1>1, <2>3, <2>6, <2>7, GivenValue
    <3>2. ~LastIs(words, n, "--pin-cpu")  BY <2>7 DEF ScanInv
    <3>3. LastGiven(words, n, "--pin-cpu", -1, new.options.pin)
      BY <1>1, <2>3, <2>7 DEF OptionsFit
    <3>4. LastGiven(words, n + 1, "--pin-cpu", -1, new.options.pin)
      BY <2>6, <3>2, <3>3, GivenValue
    <3>5. HasFlag(words, n + 1, "--bench-gap-us")
      <4>1. n \in 1..(n + 1) /\ words[n] = "--bench-gap-us"  BY <1>1, <2>7
      <4>. QED  BY <4>1 DEF HasFlag
    <3>6. OptionsFit(words, n + 1, new)
      BY <2>3, <2>5, <2>7, <3>1, <3>4, <3>5 DEF OptionsFit
    <3>. QED  BY <1>3, <1>4, <2>2, <2>3, <2>4, <3>6 DEF ScanInv, new
  <2>8. CASE st.wants = "pin"
    <3>1. LastGiven(words, n + 1, "--pin-cpu", -1, new.options.pin)
      BY <1>1, <2>3, <2>6, <2>8, GivenValue
    <3>2. ~LastIs(words, n, "--bench-gap-us")  BY <2>8 DEF ScanInv
    <3>3. /\ LastGiven(words, n, "--bench-gap-us", 0, new.options.gap)
          /\ new.options.gapGiven = HasFlag(words, n, "--bench-gap-us")
      BY <1>1, <2>3, <2>8 DEF OptionsFit
    <3>4. LastGiven(words, n + 1, "--bench-gap-us", 0, new.options.gap)
      BY <2>6, <3>2, <3>3, GivenValue
    <3>5. HasFlag(words, n + 1, "--bench-gap-us") = HasFlag(words, n, "--bench-gap-us")
      <4>1. "--bench-gap-us" \in Flags  BY DEF Flags
      <4>. QED  BY <2>1, <4>1, ValueChangesNoFlag DEF HasFlag
    <3>6. OptionsFit(words, n + 1, new)
      BY <2>3, <2>5, <2>8, <3>1, <3>3, <3>4, <3>5 DEF OptionsFit
    <3>. QED  BY <1>3, <1>4, <2>2, <2>3, <2>4, <3>6 DEF ScanInv, new
  <2>. QED  BY <2>7, <2>8
<1>6. CASE word \notin Values(flag)
  <2>1. new.status = "refused"  BY <1>1, <1>6, ValueIsTaken
  <2>2. ~Beginning(words, n + 1)  BY <1>1, <1>6, OneMoreWord
  <2>3. ASSUME NEW m \in Nat, m >= n + 1 PROVE ~Sentence(words, m)
    BY <2>2, <2>3, SentencesBegin
  <2>. QED  BY <1>3, <1>4, <2>1, <2>3 DEF ScanInv
<1>. QED  BY <1>5, <1>6

(* The modes among the words: live exactly while no flag has chosen another. *)
LEMMA LiveMeansNoMode ==
    ASSUME NEW words, NEW n \in Nat
    PROVE  Mode(words, n) = "live" <=> \A k \in 1..n : words[k] \notin ModeFlags
BY DEF Mode, HasFlag, ModeFlags

(* A word where a flag may stand. *)
LEMMA FlagStep ==
    ASSUME NEW words, NEW n \in Nat, NEW st, ScanInv(words, n, st), st.status = "run",
           st.wants \in {"nothing", "messages"}
    PROVE  ScanInv(words, n + 1, ScanWord(st, words[n + 1]))
<1>. DEFINE word == words[n + 1]  new == ScanWord(st, word)  o == st.options
            value == st.wants = "messages" /\ word \in Values("--bench-pipeline")
            again == word \in ModeFlags /\ o.mode # "live"
<1>1. /\ st \in ScanState /\ Beginning(words, n) /\ ~AsksHelp(words, n) /\ OptionsFit(words, n, st)
      /\ ~LastIs(words, n, "--bench-gap-us") /\ ~LastIs(words, n, "--pin-cpu")
      /\ st.wants = "messages" <=> LastIs(words, n, "--bench-pipeline")
  BY DEF ScanInv
<1>2. n > 0 => words[n] \notin NeedsValue  BY <1>1 DEF LastIs, NeedsValue
<1>3. Sentence(words, n)  BY <1>1, <1>2, SentenceIsBeginning
<1>4. AsksHelp(words, n + 1) <=> word = "--help"  BY <1>1, <1>3, OneMoreWord
<1>5. (n > 0 /\ word \in Values(words[n])) <=> value
  BY <1>1, ValuesOf DEF LastIs
<1>6. /\ new \in ScanState
      /\ new.status = IF value \/ (word \in Flags \ {"--help"} /\ ~again) THEN "run"
                      ELSE IF word = "--help" THEN "help" ELSE "refused"
      /\ new.status = "run" =>
           /\ new.wants = CASE word = "--bench-pipeline" -> "messages"
                             [] word = "--bench-gap-us"   -> "gap"
                             [] word = "--pin-cpu"        -> "pin"
                             [] OTHER                     -> "nothing"
           /\ new.options.mode = CASE word = "--replay"         -> "replay"
                                    [] word = "--bench-pipeline" -> "bench"
                                    [] OTHER                     -> o.mode
           /\ new.options.write = IF word = "--bench-write" THEN TRUE ELSE o.write
           /\ new.options.gapGiven = o.gapGiven /\ new.options.gap = o.gap
           /\ new.options.pin = o.pin
           /\ IF value THEN NumberOf(word) = {new.options.messages}
                       ELSE new.options.messages = o.messages
  BY <1>1, FlagIsTaken
<1>7. again <=> word \in ModeFlags /\ ~\A k \in 1..n : words[k] \notin ModeFlags
  BY <1>1, LiveMeansNoMode DEF OptionsFit
<1>8. value => word \notin Flags /\ word \notin ModeFlags  BY ValuesOf DEF Flags, ModeFlags
<1>9. Beginning(words, n + 1) <=> value \/ (word \in Flags \ {"--help"} /\ ~again)
  <2>1. Beginning(words, n + 1) <=>
          (word \in Flags \ {"--help"} \/ value)
          /\ (word \in ModeFlags => \A k \in 1..n : words[k] \notin ModeFlags)
    BY <1>1, <1>2, <1>5, OneMoreWord
  <2>. HIDE DEF value, again, word
  <2>. QED  BY <1>7, <1>8, <2>1
<1>. HIDE DEF new, value, again
<1>10. CASE new.status = "run"
  <2>1. Beginning(words, n + 1) /\ word # "--help"
    <3>1. "--help" \in Flags  BY DEF Flags
    <3>. QED  BY <1>6, <1>8, <1>9, <1>10, <3>1
  <2>2. /\ new.wants = "messages" <=> LastIs(words, n + 1, "--bench-pipeline")
        /\ new.wants = "gap" <=> LastIs(words, n + 1, "--bench-gap-us")
        /\ new.wants = "pin" <=> LastIs(words, n + 1, "--pin-cpu")
    <3>1. \A flag : LastIs(words, n + 1, flag) <=> word = flag  BY DEF LastIs
    <3>2. /\ word = "--bench-pipeline" => new.wants = "messages"
          /\ word = "--bench-gap-us" => new.wants = "gap"
          /\ word = "--pin-cpu" => new.wants = "pin"
          /\ word \notin {"--bench-pipeline", "--bench-gap-us", "--pin-cpu"} => new.wants = "nothing"
      BY <1>6, <1>10
    <3>. QED  BY <3>1, <3>2
  <2>3. new.options.mode = Mode(words, n + 1)
    <3>1. /\ HasFlag(words, n + 1, "--replay")
                <=> HasFlag(words, n, "--replay") \/ word = "--replay"
          /\ HasFlag(words, n + 1, "--bench-pipeline")
                <=> HasFlag(words, n, "--bench-pipeline") \/ word = "--bench-pipeline"
      BY OneMoreWord
    <3>2. o.mode = Mode(words, n)  BY <1>1 DEF OptionsFit
    <3>3. word \in ModeFlags => o.mode = "live"
      <4>1. ~again  BY <1>6, <1>7, <1>8, <1>10
      <4>. QED  BY <4>1 DEF again
    <3>4. word = "--replay" \/ word = "--bench-pipeline" <=> word \in ModeFlags  BY DEF ModeFlags
    <3>5. o.mode = "live" => ~HasFlag(words, n, "--replay") /\ ~HasFlag(words, n, "--bench-pipeline")
      BY <3>2 DEF Mode
    <3>6. CASE word \in ModeFlags
      <4>1. ~HasFlag(words, n, "--replay") /\ ~HasFlag(words, n, "--bench-pipeline")
        BY <3>3, <3>5, <3>6
      <4>. QED  BY <1>6, <1>10, <3>1, <3>4, <3>6, <4>1 DEF Mode
    <3>7. CASE word \notin ModeFlags
      <4>1. new.options.mode = o.mode  BY <1>6, <1>10, <3>4, <3>7
      <4>. QED  BY <3>1, <3>2, <3>4, <3>7, <4>1 DEF Mode
    <3>. QED  BY <3>6, <3>7
  <2>4. new.options.write = HasFlag(words, n + 1, "--bench-write")
    <3>1. HasFlag(words, n + 1, "--bench-write")
            <=> HasFlag(words, n, "--bench-write") \/ word = "--bench-write"
      BY OneMoreWord
    <3>2. o.write = HasFlag(words, n, "--bench-write")  BY <1>1 DEF OptionsFit
    <3>3. CASE word = "--bench-write"
      <4>1. new.options.write = TRUE  BY <1>6, <1>10, <3>3
      <4>2. HasFlag(words, n + 1, "--bench-write") = TRUE  BY <3>1, <3>3 DEF HasFlag
      <4>. QED  BY <4>1, <4>2
    <3>4. CASE word # "--bench-write"
      <4>1. new.options.write = o.write  BY <1>6, <1>10, <3>4
      <4>2. HasFlag(words, n + 1, "--bench-write") = HasFlag(words, n, "--bench-write")
        BY <3>1, <3>4 DEF HasFlag
      <4>. QED  BY <3>2, <4>1, <4>2
    <3>. QED  BY <3>3, <3>4
  <2>5. new.wants # "gap" =>
          /\ new.options.gapGiven = HasFlag(words, n + 1, "--bench-gap-us")
          /\ LastGiven(words, n + 1, "--bench-gap-us", 0, new.options.gap)
    <3>1. SUFFICES ASSUME new.wants # "gap"
                   PROVE  /\ new.options.gapGiven = HasFlag(words, n + 1, "--bench-gap-us")
                          /\ LastGiven(words, n + 1, "--bench-gap-us", 0, new.options.gap)
      OBVIOUS
    <3>2. word # "--bench-gap-us"  BY <1>6, <1>10, <3>1
    <3>3. /\ o.gapGiven = HasFlag(words, n, "--bench-gap-us")
          /\ LastGiven(words, n, "--bench-gap-us", 0, o.gap)
      BY <1>1 DEF OptionsFit
    <3>4. HasFlag(words, n + 1, "--bench-gap-us") <=> HasFlag(words, n, "--bench-gap-us")
      BY <3>2, OneMoreWord
    <3>5. LastGiven(words, n + 1, "--bench-gap-us", 0, o.gap)
      BY <1>1, <3>2, <3>3, GivenValue
    <3>6. HasFlag(words, n + 1, "--bench-gap-us") = HasFlag(words, n, "--bench-gap-us")
      BY <3>4 DEF HasFlag
    <3>. QED  BY <1>6, <1>10, <3>3, <3>5, <3>6
  <2>6. new.wants # "pin" => LastGiven(words, n + 1, "--pin-cpu", -1, new.options.pin)
    <3>1. SUFFICES ASSUME new.wants # "pin"
                   PROVE  LastGiven(words, n + 1, "--pin-cpu", -1, new.options.pin)
      OBVIOUS
    <3>2. word # "--pin-cpu"  BY <1>6, <1>10, <3>1
    <3>3. LastGiven(words, n, "--pin-cpu", -1, o.pin)  BY <1>1 DEF OptionsFit
    <3>4. LastGiven(words, n + 1, "--pin-cpu", -1, o.pin)
      BY <1>1, <3>2, <3>3, GivenValue
    <3>. QED  BY <1>6, <1>10, <3>4
  <2>7. MessagesGiven(words, n + 1, new.options.messages)
    <3>1. value => LastIs(words, n, "--bench-pipeline") /\ word \in Values(words[n])
      BY <1>1, <1>5 DEF value
    <3>2. ~value => ~(LastIs(words, n, "--bench-pipeline") /\ word \in Values(words[n]))
      BY <1>5 DEF LastIs
    <3>3. MessagesGiven(words, n, o.messages)  BY <1>1 DEF OptionsFit
    <3>4. CASE value
      <4>1. NumberOf(word) = {new.options.messages}  BY <1>6, <1>10, <3>4
      <4>. QED  BY <1>1, <3>1, <3>4, <4>1, MessagesTaken
    <3>5. CASE ~value
      <4>1. new.options.messages = o.messages  BY <1>6, <1>10, <3>5
      <4>. QED  BY <3>2, <3>3, <3>5, <4>1, MessagesStay
    <3>. QED  BY <3>4, <3>5
  <2>8. OptionsFit(words, n + 1, new)  BY <2>3, <2>4, <2>5, <2>6, <2>7 DEF OptionsFit
  <2>. QED  BY <1>4, <1>6, <1>10, <2>1, <2>2, <2>8 DEF ScanInv, new
<1>11. CASE new.status = "help"
  <2>1. word = "--help"  BY <1>6, <1>11
  <2>. QED  BY <1>4, <1>6, <1>11, <2>1 DEF ScanInv, new
<1>12. CASE new.status = "refused"
  <2>1. ~Beginning(words, n + 1) /\ word # "--help"  BY <1>6, <1>9, <1>12
  <2>2. ASSUME NEW m \in Nat, m >= n + 1 PROVE ~Sentence(words, m)
    BY <2>1, <2>2, SentencesBegin
  <2>. QED  BY <1>4, <1>6, <1>12, <2>1, <2>2 DEF ScanInv, new
<1>. QED  BY <1>6, <1>10, <1>11, <1>12

(* The invariant holds after every word: there is no first one that breaks it. *)
LEMMA ScanMeans ==
    ASSUME NEW words, Len(words) \in Nat
    PROVE  \A n \in 0..Len(words) : ScanInv(words, n, Scan(words)[n])
<1>. DEFINE T == {n \in 0..Len(words) : ~ScanInv(words, n, Scan(words)[n])}
<1>1. SUFFICES ASSUME T # {} PROVE FALSE  OBVIOUS
<1>2. T \in SUBSET Nat  OBVIOUS
<1>3. PICK n \in T : \A k \in T : n <= k  BY <1>1, <1>2, LeastNat
<1>4. CASE n = 0
  <2>1. Scan(words)[0] = ScanStart  BY ScanSteps
  <2>2. ScanStart \in ScanState /\ ScanStart.status = "run" /\ ScanStart.wants = "nothing"
    BY DEF ScanStart, DefaultOptions, ScanState, Options
  <2>3. \A flag : ~HasFlag(words, 0, flag)  BY DEF HasFlag
  <2>4. OptionsFit(words, 0, ScanStart)
    <3>. DEFINE o == ScanStart.options
    <3>1. o.mode = "live" /\ o.write = FALSE /\ o.gapGiven = FALSE /\ o.gap = 0 /\ o.pin = -1
      BY DEF ScanStart, DefaultOptions
    <3>. HIDE DEF o
    <3>2. Mode(words, 0) = "live"  BY <2>3 DEF Mode
    <3>3. HasFlag(words, 0, "--bench-write") = FALSE /\ HasFlag(words, 0, "--bench-gap-us") = FALSE
      BY <2>3
    <3>4. LastGiven(words, 0, "--bench-gap-us", 0, o.gap) /\ LastGiven(words, 0, "--pin-cpu", -1, o.pin)
      BY <2>3, <3>1 DEF LastGiven
    <3>5. o.write = HasFlag(words, 0, "--bench-write")  BY <3>1, <3>3
    <3>6. o.gapGiven = HasFlag(words, 0, "--bench-gap-us")  BY <3>1, <3>3
    <3>7. o.mode = Mode(words, 0)  BY <3>1, <3>2
    <3>8. MessagesGiven(words, 0, o.messages)
      <4>1. o.messages = 100000  BY DEF o, ScanStart, DefaultOptions
      <4>. QED  BY <4>1 DEF MessagesGiven, Counts
    <3>. QED  BY <3>4, <3>5, <3>6, <3>7, <3>8 DEF OptionsFit, o
  <2>5. Beginning(words, 0) /\ ~AsksHelp(words, 0)  BY DEF Beginning, AsksHelp
  <2>6. ScanInv(words, 0, ScanStart)  BY <2>2, <2>4, <2>5 DEF ScanInv, LastIs
  <2>. QED  BY <1>3, <1>4, <2>1, <2>6
<1>5. CASE n # 0
  <2>. DEFINE p == n - 1  st == Scan(words)[p]
  <2>1. p \in Nat /\ p \in 0..Len(words) /\ p \notin T /\ p + 1 = n /\ n \in 1..Len(words)
    BY <1>3, <1>5
  <2>2. ScanInv(words, p, st)  BY <2>1
  <2>3. Scan(words)[n] = ScanWord(st, words[p + 1])  BY <2>1, ScanSteps
  <2>. HIDE DEF p, st
  <2>4. st \in ScanState  BY <2>2 DEF ScanInv
  <2>5. CASE st.status # "run"
    <3>1. ScanWord(st, words[p + 1]) = st  BY <2>5 DEF ScanWord
    <3>2. st.status = "help" => AsksHelp(words, p + 1)
      BY <2>1, <2>2, OneMoreWord DEF ScanInv
    <3>3. st.status = "refused" => ~AsksHelp(words, p + 1)
      <4>1. st.status = "refused" => ~AsksHelp(words, p) /\ ~Sentence(words, p)
        BY <2>1, <2>2 DEF ScanInv
      <4>. QED  BY <2>1, <4>1, OneMoreWord
    <3>4. st.status = "refused" => \A m \in Nat : m >= p + 1 => ~Sentence(words, m)
      BY <2>1, <2>2 DEF ScanInv
    <3>5. ScanInv(words, p + 1, st)  BY <2>4, <2>5, <3>2, <3>3, <3>4 DEF ScanInv
    <3>. QED  BY <1>3, <2>1, <2>3, <3>1, <3>5
  <2>6. CASE st.status = "run"
    <3>1. ScanInv(words, p + 1, ScanWord(st, words[p + 1]))
      BY <2>1, <2>2, <2>4, <2>6, FlagStep, ValueStep DEF ScanState
    <3>. QED  BY <1>3, <2>1, <2>3, <3>1
  <2>. QED  BY <2>5, <2>6
<1>. QED  BY <1>4, <1>5

(* The scan with the checks after it: what the program makes of its arguments is
   what the usage text says, for any number of them. *)
LEMMA StartupMeans ==
    ASSUME NEW words, Len(words) \in Nat
    PROVE  LET n == Len(words)  start == Startup(words)
           IN  /\ start.status = IF AsksHelp(words, n) THEN "help"
                               ELSE IF Runs(words, n) THEN "run" ELSE "refused"
               /\ start.status = "run" =>
                     /\ start.options.mode = Mode(words, n)
                     /\ start.options.write = HasFlag(words, n, "--bench-write")
                     /\ MessagesGiven(words, n, start.options.messages)
                     /\ LastGiven(words, n, "--bench-gap-us", 0, start.options.gap)
                     /\ LastGiven(words, n, "--pin-cpu", -1, start.options.pin)
<1>. DEFINE n == Len(words)  end == Scan(words)[n]  parsed == ParseCliOptions(words)
            lacks == end.status = "run" /\ end.wants \in {"gap", "pin"}
            stray == /\ parsed.status = "run" /\ parsed.options.mode # "bench"
                     /\ parsed.options.write \/ parsed.options.gapGiven
<1>1. ScanInv(words, n, end)
  <2>1. n \in 0..n  OBVIOUS
  <2>. QED  BY <2>1, ScanMeans
<1>2. parsed = IF lacks THEN Refuse(end) ELSE end  BY DEF ParseCliOptions
<1>3. Startup(words) = IF stray THEN Refuse(parsed) ELSE parsed  BY DEF Startup
<1>. HIDE DEF end, parsed, n
<1>4. n \in Nat /\ end \in ScanState  BY <1>1 DEF ScanInv, n
<1>5. \A st \in ScanState : Refuse(st) \in ScanState /\ Refuse(st).status = "refused"
  BY DEF Refuse, ScanState
<1>6. parsed \in ScanState  BY <1>2, <1>4, <1>5
<1>. HIDE DEF lacks, stray
<1>7. CASE end.status = "help"
  <2>1. ~lacks /\ parsed = end  BY <1>2, <1>7 DEF lacks
  <2>2. Startup(words) = end  BY <1>3, <1>7, <2>1 DEF stray
  <2>. QED  BY <1>1, <1>7, <2>2 DEF ScanInv, n
<1>8. CASE end.status = "refused"
  <2>1. ~lacks /\ parsed = end  BY <1>2, <1>8 DEF lacks
  <2>2. Startup(words) = end  BY <1>3, <1>8, <2>1 DEF stray
  <2>3. ~AsksHelp(words, n) /\ ~Sentence(words, n)  BY <1>1, <1>4, <1>8 DEF ScanInv
  <2>. QED  BY <1>8, <2>2, <2>3 DEF Runs, n
<1>9. CASE end.status = "run" /\ lacks
  <2>1. n > 0 /\ words[n] \in NeedsValue /\ ~AsksHelp(words, n)
    BY <1>1, <1>9 DEF ScanInv, LastIs, NeedsValue, lacks
  <2>2. ~Sentence(words, n)  BY <1>4, <2>1, SentenceIsBeginning
  <2>3. parsed.status = "refused" /\ ~stray  BY <1>2, <1>4, <1>5, <1>9 DEF stray
  <2>. QED  BY <1>3, <2>1, <2>2, <2>3 DEF Runs, n
<1>10. CASE end.status = "run" /\ ~lacks
  <2>1. parsed = end  BY <1>2, <1>10
  <2>2. /\ Beginning(words, n) /\ ~AsksHelp(words, n) /\ OptionsFit(words, n, end)
        /\ end.wants # "gap" /\ end.wants # "pin"
        /\ ~LastIs(words, n, "--bench-gap-us") /\ ~LastIs(words, n, "--pin-cpu")
    BY <1>1, <1>10 DEF ScanInv, lacks
  <2>3. Sentence(words, n)
    <3>1. n > 0 => words[n] \notin NeedsValue  BY <2>2 DEF LastIs, NeedsValue
    <3>. QED  BY <1>4, <2>2, <3>1, SentenceIsBeginning
  <2>4. /\ end.options.mode = Mode(words, n)
        /\ end.options.write = HasFlag(words, n, "--bench-write")
        /\ MessagesGiven(words, n, end.options.messages)
        /\ end.options.gapGiven = HasFlag(words, n, "--bench-gap-us")
        /\ LastGiven(words, n, "--bench-gap-us", 0, end.options.gap)
        /\ LastGiven(words, n, "--pin-cpu", -1, end.options.pin)
    BY <2>2 DEF OptionsFit
  <2>5. Runs(words, n) <=> ~stray  BY <1>10, <2>1, <2>3, <2>4 DEF Runs, stray
  <2>6. CASE stray
    <3>1. Startup(words).status = "refused"  BY <1>3, <1>5, <1>6, <2>6
    <3>. QED  BY <2>2, <2>5, <2>6, <3>1 DEF n
  <2>7. CASE ~stray
    <3>1. Startup(words) = end  BY <1>3, <2>1, <2>7
    <3>. QED  BY <1>10, <2>2, <2>4, <2>5, <2>7, <3>1 DEF n
  <2>. QED  BY <2>6, <2>7
<1>. QED  BY <1>4, <1>7, <1>8, <1>9, <1>10 DEF ScanState

(* The arguments are there until the handlers are installed, and once they are parsed
   the options are what parse_cli_options and main() made of them. *)
ArgsInv ==
    /\ Len(argv) \in Nat
    /\ argv # <<>> => phase \in {"args", "parsed", "exited"}
    /\ phase = "args" => exit = "none"
    /\ argv # <<>> /\ (phase = "parsed" \/ exit \in {"0", "1"}) => cli = Startup(argv)

(* A process starts with its arguments and nothing parsed. *)
LEMMA ArgsInit == Init => ArgsInv
<1>. SUFFICES ASSUME Init PROVE ArgsInv  OBVIOUS
<1>1. argv \in Seq(Words)
  <2>1. PICK m \in Nat : argv \in [1..m -> Words]  BY ProgramConstants DEF Init, SeqOf
  <2>. QED  BY <2>1, SeqDef
<1>. QED  BY <1>1 DEF Init, ArgsInv

(* Only ParseArgs reads the arguments; whoever ends the process later finds them
   dropped. *)
LEMMA ArgsStep == ASSUME ArgsInv, [Next]_vars PROVE ArgsInv'
<1>1. CASE UNCHANGED mainVars  BY <1>1 DEF mainVars, ArgsInv
<1>2. CASE ParseArgs
  <2>1. cli' = Startup(argv) /\ argv' = argv /\ phase' \in {"exited", "parsed"}
    BY <1>2 DEF ParseArgs, Exit, Goto
  <2>. QED  BY <2>1 DEF ArgsInv
<1>3. CASE InstallHandlers
  <2>1. argv' = <<>> /\ phase' = "config"  BY <1>3 DEF InstallHandlers, Goto
  <2>. QED  BY <2>1 DEF ArgsInv
<1>4. CASE Signal
  <2>1. argv' = argv /\ cli' = cli /\ phase # "exited"  BY <1>4 DEF Signal
  <2>2. (phase' = phase /\ exit' = exit) \/ (phase' = "exited" /\ exit' = "killed")
    BY <1>4 DEF Signal, Exit
  <2>. QED  BY <2>1, <2>2 DEF ArgsInv
<1>5. CASE MainStep /\ ~ParseArgs /\ ~InstallHandlers
  <2>1. argv' = argv /\ phase \notin {"args", "parsed", "exited"} /\ phase' # "args"
    BY <1>5 DEF MainStep, LoadConfig, RunOffline, OfflineEnds, CheckSources, OpenTradeWriter,
                OpenOrderbookWriter, OpenWriter, BuildManager, StartManager, StartReporter,
                LoopEnds, StopManager, JoinReporter, DestroyNext, ReturnFromMain, Goto, Exit
  <2>. QED  BY <2>1 DEF ArgsInv
<1>6. CASE LinkUp \/ LinkLost \/ Receive \/ ReaderStep \/ ReporterStep \/ Exited \/ UNCHANGED vars
  <2>1. UNCHANGED mainVars
    BY <1>6 DEF LinkUp, LinkLost, Receive, ReaderStep, Callback, RecordSample, RecordStep,
                ReporterStep, ReporterTick, ReporterBreak, CollectStep, Exited, vars
  <2>. QED  BY <1>1, <2>1
<1>. QED  BY <1>2, <1>3, <1>4, <1>5, <1>6 DEF Next

(* Every command line, of any length, is refused, answered with help or run as the
   usage text reads it, with the mode and the values it names, the number of messages
   of the benchmark included. *)
THEOREM ArgumentsMeanUsage == Spec => []CommandLineMeaning
<1>1. ASSUME ArgsInv PROVE CommandLineMeaning
  <2>1. SUFFICES ASSUME argv # <<>>, phase = "parsed" \/ exit \in {"0", "1"}
                 PROVE  CommandLineMeaning
    BY DEF CommandLineMeaning
  <2>2. cli = Startup(argv) /\ Len(argv) \in Nat  BY <1>1, <2>1 DEF ArgsInv
  <2>. QED  BY <2>2, StartupMeans DEF CommandLineMeaning
<1>. QED  BY <1>1, ArgsInit, ArgsStep, PTL DEF Spec

-------------------------------------------------------------------------------
(* The configuration *)

ConfigInv ==
    /\ LoadedConfigIsUsable
    /\ phase \in Opening => cfg.ring_buffer_size \in 1..kMaxRingBufferSize

(* A number in the range of int64_t keeps its value when it is read as one. *)
LEMMA WrappedInRange ==
    ASSUME NEW n \in Int, -1 <= n, n <= INT64_MAX PROVE Wrapped(INT64_MAX, n) = n
<1>1. ASSUME NEW x \in Int, NEW k \in Nat, 0 <= x, x < k PROVE x % k = x
  BY <1>1
<1>. DEFINE x == n + INT64_MAX + 1  k == 2 * (INT64_MAX + 1)
<1>2. x \in Int /\ k \in Nat /\ 0 <= x /\ x < k  BY ConfigLimits
<1>. HIDE DEF k, x
<1>3. x % k = x  BY <1>1, <1>2
<1>. QED  BY <1>3, ConfigLimits DEF Wrapped, x, k

(* What a field of a file may hold where a number is expected. *)
LEMMA FileNumbers ==
    ASSUME NEW j \in Objects
    PROVE  j.ring_buffer_size.num \in Int /\ -1 <= j.ring_buffer_size.num
<1>. DEFINE f == j.ring_buffer_size
<1>1. f \in Numbers \/ f = NumberField("absent", 0)
  <2>. DEFINE Ring(g) == [EmptyObject EXCEPT !.ring_buffer_size = g]
              Wait(g) == [EmptyObject EXCEPT !.reconnect_interval_ms = g]
              Ping(p) == [EmptyObject EXCEPT !.ping_interval_ms = p[1],
                                             !.no_data_timeout_ms = p[2]]
              Proxy(g) == [EmptyObject EXCEPT !.proxy_url = g]
              Urls(g) == [EmptyObject EXCEPT !.data_sources = g]
              Untyped == [EmptyObject EXCEPT !.others = "untyped"]
  <2>1. /\ \A g : Ring(g).ring_buffer_size = g
        /\ \A g : Wait(g).ring_buffer_size = NumberField("absent", 0)
        /\ \A p : Ping(p).ring_buffer_size = NumberField("absent", 0)
        /\ \A g : Proxy(g).ring_buffer_size = NumberField("absent", 0)
        /\ \A g : Urls(g).ring_buffer_size = NumberField("absent", 0)
        /\ Untyped.ring_buffer_size = NumberField("absent", 0)
    BY DEF EmptyObject
  <2>2. j \in {Ring(g) : g \in Numbers} \cup {Wait(g) : g \in Numbers}
              \cup {Ping(p) : p \in Numbers \X Numbers}
              \cup {Proxy(g) : g \in {Text("untyped", ""), Text("string", ""),
                                       Text("string", "file")}}
              \cup {Urls(g) : g \in {Array("untyped", <<>>), Array("array", <<>>),
                                      Array("array", <<"">>),
                                      Array("array", <<"wss://other", "">>)}}
              \cup {Untyped}
    BY Zenon DEF Objects
  <2>. HIDE DEF Ring, Wait, Ping, Proxy, Urls, Untyped
  <2>3. \/ \E g \in Numbers : j = Ring(g)
        \/ \E g : j = Wait(g) \/ j = Ping(g) \/ j = Proxy(g) \/ j = Urls(g)
        \/ j = Untyped
    BY <2>2
  <2>. QED  BY <2>1, <2>3
<1>2. ASSUME NEW g \in Numbers PROVE g.num \in Int /\ -1 <= g.num
  <2>. USE DEF NumberField
  <2>1. CASE g \in BadNumbers \cup {NumberField("bool", 1), NumberField("float", 1)}
    BY <2>1 DEF BadNumbers
  <2>2. CASE g \notin BadNumbers \cup {NumberField("bool", 1), NumberField("float", 1)}
    <3>1. PICK n \in {-1, 0, 1, 2, 3, kMaxRingBufferSize + 1, INT_MAX + 1, 2 * INT_MAX + 3,
                      INT64_MAX, INT64_MAX + 1, 2 * INT64_MAX + 1} : g = NumberField("integer", n)
      BY <2>2 DEF Numbers
    <3>2. n \in Int /\ -1 <= n  BY ConfigLimits
    <3>. QED  BY <3>1, <3>2
  <2>. QED  BY <2>1, <2>2
<1>. QED  BY <1>1, <1>2 DEF NumberField

(* Config::load takes the ring size only as it is written, and only in range. *)
LEMMA RingSizeRead ==
    ASSUME NEW j \in Objects,
           NEW size \in Override(j.ring_buffer_size, Defaults.ring_buffer_size,
                                 RingBufferSize(j.ring_buffer_size))
    PROVE  /\ size \in 1..kMaxRingBufferSize
           /\ j.ring_buffer_size.type # "absent" => size = j.ring_buffer_size.num
<1>. DEFINE f == j.ring_buffer_size
<1>1. f.num \in Int /\ -1 <= f.num  BY FileNumbers
<1>2. CASE f.type = "absent"
  BY <1>2, ConfigLimits DEF Override, Defaults
<1>3. CASE f.type # "absent"
  <2>1. /\ f.num <= kMaxRingBufferSize /\ size = Wrapped(INT64_MAX, f.num)
        /\ size \in 1..kMaxRingBufferSize
    BY <1>3 DEF Override, RingBufferSize
  <2>2. Wrapped(INT64_MAX, f.num) = f.num  BY <1>1, <2>1, WrappedInRange, ConfigLimits
  <2>. QED  BY <2>1, <2>2
<1>. QED  BY <1>2, <1>3

(* What Config::load returns. *)
LEMMA LoadedFields ==
    ASSUME NEW file \in Files, NEW env, NEW c \in Load(file, env)
    PROVE  LET j == file.json IN
           /\ c.ring_buffer_size \in 1..kMaxRingBufferSize
           /\ j.ring_buffer_size.type # "absent" => c.ring_buffer_size = j.ring_buffer_size.num
           /\ 0 < c.ping_interval_ms /\ c.ping_interval_ms < c.no_data_timeout_ms
           /\ c.reconnect_interval_ms > 0
           /\ j.proxy_url.type = "string" => c.proxy_url = j.proxy_url.text
<1>1. CASE file.state # "json"
  <2>1. file.json = EmptyObject /\ file.state \in {"missing", "broken"}  BY <1>1 DEF Files
  <2>2. c = Defaults
    <3>1. CASE file.state = "missing"  BY <3>1 DEF Load
    <3>2. CASE file.state = "broken"
      <4>1. Load(file, env) = {}  BY <3>2, Zenon DEF Load
      <4>. QED  BY <4>1
    <3>. QED  BY <2>1, <3>1, <3>2
  <2>3. EmptyObject.ring_buffer_size.type = "absent" /\ EmptyObject.proxy_url.type = "absent"
    BY DEF EmptyObject, NumberField, Text
  <2>4. /\ Defaults.ring_buffer_size = kMaxRingBufferSize /\ Defaults.ping_interval_ms = 1
        /\ Defaults.no_data_timeout_ms = 3 /\ Defaults.reconnect_interval_ms = 1
    BY DEF Defaults
  <2>. QED  BY <2>1, <2>2, <2>3, <2>4, ConfigLimits
<1>2. CASE file.state = "json"
  <2>. DEFINE j == file.json
  <2>1. j \in Objects  BY <1>2 DEF Files
  <2>2. c \in LoadFields(j, env)
    <3>1. Load(file, env) = LoadFields(j, env)  BY <1>2, Zenon DEF Load
    <3>. QED  BY <3>1
  <2>. HIDE DEF j
  <2>3. TimingOk(c) /\ c.proxy_url \in ProxyUrl(j.proxy_url, env)
        /\ c.ring_buffer_size \in Override(j.ring_buffer_size, Defaults.ring_buffer_size,
                                           RingBufferSize(j.ring_buffer_size))
    BY <2>2 DEF LoadFields
  <2>4. j.proxy_url.type = "string" => c.proxy_url = j.proxy_url.text
    BY <2>3, Zenon DEF ProxyUrl
  <2>5. 0 < c.ping_interval_ms /\ c.ping_interval_ms < c.no_data_timeout_ms
        /\ c.reconnect_interval_ms > 0
    BY <2>3 DEF TimingOk
  <2>6. /\ c.ring_buffer_size \in 1..kMaxRingBufferSize
        /\ j.ring_buffer_size.type # "absent" => c.ring_buffer_size = j.ring_buffer_size.num
    BY <2>1, <2>3, RingSizeRead
  <2>. QED  BY <2>4, <2>5, <2>6 DEF j
<1>. QED  BY <1>1, <1>2

(* The configuration is used as it was loaded until the caches are built. *)
LEMMA ConfigStep == ASSUME ConfigInv, [Next]_vars PROVE ConfigInv'
<1>. USE DEF ConfigInv, LoadedConfigIsUsable, Opening, mainVars, Goto, Exit
<1>1. CASE UNCHANGED vars \/ Exited  BY <1>1 DEF Exited, vars
<1>2. CASE MainStep
  <2>1. CASE LoadConfig
    <3>1. CASE phase' # "loaded"  BY <2>1, <3>1 DEF LoadConfig
    <3>2. CASE phase' = "loaded"
      <4>1. PICK file \in Files, env \in Environments :
               cfg' \in Load(file, env) /\ source' = [file |-> file, env |-> env]
        BY <2>1, <3>2 DEF LoadConfig
      <4>2. source'.file.json = file.json  BY <4>1
      <4>. QED  BY <3>2, <4>1, <4>2, LoadedFields
    <3>. QED  BY <3>1, <3>2
  <2>2. CASE CheckSources  BY <2>2 DEF CheckSources, Defaults
  <2>3. CASE ParseArgs  BY <2>3 DEF ParseArgs
  <2>4. CASE InstallHandlers \/ RunOffline \/ OfflineEnds
    BY <2>4 DEF InstallHandlers, RunOffline, OfflineEnds
  <2>5. CASE OpenTradeWriter \/ OpenOrderbookWriter
    BY <2>5 DEF OpenTradeWriter, OpenOrderbookWriter, OpenWriter
  <2>6. CASE BuildManager \/ StartManager \/ StartReporter \/ LoopEnds
    BY <2>6 DEF BuildManager, StartManager, StartReporter, LoopEnds
  <2>7. CASE StopManager \/ JoinReporter \/ DestroyNext \/ ReturnFromMain
    BY <2>7 DEF StopManager, JoinReporter, DestroyNext, ReturnFromMain
  <2>. QED  BY <1>2, <2>1, <2>2, <2>3, <2>4, <2>5, <2>6, <2>7 DEF MainStep
<1>3. CASE Signal  BY <1>3 DEF Signal
<1>4. CASE LinkUp \/ LinkLost \/ Receive \/ ReaderStep \/ ReporterStep
  BY <1>4 DEF LinkUp, LinkLost, Receive, ReaderStep, Callback, RecordSample, RecordStep,
              ReporterStep, ReporterTick, ReporterBreak, CollectStep
<1>. QED  BY <1>1, <1>2, <1>3, <1>4 DEF Next

(* Whatever the file says, what Config::load returns suits the components: the ring
   size is the one written, the ping comes before the time-out, the file's proxy
   beats the environment's. *)
THEOREM ConfigSuitsComponents == Spec => []LoadedConfigIsUsable
<1>1. Init => ConfigInv  BY DEF Init, ConfigInv, LoadedConfigIsUsable, Opening
<1>2. ConfigInv => LoadedConfigIsUsable  BY DEF ConfigInv
<1>. QED  BY <1>1, <1>2, ConfigStep, PTL DEF Spec

-------------------------------------------------------------------------------
(* The cache *)

Pushed == IF reader = "callback" THEN msgs - 1 ELSE msgs

(* The ring holds the last count of the messages pushed, each in the slot that its
   number has modulo the capacity. *)
RingInv ==
    /\ cache.cap \in Nat \ {0}
    /\ cache.buffer \in [0..(cache.cap - 1) -> Nat]
    /\ cache.head = Pushed % cache.cap
    /\ cache.count = (IF Pushed < cache.cap THEN Pushed ELSE cache.cap)
    /\ \A j \in 1..Pushed : j > Pushed - cache.count => cache.buffer[(j - 1) % cache.cap] = j

CacheInv ==
    /\ phase \in Setup \cup Opening => msgs = 0 /\ reader = "idle"
    /\ "caches" \in alive => RingInv

(* The remainder is the one number below the divisor that leaves a multiple. *)
LEMMA RemainderUnique ==
    ASSUME NEW c \in Nat \ {0}, NEW q \in Int, NEW r \in 0..(c - 1)
    PROVE  (c * q + r) % c = r
<1>. DEFINE x == c * q + r  p == x \div c  t == x % c
<1>1. x \in Int /\ p \in Int /\ t \in 0..(c - 1) /\ x = c * p + t  OBVIOUS
<1>2. c * (q - p) = t - r  
  <2>1. c * (q - p) = c * q - c * p  OBVIOUS
  <2>2. x = c * q + r  OBVIOUS
  <2>. HIDE DEF x, p, t
  <2>. QED  BY <1>1, <2>1, <2>2
<1>. HIDE DEF x, p, t
<1>3. ASSUME NEW d \in Int, d >= 1 PROVE c * d >= c /\ c * (-d) <= -c
  BY <1>3
<1>4. ~(q - p >= 1)  BY <1>1, <1>2, <1>3
<1>5. ~(p - q >= 1)
  <2>1. ASSUME p - q >= 1 PROVE FALSE
    <3>1. c * (-(p - q)) <= -c  BY <1>1, <1>3, <2>1
    <3>2. -(p - q) = q - p  BY <1>1
    <3>. QED  BY <1>1, <1>2, <3>1, <3>2
  <2>. QED  BY <2>1
<1>6. q = p  BY <1>1, <1>4, <1>5
<1>7. t = r  BY <1>1, <1>2, <1>6
<1>. QED  BY <1>7 DEF t, x

(* Taking the remainder early changes nothing. *)
LEMMA RemainderOfSum ==
    ASSUME NEW c \in Nat \ {0}, NEW a \in Int, NEW k \in Int
    PROVE  ((a % c) + k) % c = (a + k) % c
<1>. DEFINE p == a \div c  s == a % c  q == (a + k) \div c  r == (a + k) % c
<1>1. /\ p \in Int /\ s \in Int /\ a = c * p + s
      /\ q \in Int /\ r \in 0..(c - 1) /\ a + k = c * q + r
  OBVIOUS
<1>. HIDE DEF p, s, q, r
<1>2. c * (q - p) = c * q - c * p  BY <1>1
<1>3. s + k = c * (q - p) + r  BY <1>1, <1>2
<1>4. (s + k) % c = r
  <2>1. q - p \in Int  BY <1>1
  <2>. QED  BY <1>1, <1>3, <2>1, RemainderUnique
<1>. QED  BY <1>4 DEF s, r

(* A whole turn changes nothing. *)
LEMMA RemainderOfTurn ==
    ASSUME NEW c \in Nat \ {0}, NEW a \in Int PROVE (a + c) % c = a % c
<1>. DEFINE q == a \div c  r == a % c
<1>1. q \in Int /\ r \in 0..(c - 1) /\ a = c * q + r  OBVIOUS
<1>. HIDE DEF q, r
<1>2. a + c = c * (q + 1) + r
  <2>1. c * (q + 1) = c * q + c  BY <1>1
  <2>. QED  BY <1>1, <2>1
<1>3. (a + c) % c = r
  <2>1. q + 1 \in Int  BY <1>1
  <2>. QED  BY <1>1, <1>2, <2>1, RemainderUnique
<1>. QED  BY <1>3 DEF r

(* Less than a turn apart, two positions are in different slots. *)
LEMMA RemaindersDiffer ==
    ASSUME NEW c \in Nat \ {0}, NEW a \in Int, NEW b \in Int, a < b, b < a + c
    PROVE  a % c # b % c
<1>. DEFINE q == a \div c  r == a % c  p == b \div c  t == b % c
<1>1. /\ q \in Int /\ r \in 0..(c - 1) /\ a = c * q + r
      /\ p \in Int /\ t \in 0..(c - 1) /\ b = c * p + t
  OBVIOUS
<1>. HIDE DEF q, r, p, t
<1>2. ASSUME r = t PROVE FALSE
  <2>1. c * (p - q) = c * p - c * q  BY <1>1
  <2>2. 0 < c * (p - q) /\ c * (p - q) < c  BY <1>1, <1>2, <2>1
  <2>3. ASSUME NEW d \in Int PROVE d >= 1 => c * d >= c  OBVIOUS
  <2>4. ASSUME NEW d \in Int PROVE d <= 0 => c * d <= 0  OBVIOUS
  <2>5. p - q \in Int  BY <1>1
  <2>6. p - q >= 1 \/ p - q <= 0  BY <2>5
  <2>7. c * (p - q) \in Int  BY <2>5
  <2>. QED  BY <2>2, <2>3, <2>4, <2>5, <2>6, <2>7
<1>. QED  BY <1>2 DEF r, t

(* What a push leaves: the ring counts one message more, in its slot. *)
LEMMA PushKeepsRing ==
    ASSUME RingInv, msgs \in Nat \ {0}, Callback PROVE RingInv'
<1>. DEFINE C == cache.cap  P == msgs - 1
<1>1. /\ C \in Nat \ {0} /\ P \in Nat /\ P + 1 = msgs /\ msgs' = msgs
      /\ Pushed = P /\ Pushed' = P + 1
      /\ cache.buffer \in [0..(C - 1) -> Nat] /\ cache.head = P % C
      /\ cache.count = (IF P < C THEN P ELSE C)
      /\ \A j \in 1..P : j > P - cache.count => cache.buffer[(j - 1) % C] = j
      /\ cache' = Push(cache, msgs)
  BY DEF RingInv, Pushed, Callback
<1>2. /\ cache'.cap = C /\ cache'.head = ((P % C) + 1) % C
      /\ cache'.buffer = [cache.buffer EXCEPT ![P % C] = P + 1]
      /\ cache'.count = (IF cache.count < C THEN cache.count + 1 ELSE cache.count)
  BY <1>1 DEF Push, RingInv
<1>. HIDE DEF C, P
<1>3. P % C \in 0..(C - 1)  BY <1>1
<1>4. cache'.buffer \in [0..(C - 1) -> Nat]  BY <1>1, <1>2, <1>3
<1>5. cache'.head = (P + 1) % C
  <2>1. C \in Nat \ {0} /\ P \in Int /\ 1 \in Int  BY <1>1
  <2>2. ((P % C) + 1) % C = (P + 1) % C  BY ONLY <2>1, RemainderOfSum
  <2>. QED  BY <1>2, <2>2
<1>6. cache'.count = (IF P + 1 < C THEN P + 1 ELSE C)  BY <1>1, <1>2
<1>7. ASSUME NEW j \in 1..(P + 1), j > (P + 1) - cache'.count
      PROVE  cache'.buffer[(j - 1) % C] = j
  <2>1. (j - 1) % C \in 0..(C - 1)  BY <1>1
  <2>2. CASE j = P + 1
    <3>1. j - 1 = P  BY <1>1, <2>2
    <3>. QED  BY <1>1, <1>2, <1>3, <2>2, <3>1
  <2>3. CASE j # P + 1
    <3>1. j \in 1..P /\ j > P - cache.count  BY <1>1, <1>6, <1>7, <2>3
    <3>2. j - 1 \in Int /\ j - 1 < P /\ P < (j - 1) + C  BY <1>1, <1>6, <1>7, <3>1
    <3>3. (j - 1) % C # P % C
      <4>. DEFINE a == j - 1
      <4>1. C \in Nat \ {0} /\ P \in Int /\ a \in Int /\ a < P /\ P < a + C  BY <1>1, <3>2
      <4>. HIDE DEF a
      <4>2. a % C # P % C  BY ONLY <4>1, RemaindersDiffer
      <4>. QED  BY <4>2 DEF a
    <3>4. cache.buffer[(j - 1) % C] = j  BY <1>1, <3>1
    <3>. QED  BY <1>1, <1>2, <2>1, <3>3, <3>4
  <2>. QED  BY <2>2, <2>3
<1>. QED  BY <1>1, <1>2, <1>4, <1>5, <1>6, <1>7 DEF RingInv

(* latest(n) of a ring in order: the newest items, oldest first. *)
LEMMA RingSnapshot ==
    ASSUME RingInv, Pushed \in Nat, NEW n \in Nat,
           NEW take \in {n, Pushed, cache.cap},
           \A m \in {n, Pushed, cache.cap} : take <= m
    PROVE  Snapshot(cache, n) = [i \in 1..take |-> Pushed - take + i]
<1>. DEFINE C == cache.cap  P == Pushed  start == (cache.head + C - take) % C
<1>1. /\ C \in Nat \ {0} /\ P \in Nat /\ take \in Nat /\ take <= n /\ take <= P /\ take <= C
      /\ cache.head = P % C /\ cache.count = (IF P < C THEN P ELSE C)
      /\ \A j \in 1..P : j > P - cache.count => cache.buffer[(j - 1) % C] = j
      /\ take \in {n, P, C}
  BY DEF RingInv
<1>2. take = (IF n < cache.count THEN n ELSE cache.count)  BY <1>1
<1>3. Snapshot(cache, n) = [i \in 1..take |-> cache.buffer[(start + i - 1) % C]]
  BY <1>2 DEF Snapshot
<1>4. ASSUME NEW i \in 1..take PROVE cache.buffer[(start + i - 1) % C] = P - take + i
  <2>. DEFINE k == C - take + i - 1  j == P - take + i
  <2>1. i - 1 \in Int /\ k \in Int /\ j - 1 \in Int /\ P + k = (j - 1) + C  BY <1>1
  <2>2. j \in 1..P /\ j > P - cache.count  BY <1>1, <1>2
  <2>3. (start + i - 1) % C = (j - 1) % C
    <3>. DEFINE h == cache.head + C - take
    <3>1. h \in Int /\ cache.head \in Int  BY <1>1
    <3>2. ((h % C) + (i - 1)) % C = (h + (i - 1)) % C
      <4>. HIDE DEF h, C
      <4>. QED  BY <1>1, <2>1, <3>1, RemainderOfSum
    <3>3. h + (i - 1) = (P % C) + k  BY <1>1, <3>1
    <3>4. ((P % C) + k) % C = (P + k) % C
      <4>1. C \in Nat \ {0} /\ P \in Int /\ k \in Int  BY <1>1, <2>1
      <4>. HIDE DEF k, C, P
      <4>. QED  BY ONLY <4>1, RemainderOfSum
    <3>5. ((j - 1) + C) % C = (j - 1) % C
      <4>. HIDE DEF j, C
      <4>. QED  BY <1>1, <2>1, RemainderOfTurn
    <3>6. start + i - 1 = (h % C) + (i - 1)
      <4>1. h % C \in Int  BY <1>1, <3>1
      <4>. QED  BY <4>1
    <3>. QED  BY <2>1, <3>2, <3>3, <3>4, <3>5, <3>6
  <2>. QED  BY <1>1, <2>2, <2>3
<1>. QED  BY <1>3, <1>4

(* A new ring is empty, and pushes start with the first message. *)
LEMMA CacheStep ==
    ASSUME ControlInv, HistInv, ConfigInv, CacheInv, [Next]_vars PROVE CacheInv'
<1>1. /\ msgs \in Nat /\ (reader # "idle" => msgs > 0) /\ reader \in {"idle", "callback", "sample"}
  BY DEF HistInv, HistTypes, RecordInv
<1>2. CASE UNCHANGED <<phase, alive, linkVars>>
  BY <1>2 DEF linkVars, CacheInv, RingInv, Pushed
<1>3. CASE MainStep
  <2>1. CASE BuildManager
    <3>1. /\ phase' \notin Setup \cup Opening /\ msgs' = 0 /\ reader' = "idle"
          /\ cache' = NewRing(cfg.ring_buffer_size)
      BY <2>1 DEF BuildManager, CacheInv, Opening, Setup, Goto
    <3>2. cfg.ring_buffer_size \in Nat \ {0}
      BY <2>1, ConfigLimits DEF BuildManager, ConfigInv, Opening
    <3>3. RingInv'
      <4>. DEFINE C == cfg.ring_buffer_size
      <4>. HIDE DEF C
      <4>1. /\ cache'.cap = C /\ cache'.buffer \in [0..(C - 1) -> Nat]
            /\ cache'.head = 0 /\ cache'.count = 0 /\ C \in Nat \ {0}
        BY <3>1, <3>2 DEF NewRing, C
      <4>2. Pushed' = 0 /\ 0 % C = 0  BY <3>1, <4>1 DEF Pushed
      <4>. QED  BY <4>1, <4>2 DEF RingInv
    <3>. QED  BY <3>1, <3>3 DEF CacheInv
  <2>2. CASE ~BuildManager
    <3>1. UNCHANGED <<reader, msgs, cache>>
      BY <1>3, <2>2 DEF MainStep, ParseArgs, InstallHandlers, LoadConfig, RunOffline,
                OfflineEnds, CheckSources, OpenTradeWriter, OpenOrderbookWriter, OpenWriter,
                StartManager, StartReporter, LoopEnds, StopManager, JoinReporter, DestroyNext,
                ReturnFromMain, linkVars
    <3>2. "caches" \in alive' => "caches" \in alive
      <4>1. CASE CheckSources
        <5>1. alive' = alive \/ alive' = {"metrics"}  BY <4>1, Zenon DEF CheckSources
        <5>. QED  BY <5>1
      <4>2. CASE OpenTradeWriter \/ OpenOrderbookWriter
        BY <4>2 DEF OpenTradeWriter, OpenOrderbookWriter, OpenWriter
      <4>3. CASE DestroyNext  BY <4>3 DEF DestroyNext
      <4>4. CASE ~(CheckSources \/ OpenTradeWriter \/ OpenOrderbookWriter \/ DestroyNext)
        BY <1>3, <2>2, <4>4
           DEF MainStep, ParseArgs, InstallHandlers, LoadConfig, RunOffline, OfflineEnds,
               StartManager, StartReporter, LoopEnds, StopManager, JoinReporter, ReturnFromMain
      <4>. QED  BY <4>1, <4>2, <4>3, <4>4
    <3>3. phase' \in Setup \cup Opening => phase \in Setup \cup Opening
      BY <1>3, <2>2 DEF MainStep, ParseArgs, InstallHandlers, LoadConfig, RunOffline,
                OfflineEnds, CheckSources, OpenTradeWriter, OpenOrderbookWriter, OpenWriter,
                StartManager, StartReporter, LoopEnds, StopManager, JoinReporter, DestroyNext,
                ReturnFromMain, Setup, Opening, Goto, Exit
    <3>. QED  BY <3>1, <3>2, <3>3 DEF CacheInv, RingInv, Pushed
  <2>. QED  BY <2>1, <2>2
<1>4. CASE Signal
  BY <1>4 DEF Signal, Exit, linkVars, CacheInv, RingInv, Pushed, Setup, Opening
<1>5. CASE LinkUp \/ LinkLost \/ RecordSample
  BY <1>5 DEF LinkUp, LinkLost, RecordSample, mainVars, CacheInv, RingInv, Pushed
<1>6. CASE Receive
  <2>1. phase \notin Setup \cup Opening
    BY <1>6 DEF Receive, ControlInv, LinkInv, AliveInv, Setup, Opening
  <2>2. Pushed' = Pushed /\ UNCHANGED <<phase, alive, cache>>
    BY <1>1, <1>6 DEF Receive, ReaderFree, Pushed, mainVars
  <2>. QED  BY <2>1, <2>2 DEF CacheInv, RingInv
<1>7. CASE Callback
  <2>1. UNCHANGED <<phase, alive>> /\ msgs \in Nat \ {0} /\ reader = "callback"
    BY <1>1, <1>7 DEF Callback, mainVars
  <2>. QED  BY <1>7, <2>1, PushKeepsRing DEF CacheInv
<1>8. CASE RecordStep \/ ReporterStep \/ Exited
  BY <1>2, <1>8 DEF RecordStep, ReporterStep, ReporterTick, ReporterBreak, CollectStep, Exited,
                    vars, mainVars
<1>9. CASE UNCHANGED vars  BY <1>2, <1>9 DEF vars, mainVars
<1>. QED  BY <1>3, <1>4, <1>5, <1>6, <1>7, <1>8, <1>9 DEF Next, ReaderStep

(* Everything the proofs know of the program, together. *)
THEOREM ProgramInvariance == Spec => [](ControlInv /\ HistInv /\ ConfigInv /\ CacheInv)
<1>1. Init => ConfigInv /\ CacheInv
  BY DEF Init, ConfigInv, LoadedConfigIsUsable, Opening, CacheInv
<1>. QED
  BY <1>1, ControlInit, HistInitially, ControlStep, HistStep, ConfigStep, CacheStep, PTL DEF Spec

(* The cache holds the newest messages in the order of their callbacks, for every
   capacity and however many of them latest() is asked for. *)
THEOREM CacheKeepsNewest == Spec => []CacheIsNewest
<1>1. ASSUME HistInv, CacheInv PROVE CacheIsNewest
  <2>1. SUFFICES ASSUME "caches" \in alive, NEW n \in 0..(MaxMsgs + 1)
                 PROVE  LET take == CHOOSE k \in {n, Pushed, cache.cap} :
                                       \A m \in {n, Pushed, cache.cap} : k <= m
                        IN  Snapshot(cache, n) = [i \in 1..take |-> Pushed - take + i]
    BY DEF CacheIsNewest, Pushed
  <2>. DEFINE take == CHOOSE k \in {n, Pushed, cache.cap} :
                         \A m \in {n, Pushed, cache.cap} : k <= m
  <2>2. RingInv /\ n \in Nat /\ Pushed \in Nat /\ cache.cap \in Nat
    BY <1>1, <2>1, ProgramConstants
       DEF CacheInv, RingInv, HistInv, HistTypes, RecordInv, Pushed
  <2>3. \E k \in {n, Pushed, cache.cap} : \A m \in {n, Pushed, cache.cap} : k <= m
    BY <2>2
  <2>4. take \in {n, Pushed, cache.cap} /\ \A m \in {n, Pushed, cache.cap} : take <= m
    BY <2>3
  <2>. HIDE DEF take
  <2>5. Snapshot(cache, n) = [i \in 1..take |-> Pushed - take + i]
    BY <2>2, <2>4, RingSnapshot
  <2>. QED  BY <2>5 DEF take
<1>. QED  BY <1>1, ProgramInvariance, PTL
===============================================================================
