----------------------------- MODULE ReplayProofs ------------------------------
(* Proofs about Replay: what a replay hands over, for any directory, any window,
   any number of deletions and any number of appended records. *)
EXTENDS Replay, FiniteSetTheorems, SequenceTheorems, WellFoundedInduction, TLAPS

-------------------------------------------------------------------------------
(* The inductive invariant *)

AnyFile(h) == [readable : BOOLEAN, count : Nat, recs : Seq(Record(h)), torn : BOOLEAN]

DiskTypes ==
    /\ DOMAIN dir \subseteq Hours /\ dir = [h \in DOMAIN dir |-> dir[h]]
    /\ \A h \in DOMAIN dir : dir[h] \in AnyFile(h)
    /\ deleted \subseteq DOMAIN dir /\ appended \in Nat

Results == [replayed : Nat, header : Nat, completed : BOOLEAN, fileError : BOOLEAN,
            callbackError : BOOLEAN, countMismatch : BOOLEAN]

ReaderTypes ==
    /\ phase \in {"new", "probe", "first", "read", "finish", "returned"}
    /\ window \in TimeWindow
    /\ files \in Seq(Hours) /\ fileIndex \in Nat \ {0} /\ pos \in Nat /\ total \in Nat
    /\ readError \in BOOLEAN
    /\ delivered \in Seq(Nat \X Nat)
    /\ result \in Results

(* The files a listing finds, and how many records a file held then. *)
Selected == {h \in DOMAIN dir : HourlyFileInWindow(h, window)}
LenAtListing(h) == Len(dir[h].recs) - (IF h = Max(DOMAIN dir) THEN appended ELSE 0)

(* Nothing changes before the listing, and the recorder goes on only with a newest
   file that is undamaged. *)
AppendInv ==
    /\ phase = "new" => deleted = {} /\ appended = 0
    /\ appended > 0 => /\ DOMAIN dir # {} /\ Broken(dir[Max(DOMAIN dir)]) = {}
                       /\ appended <= Len(dir[Max(DOMAIN dir)].recs)

(* The reader has the sorted list of the selected files and is in one of them. *)
Here == files[fileIndex]
ListInv ==
    files # <<>> =>
      /\ Range(files) = Selected
      /\ \A i, j \in 1 .. Len(files) : i < j => files[i] < files[j]
      /\ fileIndex \in 1 .. Len(files) /\ pos <= Len(dir[Here].recs)

(* The reader is before the first record of a file or behind one that was passed,
   unless that one stopped it; what it has passed. *)
Stopped == result.callbackError \/ (readError /\ pos > 0)
Passed == {p \in PlacesIn(Selected) : Before(p, <<Here, IF Stopped THEN pos ELSE pos + 1>>)}

(* The records passed are undamaged, and those of them that the window asks for,
   no others, were handed over in their order. *)
PassedInv ==
    /\ \A i, j \in 1 .. Len(delivered) : i < j => Before(delivered[i], delivered[j])
    /\ files = <<>> \/ phase = "probe" => delivered = <<>>
    /\ files # <<>> /\ phase # "probe" => /\ HandedOver = Wanted(Passed)
                                          /\ \A p \in Passed : At(p).intact

(* How far the reader has come in each phase, and why it stopped. *)
PhaseInv ==
    /\ phase = "new" => files = <<>> /\ fileIndex = 1
    /\ phase \in {"probe", "first", "read"} => files # <<>> /\ ~readError /\ result.callbackError = FALSE
    /\ phase \in {"new", "probe", "first"} => pos = 0 /\ readError = FALSE
    /\ phase = "first" => fileIndex = 1
    /\ phase = "finish" /\ files = <<>> => Selected = {} /\ result.callbackError = FALSE
    /\ readError => /\ files # <<>>
                    /\ IF pos > 0 THEN ~dir[Here].recs[pos].intact
                                  ELSE \E h \in Selected : ~HeaderOk(h)
    /\ result.callbackError /\ files # <<>> => pos > 0
    /\ /\ phase \in {"finish", "returned"} /\ files # <<>>
       /\ ~readError /\ ~result.fileError /\ ~result.callbackError
       => fileIndex = Len(files) /\ pos >= LenAtListing(Here)

(* What the result says. *)
ResultInv ==
    /\ result.replayed = Len(delivered)
    /\ phase # "returned" => ~result.completed /\ ~result.fileError /\ ~result.countMismatch
    /\ phase = "new" => ~result.callbackError
    /\ result.completed => ~result.fileError /\ ~result.callbackError
    /\ phase = "returned" /\ readError => result.fileError
    /\ phase = "returned" /\ result.fileError =>
          \/ ~Valid(window)
          \/ Selected = {} /\ window = NoWindow
          \/ \E h \in Selected : ~HeaderOk(h)
          \/ readError /\ pos > 0
    /\ phase = "returned" /\ ~result.fileError /\ ~result.callbackError =>
          /\ files # <<>> \/ (Selected = {} /\ total = 0)
          /\ \/ result.completed
             \/ window = NoWindow /\ total > 0 /\ result.replayed # total

(* The sum of the counts, where they are right. *)
TotalInv ==
    /\ phase = "new" \/ (phase = "finish" /\ files = <<>>) => total = 0
    /\ files # <<>> /\ appended = 0 /\ (\A h \in Selected : dir[h].count = Len(dir[h].recs)) =>
          total = Cardinality(PlacesIn({h \in Selected : phase = "probe" => h < Here}))

ReplayInv == /\ DiskTypes /\ ReaderTypes /\ AppendInv /\ ListInv /\ PassedInv /\ PhaseInv
             /\ ResultInv /\ TotalInv

-------------------------------------------------------------------------------
(* Sorted listings *)

(* Every non-empty set of natural numbers has a least element. *)
LEMMA LeastNat ==
    ASSUME NEW T \in SUBSET Nat, T # {}
    PROVE  \E m \in T : \A k \in T : m <= k
<1>. DEFINE F == {0..n : n \in T}
<1>1. \A n \in Nat : 0..n \in FiniteSubsetsOf(Nat)
  <2>1. \A n \in Nat : IsFiniteSet(0..n)  BY FS_Interval
  <2>. QED  BY <2>1 DEF FiniteSubsetsOf
<1>2. F \subseteq FiniteSubsetsOf(Nat) /\ F # {}  BY <1>1
<1>3. IsWellFoundedOn(StrictSubsetOrdering(Nat), FiniteSubsetsOf(Nat))
  BY FS_StrictSubsetOrderingWellFounded
<1>. HIDE DEF F
<1>4. PICK x \in F : \A y \in F : <<y, x>> \notin StrictSubsetOrdering(Nat)
  BY <1>2, <1>3, WFMin
<1>5. PICK m \in T : x = 0..m  BY DEF F
<1>6. ASSUME NEW k \in T, k < m PROVE FALSE
  <2>1. 0..k \in F  BY DEF F
  <2>2. 0..k \subseteq 0..m /\ 0..k # 0..m  
    <3>1. m \in 0..m /\ m \notin 0..k  BY <1>6
    <3>. QED  BY <3>1, <1>6
  <2>3. 0..k \in SUBSET Nat /\ 0..m \in SUBSET Nat OBVIOUS
  <2>. QED  BY <1>4, <1>5, <2>1, <2>2, <2>3 DEF StrictSubsetOrdering
<1>. QED  BY <1>6

(* s lists hs, each once, in rising order. *)
Rising(s, hs) == Range(s) = hs /\ \A i, j \in DOMAIN s : i < j => s[i] < s[j]

(* A listing of hs without its least element gives one of hs. *)
LEMMA RisingCons ==
    ASSUME NEW hs \in SUBSET Nat, NEW m \in hs, \A k \in hs : m <= k,
           NEW n \in Nat, NEW t \in [1 .. n -> hs \ {m}], Rising(t, hs \ {m})
    PROVE  \E s \in [1 .. n + 1 -> hs] : Rising(s, hs)
<1>. DEFINE s == [i \in 1 .. n + 1 |-> IF i = 1 THEN m ELSE t[i - 1]]
<1>1. /\ 1 \in 1 .. n + 1 /\ s[1] = m
      /\ \A i \in 1 .. n : i + 1 \in 1 .. n + 1 /\ s[i + 1] = t[i]
      /\ \A i \in 1 .. n + 1 : i # 1 => i - 1 \in 1 .. n /\ s[i] = t[i - 1]
  OBVIOUS
<1>2. s \in [1 .. n + 1 -> hs]  BY <1>1
<1>. HIDE DEF s
<1>3. Range(s) = hs
  <2>1. ASSUME NEW h \in hs PROVE \E i \in 1 .. n + 1 : s[i] = h
    <3>1. CASE h = m  BY <1>1, <3>1
    <3>2. CASE h # m
      <4>1. PICK i \in 1 .. n : t[i] = h  BY <3>2 DEF Rising, Range
      <4>. QED  BY <1>1, <4>1
    <3>. QED  BY <3>1, <3>2
  <2>2. DOMAIN s = 1 .. n + 1 /\ \A i \in 1 .. n + 1 : s[i] \in hs  BY <1>2
  <2>. QED  BY <2>1, <2>2 DEF Range
<1>4. ASSUME NEW i \in 1 .. n + 1, NEW j \in 1 .. n + 1, i < j PROVE s[i] < s[j]
  <2>1. j - 1 \in 1 .. n /\ s[j] = t[j - 1]  BY <1>1, <1>4
  <2>2. CASE i = 1
    <3>1. t[j - 1] \in hs \ {m} /\ s[i] = m  BY <1>1, <2>1, <2>2
    <3>2. m < t[j - 1]
      <4>1. ASSUME NEW x \in hs \ {m} PROVE m < x  OBVIOUS
      <4>. QED  BY <3>1, <4>1
    <3>. QED  BY <2>1, <3>1, <3>2
  <2>3. CASE i # 1
    <3>1. i - 1 \in 1 .. n /\ s[i] = t[i - 1] /\ i - 1 < j - 1  BY <1>1, <2>3, <1>4
    <3>. QED  BY <2>1, <3>1 DEF Rising
  <2>. QED  BY <2>2, <2>3
<1>. QED  BY <1>2, <1>3, <1>4 DEF Rising

(* Every finite set of hours has a listing: the smallest one without would have one
   by its smaller subsets. *)
LEMMA RisingExists ==
    ASSUME NEW hs \in SUBSET Nat, IsFiniteSet(hs)
    PROVE  \E s \in [1 .. Cardinality(hs) -> hs] : Rising(s, hs)
<1>. DEFINE Unsorted(S) == ~\E s \in [1 .. Cardinality(S) -> S] : Rising(s, S)
            T == {n \in Nat : \E S \in SUBSET Nat : IsFiniteSet(S) /\ Cardinality(S) = n /\ Unsorted(S)}
<1>1. ASSUME T # {} PROVE FALSE
  <2>1. PICK n \in T : \A k \in T : n <= k  BY <1>1, LeastNat
  <2>2. PICK S \in SUBSET Nat : IsFiniteSet(S) /\ Cardinality(S) = n /\ Unsorted(S)  BY <2>1
  <2>3. S # {}
    <3>1. ASSUME S = {} PROVE FALSE
      <4>1. n = 0 BY <2>2, <3>1, FS_EmptySet
      <4>2. [i \in 1 .. 0 |-> 0] \in [1 .. 0 -> {}] /\ Rising([i \in 1 .. 0 |-> 0], {})
        BY DEF Rising, Range
      <4>. QED BY <2>2, <3>1, <4>1, <4>2
    <3>. QED BY <3>1
  <2>4. PICK m \in S : \A k \in S : m <= k  BY <2>3, LeastNat
  <2>5. IsFiniteSet(S \ {m}) /\ Cardinality(S \ {m}) = n - 1  BY <2>2, <2>4, FS_RemoveElement
  <2>6. n - 1 \in Nat  BY <2>5, FS_CardinalityType
  <2>7. n - 1 \notin T  BY <2>1, <2>6
  <2>8. ~Unsorted(S \ {m})  BY <2>5, <2>6, <2>7
  <2>9. PICK t \in [1 .. n - 1 -> S \ {m}] : Rising(t, S \ {m})  BY <2>5, <2>8
  <2>10. \E s \in [1 .. (n - 1) + 1 -> S] : Rising(s, S)  BY <2>4, <2>6, <2>9, RisingCons
  <2>11. (n - 1) + 1 = n BY <2>6
  <2>. QED  BY <2>2, <2>10, <2>11
<1>2. Cardinality(hs) \in Nat  BY FS_CardinalityType
<1>. QED  BY <1>1, <1>2

(* list_record_files lists the selected files, each once, in rising order. *)
LEMMA ListedRises ==
    ASSUME NEW hs \in SUBSET Nat, IsFiniteSet(hs)
    PROVE  /\ Listed(hs) \in Seq(hs) /\ Len(Listed(hs)) = Cardinality(hs)
           /\ Rising(Listed(hs), hs)
<1>1. Listed(hs) \in [1 .. Cardinality(hs) -> hs] /\ Rising(Listed(hs), hs)
  <2>1. PICK s \in [1 .. Cardinality(hs) -> hs] : Rising(s, hs)  BY RisingExists
  <2>. QED  BY <2>1 DEF Listed, Rising
<1>2. Cardinality(hs) \in Nat  BY FS_CardinalityType
<1>. QED  BY <1>1, <1>2

(* The newest file is there and no other is newer. *)
LEMMA NewestIsLast ==
    ASSUME NEW hs \in SUBSET Nat, IsFiniteSet(hs), hs # {}
    PROVE  Max(hs) \in hs /\ \A h \in hs : h <= Max(hs)
<1>. DEFINE n == Cardinality(hs)
<1>1. n \in Nat  BY FS_CardinalityType
<1>2. PICK s \in [1 .. n -> hs] : Rising(s, hs)  BY RisingExists
<1>3. n # 0 
  <2>1. PICK h \in hs : TRUE OBVIOUS
  <2>2. PICK i \in 1 .. n : s[i] = h  BY <1>2, <2>1 DEF Rising, Range
  <2>. QED BY <1>1, <2>2
<1>. HIDE DEF n
<1>4. s[n] \in hs  BY <1>1, <1>2, <1>3
<1>5. ASSUME NEW h \in hs PROVE s[n] >= h
  <2>1. PICK i \in 1 .. n : s[i] = h  BY <1>2 DEF Rising, Range
  <2>2. n \in 1 .. n /\ DOMAIN s = 1 .. n  BY <1>1, <1>2, <1>3
  <2>3. CASE i = n  BY <1>4, <2>1, <2>3
  <2>4. CASE i < n
    <3>1. s[i] < s[n]  BY <1>2, <2>2, <2>4 DEF Rising
    <3>2. ASSUME NEW x \in Nat, NEW y \in Nat, x < y PROVE y >= x  BY <3>2
    <3>3. s[i] \in Nat /\ s[n] \in Nat  BY <1>4, <2>1
    <3>. QED  BY <2>1, <3>1, <3>2, <3>3
  <2>. QED  BY <1>1, <2>3, <2>4
<1>6. \E x \in hs : \A y \in hs : x >= y BY <1>4, <1>5
<1>7. Max(hs) \in hs /\ \A h \in hs : Max(hs) >= h
  BY <1>6 DEF Max
<1>. QED  BY <1>7

-------------------------------------------------------------------------------
(* Hours and windows *)

(* The hour of an instant, and the instants of an hour. *)
LEMMA HourBounds ==
    ASSUME NEW g \in Nat, NEW h \in Nat
    PROVE  /\ g \div HourLength \in Nat
           /\ g < (h + 1) * HourLength => g \div HourLength <= h
           /\ g >= h * HourLength => g \div HourLength >= h
           /\ g \div HourLength <= h => g < (h + 1) * HourLength
           /\ g \div HourLength >= h => g >= h * HourLength
<1>. USE ReplayAssumption
<1>. DEFINE q == g \div HourLength
<1>1. q \in Nat /\ q * HourLength <= g /\ g < (q + 1) * HourLength  OBVIOUS
<1>. HIDE DEF q
<1>2. \A a, b \in Nat : a <= b => a * HourLength <= b * HourLength  OBVIOUS
<1>3. \A a, b \in Nat : a < b => a + 1 <= b /\ a + 1 \in Nat  OBVIOUS
<1>4. h * HourLength \in Int /\ q * HourLength \in Int /\ (q + 1) * HourLength \in Int
      /\ (h + 1) * HourLength \in Int /\ h + 1 \in Nat /\ q + 1 \in Nat
  BY <1>1
<1>5. ASSUME g < (h + 1) * HourLength PROVE q <= h
  <2>1. ASSUME h < q PROVE FALSE  BY <1>1, <1>2, <1>3, <1>4, <1>5, <2>1
  <2>. QED  BY <1>1, <2>1
<1>6. ASSUME g >= h * HourLength PROVE q >= h
  <2>1. ASSUME q < h PROVE FALSE  BY <1>1, <1>2, <1>3, <1>4, <1>6, <2>1
  <2>. QED  BY <1>1, <2>1
<1>7. q <= h => g < (h + 1) * HourLength
  <2>1. q <= h => (q + 1) * HourLength <= (h + 1) * HourLength  BY <1>1, <1>2, <1>4
  <2>. QED  BY <1>1, <1>4, <2>1
<1>8. q >= h => g >= h * HourLength  BY <1>1, <1>2, <1>4
<1>. QED  BY <1>1, <1>5, <1>6, <1>7, <1>8 DEF q

(* Where the ends have names in the order of time, names select hours. *)
LEMMA NamesAreHours ==
    ASSUME NEW w, Nameable(w), NEW h
    PROVE  HourlyFileInWindow(h, w) <=> /\ \A f \in w.from : h >= HourOf(f)
                                        /\ \A t \in w.to : h <= HourOf(t)
BY DEF Nameable, HourlyFileInWindow, NamedHour

(* An hour that may hold a record in the window is neither before nor after it. *)
LEMMA WindowHours ==
    ASSUME NEW w \in TimeWindow, NEW h \in Hours,
           NEW ts \in h * HourLength .. (h + 1) * HourLength - 1, InWindow(w, ts)
    PROVE  /\ \A f \in w.from : HourOf(f) \in Nat /\ h >= HourOf(f)
           /\ \A t \in w.to : h <= HourOf(t)
<1>. USE ReplayAssumption
<1>1. h \in Nat \ {0} /\ h * HourLength \in Nat /\ (h + 1) * HourLength \in Nat  OBVIOUS
<1>2. ts \in Nat /\ ts < (h + 1) * HourLength /\ ts >= h * HourLength  BY <1>1
<1>3. w.from \subseteq Int /\ w.to \subseteq Int  BY DEF TimeWindow, Optional
<1>4. ASSUME NEW f \in w.from PROVE HourOf(f) \in Nat /\ h >= HourOf(f)
  <2>1. f \in Int /\ f <= ts  BY <1>3 DEF InWindow
  <2>2. CASE f < 0
    <3>1. HourOf(f) = 0 \div HourLength /\ 0 < (h + 1) * HourLength  BY <1>1, <1>2, <2>2 DEF HourOf
    <3>. QED  BY <1>1, <3>1, HourBounds
  <2>3. CASE f >= 0
    <3>1. f \in Nat /\ HourOf(f) = f \div HourLength /\ f < (h + 1) * HourLength
      BY <1>1, <1>2, <2>1, <2>3 DEF HourOf
    <3>. QED  BY <1>1, <3>1, HourBounds
  <2>. QED  BY <2>1, <2>2, <2>3
<1>5. ASSUME NEW t \in w.to PROVE h <= HourOf(t)
  <2>1. t \in Int /\ ts <= t  BY <1>3 DEF InWindow
  <2>2. t \in Nat /\ HourOf(t) = t \div HourLength /\ t >= h * HourLength
    BY <1>1, <1>2, <2>1 DEF HourOf
  <2>. QED  BY <1>1, <2>2, HourBounds
<1>. QED  BY <1>4, <1>5

(* Its file is then selected by its name. *)
LEMMA WindowSelectsHour ==
    ASSUME NEW w \in TimeWindow, Nameable(w), NEW h \in Hours,
           NEW ts \in h * HourLength .. (h + 1) * HourLength - 1, InWindow(w, ts)
    PROVE  HourlyFileInWindow(h, w)
BY WindowHours, NamesAreHours

(* A window for which a file is listed that has something to hand over has both ends
   named in the order of time. *)
LEMMA ServedIsNameable ==
    ASSUME NEW w \in TimeWindow, NEW h \in Hours, HourlyFileInWindow(h, w),
           NEW ts \in h * HourLength .. (h + 1) * HourLength - 1, InWindow(w, ts)
    PROVE  Nameable(w)
<1>1. h \in Nat \ {0} /\ \A e \in EarlyNames : e \in Nat /\ h < e  BY ReplayAssumption
<1>2. ASSUME NEW f \in w.from PROVE HourOf(f) \notin EarlyNames
  <2>1. HourOf(f) \in Nat /\ h >= HourOf(f)  BY WindowHours
  <2>. HIDE DEF HourOf
  <2>. QED  BY <1>1, <2>1
<1>3. ASSUME NEW t \in w.to PROVE HourOf(t) \notin EarlyNames
  <2>1. h <= NamedHour(t)  BY DEF HourlyFileInWindow
  <2>. QED  BY <1>1, <2>1 DEF NamedHour
<1>. QED  BY <1>2, <1>3 DEF Nameable

(* A file that is selected by its name may hold a record in the window. *)
LEMMA SelectedHourTouches ==
    ASSUME NEW w \in TimeWindow, Valid(w), Nameable(w), NEW h \in Hours, HourlyFileInWindow(h, w)
    PROVE  \E ts \in h * HourLength .. (h + 1) * HourLength - 1 : InWindow(w, ts)
<1>. USE ReplayAssumption
<1>. DEFINE lo == h * HourLength
            hi == (h + 1) * HourLength
<1>1. h \in Nat \ {0} /\ lo \in Nat /\ hi \in Nat /\ lo < hi /\ lo > 0  OBVIOUS
<1>2. ASSUME NEW t \in w.to PROVE t \in Int /\ lo <= t
  <2>1. t \in Int /\ h <= HourOf(t)  BY NamesAreHours DEF TimeWindow, Optional
  <2>2. CASE t < 0
    <3>1. HourOf(t) = 0 \div HourLength  BY <2>2 DEF HourOf
    <3>2. 0 < (0 + 1) * HourLength  OBVIOUS
    <3>3. HourOf(t) <= 0  BY <3>1, <3>2, HourBounds
    <3>4. 0 \div HourLength \in Nat BY HourBounds
    <3>. QED  BY <1>1, <2>1, <3>1, <3>3, <3>4
  <2>3. CASE t >= 0
    <3>1. t \in Nat /\ HourOf(t) = t \div HourLength  BY <2>1, <2>3 DEF HourOf
    <3>. QED  BY <1>1, <2>1, <3>1, HourBounds
  <2>. QED  BY <2>1, <2>2, <2>3
<1>3. ASSUME NEW f \in w.from PROVE f \in Int /\ f < hi
  <2>1. f \in Int /\ h >= HourOf(f)  BY NamesAreHours DEF TimeWindow, Optional
  <2>2. CASE f < 0  BY <1>1, <2>1, <2>2
  <2>3. CASE f >= 0
    <3>1. f \in Nat /\ HourOf(f) = f \div HourLength  BY <2>1, <2>3 DEF HourOf
    <3>. QED  BY <1>1, <2>1, <3>1, HourBounds
  <2>. QED  BY <2>1, <2>2, <2>3
<1>. HIDE DEF lo, hi
<1>4. CASE \A f \in w.from : f <= lo
  <2>1. lo \in lo .. hi - 1  BY <1>1
  <2>2. InWindow(w, lo)  BY <1>1, <1>2, <1>3, <1>4 DEF InWindow
  <2>. QED  BY <2>1, <2>2 DEF lo, hi
<1>5. CASE \E f \in w.from : ~(f <= lo)
  <2>1. PICK f \in w.from : ~(f <= lo)  BY <1>5
  <2>2. w.from = {f}  BY DEF TimeWindow, Optional
  <2>3. f \in lo .. hi - 1  BY <1>1, <1>3, <2>1
  <2>4. InWindow(w, f)  BY <1>2, <2>2, <2>3 DEF InWindow, Valid
  <2>. QED  BY <2>3, <2>4 DEF lo, hi
<1>. QED  BY <1>4, <1>5

-------------------------------------------------------------------------------
(* Places *)

(* The places in some files, one by one. *)
LEMMA PlaceMembers ==
    ASSUME NEW d, NEW hs
    PROVE  \A p : p \in UNION {{h} \X (1 .. Len(d[h].recs)) : h \in hs}
                    <=> \E h \in hs : \E i \in 1 .. Len(d[h].recs) : p = <<h, i>>
OBVIOUS

(* The places in some files, by hour and number. *)
LEMMA PlaceIn ==
    ASSUME NEW hs
    PROVE  /\ \A h, i : <<h, i>> \in PlacesIn(hs) <=> h \in hs /\ i \in 1 .. Len(dir[h].recs)
           /\ \A p \in PlacesIn(hs) : \E h \in hs : \E i \in 1 .. Len(dir[h].recs) : p = <<h, i>>
BY PlaceMembers DEF PlacesIn

(* The same in the next state. *)
LEMMA PlaceInNext ==
    ASSUME NEW hs
    PROVE  /\ \A h, i : <<h, i>> \in PlacesIn(hs)' <=> h \in hs /\ i \in 1 .. Len(dir'[h].recs)
           /\ \A p \in PlacesIn(hs)' : \E h \in hs : \E i \in 1 .. Len(dir'[h].recs) : p = <<h, i>>
BY PlaceMembers DEF PlacesIn

-------------------------------------------------------------------------------
(* The steps up to the first record *)

(* A directory to replay holds well-formed files. *)
LEMMA DirectoryTypes ==
    ASSUME NEW d \in Directories
    PROVE  /\ DOMAIN d \subseteq Hours /\ d = [h \in DOMAIN d |-> d[h]]
           /\ \A h \in DOMAIN d : d[h] \in AnyFile(h)
<1>1. PICK hs \in SUBSET Hours : /\ d \in [hs -> UNION {AllFiles[h] : h \in hs}]
                                 /\ \A h \in hs : d[h] \in AllFiles[h]
  BY DEF Directories
<1>2. ASSUME NEW h \in hs PROVE d[h] \in AnyFile(h)
  <2>1. d[h] \in File(h, MaxRecords)  BY <1>1, <1>2 DEF AllFiles
  <2>2. BoundedSeq(Record(h), MaxRecords) \subseteq Seq(Record(h))
    BY ReplayAssumption DEF BoundedSeq, SeqOf
  <2>3. <<>> \in Seq(Record(h))  OBVIOUS
  <2>4. 0 .. MaxRecords + 1 \subseteq Nat  OBVIOUS
  <2>5. ASSUME NEW f \in [readable : {TRUE}, count : 0 .. MaxRecords + 1,
                          recs : BoundedSeq(Record(h), MaxRecords), torn : BOOLEAN]
        PROVE  f \in AnyFile(h)
    BY <2>2, <2>4 DEF AnyFile
  <2>6. [readable |-> FALSE, count |-> 0, recs |-> <<>>, torn |-> FALSE] \in AnyFile(h)
    BY <2>3 DEF AnyFile
  <2>. QED  BY <2>1, <2>5, <2>6 DEF File
<1>. QED  BY <1>1, <1>2

(* A new result, and one of a replay that could not begin. *)
LEMMA NewResults ==
    /\ NewResult \in Results
    /\ [NewResult EXCEPT !.callbackError = TRUE] \in Results
    /\ [NewResult EXCEPT !.fileError = TRUE] \in Results
BY DEF NewResult, Results

(* A new reader over any directory. *)
LEMMA ReplayInit == Init => ReplayInv
<1>. SUFFICES ASSUME Init PROVE ReplayInv  OBVIOUS
<1>. USE DEF Init
<1>1. DiskTypes  BY DirectoryTypes DEF DiskTypes
<1>2. ReaderTypes
  <2>1. NoWindow \in TimeWindow  BY DEF NoWindow, TimeWindow, Optional
  <2>2. <<>> \in Seq(Hours) /\ <<>> \in Seq(Nat \X Nat)  OBVIOUS
  <2>3. window \in TimeWindow /\ files \in Seq(Hours) /\ delivered \in Seq(Nat \X Nat)
        /\ result \in Results
    BY <2>1, <2>2, NewResults
  <2>4. readError \in BOOLEAN  OBVIOUS
  <2>5. fileIndex \in Nat \ {0} /\ pos \in Nat /\ total \in Nat  OBVIOUS
  <2>. QED  BY ONLY <2>3, <2>4, <2>5, phase = "new" DEF ReaderTypes
<1>3. AppendInv /\ ListInv /\ TotalInv  BY DEF AppendInv, ListInv, TotalInv
<1>4. PassedInv /\ PhaseInv /\ ResultInv  BY DEF PassedInv, PhaseInv, ResultInv, NewResult
<1>. QED  BY <1>1, <1>2, <1>3, <1>4 DEF ReplayInv

(* The ways open and replay_all give up before there is a list. *)
LEMMA RefusalKeeps ==
    ASSUME ReplayInv, NEW w \in TimeWindow, ReplayWithoutCallback(w) \/ OpenInvalidWindow(w)
    PROVE  ReplayInv'
<1>1. /\ phase = "new" /\ phase' = "returned" /\ window' = w
      /\ UNCHANGED <<dir, deleted, appended, files, fileIndex, pos, total, readError, delivered>>
      /\ \/ result' = [NewResult EXCEPT !.callbackError = TRUE]
         \/ result' = [NewResult EXCEPT !.fileError = TRUE] /\ ~Valid(w)
  BY DEF ReplayWithoutCallback, OpenInvalidWindow, Return, disk, reader
<1>2. DiskTypes /\ ReaderTypes /\ AppendInv /\ PassedInv /\ PhaseInv /\ ResultInv  BY DEF ReplayInv
<1>3. files = <<>> /\ delivered = <<>> /\ pos = 0 /\ readError = FALSE
  BY <1>1, <1>2 DEF PhaseInv, PassedInv
<1>4. DiskTypes'  BY <1>1, <1>2 DEF DiskTypes
<1>5. ReaderTypes'  BY <1>1, <1>2, NewResults DEF ReaderTypes
<1>6. AppendInv' /\ ListInv' /\ TotalInv'  BY <1>1, <1>2, <1>3 DEF AppendInv, ListInv, TotalInv
<1>7. PassedInv' /\ PhaseInv'  BY <1>1, <1>2, <1>3 DEF PassedInv, PhaseInv
<1>8. ResultInv'
  <2>1. Valid(window)' <=> Valid(w)  BY <1>1 DEF Valid
  <2>. QED  BY <1>1, <1>3, <2>1 DEF ResultInv, NewResult
<1>. QED  BY <1>4, <1>5, <1>6, <1>7, <1>8 DEF ReplayInv

(* The listing. *)
LEMMA ListingKeeps ==
    ASSUME ReplayInv, NEW w \in TimeWindow, OpenListing(w)
    PROVE  ReplayInv'
<1>1. /\ phase = "new" /\ Valid(w) /\ window' = w /\ files' = ListRecordFiles(dir, w)
      /\ UNCHANGED <<dir, deleted, appended, fileIndex, pos, total, readError, delivered>>
      /\ \/ files' # <<>> /\ phase' = "probe" /\ UNCHANGED result
         \/ files' = <<>> /\ w # NoWindow /\ phase' = "finish" /\ UNCHANGED result
         \/ /\ files' = <<>> /\ w = NoWindow /\ phase' = "returned"
            /\ result' = [NewResult EXCEPT !.fileError = TRUE]
  BY DEF OpenListing, Return, disk
<1>2. DiskTypes /\ ReaderTypes /\ AppendInv /\ PassedInv /\ PhaseInv /\ ResultInv /\ TotalInv
  BY DEF ReplayInv
<1>3. /\ files = <<>> /\ delivered = <<>> /\ pos = 0 /\ readError = FALSE /\ fileIndex = 1 /\ total = 0
      /\ result.callbackError = FALSE
  BY <1>1, <1>2 DEF PhaseInv, PassedInv, TotalInv, ResultInv, ReaderTypes
<1>4. /\ files' \in Seq(Selected') /\ Range(files') = Selected' /\ Len(files') \in Nat
      /\ \A i, j \in 1 .. Len(files') : i < j => files'[i] < files'[j]
  <2>1. Selected' = {h \in DOMAIN dir : HourlyFileInWindow(h, w)}  BY <1>1 DEF Selected
  <2>2. Selected' \in SUBSET Nat /\ IsFiniteSet(Selected')
    BY <1>2, <2>1, ReplayAssumption, FS_Subset DEF DiskTypes
  <2>3. files' = Listed(Selected')  BY <1>1, <2>1 DEF ListRecordFiles
  <2>. QED  BY <2>2, <2>3, ListedRises DEF Rising
<1>5. Selected' \subseteq Hours /\ files' \in Seq(Hours)
  <2>1. Selected' \subseteq Hours BY <1>1, <1>2 DEF Selected, DiskTypes
  <2>. QED BY <1>4, <2>1
<1>6. files' # <<>> => 1 \in 1 .. Len(files') /\ files'[1] \in Selected'  BY <1>4
<1>7. files' = <<>> => Selected' = {}  BY <1>4 DEF Range
<1>8. DiskTypes'  BY <1>1, <1>2 DEF DiskTypes
<1>9. ReaderTypes'  BY <1>1, <1>2, <1>5, NewResults DEF ReaderTypes
<1>10. AppendInv'  BY <1>1, <1>2 DEF AppendInv
<1>11. ListInv'
  <2>1. ASSUME NEW h \in Selected' PROVE 0 <= Len(dir'[h].recs)
    <3>1. dir'[h] \in AnyFile(h)  BY <1>8 DEF DiskTypes, Selected
    <3>. QED  BY <3>1 DEF AnyFile
  <2>. QED  BY <1>1, <1>3, <1>4, <1>6, <2>1 DEF ListInv, Here
<1>12. PassedInv'  BY <1>1, <1>3 DEF PassedInv
<1>13. PhaseInv'  BY <1>1, <1>3, <1>7 DEF PhaseInv, NewResult
<1>14. ResultInv'  BY <1>1, <1>2, <1>3, <1>7 DEF ResultInv, NewResult, ReaderTypes
<1>15. TotalInv'
  <2>1. files' # <<>> => {h \in Selected' : phase' = "probe" => h < Here'} = {}
    <3>1. ASSUME files' # <<>>, NEW h \in Selected' PROVE ~(h < Here')
      <4>1. PICK i \in 1 .. Len(files') : h = files'[i]  BY <1>4 DEF Range
      <4>2. Here' = files'[1]  BY <1>1, <1>3 DEF Here
      <4>3. h \in Nat /\ Here' \in Nat  BY <1>5, <1>6, <3>1, <4>2, ReplayAssumption
      <4>4. i = 1 \/ files'[1] < files'[i]  BY <1>4, <1>6, <3>1, <4>1
      <4>. QED  BY <4>1, <4>2, <4>3, <4>4
    <3>. QED  BY <1>1, <3>1
  <2>2. PlacesIn({})' = {}  BY PlaceInNext
  <2>3. Cardinality({}) = 0  BY FS_EmptySet
  <2>. QED  BY <1>1, <1>3, <2>1, <2>2, <2>3 DEF TotalInv
<1>. QED  BY <1>8, <1>9, <1>10, <1>11, <1>12, <1>13, <1>14, <1>15 DEF ReplayInv

(* One more file adds its records to the number of places. *)
LEMMA OneMoreFile ==
    ASSUME DiskTypes, NEW hs \in SUBSET DOMAIN dir, NEW h \in DOMAIN dir, h \notin hs
    PROVE  /\ IsFiniteSet(PlacesIn(hs))
           /\ Cardinality(PlacesIn(hs \cup {h})) = Cardinality(PlacesIn(hs)) + Len(dir[h].recs)
<1>. DEFINE block == [g \in hs |-> {g} \X (1 .. Len(dir[g].recs))]
<1>1. \A g \in DOMAIN dir : Len(dir[g].recs) \in Nat
  <2>1. \A g \in DOMAIN dir : dir[g] \in AnyFile(g)  BY DEF DiskTypes
  <2>. QED  BY <2>1 DEF AnyFile
<1>2. \A g \in DOMAIN dir : /\ IsFiniteSet({g} \X (1 .. Len(dir[g].recs)))
                            /\ Cardinality({g} \X (1 .. Len(dir[g].recs))) = Len(dir[g].recs)
  <2>. TAKE g \in DOMAIN dir
  <2>1. /\ IsFiniteSet(1 .. Len(dir[g].recs))
        /\ Cardinality(1 .. Len(dir[g].recs)) = Len(dir[g].recs)
    BY <1>1, FS_Interval
  <2>2. IsFiniteSet({g}) /\ Cardinality({g}) = 1  BY FS_Singleton
  <2>3. /\ IsFiniteSet({g} \X (1 .. Len(dir[g].recs)))
        /\ Cardinality({g} \X (1 .. Len(dir[g].recs)))
             = Cardinality({g}) * Cardinality(1 .. Len(dir[g].recs))
    BY ONLY <2>1, <2>2, FS_Product
  <2>4. 1 * Len(dir[g].recs) = Len(dir[g].recs)  BY <1>1
  <2>. QED  BY ONLY <2>1, <2>2, <2>3, <2>4
<1>3. IsFiniteSet(PlacesIn(hs))
  <2>1. IsFiniteSet(hs)  BY ReplayAssumption, FS_Subset DEF DiskTypes
  <2>2. block \in Surjection(hs, Range(block))  BY DEF Surjection, Range
  <2>3. IsFiniteSet(Range(block))  BY ONLY <2>1, <2>2, FS_Surjection
  <2>4. \A T \in Range(block) : IsFiniteSet(T)  BY <1>2 DEF Range
  <2>5. PlacesIn(hs) = UNION Range(block)  BY DEF PlacesIn, Range
  <2>. QED  BY ONLY <2>3, <2>4, <2>5, FS_UNION
<1>. DEFINE more == {h} \X (1 .. Len(dir[h].recs))
<1>4. PlacesIn(hs \cup {h}) = PlacesIn(hs) \cup more  BY DEF PlacesIn
<1>5. PlacesIn(hs) \cap more = {}
  <2>1. ASSUME NEW p \in PlacesIn(hs), p \in more PROVE FALSE
    <3>1. PICK g \in hs : \E i \in 1 .. Len(dir[g].recs) : p = <<g, i>>  BY PlaceIn
    <3>2. PICK i : p = <<g, i>>  BY <3>1
    <3>3. p[1] = g /\ p[1] = h  BY <2>1, <3>2
    <3>. QED  BY <3>3
  <2>. QED  BY <2>1
<1>6. IsFiniteSet(more) /\ Cardinality(more) = Len(dir[h].recs)  BY <1>2
<1>. HIDE DEF more
<1>7. Cardinality(PlacesIn(hs) \cup more)
        = Cardinality(PlacesIn(hs)) + Cardinality(more) - Cardinality(PlacesIn(hs) \cap more)
  BY ONLY <1>3, <1>6, FS_Union
<1>8. Cardinality({}) = 0 /\ Cardinality(PlacesIn(hs)) \in Nat  BY <1>3, FS_EmptySet, FS_CardinalityType
<1>9. Cardinality(PlacesIn(hs) \cap more) = 0  BY <1>5, <1>8
<1>10. Cardinality(PlacesIn(hs) \cup more) = Cardinality(PlacesIn(hs)) + Len(dir[h].recs)
  <2>1. Len(dir[h].recs) \in Nat  BY <1>1
  <2>. QED  BY ONLY <1>6, <1>7, <1>8, <1>9, <2>1
<1>. QED  BY <1>3, <1>4, <1>10

(* The reader's file in the sorted list: the earlier files are those before it. *)
LEMMA ListOrder ==
    ASSUME DiskTypes, ReaderTypes, ListInv, files # <<>>
    PROVE  /\ Selected \subseteq DOMAIN dir /\ Selected \subseteq Nat
           /\ Here \in Selected /\ files[1] \in Selected
           /\ \A h \in Selected : ~(h < files[1])
           /\ fileIndex = Len(files) => Selected = {h \in Selected : h < Here} \cup {Here}
           /\ fileIndex # Len(files) =>
                /\ fileIndex + 1 \in 1 .. Len(files)
                /\ files[fileIndex + 1] \in Selected /\ Here < files[fileIndex + 1]
                /\ {h \in Selected : h < files[fileIndex + 1]}
                     = {h \in Selected : h < Here} \cup {Here}
<1>. DEFINE n == Len(files)
<1>1. Selected \subseteq DOMAIN dir /\ Selected \subseteq Nat
  BY ReplayAssumption DEF Selected, DiskTypes
<1>2. /\ n \in Nat /\ DOMAIN files = 1 .. n
      /\ \A i, j \in 1 .. n : i < j => files[i] < files[j]
      /\ fileIndex \in 1 .. n
  BY DEF ListInv, ReaderTypes
<1>3. /\ \A i \in 1 .. n : files[i] \in Selected
      /\ \A h \in Selected : \E i \in 1 .. n : files[i] = h
  BY <1>2 DEF ListInv, Range
<1>. HIDE DEF n
<1>4. Here \in Selected /\ 1 \in 1 .. n /\ files[1] \in Selected  BY <1>2, <1>3 DEF Here
<1>5. \A i, j \in 1 .. n : files[i] < files[j] => i < j
  <2>. SUFFICES ASSUME NEW i \in 1 .. n, NEW j \in 1 .. n, files[i] < files[j], ~(i < j) PROVE FALSE
    OBVIOUS
  <2>1. files[i] \in Nat /\ files[j] \in Nat  BY <1>1, <1>3
  <2>2. CASE i = j  BY <2>1, <2>2
  <2>3. CASE j < i
    <3>1. files[j] < files[i]  BY <1>2, <2>3
    <3>. QED  BY <2>1, <3>1
  <2>. QED  BY <1>2, <2>2, <2>3
<1>6. ASSUME NEW h \in Selected PROVE ~(h < files[1])
  <2>1. PICK i \in 1 .. n : files[i] = h  BY <1>3
  <2>2. ~(i < 1)  BY <1>2
  <2>. QED  BY <1>4, <1>5, <2>1, <2>2
<1>7. ASSUME fileIndex = n, NEW h \in Selected PROVE h < Here \/ h = Here
  <2>1. PICK i \in 1 .. n : files[i] = h  BY <1>3
  <2>2. i = fileIndex \/ i < fileIndex  BY <1>2, <1>7
  <2>. QED  BY <1>2, <2>1, <2>2 DEF Here
<1>8. ASSUME fileIndex # n
      PROVE  /\ fileIndex + 1 \in 1 .. n
             /\ files[fileIndex + 1] \in Selected /\ Here < files[fileIndex + 1]
             /\ \A h \in Selected : h < files[fileIndex + 1] <=> h < Here \/ h = Here
  <2>1. fileIndex + 1 \in 1 .. n /\ fileIndex < fileIndex + 1  BY <1>2, <1>8
  <2>2. files[fileIndex + 1] \in Selected /\ Here < files[fileIndex + 1]
    BY <1>2, <1>3, <2>1 DEF Here
  <2>3. ASSUME NEW h \in Selected, h < files[fileIndex + 1] PROVE h < Here \/ h = Here
    <3>1. PICK i \in 1 .. n : files[i] = h  BY <1>3
    <3>2. i < fileIndex + 1  BY <1>5, <2>1, <2>3, <3>1
    <3>3. i = fileIndex \/ i < fileIndex  BY <1>2, <3>2
    <3>. QED  BY <1>2, <3>1, <3>3 DEF Here
  <2>4. \A x, y, z \in Nat : x < y /\ y < z => x < z  OBVIOUS
  <2>5. ASSUME NEW h \in Selected, h < Here \/ h = Here PROVE h < files[fileIndex + 1]
    <3>1. h \in Nat /\ Here \in Nat /\ files[fileIndex + 1] \in Nat  BY <1>1, <1>4, <2>2
    <3>. QED  BY <2>2, <2>4, <2>5, <3>1
  <2>. QED  BY <2>1, <2>2, <2>3, <2>5
<1>. QED  BY <1>1, <1>4, <1>6, <1>7, <1>8 DEF n

(* What stays the same while nobody touches the disk. *)
LEMMA SameDisk ==
    ASSUME DiskTypes, AppendInv, UNCHANGED <<dir, deleted, appended, window>>, phase' # "new"
    PROVE  /\ DiskTypes' /\ AppendInv' /\ Selected' = Selected
           /\ \A hs : PlacesIn(hs)' = PlacesIn(hs)
           /\ \A h : (HeaderOk(h)' <=> HeaderOk(h)) /\ LenAtListing(h)' = LenAtListing(h)
           /\ \A p : At(p)' = At(p)
           /\ \A P : Wanted(P)' = Wanted(P)
           /\ Valid(window)' <=> Valid(window)
<1>1. DiskTypes' /\ AppendInv' /\ Selected' = Selected
  BY DEF DiskTypes, AppendInv, Selected
<1>2. \A hs : PlacesIn(hs)' = PlacesIn(hs)  BY DEF PlacesIn
<1>3. \A h : (HeaderOk(h)' <=> HeaderOk(h)) /\ LenAtListing(h)' = LenAtListing(h)
  BY DEF HeaderOk, LenAtListing
<1>4. \A p : At(p)' = At(p)  BY DEF At
<1>5. \A P : Wanted(P)' = Wanted(P)  BY DEF At, Wanted
<1>6. Valid(window)' <=> Valid(window)  BY DEF Valid
<1>. QED  BY <1>1, <1>2, <1>3, <1>4, <1>5, <1>6

(* The headers are read one after the other. *)
LEMMA ProbeKeeps == ASSUME ReplayInv, Probe PROVE ReplayInv'
<1>1. /\ phase = "probe"
      /\ UNCHANGED <<dir, deleted, appended, window, pos, readError, delivered>>
  BY DEF Probe, disk
<1>2. DiskTypes /\ ReaderTypes /\ AppendInv /\ ListInv /\ PassedInv /\ PhaseInv /\ ResultInv /\ TotalInv
  BY DEF ReplayInv
<1>3. files # <<>> /\ delivered = <<>> /\ pos = 0 /\ readError = FALSE /\ result.callbackError = FALSE
  BY <1>1, <1>2 DEF PhaseInv, PassedInv, ReaderTypes
<1>4. /\ result.replayed = 0 /\ ~result.completed /\ ~result.fileError /\ ~result.countMismatch
      /\ fileIndex \in 1 .. Len(files) /\ Len(files) \in Nat
  BY <1>1, <1>2, <1>3 DEF ResultInv, ListInv, ReaderTypes
<1>5. Here \in Selected  BY <1>2, <1>3, ListOrder
<1>6. CASE ~HeaderOk(Here)
  <2>1. /\ phase' = "returned" /\ result' = [NewResult EXCEPT !.fileError = TRUE]
        /\ files' = <<>> /\ UNCHANGED <<fileIndex, total>>
    BY <1>6 DEF Probe, Return, Here
  <2>2. DiskTypes' /\ AppendInv' /\ Selected' = Selected /\ (\A h : HeaderOk(h)' <=> HeaderOk(h))
    BY <1>1, <1>2, <2>1, SameDisk
  <2>3. ReaderTypes'
    <3>1. <<>> \in Seq(Hours)  OBVIOUS
    <3>. QED  BY <1>1, <1>2, <2>1, <3>1, NewResults DEF ReaderTypes
  <2>4. ListInv' /\ PassedInv' /\ TotalInv'  BY <1>1, <1>3, <2>1 DEF ListInv, PassedInv, TotalInv
  <2>5. PhaseInv'  BY <1>1, <1>3, <2>1 DEF PhaseInv, NewResult
  <2>6. \E h \in Selected' : ~HeaderOk(h)'
    BY <1>5, <1>6, <2>2
  <2>7. ResultInv'  BY <1>1, <1>3, <2>1, <2>6 DEF ResultInv, NewResult
  <2>. QED  BY <2>2, <2>3, <2>4, <2>5, <2>7 DEF ReplayInv
<1>7. CASE HeaderOk(Here)
  <2>1. /\ total' = total + dir[Here].count /\ UNCHANGED <<files, result>>
        /\ IF fileIndex = Len(files) THEN phase' = "first" /\ fileIndex' = 1
                                     ELSE fileIndex' = fileIndex + 1 /\ phase' = "probe"
    BY <1>1, <1>7 DEF Probe, Here
  <2>2. /\ DiskTypes' /\ AppendInv' /\ Selected' = Selected
        /\ \A hs : PlacesIn(hs)' = PlacesIn(hs)
    BY <1>1, <1>2, <2>1, SameDisk
  <2>3. dir[Here] \in AnyFile(Here) /\ Here \in DOMAIN dir  BY <1>2, <1>5 DEF DiskTypes, Selected
  <2>4. ReaderTypes'
    <3>1. total' \in Nat  BY <1>2, <2>1, <2>3 DEF AnyFile, ReaderTypes
    <3>2. fileIndex' \in Nat \ {0}  BY <1>4, <2>1
    <3>. QED  BY <1>1, <1>2, <2>1, <3>1, <3>2 DEF ReaderTypes
  <2>5. fileIndex' \in 1 .. Len(files)  BY <1>4, <2>1
  <2>6. Here' \in Selected
    BY <1>1, <1>2, <1>3, <2>1, ListOrder DEF Here
  <2>7. ListInv'
    <3>1. dir[Here'] \in AnyFile(Here')  BY <1>2, <2>6 DEF DiskTypes, Selected
    <3>2. 0 <= Len(dir[Here'].recs)  BY <3>1 DEF AnyFile
    <3>3. pos' <= Len(dir'[Here'].recs)  BY <1>1, <1>3, <3>2
    <3>. QED  BY <1>1, <1>2, <1>3, <2>1, <2>2, <2>5, <3>3 DEF ListInv
  <2>8. PassedInv'
    <3>1. HandedOver' = {}  BY <1>1, <1>3 DEF HandedOver, Range
    <3>2. phase' = "first" => Passed' = {}
      <4>1. SUFFICES ASSUME phase' = "first", NEW p \in Passed' PROVE FALSE  OBVIOUS
      <4>2. Here' = files[1] /\ pos' = 0 /\ ~Stopped'
        BY <1>1, <1>3, <2>1, <4>1 DEF Here, Stopped
      <4>3. p \in PlacesIn(Selected) /\ Before(p, <<files[1], 1>>)
        BY <1>1, <1>3, <2>1, <2>2, <4>1, <4>2 DEF Passed
      <4>4. PICK h \in Selected : \E i \in 1 .. Len(dir[h].recs) : p = <<h, i>>  BY <4>3, PlaceIn
      <4>5. PICK i \in 1 .. Len(dir[h].recs) : p = <<h, i>>  BY <4>4
      <4>6. ~(h < files[1])  BY <1>2, <1>3, ListOrder
      <4>7. i \in Nat /\ ~(i < 1)  BY <4>5
      <4>. QED  BY <4>3, <4>5, <4>6, <4>7 DEF Before
    <3>3. phase' = "first" => Wanted(Passed)' = {}  BY <3>2 DEF Wanted
    <3>4. \A i \in 1 .. Len(delivered') : FALSE  BY <1>1, <1>3
    <3>. QED  BY <1>1, <1>3, <2>1, <3>1, <3>2, <3>3, <3>4 DEF PassedInv
  <2>9. PhaseInv'
    BY <1>1, <1>3, <2>1 DEF PhaseInv
  <2>10. ResultInv'
    BY <1>1, <1>2, <1>3, <1>4, <2>1 DEF ResultInv
  <2>11. TotalInv'
    <3>1. SUFFICES ASSUME appended = 0, \A h \in Selected : dir[h].count = Len(dir[h].recs)
                   PROVE  total' = Cardinality(PlacesIn({h \in Selected : phase' = "probe" => h < Here'}))
      BY <1>1, <1>3, <2>1, <2>2 DEF TotalInv
    <3>. DEFINE earlier == {h \in Selected : h < Here}
    <3>2. {h \in Selected : phase = "probe" => h < Here} = earlier  BY <1>1
    <3>3. total = Cardinality(PlacesIn(earlier))  BY <1>2, <1>3, <3>1, <3>2 DEF TotalInv
    <3>4. total' = total + Len(dir[Here].recs)  BY <1>5, <2>1, <3>1
    <3>5. {h \in Selected : phase' = "probe" => h < Here'} = earlier \cup {Here}
      <4>1. CASE fileIndex = Len(files)
        <5>1. Selected = earlier \cup {Here}  BY <1>2, <1>3, <4>1, ListOrder
        <5>2. phase' # "probe"  BY <2>1, <4>1
        <5>. QED  BY <5>1, <5>2
      <4>2. CASE fileIndex # Len(files)
        <5>1. {h \in Selected : h < files[fileIndex + 1]} = earlier \cup {Here}
          BY <1>2, <1>3, <4>2, ListOrder
        <5>2. phase' = "probe" /\ Here' = files[fileIndex + 1]  BY <2>1, <4>2 DEF Here
        <5>. QED  BY <5>1, <5>2
      <4>. QED  BY <4>1, <4>2
    <3>6. earlier \in SUBSET DOMAIN dir /\ Here \notin earlier
      <4>1. Selected \subseteq DOMAIN dir /\ Here \in Nat  BY <1>2, <1>3, <1>5, ListOrder
      <4>. QED  BY <4>1
    <3>. HIDE DEF earlier
    <3>7. Cardinality(PlacesIn(earlier \cup {Here})) = Cardinality(PlacesIn(earlier)) + Len(dir[Here].recs)
      BY <1>2, <2>3, <3>6, OneMoreFile
    <3>. QED  BY <3>3, <3>4, <3>5, <3>7
  <2>. QED  BY <2>2, <2>4, <2>7, <2>8, <2>9, <2>10, <2>11 DEF ReplayInv
<1>. QED  BY <1>6, <1>7

(* The first file is opened again. *)
LEMMA OpenFirstKeeps == ASSUME ReplayInv, OpenFirst PROVE ReplayInv'
<1>1. /\ phase = "first"
      /\ UNCHANGED <<dir, deleted, appended, window, files, fileIndex, pos, total, readError, delivered>>
  BY DEF OpenFirst, disk
<1>2. DiskTypes /\ ReaderTypes /\ AppendInv /\ ListInv /\ PassedInv /\ PhaseInv /\ ResultInv /\ TotalInv
  BY DEF ReplayInv
<1>3. /\ files # <<>> /\ pos = 0 /\ readError = FALSE /\ result.callbackError = FALSE /\ fileIndex = 1
      /\ result.replayed = Len(delivered)
  BY <1>1, <1>2 DEF PhaseInv, PassedInv, ReaderTypes, ResultInv
<1>4. Here = files[1] /\ Here \in Selected  BY <1>2, <1>3, ListOrder DEF Here
<1>5. \/ HeaderOk(Here) /\ phase' = "read" /\ UNCHANGED result
      \/ /\ ~HeaderOk(Here) /\ phase' = "returned" /\ result' = [NewResult EXCEPT !.fileError = TRUE]
  BY <1>4 DEF OpenFirst, Return
<1>6. /\ DiskTypes' /\ AppendInv' /\ Selected' = Selected
      /\ \A hs : PlacesIn(hs)' = PlacesIn(hs)
      /\ \A h : HeaderOk(h)' <=> HeaderOk(h)
      /\ \A p : At(p)' = At(p)
      /\ \A P : Wanted(P)' = Wanted(P)
  BY <1>1, <1>2, <1>5, SameDisk
<1>7. ReaderTypes'  BY <1>1, <1>2, <1>5, NewResults DEF ReaderTypes
<1>8. Here' = Here  BY <1>1 DEF Here
<1>9. ListInv'  BY <1>1, <1>2, <1>6, <1>8 DEF ListInv
<1>10. Passed = {} /\ Passed' = Passed /\ delivered = <<>>
  <2>1. ~Stopped /\ ~Stopped'  BY <1>1, <1>3, <1>5 DEF Stopped, NewResult
  <2>2. Passed' = Passed  BY <1>1, <1>6, <1>8, <2>1 DEF Passed
  <2>3. ASSUME NEW p \in Passed PROVE FALSE
    <3>1. p \in PlacesIn(Selected) /\ Before(p, <<files[1], 1>>)  BY <1>3, <1>4, <2>1 DEF Passed
    <3>2. PICK h \in Selected : \E i \in 1 .. Len(dir[h].recs) : p = <<h, i>>  BY <3>1, PlaceIn
    <3>3. PICK i \in 1 .. Len(dir[h].recs) : p = <<h, i>>  BY <3>2
    <3>4. ~(h < files[1])  BY <1>2, <1>3, ListOrder
    <3>5. i \in Nat /\ ~(i < 1)  BY <3>3
    <3>. QED  BY <3>1, <3>3, <3>4, <3>5 DEF Before
  <2>4. HandedOver = {}  BY <1>1, <1>2, <1>3, <2>3 DEF PassedInv, Wanted
  <2>5. delivered = <<>>
    <3>1. delivered \in Seq(Nat \X Nat)  BY <1>2 DEF ReaderTypes
    <3>2. Len(delivered) \in Nat /\ (Len(delivered) # 0 => 1 \in DOMAIN delivered)  BY <3>1
    <3>3. Len(delivered) = 0  BY <2>4, <3>2 DEF HandedOver, Range
    <3>. QED  BY <3>1, <3>3
  <2>. QED  BY <2>2, <2>3, <2>5
<1>11. PassedInv'
  <2>1. HandedOver' = HandedOver  BY <1>1 DEF HandedOver
  <2>. QED  BY <1>1, <1>2, <1>3, <1>5, <1>6, <1>10, <2>1 DEF PassedInv
<1>12. PhaseInv'  BY <1>1, <1>3, <1>5 DEF PhaseInv, NewResult
<1>13. ResultInv'
  <2>1. ~HeaderOk(Here) => \E h \in Selected' : ~HeaderOk(h)'  BY <1>4, <1>6
  <2>2. Len(<<>>) = 0  OBVIOUS
  <2>. QED  BY <1>1, <1>2, <1>3, <1>5, <1>10, <2>1, <2>2 DEF ResultInv, NewResult
<1>14. TotalInv'  BY <1>1, <1>2, <1>3, <1>5, <1>6, <1>8 DEF TotalInv
<1>. QED  BY <1>6, <1>7, <1>9, <1>11, <1>12, <1>13, <1>14 DEF ReplayInv

-------------------------------------------------------------------------------
(* The steps of read_next and of the loop around it *)

(* The set of the elements of a sequence grows by the appended one. *)
LEMMA RangeAppend ==
    ASSUME NEW S, NEW s \in Seq(S), NEW e \in S
    PROVE  /\ Append(s, e) \in Seq(S) /\ Len(Append(s, e)) = Len(s) + 1
           /\ \A i \in 1 .. Len(s) : Append(s, e)[i] = s[i]
           /\ Append(s, e)[Len(s) + 1] = e
           /\ Range(Append(s, e)) = Range(s) \cup {e}
<1>1. /\ Append(s, e) \in Seq(S) /\ Len(Append(s, e)) = Len(s) + 1 /\ Len(s) \in Nat
      /\ \A i \in 1 .. Len(s) : Append(s, e)[i] = s[i]
      /\ Append(s, e)[Len(s) + 1] = e
      /\ DOMAIN s = 1 .. Len(s) /\ DOMAIN Append(s, e) = 1 .. Len(s) + 1
  OBVIOUS
<1>2. \A i \in 1 .. Len(s) + 1 : i \in 1 .. Len(s) \/ i = Len(s) + 1  BY <1>1
<1>3. \A i \in 1 .. Len(s) : i \in 1 .. Len(s) + 1  BY <1>1
<1>4. Len(s) + 1 \in 1 .. Len(s) + 1  BY <1>1
<1>. HIDE <1>2, <1>3
<1>5. ASSUME NEW x \in Range(Append(s, e)) PROVE x \in Range(s) \cup {e}
  BY <1>1, <1>2 DEF Range
<1>6. ASSUME NEW x \in Range(s) PROVE x \in Range(Append(s, e))
  BY <1>1, <1>3 DEF Range
<1>7. e \in Range(Append(s, e))  BY <1>1, <1>4 DEF Range
<1>. QED  BY <1>1, <1>5, <1>6, <1>7

(* The record about to be read: its place is the first one not yet passed. *)
LEMMA NextPlace ==
    ASSUME ReplayInv, AtRecord
    PROVE  /\ phase = "read" /\ files # <<>> /\ Here \in Selected /\ Here \in Nat
           /\ Current = dir[Here] /\ pos + 1 \in 1 .. Len(dir[Here].recs)
           /\ NextRecord = At(<<Here, pos + 1>>)
           /\ readError = FALSE /\ result.callbackError = FALSE
           /\ Passed = {p \in PlacesIn(Selected) : Before(p, <<Here, pos + 1>>)}
           /\ <<Here, pos + 1>> \in PlacesIn(Selected)
<1>1. DiskTypes /\ ReaderTypes /\ ListInv /\ PhaseInv  BY DEF ReplayInv
<1>2. phase = "read" /\ files # <<>> /\ readError = FALSE /\ result.callbackError = FALSE
  BY <1>1 DEF AtRecord, PhaseInv, ReaderTypes
<1>3. Here \in Selected /\ Here \in Nat /\ Here \in DOMAIN dir  BY <1>1, <1>2, ListOrder
<1>4. Current = dir[Here] /\ pos < Len(dir[Here].recs) /\ NextRecord = At(<<Here, pos + 1>>)
  BY DEF AtRecord, Current, Here, NextRecord, At
<1>5. pos \in Nat /\ Len(dir[Here].recs) \in Nat
  <2>1. dir[Here] \in AnyFile(Here)  BY <1>1, <1>3 DEF DiskTypes
  <2>. QED  BY <1>1, <2>1 DEF AnyFile, ReaderTypes
<1>6. pos + 1 \in 1 .. Len(dir[Here].recs)  BY <1>4, <1>5
<1>7. ~Stopped  BY <1>2 DEF Stopped
<1>8. Passed = {p \in PlacesIn(Selected) : Before(p, <<Here, pos + 1>>)}  BY <1>7 DEF Passed
<1>9. <<Here, pos + 1>> \in PlacesIn(Selected)  BY <1>3, <1>6, PlaceIn
<1>. QED  BY <1>2, <1>3, <1>4, <1>6, <1>8, <1>9

(* Reading on by one record. *)
LEMMA PassOne ==
    ASSUME ReplayInv, AtRecord, UNCHANGED <<dir, deleted, appended, window, files, fileIndex>>,
           pos' = pos + 1
    PROVE  /\ Here' = Here
           /\ Stopped' => Passed' = Passed
           /\ ~Stopped' => Passed' = Passed \cup {<<Here, pos + 1>>}
<1>1. Here' = Here /\ Selected' = Selected /\ PlacesIn(Selected)' = PlacesIn(Selected)
  BY DEF Here, Selected, PlacesIn
<1>2. /\ Passed = {p \in PlacesIn(Selected) : Before(p, <<Here, pos + 1>>)}
      /\ <<Here, pos + 1>> \in PlacesIn(Selected) /\ Here \in Nat
  BY NextPlace
<1>3. Stopped' => Passed' = Passed  BY <1>1, <1>2 DEF Passed
<1>4. ASSUME ~Stopped' PROVE Passed' = Passed \cup {<<Here, pos + 1>>}
  <2>1. Passed' = {p \in PlacesIn(Selected) : Before(p, <<Here, (pos + 1) + 1>>)}
    BY <1>1, <1>4 DEF Passed
  <2>2. ASSUME NEW p \in PlacesIn(Selected)
        PROVE  Before(p, <<Here, (pos + 1) + 1>>) <=> Before(p, <<Here, pos + 1>>) \/ p = <<Here, pos + 1>>
    <3>1. PICK h \in Selected : \E i \in 1 .. Len(dir[h].recs) : p = <<h, i>>  BY PlaceIn
    <3>2. PICK i \in 1 .. Len(dir[h].recs) : p = <<h, i>>  BY <3>1
    <3>3. pos \in Nat  BY DEF ReplayInv, ReaderTypes
    <3>4. i < (pos + 1) + 1 <=> i < pos + 1 \/ i = pos + 1  BY <3>2, <3>3
    <3>5. p[1] = h /\ p[2] = i  BY <3>2
    <3>6. p = <<Here, pos + 1>> <=> h = Here /\ i = pos + 1  BY <3>2
    <3>. QED  BY <3>4, <3>5, <3>6 DEF Before
  <2>. QED  BY <1>2, <2>1, <2>2
<1>. QED  BY <1>1, <1>3, <1>4

(* What the steps that read a record leave alone. *)
LEMMA ReadingFrame ==
    ASSUME ReplayInv, AtRecord, pos' = pos + 1,
           UNCHANGED <<dir, deleted, appended, window, files, fileIndex, total>>,
           phase' \in {"read", "finish"}
    PROVE  /\ DiskTypes' /\ AppendInv' /\ ListInv' /\ TotalInv'
           /\ pos \in Nat /\ pos' \in Nat /\ pos' > 0 /\ pos' <= Len(dir[Here].recs)
           /\ Selected' = Selected /\ Here' = Here
           /\ \A hs : PlacesIn(hs)' = PlacesIn(hs)
           /\ \A p : At(p)' = At(p)
           /\ \A P : Wanted(P)' = Wanted(P)
<1>1. DiskTypes /\ ReaderTypes /\ AppendInv /\ ListInv /\ TotalInv  BY DEF ReplayInv
<1>2. /\ phase = "read" /\ files # <<>> /\ pos + 1 \in 1 .. Len(dir[Here].recs)
  BY NextPlace
<1>3. pos \in Nat /\ pos' \in Nat /\ pos' > 0 /\ pos' <= Len(dir[Here].recs)
  BY <1>1, <1>2 DEF ReaderTypes
<1>4. phase' # "new" /\ phase' # "probe"  OBVIOUS
<1>5. /\ DiskTypes' /\ AppendInv' /\ Selected' = Selected
      /\ \A hs : PlacesIn(hs)' = PlacesIn(hs)
      /\ \A p : At(p)' = At(p)
      /\ \A P : Wanted(P)' = Wanted(P)
  BY <1>1, <1>4, SameDisk
<1>6. Here' = Here  BY DEF Here
<1>7. ListInv'  BY <1>1, <1>3, <1>5, <1>6 DEF ListInv
<1>8. TotalInv'
  <2>1. {h \in Selected : phase = "probe" => h < Here} = {h \in Selected : phase' = "probe" => h < Here}
    BY <1>2, <1>4
  <2>2. {h \in Selected : phase' = "probe" => h < Here}
          = {h \in Selected' : phase' = "probe" => h < Here'}  BY <1>5, <1>6
  <2>. QED  BY <1>1, <1>2, <1>4, <1>5, <2>1, <2>2 DEF TotalInv
<1>. QED  BY <1>3, <1>5, <1>6, <1>7, <1>8

(* A damaged record, and one whose callback throws, stop the reader there. *)
LEMMA StopKeeps == ASSUME ReplayInv, ReadBroken \/ CallbackThrows PROVE ReplayInv'
<1>1. /\ AtRecord /\ pos' = pos + 1 /\ phase' = "finish"
      /\ UNCHANGED <<dir, deleted, appended, window, files, fileIndex, total, delivered>>
      /\ \/ ~NextRecord.intact /\ readError' = TRUE /\ UNCHANGED result
         \/ UNCHANGED readError /\ result' = [result EXCEPT !.callbackError = TRUE]
  BY DEF ReadBroken, CallbackThrows, ReadInWindow, disk
<1>2. ReaderTypes /\ PassedInv /\ PhaseInv /\ ResultInv  BY DEF ReplayInv
<1>3. /\ phase = "read" /\ files # <<>> /\ NextRecord = At(<<Here, pos + 1>>)
      /\ readError = FALSE /\ result.callbackError = FALSE
  BY <1>1, NextPlace
<1>4. /\ DiskTypes' /\ AppendInv' /\ ListInv' /\ TotalInv' /\ Here' = Here
      /\ pos' \in Nat /\ pos' > 0 /\ Selected' = Selected
      /\ \A p : At(p)' = At(p)
      /\ \A P : Wanted(P)' = Wanted(P)
  BY <1>1, ReadingFrame
<1>5. /\ result' \in Results /\ result'.replayed = result.replayed
      /\ result'.completed = result.completed /\ result'.fileError = result.fileError
      /\ result'.countMismatch = result.countMismatch
  <2>1. result \in Results  BY <1>2 DEF ReaderTypes
  <2>. QED  BY <1>1, <2>1 DEF Results
<1>6. Stopped'
  <2>1. CASE readError' = TRUE  BY <1>4, <2>1 DEF Stopped
  <2>2. CASE result' = [result EXCEPT !.callbackError = TRUE]
    <3>1. result \in Results  BY <1>2 DEF ReaderTypes
    <3>2. result'.callbackError  BY <2>2, <3>1 DEF Results
    <3>. QED  BY <3>2 DEF Stopped
  <2>. QED  BY <1>1, <2>1, <2>2
<1>7. Passed' = Passed  BY <1>1, <1>6, PassOne
<1>8. ReaderTypes'
  <2>1. readError' \in BOOLEAN  BY <1>1, <1>3
  <2>. QED  BY <1>1, <1>2, <1>4, <1>5, <2>1 DEF ReaderTypes
<1>9. PassedInv'
  <2>1. HandedOver' = HandedOver  BY <1>1 DEF HandedOver
  <2>2. HandedOver = Wanted(Passed) /\ \A p \in Passed : At(p).intact  BY <1>2, <1>3 DEF PassedInv
  <2>3. Wanted(Passed)' = Wanted(Passed)  BY <1>1, <1>4, <1>7 DEF Wanted
  <2>4. \A p \in Passed' : At(p)'.intact  BY <1>4, <1>7, <2>2
  <2>. QED  BY <1>1, <1>2, <1>3, <2>1, <2>2, <2>3, <2>4 DEF PassedInv
<1>10. PhaseInv'
  <2>1. readError' => ~dir'[Here'].recs[pos'].intact
    <3>1. At(<<Here, pos + 1>>) = dir[Here].recs[pos + 1]  BY DEF At
    <3>. QED  BY <1>1, <1>3, <1>4, <3>1
  <2>2. result'.callbackError \/ readError'
    <3>1. ~Stopped' \/ result'.callbackError \/ readError'  BY DEF Stopped
    <3>. QED  BY <1>6, <3>1
  <2>. QED  BY <1>1, <1>3, <1>4, <2>1, <2>2 DEF PhaseInv
<1>11. ResultInv'  BY <1>1, <1>2, <1>3, <1>5 DEF ResultInv
<1>. QED  BY <1>4, <1>8, <1>9, <1>10, <1>11 DEF ReplayInv

(* A record outside the window is passed over, one inside is handed over. *)
LEMMA PassKeeps == ASSUME ReplayInv, ReadOutsideWindow \/ Deliver PROVE ReplayInv'
<1>. DEFINE here == <<Here, pos + 1>>
<1>1. /\ AtRecord /\ NextRecord.intact /\ pos' = pos + 1 /\ phase' = phase
      /\ UNCHANGED <<dir, deleted, appended, window, files, fileIndex, total, readError>>
      /\ \/ ~InWindow(window, NextRecord.ts) /\ UNCHANGED <<delivered, result>>
         \/ /\ InWindow(window, NextRecord.ts)
            /\ delivered' = Append(delivered, here) /\ result' = [result EXCEPT !.replayed = @ + 1]
  BY DEF ReadOutsideWindow, Deliver, ReadInWindow, disk, Here
<1>2. ReaderTypes /\ PassedInv /\ PhaseInv /\ ResultInv  BY DEF ReplayInv
<1>3. /\ phase = "read" /\ files # <<>> /\ NextRecord = At(here) /\ Here \in Nat
      /\ readError = FALSE /\ result.callbackError = FALSE
      /\ Passed = {p \in PlacesIn(Selected) : Before(p, here)}
  BY <1>1, NextPlace
<1>4. /\ DiskTypes' /\ AppendInv' /\ ListInv' /\ TotalInv' /\ Here' = Here
      /\ pos \in Nat /\ pos' \in Nat /\ Selected' = Selected
      /\ \A p : At(p)' = At(p)
      /\ \A P : Wanted(P)' = Wanted(P)
  BY <1>1, <1>3, ReadingFrame
<1>. HIDE DEF here
<1>5. /\ result' \in Results /\ result'.callbackError = result.callbackError
      /\ result'.completed = result.completed /\ result'.fileError = result.fileError
      /\ result'.countMismatch = result.countMismatch
      /\ delivered' # delivered => result'.replayed = result.replayed + 1
      /\ delivered' = delivered => UNCHANGED result
  <2>1. result \in Results  BY <1>2 DEF ReaderTypes
  <2>2. here \in Nat \X Nat
    <3>1. pos + 1 \in Nat  BY <1>4
    <3>. QED  BY <1>3, <3>1 DEF here
  <2>3. delivered \in Seq(Nat \X Nat) BY <1>2 DEF ReaderTypes
  <2>4. Len(Append(delivered, here)) = Len(delivered) + 1 /\ Len(delivered) \in Nat
    BY <2>2, <2>3, RangeAppend
  <2>5. Append(delivered, here) # delivered BY <2>4
  <2>. QED  BY <1>1, <2>1, <2>5 DEF Results
<1>6. ~Stopped'
  <2>1. result'.callbackError = FALSE /\ readError' = FALSE  BY <1>1, <1>3, <1>5
  <2>. QED BY <2>1 DEF Stopped
<1>7. Passed' = Passed \cup {here}  BY <1>1, <1>6, PassOne DEF here
<1>8. here \in Nat \X Nat /\ delivered \in Seq(Nat \X Nat) /\ Len(delivered) \in Nat
  <2>1. delivered \in Seq(Nat \X Nat)  BY <1>2 DEF ReaderTypes
  <2>. QED  BY <1>3, <1>4, <2>1 DEF here
<1>9. ReaderTypes'
  <2>1. delivered' \in Seq(Nat \X Nat)
    <3>1. delivered' = delivered \/ delivered' = Append(delivered, here)  BY <1>1
    <3>2. Append(delivered, here) \in Seq(Nat \X Nat)  BY ONLY <1>8, RangeAppend
    <3>. QED  BY ONLY <1>8, <3>1, <3>2
  <2>2. readError' \in BOOLEAN /\ phase' = "read"  BY <1>1, <1>3
  <2>. QED  BY <1>1, <1>2, <1>4, <1>5, <2>1, <2>2 DEF ReaderTypes
<1>10. PassedInv'
  <2>1. HandedOver = Wanted(Passed) /\ \A p \in Passed : At(p).intact  BY <1>2, <1>3 DEF PassedInv
  <2>2. \A p \in Passed' : At(p)'.intact  BY <1>1, <1>3, <1>4, <1>7, <2>1
  <2>3. Wanted(Passed)' = {p \in Passed \cup {here} : InWindow(window, At(p).ts)}
    BY <1>1, <1>4, <1>7 DEF Wanted
  <2>4. \A i, j \in 1 .. Len(delivered) : i < j => Before(delivered[i], delivered[j])
    BY <1>2 DEF PassedInv
  <2>5. CASE ~InWindow(window, NextRecord.ts) /\ UNCHANGED delivered
    <3>1. Wanted(Passed)' = Wanted(Passed)  BY <1>3, <2>3, <2>5 DEF Wanted
    <3>2. HandedOver' = HandedOver  BY <2>5 DEF HandedOver
    <3>. QED  BY <1>1, <1>3, <2>1, <2>2, <2>4, <2>5, <3>1, <3>2 DEF PassedInv
  <2>6. CASE InWindow(window, NextRecord.ts) /\ delivered' = Append(delivered, here)
    <3>1. Wanted(Passed)' = Wanted(Passed) \cup {here}  BY <1>3, <2>3, <2>6 DEF Wanted
    <3>2. HandedOver' = HandedOver \cup {here}  BY <1>8, <2>6, RangeAppend DEF HandedOver
    <3>3. \A i \in 1 .. Len(delivered) : Before(delivered[i], here)
      <4>1. \A i \in 1 .. Len(delivered) : delivered[i] \in HandedOver  BY <1>8 DEF HandedOver, Range
      <4>2. HandedOver \subseteq Passed  BY <2>1 DEF Wanted
      <4>. QED  BY <1>3, <4>1, <4>2
    <3>4. ASSUME NEW i \in 1 .. Len(delivered'), NEW j \in 1 .. Len(delivered'), i < j
          PROVE  Before(delivered'[i], delivered'[j])
      <4>1. Len(delivered') = Len(delivered) + 1  BY <1>8, <2>6, RangeAppend
      <4>2. i \in 1 .. Len(delivered) /\ delivered'[i] = delivered[i]
        <5>1. i \in 1 .. Len(delivered)  BY <1>8, <3>4, <4>1
        <5>. QED  BY <1>8, <2>6, <5>1, RangeAppend
      <4>3. CASE j \in 1 .. Len(delivered)
        <5>1. delivered'[j] = delivered[j]  BY <1>8, <2>6, <4>3, RangeAppend
        <5>. QED  BY <2>4, <3>4, <4>2, <4>3, <5>1
      <4>4. CASE j = Len(delivered) + 1
        <5>1. delivered'[j] = here  BY <1>8, <2>6, <4>4, RangeAppend
        <5>. QED  BY <3>3, <4>2, <5>1
      <4>. QED  BY <1>8, <4>1, <4>3, <4>4
    <3>. QED  BY <1>1, <1>3, <2>1, <2>2, <3>1, <3>2, <3>4 DEF PassedInv
  <2>. QED  BY <1>1, <2>5, <2>6
<1>11. PhaseInv'
  <2>1. result'.callbackError = FALSE /\ readError' = FALSE /\ phase' = "read" /\ files' # <<>>
    BY <1>1, <1>3, <1>5
  <2>. QED  BY <2>1 DEF PhaseInv
<1>12. ResultInv'
  <2>1. result'.replayed = Len(delivered')
    <3>1. CASE UNCHANGED <<delivered, result>>  BY <1>2, <3>1 DEF ResultInv
    <3>2. CASE delivered' = Append(delivered, here)
      <4>1. Len(delivered') = Len(delivered) + 1  BY <1>8, <3>2, RangeAppend
      <4>2. delivered' # delivered  BY <1>8, <4>1
      <4>. QED  BY <1>2, <1>5, <4>1, <4>2 DEF ResultInv
    <3>. QED  BY <1>1, <3>1, <3>2
  <2>. QED  BY <1>1, <1>2, <1>3, <1>5, <2>1 DEF ResultInv
<1>. QED  BY <1>4, <1>9, <1>10, <1>11, <1>12 DEF ReplayInv

(* The end of a file: the next one is opened, unless it was the last. *)
LEMMA NextFileKeeps == ASSUME ReplayInv, NextFile PROVE ReplayInv'
<1>1. /\ phase = "read" /\ pos = Len(dir[Here].recs)
      /\ UNCHANGED <<dir, deleted, appended, window, files, total, delivered, result>>
  BY DEF NextFile, disk, Current, Here
<1>2. DiskTypes /\ ReaderTypes /\ AppendInv /\ ListInv /\ PassedInv /\ PhaseInv /\ ResultInv /\ TotalInv
  BY DEF ReplayInv
<1>3. files # <<>> /\ readError = FALSE /\ result.callbackError = FALSE
  BY <1>1, <1>2 DEF PhaseInv, ReaderTypes
<1>4. phase' \in {"read", "finish"}  BY <1>1 DEF NextFile
<1>5. /\ DiskTypes' /\ AppendInv' /\ Selected' = Selected
      /\ \A hs : PlacesIn(hs)' = PlacesIn(hs)
      /\ \A h : (HeaderOk(h)' <=> HeaderOk(h)) /\ LenAtListing(h)' = LenAtListing(h)
      /\ \A p : At(p)' = At(p)
      /\ \A P : Wanted(P)' = Wanted(P)
  BY <1>1, <1>2, <1>4, SameDisk
<1>6. ~Stopped /\ Here \in Selected /\ Here \in DOMAIN dir /\ Here \in Nat
  BY <1>2, <1>3, ListOrder DEF Stopped
<1>7. \A h \in DOMAIN dir : Len(dir[h].recs) \in Nat
  <2>1. \A h \in DOMAIN dir : dir[h] \in AnyFile(h)  BY <1>2 DEF DiskTypes
  <2>. QED  BY <2>1 DEF AnyFile
<1>8. TotalInv'
  <2>1. {h \in Selected : phase = "probe" => h < Here} = Selected  BY <1>1
  <2>2. {h \in Selected' : phase' = "probe" => h < Here'} = Selected  BY <1>4, <1>5
  <2>. QED  BY <1>1, <1>2, <1>3, <1>4, <1>5, <2>1, <2>2 DEF TotalInv
<1>9. ResultInv'  BY <1>1, <1>2, <1>4 DEF ResultInv
<1>10. HandedOver' = HandedOver /\ HandedOver = Wanted(Passed) /\ \A p \in Passed : At(p).intact
  BY <1>1, <1>2, <1>3 DEF PassedInv, HandedOver
<1>11. Passed' = Passed => PassedInv'
  <2>1. SUFFICES ASSUME Passed' = Passed PROVE PassedInv'  OBVIOUS
  <2>2. Wanted(Passed)' = Wanted(Passed)  BY <1>1, <1>5, <2>1 DEF Wanted
  <2>. QED  BY <1>1, <1>2, <1>3, <1>4, <1>5, <1>10, <2>1, <2>2 DEF PassedInv
<1>12. CASE fileIndex = Len(files)
  <2>1. phase' = "finish" /\ UNCHANGED <<fileIndex, pos, readError>>  BY <1>12 DEF NextFile
  <2>2. Here' = Here  BY <1>1, <2>1 DEF Here
  <2>3. ReaderTypes'  BY <1>1, <1>2, <2>1 DEF ReaderTypes
  <2>4. ListInv'  BY <1>1, <1>2, <1>5, <2>1, <2>2 DEF ListInv
  <2>5. Passed' = Passed  BY <1>1, <1>5, <2>1, <2>2 DEF Passed, Stopped
  <2>6. pos >= LenAtListing(Here)
    <3>1. appended \in Nat  BY <1>2 DEF DiskTypes
    <3>2. \/ LenAtListing(Here) = Len(dir[Here].recs) - appended
          \/ LenAtListing(Here) = Len(dir[Here].recs) - 0
      BY DEF LenAtListing
    <3>3. Len(dir[Here].recs) \in Nat  BY <1>6, <1>7
    <3>. QED  BY ONLY <1>1, <3>1, <3>2, <3>3
  <2>7. pos' >= LenAtListing(Here)'  
    <3>1. LenAtListing(Here)' = LenAtListing(Here)  BY <1>1, <2>2 DEF LenAtListing
    <3>. QED  BY <2>1, <2>6, <3>1
  <2>8. PhaseInv'  BY <1>1, <1>3, <1>12, <2>1, <2>7 DEF PhaseInv
  <2>. QED  BY <1>5, <1>8, <1>9, <1>11, <2>3, <2>4, <2>5, <2>8 DEF ReplayInv
<1>13. CASE fileIndex # Len(files)
  <2>1. /\ fileIndex' = fileIndex + 1 /\ pos' = 0
        /\ \/ HeaderOk(files[fileIndex + 1]) /\ phase' = "read" /\ readError' = FALSE
           \/ ~HeaderOk(files[fileIndex + 1]) /\ phase' = "finish" /\ readError' = TRUE
    BY <1>1, <1>3, <1>13 DEF NextFile
  <2>2. /\ fileIndex + 1 \in 1 .. Len(files) /\ Here' = files[fileIndex + 1]
        /\ Here' \in Selected /\ Here' \in DOMAIN dir /\ Here' \in Nat
        /\ {h \in Selected : h < Here'} = {h \in Selected : h < Here} \cup {Here}
    <3>1. Here' = files[fileIndex + 1]  BY <1>1, <2>1 DEF Here
    <3>. QED  BY <1>2, <1>3, <1>13, <3>1, ListOrder
  <2>3. ReaderTypes'
    <3>1. fileIndex' \in Nat \ {0}  BY <1>2, <2>1 DEF ReaderTypes
    <3>2. readError' \in BOOLEAN  BY <2>1
    <3>. QED  BY <1>1, <1>2, <1>4, <2>1, <3>1, <3>2 DEF ReaderTypes
  <2>4. ListInv'
    <3>1. pos' <= Len(dir'[Here'].recs)  BY <1>1, <1>7, <2>1, <2>2
    <3>. QED  BY <1>1, <1>2, <1>5, <2>1, <2>2, <3>1 DEF ListInv
  <2>5. ~Stopped'  BY <1>1, <1>3, <2>1 DEF Stopped
  <2>6. Passed' = Passed
    <3>1. Passed' = {p \in PlacesIn(Selected) : Before(p, <<Here', 1>>)}
      BY <1>5, <2>1, <2>5 DEF Passed
    <3>2. Passed = {p \in PlacesIn(Selected) : Before(p, <<Here, pos + 1>>)}
      BY <1>6 DEF Passed
    <3>3. ASSUME NEW p \in PlacesIn(Selected)
          PROVE  Before(p, <<Here', 1>>) <=> Before(p, <<Here, pos + 1>>)
      <4>1. PICK h \in Selected : \E i \in 1 .. Len(dir[h].recs) : p = <<h, i>>  BY PlaceIn
      <4>2. PICK i \in 1 .. Len(dir[h].recs) : p = <<h, i>>  BY <4>1
      <4>3. ~(i < 1) /\ (h = Here => i < pos + 1)  BY <1>1, <1>6, <1>7, <4>2
      <4>4. h < Here' <=> h < Here \/ h = Here  BY <2>2
      <4>5. p[1] = h /\ p[2] = i  BY <4>2
      <4>. QED  BY <4>3, <4>4, <4>5 DEF Before
    <3>. QED  BY <3>1, <3>2, <3>3
  <2>7. PhaseInv'
    <3>1. readError' = TRUE => \E h \in Selected' : ~HeaderOk(h)'  BY <1>5, <2>1, <2>2
    <3>2. phase' = "finish" => readError' = TRUE  BY <2>1
    <3>3. phase' = "read" => readError' = FALSE  BY <2>1
    <3>. QED  BY <1>1, <1>3, <1>4, <2>1, <3>1, <3>2, <3>3 DEF PhaseInv
  <2>. QED  BY <1>5, <1>8, <1>9, <1>11, <2>3, <2>4, <2>6, <2>7 DEF ReplayInv
<1>. QED  BY <1>12, <1>13

(* The end of replay_all. *)
LEMMA FinishKeeps == ASSUME ReplayInv, Finish PROVE ReplayInv'
<1>1. /\ phase = "finish" /\ phase' = "returned"
      /\ UNCHANGED <<dir, deleted, appended, window, files, fileIndex, pos, total, readError, delivered>>
  BY DEF Finish, Return, disk, reader
<1>2. DiskTypes /\ ReaderTypes /\ AppendInv /\ ListInv /\ PassedInv /\ PhaseInv /\ ResultInv /\ TotalInv
  BY DEF ReplayInv
<1>3. /\ result' \in Results /\ result'.replayed = result.replayed
      /\ result'.callbackError = result.callbackError
      /\ result'.fileError = readError
      /\ result'.completed = (~readError /\ ~result.callbackError /\ ~CountMismatch)
  <2>. DEFINE m == CountMismatch
              c == ~readError /\ ~result.callbackError /\ ~CountMismatch
  <2>1. /\ result \in Results /\ total \in Nat /\ readError \in BOOLEAN
        /\ m \in BOOLEAN /\ c \in BOOLEAN
    BY <1>2 DEF ReaderTypes, CountMismatch
  <2>2. result' = [result EXCEPT !.header = total, !.fileError = readError,
                                 !.countMismatch = m, !.completed = c]
    BY DEF Finish, Return
  <2>. HIDE DEF m, c
  <2>3. /\ result' \in Results /\ result'.replayed = result.replayed
        /\ result'.callbackError = result.callbackError
        /\ result'.fileError = readError /\ result'.completed = c
    BY ONLY <2>1, <2>2 DEF Results
  <2>. QED  BY <2>3 DEF c
<1>4. /\ DiskTypes' /\ AppendInv' /\ Selected' = Selected
      /\ \A hs : PlacesIn(hs)' = PlacesIn(hs)
      /\ \A h : (HeaderOk(h)' <=> HeaderOk(h)) /\ LenAtListing(h)' = LenAtListing(h)
      /\ \A p : At(p)' = At(p)
      /\ \A P : Wanted(P)' = Wanted(P)
  BY <1>1, <1>2, SameDisk
<1>5. Here' = Here /\ (Stopped' <=> Stopped)  BY <1>1, <1>3 DEF Here, Stopped
<1>6. ReaderTypes'  BY <1>1, <1>2, <1>3 DEF ReaderTypes
<1>7. ListInv'  BY <1>1, <1>2, <1>4, <1>5 DEF ListInv
<1>8. TotalInv'
  <2>1. {h \in Selected : phase = "probe" => h < Here} = Selected  BY <1>1
  <2>2. {h \in Selected' : phase' = "probe" => h < Here'} = Selected  BY <1>1, <1>4
  <2>. QED  BY <1>1, <1>2, <1>4, <2>1, <2>2 DEF TotalInv
<1>9. PassedInv'
  <2>1. HandedOver' = HandedOver  BY <1>1 DEF HandedOver
  <2>2. Passed' = Passed  BY <1>1, <1>4, <1>5 DEF Passed
  <2>3. Wanted(Passed)' = Wanted(Passed)  BY <1>1, <1>4, <2>2 DEF Wanted
  <2>. QED  BY <1>1, <1>2, <1>4, <2>1, <2>2, <2>3 DEF PassedInv
<1>10. PhaseInv'
  <2>1. LenAtListing(Here)' = LenAtListing(Here)  BY <1>1, <1>5 DEF LenAtListing
  <2>2. ~result.fileError  BY <1>1, <1>2 DEF ResultInv
  <2>3. readError => /\ files # <<>>
                     /\ IF pos > 0 THEN ~dir[Here].recs[pos].intact
                                   ELSE \E h \in Selected : ~HeaderOk(h)
    BY <1>2 DEF PhaseInv
  <2>4. result.callbackError /\ files # <<>> => pos > 0  BY <1>2 DEF PhaseInv
  <2>5. files # <<>> /\ ~readError /\ ~result.callbackError
          => fileIndex = Len(files) /\ pos >= LenAtListing(Here)
    BY <1>1, <1>2, <2>2 DEF PhaseInv
  <2>. QED  BY <1>1, <1>3, <1>4, <1>5, <2>1, <2>3, <2>4, <2>5 DEF PhaseInv
<1>11. ResultInv'
  <2>1. result'.replayed = Len(delivered')  BY <1>1, <1>2, <1>3 DEF ResultInv
  <2>2. result'.completed => ~result'.fileError /\ ~result'.callbackError  BY <1>3
  <2>3. readError => \/ \E h \in Selected' : ~HeaderOk(h)'
                     \/ readError' /\ pos' > 0
    BY <1>1, <1>2, <1>4 DEF PhaseInv
  <2>4. files # <<>> \/ (Selected = {} /\ total = 0)  BY <1>1, <1>2 DEF PhaseInv, TotalInv
  <2>5. ~readError /\ ~result.callbackError =>
          result'.completed \/ (window = NoWindow /\ total > 0 /\ result.replayed # total)
    BY <1>3 DEF CountMismatch
  <2>. QED  BY <1>1, <1>3, <1>4, <2>1, <2>2, <2>3, <2>4, <2>5 DEF ResultInv
<1>. QED  BY <1>4, <1>6, <1>7, <1>8, <1>9, <1>10, <1>11 DEF ReplayInv

-------------------------------------------------------------------------------
(* What others do to the disk meanwhile *)

(* A file is deleted: only headers can no longer be read. *)
LEMMA DeleteKeeps == ASSUME ReplayInv, NEW g \in Hours, Delete(g) PROVE ReplayInv'
<1>1. /\ phase # "new" /\ g \in DOMAIN dir /\ deleted' = deleted \cup {g}
      /\ UNCHANGED <<dir, appended, phase, window, files, fileIndex, pos, total, readError,
                     delivered, result>>
  BY DEF Delete, reader
<1>2. DiskTypes /\ ReaderTypes /\ AppendInv /\ ListInv /\ PassedInv /\ PhaseInv /\ ResultInv /\ TotalInv
  BY DEF ReplayInv
<1>3. /\ Selected' = Selected /\ Here' = Here /\ Passed' = Passed /\ HandedOver' = HandedOver
      /\ \A hs : PlacesIn(hs)' = PlacesIn(hs)
      /\ \A p : At(p)' = At(p)
      /\ Wanted(Passed)' = Wanted(Passed) /\ LenAtListing(Here)' = LenAtListing(Here)
      /\ (Valid(window)' <=> Valid(window))
  BY <1>1 DEF Selected, Here, Passed, HandedOver, PlacesIn, At, Wanted, LenAtListing, Valid, Stopped
<1>4. \A h : ~HeaderOk(h) => ~HeaderOk(h)'  BY <1>1 DEF HeaderOk
<1>5. DiskTypes'  BY <1>1, <1>2 DEF DiskTypes
<1>6. ReaderTypes' /\ AppendInv'  BY <1>1, <1>2 DEF ReaderTypes, AppendInv
<1>7. ListInv' /\ TotalInv'  BY <1>1, <1>2, <1>3 DEF ListInv, TotalInv
<1>8. PassedInv'  BY <1>1, <1>2, <1>3 DEF PassedInv
<1>9. (\E h \in Selected : ~HeaderOk(h)) => (\E h \in Selected' : ~HeaderOk(h)')  BY <1>3, <1>4
<1>10. PhaseInv'  BY <1>1, <1>2, <1>3, <1>9 DEF PhaseInv
<1>11. ResultInv'  BY <1>1, <1>2, <1>3, <1>9 DEF ResultInv
<1>. QED  BY <1>5, <1>6, <1>7, <1>8, <1>10, <1>11 DEF ReplayInv

(* One more record in the newest file. *)
LEMMA AppendFrame ==
    ASSUME DiskTypes, RecorderAppends
    PROVE  LET m == Max(DOMAIN dir) IN
           /\ m \in DOMAIN dir /\ \A h \in DOMAIN dir : h <= m
           /\ DOMAIN dir' = DOMAIN dir /\ DiskTypes'
           /\ \A h \in DOMAIN dir : h # m => dir'[h] = dir[h]
           /\ Len(dir[m].recs) \in Nat /\ Len(dir'[m].recs) = Len(dir[m].recs) + 1
           /\ \A i \in 1 .. Len(dir[m].recs) : dir'[m].recs[i] = dir[m].recs[i]
           /\ \A h \in DOMAIN dir : dir'[h].readable = dir[h].readable
           /\ Broken(dir[m]) = {} /\ Broken(dir'[m]) = {}
           /\ appended' = appended + 1
           /\ UNCHANGED <<deleted, phase, window, files, fileIndex, pos, total, readError,
                          delivered, result>>
<1>. DEFINE m == Max(DOMAIN dir)
<1>1. /\ phase # "new" /\ DOMAIN dir # {} /\ Broken(dir[m]) = {} /\ appended' = appended + 1
      /\ UNCHANGED <<deleted, phase, window, files, fileIndex, pos, total, readError, delivered, result>>
  BY DEF RecorderAppends, reader
<1>2. PICK r \in Record(m), t \in BOOLEAN, c \in {dir[m].count, Len(dir[m].recs) + 1} :
        r.intact /\ dir' = [dir EXCEPT ![m].recs = Append(@, r), ![m].torn = t, ![m].count = c]
  BY DEF RecorderAppends
<1>3. m \in DOMAIN dir /\ \A h \in DOMAIN dir : h <= m
  <2>1. DOMAIN dir \in SUBSET Nat /\ IsFiniteSet(DOMAIN dir)
    BY ReplayAssumption, FS_Subset DEF DiskTypes
  <2>. QED  BY <1>1, <2>1, NewestIsLast
<1>. HIDE DEF m
<1>4. dir[m] \in AnyFile(m) /\ dir = [h \in DOMAIN dir |-> dir[h]]  BY <1>3 DEF DiskTypes
<1>. DEFINE f == [dir[m] EXCEPT !.recs = Append(@, r), !.torn = t, !.count = c]
<1>5. DOMAIN dir' = DOMAIN dir /\ dir' = [h \in DOMAIN dir |-> IF h = m THEN f ELSE dir[h]]
  BY <1>2, <1>3, <1>4
<1>6. /\ f \in AnyFile(m) /\ f.recs = Append(dir[m].recs, r) /\ f.readable = dir[m].readable
  <2>1. dir[m].recs \in Seq(Record(m)) /\ dir[m].count \in Nat  BY <1>4 DEF AnyFile
  <2>2. Append(dir[m].recs, r) \in Seq(Record(m)) /\ c \in Nat  BY <1>2, <2>1
  <2>. QED  BY <1>2, <1>4, <2>2 DEF AnyFile
<1>. HIDE DEF f
<1>7. dir'[m] = f /\ \A h \in DOMAIN dir : h # m => dir'[h] = dir[h]  BY <1>3, <1>5
<1>8. /\ Len(dir[m].recs) \in Nat /\ Len(f.recs) = Len(dir[m].recs) + 1
      /\ \A i \in 1 .. Len(dir[m].recs) : f.recs[i] = dir[m].recs[i]
      /\ f.recs[Len(dir[m].recs) + 1] = r
  <2>1. dir[m].recs \in Seq(Record(m))  BY <1>4 DEF AnyFile
  <2>. QED  BY <1>2, <1>6, <2>1, RangeAppend
<1>9. Broken(f) = {}
  <2>1. ASSUME NEW i \in 1 .. Len(f.recs) PROVE f.recs[i].intact
    <3>1. CASE i \in 1 .. Len(dir[m].recs)  BY <1>1, <1>8, <3>1 DEF Broken
    <3>2. CASE i = Len(dir[m].recs) + 1  BY <1>2, <1>8, <3>2
    <3>. QED  BY <1>8, <3>1, <3>2
  <2>. QED  BY <2>1 DEF Broken
<1>10. DiskTypes'
  <2>1. \A h \in DOMAIN dir' : dir'[h] \in AnyFile(h)
    <3>. TAKE h \in DOMAIN dir'
    <3>1. CASE h = m  BY <1>6, <1>7, <3>1
    <3>2. CASE h # m  BY <1>5, <1>7, <3>2 DEF DiskTypes
    <3>. QED  BY <3>1, <3>2
  <2>2. appended' \in Nat  BY <1>1 DEF DiskTypes
  <2>3. dir' = [h \in DOMAIN dir' |-> dir'[h]]  BY <1>5
  <2>. QED  BY <1>1, <1>5, <2>1, <2>2, <2>3 DEF DiskTypes
<1>11. \A h \in DOMAIN dir : dir'[h].readable = dir[h].readable  BY <1>6, <1>7
<1>. QED  BY <1>1, <1>3, <1>5, <1>7, <1>8, <1>9, <1>10, <1>11 DEF m

(* Appending takes nothing away from what has been read and adds nothing to it. *)
LEMMA AppendKeeps == ASSUME ReplayInv, RecorderAppends PROVE ReplayInv'
<1>. DEFINE m == Max(DOMAIN dir)
<1>1. DiskTypes /\ ReaderTypes /\ AppendInv /\ ListInv /\ PassedInv /\ PhaseInv /\ ResultInv /\ TotalInv
  BY DEF ReplayInv
<1>2. /\ m \in DOMAIN dir /\ \A h \in DOMAIN dir : h <= m
      /\ DOMAIN dir' = DOMAIN dir /\ DiskTypes'
      /\ \A h \in DOMAIN dir : h # m => dir'[h] = dir[h]
      /\ Len(dir[m].recs) \in Nat /\ Len(dir'[m].recs) = Len(dir[m].recs) + 1
      /\ \A i \in 1 .. Len(dir[m].recs) : dir'[m].recs[i] = dir[m].recs[i]
      /\ \A h \in DOMAIN dir : dir'[h].readable = dir[h].readable
      /\ Broken(dir'[m]) = {}
      /\ appended' = appended + 1
      /\ UNCHANGED <<deleted, phase, window, files, fileIndex, pos, total, readError,
                     delivered, result>>
  BY <1>1, AppendFrame
<1>3. phase # "new"  BY DEF RecorderAppends
<1>4. m' = m  BY <1>2
<1>5. appended \in Nat /\ appended' \in Nat /\ appended' > 0  BY <1>1, <1>2 DEF DiskTypes
<1>6. ReaderTypes'  BY <1>1, <1>2 DEF ReaderTypes
<1>7. AppendInv'
  <2>1. appended' <= Len(dir'[m].recs)
    <3>1. appended <= Len(dir[m].recs)
      <4>1. CASE appended = 0  BY <1>2, <4>1
      <4>2. CASE appended > 0  BY <1>1, <4>2 DEF AppendInv
      <4>. QED  BY <1>5, <4>1, <4>2
    <3>. QED  BY <1>2, <1>5, <3>1
  <2>2. DOMAIN dir' # {}  BY <1>2
  <2>. QED  BY <1>2, <1>3, <1>4, <2>1, <2>2 DEF AppendInv
<1>8. Selected' = Selected /\ Selected \subseteq DOMAIN dir /\ Here' = Here /\ HandedOver' = HandedOver
  BY <1>2 DEF Selected, Here, HandedOver
<1>9. \A h \in DOMAIN dir : /\ Len(dir[h].recs) \in Nat /\ Len(dir[h].recs) <= Len(dir'[h].recs)
                            /\ \A i \in 1 .. Len(dir[h].recs) : dir'[h].recs[i] = dir[h].recs[i]
  <2>1. \A h \in DOMAIN dir : Len(dir[h].recs) \in Nat
    <3>1. \A h \in DOMAIN dir : dir[h] \in AnyFile(h)  BY <1>1 DEF DiskTypes
    <3>. QED  BY <3>1 DEF AnyFile
  <2>. TAKE h \in DOMAIN dir
  <2>2. CASE h = m  BY <1>2, <2>2
  <2>3. CASE h # m  BY <1>2, <2>1, <2>3
  <2>. QED  BY <2>1, <2>2, <2>3
<1>10. ListInv'
  <2>1. files # <<>> => Here \in DOMAIN dir /\ pos <= Len(dir[Here].recs) /\ pos \in Nat
    BY <1>1, <1>8, ListOrder DEF ListInv, ReaderTypes
  <2>2. files # <<>> => pos <= Len(dir'[Here].recs)
    <3>1. SUFFICES ASSUME files # <<>> PROVE pos <= Len(dir'[Here].recs)  OBVIOUS
    <3>2. Len(dir'[Here].recs) \in Nat
      <4>1. dir'[Here] \in AnyFile(Here)  BY <1>2, <2>1, <3>1 DEF DiskTypes
      <4>. QED  BY <4>1 DEF AnyFile
    <3>. QED  BY <1>9, <2>1, <3>1, <3>2
  <2>. QED  BY <1>1, <1>2, <1>8, <2>2 DEF ListInv
<1>11. ASSUME files # <<>>
       PROVE  /\ Passed' = Passed
              /\ \A p \in Passed : At(p)' = At(p)
  <2>1. /\ Here \in Selected /\ Here \in DOMAIN dir /\ Here \in Nat /\ DOMAIN dir \subseteq Nat
        /\ pos \in Nat /\ pos <= Len(dir[Here].recs)
    <3>1. DOMAIN dir \subseteq Nat  BY <1>1, ReplayAssumption DEF DiskTypes
    <3>. QED  BY <1>1, <1>8, <1>11, <3>1, ListOrder DEF ListInv, ReaderTypes
  <2>. DEFINE k == IF Stopped THEN pos ELSE pos + 1
  <2>2. k \in Nat /\ k <= pos + 1  BY <2>1
  <2>3. Stopped' <=> Stopped  BY <1>2 DEF Stopped
  <2>4. /\ Passed = {p \in PlacesIn(Selected) : Before(p, <<Here, k>>)}
        /\ Passed' = {p \in PlacesIn(Selected)' : Before(p, <<Here, k>>)}
    BY <1>2, <1>8, <2>3 DEF Passed
  <2>. HIDE DEF k
  <2>5. ASSUME NEW p, p \in PlacesIn(Selected) PROVE p \in PlacesIn(Selected)' /\ At(p)' = At(p)
    <3>1. PICK h \in Selected : \E i \in 1 .. Len(dir[h].recs) : p = <<h, i>>  BY <2>5, PlaceIn
    <3>2. PICK i \in 1 .. Len(dir[h].recs) : p = <<h, i>>  BY <3>1
    <3>3. h \in DOMAIN dir /\ dir'[h].recs[i] = dir[h].recs[i]  BY <1>8, <1>9, <3>2
    <3>4. i \in 1 .. Len(dir'[h].recs)
      <4>1. dir'[h] \in AnyFile(h)  BY <1>2, <3>3 DEF DiskTypes
      <4>2. Len(dir'[h].recs) \in Nat  BY <4>1 DEF AnyFile
      <4>. QED  BY <1>9, <3>2, <3>3, <4>2
    <3>5. p \in PlacesIn(Selected)'
      <4>1. <<h, i>> \in UNION {{g} \X (1 .. Len(dir'[g].recs)) : g \in Selected}
        BY <3>4, PlaceMembers
      <4>. QED  BY <1>8, <3>2, <4>1 DEF PlacesIn
    <3>. QED  BY <3>2, <3>3, <3>5 DEF At
  <2>6. ASSUME NEW p, p \in PlacesIn(Selected)', Before(p, <<Here, k>>) PROVE p \in PlacesIn(Selected)
    <3>1. PICK h \in Selected : \E i \in 1 .. Len(dir'[h].recs) : p = <<h, i>>
      <4>1. p \in UNION {{g} \X (1 .. Len(dir'[g].recs)) : g \in Selected}
        BY <1>8, <2>6 DEF PlacesIn
      <4>. QED  BY <4>1, PlaceMembers
    <3>2. PICK i \in 1 .. Len(dir'[h].recs) : p = <<h, i>>  BY <3>1
    <3>3. h \in DOMAIN dir /\ h \in Nat /\ m \in Nat /\ Here <= m  BY <1>2, <1>8, <2>1
    <3>4. p[1] = h /\ p[2] = i  BY <3>2
    <3>5. h < Here \/ (h = Here /\ i < k)  BY <2>6, <3>4 DEF Before
    <3>6. i \in 1 .. Len(dir[h].recs)
      <4>1. CASE h # m  BY <1>2, <3>2, <3>3, <4>1
      <4>2. CASE h = m
        <5>1. h = Here /\ i < k  BY <2>1, <3>3, <3>5, <4>2
        <5>2. i \in Nat /\ i >= 1  BY <3>2
        <5>. QED  BY <1>9, <2>1, <2>2, <3>3, <5>1, <5>2
      <4>. QED  BY <4>1, <4>2
    <3>. QED  BY <3>2, <3>6, PlaceIn
  <2>. QED  BY <2>4, <2>5, <2>6
<1>12. PassedInv'
  <2>1. files # <<>> => Wanted(Passed)' = Wanted(Passed)  BY <1>2, <1>11 DEF Wanted
  <2>. QED  BY <1>1, <1>2, <1>8, <1>11, <2>1 DEF PassedInv
<1>13. \A h \in Selected : HeaderOk(h)' <=> HeaderOk(h)  BY <1>2, <1>8 DEF HeaderOk
<1>14. (\E h \in Selected : ~HeaderOk(h)) <=> (\E h \in Selected' : ~HeaderOk(h)')  BY <1>8, <1>13
<1>15. PhaseInv'
  <2>1. files # <<>> /\ pos > 0 => dir'[Here].recs[pos] = dir[Here].recs[pos]
    <3>1. SUFFICES ASSUME files # <<>>, pos > 0 PROVE dir'[Here].recs[pos] = dir[Here].recs[pos]
      OBVIOUS
    <3>2. Here \in DOMAIN dir /\ pos <= Len(dir[Here].recs) /\ pos \in Nat
      BY <1>1, <1>8, <3>1, ListOrder DEF ListInv, ReaderTypes
    <3>3. pos \in 1 .. Len(dir[Here].recs)  BY <1>9, <3>1, <3>2
    <3>. QED  BY <1>9, <3>2, <3>3
  <2>2. files # <<>> => LenAtListing(Here)' = LenAtListing(Here)
    <3>1. SUFFICES ASSUME files # <<>> PROVE LenAtListing(Here)' = LenAtListing(Here)  OBVIOUS
    <3>2. Here \in DOMAIN dir  BY <1>1, <1>8, <3>1, ListOrder
    <3>3. CASE Here = m
      <4>1. LenAtListing(Here) = Len(dir[m].recs) - appended  BY <3>3 DEF LenAtListing
      <4>2. LenAtListing(Here)' = Len(dir'[m].recs) - appended'
        BY <1>4, <1>8, <3>3 DEF LenAtListing
      <4>. QED  BY <1>2, <1>5, <4>1, <4>2
    <3>4. CASE Here # m
      <4>1. LenAtListing(Here) = Len(dir[Here].recs) - 0  BY <3>4 DEF LenAtListing
      <4>2. LenAtListing(Here)' = Len(dir'[Here].recs) - 0  BY <1>4, <1>8, <3>4 DEF LenAtListing
      <4>. QED  BY <1>2, <3>2, <3>4, <4>1, <4>2
    <3>. QED  BY <3>3, <3>4
  <2>. QED  BY <1>1, <1>2, <1>3, <1>8, <1>14, <2>1, <2>2 DEF PhaseInv
<1>16. ResultInv'
  <2>1. Valid(window)' <=> Valid(window)  BY <1>2 DEF Valid
  <2>. QED  BY <1>1, <1>2, <1>8, <1>14, <2>1 DEF ResultInv
<1>17. TotalInv'  BY <1>1, <1>2, <1>3, <1>5 DEF TotalInv
<1>. QED  BY <1>2, <1>6, <1>7, <1>10, <1>12, <1>15, <1>16, <1>17 DEF ReplayInv

-------------------------------------------------------------------------------
(* The theorems *)

(* Every step of the replay and of those it shares the disk with keeps the invariant. *)
LEMMA ReplayStep == ReplayInv /\ [Next]_vars => ReplayInv'
<1>. SUFFICES ASSUME ReplayInv, [Next]_vars PROVE ReplayInv'  OBVIOUS
<1>1. ASSUME NEW w \in TimeWindow, ReplayWithoutCallback(w) \/ OpenInvalidWindow(w) PROVE ReplayInv'
  BY <1>1, RefusalKeeps
<1>2. ASSUME NEW w \in TimeWindow, OpenListing(w) PROVE ReplayInv'  BY <1>2, ListingKeeps
<1>3. CASE Probe  BY <1>3, ProbeKeeps
<1>4. CASE OpenFirst  BY <1>4, OpenFirstKeeps
<1>5. CASE ReadBroken \/ CallbackThrows  BY <1>5, StopKeeps
<1>6. CASE ReadOutsideWindow \/ Deliver  BY <1>6, PassKeeps
<1>7. CASE NextFile  BY <1>7, NextFileKeeps
<1>8. CASE Finish  BY <1>8, FinishKeeps
<1>9. ASSUME NEW g \in Hours, Delete(g) PROVE ReplayInv'  BY <1>9, DeleteKeeps
<1>10. CASE RecorderAppends  BY <1>10, AppendKeeps
<1>11. CASE UNCHANGED vars
  <2>. USE <1>11 DEF vars
  <2>1. DiskTypes' /\ ReaderTypes' /\ AppendInv' /\ ListInv'
    BY DEF ReplayInv, DiskTypes, ReaderTypes, AppendInv, ListInv, Selected, Here
  <2>2. PassedInv'
    BY DEF ReplayInv, PassedInv, HandedOver, Wanted, Passed, At, Stopped, Here, Selected, PlacesIn
  <2>3. PhaseInv'  BY DEF ReplayInv, PhaseInv, Selected, Here, HeaderOk, LenAtListing
  <2>4. ResultInv' /\ TotalInv'
    BY DEF ReplayInv, ResultInv, TotalInv, Selected, Here, HeaderOk, Valid, PlacesIn
  <2>. QED  BY <2>1, <2>2, <2>3, <2>4 DEF ReplayInv
<1>. QED
  BY <1>1, <1>2, <1>3, <1>4, <1>5, <1>6, <1>7, <1>8, <1>9, <1>10, <1>11 DEF Next

(* The inductive invariant of the replay holds in every reachable state. *)
THEOREM ReplayInvariance == Spec => []ReplayInv
BY ReplayInit, ReplayStep, PTL DEF Spec

(* The window asks for nothing in the files that a listing passes over. *)
LEMMA WantedAreSelected ==
    ASSUME DiskTypes, ReaderTypes, Nameable(window), NEW p \in Wanted(PlacesIn(DOMAIN dir))
    PROVE  p \in Wanted(PlacesIn(Selected))
<1>1. p \in PlacesIn(DOMAIN dir) /\ InWindow(window, At(p).ts)  BY DEF Wanted
<1>2. PICK h \in DOMAIN dir : \E i \in 1 .. Len(dir[h].recs) : p = <<h, i>>  BY <1>1, PlaceIn
<1>3. PICK i \in 1 .. Len(dir[h].recs) : p = <<h, i>>  BY <1>2
<1>4. At(p) = dir[h].recs[i]  BY <1>3 DEF At
<1>5. dir[h].recs \in Seq(Record(h)) /\ h \in Hours /\ window \in TimeWindow
  <2>1. dir[h] \in AnyFile(h) /\ h \in Hours  BY DEF DiskTypes
  <2>. QED  BY <2>1 DEF AnyFile, ReaderTypes
<1>6. At(p) \in Record(h)  BY <1>3, <1>4, <1>5
<1>7. At(p).ts \in h * HourLength .. (h + 1) * HourLength - 1  BY <1>6 DEF Record
<1>8. HourlyFileInWindow(h, window)  BY <1>1, <1>5, <1>7, WindowSelectsHour
<1>9. h \in Selected  BY <1>8 DEF Selected
<1>10. p \in PlacesIn(Selected)  BY <1>3, <1>9, PlaceIn
<1>. QED  BY <1>1, <1>10 DEF Wanted

(* If the window asks for something in a file that was listed, its ends have names in
   the order of time. *)
LEMMA AnswerIsNameable ==
    ASSUME DiskTypes, ReaderTypes, NEW p \in Wanted(PlacesIn(Selected))
    PROVE  Nameable(window)
<1>1. p \in PlacesIn(Selected) /\ InWindow(window, At(p).ts)  BY DEF Wanted
<1>2. PICK h \in Selected : \E i \in 1 .. Len(dir[h].recs) : p = <<h, i>>  BY <1>1, PlaceIn
<1>3. PICK i \in 1 .. Len(dir[h].recs) : p = <<h, i>>  BY <1>2
<1>4. At(p) = dir[h].recs[i]  BY <1>3 DEF At
<1>5. h \in DOMAIN dir /\ HourlyFileInWindow(h, window)  BY DEF Selected
<1>6. dir[h].recs \in Seq(Record(h)) /\ h \in Hours /\ window \in TimeWindow
  <2>1. dir[h] \in AnyFile(h) /\ h \in Hours  BY <1>5 DEF DiskTypes
  <2>. QED  BY <2>1 DEF AnyFile, ReaderTypes
<1>7. At(p) \in Record(h)  BY <1>3, <1>4, <1>6
<1>8. At(p).ts \in h * HourLength .. (h + 1) * HourLength - 1  BY <1>7 DEF Record
<1>. QED  BY <1>1, <1>5, <1>6, <1>8, ServedIsNameable

(* The files a listing finds are those that a valid window touches. *)
LEMMA SelectedAreTouched ==
    ASSUME DiskTypes, ReaderTypes, Valid(window), Nameable(window)
    PROVE  Selected = Touched
<1>1. DOMAIN dir \subseteq Hours /\ window \in TimeWindow  BY DEF DiskTypes, ReaderTypes
<1>2. ASSUME NEW h \in Selected PROVE h \in Touched
  <2>1. h \in DOMAIN dir /\ h \in Hours /\ HourlyFileInWindow(h, window)  BY <1>1 DEF Selected
  <2>2. \E ts \in h * HourLength .. (h + 1) * HourLength - 1 : InWindow(window, ts)
    BY <1>1, <2>1, SelectedHourTouches
  <2>. QED  BY <2>1, <2>2 DEF Touched
<1>3. ASSUME NEW h \in Touched PROVE h \in Selected
  <2>1. h \in DOMAIN dir /\ h \in Hours  BY <1>1 DEF Touched
  <2>2. PICK ts \in h * HourLength .. (h + 1) * HourLength - 1 : InWindow(window, ts)  BY DEF Touched
  <2>3. HourlyFileInWindow(h, window)  BY <1>1, <2>1, <2>2, WindowSelectsHour
  <2>. QED  BY <2>1, <2>3 DEF Selected
<1>. QED  BY <1>2, <1>3

(* A reader that came to the end without an error has passed everything that the
   files held when they were listed. *)
LEMMA EndPassesAll ==
    ASSUME ReplayInv, phase = "returned", ~result.fileError, ~result.callbackError,
           NEW p \in PlacesIn(Selected), p \in PlacesAtListing
    PROVE  files # <<>> /\ p \in Passed
<1>1. DiskTypes /\ ReaderTypes /\ AppendInv /\ ListInv /\ PhaseInv /\ ResultInv  BY DEF ReplayInv
<1>2. PICK h \in Selected : \E i \in 1 .. Len(dir[h].recs) : p = <<h, i>>  BY PlaceIn
<1>3. PICK i \in 1 .. Len(dir[h].recs) : p = <<h, i>>  BY <1>2
<1>4. files # <<>> /\ ~readError  BY <1>1, <1>2 DEF ResultInv
<1>5. fileIndex = Len(files) /\ pos >= LenAtListing(Here)  BY <1>1, <1>4 DEF PhaseInv
<1>6. /\ h \in Nat /\ Here \in Nat /\ Here \in DOMAIN dir
      /\ Selected = {g \in Selected : g < Here} \cup {Here}
  BY <1>1, <1>4, <1>5, ListOrder
<1>7. h < Here \/ h = Here  BY <1>6
<1>8. pos \in Nat /\ appended \in Nat /\ Len(dir[Here].recs) \in Nat
  <2>1. dir[Here] \in AnyFile(Here)  BY <1>1, <1>6 DEF DiskTypes
  <2>. QED  BY <1>1, <2>1 DEF AnyFile, DiskTypes, ReaderTypes
<1>9. h = Here => i < pos + 1
  <2>1. SUFFICES ASSUME h = Here PROVE i < pos + 1  OBVIOUS
  <2>2. p[1] = h /\ p[2] = i  BY <1>3
  <2>3. CASE Here = Max(DOMAIN dir)
    <3>1. i <= Len(dir[Here].recs) - appended  BY <2>1, <2>2, <2>3 DEF PlacesAtListing
    <3>2. LenAtListing(Here) = Len(dir[Here].recs) - appended  BY <2>3 DEF LenAtListing
    <3>. QED  BY <1>3, <1>5, <1>8, <3>1, <3>2
  <2>4. CASE Here # Max(DOMAIN dir)
    <3>1. LenAtListing(Here) = Len(dir[Here].recs) - 0  BY <2>4 DEF LenAtListing
    <3>. QED  BY <1>3, <1>5, <1>8, <2>1, <3>1
  <2>. QED  BY <2>3, <2>4
<1>10. ~Stopped  BY <1>4 DEF Stopped
<1>11. Before(p, <<Here, pos + 1>>)  BY <1>3, <1>7, <1>9 DEF Before
<1>. QED  BY <1>4, <1>10, <1>11 DEF Passed

(* For any directory, window, deletions and appended records: the callback has got,
   in order, the first of the wanted records, none of them damaged. *)
THEOREM DeliveryIsPrefix == Spec => []DeliveredIsPrefix
<1>1. ReplayInv => DeliveredIsPrefix
  <2>. SUFFICES ASSUME ReplayInv PROVE DeliveredIsPrefix  OBVIOUS
  <2>1. DiskTypes /\ ReaderTypes /\ ListInv /\ PassedInv  BY DEF ReplayInv
  <2>2. ASSUME NEW p \in HandedOver
        PROVE  /\ p \in Wanted(PlacesIn(DOMAIN dir)) /\ At(p).intact
               /\ \A q \in Wanted(PlacesIn(DOMAIN dir)) : Before(q, p) => q \in HandedOver
    <3>1. files # <<>> /\ phase # "probe"
      <4>1. delivered # <<>>
        <5>1. ASSUME delivered = <<>> PROVE FALSE
          <6>1. HandedOver = {}  BY <5>1 DEF HandedOver, Range
          <6>. QED  BY <2>2, <6>1
        <5>. QED  BY <5>1
      <4>. QED  BY <2>1, <4>1 DEF PassedInv
    <3>2. HandedOver = Wanted(Passed) /\ At(p).intact
      <4>1. HandedOver = Wanted(Passed) /\ \A q \in Passed : At(q).intact
        BY <2>1, <3>1 DEF PassedInv
      <4>. QED  BY <2>2, <4>1 DEF Wanted
    <3>3. p \in PlacesIn(Selected) /\ p \in Passed /\ InWindow(window, At(p).ts)
      BY <2>2, <3>2 DEF Wanted, Passed
    <3>4. p \in Wanted(PlacesIn(DOMAIN dir))
      <4>1. Selected \subseteq DOMAIN dir  BY DEF Selected
      <4>2. p \in PlacesIn(DOMAIN dir)  BY <3>3, <4>1 DEF PlacesIn
      <4>. QED  BY <3>3, <4>2 DEF Wanted
    <3>5. ASSUME NEW q \in Wanted(PlacesIn(DOMAIN dir)), Before(q, p) PROVE q \in HandedOver
      <4>0. p \in Wanted(PlacesIn(Selected))  BY <3>3 DEF Wanted
      <4>1. q \in Wanted(PlacesIn(Selected))  BY <2>1, <4>0, AnswerIsNameable, WantedAreSelected
      <4>2. q \in PlacesIn(Selected) /\ InWindow(window, At(q).ts)  BY <4>1 DEF Wanted
      <4>. DEFINE k == IF Stopped THEN pos ELSE pos + 1
      <4>3. k \in Nat  BY <2>1 DEF ReaderTypes
      <4>4. Before(p, <<Here, k>>)  BY <3>3 DEF Passed
      <4>5. \A r \in PlacesIn(Selected) : r[1] \in Nat /\ r[2] \in Nat
        <5>1. Selected \subseteq Nat  BY <2>1, <3>1, ListOrder
        <5>. TAKE r \in PlacesIn(Selected)
        <5>2. PICK h \in Selected : \E i \in 1 .. Len(dir[h].recs) : r = <<h, i>>  BY PlaceIn
        <5>3. PICK i \in 1 .. Len(dir[h].recs) : r = <<h, i>>  BY <5>2
        <5>4. r[1] = h /\ r[2] = i /\ i \in Nat  BY <5>3
        <5>. QED  BY <5>1, <5>4
      <4>6. Here \in Nat  BY <2>1, <3>1, ListOrder
      <4>. HIDE DEF k
      <4>7. Before(q, <<Here, k>>)
        <5>1. q[1] \in Nat /\ q[2] \in Nat /\ p[1] \in Nat /\ p[2] \in Nat  BY <3>3, <4>2, <4>5
        <5>2. \A a1, a2, b1, b2, c1, c2 \in Nat :
                 /\ a1 < b1 \/ (a1 = b1 /\ a2 < b2)
                 /\ b1 < c1 \/ (b1 = c1 /\ b2 < c2)
                 => a1 < c1 \/ (a1 = c1 /\ a2 < c2)
          OBVIOUS
        <5>3. /\ q[1] < p[1] \/ (q[1] = p[1] /\ q[2] < p[2])
              /\ p[1] < Here \/ (p[1] = Here /\ p[2] < k)
          BY <3>5, <4>4 DEF Before
        <5>4. q[1] < Here \/ (q[1] = Here /\ q[2] < k)  BY ONLY <4>3, <4>6, <5>1, <5>2, <5>3
        <5>. QED  BY <5>4 DEF Before
      <4>8. q \in Passed  BY <4>2, <4>7 DEF Passed, k
      <4>. QED  BY <3>2, <4>2, <4>8 DEF Wanted
    <3>. QED  BY <3>2, <3>4, <3>5
  <2>. QED  BY <2>1, <2>2 DEF PassedInv, DeliveredIsPrefix
<1>. QED  BY <1>1, ReplayInvariance, PTL

(* Whatever is deleted or appended meanwhile: a result that says completed has
   handed over every wanted record that was there at the listing, for every window
   neither end of which has one of the early names. *)
THEOREM CompletionIsExact == Spec => []CompletedIsExact
<1>1. ReplayInv => CompletedIsExact
  <2>. SUFFICES ASSUME ReplayInv, phase = "returned", result.completed, Nameable(window),
                       NEW p \in Wanted(PlacesAtListing)
                PROVE  p \in HandedOver
    BY DEF CompletedIsExact, HandedOverAll
  <2>1. DiskTypes /\ ReaderTypes /\ PassedInv /\ ResultInv  BY DEF ReplayInv
  <2>2. ~result.fileError /\ ~result.callbackError  BY <2>1 DEF ResultInv
  <2>3. p \in PlacesAtListing /\ p \in Wanted(PlacesIn(DOMAIN dir))  BY DEF Wanted, PlacesAtListing
  <2>4. p \in Wanted(PlacesIn(Selected))  BY <2>1, <2>3, WantedAreSelected
  <2>5. p \in PlacesIn(Selected) /\ InWindow(window, At(p).ts)  BY <2>4 DEF Wanted
  <2>6. files # <<>> /\ p \in Passed  BY <2>2, <2>3, <2>5, EndPassesAll
  <2>7. HandedOver = Wanted(Passed)  BY <2>1, <2>6 DEF PassedInv
  <2>. QED  BY <2>5, <2>6, <2>7 DEF Wanted
<1>. QED  BY <1>1, ReplayInvariance, PTL

(* A reader that came to the end without an error found no damage in the files it
   was to read, and the recorder has added none. *)
LEMMA EndFindsNoDamage ==
    ASSUME ReplayInv, phase = "returned", ~result.fileError, ~result.callbackError,
           NEW p \in PlacesIn(Selected)
    PROVE  At(p).intact
<1>1. DiskTypes /\ AppendInv /\ PassedInv  BY DEF ReplayInv
<1>2. CASE p \in PlacesAtListing
  <2>1. files # <<>> /\ p \in Passed  BY <1>2, EndPassesAll
  <2>. QED  BY <1>1, <2>1 DEF PassedInv
<1>3. CASE p \notin PlacesAtListing
  <2>1. PICK h \in Selected : \E i \in 1 .. Len(dir[h].recs) : p = <<h, i>>  BY PlaceIn
  <2>2. PICK i \in 1 .. Len(dir[h].recs) : p = <<h, i>>  BY <2>1
  <2>3. h \in DOMAIN dir /\ p[1] = h /\ p[2] = i  BY <2>2 DEF Selected
  <2>4. p \in PlacesIn(DOMAIN dir)  BY <2>2, <2>3, PlaceIn
  <2>5. h = Max(DOMAIN dir) /\ ~(i <= Len(dir[h].recs) - appended)
    BY <1>3, <2>3, <2>4 DEF PlacesAtListing
  <2>6. appended > 0
    <3>1. dir[h] \in AnyFile(h) /\ appended \in Nat  BY <1>1, <2>3 DEF DiskTypes
    <3>2. Len(dir[h].recs) \in Nat  BY <3>1 DEF AnyFile
    <3>. QED  BY <2>2, <2>5, <3>1, <3>2
  <2>7. Broken(dir[h]) = {}  BY <1>1, <2>5, <2>6 DEF AppendInv
  <2>8. dir[h].recs[i].intact  BY <2>2, <2>7 DEF Broken
  <2>. QED  BY <2>2, <2>8 DEF At
<1>. QED  BY <1>2, <1>3

(* For any directory: a damaged record stops the replay with file_error exactly
   there. *)
THEOREM DamageStopsReplay == Spec => []DamageStopsThere
<1>1. ReplayInv => DamageStopsThere
  <2>. DEFINE all == PlacesIn(Touched)
              bad == {p \in all : ~At(p).intact}
  <2>. SUFFICES ASSUME ReplayInv, phase = "returned", ~result.callbackError, Valid(window),
                       Nameable(window), deleted = {}, \A h \in Touched : dir[h].readable, bad # {}
                PROVE  /\ result.fileError /\ ~result.completed
                       /\ \E p \in bad : /\ \A q \in bad \ {p} : Before(p, q)
                                         /\ HandedOver = Wanted({q \in all : Before(q, p)})
    BY DEF DamageStopsThere
  <2>1. DiskTypes /\ ReaderTypes /\ ListInv /\ PassedInv /\ PhaseInv /\ ResultInv  BY DEF ReplayInv
  <2>2. Touched = Selected /\ all = PlacesIn(Selected)  BY <2>1, SelectedAreTouched
  <2>3. PICK b \in all : ~At(b).intact  OBVIOUS
  <2>4. result.fileError  BY <2>2, <2>3, EndFindsNoDamage
  <2>5. ~result.completed  BY <2>1, <2>4 DEF ResultInv
  <2>6. Selected # {}
    <3>1. b \in PlacesIn(Selected)  BY <2>2, <2>3
    <3>. QED  BY <3>1, PlaceIn
  <2>7. \A h \in Selected : HeaderOk(h)  BY <2>2 DEF HeaderOk
  <2>8. readError /\ pos > 0  BY <2>1, <2>4, <2>6, <2>7 DEF ResultInv
  <2>9. files # <<>> /\ ~dir[Here].recs[pos].intact  BY <2>1, <2>8 DEF PhaseInv
  <2>10. phase # "probe"  OBVIOUS
  <2>11. /\ Here \in Selected /\ Here \in Nat /\ pos \in 1 .. Len(dir[Here].recs) /\ Selected \subseteq Nat
    <3>1. Here \in Selected /\ Here \in Nat /\ Here \in DOMAIN dir /\ Selected \subseteq Nat
      BY <2>1, <2>9, ListOrder
    <3>2. dir[Here] \in AnyFile(Here)  BY <2>1, <3>1 DEF DiskTypes
    <3>3. Len(dir[Here].recs) \in Nat /\ pos \in Nat  BY <2>1, <3>2 DEF AnyFile, ReaderTypes
    <3>4. pos <= Len(dir[Here].recs)  BY <2>1, <2>9 DEF ListInv
    <3>. QED  BY <2>8, <3>1, <3>3, <3>4
  <2>. DEFINE stop == <<Here, pos>>
  <2>12. stop \in PlacesIn(Selected)  BY <2>11, PlaceIn
  <2>13. stop \in bad
    <3>1. At(stop) = dir[Here].recs[pos]  BY DEF At
    <3>. QED  BY <2>2, <2>9, <2>12, <3>1
  <2>14. Passed = {q \in all : Before(q, stop)}  BY <2>2, <2>8 DEF Passed, Stopped
  <2>15. HandedOver = Wanted(Passed) /\ \A q \in Passed : At(q).intact
    BY <2>1, <2>9, <2>10 DEF PassedInv
  <2>16. ASSUME NEW q \in bad, q # stop PROVE Before(stop, q)
    <3>1. q \in PlacesIn(Selected) /\ ~Before(q, stop)  BY <2>2, <2>14, <2>15
    <3>2. PICK h \in Selected : \E i \in 1 .. Len(dir[h].recs) : q = <<h, i>>  BY <3>1, PlaceIn
    <3>3. PICK i \in 1 .. Len(dir[h].recs) : q = <<h, i>>  BY <3>2
    <3>4. q[1] = h /\ q[2] = i /\ stop[1] = Here /\ stop[2] = pos  BY <3>3
    <3>5. h \in Nat /\ i \in Nat /\ pos \in Nat  BY <2>11, <3>3
    <3>6. ~(h < Here) /\ ~(h = Here /\ i < pos)  BY <3>1, <3>4 DEF Before
    <3>7. ~(h = Here /\ i = pos)  BY <2>16, <3>3
    <3>8. Here < h \/ (Here = h /\ pos < i)  BY ONLY <2>11, <3>5, <3>6, <3>7
    <3>. QED  BY <3>4, <3>8 DEF Before
  <2>. HIDE DEF stop
  <2>17. HandedOver = Wanted({q \in all : Before(q, stop)})  BY <2>14, <2>15
  <2>18. \A q \in bad \ {stop} : Before(stop, q)  BY <2>16
  <2>. QED  BY <2>4, <2>5, <2>13, <2>17, <2>18
<1>. QED  BY <1>1, ReplayInvariance, PTL

(* Each handed-over record was handed over once. *)
LEMMA OnceEach ==
    ASSUME ReaderTypes, \A i, j \in 1 .. Len(delivered) : i < j => Before(delivered[i], delivered[j])
    PROVE  Cardinality(HandedOver) = Len(delivered)
<1>. DEFINE n == Len(delivered)
<1>1. delivered \in [1 .. n -> Nat \X Nat] /\ n \in Nat  BY DEF ReaderTypes
<1>2. ASSUME NEW i \in 1 .. n, NEW j \in 1 .. n, delivered[i] = delivered[j] PROVE i = j
  <2>1. ASSUME NEW a \in 1 .. n, NEW b \in 1 .. n, a < b PROVE delivered[a] # delivered[b]
    <3>1. Before(delivered[a], delivered[b])  BY <2>1
    <3>2. delivered[b] \in Nat \X Nat  BY <1>1
    <3>3. delivered[b][1] \in Nat /\ delivered[b][2] \in Nat  BY <3>2
    <3>4. ~Before(delivered[b], delivered[b])  BY <3>3 DEF Before
    <3>. QED  BY <3>1, <3>4
  <2>. QED  BY <1>1, <1>2, <2>1
<1>3. delivered \in Bijection(1 .. n, HandedOver)
  <2>1. DOMAIN delivered = 1 .. n  BY <1>1
  <2>2. delivered \in [1 .. n -> HandedOver]  BY <1>1, <2>1 DEF HandedOver, Range
  <2>3. \A x \in HandedOver : \E i \in 1 .. n : delivered[i] = x  BY <2>1 DEF HandedOver, Range
  <2>. QED  BY <1>2, <2>2, <2>3 DEF Bijection, Injection, Surjection, IsInjective
<1>. HIDE DEF n
<1>4. IsFiniteSet(1 .. n) /\ Cardinality(1 .. n) = n
  <2>1. /\ IsFiniteSet(1 .. n)
        /\ Cardinality(1 .. n) = IF 1 > n THEN 0 ELSE n - 1 + 1
    BY ONLY <1>1, FS_Interval
  <2>. QED  BY ONLY <1>1, <2>1
<1>5. ExistsBijection(1 .. n, HandedOver)  BY <1>3 DEF ExistsBijection
<1>. QED  BY <1>4, <1>5, FS_Bijection DEF n

(* For any directory: when the touched files were closed in order and are
   undamaged, the replay completes. *)
THEOREM SoundFilesAreReplayed == Spec => []SoundFilesComplete
<1>1. ReplayInv => SoundFilesComplete
  <2>. SUFFICES ASSUME ReplayInv, phase = "returned", ~result.callbackError, Valid(window),
                       Nameable(window), deleted = {}, DOMAIN dir # {} \/ window # NoWindow,
                       \A h \in Touched : Defects(dir[h]) = 0,
                       appended = 0 \/ window # NoWindow,
                       ~result.completed
                PROVE  FALSE
    BY DEF SoundFilesComplete
  <2>1. DiskTypes /\ ReaderTypes /\ AppendInv /\ ListInv /\ PassedInv /\ PhaseInv /\ ResultInv /\ TotalInv
    BY DEF ReplayInv
  <2>2. Touched = Selected /\ Selected \subseteq DOMAIN dir  BY <2>1, SelectedAreTouched DEF Selected
  <2>3. ASSUME NEW h \in Selected
        PROVE  dir[h].readable /\ Broken(dir[h]) = {} /\ dir[h].count = Len(dir[h].recs)
    <3>1. Defects(dir[h]) = 0  BY <2>2
    <3>2. IsFiniteSet(Broken(dir[h])) /\ Cardinality(Broken(dir[h])) \in Nat
      <4>1. dir[h] \in AnyFile(h)  BY <2>1, <2>2 DEF DiskTypes
      <4>2. Len(dir[h].recs) \in Nat  BY <4>1 DEF AnyFile
      <4>3. IsFiniteSet(1 .. Len(dir[h].recs))  BY <4>2, FS_Interval
      <4>4. Broken(dir[h]) \in SUBSET (1 .. Len(dir[h].recs))  BY DEF Broken
      <4>. QED  BY ONLY <4>3, <4>4, FS_Subset, FS_CardinalityType
    <3>3. /\ Cardinality(Broken(dir[h])) = 0 /\ dir[h].readable
          /\ dir[h].count = Len(dir[h].recs)
      BY <3>1, <3>2 DEF Defects
    <3>4. Broken(dir[h]) = {}  BY <3>2, <3>3, FS_EmptySet
    <3>. QED  BY <3>3, <3>4
  <2>4. \A h \in Selected : HeaderOk(h)  BY <2>3 DEF HeaderOk
  <2>5. window = NoWindow => Selected = DOMAIN dir  BY DEF Selected, HourlyFileInWindow, NoWindow
  <2>6. ~(readError /\ pos > 0)
    <3>1. SUFFICES ASSUME readError, pos > 0 PROVE FALSE  OBVIOUS
    <3>2. files # <<>> /\ ~dir[Here].recs[pos].intact  BY <2>1, <3>1 DEF PhaseInv
    <3>3. Here \in Selected /\ pos \in Nat /\ pos <= Len(dir[Here].recs)
      BY <2>1, <3>2, ListOrder DEF ListInv, ReaderTypes
    <3>4. Len(dir[Here].recs) \in Nat
      <4>1. dir[Here] \in AnyFile(Here)  BY <2>1, <2>2, <3>3 DEF DiskTypes
      <4>. QED  BY <4>1 DEF AnyFile
    <3>5. pos \in Broken(dir[Here])  BY <3>1, <3>2, <3>3, <3>4 DEF Broken
    <3>. QED  BY <2>3, <3>3, <3>5
  <2>7. ~result.fileError  BY <2>1, <2>4, <2>5, <2>6 DEF ResultInv
  <2>8. /\ files # <<>> \/ (Selected = {} /\ total = 0)
        /\ window = NoWindow /\ total > 0 /\ result.replayed # total
    BY <2>1, <2>7 DEF ResultInv
  <2>9. files # <<>> /\ appended = 0  BY <2>8
  <2>10. total = Cardinality(PlacesIn(Selected))
    <3>1. {h \in Selected : phase = "probe" => h < Here} = Selected  OBVIOUS
    <3>. QED  BY <2>1, <2>3, <2>9, <3>1 DEF TotalInv
  <2>11. HandedOver = PlacesIn(Selected)
    <3>1. HandedOver = Wanted(Passed)  BY <2>1, <2>9 DEF PassedInv
    <3>2. \A ts : InWindow(window, ts)  BY <2>8 DEF InWindow, NoWindow
    <3>3. HandedOver = Passed  BY <3>1, <3>2 DEF Wanted
    <3>4. ASSUME NEW p \in PlacesIn(Selected) PROVE p \in Passed
      <4>1. PICK h \in Selected : \E i \in 1 .. Len(dir[h].recs) : p = <<h, i>>  BY PlaceIn
      <4>2. PICK i \in 1 .. Len(dir[h].recs) : p = <<h, i>>  BY <4>1
      <4>3. h \in DOMAIN dir /\ p[1] = h /\ p[2] = i  BY <2>2, <4>2
      <4>4. p \in PlacesIn(DOMAIN dir)  BY <4>2, <4>3, PlaceIn
      <4>5. i <= Len(dir[h].recs) - appended
        <5>1. dir[h] \in AnyFile(h)  BY <2>1, <4>3 DEF DiskTypes
        <5>2. Len(dir[h].recs) \in Nat  BY <5>1 DEF AnyFile
        <5>. QED  BY <2>9, <4>2, <5>2
      <4>6. p \in PlacesAtListing  BY <4>3, <4>4, <4>5 DEF PlacesAtListing
      <4>. QED  BY <2>7, <4>6, EndPassesAll
    <3>. QED  BY <3>3, <3>4 DEF Passed
  <2>12. result.replayed = Cardinality(HandedOver)
    <3>1. result.replayed = Len(delivered)  BY <2>1 DEF ResultInv
    <3>2. \A i, j \in 1 .. Len(delivered) : i < j => Before(delivered[i], delivered[j])
      BY <2>1 DEF PassedInv
    <3>. QED  BY <2>1, <3>1, <3>2, OnceEach
  <2>. QED  BY <2>8, <2>10, <2>11, <2>12
<1>. QED  BY <1>1, ReplayInvariance, PTL
=============================================================================
