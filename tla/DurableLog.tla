------------------------------ MODULE DurableLog ------------------------------
(* What the recorder promises its user: every call of write() gets the next
   number; a number reaches at most one file, at most once, and the files grow
   at their ends only, each in the order of the calls.  Crashes, failures and
   reopenings do not appear: they may lose numbers, and nothing else. *)
EXTENDS Naturals, Sequences

CONSTANT Hours      \* the hours; one file each
VARIABLES last,     \* the number of the last call of write()
          files     \* the numbers each file holds

Stored == UNION {{files[h][i] : i \in 1 .. Len(files[h])} : h \in Hours}

Increasing(s) == \A i, j \in 1 .. Len(s) : i < j => s[i] < s[j]

Init == last = 0 /\ files = [h \in Hours |-> <<>>]

Offer == last' = last + 1 /\ UNCHANGED files

(* Numbers that no file holds yet reach the file of hour h. *)
Store(h) ==
    /\ files' \in [Hours -> Seq(1 .. last)]
    /\ \A g \in Hours \ {h} : files'[g] = files[g]
    /\ Len(files'[h]) >= Len(files[h])
    /\ SubSeq(files'[h], 1, Len(files[h])) = files[h]
    /\ \A i \in Len(files[h]) + 1 .. Len(files'[h]) : files'[h][i] \notin Stored
    /\ Increasing(files'[h])
    /\ UNCHANGED last

Next == Offer \/ \E h \in Hours : Store(h)

Spec == Init /\ [][Next]_<<last, files>>
===============================================================================
