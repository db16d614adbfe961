---------------------------- MODULE OrderedDelivery ---------------------------
(* What the sequence gate promises its user: a log of trade ids that starts
   anywhere and then only ever grows by the next id. *)
EXTENDS Naturals, Sequences

CONSTANT Ids     \* the trade ids of the stream
VARIABLE log

Init == log = <<>>

Deliver(id) == /\ log # <<>> => id = log[Len(log)] + 1
               /\ log' = Append(log, id)

Next == \E id \in Ids : Deliver(id)

Spec == Init /\ [][Next]_log
===============================================================================
