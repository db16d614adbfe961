------------------------------ MODULE RingBuffer ------------------------------
(***************************************************************************)
(* RingBuffer (src/src/cache/ring_buffer.h): a buffer of fixed capacity    *)
(* that keeps the newest items.  Each operation runs under the mutex, so   *)
(* it is one step; slots are counted from 0 as in the code.                *)
(***************************************************************************)
EXTENDS Integers, Sequences

(* validate_capacity: a capacity of zero throws. *)
ValidCapacity(capacity) == capacity > 0

NewRing(capacity) ==
    [cap |-> capacity, buffer |-> [i \in 0..(capacity - 1) |-> 0], head |-> 0, count |-> 0]

Push(r, item) ==
    [r EXCEPT !.buffer = [r.buffer EXCEPT ![r.head] = item],
              !.head = (r.head + 1) % r.cap,
              !.count = IF r.count < r.cap THEN r.count + 1 ELSE r.count]

(* The newest min(n, size) items, oldest first.  Mutation: the oldest ones. *)
SnapshotOldest(r, n) ==
    LET take == IF n < r.count THEN n ELSE r.count
        start == (r.head + r.cap - r.count) % r.cap
    IN  [i \in 1..take |-> r.buffer[(start + i - 1) % r.cap]]
Snapshot(r, n) ==
    LET take == IF n < r.count THEN n ELSE r.count
        start == (r.head + r.cap - take) % r.cap
    IN  [i \in 1..take |-> r.buffer[(start + i - 1) % r.cap]]
===============================================================================
