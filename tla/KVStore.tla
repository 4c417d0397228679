------------------------------ MODULE KVStore ------------------------------
(***************************************************************************)
(* What the storage engine promises the rest of the program, with no trace *)
(* of memtables, SST files, compaction or the WAL: a read returns the last *)
(* write of its key, and after a crash each key holds a value that is not  *)
(* older than its last logged write (StorageEngine,                        *)
(* src/src/storage/engine.rs).                                             *)
(***************************************************************************)
EXTENDS Sequences, FiniteSets, Naturals

CONSTANTS Keys, Values, NotFound

VARIABLES
    view,      \* what a read of each key returns
    queue,     \* writes not yet logged, <<key, visible value>>, oldest first
    safe       \* what each key held after the last logged write

vars == <<view, queue, safe>>

Visible == Values \union {NotFound}

\* The values a crash may leave at k: the logged one or any later one.
Admissible(k) ==
    {safe[k]} \union {queue[i][2] : i \in {j \in DOMAIN queue : queue[j][1] = k}}

Init ==
    /\ view = [k \in Keys |-> NotFound]
    /\ queue = <<>>
    /\ safe = [k \in Keys |-> NotFound]

Write(k, v) ==
    /\ queue' = Append(queue, <<k, v>>)
    /\ view' = [view EXCEPT ![k] = v]
    /\ safe' = safe

Log ==
    /\ queue # <<>>
    /\ queue' = Tail(queue)
    /\ safe' = [safe EXCEPT ![queue[1][1]] = queue[1][2]]
    /\ view' = view

Crash ==
    /\ queue' = <<>>
    /\ safe' \in [Keys -> Visible]
    /\ \A k \in Keys : safe'[k] \in Admissible(k)
    /\ view' = safe'

Next == Log \/ Crash \/ \E k \in Keys, v \in Visible : Write(k, v)

Spec == Init /\ [][Next]_vars
=============================================================================
