----------------------------- MODULE DurableLog -----------------------------
(***************************************************************************)
(* What the write-ahead log promises its callers, whatever its threads,    *)
(* its disk and its crashes do: a write is acknowledged only once it is    *)
(* durable, and what is durable stays durable (the durability guarantee in *)
(* the comment of Wal::append_with_pre_rotate, src/src/storage/wal.rs).    *)
(***************************************************************************)
VARIABLES durable, acked

Init == durable = {} /\ acked = {}

\* Writes reach stable storage, in any number; none leaves it.
Persist == durable \subseteq durable' /\ acked' = acked

\* One durable write is reported to its caller.
Ack ==
    /\ \E i \in durable : acked' = acked \union {i}
    /\ durable' = durable

Next == Persist \/ Ack

Spec == Init /\ [][Next]_<<durable, acked>>
=============================================================================
