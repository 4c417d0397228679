----------------------- MODULE MCClusterStateMachine -----------------------
(* Instances of ClusterStateMachine for TLC. *)
EXTENDS ClusterStateMachine, TLC

CONSTANTS v1, v2

MCValue == {v1, v2}

Put(key, value) ==
    [op |-> "write", puts |-> <<Row(key, value)>>, deletes |-> <<>>]

Delete(key) == [op |-> "write", puts |-> <<>>, deletes |-> <<key>>]

PutIfAbsent(key, value) ==
    [op |-> "put_if_absent", key |-> key, value |-> value]

Increment == [op |-> "increment", key |-> Counter]

Blank == [op |-> "blank"]

(* Everything that may happen to a counter, and to a plain key. *)
MCCommand ==
    {Increment, Put(Counter, Bad), Delete(Counter), PutIfAbsent(Counter, 7),
     Put(Plain, v1), PutIfAbsent(Plain, v2), Delete(Plain), Blank}

Symmetry == Permutations(Node)

=============================================================================
