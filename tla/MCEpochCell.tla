---------------------------- MODULE MCEpochCell ----------------------------
(* Instances of EpochCell for TLC. *)
EXTENDS EpochCell, TLC

Symmetry == Permutations(Thread) \union Permutations(Addr)

=============================================================================
