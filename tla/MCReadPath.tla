----------------------------- MODULE MCReadPath -----------------------------
(* TLC instances of ReadPath.                                              *)
EXTENDS ReadPath, TLC

ReadSymmetry == Permutations(Readers) \union Permutations(Values)
=============================================================================
