----------------------------- MODULE MCSstStore -----------------------------
(* TLC instances of SstStore.                                              *)
EXTENDS SstStore, TLC

StoreSymmetry == Permutations(Keys) \union Permutations(Values)
=============================================================================
