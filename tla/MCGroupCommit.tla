--------------------------- MODULE MCGroupCommit ---------------------------
(* TLC instances of GroupCommit.                                           *)
EXTENDS GroupCommit, TLC

WriterSymmetry == Permutations(Writers)
=============================================================================
