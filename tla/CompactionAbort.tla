-------------------------- MODULE CompactionAbort --------------------------
(***************************************************************************)
(* SstStore with compaction commits that fail after their rename: at a     *)
(* directory fsync, an unlink or the reload.  The call returns an error,   *)
(* flush_lock is released and the published reader list is left as it was, *)
(* while the directory already holds the output and has perhaps lost some  *)
(* inputs (compact_ssts and compact_partial, src/src/storage/engine.rs).   *)
(***************************************************************************)
EXTENDS SstStore, TLC

\* A step of the commit after the rename fails.
CommitFault ==
    /\ comp.at \in CommitPcs /\ faults < MaxFaults
    /\ faults' = faults + 1
    /\ comp' = NoComp
    /\ UNCHANGED <<layerVars, fileVars, flush, rotation, histVars, writes,
                   crashes>>

AbortNext == Next \/ CommitFault

AbortSpec == Init /\ [][AbortNext]_vars

AbortSymmetry == Permutations(Keys) \union Permutations(Values)
=============================================================================
