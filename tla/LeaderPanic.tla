---------------------------- MODULE LeaderPanic ----------------------------
(***************************************************************************)
(* GroupCommit with a group-commit leader that panics inside commit_batch, *)
(* in the memtable flush a rotation runs.  The unwind poisons the file     *)
(* mutex and flush_lock, then LeaderGuard::drop (src/src/storage/wal.rs)   *)
(* releases every waiter in two critical sections: the group mutex, then   *)
(* the commit signal.  The release profile aborts on panic; this is the    *)
(* behaviour of every build that unwinds (dev, test, embedding).           *)
(***************************************************************************)
EXTENDS GroupCommit

VARIABLE highest_issued  \* LeaderGuard::drop's local, kept between its locks

panicVars == <<vars, highest_issued>>

PanicInit == Init /\ highest_issued = [w \in Writers |-> 0]

MutLoseParked(w) ==
    /\ pc[w] \in {"pre_flush", "rot_flush"} /\ Fault
    /\ poisoned' = TRUE /\ leader_active' = FALSE /\ pending' = <<>>
    /\ parked' = {} /\ parked_top' = 0
    /\ highest_issued' = [highest_issued EXCEPT ![w] = next_ticket - 1]
    /\ Goto(w, "unwind")
    /\ UNCHANGED <<procVars, split, leads, ticket, batch, committed, failed,
                   next_ticket, signalVars, seg, synced, header,
                   record_counter, mem, sst, mem_top, sst_top, barrierVars>>

\* First half of the drop: give up leadership and discard the queue.  A panic
\* counts as a fault.
PanicClearQueue(w) ==
    /\ pc[w] \in {"pre_flush", "rot_flush"} /\ Fault
    /\ poisoned' = TRUE
    /\ leader_active' = FALSE
    /\ pending' = <<>>
    /\ highest_issued' = [highest_issued EXCEPT ![w] = next_ticket - 1]
    /\ Goto(w, "unwind")
    /\ UNCHANGED <<procVars, split, leads, ticket, batch, committed, failed,
                   next_ticket, signalVars, seg, synced, header,
                   record_counter, dataVars, barrierVars>>

MutReleaseNobody(w) ==
    /\ pc[w] = "unwind"
    /\ failed_from' = IF failed_from = 0 THEN batch[w][1] ELSE failed_from
    /\ batch' = [batch EXCEPT ![w] = <<>>]
    /\ Return(w)
    /\ UNCHANGED <<procVars, split, leads, ticket, committed, failed,
                   groupVars, completed, leader_vacant, fileVars, dataVars,
                   histVars, highest_issued>>

\* Second half: the in-flight batch and the discarded queue fail, unless a
\* failure is already recorded, and every waiter is released.  The unwind
\* then drops the thread's barrier guard.
PanicSignal(w) ==
    /\ pc[w] = "unwind"
    /\ failed_from' = IF failed_from = 0 THEN batch[w][1] ELSE failed_from
    /\ completed' = Larger(completed, highest_issued[w])
    /\ batch' = [batch EXCEPT ![w] = <<>>]
    /\ Return(w)
    /\ UNCHANGED <<procVars, split, leads, ticket, committed, failed,
                   groupVars, leader_vacant, fileVars, dataVars, histVars,
                   highest_issued>>

PanicStep(w) == PanicClearQueue(w) \/ PanicSignal(w)

PanicNext ==
    \/ Next /\ UNCHANGED highest_issued
    \/ \E w \in Writers : PanicStep(w)

PanicSpec ==
    /\ PanicInit /\ [][PanicNext]_panicVars
    /\ \A w \in Writers :
          /\ WF_panicVars(WriterStep(w) /\ UNCHANGED highest_issued)
          /\ WF_panicVars(PanicSignal(w))

=============================================================================
