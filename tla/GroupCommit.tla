---------------------------- MODULE GroupCommit ----------------------------
(***************************************************************************)
(* The write path of the storage engine: looping-leader group commit over  *)
(* one encrypted WAL segment (src/src/storage/wal.rs), the memtable apply  *)
(* that happens inside the enqueue, the rotation that flushes the memtable *)
(* and truncates the segment, the write fence, the backup barrier every    *)
(* mutating call takes (src/src/storage/engine.rs), and crash recovery.    *)
(*                                                                         *)
(* Every record is one id: the position of its enqueue in the history of   *)
(* the data directory.  Inside one process life the code numbers records   *)
(* with tickets 1, 2, ...; the id of ticket t is base + t.  What a record  *)
(* holds is left out, but for one key that every write sets, of which each *)
(* layer shows the write applied last; modules ReadPath and SstStore are   *)
(* about values.                                                           *)
(***************************************************************************)
EXTENDS Naturals, Sequences, FiniteSets

CONSTANTS
    Writers,           \* threads that call the engine's mutating operations
    MaxLeaderBatches,  \* MAX_LEADER_BATCHES (16 in the code)
    SegmentCap,        \* WalConfig::max_size, counted in records
    MaxWrites,         \* bound: write operations started
    MaxFaults,         \* bound: I/O faults
    MaxCrashes,        \* bound: process or machine crashes
    MaxExports         \* bound: backup exports

ASSUME ConstantsAssumption ==
    /\ Writers # {}
    /\ MaxLeaderBatches \in Nat \ {0}
    /\ {SegmentCap, MaxWrites, MaxFaults, MaxCrashes, MaxExports} \subseteq Nat

VARIABLES
    proc,            \* "up", "down" after a crash, "refused" when open failed
    \* --- per-thread control and locals
    pc,              \* where each writer is
    split,           \* it uses enqueue_batch + await_batch_durable
    leads,           \* am_leader of its durability handle
    ticket,          \* its ticket
    batch,           \* tickets drained into its current commit batch
    committed,       \* batches committed in this lead_group_commit call
    failed,          \* commit_result of the current batch is an error
    \* --- GroupState (one mutex)
    pending, leader_active, next_ticket,
    \* --- CommitSignal (one mutex); failed_from = 0 is None
    completed, failed_from, leader_vacant,
    \* --- Wal::fenced
    fenced,
    \* --- the segment file, RotationState and the file mutex
    seg,             \* records in the file, in order
    synced,          \* how many of them the last fsync covered
    header,          \* "ok", or "stub" after a torn rotation header
    record_counter,
    poisoned,        \* a leader panicked while it held the file mutex
    \* --- where the applied ids live
    mem, parked, sst,
    \* --- the write each layer shows of a key that every write sets; 0: none
    mem_top, parked_top, sst_top,
    \* --- backup barrier
    readers, exporter,
    \* --- history and bounds
    base, acked, begun, faults, crashes, exports

localVars   == <<pc, split, leads, ticket, batch, committed, failed>>
groupVars   == <<pending, leader_active, next_ticket>>
signalVars  == <<completed, failed_from, leader_vacant>>
fileVars    == <<seg, synced, header, record_counter, poisoned>>
topVars     == <<mem_top, parked_top, sst_top>>
dataVars    == <<mem, parked, sst, topVars>>
barrierVars == <<readers, exporter>>
procVars    == <<proc, fenced>>
histVars    == <<base, acked, begun, faults, crashes, exports>>
vars == <<procVars, localVars, groupVars, signalVars, fileVars, dataVars,
          barrierVars, histVars>>

FlushPcs  == {"pre_flush", "rot_flush", "ret_flush"}
LeaderPcs == {"lead", "pre_rotate", "pre_flush", "rotate", "rot_flush",
              "truncate", "header", "write", "sync", "publish"}
CommitPcs == LeaderPcs \ {"lead"}
Pcs == LeaderPcs \union {"idle", "entered", "enqueue", "handle", "announce",
                         "wait", "claim", "return", "ret_flush"}

Record == [num : Nat, id : Nat, whole : BOOLEAN]

-----------------------------------------------------------------------------
(* What recovery makes of a segment.                                       *)

\* Record i authenticates at its position: replay derives nonce and AAD from
\* a counter that starts at zero and advances one per record.
Good(s, i) == s[i].whole /\ s[i].num + 1 = i

\* The first n records all authenticate.
GoodPrefix(s, n) == \A j \in 1..n : Good(s, j)

\* The ids scan_records returns from the first n records: it stops at the
\* first one that is torn.
Replayed(s, n) == {s[i].id : i \in {k \in 1..n : GoodPrefix(s, k)}}

\* scan_records refuses the segment: the first bad record is whole (its AEAD
\* open fails), or a torn one that a whole record follows (probe_survivors).
ScanRefuses(s) ==
    \E i \in 1..Len(s) :
        /\ GoodPrefix(s, i - 1)
        /\ ~ Good(s, i)
        /\ \/ s[i].whole
           \/ \E j \in (i + 1)..Len(s) : s[j].whole

\* Wal::open_with_fs fails: a stub header alone is repaired, a stub header
\* with records behind it is not.
OpenRefuses(h, s) == IF h = "stub" THEN s # <<>> ELSE ScanRefuses(s)

\* What the disk gives back if the machine stops now.
OnDisk(h, s, n) == IF h = "ok" THEN Replayed(s, n) ELSE {}
Durable == sst \union OnDisk(header, seg, synced)

Records(from, tickets, n) ==
    [i \in 1..n |-> [num |-> from + i - 1, id |-> base + tickets[i],
                     whole |-> TRUE]]

Torn == [num |-> 0, id |-> 0, whole |-> FALSE]

-----------------------------------------------------------------------------
Init ==
    /\ proc = "up"
    /\ pc = [w \in Writers |-> "idle"]
    /\ split = [w \in Writers |-> FALSE]
    /\ leads = [w \in Writers |-> FALSE]
    /\ ticket = [w \in Writers |-> 0]
    /\ batch = [w \in Writers |-> <<>>]
    /\ committed = [w \in Writers |-> 0]
    /\ failed = [w \in Writers |-> FALSE]
    /\ pending = <<>> /\ leader_active = FALSE /\ next_ticket = 1
    /\ completed = 0 /\ failed_from = 0 /\ leader_vacant = FALSE
    /\ fenced = FALSE
    /\ seg = <<>> /\ synced = 0 /\ header = "ok"
    /\ record_counter = 0 /\ poisoned = FALSE
    /\ mem = {} /\ parked = {} /\ sst = {}
    /\ mem_top = 0 /\ parked_top = 0 /\ sst_top = 0
    /\ readers = {} /\ exporter = "idle"
    /\ base = 0 /\ acked = {}
    /\ begun = 0 /\ faults = 0 /\ crashes = 0 /\ exports = 0

Goto(w, l) == pc' = [pc EXCEPT ![w] = l]
Return(w) == Goto(w, "idle") /\ readers' = readers \ {w} /\ UNCHANGED exporter

\* RwLock::read on the backup barrier: the futex lock of the standard library
\* admits no new reader while a writer holds it or waits for it.
EnterBarrier(w) ==
    /\ exporter = "idle"
    /\ readers' = readers \union {w}
    /\ UNCHANGED exporter

\* put, delete, put_batch, write_batch (not split) or enqueue_batch (split).
BeginWrite(w) ==
    /\ proc = "up" /\ pc[w] = "idle" /\ begun < MaxWrites
    /\ EnterBarrier(w)
    /\ Goto(w, "entered")
    /\ \E s \in BOOLEAN : split' = [split EXCEPT ![w] = s]
    /\ begun' = begun + 1
    /\ UNCHANGED <<leads, ticket, batch, committed, failed, groupVars,
                   signalVars, procVars, fileVars, dataVars, base, acked,
                   faults, crashes, exports>>

\* The only test of the fence: before the enqueue, under no lock.
CheckFence(w) ==
    /\ pc[w] = "entered"
    /\ IF fenced THEN Return(w)
       ELSE Goto(w, "enqueue") /\ UNCHANGED barrierVars
    /\ UNCHANGED <<split, leads, ticket, batch, committed, failed, groupVars,
                   signalVars, procVars, fileVars, dataVars, histVars>>

\* pending.push_back.
MutPushFront(q, t) == <<t>> \o q
PushSlot(q, t) == Append(q, t)

\* Variant: applied outside the critical section, an older write may land last.
MutApplyUnlocked ==
    /\ mem' = mem \union {base + next_ticket}
    /\ mem_top' \in {mem_top, base + next_ticket} \ {0}

\* The closure a write hands to enqueue_slot: it enters the active map, and a
\* key it sets shows its value.
Apply ==
    /\ mem' = mem \union {base + next_ticket}
    /\ mem_top' = base + next_ticket

\* enqueue_slot: apply, ticket, push, leader election, in one critical section.
\* enqueue_batch then drops the barrier and returns a handle.
EnqueueSlot(w) ==
    /\ pc[w] = "enqueue"
    /\ Apply
    /\ ticket' = [ticket EXCEPT ![w] = next_ticket]
    /\ next_ticket' = next_ticket + 1
    /\ pending' = PushSlot(pending, next_ticket)
    /\ leads' = [leads EXCEPT ![w] = ~ leader_active]
    /\ leader_active' = TRUE
    /\ committed' = [committed EXCEPT ![w] = 0]
    /\ IF split[w]
       THEN Goto(w, "handle") /\ readers' = readers \ {w} /\ UNCHANGED exporter
       ELSE /\ Goto(w, IF leader_active THEN "wait" ELSE "lead")
            /\ UNCHANGED barrierVars
    /\ UNCHANGED <<split, batch, failed, signalVars, procVars, fileVars, parked,
                   sst, parked_top, sst_top, histVars>>

\* await_batch_durable takes the barrier again before it leads or waits.
AwaitBatchDurable(w) ==
    /\ pc[w] = "handle"
    /\ EnterBarrier(w)
    /\ Goto(w, IF leads[w] THEN "lead" ELSE "wait")
    /\ UNCHANGED <<split, leads, ticket, batch, committed, failed, groupVars,
                   signalVars, procVars, fileVars, dataVars, histVars>>

-----------------------------------------------------------------------------
(* lead_group_commit                                                       *)

\* The queue is empty: leadership ends.
LeadExit(w) ==
    /\ pc[w] = "lead" /\ pending = <<>>
    /\ leader_active' = FALSE
    /\ Goto(w, "wait")
    /\ UNCHANGED <<split, leads, ticket, batch, committed, failed, pending,
                   next_ticket, signalVars, procVars, fileVars, dataVars,
                   barrierVars, histVars>>

\* The leader has committed its share: it steps down with writers queued.
LeadStepDown(w) ==
    /\ pc[w] = "lead" /\ pending # <<>> /\ committed[w] >= MaxLeaderBatches
    /\ leader_active' = FALSE
    /\ Goto(w, "announce")
    /\ UNCHANGED <<split, leads, ticket, batch, committed, failed, pending,
                   next_ticket, signalVars, procVars, fileVars, dataVars,
                   barrierVars, histVars>>

MutSilentStepDown(w) ==
    /\ pc[w] = "announce"
    /\ Goto(w, "wait")
    /\ UNCHANGED <<split, leads, ticket, batch, committed, failed, groupVars,
                   signalVars, procVars, fileVars, dataVars, barrierVars,
                   histVars>>
AnnounceVacancy(w) ==
    /\ pc[w] = "announce"
    /\ leader_vacant' = TRUE
    /\ Goto(w, "wait")
    /\ UNCHANGED <<split, leads, ticket, batch, committed, failed, groupVars,
                   completed, failed_from, procVars, fileVars, dataVars,
                   barrierVars, histVars>>

\* Where commit_batch goes: nowhere when the file mutex is poisoned; to a
\* rotation when the batch overflows the segment (the leader's own pre_rotate
\* closure runs only on its first batch); otherwise straight to the write.
MutRotateUnflushed(w) ==
    IF Len(seg) + Len(pending) > SegmentCap THEN "truncate" ELSE "write"
CommitEntry(w) ==
    IF poisoned THEN "publish"
    ELSE IF Len(seg) + Len(pending) <= SegmentCap THEN "write"
    ELSE IF committed[w] = 0 THEN "pre_rotate" ELSE "rotate"

LeadDrain(w) ==
    /\ pc[w] = "lead" /\ pending # <<>> /\ committed[w] < MaxLeaderBatches
    /\ batch' = [batch EXCEPT ![w] = pending]
    /\ pending' = <<>>
    /\ failed' = [failed EXCEPT ![w] = poisoned]
    /\ Goto(w, CommitEntry(w))
    /\ UNCHANGED <<split, leads, ticket, committed, leader_active,
                   next_ticket, signalVars, procVars, fileVars, dataVars,
                   barrierVars, histVars>>

-----------------------------------------------------------------------------
(* Memtable flush, as seen from the WAL: the swap, then the SST.           *)

FlushStart == [pre_rotate |-> "pre_flush", rotate |-> "rot_flush",
               return |-> "ret_flush"]
FlushThen  == [pre_flush |-> "rotate", rot_flush |-> "truncate"]

\* What two layers show, the upper one first.
Over(upper, lower) == IF upper # 0 THEN upper ELSE lower

\* flush_lock is free and not poisoned; the full map is parked.
FlushSwap(w) ==
    /\ pc[w] \in {"pre_rotate", "rotate", "return"}
    /\ ~ poisoned
    /\ \A v \in Writers : pc[v] \notin FlushPcs
    /\ parked' = mem /\ mem' = {}
    /\ parked_top' = mem_top /\ mem_top' = 0
    /\ Goto(w, FlushStart[pc[w]])
    /\ UNCHANGED <<split, leads, ticket, batch, committed, failed, groupVars,
                   signalVars, procVars, fileVars, sst, sst_top, barrierVars,
                   histVars>>

FlushDone(w) ==
    /\ pc[w] \in FlushPcs
    /\ sst' = sst \union parked /\ parked' = {}
    /\ sst_top' = Over(parked_top, sst_top) /\ parked_top' = 0
    /\ IF pc[w] = "ret_flush" THEN Return(w)
       ELSE Goto(w, FlushThen[pc[w]]) /\ UNCHANGED barrierVars
    /\ UNCHANGED <<split, leads, ticket, batch, committed, failed, groupVars,
                   signalVars, procVars, fileVars, mem, mem_top, histVars>>

Fault == faults < MaxFaults /\ faults' = faults + 1
         /\ UNCHANGED <<base, acked, begun, crashes, exports>>

\* Memtable::reabsorb: the parked entries go back into the active map.
MutDropParked(active, unflushed) == active
Reabsorb(active, unflushed) == active \union unflushed

\* The SST write fails: the parked map is folded back under the active one,
\* nothing is truncated.
FlushFault(w) ==
    /\ pc[w] \in FlushPcs /\ Fault
    /\ mem' = Reabsorb(mem, parked) /\ parked' = {}
    /\ mem_top' = Over(mem_top, parked_top) /\ parked_top' = 0
    /\ IF pc[w] = "ret_flush"
       THEN Return(w) /\ UNCHANGED failed
       ELSE /\ Goto(w, "publish") /\ failed' = [failed EXCEPT ![w] = TRUE]
            /\ UNCHANGED barrierVars
    /\ UNCHANGED <<split, leads, ticket, batch, committed, groupVars,
                   signalVars, procVars, fileVars, sst, sst_top>>

\* The acknowledged operation finds the memtable below its threshold, or
\* finds flush_lock poisoned and returns that error.
ReturnUnflushed(w) ==
    /\ pc[w] = "return"
    /\ Return(w)
    /\ UNCHANGED <<split, leads, ticket, batch, committed, failed, groupVars,
                   signalVars, procVars, fileVars, dataVars, histVars>>

-----------------------------------------------------------------------------
(* commit_batch                                                            *)

\* rotate_locked past the flush: set_len(0).  A crash before the next sync may
\* also leave the old segment, as one before this step does.
RotateTruncate(w) ==
    /\ pc[w] = "truncate"
    /\ seg' = <<>> /\ synced' = 0 /\ header' = "stub"
    /\ Goto(w, "header")
    /\ UNCHANGED <<split, leads, ticket, batch, committed, failed, groupVars,
                   signalVars, procVars, record_counter, poisoned, dataVars,
                   barrierVars, histVars>>

\* Variant: the new segment goes on with the old record numbers.
MutKeepCounter(w) ==
    /\ pc[w] = "header"
    /\ header' = "ok"
    /\ Goto(w, "write")
    /\ UNCHANGED <<split, leads, ticket, batch, committed, failed, groupVars,
                   signalVars, procVars, seg, synced, record_counter, poisoned,
                   dataVars, barrierVars, histVars>>

\* Then a fresh header, written and synced; the DEK is swapped and the counter
\* reset.
RotateHeader(w) ==
    /\ pc[w] = "header"
    /\ header' = "ok" /\ record_counter' = 0
    /\ Goto(w, "write")
    /\ UNCHANGED <<split, leads, ticket, batch, committed, failed, groupVars,
                   signalVars, procVars, seg, synced, poisoned, dataVars,
                   barrierVars, histVars>>

Fail(w) == Goto(w, "publish") /\ failed' = [failed EXCEPT ![w] = TRUE]

\* Either step fails: the segment stays as the failed call left it, perhaps a
\* stub, the counter is the old one, and the fence is up at once.
RotateFault(w) ==
    /\ pc[w] \in {"truncate", "header"} /\ Fault
    /\ fenced' = TRUE /\ UNCHANGED proc
    /\ Fail(w)
    /\ UNCHANGED <<split, leads, ticket, batch, committed, groupVars,
                   signalVars, fileVars, dataVars, barrierVars>>

\* Record numbers are reserved, then one write_all carries the batch.
CommitWrite(w) ==
    /\ pc[w] = "write"
    /\ seg' = seg \o Records(record_counter, batch[w], Len(batch[w]))
    /\ record_counter' = record_counter + Len(batch[w])
    /\ Goto(w, "sync")
    /\ UNCHANGED <<split, leads, ticket, batch, committed, failed, groupVars,
                   signalVars, procVars, synced, header, poisoned, dataVars,
                   barrierVars, histVars>>

\* write_all fails part way: some records, perhaps a torn one, and every
\* record number of the batch is spent all the same.
CommitWriteFault(w) ==
    /\ pc[w] = "write" /\ Fault
    /\ \E k \in 0..(Len(batch[w]) - 1), torn \in BOOLEAN :
          seg' = seg \o Records(record_counter, batch[w], k)
                     \o (IF torn THEN <<Torn>> ELSE <<>>)
    /\ record_counter' = record_counter + Len(batch[w])
    /\ Fail(w)
    /\ UNCHANGED <<split, leads, ticket, batch, committed, groupVars,
                   signalVars, procVars, synced, header, poisoned, dataVars,
                   barrierVars>>

\* sync_data covers every byte written so far.
CommitSync(w) ==
    /\ pc[w] = "sync"
    /\ synced' = Len(seg)
    /\ Goto(w, "publish")
    /\ UNCHANGED <<split, leads, ticket, batch, committed, failed, groupVars,
                   signalVars, procVars, seg, header, record_counter, poisoned,
                   dataVars, barrierVars, histVars>>

CommitSyncFault(w) ==
    /\ pc[w] = "sync" /\ Fault
    /\ Fail(w)
    /\ UNCHANGED <<split, leads, ticket, batch, committed, groupVars,
                   signalVars, procVars, fileVars, dataVars, barrierVars>>

Larger(a, b) == IF a < b THEN b ELSE a

\* The first failure is recorded and covers every later ticket.
MutFailOneEarlier(w) ==
    IF failed[w] /\ failed_from = 0 THEN batch[w][1] - 1 ELSE failed_from
FailedFrom(w) ==
    IF failed[w] /\ failed_from = 0 THEN batch[w][1] ELSE failed_from

\* Fence on failure, publish the watermark once for the batch, loop.
CommitPublish(w) ==
    /\ pc[w] = "publish"
    /\ fenced' = (fenced \/ failed[w]) /\ UNCHANGED proc
    /\ failed_from' = FailedFrom(w)
    /\ completed' = Larger(completed, batch[w][Len(batch[w])])
    /\ committed' = [committed EXCEPT ![w] = @ + 1]
    /\ batch' = [batch EXCEPT ![w] = <<>>]
    /\ failed' = [failed EXCEPT ![w] = FALSE]
    /\ Goto(w, "lead")
    /\ UNCHANGED <<split, leads, ticket, groupVars, leader_vacant, fileVars,
                   dataVars, barrierVars, histVars>>

-----------------------------------------------------------------------------
(* await_ticket_or_lead                                                    *)

MutFailStrictlyAfter(t) == failed_from # 0 /\ t > failed_from
TicketFailed(t) == failed_from # 0 /\ t >= failed_from

\* The watermark covers the ticket: report its outcome.
AwaitOutcome(w) ==
    /\ pc[w] = "wait" /\ completed >= ticket[w]
    /\ IF TicketFailed(ticket[w])
       THEN Return(w) /\ UNCHANGED acked
       ELSE /\ Goto(w, "return") /\ UNCHANGED barrierVars
            /\ acked' = acked \union {base + ticket[w]}
    /\ UNCHANGED <<split, leads, ticket, batch, committed, failed, groupVars,
                   signalVars, procVars, fileVars, dataVars, base, begun,
                   faults, crashes, exports>>

\* Leadership is vacant: consume the announcement, then try to claim it.
AwaitVacancy(w) ==
    /\ pc[w] = "wait" /\ completed < ticket[w] /\ leader_vacant
    /\ leader_vacant' = FALSE
    /\ Goto(w, "claim")
    /\ UNCHANGED <<split, leads, ticket, batch, committed, failed, groupVars,
                   completed, failed_from, procVars, fileVars, dataVars,
                   barrierVars, histVars>>

\* An enqueuer took the post first, or the queue was drained meanwhile.
MutClaimLost == pending = <<>>
ClaimLost == leader_active \/ pending = <<>>

ClaimLeadership(w) ==
    /\ pc[w] = "claim"
    /\ IF ClaimLost
       THEN Goto(w, "wait") /\ UNCHANGED <<leader_active, committed>>
       ELSE /\ Goto(w, "lead") /\ leader_active' = TRUE
            /\ committed' = [committed EXCEPT ![w] = 0]
    /\ UNCHANGED <<split, leads, ticket, batch, failed, pending, next_ticket,
                   signalVars, procVars, fileVars, dataVars, barrierVars,
                   histVars>>

-----------------------------------------------------------------------------
(* A backup export holds the barrier exclusively over its read pass.       *)

ExportRequest ==
    /\ proc = "up" /\ exporter = "idle" /\ exports < MaxExports
    /\ exporter' = "waiting" /\ exports' = exports + 1
    /\ UNCHANGED <<localVars, groupVars, signalVars, procVars, fileVars,
                   dataVars, readers, base, acked, begun, faults, crashes>>

MutAcquireOverReaders ==
    /\ exporter = "waiting"
    /\ exporter' = "reading"
    /\ UNCHANGED <<localVars, groupVars, signalVars, procVars, fileVars,
                   dataVars, readers, histVars>>
ExportAcquire ==
    /\ exporter = "waiting" /\ readers = {}
    /\ exporter' = "reading"
    /\ UNCHANGED <<localVars, groupVars, signalVars, procVars, fileVars,
                   dataVars, readers, histVars>>

ExportRelease ==
    /\ exporter = "reading"
    /\ exporter' = "idle"
    /\ UNCHANGED <<localVars, groupVars, signalVars, procVars, fileVars,
                   dataVars, readers, histVars>>

-----------------------------------------------------------------------------
(* Crash and restart.                                                      *)

\* Everything volatile is gone.  Records past the last sync survive as a
\* prefix, the last of them perhaps torn.
Crash ==
    /\ proc = "up" /\ proc' = "down"
    /\ crashes < MaxCrashes /\ crashes' = crashes + 1
    /\ \E n \in synced..Len(seg), torn \in BOOLEAN :
          seg' = SubSeq(seg, 1, n)
                 \o (IF torn /\ n < Len(seg) THEN <<Torn>> ELSE <<>>)
    /\ pc' = [w \in Writers |-> "idle"]
    /\ batch' = [w \in Writers |-> <<>>]
    /\ failed' = [w \in Writers |-> FALSE]
    /\ pending' = <<>> /\ leader_active' = FALSE
    /\ completed' = 0 /\ failed_from' = 0 /\ leader_vacant' = FALSE
    /\ next_ticket' = 1 /\ base' = base + next_ticket - 1
    /\ fenced' = FALSE /\ poisoned' = FALSE
    /\ mem' = {} /\ parked' = {} /\ mem_top' = 0 /\ parked_top' = 0
    /\ readers' = {} /\ exporter' = "idle"
    /\ UNCHANGED <<split, leads, ticket, committed, synced, header,
                   record_counter, sst, sst_top, acked, begun, faults,
                   exports>>

\* The open gives up and leaves the segment as it is.
RestartRefused ==
    /\ proc = "down" /\ OpenRefuses(header, seg)
    /\ proc' = "refused"
    /\ UNCHANGED <<localVars, groupVars, signalVars, fenced, fileVars,
                   dataVars, barrierVars, histVars>>

\* Wal::open_with_fs and the replay in EmbeddedStorageEngine::open_with_fs: a
\* stub header is re-initialised, a torn tail is cut off and the rest rewritten
\* and synced, and every replayed record enters the memtable, in order.
RestartOpen ==
    /\ proc = "down" /\ ~ OpenRefuses(header, seg)
    /\ proc' = "up"
    /\ \E n \in 0..Len(seg) :
          /\ GoodPrefix(seg, n) /\ (n < Len(seg) => ~ Good(seg, n + 1))
          /\ seg' = SubSeq(seg, 1, n)
          /\ record_counter' = n
          /\ mem_top' = IF n = 0 THEN 0 ELSE seg[n].id
          /\ synced' = IF n < Len(seg) THEN n ELSE synced
    /\ header' = "ok"
    /\ mem' = OnDisk(header, seg, Len(seg))
    /\ UNCHANGED <<localVars, groupVars, signalVars, fenced, poisoned, parked,
                   sst, parked_top, sst_top, barrierVars, histVars>>

-----------------------------------------------------------------------------
\* The steps a scheduled thread takes by itself.
WriterStep(w) ==
    \/ CheckFence(w) \/ EnqueueSlot(w) \/ AwaitBatchDurable(w)
    \/ LeadExit(w) \/ LeadStepDown(w) \/ AnnounceVacancy(w) \/ LeadDrain(w)
    \/ FlushSwap(w) \/ FlushDone(w) \/ ReturnUnflushed(w)
    \/ RotateTruncate(w) \/ RotateHeader(w)
    \/ CommitWrite(w) \/ CommitSync(w) \/ CommitPublish(w)
    \/ AwaitOutcome(w) \/ AwaitVacancy(w) \/ ClaimLeadership(w)

FaultStep(w) ==
    \/ FlushFault(w) \/ RotateFault(w) \/ CommitWriteFault(w)
    \/ CommitSyncFault(w)

\* Not a step of the program: the bounds are spent and nobody is in a call, or
\* the directory cannot be opened.  TLC reports any other stop as a deadlock.
Quiescent ==
    /\ \/ proc = "refused"
       \/ /\ proc = "up" /\ begun = MaxWrites
          /\ \A w \in Writers : pc[w] = "idle"
    /\ UNCHANGED vars

Next ==
    \/ \E w \in Writers : BeginWrite(w) \/ WriterStep(w) \/ FaultStep(w)
    \/ ExportRequest \/ ExportAcquire \/ ExportRelease
    \/ Crash \/ RestartRefused \/ RestartOpen
    \/ Quiescent

Spec == Init /\ [][Next]_vars

\* A runnable thread is eventually scheduled; the export's pass terminates.
Fairness ==
    /\ \A w \in Writers : WF_vars(WriterStep(w))
    /\ WF_vars(ExportAcquire) /\ WF_vars(ExportRelease)

FairSpec == Spec /\ Fairness

-----------------------------------------------------------------------------
(* Properties                                                              *)

TypeOK ==
    /\ proc \in {"up", "down", "refused"}
    /\ pc \in [Writers -> Pcs]
    /\ split \in [Writers -> BOOLEAN] /\ leads \in [Writers -> BOOLEAN]
    /\ ticket \in [Writers -> Nat] /\ batch \in [Writers -> Seq(Nat)]
    /\ committed \in [Writers -> Nat] /\ failed \in [Writers -> BOOLEAN]
    /\ pending \in Seq(Nat) /\ leader_active \in BOOLEAN
    /\ next_ticket \in Nat \ {0}
    /\ completed \in Nat /\ failed_from \in Nat /\ leader_vacant \in BOOLEAN
    /\ fenced \in BOOLEAN
    /\ seg \in Seq(Record) /\ synced \in 0..Len(seg)
    /\ header \in {"ok", "stub"} /\ record_counter \in Nat
    /\ poisoned \in BOOLEAN
    /\ mem \subseteq Nat /\ parked \subseteq Nat /\ sst \subseteq Nat
    /\ mem_top \in Nat /\ parked_top \in Nat /\ sst_top \in Nat
    /\ readers \subseteq Writers
    /\ exporter \in {"idle", "waiting", "reading"}
    /\ base \in Nat /\ acked \subseteq Nat
    /\ begun \in Nat /\ faults \in Nat /\ crashes \in Nat /\ exports \in Nat

\* A write whose caller was told Ok survives a crash at any moment: it is in
\* an SST, or in the synced part of the segment where replay reaches it.
\* (append_applying: "no writer returns Ok until a sync_data that covered its
\* bytes has completed"; commit faults, rotations and hand-offs included.)
AckedDurable == acked \subseteq Durable

\* An acknowledged write is visible to readers, and so to the next rotation's
\* flush, after any restart: a durable record is never missing from the
\* memtable layers (append_applying, "A durable record is never missing").
AckedReadable == proc = "up" => acked \subseteq mem \union parked \union sst

\* A key that every write sets never shows less than its newest acknowledged
\* write, in the process that acknowledged it or after any crash and replay:
\* the memtable takes writes in the order of their records, and a layer below
\* never covers a newer one above it (enqueue_slot, flush_streaming, reabsorb,
\* the rotation flush, replay).
AckedShown ==
    proc = "up" =>
        \A id \in acked : id <= Over(mem_top, Over(parked_top, sst_top))

\* Records lie in the segment in the order their writes were applied to the
\* memtable, so replay ends in the state readers saw (audit M1).
WalOrder ==
    \A i, j \in 1..Len(seg) :
        i < j /\ seg[i].whole /\ seg[j].whole => seg[i].id < seg[j].id

\* A writer leads from the moment it wins the election until it steps down,
\* also while it holds only the durability handle.
IsLeader(w) == pc[w] \in LeaderPcs \/ (pc[w] = "handle" /\ leads[w])

\* At most one thread drains, writes and truncates the segment.
OneLeader ==
    /\ \A v, w \in Writers : IsLeader(v) /\ IsLeader(w) => v = w
    /\ (\E w \in Writers : IsLeader(w)) => leader_active

\* No ticket is queued that nobody will commit: there is a leader, or a
\* vacancy that is announced, about to be announced or being claimed.
QueueAttended ==
    proc = "up" /\ pending # <<>> =>
        \/ leader_vacant
        \/ \E w \in Writers : IsLeader(w) \/ pc[w] \in {"announce", "claim"}

\* While an export reads, no write changes what it can read (HEA-2167).
ExportIsolated ==
    [][exporter = "reading" /\ exporter' = "reading"
       => (mem \union parked \union sst)' = mem \union parked \union sst]_vars

\* A published outcome never changes: a later failure does not reach back to
\* a ticket already reported durable, nor is a failed ticket ever forgiven.
VerdictStable ==
    [][proc = "up" /\ proc' = "up" =>
        \A t \in 1..completed : TicketFailed(t)' = TicketFailed(t)]_vars

\* The data directory can be opened again whenever the process stops
\* (engage_fence: "restart to clear it").
RestartOpens == ~ OpenRefuses(header, seg)

\* Without an I/O fault it always can, whatever a crash tears: record numbers
\* stay aligned with positions over rotations, restarts and appends
\* (rotate_locked, rebuild_truncated_segment, scan_records).
RestartOpensCleanly == faults = 0 => RestartOpens

\* Every write operation returns.
WriterReturns == \A w \in Writers : pc[w] # "idle" ~> pc[w] = "idle"

\* The write path implements the promise of DurableLog.
Log == INSTANCE DurableLog WITH durable <- Durable
ImplementsDurableLog == Log!Spec

=============================================================================
