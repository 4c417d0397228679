------------------------------ MODULE SstStore ------------------------------
(***************************************************************************)
(* The layers under a read: the active memtable, the map parked while a    *)
(* flush streams it out, and the list of open SST readers; the two flush   *)
(* paths (threshold flush and the WAL's pre-rotate callback), full and     *)
(* partial (size-tiered) compaction, and the recovery that rebuilds it all *)
(* from the directory and the WAL (src/src/storage/engine.rs, with         *)
(* memtable.rs and sst.rs).                                                *)
(*                                                                         *)
(* A layer maps each key to its newest entry in it.  An open reader maps   *)
(* the bytes of the file it opened, so `readers' holds contents and not    *)
(* names: unlinking or replacing the file does not change a reader.        *)
(*                                                                         *)
(* Directory operations since the last directory fsync may or may not      *)
(* survive a power loss; they survive in the order they were issued.       *)
(***************************************************************************)
EXTENDS Naturals, Sequences, FiniteSetsExt

CONSTANTS
    Keys, Values,
    Tombstone, Absent,   \* MemtableValue::Tombstone; no entry in this layer
    MergeMin,            \* CompactionConfig::merge_min and min_sst_count
    MaxWrites,           \* bound: writes applied
    MaxSst,              \* bound: SST numbers allocated
    MaxFaults,           \* bound: I/O faults
    MaxCrashes           \* bound: crashes

ASSUME LayerAssumption ==
    /\ Tombstone \notin Values /\ Absent \notin Values /\ Tombstone # Absent
    /\ MergeMin \in Nat /\ MergeMin >= 2
    /\ {MaxWrites, MaxSst, MaxFaults, MaxCrashes} \subseteq Nat

VARIABLES
    mem,          \* Memtable::data
    parked,       \* Memtable::flushing; all Absent is None
    wal,          \* newest entry of each key in the WAL segment
    disk,         \* SST number -> contents, as the directory shows it now
    crashable,    \* the directories a crash may leave
    readers,      \* the published reader list, SST number -> contents
    sst_counter,
    flush,        \* the running flush: its step, SST number and caller
    rotation,     \* the WAL leader: "no", "flush" (in the pre-rotate
                  \* callback), "truncate", or "fenced" after it failed
    comp,         \* the running compaction (compaction_lock)
    queue,        \* entries applied and not yet logged, oldest first
    safe,         \* history: visible value after each key's last logged write
    writes, faults, crashes

layerVars == <<mem, parked, wal>>
fileVars  == <<disk, crashable, readers, sst_counter>>
histVars  == <<queue, safe>>
boundVars == <<writes, faults, crashes>>
vars == <<layerVars, fileVars, flush, rotation, comp, histVars, boundVars>>

Entries == Values \union {Tombstone}
Layer   == [Keys -> Entries \union {Absent}]
Empty   == [k \in Keys |-> Absent]

\* A read treats a tombstone as the end of the search: the key is not there.
VisibleOf(e) == IF e \in Values THEN e ELSE Absent

Overlay(above, below) ==
    [k \in Keys |-> IF above[k] # Absent THEN above[k] ELSE below[k]]

\* The entry the newest file that has the key holds.
Resolve(files, k) ==
    LET hits == {n \in DOMAIN files : files[n][k] # Absent}
    IN  IF hits = {} THEN Absent ELSE files[Max(hits)][k]

Resolved(files) == [k \in Keys |-> Resolve(files, k)]

\* What EmbeddedStorageEngine::get returns for each key: the first layer that
\* has the key decides.
View ==
    [k \in Keys |-> VisibleOf(IF mem[k] # Absent THEN mem[k]
                              ELSE IF parked[k] # Absent THEN parked[k]
                              ELSE Resolve(readers, k))]

\* What the engine returns after open_with_fs on directory d.
Recovered(d) ==
    [k \in Keys |-> VisibleOf(IF wal[k] # Absent THEN wal[k]
                              ELSE Resolve(d, k))]

-----------------------------------------------------------------------------
(* Locks and file names.                                                   *)

NoFlush == [at |-> "idle", num |-> 0, rotate |-> FALSE]
NoComp  == [at |-> "idle", kind |-> "full", num |-> 0, run |-> {}, left |-> {},
            out |-> Empty]

CommitPcs == {"renamed", "unlink", "publish"}

\* flush_lock is held for a whole flush and for a compaction's commit.
FlushLockFree == flush.at = "idle" /\ comp.at \notin CommitPcs

\* A directory operation: visible at once, durable at the next sync_dir.
DirOp(d) == disk' = d /\ crashable' = crashable \union {d}
SyncDir  == crashable' = {disk} /\ disk' = disk

With(files, n, layer) ==
    [m \in DOMAIN files \union {n} |-> IF m = n THEN layer ELSE files[m]]
Without(files, S) == [m \in DOMAIN files \ S |-> files[m]]

\* load_sst_readers: every file of the directory, reusing by number the
\* readers in `unchanged'.  Every key is registered: the files that an engine
\* opened with allow_missing_keks skips are left out.
Reload(unchanged) ==
    [n \in DOMAIN disk |->
        IF n \in DOMAIN unchanged THEN unchanged[n] ELSE disk[n]]

Init ==
    /\ mem = Empty /\ parked = Empty /\ wal = Empty
    /\ disk = <<>> /\ crashable = {<<>>} /\ readers = <<>>
    /\ sst_counter = 1
    /\ flush = NoFlush /\ rotation = "no" /\ comp = NoComp
    /\ queue = <<>> /\ safe = Empty
    /\ writes = 0 /\ faults = 0 /\ crashes = 0

-----------------------------------------------------------------------------
(* Writes.                                                                 *)

\* A put or delete is applied to the memtable as it joins the commit queue.
\* A writer that passed the fence check before the fence rose still applies.
Apply(k, e) ==
    /\ writes < MaxWrites
    /\ writes' = writes + 1
    /\ mem' = [mem EXCEPT ![k] = e]
    /\ queue' = Append(queue, <<k, e>>)
    /\ UNCHANGED <<parked, wal, fileVars, flush, rotation, comp, safe,
                   faults, crashes>>

\* The leader makes the oldest queued record durable (a batch is several of
\* these); it does not while it rotates the segment, nor once fenced.
LogCommit ==
    /\ queue # <<>> /\ rotation = "no"
    /\ LET r == Head(queue)
       IN  /\ wal' = [wal EXCEPT ![r[1]] = r[2]]
           /\ safe' = [safe EXCEPT ![r[1]] = VisibleOf(r[2])]
    /\ queue' = Tail(queue)
    /\ UNCHANGED <<mem, parked, fileVars, flush, rotation, comp, boundVars>>

-----------------------------------------------------------------------------
(* Flushes.  The threshold flush and the pre-rotate callback run the same  *)
(* steps under flush_lock; the callback is followed by a truncation.       *)

RotateBegin ==
    /\ queue # <<>> /\ rotation = "no"
    /\ rotation' = "flush"
    /\ UNCHANGED <<layerVars, fileVars, flush, comp, histVars, boundVars>>

\* An empty memtable is not flushed: the callback returns at once.
RotateNothingToFlush ==
    /\ rotation = "flush" /\ FlushLockFree /\ mem = Empty
    /\ rotation' = "truncate"
    /\ UNCHANGED <<layerVars, fileVars, flush, comp, histVars, boundVars>>

\* The segment starts again with no record.
RotateTruncate ==
    /\ rotation = "truncate"
    /\ wal' = Empty
    /\ rotation' = "no"
    /\ UNCHANGED <<mem, parked, fileVars, flush, comp, histVars, boundVars>>

\* Park the full map, install an empty one, allocate the SST number.
FlushSwap(rotate) ==
    /\ FlushLockFree /\ mem # Empty /\ sst_counter <= MaxSst
    /\ rotate => rotation = "flush"
    /\ parked' = mem
    /\ mem' = Empty
    /\ flush' = [at |-> "write", num |-> sst_counter, rotate |-> rotate]
    /\ sst_counter' = sst_counter + 1
    /\ UNCHANGED <<wal, disk, crashable, readers, rotation, comp, histVars,
                   boundVars>>

\* The body is staged and fsynced under another name, then renamed.
FlushRename ==
    /\ flush.at = "write"
    /\ DirOp(With(disk, flush.num, parked))
    /\ flush' = [flush EXCEPT !.at = "renamed"]
    /\ UNCHANGED <<layerVars, readers, sst_counter, rotation, comp, histVars,
                   boundVars>>

FlushSyncDir ==
    /\ flush.at = "renamed"
    /\ SyncDir
    /\ flush' = [flush EXCEPT !.at = "reload"]
    /\ UNCHANGED <<layerVars, readers, sst_counter, rotation, comp, histVars,
                   boundVars>>

\* Publish the list with the new file in it, then drop the parked map.
FlushPublish ==
    /\ flush.at = "reload"
    /\ readers' = Reload(readers)
    /\ parked' = Empty
    /\ flush' = NoFlush
    /\ rotation' = IF flush.rotate THEN "truncate" ELSE rotation
    /\ UNCHANGED <<mem, wal, disk, crashable, sst_counter, comp, histVars,
                   boundVars>>

MutReabsorbOverActive == mem' = Overlay(parked, mem) /\ parked' = Empty

\* Fold the parked map back; a key written meanwhile keeps its newer entry.
Reabsorb == mem' = Overlay(mem, parked) /\ parked' = Empty

\* Any step of the SST write or of the reload fails.  A file that was already
\* renamed into place stays.  A failed callback aborts the rotation, and the
\* failed commit raises the fence.
FlushFault ==
    /\ flush.at # "idle" /\ faults < MaxFaults
    /\ faults' = faults + 1
    /\ Reabsorb
    /\ flush' = NoFlush
    /\ rotation' = IF flush.rotate THEN "fenced" ELSE rotation
    /\ UNCHANGED <<wal, fileVars, comp, histVars, writes, crashes>>

-----------------------------------------------------------------------------
(* Compaction.  The inputs are pinned readers, so the merge's result is    *)
(* fixed when they are chosen; it runs off flush_lock.                     *)

DropTombstones(layer) ==
    [k \in Keys |-> IF layer[k] = Tombstone THEN Absent ELSE layer[k]]

\* KMergeIter: the newest entry of each key wins.
Merged(nums, drop) ==
    LET m == Resolved([n \in nums |-> readers[n]])
    IN  IF drop THEN DropTombstones(m) ELSE m

\* Full merge: readers and number are taken together under flush_lock.
FullBegin ==
    /\ comp.at = "idle" /\ FlushLockFree
    /\ Cardinality(DOMAIN readers) >= MergeMin /\ sst_counter <= MaxSst
    /\ comp' = [at |-> "merge", kind |-> "full", num |-> sst_counter,
                run |-> DOMAIN readers, left |-> DOMAIN readers,
                out |-> Merged(DOMAIN readers, TRUE)]
    /\ sst_counter' = sst_counter + 1
    /\ UNCHANGED <<layerVars, disk, crashable, readers, flush, rotation,
                   histVars, boundVars>>

\* Runs of neighbours in the list, long enough (which one a size tier picks
\* is module PartialRun's subject).
Runs ==
    {S \in SUBSET DOMAIN readers :
        /\ Cardinality(S) >= MergeMin
        /\ \A n \in DOMAIN readers : Min(S) <= n /\ n <= Max(S) => n \in S}

MutDropAlways(run) == TRUE

\* Tombstones go only when no older file is left below the run.
DropAllowed(run) == Min(run) = Min(DOMAIN readers)

\* The output takes the number of the run's oldest file.
TargetNum(run) == Min(run)

\* Partial merge: no flush_lock; no number is allocated.
PartialBegin(run) ==
    /\ comp.at = "idle" /\ run \in Runs
    /\ comp' = [at |-> "merge", kind |-> "partial", num |-> TargetNum(run),
                run |-> run, left |-> run \ {TargetNum(run)},
                out |-> Merged(run, DropAllowed(run))]
    /\ UNCHANGED <<layerVars, fileVars, flush, rotation, histVars, boundVars>>

\* The merge writes its .tmp file and fsyncs the directory.
CompactMerge ==
    /\ comp.at = "merge"
    /\ SyncDir
    /\ comp' = [comp EXCEPT !.at = "commit"]
    /\ UNCHANGED <<layerVars, readers, sst_counter, flush, rotation, histVars,
                   boundVars>>

\* The commit takes flush_lock and renames the output onto its number.
CompactRename ==
    /\ comp.at = "commit" /\ flush.at = "idle"
    /\ DirOp(With(disk, comp.num, comp.out))
    /\ comp' = [comp EXCEPT !.at = "renamed"]
    /\ UNCHANGED <<layerVars, readers, sst_counter, flush, rotation, histVars,
                   boundVars>>

CompactSyncRename ==
    /\ comp.at = "renamed"
    /\ SyncDir
    /\ comp' = [comp EXCEPT !.at = "unlink"]
    /\ UNCHANGED <<layerVars, readers, sst_counter, flush, rotation, histVars,
                   boundVars>>

MutNewestFirst == Max(comp.left)

\* Unlink oldest first.
NextUnlink == Min(comp.left)

\* A file an aborted attempt already removed is skipped.
CompactUnlink ==
    /\ comp.at = "unlink" /\ comp.left # {}
    /\ DirOp(Without(disk, {NextUnlink}))
    /\ comp' = [comp EXCEPT !.left = @ \ {NextUnlink}]
    /\ UNCHANGED <<layerVars, readers, sst_counter, flush, rotation, histVars,
                   boundVars>>

CompactSyncUnlinks ==
    /\ comp.at = "unlink" /\ comp.left = {}
    /\ SyncDir
    /\ comp' = [comp EXCEPT !.at = "publish"]
    /\ UNCHANGED <<layerVars, readers, sst_counter, flush, rotation, histVars,
                   boundVars>>

\* A partial merge replaced a file, so it keeps no reader of its run; a full
\* merge keeps every open reader.
Unchanged == IF comp.kind = "full" THEN readers ELSE Without(readers, comp.run)

CompactPublish ==
    /\ comp.at = "publish"
    /\ readers' = Reload(Unchanged)
    /\ comp' = NoComp
    /\ UNCHANGED <<layerVars, disk, crashable, sst_counter, flush, rotation,
                   histVars, boundVars>>

\* The merge, its .tmp file or the rename fails: the call returns and nothing
\* has changed.  (Module CompactionAbort has the failures after the rename.)
CompactFault ==
    /\ comp.at \in {"merge", "commit"} /\ faults < MaxFaults
    /\ faults' = faults + 1
    /\ comp' = NoComp
    /\ UNCHANGED <<layerVars, fileVars, flush, rotation, histVars, writes,
                   crashes>>

-----------------------------------------------------------------------------
(* Crash and recovery: replay the WAL into a fresh memtable, open every    *)
(* SST, continue the numbering above the highest.                          *)

MutNumberByCount(d) == Cardinality(DOMAIN d) + 1

NextNumber(d) == IF DOMAIN d = {} THEN 1 ELSE Max(DOMAIN d) + 1

CrashAndOpen(d) ==
    /\ crashes < MaxCrashes
    /\ crashes' = crashes + 1
    /\ mem' = wal /\ parked' = Empty
    /\ disk' = d /\ crashable' = {d} /\ readers' = d
    /\ sst_counter' = NextNumber(d)
    /\ flush' = NoFlush /\ rotation' = "no" /\ comp' = NoComp
    /\ queue' = <<>> /\ safe' = Recovered(d)
    /\ UNCHANGED <<wal, writes, faults>>

Next ==
    \/ \E k \in Keys, e \in Entries : Apply(k, e)
    \/ LogCommit
    \/ RotateBegin \/ RotateNothingToFlush \/ RotateTruncate
    \/ \E rotate \in BOOLEAN : FlushSwap(rotate)
    \/ FlushRename \/ FlushSyncDir \/ FlushPublish \/ FlushFault
    \/ FullBegin
    \/ \E run \in SUBSET DOMAIN readers : PartialBegin(run)
    \/ CompactMerge \/ CompactRename \/ CompactSyncRename \/ CompactUnlink
    \/ CompactSyncUnlinks \/ CompactPublish \/ CompactFault
    \/ \E d \in crashable : CrashAndOpen(d)

Spec == Init /\ [][Next]_vars

-----------------------------------------------------------------------------
(* Properties.                                                             *)

Files(d) == DOMAIN d \subseteq Nat /\ \A n \in DOMAIN d : d[n] \in Layer

\* Every layer maps keys to entries, every file has a number the counter has
\* passed, and the running flush and compaction hold well-formed state.
TypeOK ==
    /\ {mem, parked, wal} \subseteq Layer
    /\ \A d \in crashable \union {disk, readers} :
          Files(d) /\ \A n \in DOMAIN d : n < sst_counter
    /\ disk \in crashable
    /\ flush \in [at : {"idle", "write", "renamed", "reload"}, num : Nat,
                  rotate : BOOLEAN]
    /\ rotation \in {"no", "flush", "truncate", "fenced"}
    /\ comp \in [at : {"idle", "merge", "commit"} \union CommitPcs,
                 kind : {"full", "partial"}, num : Nat, run : SUBSET Nat,
                 left : SUBSET Nat, out : Layer]
    /\ queue \in Seq(Keys \X Entries)
    /\ safe \in [Keys -> Values \union {Absent}]

QueuedFor(k) == {i \in DOMAIN queue : queue[i][1] = k}

\* The visible value after the last write of k, logged or not.
Latest(k) ==
    IF QueuedFor(k) = {} THEN safe[k]
    ELSE VisibleOf(queue[Max(QueuedFor(k))][2])

\* A read returns the last write of its key at every moment of flushes,
\* failed flushes, rotations and compactions: no layer that is being moved is
\* missed, no older file shadows a newer one and no deleted key comes back
\* (get, flush_streaming, load_sst_readers, compact_ssts, compact_partial).
ReadsLatest == \A k \in Keys : View[k] = Latest(k)

\* Whatever moment a crash takes, and whichever of the directory operations
\* not yet fsynced it keeps, recovery finds for every key its last logged
\* write or a later one (the order of rename, sync_dir and unlink in the
\* flush and in the two compactions, and of flush and truncate in rotation).
CrashSafe ==
    \A d \in crashable :
        LET found == Recovered(d)
        IN  \A k \in Keys :
                \/ found[k] = safe[k]
                \/ \E i \in QueuedFor(k) : found[k] = VisibleOf(queue[i][2])

\* The abstract store: tombstones and layers are hidden.
Abstract == INSTANCE KVStore WITH
    NotFound <- Absent,
    view  <- View,
    queue <- [i \in DOMAIN queue |-> <<queue[i][1], VisibleOf(queue[i][2])>>]

\* Memtable, flush, compaction, WAL and recovery together implement a plain
\* key-value store whose crashes lose only writes that were not logged.
ImplementsKVStore == Abstract!Spec
=============================================================================
