# Hearth: a TLA+ model of storage, audit, grants, controls and replication

Hearth is an embedded identity server: users, sessions, OAuth grants, roles and
an audit log, all kept by one process in its own storage engine, and optionally
replicated over several nodes by Raft. This directory models from the source
what everything else rests on: the storage engine, the audit chain (its most
demanding client), the refresh-token families and control caches (the parts of
the identity engine whose correctness depends on interleavings), the replicated
state machine, and the lock-free cell all of them read through. TLC checks the
models; TLAPS proves the central safety results of most of them.

    tlc -workers 2 -config MCGroupCommit_safety.cfg MCGroupCommit
    tlapm GroupCommitProofs.tla

`PROJECT.json` lists the components, the runs, the source lines behind every
definition, the hazards, the findings and the theorems.

## 1. The system

### Parts, state and operations

| Part | State | Operations |
|---|---|---|
| WAL (`src/src/storage/wal.rs`) | segment file, `RotationState` (record counter, salt), `GroupState` (queue, `leader_active`, tickets), `CommitSignal` (`completed`, `failed_from`, `leader_vacant`), `fenced` | append/enqueue, lead, commit a batch, publish, step down, claim, rotate, fence, open and repair |
| Memtable (`memtable.rs`) | active skip map, parked (`flushing`) map | apply, swap, stream out, clear, reabsorb, lookup |
| SST store (`engine.rs`, `sst.rs`) | numbered files in a directory, published reader list, `sst_counter`, `flush_lock`, `compaction_lock` | threshold flush, rotation flush, full and partial compaction, reload, recovery |
| Hot tier (`tiered.rs`) | sharded cache, one invalidation epoch per shard | get, begin_fill, promote, invalidate, evict |
| Backup (`src/src/backup/`) | the barrier (`RwLock`) shared with every mutating call | export, import |
| Audit log (`src/src/audit/`) | per realm: events, signed chain head, chain key, chain anchor; in memory a chain lock with a cached head and a key cache | append, import, prune, verify, query |
| Grant families and sessions (`identity/engine/mod.rs`, `oauth.rs`) | per grant: `StoredGrantFamily` row, revocation tombstone, consumed-token markers; session rows; per node a family lock and a session row lock | rotate, answer a replay, revoke by token, consent or session, refresh a session |
| Control plane (`identity/engine/control.rs`) | the control epoch in storage; per node the applied epoch, parked own epochs, a journal of changes made during a reload, the control and session caches, owed bumps | write a control and bump, apply locally, reload, flush sessions, pay owed bumps, observe replicated rows |
| Rest of the identity engine (`identity/`) | users, credentials, tokens, clients | several hundred operations over get, put and batches |
| RBAC (`src/src/rbac/`) | roles, inheritance, a resolution cache | assign, resolve, invalidate |
| Cluster (`src/src/cluster/`) | an applied-state row per realm, counters with index sidecars, the snapshot slot (memory), the restore marker (file), the Raft log store | apply, build a snapshot, install one in place, start or refuse to (consensus is the openraft library) |
| `EpochCell` (`core/epoch_cell.rs`) | one pointer, a retired list | load, load_full, store, rcu, reclaim, drop |
| Webhooks, abuse protection, rate limiter, KDF gate | in-memory queues, counters and permits | deliver, count, admit |
| Protocol front ends | none of their own | parse, call an engine, render |

### How they interact

A mutating call takes the read side of the backup barrier, passes the fence
check, and enqueues its record; inside the enqueue's critical section it also
applies the record to the memtable and invalidates the hot tier. One thread
leads: it drains the queue, rotates the segment if the batch does not fit (a
callback flushes the memtable into an SST first), writes, syncs and publishes
one watermark for everybody. Threads that are not leading wait for the
watermark or for an announced vacancy. `put` and `put_batch` do all of this in
one call; `enqueue_batch` and `await_batch_durable` split it, so that the audit
log can enqueue under its chain lock and wait outside it. Flushes and
compactions run beside the writers under `flush_lock` and `compaction_lock`;
reads take no lock at all and walk hot tier, active map, parked map and SST
list by separate atomic loads (`EpochCell`, `SwapCell`).

On a cluster a write is proposed to Raft and returns once the node it was made
on has applied it; a timeout leaves its outcome open. Reads are served by the
node's own replica, however far behind. Conditional puts and counters are
decided when they are applied. So mutual exclusion by a lock holds on one node
only, and what must hold across nodes rests on conditional puts. A node learns
that another node asserted a control (a revoked token, a blocked key, a realm's
status) from the control epoch, a replicated counter every control write bumps
after its row; the state machine's observer signals the reloader, which scans
the rows and swaps new caches in. A node too far behind is sent a snapshot,
which replaces its rows realm by realm under the live engine.

### What is hard

* Many threads share one leader; a ticket must get a verdict through hand-over,
  vacancy, failure and rotation, and the verdict must be right.
* Rotation destroys the WAL copy of records whose only other copy is the flush
  it has just made. A crash may fall between any two of these steps.
* A failed write leaves torn bytes, consumed record numbers and a fence that
  some threads have already passed.
* A compaction may drop tombstones only if nothing older survives it, and a
  crash keeps any prefix of the directory operations not yet synced.
* Readers see layers being moved under them; a cache fill may be overtaken by
  the write that invalidates it.
* A refresh token is presented twice, on nodes that have applied different
  prefixes of the log, while the family is being revoked on a third path.
* The row of a control, the bump of the epoch, the local change of the caches
  and the reload of the caches are separate steps, and each may be lost.
* A snapshot is scanned while entries are applied, installed in many batches,
  and its index says only from where the log is to be replayed.
* A reader follows a raw pointer while a writer replaces and releases what it
  points to, and the allocator reuses the address.
* The audit chain advances its cached head before the event is durable, is
  pruned from the old end while it grows at the new one, and is extended by
  imports whose events carry old times.

### What makes each part correct

* WAL: an acknowledged write survives any crash and stays readable; log order
  is apply order; every caller returns; a segment can be opened again.
* SST store: a read returns the last write at every moment; whatever a crash
  leaves recovers at least every logged write; deleted keys stay deleted.
* Read path: a read returns a value current at some moment while it ran; the hot
  tier never keeps a value older than the last finished write.
* Partial compaction: bounded tiers, logarithmic rewriting.
* Backup: an export sees one state.
* Audit: the log always verifies, no reported event is lost or doubled, a lost
  event is noticed.
* Grant families: a refresh token is redeemed once; a revoked family issues
  nothing that can be refreshed; a revocation that answers has left its mark;
  the locks cannot deadlock.
* Control plane: a node whose applied epoch covers a control enforces it; a
  revoked session is not put back by a lookup; caches and rows agree in the end.
* Cluster: a node's rows are those of the log prefix it has applied, however it
  got there; a served snapshot leads to the same place.
* `EpochCell`: nothing reachable is released, no update lost, no count leaked.

## 2. The modules

| Module | Models | Lines it stands for |
|---|---|---|
| `DurableLog` | abstract: a set of durable ids that only grows, acknowledgements only from it | the promise of `append_applying` |
| `GroupCommit` | the write path with rotation, fence, barrier, crash and reopen | `wal.rs`, the write half of `engine.rs`, `export.rs` |
| `LeaderPanic` | `GroupCommit` with a leader that panics during the rotation flush | `LeaderGuard::drop` |
| `GroupCommitProofs` | theorems about `GroupCommit` | |
| `KVStore` | abstract: one map, a queue of unlogged writes, crashes that lose only these | the promise of `StorageEngine` |
| `SstStore` | memtable layers, SSTs, both flush paths, both compactions, recovery | `engine.rs`, `memtable.rs`, `sst.rs` |
| `SstStoreProofs` | theorems about `SstStore` | |
| `CompactionAbort` | `SstStore` with a compaction commit that fails after its rename | error returns of `compact_ssts`, `compact_partial` |
| `PartialRun` | `select_partial_run` and the reader list it drives | `engine.rs` |
| `ReadPath` | one key, lock-free reads against writers, flushes, evictions | `get`, `memtable.rs`, `tiered.rs` |
| `StorageProofs` | theorems about `ReadPath` and `PartialRun` | |
| `AuditChain` | one realm's audit log on one node | `audit/engine.rs`, `audit/keys.rs` |
| `AuditChainProofs` | theorems about `AuditChain` | |
| `GrantFamily` | one grant family and its session on a cluster | `identity/engine/mod.rs`, `oauth.rs`, the write half of `cluster/engine.rs` |
| `GrantFamilyProofs` | theorems about `GrantFamily` | |
| `ControlPlane` | the caches of one node of a cluster, their epochs and faults | `identity/engine/control.rs`, `mod.rs`, `cluster/` |
| `ControlPlaneProofs` | theorems about `ControlPlane` | |
| `ClusterStateMachine` | apply, snapshot build and install, restart on every node | `cluster/state_machine.rs` |
| `ClusterStateMachineProofs` | theorems about `ClusterStateMachine` | |
| `EpochCell` | the cell, its retired list and the grace period | `core/epoch_cell.rs` |
| `EpochCellProofs` | theorems about `EpochCell` | |
| `MC*` | symmetry sets and constant values for TLC | |

`AuditChain` composes with the storage modules by contract: it assumes of the
engine what `DurableLog` and `KVStore` say (a batch is visible at once, batches
become durable in enqueue order, a crash leaves a state no older than the last
durable one), and those are what `GroupCommit` and `SstStore` are shown to
implement. `ClusterStateMachine` assumes the same of the engine on each node (a
batch is durable as a whole), and `ReadPath`'s view of the memtable where a scan
runs beside it. `GrantFamily` and `ControlPlane` assume of the cluster what
`ClusterStateMachineProofs` shows: every node goes through the states of one log.
`ReadPath` assumes of `EpochCell` that a load is atomic and yields a value that
stays what it was, which is `ReadsAreSafe`.

### GroupCommit

A record is an id, the position of its enqueue in the life of the directory;
the id of ticket *t* is `base + t`. `mem`, `parked` and `sst` say where an id
lives; `mem_top`, `parked_top` and `sst_top` say which write each layer shows of
one key that every write sets (`Over` reads the upper layer first), so that the
order in which writes were applied can go wrong in the model. A segment is a sequence of records with the
record number they were sealed under, because replay derives the nonce from the
position: `Good(s, i)` says that record *i* opens. `pc[w]` names the step a
thread is at; a step is one critical section or one I/O call:

* `BeginWrite`, `CheckFence`, `EnqueueSlot` - barrier, fence check, ticket and
  memtable apply; whoever finds no leader becomes one;
* `AwaitBatchDurable` - the split path's second barrier entry;
* `LeadDrain`, `LeadExit`, `LeadStepDown`, `AnnounceVacancy` - the leader's loop;
* `FlushSwap`, `FlushDone`, `FlushFault`, `RotateTruncate`, `RotateHeader`,
  `RotateFault`, `CommitWrite`, `CommitWriteFault`, `CommitSync`, `CommitSyncFault`,
  `CommitPublish` - one batch, each I/O call with its failure. A rotation is two
  steps, the truncation that leaves no header and the new header with its sync
  and the counter reset; a crash or a fault between them leaves the stub that
  `repair_partial_header` rewrites;
* `AwaitOutcome`, `AwaitVacancy`, `ClaimLeadership` - a follower;
* `ExportRequest`, `ExportAcquire`, `ExportRelease` - a backup export; a waiting
  writer side blocks new readers, as `std::sync::RwLock` does;
* `Crash`, `RestartOpen`, `RestartRefused` - records after the last sync survive
  as a prefix, the last perhaps torn; the open repairs or refuses.

Left out: `SyncMode::None`, the legacy segment formats, record contents.

### SstStore, CompactionAbort, PartialRun

A layer maps each key to its newest entry. `readers` holds contents, not names,
because an open reader keeps the file it opened. `crashable` is the set of
directories a crash may leave: every directory operation adds one, a directory
fsync leaves only the present one. So the model assumes that directory
operations survive in the order they were issued (a journalled file system);
it says nothing about file systems that reorder renames and unlinks of one
directory. Writes are applied to `mem` and `queue` and reach `wal` later.
`rotation = "fenced"` ends logging in this module: what writers that already
passed the fence do is `GroupCommit`'s business.

`PartialRun` keeps only entry counts and the number of times a record of each
file was merged; the periodic full merge (`main.rs:2430`) is not part of it, so
`LogAmplification` bounds partial compaction alone. `overwrites` says whether keys may repeat.

### ReadPath

Each load or store of a shared cell is one step. A load of `EpochCell` or
`SwapCell` is taken as atomic. `allowed[r]` collects what a running read may
return: the last finished write when it began and every write applied since.

### AuditChain

`versions` is the sequence of states of the realm's rows, the durable one first,
the visible one last; a batch appends one, `Commit` drops the first. A hash is
the sequence of everything hashed so far, that is, HMAC-SHA256 is taken to be
injective. The chain lock is held from `AppendLock` to `AppendChain`, over a
prune until it is durable, and for one import chunk. The clock never steps
back. One row (`pruned`) is history: which ids a prune removed.

### GrantFamily

`rows` are the family's rows after every committed command, `view[n]` what node
*n* has applied of them, `queue[n]` the rest. A request runs on one node; its
refresh token is named after it. A write either commits and returns once applied
(`Write`, `Delivered`), or is given up and stays in `late`, from where it may
commit at any time or never. The steps are those between two reads, writes or
lock operations of the code:

* `Begin`, `CheckFamily`, `RefuseClient`, `RefuseGrant`, `LoadSession`,
  `RefreshSession`, `EvictSession`, `RefuseEvicted`, `ClaimToken`, `RotateRow`,
  `LoseClaim`, `ReturnPair` - a refresh: family lock, row and tombstone, session
  under its row lock (extended, or ended when a limit of the realm has passed),
  the conditional put that claims the token, the row;
* `MarkTombstone`, `MarkSpent`, `FlagRow`, `Answer` - one marking, as a replay,
  a token revocation, a consent revocation and the session cascade use it, each
  with its own reaction to an error;
* `BeginSession`, `LockSession`, `EndSession`, `DropRowGuard`, `Cascade`,
  `SkipCascade`, `CascadeFails` - `revoke_session`, its scan for families and the
  writes around it that may fail included.

Left out: expiry of tokens, the sweep of expired sessions, scopes, DPoP binding and everything else that only decides
whether a request is accepted (`RefuseClient` and `RefuseGrant` stand for it).

### ControlPlane

One node is followed in full; of the others the model keeps the commands they
commit and the bumps they owe. `log` holds row and bump commands; `at` is what
the node's storage reflects, `seen` what its observer was told. `plane` holds
the fields of `ControlPlane` (applied, target, parked epochs, force and reset
flags, journal). A control write is `WriteRow`, `BumpEpoch`, `Publish` (or
`BumpFails`, `WriteGivenUp`), for a session also `FenceSession`,
`EvictSession`; a reload is `StartReload`, `StartRecording`, `Scan`, `Swap`,
`FlushFence`, `FlushStore`, `EndReload`; a lookup is `FillStart`, `FillRead`,
`FillInsert`, `FillRecheck`; the bump thread is `BumpTake` to `BumpRefused`. The
times the background threads wait are left out: they only delay steps. A
snapshot install (`Restore`) moves storage forward only, since openraft installs
none that is older than what the node has applied. `excused`
is history: controls for which the code makes no promise (see section 3).

### ClusterStateMachine

One committed log, extended when the first node starts to apply an entry. A
batch is durable at once, but its rows reach the in-memory map one by one
(`ApplyStart`, `ApplyRow`), and a snapshot build reads that map row by row with
no lock (`BuildStart`, `ScanRow`, `BuildDone`). The order in which rows arrive
matters only to a build, so `ApplyStart` completes at once when none is running.
An install is the marker, one clear and one put batch per realm, the applied
rows, the end (`InstallStart` to `InstallDone`). `Crash` loses memory and the
snapshot slot; `Restart` follows `load_applied_state` and the refusal rules, and
`DeleteMarker` is the operator's step that the refusal's message and the
recovery guide describe. There are a counter with its sidecar, a plain key,
and eight commands (`MCCommand`): increments, plain and conditional puts,
deletes, a batch over both realms, a put of bytes that are no counter.
A client's keys and values are those that `Writable` allows: the names of sidecar
and applied-state rows carry a NUL-led tag that no caller uses, and bytes put into a
counter decode to a number or to none (`Bad`). openraft is external.

`fuzz`, `torn` and `mixed` are history. `fuzz` is the last entry a node's rows may
already hold because a scan picked it up; while an install is under way that is the
later of the snapshot's and the node's own, since rows of both are there. A store is
`mixed` when its marker was deleted in the middle of a clear, or when it was filled
from the snapshot of a mixed store and the marker deleted before the end.

### EpochCell

A step is one atomic access, one change of a count or one list operation.
crossbeam-epoch is external: a callback runs, in any thread, once every thread
pinned at its registration has unpinned. Addresses are reused at once when
their count is zero. `value` holds the set of rcu updates a value contains, which
is what a lost update would miss. A thread may write, and release, while a
guard further up its stack keeps it pinned.

## 3. The runs

Passing runs:

| Run | Instance | Shows |
|---|---|---|
| `group_commit_safety` | 3 writers, 3 writes, hand-over after every batch, segments of 2 records, 1 fault, 1 crash, 1 export; 1.1 M states | `AckedDurable`, `AckedReadable`, `AckedShown`, `WalOrder`, `OneLeader`, `QueueAttended`, `RestartOpensCleanly`, `VerdictStable`, `ExportIsolated`, implements `DurableLog` |
| `leader_panic` | 2 writers, 4 writes, a rotation per batch, 1 fault or panic | every write call returns; nothing readable is lost; no deadlock |
| `sst_store` | 2 keys, put or delete, 3 writes, 4 file numbers, 1 fault, 1 crash | `ReadsLatest`, `CrashSafe`, implements `KVStore` |
| `partial_run` | flushes of 1 to 3 records, 12 records, `merge_min` 3 | `RunIsTier`, `LogAmplification` |
| `read_path` | 2 readers, 3 reads, 2 writes, 2 flushes (1 may fail), evictions, a neighbour in the shard | `RegularUnlessCaught`, `HotCoherent` |
| `audit_chain` | 2 appenders, 2 appends, 2 imports of 2 events in chunks of 1, 1 prune, 1 fault, 1 crash | `ChainVerifies`, `CacheCurrent`, `AckedKept`, `NoDuplicates`, `LossDetected` |
| `grant_family` | 2 nodes, 3 requests of any kind with any token handed out, at most 2 of them revocations, any lag, 1 write of unknown outcome; 3.8 M states | `SingleUse`, `RevokedChainEnds`, `RevocationRecorded`, `LocksAreOrdered`, `SessionLostOnlyAcrossNodes` |
| `control_plane` | 2 nodes, 2 control writes (a key, a token, a session), 1 parked epoch, 3 writes and faults together; 4.4 M states | `AppliedCovered`, `SessionEvicted`, `CachesInStep` |
| `cluster_state_machine` | 2 nodes, entries of 8 kinds and builds, 4 together, 1 crash; 3.9 M states | `Converges`, `ServedSnapshotSound` |
| `epoch_cell` | 2 threads, 4 addresses, 3 writes or reclaims; 0.8 M states | `ReadsAreSafe`, `NoUpdateLost`, `HeapAccounted` |

Why the bounds are enough to mean something. Three writers are the fewest with
a leader, a follower in its batch and a queue behind it; `MaxLeaderBatches = 1`
makes every batch end in a hand-over, and a segment of two records makes the
third write rotate. One fault and one crash compose in either order. Three
writes of two keys and four file numbers allow a value, its overwrite or
deletion, and a full or partial merge of two files with a flush during it.
Two flushes are needed for a read to be overtaken by a complete one while a
second is running. Two imports, one of which may be cut short by a fault or
crash, are what deduplication is for; a chunk of one event lets a live append
land between chunks. Three requests are a refresh, its competitor or retry, and
a revocation, or a revocation and two generations of tokens; two nodes are the
ones that disagree. Three control events are a control, its withdrawal or a
second control, and a fault; one parked epoch makes the second overflow.
Four units of cluster work are up to three entries before, during and after a
build, which is what a fuzzy scan, its installation and a replay over it need; the
second node lags, installs and may crash at any row. Three writes of a cell
replace, release and reuse the address an rcu has read; larger instances
(2 threads and 4 writes; 3 threads and 2 writes) were run as well and pass.
`CHECK_DEADLOCK FALSE` stands where the bounds stop the system; `leader_panic`
checks deadlock, with an explicit `Quiescent` step for spent bounds.

Runs that show a disagreement between the code and what it says of itself (each
finding in `PROJECT.json` quotes the line):

| Run | What happens |
|---|---|
| `export_deadlock` | `WriterReturns`: a split-commit leader waits for the barrier behind an export, the export for a follower, the follower for the leader |
| `compaction_abort` | `ReadsLatest`: a full compaction fails after its rename while a flush has published a newer file; the next compaction brings an overwritten or deleted value back |

The passing runs state what holds with each exception spelled out, so that
everything outside it is still checked: `RestartOpensCleanly` (no fault so far),
`RegularUnlessCaught` and `HotCoherent` (no read was caught by a failed flush),
`ChainVerifies` and `LossDetected` (one key was minted), `RevocationRecorded`
(a consent revocation after a lost write), `SessionLostOnlyAcrossNodes`
(another node, or a lost write), `Converges` and `ServedSnapshotSound` (the counter of a torn scan, a node
restarted by hand in the middle of a clear), and the controls in `excused`.
`sst_store` contains every I/O fault but those after a compaction's rename.

Observations from the modelling without a run of their own. Those marked (TLC)
are the counterexamples found when the exception is taken out of the property.

Storage and audit:

* (TLC) A failed batch write keeps its torn bytes and its record numbers; a
  writer past the fence check appends behind them, and the next start refuses
  the segment (`wal.rs:1813`), although the fence's message is "restart to clear
  it" (`wal.rs:1229`).
* (TLC) A read between the two memtables misses a key that a failed flush folds
  back (`memtable.rs:360`, against `memtable.rs:41`).
* (TLC) An import and the first append of a realm both mint a chain key
  (`audit/engine.rs:306`, `943`); `audit/keys.rs:49` says "Generated once per
  realm". The chain the two share never verifies again.
* `verify_integrity` reads the events before and the head after an append and
  reports tampering (`audit/engine.rs:1147`, `1163`).
* In a build that unwinds, a writer that enqueues between the two critical
  sections of `LeaderGuard::drop` records `failed_from` at its own ticket, and
  the panicked batch below it is then taken as written (`wal.rs:548`). The
  release profile aborts on panic.
* A partial compaction whose commit fails after the rename leaves a reader of
  the replaced file under a number the next reload reuses (`engine.rs:1027`).
* `select_partial_run` continues behind the span it rejected, so with entry
  counts 4, 2, 1, 1 and `merge_min` 3 it selects nothing although 2, 1, 1 is a
  tier as its comment defines one (`engine.rs:1668`, `1708`); `RunIsTier` states
  the bound that does hold.
* Event keys begin with the wall clock. If it steps back, key order is no longer
  chain order and the log stops verifying; `AuditChain` assumes it does not.

Grants and sessions:

* (TLC) A session refresh on another node than the revoker's reads the live row
  and writes it back whole after the revocation (`mod.rs:9262`), against V1 of
  `docs/dev/CONSISTENCY.md:119`.
* (TLC) A revoker whose node is behind marks an older token as spent, and a
  rotation then under way still returns a pair, although
  `grant_family_revocation.rs:16-20` says a rotation "cannot mint a pair after
  the revocation either". `RevokedChainEnds` is what remains: the pair's refresh
  token is dead.
* (TLC) The cascade of `revoke_session` logs a lost tombstone and still flags the row
  (`mod.rs:9184-9200`); a later consent revocation trusts the flag and skips.
* A row put that is lost after a won claim burns the token; the client's retry
  is answered as theft.

Control plane (all paths in `identity/engine/` unless given):

* (TLC) A concurrent block and unblock of one control reach the caches in the
  opposite order of their rows (`mod.rs:2005`); node and rows stay out of step
  until the next reload.
* (TLC) An owed bump is dropped as `NotLeader` although a leader is in office
  that was merely unreachable (`control.rs:525-541`, `cluster/engine.rs:962-972`),
  so the promise of `CONSISTENCY.md:121` (V3) has a gap. Owed bumps are also lost
  with their process.
* `revoke_session` may return early after its row committed and before its bump.
* A background reload that scans while an install has cleared a realm swaps in
  empty caches; the reload the install orders afterwards repairs them.
* `Resignal` adds nothing in the explored instance: dropping it breaks no
  property.

Cluster:

* (TLC) `increment_once` writes counter and sidecar in one batch, but the batch
  reaches the memtable row by row (`memtable.rs:259-272`) and `build_snapshot`
  scans it without a lock (`state_machine.rs:145-170`). A scan between the two
  inserts gives whoever installs the snapshot a counter that counts an entry
  twice, or misses it; `state_machine.rs:800-806` and `CONSISTENCY.md:58` (W5)
  say each is counted once.
* (TLC) A crash while an install clears realms leaves the applied rows of the
  realms not yet cleared. If the operator then deletes the marker, as the
  refusal suggests, `load_applied_state` returns the old index, nothing is
  refused and the cleared realms stay empty (`state_machine.rs:713`, `938-951`);
  the disaster-recovery guide says "Phase 1 removed the node's persisted applied
  index".

### Fairness

`FairSpec` and `PanicSpec` assume weak fairness of `WriterStep(w)` for each
thread (the operating system schedules a runnable thread; a woken waiter runs),
of the export's acquisition and release, and of the second half of an unwinding
drop. No fairness is assumed of new writes, faults, panics, exports or crashes.
Weak fairness is enough: a step that waits for a lock in this model waits for a
condition that stays true once the holder has moved on. No other specification
states fairness, and no other run checks liveness.

## 4. What is proved

The theorems hold for every value of the constants that the modules' named
assumptions admit: any sets of writers, readers, threads, nodes, requests, keys
and values, any bounds on writes, files, faults and crashes. Each proof module
has the same plan for each component it extends: an inductive invariant (`IInv`
in most of them), a conjunction of named parts that TLC checked on small
instances first; lemmas that every step preserves it, by part and by action;
then the properties of section 3 as consequences. A property is hardly ever
inductive by itself; what the parts add is said below.

### GroupCommitProofs

| Theorem | Statement |
|---|---|
| `TypeCorrect` | `Spec => [](TypeOK /\ BatchInv)` |
| `Invariance` | `Spec => []IInv` |
| `Durability` | `Spec => []AckedDurable` |
| `Readability` | `Spec => []AckedReadable` |
| `SingleLeader` | `Spec => []OneLeader` |
| `VerdictsFinal` | `Spec => VerdictStable` |
| `Refinement` | `Spec => ImplementsDurableLog` |
| `OrderInvariance` | `Spec => []OInv` |
| `ReplayOrder` | `Spec => []WalOrder` |
| `NobodyStranded` | `Spec => []QueueAttended` |
| `ReopensCleanly` | `Spec => []RestartOpensCleanly` |
| `ExportReadsStable` | `Spec => ExportIsolated` |
| `LatestShown` | `Spec => []AckedShown` |

`AckedDurable` alone is not inductive: a follower acknowledges because a number
in `CommitSignal` says so. `IInv` carries the chain of reasons:

* `TicketInv` - the tickets above the watermark are, in order, the batch in
  flight and then the queue; so publishing a batch publishes exactly the tickets
  its leader drained;
* `LeaderInv` - one leader, so the batch in flight is unique and nobody else
  truncates;
* `FailInv`, `CleanInv` - until a commit of this life fails, every record opens
  where it lies; once one fails, `failed_from` is at or below every later ticket
  and no later batch can be acknowledged, so what the torn segment looks like no
  longer matters for acknowledgements;
* `WriteInv` - between write and publish the batch is in the file, and at a
  successful publish it is synced;
* `FlushInv`, `VisibleInv` - the memory layers cover every whole record of the
  segment, the parked map and the SSTs do so while the rotation flush runs, and
  the SSTs alone when the segment is truncated; so truncation removes nothing
  that is not elsewhere;
* `AckInv` - every published ticket that did not fail is durable.

`DurableGrows` shows that no step, crash and reopen included, takes anything out
of stable storage, and is what `Refinement` rests on. The second invariant,
`OInv`, adds to `WalOrder` that the segment holds nothing above the watermark
but the batch being written (so the next batch lies behind it), to
`QueueAttended` that a set `leader_active` has a leader, to
`RestartOpensCleanly` that without a fault every record but a torn last one
authenticates at its position, and for `ExportIsolated` that every writer inside
a call holds the barrier shared.

The third invariant, `ShownInv`, is about what a reader is shown. `TopInv`: once
this process has issued a ticket, the layers together show the last one, and no
layer holds an id above it; it is what fails when the apply leaves the critical
section of `enqueue_slot`. `PromiseInv`: an id that was acknowledged, or
published without failure, is returned by replay, or every whole record of the
segment is newer than it; that is what a restart needs, where the layers are
rebuilt from the segment and the SSTs alone (`ReopenShows`).

`TypeOK` is proved (`TypeCorrect`) and used in every proof of the module; it is
not among the properties of the run.

### SstStoreProofs

| Theorem | Statement |
|---|---|
| `Invariance` | `Spec => []IInv` |
| `WellTyped` | `Spec => []TypeOK` |
| `ReadsSeeLatest` | `Spec => []ReadsLatest` |
| `CrashesLoseNothing` | `Spec => []CrashSafe` |
| `Refinement` | `Spec => ImplementsKVStore` |

`ReadsLatest` speaks of the reader list and `CrashSafe` of directories; what
relates the two, and both to the layers, is:

* `DirInv` - outside a compaction's commit, every directory a crash may leave is
  the reader list plus newer files whose keys all lie under the map that covers
  them (`Cover`: the parked map during a flush, else the active one). The newer
  files are a flush's own output and the outputs of flushes that failed after
  their rename, which stay in the directory and are picked up by a later reload;
* `FlushInv` - a flush's number is above every file's, so its file decides every
  key it holds;
* `CompInv` - the inputs of a compaction are neighbours in the reader list, its
  output holds what they resolve to, less tombstones that have nothing below
  them (`MergeOf`), and a file that a failed flush left between the inputs and
  the output's number is itself below a newer file that holds its keys
  (`Hidden`): a full merge takes its number first and a flush that fails and is
  repeated meanwhile gets the next ones;
* `CommitInv` - while the commit runs, the directory has the output, the inputs
  not yet unlinked, which are the newest ones, and every other reader. Unlinking
  oldest first is what makes this an invariant;
* `CrashInv` - a key that the segment does not hold, or will not hold after the
  truncation under way, resolves in every such directory, in the reader list and
  in the parked map to a value that is not older than the last logged one.

`CommitShows` is the lemma on compaction: a directory in any of the states of a
commit shows each key as the reader list does, or as a stray that was already
newest before. The refinement maps the layers to the value a read returns and
each entry to its visible value; every flush, rotation and compaction step is a
stuttering step of `KVStore`.

### StorageProofs

Two parts of the engine that share no state. Of `ReadPath`: `Invariance`
(`IInv`), `ReadsAreRegular` (`RegularUnlessCaught`), `CacheCoherent`
(`HotCoherent`) and `FlushKeepsValue`: at every point of a flush the layers as a
read walks them show the last applied write (`LayersCurrent`). A read crosses
several steps of others, so `ReadInv(r)` says for each of its steps what it has
still to come: the map it loaded, if no longer active, holds the key; the layer
it meets next has a value it may return, and one that may be promoted if its
fill guard is still fresh (`Fits`).

Of `PartialRun`: `ReaderListInvariance` (`ListInv`), `RunsAreTiers`
(`RunIsTier`) and `RewritesAreLogarithmic` (`LogAmplification`), for any entry
counts, flush sizes and number of records; the first for any `merge_min`, the
second for any of at least 3 (the default is 4). Both loops of
`select_partial_run` are recursive functions; that each is defined, and what it
returns, is shown by the smallest argument for which it would not be.
`SpanEndsTier`: a span is a tier that no older file extends, because the loop
carries its smallest and largest count. `ScanGoesOn`: a long tier cannot hide
behind a short span, because what lies behind the span's end is a tier that
starts where the next span does, and is itself too short. `TierDoubles`: three
files of one tier hold twice the records of any of them, so the merged file can
have one level more. That `2 ^ (n + 1)` is twice `2 ^ n`, of which the provers
know nothing, comes from the library's count of the subsets of a set.

### EpochCellProofs

`Invariance`, `ReadsSafe` (`ReadsAreSafe`), `UpdatesKept` (`NoUpdateLost`) and
`CountsExact` (`HeapAccounted`). `OwnerInv` says that the cell, the retired list,
writes about to publish and writes about to retire never own one address
together; `CallbackInv` that every pending callback and every raised flag belongs
to one retired value; `ReachInv` why an address a pinned thread can reach is
still allocated: it is current, its writer has not yet registered it, or its
callback waits for that thread. From the last one follows that the address an
rcu compares with cannot have been reused.

### GrantFamilyProofs

`Invariance`, `WellTyped` (`TypeOK`), `OneRedemption` (`SingleUse`),
`RevokedDiesOut` (`RevokedChainEnds`), `AnswersRecorded` (`RevocationRecorded`),
`LockOrder` (`LocksAreOrdered`) and the action property `SessionKept`
(`SessionLostOnlyAcrossNodes`). `ChainInv` says that every claim spends the one
live token and mints the next, that at most one is minted after the tombstone
and that nobody who may still rotate presents it; `HashInv` that a node sees
that token only once it has applied the tombstone, whatever the lag of its
queue; `SessionInv` that a request about to write the session back has not
missed an end of the session on its own node.

### ControlPlaneProofs

`Invariance`, `AppliedIsCovered` (`AppliedCovered`) and `SessionsEvicted`
(`SessionEvicted`), for any nodes, controls, writes and faults, and any bound on
parked epochs. `EpochInv` says that no counter of the node runs ahead of the
epochs its storage reflects, `BumpInv` that the epoch of a write is that of one
bump, which comes after its row and which no other call or bump thread can
record. So an epoch becomes known in two ways only: the write itself publishes,
and applies its control in the same step; or a reload that read that epoch
swaps, and whatever row is in front of the bump was in storage when it scanned.
`CoverInv` keeps what follows from it, for the caches and for the set the reload
under way is about to publish (its scan, with the journal replayed over it),
apart for a reload after a snapshot, which counts only while the key space it
read is still there. `SessionInv` follows an eviction through its three steps,
and says of a lookup under way that it has seen the generation move; a lookup
that starts later reads the revoked row.

`CacheInvariance` (`JInv`) and `CachesStayInStep` (`CachesInStep`): when nothing is
left to do, the caches agree with the rows. The invariant above speaks of epochs a
write was told of; here a bump may have failed, be owed, be paid by the bump thread
for several writes at once, or be replaced by the bump of the next leader. `JInv`
adds what stands between each control and the caches, `DebtInv`: a write of it is
under way, or another node owes a bump for it, or there is no leader whose election
bump has committed (`Interregnum`), or some epoch brings it in step (`Sheltered`).
The last is the heart of the proof. Epoch `e` brings control `c` in step
(`Brings(c, e)`) when

* nobody on this node is still to record `e` (`Free`), so it becomes known through
  a reload that has read it; a write applied here counts with `e = 0`, which is
  always known;
* every row of `c` is in storage here or in front of the bump of `e` (`Behind`), so
  that reload scans the last one;
* once `e` is known the caches agree about `c`, so does the last journal entry about
  `c`, and so does what a swap would publish (`Holds`); for the session, the cache
  does not answer for it or the reload is about to flush it.

A bump that commits elsewhere, or for an election, has an epoch nobody here records
and that no reload has read: it shelters every control at once (`Fresh`). A write
of this node shelters its own control when it applies it (`LocalApply`), for which
its row must be the last about the control: `SoleInv` says so of every write under
way whose control is not excused, and is where the exception for writes that race
comes in. That a settled node knows the last epoch is `SignalInv`: each bump the
observer was told of is applied, wanted, or read by a forced reload that re-arms
itself if its scan fails, whatever resets and snapshot installs came between.

### AuditChainProofs

`Invariance`, `WellTyped` (`TypeOK`), `HeadIsCurrent` (`CacheCurrent`),
`AcknowledgedIsKept` (`AckedKept`) and `NothingTwice` (`NoDuplicates`), for any
appenders, archives and chunk size. Their parts speak of a log and the number of
its first version, so that the lemmas about a batch written, a batch made durable
and a crash are stated once. `Noted(no, ids)` says that version `no` was written
and that it and every later one hold `ids` or record their prune: it holds of an
append and of an import chunk from the moment it is enqueued, and turns into
`AckedKept` when the version is durable. `CacheInv` says who may find a stale
head: nobody but the prune that holds the chain lock, and it carries the stored
one. For `NothingTwice` an appended id is nowhere in the log before its batch,
and every archived id in the newest version is one the running import knows. What
a chunk does is a recursive function over its events; that the function is
defined, and what it yields (all ids up to its end known, the chained ones new
and distinct), is shown by the least index where it would not be so. The
assumptions: chunk and batch sizes are positive, archived ids are not ones this
process appends, no thread is named like the lock's other states, and `NoHead`
is not a head.

`ChainInvariance`, `LogVerifies` (`ChainVerifies`) and `LossShows`
(`LossDetected`) are about logs for which no second key was minted (`ChainInv`).
Then `LinkInv` holds: every version a crash could restore either has no head and
holds and held nothing, or its events are a `Chain`, that is, some sequence lists
them in key order (`Sorted`) and links each to the one before, from the anchor to
where the head says the chain ends (`Linked`). The sequence is under an
existential: that `InKeyOrder` computes it is `SortedIsKeyOrder`, by the rank of
each element. `ChainGrows` adds an event behind the last one, provided no event
is later than it; `ChainShrinks` is a prune: what it deletes is a prefix, and
re-anchoring on its last event leaves a chain. That a new event is never earlier
than those there is `TimesOK`: an append takes the present time; an import that
found its archive in order and in the past (`InOrder`) keeps the archived times
only while its own last chunk ends the chain, and restamps at the present from the
moment anything else was chained. The rest of `LinkInv` says that whoever has a
key has the stored one, and that the import's `our_seq` is not ahead of the
stored head. A chunk is followed event by event (`LinkAcc`). A version without a
head is one in which nobody waits for an append, so that the anchor is never
recorded there.

### ClusterStateMachineProofs

`StateMachineInvariance` (`Inv`), `NodesConverge` (`Converges`) and
`ServedSnapshotsAreSound` (`ServedSnapshotSound`), for any nodes, any commands over
a counter and a plain key with any values, and any number of entries, builds and
crashes. The properties compare a node's rows with the log at moments when nothing
is in progress; the invariant has to say what rows may be in between, when a scan
has run beside the application of entries. `DataOK(log, rows, j, u, torn)` says it of
rows whose applied index is `j` and which may hold rows of entries up to `u`:

* the plain key holds what the log says at some point of `j..u`, or an entry still
  to be applied overwrites it whatever it holds;
* the counter and its sidecar are from one point `k` of `j..u`, the sidecar at least
  the last increment up to `k` and not beyond `k`, or again they will be
  overwritten; and a counter that has been incremented has a sidecar.

`NodeOK` is this for each thing a node keeps: its disk, with `j` what
`load_applied_state` reads off it and `u` the larger of `j` and `fuzz`; the batch in
flight, whose rows make of the map what the entry makes of the disk (`FlightOK`); the
rows a build has read, as long as no install has raced it (`ScanOK`); the slot and the
snapshot being installed (`SnapOK`); the store in the middle of an install, realms
not yet cleared and realms already filled apart (`ClearOK`, `FillOK`). A build that an
install has raced is one `snapshot_slot_offer` turns down, which is why nothing has
to be said of it.

The argument: an entry applied to rows that are good for `j..u` leaves rows good for
`j+1..max(j+1,u)` (`DataAdvance`). For a counter that is ahead this is where the
sidecar makes `increment_once` skip, for a plain key that is ahead where a
conditional put finds it present. That the batch of `apply_command` with
`moved_sidecars` is the effect of the entry is `BatchApplies`. At `j = u` good rows
are the log's (`DataIsRef`), which is `Converges`; replaying the rest of the log over
a snapshot gets there (`ReplayAgrees`), which is `ServedSnapshotSound`. Both
recursive functions, the log's state and the replay, are shown to be defined, to
agree on prefixes and to keep `DataOK` by the least index where they would not. The
assumptions are `CommandAssumption` and `ValueAssumption`.

The proof corrected the model twice. A node that crashed in the middle of an install
with a smaller reach than its own was taken for settled too early (`fuzz` was the
snapshot's alone), and a node filled from a mixed store's snapshot, then restarted
by hand, was not taken for mixed; both need more steps than the run's bounds allow.

### Only model-checked

* Liveness (`WriterReturns`): the prover has neither fairness nor ENABLED.
* `LeaderPanic` and `CompactionAbort`, which exist for their counterexamples.

## 5. What is not modelled

* File formats, checksums, bloom filters, block cache: immutable contents behind
  the maps `SstStore` uses.
* Encryption and HMAC: assumed correct; their effect on recovery (a record that
  does not open at its position) and on the chain is modelled.
* `allow_missing_keks`: an engine opened with it skips the SSTs whose key is not
  registered (`engine.rs:1161`, `1182`); in `SstStore` every key is.
* Prefix scans, paging and multi-key read consistency: a batch is taken to be
  visible to the audit engine as one step.
* `put_if_absent` on the single-node engine (its lock, and a check that sees a
  value whose commit later fails); on the cluster it is in `GrantFamily` and
  `ClusterStateMachine`.
* `SwapCell`: an `RwLock` around an `Arc`, taken as atomic.
* Cluster: the Raft log store and transport, the membership row, rows that leave
  the memtable for an SST during a snapshot scan. A storage error in the middle
  of an install is the crash the code turns it into.
* Control plane: `sync_control_epoch`, which signals what the observer signals
  anyway, and the claims cache, which is filled and flushed as the session cache
  is.
* Identity operations other than grants, sessions and controls: users,
  credentials, device and authorization codes, clients, realms. Most are one
  read, a decision and one batch.
* RBAC, webhooks, limiter, KDF gate, cleanup and reconciliation: see the plan.
* Configuration, protocol front ends, e-mail, federation, migration, SDKs and
  UI: no shared state machine of their own.
* The audit chain across a change of cluster leader, which the project's own
  consistency notes list as an open point.

## 6. Plan

Done: `GroupCommit` with its abstract log and panic extension; `SstStore` with its
abstract store; `ReadPath`; `PartialRun`; `AuditChain`; `GrantFamily`;
`ControlPlane`; `ClusterStateMachine`; `EpochCell`; the proofs of section 4.

Next, most important first:

1. `put_if_absent` with values and the split commit under it.
2. The RBAC resolution cache, which has the shape of the control caches; range
   scans over moving layers; a wall clock that steps back in `AuditChain`;
   webhook dispatcher and KDF gate.
