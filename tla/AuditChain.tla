----------------------------- MODULE AuditChain -----------------------------
(***************************************************************************)
(* The hash chain of one realm's audit log (src/src/audit/engine.rs) on a  *)
(* single node: appends that enqueue under the chain lock and wait for     *)
(* durability outside it, the optimistically advanced cached head and its  *)
(* rollback, pruning with re-anchoring, chunked imports of archived        *)
(* events, the lazily minted chain key, and crashes.                       *)
(*                                                                         *)
(* The storage engine is what GroupCommit and SstStore show it to be: a    *)
(* batch is visible at once and atomic, batches become durable in the      *)
(* order they were enqueued, and a crash leaves some version not older     *)
(* than the last durable one.  HMAC-SHA256 is taken to be injective: the   *)
(* hash of an event is the sequence of <<key, id, time>> hashed so far.    *)
(***************************************************************************)
EXTENDS Naturals, Sequences, FiniteSets, SequencesExt

CONSTANTS
    Appenders,      \* threads that append events
    Archives,       \* archives an import may read: sequences of [id, ts]
    ImportChunk,    \* IMPORT_CHUNK
    PruneBatch,     \* PRUNE_BATCH
    NoHead,
    MaxTime,        \* bound: clock ticks
    MaxAppends, MaxImports, MaxPrunes, MaxFaults, MaxCrashes

\* A hash is all that was hashed: keys, ids and times.
Hash == Seq(Nat \X Nat \X Nat)

\* ChainHead; its MAC is known by the key it was computed with.
Heads == [anchor : Hash, last_hash : Hash, seq : Nat, count : Nat, key : Nat]

ASSUME AuditAssumption ==
    /\ ImportChunk \in Nat \ {0} /\ PruneBatch \in Nat \ {0}
    /\ MaxTime \in Nat /\ MaxAppends \in Nat
    /\ \A a \in Archives :
          /\ a \in Seq([id : Nat, ts : Nat])
          /\ \A i \in DOMAIN a : a[i].id > MaxAppends
    /\ {"free", "prune"} \cap Appenders = {}
    /\ NoHead \notin Heads

VARIABLES
    versions,     \* the realm's rows: first what is durable, last what is read
                  \* (their field pruned is history: the ids prunes deleted)
    durableNo,    \* number of the first version
    fenced,       \* the WAL's write fence
    now,          \* Clock::now
    lock,         \* holder of the chain lock, or "free"
    cached,       \* the cached ChainHead under it, or NoHead
    key_cache,    \* hmac_key_cache; 0 is none
    app,          \* per appender: pc, its chain key, its event and version
    imp,          \* the import (import_locks admit one)
    prune,        \* the prune that holds the chain lock: its head and version
    acked,            \* history: ids reported durable
    minted,           \* history: chain keys generated
    appends, imports, prunes, faults, crashes

boundVars == <<appends, imports, prunes, faults, crashes>>
histVars  == <<acked, minted>>
storeVars == <<versions, durableNo, fenced>>
chainVars == <<lock, cached, key_cache>>
vars == <<storeVars, now, chainVars, app, imp, prune, histVars,
          boundVars>>

Genesis == <<>>

Rows == versions[Len(versions)]
RowsNo == durableNo + Len(versions) - 1

\* One atomic batch: visible at once, durable later.
Write(rows) == versions' = Append(versions, rows)

MutDurable(no) == RowsNo >= no

\* await_batch_durable answers: durable, or failed by the fence.
Durable(no) == durableNo >= no

Failed(no) == ~Durable(no) /\ fenced

IdleApp    == [at |-> "idle", key |-> 0, id |-> 0, no |-> 0]
IdleImport == [at |-> "idle", archive |-> <<>>, key |-> 0, known |-> {},
               next |-> 0, restamp |-> FALSE, stamp |-> 0, our_seq |-> 0,
               seq |-> 0, no |-> 0]
IdlePrune  == [at |-> "idle", head |-> NoHead, no |-> 0]

Init ==
    /\ versions = <<[key |-> 0, head |-> NoHead, events |-> {},
                     anchored |-> FALSE, pruned |-> {}]>>
    /\ durableNo = 0 /\ fenced = FALSE /\ now = 0
    /\ lock = "free" /\ cached = NoHead /\ key_cache = 0
    /\ app = [a \in Appenders |-> IdleApp]
    /\ imp = IdleImport /\ prune = IdlePrune
    /\ acked = {} /\ minted = 0
    /\ appends = 0 /\ imports = 0 /\ prunes = 0
    /\ faults = 0 /\ crashes = 0

-----------------------------------------------------------------------------
(* The chain.                                                              *)

\* compute_hmac_hash
HashOf(key, prev, id, ts) == Append(prev, <<key, id, ts>>)

\* The scan order of the primary keys: timestamp, sequence, id.
Before(d, e) ==
    \/ d.ts < e.ts
    \/ d.ts = e.ts /\ d.seq < e.seq
    \/ d.ts = e.ts /\ d.seq = e.seq /\ d.id < e.id
InKeyOrder(events) ==
    [i \in 1 .. Cardinality(events) |->
        CHOOSE e \in events : Cardinality({d \in events : Before(d, e)}) = i - 1]

\* load_or_init_head: the stored head if its MAC matches, Refused if not; with
\* none stored, one for the events there are.
Refused == [anchor |-> Genesis, last_hash |-> Genesis, seq |-> 0, count |-> 0,
            key |-> 0]
LoadOrInit(key) ==
    LET s == InKeyOrder(Rows.events)
    IN  IF Rows.head = NoHead
        THEN [Refused EXCEPT !.last_hash = IF s = <<>> THEN Genesis ELSE Last(s).hash,
                             !.seq = Len(s), !.count = Len(s), !.key = key]
        ELSE IF Rows.head.key = key THEN Rows.head ELSE Refused

\* The cached head is preferred.
HeadFor(key) == IF cached # NoHead THEN cached ELSE LoadOrInit(key)

MutKeepSeq(head, key, id, ts) ==
    LET hash == HashOf(key, head.last_hash, id, ts)
    IN  [event |-> [ts |-> ts, seq |-> head.seq, id |-> id, hash |-> hash],
         head |-> [head EXCEPT !.last_hash = hash, !.count = @ + 1, !.key = key]]

\* One event chained behind the head, and the signed head that follows.
Chained(head, key, id, ts) ==
    LET hash == HashOf(key, head.last_hash, id, ts)
    IN  [event |-> [ts |-> ts, seq |-> head.seq + 1, id |-> id, hash |-> hash],
         head |-> [head EXCEPT !.last_hash = hash, !.seq = @ + 1,
                               !.count = @ + 1, !.key = key]]

MutSkipHead(events, key, head) ==
    LET s == InKeyOrder(events)
    IN  \A i \in DOMAIN s :
            s[i].hash = HashOf(key, IF i = 1 THEN head.anchor
                                    ELSE s[i - 1].hash, s[i].id, s[i].ts)

\* verify_integrity over the full range: the MAC, every link from the anchor,
\* and where the signed head says the chain ends.
Walks(events, key, head) ==
    LET s == InKeyOrder(events)
        PrevHash(i) == IF i = 1 THEN head.anchor ELSE s[i - 1].hash
    IN  /\ head.key = key
        /\ \A i \in DOMAIN s : s[i].hash = HashOf(key, PrevHash(i), s[i].id, s[i].ts)
        /\ Len(s) = head.count
        /\ PrevHash(Len(s) + 1) = head.last_hash

\* Its answer on these entries, this key and these rows: a missing key or head
\* is fine only for a log that holds nothing and never did.
Answer(events, key, rows) ==
    IF key = 0 \/ rows.head = NoHead
    THEN events = {} /\ ~rows.anchored
    ELSE Walks(events, key, rows.head)

-----------------------------------------------------------------------------
(* get_realm_hmac_key: the cache, then storage, else mint and store one.   *)

KnownKey == IF key_cache # 0 THEN key_cache ELSE Rows.key

\* Found keys go on to step `next`; a missing one is to be minted.
KeyStep(next) == IF KnownKey = 0 THEN "mint" ELSE next

\* The generated key overwrites whatever is stored by now.
Mint ==
    /\ minted' = minted + 1
    /\ Write([Rows EXCEPT !.key = minted'])

-----------------------------------------------------------------------------
(* append: the chain lock is held from AppendLock to AppendChain.          *)

AppendLock(a) ==
    /\ app[a].at = "idle" /\ lock = "free" /\ appends < MaxAppends
    /\ appends' = appends + 1
    /\ lock' = a
    /\ app' = [app EXCEPT ![a] = [at |-> KeyStep("chain"), key |-> KnownKey,
                                  id |-> appends', no |-> 0]]
    /\ key_cache' = KnownKey
    /\ UNCHANGED <<storeVars, now, cached, imp, prune, histVars,
                   imports, prunes, faults, crashes>>

AppendMint(a) ==
    /\ app[a].at = "mint" /\ ~fenced
    /\ Mint
    /\ app' = [app EXCEPT ![a].at = "minting", ![a].key = minted',
                          ![a].no = RowsNo + 1]
    /\ UNCHANGED <<durableNo, fenced, now, chainVars, imp, prune,
                   acked, boundVars>>

AppendMinted(a) ==
    /\ app[a].at = "minting" /\ Durable(app[a].no)
    /\ key_cache' = app[a].key
    /\ app' = [app EXCEPT ![a].at = "chain"]
    /\ UNCHANGED <<storeVars, now, lock, cached, imp, prune, histVars,
                   boundVars>>

\* Chain the event, advance the cache, enqueue the rows, release the lock.
AppendChain(a) ==
    /\ app[a].at = "chain" /\ ~fenced /\ HeadFor(app[a].key) # Refused
    /\ LET c == Chained(HeadFor(app[a].key), app[a].key, app[a].id, now)
       IN  /\ Write([Rows EXCEPT !.events = @ \union {c.event}, !.head = c.head])
           /\ cached' = c.head
    /\ lock' = "free"
    /\ app' = [app EXCEPT ![a].at = "await", ![a].no = RowsNo + 1]
    /\ UNCHANGED <<durableNo, fenced, now, key_cache, imp, prune,
                   histVars, boundVars>>

\* The key's put fails, or the stored head does not authenticate, or the fence
\* refuses the enqueue; only the last of these drops the cached head.
AppendRefused(a) ==
    /\ \/ app[a].at = "mint" /\ fenced /\ cached' = cached
       \/ app[a].at = "minting" /\ Failed(app[a].no) /\ cached' = cached
       \/ /\ app[a].at = "chain" /\ HeadFor(app[a].key) = Refused
          /\ cached' = cached
       \/ /\ app[a].at = "chain" /\ HeadFor(app[a].key) # Refused /\ fenced
          /\ cached' = NoHead
    /\ lock' = "free"
    /\ app' = [app EXCEPT ![a] = IdleApp]
    /\ UNCHANGED <<storeVars, now, key_cache, imp, prune, histVars,
                   boundVars>>

\* record_chain_anchor, once the event is durable; a failed put is only logged.
RecordAnchor ==
    IF Rows.anchored \/ fenced THEN versions' = versions
    ELSE Write([Rows EXCEPT !.anchored = TRUE])

AppendDurable(a) ==
    /\ app[a].at = "await" /\ Durable(app[a].no)
    /\ acked' = acked \union {app[a].id}
    /\ RecordAnchor
    /\ app' = [app EXCEPT ![a] = IdleApp]
    /\ UNCHANGED <<durableNo, fenced, now, chainVars, imp, prune,
                   minted, boundVars>>

\* on_failure: take the chain lock again and drop the cached head.
AppendFailed(a) ==
    /\ app[a].at = "await" /\ Failed(app[a].no) /\ lock = "free"
    /\ cached' = NoHead
    /\ app' = [app EXCEPT ![a] = IdleApp]
    /\ UNCHANGED <<storeVars, now, lock, key_cache, imp, prune,
                   histVars, boundVars>>

-----------------------------------------------------------------------------
(* prune_batch, for prune_before (a cutoff) and prune_oldest (a number).   *)

MutKeepAnchor(head, gone) ==
    [head EXCEPT !.count = @ - Len(gone)]

\* plan_prune: re-anchor on the newest deleted event.
Reanchored(head, gone) ==
    LET anchor == Last(gone).hash
        count  == IF head.count < Len(gone) THEN 0 ELSE head.count - Len(gone)
    IN  [head EXCEPT !.anchor = anchor, !.count = count,
                     !.last_hash = IF count = 0 THEN anchor ELSE @]

\* The oldest events before the cutoff, the deletions and the new head in one
\* record; the lock is kept until the record is durable.  A refused enqueue
\* changes nothing.
PruneWrite(cutoff, max) ==
    /\ prune.at = "idle" /\ lock = "free" /\ ~fenced /\ prunes < MaxPrunes
    /\ LET old  == InKeyOrder({e \in Rows.events : e.ts < cutoff})
           gone == SubSeq(old, 1, Min({Len(old), max}))
           ids  == {gone[i].id : i \in DOMAIN gone}
       IN  /\ gone # <<>> /\ HeadFor(KnownKey) # Refused
           /\ LET head == [Reanchored(HeadFor(KnownKey), gone)
                             EXCEPT !.key = KnownKey]
              IN  /\ Write([Rows EXCEPT !.events = {e \in @ : e.id \notin ids},
                                        !.pruned = @ \union ids, !.head = head])
                  /\ prune' = [at |-> "await", head |-> head, no |-> RowsNo + 1]
    /\ prunes' = prunes + 1
    /\ lock' = "prune"
    /\ key_cache' = KnownKey
    /\ UNCHANGED <<durableNo, fenced, now, cached, app, imp, histVars,
                   appends, imports, faults, crashes>>

MutPruneKeepsCache ==
    /\ prune.at = "await" /\ Durable(prune.no)
    /\ lock' = "free"
    /\ prune' = IdlePrune
    /\ UNCHANGED <<storeVars, now, cached, key_cache, app, imp,
                   histVars, boundVars>>

PruneDurable ==
    /\ prune.at = "await" /\ Durable(prune.no)
    /\ cached' = prune.head
    /\ lock' = "free"
    /\ prune' = IdlePrune
    /\ UNCHANGED <<storeVars, now, key_cache, app, imp, histVars,
                   boundVars>>

\* The error returns before the cache is touched.
PruneFailed ==
    /\ prune.at = "await" /\ Failed(prune.no)
    /\ lock' = "free"
    /\ prune' = IdlePrune
    /\ UNCHANGED <<storeVars, now, cached, key_cache, app, imp,
                   histVars, boundVars>>

-----------------------------------------------------------------------------
(* import_events: one at a time (the import lock), the chain lock per chunk. *)

\* The key is fetched before, and not under, the chain lock.
ImportBegin(archive) ==
    /\ imp.at = "idle" /\ imports < MaxImports
    /\ imports' = imports + 1
    /\ imp' = [IdleImport EXCEPT !.at = KeyStep("scan"), !.archive = archive,
                                 !.key = KnownKey]
    /\ key_cache' = KnownKey
    /\ UNCHANGED <<storeVars, now, lock, cached, app, prune, histVars,
                   appends, prunes, faults, crashes>>

ImportMint ==
    /\ imp.at = "mint" /\ ~fenced
    /\ Mint
    /\ imp' = [imp EXCEPT !.at = "minting", !.key = minted', !.no = RowsNo + 1]
    /\ UNCHANGED <<durableNo, fenced, now, chainVars, app, prune,
                   acked, boundVars>>

ImportMinted ==
    /\ imp.at = "minting" /\ Durable(imp.no)
    /\ key_cache' = imp.key
    /\ imp' = [imp EXCEPT !.at = "scan"]
    /\ UNCHANGED <<storeVars, now, lock, cached, app, prune, histVars,
                   boundVars>>

MutForgetHeld == {}

\* held_event_ids
HeldIds == {e.id : e \in Rows.events}

\* What the realm holds, and whether the archive's own times can be kept.
ImportScan ==
    /\ imp.at = "scan"
    /\ LET a == imp.archive
       IN  imp' = [imp EXCEPT
              !.at = "chunk",
              !.known = HeldIds,
              !.restamp = \/ \E i \in 1 .. Len(a) - 1 : a[i].ts > a[i + 1].ts
                          \/ \E i \in DOMAIN a : a[i].ts > now,
              !.stamp = Max({now} \union {e.ts : e \in Rows.events})]
    /\ UNCHANGED <<storeVars, now, chainVars, app, prune, histVars,
                   boundVars>>

MutOnlyBefore(head) ==
    imp.our_seq = 0 /\ head.count > 0

\* Something else is in the chain: before the import, or since its last chunk.
Interleaved(head) ==
    IF imp.our_seq = 0 THEN head.count > 0 ELSE head.seq # imp.our_seq

\* Chain one archived event unless the realm holds it.
ImportOne(acc, source) ==
    IF source.id \in acc.known THEN acc
    ELSE LET c == Chained(acc.head, imp.key, source.id,
                          IF acc.restamp THEN acc.stamp ELSE source.ts)
         IN  [acc EXCEPT !.known = @ \union {source.id}, !.head = c.head,
                         !.events = @ \union {c.event}]

\* Where the loop's next chunk ends in the archive.
ChunkEnd == Min({imp.next + ImportChunk, Len(imp.archive)})

\* What the chunk starts from: once something else is in the chain, archived
\* times are no longer kept.
ChunkStart ==
    LET head  == HeadFor(imp.key)
        mixed == Interleaved(head)
    IN  [known |-> imp.known, head |-> head, events |-> {},
         restamp |-> imp.restamp \/ mixed,
         stamp |-> IF mixed THEN Max({imp.stamp, now}) ELSE imp.stamp]

\* One chunk chained behind the current head, event by event.
Chunk ==
    LET run[i \in imp.next .. ChunkEnd] ==
            IF i = imp.next THEN ChunkStart
            ELSE ImportOne(run[i - 1], imp.archive[i])
    IN  run[ChunkEnd]

\* The loop's next chunk, from lock to unlock; one that holds only duplicates
\* writes nothing and goes on.
ImportWrite ==
    /\ imp.at = "chunk" /\ imp.next < Len(imp.archive) /\ lock = "free"
    /\ HeadFor(imp.key) # Refused
    /\ LET c == Chunk
           step == [imp EXCEPT !.known = c.known, !.restamp = c.restamp,
                               !.stamp = c.stamp,
                               !.next = ChunkEnd]
       IN  \/ /\ c.events = {}
              /\ imp' = step
              /\ UNCHANGED <<versions, cached>>
           \/ /\ c.events # {} /\ ~fenced
              /\ Write([Rows EXCEPT !.events = @ \union c.events,
                                    !.head = c.head])
              /\ cached' = c.head
              /\ imp' = [step EXCEPT !.at = "await", !.no = RowsNo + 1,
                                     !.seq = c.head.seq]
           \/ /\ c.events # {} /\ fenced
              /\ cached' = NoHead
              /\ imp' = IdleImport
              /\ UNCHANGED versions
    /\ UNCHANGED <<durableNo, fenced, now, lock, key_cache, app, prune,
                   histVars, boundVars>>

\* The chunk is durable: remember where it ended the chain.
ImportDurable ==
    /\ imp.at = "await" /\ Durable(imp.no)
    /\ imp' = [imp EXCEPT !.at = "chunk", !.our_seq = imp.seq]
    /\ acked' = acked \union {imp.archive[i].id : i \in 1 .. imp.next}
    /\ RecordAnchor
    /\ UNCHANGED <<durableNo, fenced, now, chainVars, app, prune,
                   minted, boundVars>>

ImportDone ==
    /\ imp.at = "chunk" /\ imp.next = Len(imp.archive)
    /\ imp' = IdleImport
    /\ UNCHANGED <<storeVars, now, chainVars, app, prune, histVars,
                   boundVars>>

\* The key's put or the chunk's commit fails, or the stored head does not
\* authenticate; a failed commit drops the cached head under the lock.
ImportFailed ==
    /\ \/ imp.at = "mint" /\ fenced /\ cached' = cached
       \/ imp.at = "minting" /\ Failed(imp.no) /\ cached' = cached
       \/ /\ imp.at = "chunk" /\ imp.next < Len(imp.archive) /\ lock = "free"
          /\ HeadFor(imp.key) = Refused /\ cached' = cached
       \/ imp.at = "await" /\ Failed(imp.no) /\ lock = "free" /\ cached' = NoHead
    /\ imp' = IdleImport
    /\ UNCHANGED <<storeVars, now, lock, key_cache, app, prune,
                   histVars, boundVars>>

-----------------------------------------------------------------------------
(* The storage engine and the clock.                                        *)

Commit ==
    /\ Len(versions) > 1 /\ ~fenced
    /\ versions' = Tail(versions)
    /\ durableNo' = durableNo + 1
    /\ UNCHANGED <<fenced, now, chainVars, app, imp, prune, histVars,
                   boundVars>>

\* A failed commit fences the WAL; what it holds stays readable until restart.
Fault ==
    /\ faults < MaxFaults /\ ~fenced /\ Len(versions) > 1
    /\ faults' = faults + 1
    /\ fenced' = TRUE
    /\ UNCHANGED <<versions, durableNo, now, chainVars, app, imp, prune,
                   histVars, appends, imports, prunes, crashes>>

Tick ==
    /\ now < MaxTime
    /\ now' = now + 1
    /\ UNCHANGED <<storeVars, chainVars, app, imp, prune, histVars,
                   boundVars>>

\* The process stops and a new one opens what the disk kept: the durable
\* version, or a later one whose records reached the disk unacknowledged.
CrashAndRestart ==
    /\ crashes < MaxCrashes
    /\ crashes' = crashes + 1
    /\ \E i \in DOMAIN versions :
          versions' = <<versions[i]>> /\ durableNo' = durableNo + i - 1
    /\ fenced' = FALSE
    /\ lock' = "free" /\ cached' = NoHead /\ key_cache' = 0
    /\ app' = [a \in Appenders |-> IdleApp]
    /\ imp' = IdleImport /\ prune' = IdlePrune
    /\ UNCHANGED <<now, histVars, appends, imports, prunes, faults>>

Next ==
    \/ \E a \in Appenders :
          \/ AppendLock(a) \/ AppendMint(a) \/ AppendMinted(a) \/ AppendChain(a)
          \/ AppendRefused(a) \/ AppendDurable(a) \/ AppendFailed(a)
    \/ \E cutoff \in 1 .. MaxTime + 1, max \in 1 .. PruneBatch :
          PruneWrite(cutoff, max)
    \/ PruneDurable \/ PruneFailed
    \/ \E archive \in Archives : ImportBegin(archive)
    \/ ImportMint \/ ImportMinted \/ ImportScan \/ ImportWrite
    \/ ImportDurable \/ ImportDone \/ ImportFailed
    \/ Commit \/ Fault \/ Tick \/ CrashAndRestart

Spec == Init /\ [][Next]_vars

-----------------------------------------------------------------------------
(* Properties.                                                              *)

\* Heads are either absent or count no more live events than were ever chained
\* (ChainHead: seq never decreases, count does with prunes); the lock is free
\* or held by one of its takers.
IsHead(h) == h = NoHead \/ (h.count \in Nat /\ h.seq \in Nat /\ h.count <= h.seq)
TypeOK ==
    /\ lock \in Appenders \union {"free", "prune"}
    /\ fenced \in BOOLEAN /\ now \in 0 .. MaxTime
    /\ IsHead(cached) /\ IsHead(prune.head)
    /\ \A i \in DOMAIN versions : IsHead(versions[i].head)

\* Whatever interleaving of appends, import chunks, prunes, faults and restarts
\* produced it, the log verifies as long as one chain key was minted: links,
\* anchor, count and end all agree (verify_integrity).  Every version a crash can
\* restore was once the newest, so this speaks of those too.
ChainVerifies == minted <= 1 => Answer(Rows.events, Rows.key, Rows)

\* With the chain lock free and the WAL not fenced, a cached head is the stored
\* head: no rollback, prune or import leaves the next append a stale one to
\* chain off (with_pending_append's `*cached`).
CacheCurrent ==
    lock = "free" /\ ~fenced /\ cached # NoHead => cached = Rows.head

\* An event whose append or import reported success is in every version a crash
\* could restore, unless that version records its prune.
AckedKept ==
    \A i \in DOMAIN versions :
        acked \subseteq {e.id : e \in versions[i].events} \union versions[i].pruned

\* No sequence of imports, failures and repeated imports gives the log one event
\* twice (import_events dedupes against what the realm holds).
NoDuplicates ==
    \A d, e \in Rows.events : d.id = e.id => d = e

\* Removing any one event from a log that verifies is noticed, the newest one
\* and the oldest one after a prune included (ChainHead: count, last_hash and
\* anchor).
LossDetected ==
    minted <= 1 =>
        \A e \in Rows.events : ~Walks(Rows.events \ {e}, Rows.key, Rows.head)

=============================================================================
