------------------------------ MODULE ReadPath ------------------------------
(***************************************************************************)
(* A point read against everything that runs beside it: the lock-free walk *)
(* of EmbeddedStorageEngine::get through hot tier, active memtable, parked *)
(* memtable and SST list, and the fill of the hot tier on the way back,    *)
(* while writers apply and invalidate, a flush moves the key between       *)
(* layers, and the hot tier evicts (src/src/storage/engine.rs, memtable.rs *)
(* and tiered.rs).  One key; every step is one load, one store or one      *)
(* critical section.                                                       *)
(***************************************************************************)
EXTENDS Naturals, FiniteSets

CONSTANTS
    Readers,            \* threads in get
    Values,
    Tombstone, Absent,  \* MemtableValue::Tombstone; no entry, or not cached
    MaxWrites,          \* bound: writes of the key
    MaxFlushes,         \* bound: flushes
    MaxFaults,          \* bound: flushes whose SST write fails
    MaxReads,           \* bound: reads started
    MaxNeighbours       \* bound: writes of other keys of the same shard

ASSUME ReadAssumption ==
    /\ Tombstone \notin Values /\ Absent \notin Values /\ Tombstone # Absent
    /\ {MaxWrites, MaxFlushes, MaxFaults, MaxReads, MaxNeighbours} \subseteq Nat

VARIABLES
    maps,        \* contents of each SkipMap ever installed, by generation
    active,      \* Memtable::data, a generation
    flushing,    \* Memtable::flushing, a generation or 0
    sst,         \* what the published reader list holds for the key
    hot,         \* the hot-tier entry
    epoch,       \* the shard's invalidation_epoch
    flushPc,     \* the flush under flush_lock
    writer,      \* the writer inside the enqueue critical section
    pc, map, fill, found,       \* per reader: step, loaded map, FillGuard, value
    latest,      \* history: visible value after the last applied write
    settled,     \* history: visible value after the last finished write
    allowed,     \* history: values a running read may return
    caught,      \* history: a failed flush folded its map back while a read
                 \* was between the active and the parked map
    writes, faults, reads, neighbours

layerVars  == <<maps, active, flushing, sst>>
tierVars   == <<hot, epoch>>
readerVars == <<pc, map, fill, found>>
histVars   == <<latest, settled, allowed, caught>>
boundVars  == <<writes, faults, reads, neighbours>>
vars == <<layerVars, tierVars, flushPc, writer, readerVars, histVars,
          boundVars>>

Entries == Values \union {Tombstone}
VisibleOf(e) == IF e \in Values THEN e ELSE Absent

Generations == 1 .. MaxFlushes + 1

Init ==
    /\ maps = [g \in Generations |-> Absent]
    /\ active = 1 /\ flushing = 0 /\ sst = Absent
    /\ hot = Absent /\ epoch = 0
    /\ flushPc = "idle" /\ writer = "idle"
    /\ pc = [r \in Readers |-> "idle"]
    /\ map = [r \in Readers |-> 1]
    /\ fill = [r \in Readers |-> 0]
    /\ found = [r \in Readers |-> Absent]
    /\ latest = Absent /\ settled = Absent
    /\ allowed = [r \in Readers |-> {}] /\ caught = FALSE
    /\ writes = 0 /\ faults = 0 /\ reads = 0 /\ neighbours = 0

-----------------------------------------------------------------------------
(* Writers: put and delete apply inside the WAL's enqueue critical section *)
(* (one at a time): memtable insert, epoch bump, removal from the tier.    *)

\* The memtable's write_lock is free unless a flush is between its two swaps.
WriteLockFree == flushPc # "parked"

Apply(e) ==
    /\ writer = "idle" /\ WriteLockFree /\ writes < MaxWrites
    /\ writes' = writes + 1
    /\ maps' = [maps EXCEPT ![active] = e]
    /\ latest' = VisibleOf(e)
    /\ allowed' = [r \in Readers |->
          IF pc[r] = "idle" THEN {} ELSE allowed[r] \union {VisibleOf(e)}]
    /\ writer' = "applied"
    /\ UNCHANGED <<active, flushing, sst, tierVars, flushPc, readerVars,
                   settled, caught, faults, reads, neighbours>>

InvalidateBump ==
    /\ writer = "applied"
    /\ epoch' = epoch + 1
    /\ writer' = "bumped"
    /\ UNCHANGED <<layerVars, hot, flushPc, readerVars, histVars, boundVars>>

InvalidateRemove ==
    /\ writer = "bumped"
    /\ hot' = Absent
    /\ settled' = latest
    /\ writer' = "idle"
    /\ UNCHANGED <<layerVars, epoch, flushPc, readerVars, latest, allowed,
                   caught, boundVars>>

-----------------------------------------------------------------------------
(* The flush.                                                              *)

MutInstallFirst ==
    /\ \/ /\ flushPc = "idle" /\ maps[active] # Absent /\ active < MaxFlushes + 1
          /\ active' = active + 1 /\ flushing' = flushing
          /\ flushPc' = "installed"
       \/ /\ flushPc = "installed"
          /\ active' = active /\ flushing' = active - 1
          /\ flushPc' = "writing"
    /\ UNCHANGED <<maps, sst, tierVars, writer, readerVars, histVars, boundVars>>

\* Under write_lock: park the full map first ...
FlushPark ==
    /\ flushPc = "idle" /\ maps[active] # Absent /\ active < MaxFlushes + 1
    /\ flushing' = active
    /\ flushPc' = "parked"
    /\ UNCHANGED <<maps, active, sst, tierVars, writer, readerVars, histVars,
                   boundVars>>

\* ... then install an empty one.
FlushInstall ==
    /\ flushPc = "parked"
    /\ active' = flushing + 1
    /\ flushPc' = "writing"
    /\ UNCHANGED <<maps, flushing, sst, tierVars, writer, readerVars,
                   histVars, boundVars>>

\* The closure wrote the SST and publishes the rebuilt reader list.
FlushPublish ==
    /\ flushPc = "writing"
    /\ sst' = maps[flushing]
    /\ flushPc' = "clear"
    /\ UNCHANGED <<maps, active, flushing, tierVars, writer, readerVars,
                   histVars, boundVars>>

\* The closure failed: fold the parked entry back unless a newer one is there.
FlushReabsorb ==
    /\ flushPc = "writing" /\ faults < MaxFaults
    /\ faults' = faults + 1
    /\ maps' = IF maps[active] = Absent
               THEN [maps EXCEPT ![active] = maps[flushing]] ELSE maps
    /\ caught' = (caught \/ \E r \in Readers : pc[r] = "flushing")
    /\ flushPc' = "clear"
    /\ UNCHANGED <<active, flushing, sst, tierVars, writer, readerVars, latest,
                   settled, allowed, writes, reads, neighbours>>

\* Drop the parked map.
FlushClear ==
    /\ flushPc = "clear"
    /\ flushing' = 0
    /\ flushPc' = "idle"
    /\ UNCHANGED <<maps, active, sst, tierVars, writer, readerVars, histVars,
                   boundVars>>

-----------------------------------------------------------------------------
(* The rest of the hot tier.                                               *)

\* A clock sweep, or a promotion of another key, evicts the entry.
Evict ==
    /\ hot # Absent
    /\ hot' = Absent
    /\ UNCHANGED <<layerVars, epoch, flushPc, writer, readerVars, histVars,
                   boundVars>>

\* A write of another key in the shard bumps the epoch they share.
NeighbourInvalidate ==
    /\ neighbours < MaxNeighbours
    /\ neighbours' = neighbours + 1
    /\ epoch' = epoch + 1
    /\ UNCHANGED <<layerVars, hot, flushPc, writer, readerVars, histVars,
                   writes, faults, reads>>

-----------------------------------------------------------------------------
(* Readers.                                                                *)

Goto(r, p) == pc' = [pc EXCEPT ![r] = p]
sharedVars == <<layerVars, tierVars, flushPc, writer>>

\* A read may return what the last finished write left, or what any write
\* running at the same time writes.
BeginGet(r) ==
    /\ pc[r] = "idle" /\ reads < MaxReads
    /\ reads' = reads + 1
    /\ allowed' = [allowed EXCEPT ![r] = {settled, latest}]
    /\ Goto(r, "hot")
    /\ UNCHANGED <<sharedVars, map, fill, found, latest, settled, caught,
                   writes, faults, neighbours>>

HotGet(r) ==
    /\ pc[r] = "hot"
    /\ found' = [found EXCEPT ![r] = hot]
    /\ Goto(r, IF hot # Absent THEN "done" ELSE "begin_fill")
    /\ UNCHANGED <<sharedVars, map, fill, histVars, boundVars>>

BeginFill(r) ==
    /\ pc[r] = "begin_fill"
    /\ fill' = [fill EXCEPT ![r] = epoch]
    /\ Goto(r, "active")
    /\ UNCHANGED <<sharedVars, map, found, histVars, boundVars>>

\* get_entry: load the active map ...
LoadActive(r) ==
    /\ pc[r] = "active"
    /\ map' = [map EXCEPT ![r] = active]
    /\ Goto(r, "lookup")
    /\ UNCHANGED <<sharedVars, fill, found, histVars, boundVars>>

\* What a layer's answer leads to: data is promoted, a tombstone ends the
\* search, a miss goes one layer down.
Answer(r, e, deeper) ==
    /\ found' = [found EXCEPT ![r] = VisibleOf(e)]
    /\ Goto(r, IF e \in Values THEN "promote"
               ELSE IF e = Tombstone THEN "done" ELSE deeper)

\* ... and look the key up in that map, whatever `active' is by now.
LookupActive(r) ==
    /\ pc[r] = "lookup"
    /\ Answer(r, maps[map[r]], "flushing")
    /\ UNCHANGED <<sharedVars, map, fill, histVars, boundVars>>

LookupFlushing(r) ==
    /\ pc[r] = "flushing"
    /\ Answer(r, IF flushing = 0 THEN Absent ELSE maps[flushing], "sst")
    /\ UNCHANGED <<sharedVars, map, fill, histVars, boundVars>>

LookupSst(r) ==
    /\ pc[r] = "sst"
    /\ Answer(r, sst, "done")
    /\ UNCHANGED <<sharedVars, map, fill, histVars, boundVars>>

MutFillStale(r) == TRUE

\* The guard's epoch is still the shard's.
FillFresh(r) == epoch = fill[r]

\* The shard lock makes check and insert one step; admission is a sample, so
\* a promotion may also be skipped.
Promote(r) ==
    /\ pc[r] = "promote"
    /\ \E admitted \in BOOLEAN :
          hot' = IF admitted /\ FillFresh(r) THEN found[r] ELSE hot
    /\ Goto(r, "done")
    /\ UNCHANGED <<layerVars, epoch, flushPc, writer, map, fill, found,
                   histVars, boundVars>>

Return(r) ==
    /\ pc[r] = "done"
    /\ Goto(r, "idle")
    /\ found' = [found EXCEPT ![r] = Absent]
    /\ allowed' = [allowed EXCEPT ![r] = {}]
    /\ UNCHANGED <<sharedVars, map, fill, latest, settled, caught,
                   boundVars>>

ReaderStep(r) ==
    \/ BeginGet(r) \/ HotGet(r) \/ BeginFill(r) \/ LoadActive(r)
    \/ LookupActive(r) \/ LookupFlushing(r) \/ LookupSst(r) \/ Promote(r)
    \/ Return(r)

FlushStep ==
    FlushPark \/ FlushInstall \/ FlushPublish \/ FlushClear

Next ==
    \/ \E e \in Entries : Apply(e)
    \/ InvalidateBump \/ InvalidateRemove
    \/ FlushStep \/ FlushReabsorb
    \/ Evict \/ NeighbourInvalidate
    \/ \E r \in Readers : ReaderStep(r)

Spec == Init /\ [][Next]_vars

-----------------------------------------------------------------------------
(* Properties.                                                             *)

\* A read returns the value of the last write that had finished when it
\* began, or of a write that overlaps it ("a key mid-flush is always visible
\* from one or the other", the module comment of memtable.rs).
RegularRead == \A r \in Readers : pc[r] = "done" => found[r] \in allowed[r]

\* However a flush moves the key between the layers a read has passed and
\* those it has not reached, and whatever fill is in flight when a write
\* invalidates, the read is regular and a delete that has returned is not
\* undone by the cache; the one exception is a failed flush that catches a
\* read between the two memtables (get, flush_streaming, promote).
RegularUnlessCaught == ~caught => RegularRead

\* Between writes the hot tier holds nothing or the current value: no fill
\* that read before the last write lands after it (begin_fill, promote,
\* invalidate), with the same exception.
HotCoherent == ~caught /\ writer = "idle" /\ hot # Absent => hot = latest
=============================================================================
