------------------------ MODULE ClusterStateMachine ------------------------
(***************************************************************************)
(* The replicated state machine of src/src/cluster/state_machine.rs on the *)
(* nodes of a cluster: committed entries applied one atomic batch at a     *)
(* time, snapshots scanned while entries keep being applied, a snapshot    *)
(* installed in place, realm by realm, over the live engine, and crashes   *)
(* between any two steps.                                                  *)
(*                                                                         *)
(* Raft itself (openraft) is external: the model has one committed log,    *)
(* each node applies it in order, and a node that lags may be sent another *)
(* node's snapshot instead of the entries.  An entry is committed when the *)
(* first node starts to apply it.  A batch is durable all at once, but it  *)
(* reaches the in-memory map row by row, and a scan walks that map row by  *)
(* row with no lock (storage/memtable.rs).  Rows that have left the map    *)
(* for an SST file, the membership row (written with the applied row of    *)
(* its entry) and the responses to the proposer are left out; what the     *)
(* observer is told is in ControlPlane.                                    *)
(***************************************************************************)
EXTENDS Naturals, SequencesExt, FiniteSetsExt

CONSTANTS
    Node,
    Command,     \* the entries that may be committed
    Value,       \* what a plain key may hold
    Absent,      \* no row
    Bad,         \* bytes that do not decode as a counter
    MaxWork,     \* bound: entries committed and snapshots built, together
    MaxCrashes   \* bound: crashes

(* The rows: realm "acct" holds a counter and its sidecar, realm "data" one *)
(* plain key.  A realm's name stands for its own applied-state row.  Realm  *)
(* "meta" (the nil id, first in every listing) is also the system realm,    *)
(* whose data (the control epoch, for one) is cleared, put and scanned like *)
(* another realm's: "acct" stands for it, and "meta" has no other row here. *)
Counter == "count"
Sidecar == "count.index"
Plain   == "key"
Realms  == {"meta", "acct", "data"}
Rows    == Realms \union {Counter, Sidecar, Plain}

RealmOf(row) ==
    CASE row \in {Counter, Sidecar} -> "acct"
      [] row = Plain -> "data"
      [] OTHER -> row

Row(key, value) == [key |-> key, value |-> value]

None == <<>>   \* no snapshot, build or install

(* What a client writes: never a sidecar or applied-state row, whose names *)
(* carry a tag that no caller uses; bytes put in a counter decode or are   *)
(* Bad.                                                                    *)
Content == Nat \union {Bad} \union Value

Writable(key, value) ==
    \/ key = Counter /\ value \in Nat \union {Bad}
    \/ key = Plain /\ value \in Value

ASSUME CommandAssumption ==
    \A c \in Command :
        \/ c.op = "blank"
        \/ c.op = "increment" /\ c.key = Counter
        \/ c.op = "put_if_absent" /\ Writable(c.key, c.value)
        \/ /\ c.op = "write"
           /\ c.puts # <<>> \/ c.deletes # <<>>
           /\ c.puts \in Seq([key : {Counter, Plain}, value : Content])
           /\ \A j \in DOMAIN c.puts : Writable(c.puts[j].key, c.puts[j].value)
           /\ c.deletes \in Seq({Counter, Plain})

ASSUME ValueAssumption ==
    /\ Absent # Bad /\ Absent \notin Nat \union Value /\ Bad \notin Nat
    /\ MaxWork \in Nat /\ MaxCrashes \in Nat

VARIABLES
    log,      \* the committed entries
    mem,      \* per node: the rows a reader of the live engine sees
    disk,     \* per node: the rows a restart recovers
    batch,    \* per node: the rows of the batch still to reach the map
    last,     \* per node: last_applied
    up,       \* the nodes that run
    build,    \* per node: the snapshot build in progress
    slot,     \* per node: current_snapshot, kept in memory only
    install,  \* per node: the install that wrote the restore marker
    purged,   \* the nodes whose Raft log has been purged
    fuzz,     \* history, per node: the last entry its installed data may hold
    torn,     \* history: nodes whose counter came from a torn scan
    mixed,    \* history: nodes restarted by hand on a half-cleared store
    builds,   \* snapshots started so far
    crashes   \* crashes so far

vars == <<log, mem, disk, batch, last, up, build, slot, install, purged,
          fuzz, torn, mixed, builds, crashes>>

history == <<fuzz, torn, mixed>>

counts == <<builds, crashes>>

-----------------------------------------------------------------------------
(* One entry.                                                              *)

(* What the row named key holds after the rows of seq are stored: the last *)
(* of them counts.                                                         *)
Latest(seq, key, old) ==
    LET writes == {j \in DOMAIN seq : seq[j].key = key}
    IN IF writes = {} THEN old ELSE seq[Max(writes)].value

StoreAll(rows, seq) == [row \in Rows |-> Latest(seq, row, rows[row])]

Decoded(value) == IF value = Absent THEN 0 ELSE value

CommandRealm(c) ==
    CASE c.op = "blank" -> "meta"
      [] c.op \in {"increment", "put_if_absent"} -> RealmOf(c.key)
      [] c.op = "write" ->
            RealmOf(IF c.puts # <<>> THEN c.puts[1].key ELSE c.deletes[1])

(* A key that has a sidecar row gets it set to this entry's index. *)
MovedSidecars(rows, keys, i) ==
    IF Counter \in ToSet(keys) /\ rows[Sidecar] # Absent
    THEN <<Row(Sidecar, i)>>
    ELSE <<>>

(* The counter's and the sidecar's new rows: repaired to the entry's index *)
(* when either does not decode, none when the entry was counted before.    *)
IncrementOnce(rows, key, i) ==
    CASE Bad \in {rows[key], rows[Sidecar]} ->
            <<Row(key, i), Row(Sidecar, i)>>
      [] Bad \notin {rows[key], rows[Sidecar]} /\ Decoded(rows[Sidecar]) >= i ->
            <<>>
      [] OTHER ->
            <<Row(key, Decoded(rows[key]) + 1), Row(Sidecar, i)>>

(* The one write_batch of entry i, in the order its rows reach the map. *)
Batch(rows, c, i) ==
    LET applied == Row(CommandRealm(c), i)
    IN CASE c.op = "blank" ->
                <<applied>>
         [] c.op = "increment" ->
                Append(IncrementOnce(rows, c.key, i), applied)
         [] c.op = "put_if_absent" ->
                IF rows[c.key] = Absent
                THEN MovedSidecars(rows, <<c.key>>, i)
                         \o <<Row(c.key, c.value), applied>>
                ELSE <<applied>>
         [] c.op = "write" ->
                LET put == [j \in DOMAIN c.puts |-> c.puts[j].key]
                IN c.puts \o MovedSidecars(rows, put \o c.deletes, i)
                     \o <<applied>>
                     \o [j \in DOMAIN c.deletes |-> Row(c.deletes[j], Absent)]

-----------------------------------------------------------------------------
EmptyStore == [row \in Rows |-> Absent]

Init ==
    /\ log = <<>>
    /\ mem = [n \in Node |-> EmptyStore]
    /\ disk = [n \in Node |-> EmptyStore]
    /\ batch = [n \in Node |-> <<>>]
    /\ last = [n \in Node |-> 0]
    /\ up = Node
    /\ build = [n \in Node |-> None]
    /\ slot = [n \in Node |-> None]
    /\ install = [n \in Node |-> None]
    /\ purged = {}
    /\ fuzz = [n \in Node |-> 0]
    /\ torn = {} /\ mixed = {}
    /\ builds = 0 /\ crashes = 0

(* The state machine handles one call at a time; only a build runs beside  *)
(* it.                                                                     *)
Idle(n) == n \in up /\ batch[n] = <<>> /\ install[n] = None

-----------------------------------------------------------------------------
(* apply: the batch of the next entry, row by row when a build may be      *)
(* reading, else at once, which nobody can tell apart; the step that       *)
(* inserts the last row also stands for the fsync that makes it durable.   *)

ApplyStart(n) ==
    /\ Idle(n)
    /\ \/ last[n] < Len(log) /\ UNCHANGED log
       \/ /\ last[n] = Len(log) /\ Len(log) + builds < MaxWork
          /\ \E c \in Command : log' = Append(log, c)
    /\ batch' = [batch EXCEPT ![n] =
                    Batch(mem[n], log'[last[n] + 1], last[n] + 1)]
    /\ UNCHANGED <<mem, disk, last, up, build, slot, install, purged,
                   history, counts>>

ApplyRow(n) ==
    /\ n \in up /\ batch[n] # <<>>
    /\ LET rows == IF build[n] = None THEN Len(batch[n]) ELSE 1
       IN /\ mem' = [mem EXCEPT ![n] =
                        StoreAll(@, SubSeq(batch[n], 1, rows))]
          /\ batch' = [batch EXCEPT ![n] = SubSeq(@, rows + 1, Len(@))]
    /\ IF batch'[n] = <<>>
       THEN /\ disk' = [disk EXCEPT ![n] = mem'[n]]
            /\ last' = [last EXCEPT ![n] = last[n] + 1]
       ELSE UNCHANGED <<disk, last>>
    /\ UNCHANGED <<log, up, build, slot, install, purged, history, counts>>

-----------------------------------------------------------------------------
(* Building a snapshot.                                                    *)

(* seq, if realm holds any row. *)
Listed(rows, realm, seq) ==
    IF \E row \in Rows : RealmOf(row) = realm /\ rows[row] # Absent
    THEN seq
    ELSE <<>>

ListRealms(rows) ==
    Listed(rows, "meta", <<"meta">>)
        \o Listed(rows, "acct", <<"acct">>) \o Listed(rows, "data", <<"data">>)

(* The rows a scan of the listed realms reads, in key order. *)
ScanOrder(rows) ==
    Listed(rows, "acct", <<Counter, Sidecar>>) \o Listed(rows, "data", <<Plain>>)

\* Variant: a build replaces the slot whatever the slot covers.
MutOfferAlways(cur, snap) == snap

(* The slot keeps the snapshot that covers more of the log. *)
SlotOffer(cur, snap) ==
    IF cur = None THEN snap
    ELSE IF cur.index <= snap.index THEN snap ELSE cur

(* get_snapshot_builder captures last_applied; the scan then lists the     *)
(* realms on disk.  todo: the rows of those realms, in the order read.     *)
BuildStart(n) ==
    /\ Idle(n) /\ build[n] = None /\ last[n] > 0
    /\ Len(log) + builds < MaxWork
    /\ build' = [build EXCEPT ![n] =
          [index |-> last[n],
           data |-> EmptyStore,
           todo |-> ScanOrder(mem[n]),
           torn |-> n \in torn]]
    /\ builds' = builds + 1
    /\ UNCHANGED <<log, mem, disk, batch, last, up, slot, install, purged,
                   history, crashes>>

(* A batch that moves counter and sidecar has put one of them in the map. *)
HalfWritten(n) ==
    LET left == {batch[n][j].key : j \in DOMAIN batch[n]}
    IN \/ Sidecar \in left /\ Counter \notin left
       \/ Counter \in left /\ Sidecar \notin left /\ mem[n][Sidecar] # Absent

ScanRow(n) ==
    /\ n \in up /\ build[n] # None /\ build[n].todo # <<>>
    /\ LET b == build[n]
           key == Head(b.todo)
           tears == /\ key = Sidecar
                    /\ b.data[Counter] # mem[n][Counter] \/ HalfWritten(n)
       IN build' = [build EXCEPT ![n] =
              [b EXCEPT !.data[key] = mem[n][key], !.todo = Tail(@),
                        !.torn = @ \/ tears]]
    /\ UNCHANGED <<log, mem, disk, batch, last, up, slot, install, purged,
                   history, counts>>

(* The built snapshot is offered to the slot; Raft may then purge the log. *)
BuildDone(n) ==
    /\ n \in up /\ build[n] # None /\ build[n].todo = <<>>
    /\ LET b == build[n]
           applying == IF batch[n] = <<>> THEN 0 ELSE 1
           snap == [index |-> b.index, data |-> b.data,
                    upto |-> Max({last[n] + applying, fuzz[n]}),
                    torn |-> b.torn, mixed |-> n \in mixed]
       IN slot' = [slot EXCEPT ![n] = SlotOffer(slot[n], snap)]
    /\ build' = [build EXCEPT ![n] = None]
    /\ \E p \in {{}, {n}} : purged' = purged \union p
    /\ UNCHANGED <<log, mem, disk, batch, last, up, install, history, counts>>

-----------------------------------------------------------------------------
(* Installing the snapshot m serves: marker, clear, replay, meta rows,     *)
(* marker removed.  Each realm is one atomic batch.                        *)

InstallStart(n, m) ==
    /\ Idle(n) /\ Idle(m) /\ n # m
    /\ slot[m] # None /\ slot[m].index > last[n]
    /\ install' = [install EXCEPT ![n] =
          [snap |-> slot[m],
           clear |-> ListRealms(mem[n]),
           put |-> ListRealms(slot[m].data),
           meta |-> TRUE]]
    /\ fuzz' = [fuzz EXCEPT ![n] = Max({@, slot[m].upto})]
    /\ \E p \in {{}, {n}} : purged' = purged \union p
    /\ UNCHANGED <<log, mem, disk, batch, last, up, build, slot, torn, mixed,
                   counts>>

ReplaceRealm(n, realm, rows) ==
    /\ mem' = [mem EXCEPT ![n] = [row \in Rows |->
                  IF RealmOf(row) = realm THEN rows[row] ELSE mem[n][row]]]
    /\ disk' = [disk EXCEPT ![n] = mem'[n]]

InstallClear(n) ==
    /\ n \in up /\ install[n] # None /\ install[n].clear # <<>>
    /\ ReplaceRealm(n, Head(install[n].clear), EmptyStore)
    /\ install' = [install EXCEPT ![n].clear = Tail(@)]
    /\ UNCHANGED <<log, batch, last, up, build, slot, purged, history, counts>>

InstallPut(n) ==
    /\ n \in up /\ install[n] # None
    /\ install[n].clear = <<>> /\ install[n].put # <<>>
    /\ ReplaceRealm(n, Head(install[n].put), install[n].snap.data)
    /\ install' = [install EXCEPT ![n].put = Tail(@)]
    /\ UNCHANGED <<log, batch, last, up, build, slot, purged, history, counts>>

\* write_batch upserts the applied state over a realm the install has cleared;
\* its one row here is replaced.
InstallMeta(n) ==
    /\ n \in up /\ install[n] # None
    /\ install[n].clear = <<>> /\ install[n].put = <<>> /\ install[n].meta
    /\ ReplaceRealm(n, "meta", [EmptyStore EXCEPT !["meta"] =
                                    install[n].snap.index])
    /\ install' = [install EXCEPT ![n].meta = FALSE]
    /\ UNCHANGED <<log, batch, last, up, build, slot, purged, history, counts>>

InstallDone(n) ==
    /\ n \in up /\ install[n] # None /\ ~install[n].meta
    /\ LET snap == install[n].snap
       IN /\ last' = [last EXCEPT ![n] = snap.index]
          /\ fuzz' = [fuzz EXCEPT ![n] = snap.upto]
          /\ slot' = [slot EXCEPT ![n] = SlotOffer(slot[n], snap)]
          /\ torn' = IF snap.torn THEN torn \union {n} ELSE torn \ {n}
          /\ mixed' = IF snap.mixed THEN mixed \union {n} ELSE mixed \ {n}
    /\ install' = [install EXCEPT ![n] = None]
    /\ UNCHANGED <<log, mem, disk, batch, up, build, purged, counts>>

-----------------------------------------------------------------------------
(* Crash and restart.                                                      *)

(* A batch in flight is durable as a whole or not at all. *)
Crash(n) ==
    /\ n \in up /\ crashes < MaxCrashes
    /\ \E kept \in {disk[n], StoreAll(mem[n], batch[n])} :
          /\ mem' = [mem EXCEPT ![n] = kept]
          /\ disk' = [disk EXCEPT ![n] = kept]
    /\ up' = up \ {n}
    /\ batch' = [batch EXCEPT ![n] = <<>>]
    /\ build' = [build EXCEPT ![n] = None]
    /\ slot' = [slot EXCEPT ![n] = None]
    /\ crashes' = crashes + 1
    /\ UNCHANGED <<log, last, install, purged, history, builds>>

\* Variant: the applied index is read from the meta realm alone.
MutMetaRowOnly(rows) == Decoded(rows["meta"])

(* The greatest applied-state row of any realm. *)
LoadAppliedState(rows) == Max({Decoded(rows[r]) : r \in Realms})

(* Opening refuses a directory with the restore marker, and a purged log   *)
(* without any applied-state row.                                          *)
Restart(n) ==
    /\ n \notin up /\ install[n] = None
    /\ LoadAppliedState(disk[n]) > 0 \/ n \notin purged
    /\ last' = [last EXCEPT ![n] = LoadAppliedState(disk[n])]
    /\ up' = up \union {n}
    /\ UNCHANGED <<log, mem, disk, batch, build, slot, install, purged,
                   history, counts>>

(* The operator deletes the marker.  A store that was half cleared while   *)
(* an applied-state row of another realm survived is mixed from then on,   *)
(* and so is one that got its rows from the snapshot of a mixed store; one *)
(* without any applied-state row is rebuilt by replaying the whole log.    *)
DeleteMarker(n) ==
    /\ n \notin up /\ install[n] # None
    /\ LET i == install[n]
           mixes == IF i.clear = <<>> THEN i.snap.mixed
                    ELSE LoadAppliedState(disk[n]) > 0
       IN /\ mixed' = IF mixes THEN mixed \union {n} ELSE mixed
          /\ torn' = IF i.snap.torn THEN torn \union {n} ELSE torn
    /\ install' = [install EXCEPT ![n] = None]
    /\ UNCHANGED <<log, mem, disk, batch, last, up, build, slot, purged, fuzz,
                   counts>>

-----------------------------------------------------------------------------
Next ==
    \E n \in Node :
        \/ ApplyStart(n) \/ ApplyRow(n)
        \/ BuildStart(n) \/ ScanRow(n) \/ BuildDone(n)
        \/ \E m \in Node : InstallStart(n, m)
        \/ InstallClear(n) \/ InstallPut(n) \/ InstallMeta(n) \/ InstallDone(n)
        \/ Crash(n) \/ Restart(n) \/ DeleteMarker(n)

Spec == Init /\ [][Next]_vars

-----------------------------------------------------------------------------
(* What the log says: the counter and the plain key after its first i      *)
(* entries, each applied once, with no sidecar.                            *)

Written(c, key, value) ==
    IF key \in ToSet(c.deletes) THEN Absent ELSE Latest(c.puts, key, value)

After(state, c, i) ==
    CASE c.op = "blank" -> state
      [] c.op = "increment" ->
            [state EXCEPT ![c.key] = IF @ = Bad THEN i ELSE Decoded(@) + 1]
      [] c.op = "put_if_absent" ->
            [state EXCEPT ![c.key] = IF @ = Absent THEN c.value ELSE @]
      [] c.op = "write" ->
            [key \in DOMAIN state |-> Written(c, key, state[key])]

Reference(entries, i) ==
    LET state[j \in 0..i] ==
            IF j = 0 THEN [key \in {Counter, Plain} |-> Absent]
            ELSE After(state[j - 1], entries[j], j)
    IN state[i]

(* rows after entries from + 1 .. to are applied to them. *)
Replay(rows, entries, from, to) ==
    LET state[j \in from..to] ==
            IF j = from THEN rows
            ELSE StoreAll(state[j - 1], Batch(state[j - 1], entries[j], j))
    IN state[to]

Agrees(rows, i, counterToo) ==
    /\ rows[Plain] = Reference(log, i)[Plain]
    /\ counterToo => rows[Counter] = Reference(log, i)[Counter]

(* Nothing is being applied or installed on n, it has applied every entry  *)
(* its installed data may hold, and nobody restarted it on a mixed store.  *)
Settled(n) == Idle(n) /\ last[n] >= fuzz[n] /\ n \notin mixed

-----------------------------------------------------------------------------
(* A node that runs holds exactly the rows the entries it has applied      *)
(* produce, each counted once, however it got there: entry by entry,       *)
(* through a snapshot scanned while its builder went on applying, a crash  *)
(* in the middle of a batch or of an install, or the replay of the whole   *)
(* log over what an interrupted install left (apply, increment_once,       *)
(* moved_sidecars, restore_snapshot_in_place, load_applied_state).  Left   *)
(* out: the counter of a node whose snapshot was scanned between the two   *)
(* inserts of a counter batch, and a node restarted by hand in the middle  *)
(* of a clear.                                                             *)
Converges ==
    \A n \in Node : Settled(n) => Agrees(mem[n], last[n], n \notin torn)

(* The snapshot a node serves (get_current_snapshot) brings whoever        *)
(* installs it to the log's state: applying the entries after its index to *)
(* its data gives what the log says.  A build that raced an install read a *)
(* half-cleared store, and must never be the snapshot served               *)
(* (snapshot_slot_offer).                                                  *)
ServedSnapshotSound ==
    \A n \in Node :
        Idle(n) /\ slot[n] # None /\ ~slot[n].mixed =>
            Agrees(Replay(slot[n].data, log, slot[n].index, Len(log)),
                   Len(log), ~slot[n].torn)

=============================================================================
