---------------------------- MODULE ControlPlane ----------------------------
(***************************************************************************)
(* The control caches of src/src/identity/engine/control.rs on a cluster:  *)
(* every node decides revocations, blocked keys and realm statuses from    *)
(* memory, and learns of a control another node asserted only through the  *)
(* control epoch, a counter each control write bumps after its row.        *)
(*                                                                         *)
(* One node, Here, is followed in full: its state machine, its caches, its *)
(* reloader, a session lookup.  Of the other nodes the model keeps what    *)
(* Here can notice: the commands they commit, and the bumps they owe.      *)
(* A node reads what its own state machine has applied, and a write        *)
(* returns once its node has applied it.  The settle, spacing, backoff and *)
(* local-bump hold times of the two background threads only delay their    *)
(* steps and are left out, and so is sync_control_epoch, the validation    *)
(* path's fallback, which signals what the observer signals anyway.        *)
(***************************************************************************)
EXTENDS Naturals, Sequences, FiniteSetsExt

CONSTANTS
    Node,          \* nodes that serve requests
    Here,          \* the node whose caches are followed
    Writer,        \* control writes, one call each
    Control,       \* control rows the writes assert or withdraw, Session too
    Session,       \* the row of one session; asserted means revoked
    Projected,     \* the controls whose rows the Raft observer projects (JTIs)
    Nobody,        \* no leader
    MaxParked,     \* MAX_PARKED_LOCAL_EPOCHS
    MaxEvents      \* bound: control writes, failed writes and scans, restarts,
                   \* leaders lost and snapshots installed, together

ASSUME ControlAssumption ==
    /\ Here \in Node /\ Nobody \notin Node
    /\ Session \in Control /\ Projected \subseteq Control \ {Session}
    /\ MaxParked \in Nat /\ MaxEvents \in Nat

VARIABLES
    log,       \* the committed commands
    leader,    \* the Raft leader
    at,        \* how many commands the storage of Here reflects
    seen,      \* how many the observer of Here has been told of
    install,   \* snapshot install on Here: "no", "wiped" or "reload"
    plane,     \* ControlPlane's counters, flags and journal
    cache,     \* the controls the caches hold
    reload,    \* the reload that holds reload_exclusive
    held,      \* the session cache holds the session, as live
    fill,      \* a session lookup that missed the cache
    owed,      \* per node: the writes whose bump it owes (owed_bumps)
    due,       \* per node: election_bump_due
    bumper,    \* per node: the bump thread
    writer,    \* per control write: its progress
    excused,   \* history: controls whose coherence the code does not promise
    events     \* number of writes and faults so far

vars == <<log, leader, at, seen, install, plane, cache, reload, held, fill,
          owed, due, bumper, writer, excused, events>>

raft == <<log, leader>>

applying == <<at, seen, install>>

control == <<plane, cache, reload>>

session == <<held, fill>>

bumps == <<owed, due, bumper>>

Command == [op : {"row"}, ctl : Control, on : BOOLEAN] \cup [op : {"bump"}]

Row(c, on) == [op |-> "row", ctl |-> c, on |-> on]

Bump == [op |-> "bump"]

\* The controls in force once the rows of s are applied over the set S.
After(S, s) ==
    {c \in Control :
        LET about == {i \in 1 .. Len(s) : s[i].op = "row" /\ s[i].ctl = c}
        IN  IF about = {} THEN c \in S ELSE s[Max(about)].on}

RowsAt(i) == After({}, SubSeq(log, 1, i))

EpochAt(i) == Cardinality({j \in 1 .. i : log[j].op = "bump"})

\* What a read on Here sees; Phase 1 of a snapshot install has deleted every
\* row before Phase 2 writes the snapshot's.
Rows  == IF install = "wiped" THEN {} ELSE RowsAt(at)

Epoch == IF install = "wiped" THEN 0 ELSE EpochAt(at)

Event == events < MaxEvents /\ events' = events + 1

-----------------------------------------------------------------------------
(* Epoch bookkeeping and the journal; each is one critical section          *)

\* signal: a persisted epoch above the applied one raises the target.
Signal(p, epoch) ==
    IF epoch <= p.applied THEN p ELSE [p EXCEPT !.target = Max({@, epoch})]

\* advance_applied: through floor, then through contiguous parked epochs.
Advance(p, floor) ==
    LET base == Max({p.applied, floor})
        top  == Max({e \in {base} \cup p.parked :
                       e >= base /\ base + 1 .. e \subseteq p.parked})
    IN  [p EXCEPT !.applied = top, !.parked = {e \in @ : e > top}]

\* Variant: an epoch above a gap advances the applied epoch.
MutSkipGap(p, epoch) ==
    IF epoch <= p.applied THEN p ELSE [p EXCEPT !.applied = epoch]

\* record_local_epoch: the epoch a bump of this node made.
Record(p, epoch) ==
    IF epoch <= p.applied THEN p
    ELSE LET q == Advance([p EXCEPT !.parked = @ \cup {epoch}], p.applied)
         IN  IF Cardinality(q.parked) > MaxParked THEN [q EXCEPT !.parked = {}] ELSE q

\* apply: the change goes to the caches, and to the journal of a reload that
\* is recording.  A session has no control cache: its op is None.
Journal(p, cmd) ==
    IF p.recording /\ cmd.ctl # Session THEN [p EXCEPT !.ops = Append(@, cmd)] ELSE p

Cached(S, cmd) == IF cmd.ctl = Session THEN S ELSE After(S, <<cmd>>)

\* What a lookup under way notices: the generation moved, the map was replaced.
Fenced(f)   == IF f.pc = "idle" THEN f ELSE [f EXCEPT !.moved = TRUE]

Replaced(f) == IF f.pc = "idle" THEN f ELSE [f EXCEPT !.stored = TRUE]

ReloadWanted == plane.force \/ plane.target > plane.applied

\* A plane whose start-up reload has read this epoch.
FreshPlane(epoch) ==
    [applied |-> epoch, target |-> 0, parked |-> {}, force |-> FALSE,
     reset |-> FALSE, recording |-> FALSE, ops |-> <<>>]

NoFill   == [pc |-> "idle", moved |-> FALSE, stored |-> FALSE]

NoReload == [pc |-> "idle", by |-> "thread", reset |-> FALSE, forced |-> FALSE,
             epoch |-> 0, scan |-> {}]

NoBump   == [pc |-> "idle", owed |-> {}, election |-> FALSE, idx |-> 0]

NoWrite  == [pc |-> "idle", node |-> Nobody, ctl |-> Session, on |-> TRUE,
             idx |-> 0, epoch |-> 0]

Init ==
    /\ log = <<>> /\ leader \in Node
    /\ at = 0 /\ seen = 0 /\ install = "no"
    /\ plane = FreshPlane(0) /\ cache = {} /\ reload = NoReload
    /\ held \in BOOLEAN /\ fill = NoFill
    /\ owed = [n \in Node |-> {}]
    /\ due = [n \in Node |-> FALSE]
    /\ bumper = [n \in Node |-> NoBump]
    /\ writer = [w \in Writer |-> NoWrite]
    /\ excused = {}
    /\ events = 0

-----------------------------------------------------------------------------
(* A control write: its row, its epoch bump, its own caches                 *)

Active(w) == writer[w].pc \notin {"idle", "done"}

\* The call has returned; what it was about stays on record.
Done(r) == [r EXCEPT !.pc = "done", !.node = Nobody, !.idx = 0]

\* A proposal returns once the proposing node has applied it.
Returned(n, idx) == n = Here => seen >= idx

EvictsHere(w) == writer[w].ctl = Session /\ writer[w].node = Here

\* A write of the opposite value to the same control is under way: the order
\* in which the two reach the caches need not be that of their rows.
Races(w, c, on) ==
    \E v \in Writer \ {w} : Active(v) /\ writer[v].ctl = c /\ writer[v].on # on

\* The durable row, written before anything is applied: revoke_token,
\* block_dpop_jkt_inner, unblock_dpop_jkt_inner, update_realm, revoke_session.
\* Only writes that change the row are of interest.
WriteRow(w, n, c, on) ==
    /\ writer[w].pc = "idle" /\ leader # Nobody
    /\ on # (c \in RowsAt(Len(log))) /\ (c = Session => on)
    /\ log' = Append(log, Row(c, on))
    /\ writer' = [writer EXCEPT ![w] =
                    [pc |-> "row", node |-> n, ctl |-> c, on |-> on,
                     idx |-> Len(log) + 1, epoch |-> 0]]
    /\ excused' = IF Races(w, c, on) THEN excused \cup {c} ELSE excused
    /\ Event
    /\ UNCHANGED <<leader, applying, control, session, bumps>>

\* The call returns an error after its row committed: the write's answer was
\* lost, or a later step of revoke_session failed before the bump.
WriteGivenUp(w) ==
    /\ \/ writer[w].pc = "row"
       \/ writer[w].pc = "bump" /\ writer[w].ctl = Session
    /\ writer' = [writer EXCEPT ![w] = Done(@)]
    /\ excused' = excused \cup {writer[w].ctl}
    /\ Event
    /\ UNCHANGED <<raft, applying, control, session, bumps>>

\* session_cache_invalidate: the generation moves, then the entry goes.
FenceSession(w) ==
    /\ writer[w].pc = "row" /\ EvictsHere(w)
    /\ Returned(writer[w].node, writer[w].idx)
    /\ fill' = Fenced(fill)
    /\ writer' = [writer EXCEPT ![w].pc = "evict"]
    /\ UNCHANGED <<raft, applying, control, held, bumps, excused, events>>

EvictSession(w) ==
    /\ writer[w].pc = "evict"
    /\ held' = FALSE
    /\ fill' = IF held THEN Replaced(fill) ELSE fill
    /\ writer' = [writer EXCEPT ![w].pc = "bump"]
    /\ UNCHANGED <<raft, applying, control, bumps, excused, events>>

AboutToBump(w) ==
    \/ writer[w].pc = "bump"
    \/ /\ writer[w].pc = "row" /\ ~EvictsHere(w)
       /\ Returned(writer[w].node, writer[w].idx)

\* persist_control_epoch_bump, committed.
BumpEpoch(w) ==
    /\ AboutToBump(w) /\ leader # Nobody
    /\ log' = Append(log, Bump)
    /\ LET epoch == EpochAt(Len(log)) + 1 IN
       writer' = [writer EXCEPT ![w] =
                    IF @.node = Here
                      THEN [@ EXCEPT !.pc = "bumped", !.idx = Len(log) + 1, !.epoch = epoch]
                      ELSE [Done(@) EXCEPT !.epoch = epoch]]
    /\ UNCHANGED <<leader, applying, control, session, bumps, excused, events>>

\* apply: the caches, the journal and, unless it is 0, the epoch.
ApplyHere(w, epoch) ==
    LET cmd == Row(writer[w].ctl, writer[w].on) IN
    /\ cache' = Cached(cache, cmd)
    /\ plane' = Record(Journal(plane, cmd), epoch)

\* The bump fails: no leader, or an error whose bump may have committed.  The
\* change is applied all the same, and the bump owed.
BumpFails(w) ==
    /\ AboutToBump(w)
    /\ \/ leader = Nobody /\ UNCHANGED <<log, events>>
       \/ leader # Nobody /\ log' \in {log, Append(log, Bump)} /\ Event
    /\ IF writer[w].node = Here
         THEN ApplyHere(w, 0)
         ELSE UNCHANGED <<plane, cache>>
    /\ owed' = [owed EXCEPT ![writer[w].node] = @ \cup {w}]
    /\ writer' = [writer EXCEPT ![w] = Done(@)]
    /\ UNCHANGED <<leader, applying, reload, session, due, bumper, excused>>

\* The bump returned: apply the change and record the epoch.
Publish(w) ==
    /\ writer[w].pc = "bumped" /\ Returned(Here, writer[w].idx)
    /\ ApplyHere(w, writer[w].epoch)
    /\ writer' = [writer EXCEPT ![w] = Done(@)]
    /\ UNCHANGED <<raft, applying, reload, session, bumps, excused, events>>

-----------------------------------------------------------------------------
(* Replication: the state machine and its observer, snapshots, elections    *)

\* What the observer acts on.
Watched(e) == e.op = "bump" \/ e.ctl \in Projected

Apply ==
    /\ install = "no" /\ seen = at /\ at < Len(log)
    /\ at' = at + 1
    /\ seen' = IF Watched(log[at + 1]) THEN seen ELSE at + 1
    /\ UNCHANGED <<raft, install, control, session, bumps, writer, excused, events>>

\* on_replicated_put, on_replicated_delete: after the row is in storage.
Observe ==
    LET e == log[at] IN
    /\ install = "no" /\ seen < at
    /\ seen' = at
    /\ IF e.op = "bump"
         THEN plane' = Signal(plane, EpochAt(at)) /\ UNCHANGED cache
         ELSE plane' = Journal(plane, e) /\ cache' = Cached(cache, e)
    /\ UNCHANGED <<raft, at, install, reload, session, bumps, writer, excused, events>>

\* restore_snapshot_in_place: Phase 1, then Phase 2; on_replicated_reset next.
Wipe ==
    /\ install = "no" /\ seen = at /\ at < Len(log) /\ leader # Here
    /\ install' = "wiped"
    /\ Event
    /\ UNCHANGED <<raft, at, seen, control, session, bumps, writer, excused>>

Restore(k) ==
    /\ install = "wiped" /\ k > at
    /\ install' = "reload"
    /\ at' = k
    /\ UNCHANGED <<raft, seen, control, session, bumps, writer, excused, events>>

LoseLeader ==
    /\ leader # Nobody
    /\ leader' = Nobody
    /\ Event
    /\ UNCHANGED <<log, applying, control, session, bumps, writer, excused>>

\* A node wins an election: on_leadership_acquired.
Elect(n) ==
    /\ leader = Nobody /\ (n = Here => install = "no")
    /\ leader' = n
    /\ due' = [due EXCEPT ![n] = TRUE]
    /\ UNCHANGED <<log, applying, control, session, owed, bumper, writer, excused, events>>

\* A process restarts: what it owed and what its calls were doing is gone, and
\* Here loads its caches from storage.
Restart(n) ==
    LET cut == {w \in Writer : Active(w) /\ writer[w].node = n} IN
    /\ leader # n /\ (n = Here => install = "no")
    /\ Event
    /\ IF n = Here
         THEN /\ seen' = at
              /\ plane' = FreshPlane(EpochAt(at))
              /\ cache' = RowsAt(at) \ {Session}
              /\ reload' = NoReload
              /\ held' = FALSE /\ fill' = NoFill
         ELSE UNCHANGED <<seen, control, session>>
    /\ owed' = [owed EXCEPT ![n] = {}]
    /\ due' = [due EXCEPT ![n] = FALSE]
    /\ bumper' = [bumper EXCEPT ![n] = NoBump]
    /\ writer' = [w \in Writer |-> IF w \in cut THEN Done(writer[w]) ELSE writer[w]]
    /\ excused' = excused \cup {writer[w].ctl : w \in cut \cup owed[n]}
    /\ UNCHANGED <<raft, at, install>>

-----------------------------------------------------------------------------
(* The reloader: reload_inner, run by its thread or by a snapshot install   *)

Loading(by, forced, reset) ==
    [pc |-> "record", by |-> by, forced |-> forced, reset |-> reset,
     epoch |-> Epoch, scan |-> {}]

\* run takes the flags, reload_inner the lock, scan_recording reads the epoch.
StartReload ==
    /\ reload.pc = "idle" /\ ReloadWanted
    /\ reload' = Loading("thread", plane.force, plane.force /\ plane.reset)
    /\ plane' = [plane EXCEPT !.force = FALSE, !.reset = @ /\ ~plane.force]
    /\ UNCHANGED <<raft, applying, cache, session, bumps, writer, excused, events>>

\* reload_after_reset, called by install_snapshot.
StartReset ==
    /\ reload.pc = "idle" /\ install = "reload"
    /\ reload' = Loading("install", TRUE, TRUE)
    /\ UNCHANGED <<raft, applying, plane, cache, session, bumps, writer, excused, events>>

StartRecording ==
    /\ reload.pc = "record"
    /\ plane' = [plane EXCEPT !.recording = TRUE, !.ops = <<>>]
    /\ reload' = [reload EXCEPT !.pc = "scan"]
    /\ UNCHANGED <<raft, applying, cache, session, bumps, writer, excused, events>>

\* scan, with no lock held.  It reads row after row, but no property relates two
\* rows: one read at any moment of the scan stands for all of them.
Scan ==
    /\ reload.pc = "scan"
    /\ reload' = [reload EXCEPT !.pc = "swap", !.scan = Rows \ {Session}]
    /\ UNCHANGED <<raft, applying, plane, cache, session, bumps, writer, excused, events>>

\* The reload ends; an install's lets the node apply commands again.
EndReload ==
    /\ reload' = NoReload
    /\ install' = IF reload.by = "install" THEN "no" ELSE install
    /\ seen' = IF reload.by = "install" THEN at ELSE seen

\* Nothing is published; a forced reload is armed again.
ScanFails ==
    /\ reload.pc = "scan"
    /\ plane' = [plane EXCEPT !.recording = FALSE, !.ops = <<>>,
                              !.force = @ \/ reload.forced, !.reset = @ \/ reload.reset]
    /\ EndReload
    /\ Event
    /\ UNCHANGED <<raft, at, cache, session, bumps, writer, excused>>

\* Replay the journal onto the scan and swap, under the journal lock.
Swap ==
    LET p == [plane EXCEPT !.recording = FALSE, !.ops = <<>>] IN
    /\ reload.pc = "swap"
    /\ cache' = After(reload.scan, plane.ops)
    /\ plane' = IF reload.reset
                  THEN [p EXCEPT !.parked = {}, !.applied = reload.epoch,
                                 !.target = reload.epoch]
                  ELSE Advance(p, reload.epoch)
    /\ reload' = [reload EXCEPT !.pc = IF reload.reset THEN "resignal" ELSE "flush",
                                !.epoch = 0, !.scan = {}]
    /\ UNCHANGED <<raft, applying, session, bumps, writer, excused, events>>

\* After a reset, a signal that the new target erased is made again.
Resignal ==
    /\ reload.pc = "resignal"
    /\ \/ plane' = Signal(plane, Epoch) /\ UNCHANGED events
       \/ plane' = [plane EXCEPT !.reset = TRUE, !.force = TRUE] /\ Event
    /\ reload' = [reload EXCEPT !.pc = "flush"]
    /\ UNCHANGED <<raft, applying, cache, session, bumps, writer, excused>>

\* flush_sessions: the generation moves, then the map is replaced.
FlushFence ==
    /\ reload.pc = "flush"
    /\ fill' = Fenced(fill)
    /\ reload' = [reload EXCEPT !.pc = "clear"]
    /\ UNCHANGED <<raft, applying, plane, cache, held, bumps, writer, excused, events>>

FlushStore ==
    /\ reload.pc = "clear"
    /\ held' = FALSE
    /\ fill' = Replaced(fill)
    /\ EndReload
    /\ UNCHANGED <<raft, at, plane, cache, bumps, writer, excused, events>>

-----------------------------------------------------------------------------
(* A session lookup that misses: get_session_arc and session_cache_fill.    *)
(* moved: the generation differs from the one taken before the read;        *)
(* stored: the map differs from the one the rcu loaded.                     *)

elsewhere == <<raft, applying, control, bumps, writer, excused, events>>

\* Before the revocation's row is committed a lookup only leaves the session held,
\* which Init allows for.
FillStart ==
    /\ fill.pc = "idle" /\ ~held /\ Session \in RowsAt(Len(log))
    /\ fill' = [NoFill EXCEPT !.pc = "read"]
    /\ UNCHANGED <<held, elsewhere>>

\* The read, and the rcu's closure when the session is live: it inserts only if
\* the generation has not moved.
FillRead ==
    /\ fill.pc = "read"
    /\ fill' = CASE install = "wiped" \/ Session \in Rows -> NoFill
                 [] OTHER -> [fill EXCEPT !.stored = FALSE,
                                          !.pc = IF fill.moved THEN "recheck" ELSE "insert"]
    /\ UNCHANGED <<held, elsewhere>>

\* The rcu's exchange; it runs the closure again if the map was replaced.
FillInsert ==
    /\ fill.pc = "insert"
    /\ held' = (held \/ ~fill.stored)
    /\ fill' = [fill EXCEPT !.stored = FALSE,
                            !.pc = IF fill.stored /\ ~fill.moved THEN "insert" ELSE "recheck"]
    /\ UNCHANGED elsewhere

\* Variant: the insert is not looked at again.
MutNoRecheck ==
    /\ fill.pc = "recheck"
    /\ fill' = NoFill
    /\ UNCHANGED <<held, elsewhere>>

FillRecheck ==
    /\ fill.pc = "recheck"
    /\ held' = (held /\ ~fill.moved)
    /\ fill' = NoFill
    /\ UNCHANGED elsewhere

-----------------------------------------------------------------------------
(* The bump thread: pay_owed_bumps                                          *)

BumpTake(n) ==
    /\ bumper[n].pc = "idle" /\ (owed[n] # {} \/ due[n])
    /\ bumper' = [bumper EXCEPT ![n] = [pc |-> "try", owed |-> owed[n],
                                        election |-> due[n], idx |-> 0]]
    /\ due' = [due EXCEPT ![n] = FALSE]
    /\ UNCHANGED <<raft, applying, control, session, owed, writer, excused, events>>

\* The attempt ends; what it took is settled.
BumpSettled(n) ==
    /\ owed' = [owed EXCEPT ![n] = @ \ bumper[n].owed]
    /\ bumper' = [bumper EXCEPT ![n] = NoBump]

BumpCommit(n) ==
    /\ bumper[n].pc = "try" /\ leader # Nobody
    /\ log' = Append(log, Bump)
    /\ IF n = Here
         THEN /\ bumper' = [bumper EXCEPT ![n].pc = "wait", ![n].idx = Len(log) + 1]
              /\ UNCHANGED owed
         ELSE BumpSettled(n)
    /\ UNCHANGED <<leader, applying, control, session, due, writer, excused, events>>

\* Variant: the election bump is recorded like an owed one.
MutRecordElection(n) ==
    /\ bumper[n].pc = "wait" /\ Returned(n, bumper[n].idx)
    /\ BumpSettled(n)
    /\ plane' = Record(plane, EpochAt(bumper[n].idx))
    /\ UNCHANGED <<raft, applying, cache, reload, session, due, writer, excused, events>>

\* An election bump is not recorded: this node reloads for it too.
BumpDone(n) ==
    /\ bumper[n].pc = "wait" /\ Returned(n, bumper[n].idx)
    /\ BumpSettled(n)
    /\ plane' = IF bumper[n].election THEN plane ELSE Record(plane, EpochAt(bumper[n].idx))
    /\ UNCHANGED <<raft, applying, cache, reload, session, due, writer, excused, events>>

\* Any error but NotLeader: the bump may have committed, and is tried again.
BumpError(n) ==
    /\ bumper[n].pc = "try"
    /\ \/ UNCHANGED log
       \/ leader # Nobody /\ log' = Append(log, Bump)
    /\ due' = [due EXCEPT ![n] = @ \/ bumper[n].election]
    /\ bumper' = [bumper EXCEPT ![n] = NoBump]
    /\ Event
    /\ UNCHANGED <<leader, applying, control, session, owed, writer, excused>>

\* NotLeader: what is owed is dropped.  The cluster engine answers so when no
\* leader is known, and also when it could not connect to the leader.
BumpRefused(n) ==
    /\ bumper[n].pc = "try"
    /\ leader # n
    /\ excused' = IF leader = Nobody THEN excused
                  ELSE excused \cup {writer[w].ctl : w \in bumper[n].owed}
    /\ BumpSettled(n)
    /\ UNCHANGED <<raft, applying, control, session, due, writer, events>>

-----------------------------------------------------------------------------
Write(w) ==
    \/ \E n \in Node, c \in Control, on \in BOOLEAN : WriteRow(w, n, c, on)
    \/ WriteGivenUp(w) \/ FenceSession(w) \/ EvictSession(w)
    \/ BumpEpoch(w) \/ BumpFails(w) \/ Publish(w)

Replicate == Apply \/ Observe \/ Wipe \/ \E k \in 1 .. Len(log) : Restore(k)

Reload ==
    \/ StartReload \/ StartReset \/ StartRecording \/ Scan
    \/ ScanFails \/ Swap \/ Resignal \/ FlushFence \/ FlushStore

Fill == FillStart \/ FillRead \/ FillInsert \/ FillRecheck

PayBumps(n) ==
    BumpTake(n) \/ BumpCommit(n) \/ BumpDone(n) \/ BumpError(n) \/ BumpRefused(n)

Next ==
    \/ \E w \in Writer : Write(w)
    \/ \E n \in Node : PayBumps(n) \/ Elect(n) \/ Restart(n)
    \/ Replicate \/ Reload \/ Fill \/ LoseLeader

Spec == Init /\ [][Next]_vars

-----------------------------------------------------------------------------
(* Properties                                                               *)

\* The caches are being rebuilt from a replaced key space.
Rebasing == install # "no" \/ plane.reset \/ reload.reset

\* Write w has the last word on its control, and its bump was answered.
Final(w) ==
    /\ writer[w].epoch > 0 /\ writer[w].ctl \notin excused
    /\ \A v \in Writer \ {w} :
          writer[v].pc # "idle" /\ writer[v].ctl = writer[w].ctl => writer[v].on = writer[w].on

\* A node whose applied epoch has reached a control's epoch enforces that
\* control (control.rs: `applied is the epoch the caches are known to reflect'),
\* whatever reloads, projections, other writes and lost bumps came between.
AppliedCovered ==
    \A w \in Writer :
        /\ Final(w) /\ writer[w].ctl # Session
        /\ plane.applied >= writer[w].epoch /\ ~Rebasing
        => (writer[w].ctl \in cache) = writer[w].on

\* Once a node has reloaded for a session's revocation, its cache no longer
\* answers for the session, though a lookup may have read the live row before
\* (get_session_arc, session_cache_fill, flush_sessions).
SessionEvicted ==
    \A w \in Writer :
        /\ Final(w) /\ writer[w].ctl = Session
        /\ plane.applied >= writer[w].epoch /\ ~Rebasing
        /\ reload.pc \notin {"flush", "clear"} /\ fill.pc # "recheck"
        => ~held

\* Nothing is left to do that would change the caches of Here.
Settled ==
    /\ \A w \in Writer : ~Active(w)
    /\ \A n \in Node : owed[n] = {} /\ ~due[n] /\ bumper[n].pc = "idle"
    /\ leader # Nobody /\ seen = Len(log) /\ install = "no"
    /\ reload.pc = "idle" /\ ~ReloadWanted /\ fill.pc # "recheck"

InStep ==
    /\ cache \ excused = RowsAt(Len(log)) \ (excused \cup {Session})
    /\ Session \in RowsAt(Len(log)) \ excused => ~held

\* When nothing is left to do, the caches agree with the rows, except for a
\* control whose write returned an error, raced an opposite one, or whose owed
\* bump was forgotten: dropped as NotLeader while a leader was in office, or
\* lost with its process.
CachesInStep == Settled => InStep

=============================================================================
