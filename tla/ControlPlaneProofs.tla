------------------------- MODULE ControlPlaneProofs -------------------------
(***************************************************************************)
(* Proofs about ControlPlane, for any nodes, controls and control writes   *)
(* and any number of faults: what the applied epoch of a node stands for,  *)
(* and what still stands between a control and the caches.                 *)
(***************************************************************************)
EXTENDS ControlPlane, FiniteSetTheorems, WellFoundedInduction, TLAPS

-----------------------------------------------------------------------------
(* The inductive invariant.                                                *)

RowCommand == [op : {"row"}, ctl : Control, on : BOOLEAN]

Plane == [applied : Nat, target : Nat, parked : SUBSET Nat, force : BOOLEAN,
          reset : BOOLEAN, recording : BOOLEAN, ops : Seq(RowCommand)]

Loads == [pc : {"idle", "record", "scan", "swap", "resignal", "flush", "clear"},
          by : {"thread", "install"}, reset : BOOLEAN, forced : BOOLEAN,
          epoch : Nat, scan : SUBSET Control]

Lookup == [pc : {"idle", "read", "insert", "recheck"}, moved : BOOLEAN,
           stored : BOOLEAN]

Bumper == [pc : {"idle", "try", "wait"}, owed : SUBSET Writer,
           election : BOOLEAN, idx : Nat]

Call == [pc : {"idle", "row", "evict", "bump", "bumped", "done"},
         node : Node \cup {Nobody}, ctl : Control, on : BOOLEAN, idx : Nat,
         epoch : Nat]

TypeInv ==
    /\ log \in Seq(Command) /\ leader \in Node \cup {Nobody}
    /\ at \in Nat /\ seen \in Nat /\ seen <= at /\ at <= Len(log)
    /\ install \in {"no", "wiped", "reload"}
    /\ plane \in Plane /\ cache \subseteq Control /\ reload \in Loads
    /\ held \in BOOLEAN /\ fill \in Lookup
    /\ owed \in [Node -> SUBSET Writer] /\ due \in [Node -> BOOLEAN]
    /\ bumper \in [Node -> Bumper] /\ writer \in [Writer -> Call]
    /\ excused \subseteq Control /\ events \in Nat

\* Entry j of the log is a row of control c.
About(c, j) == log[j].op = "row" /\ log[j].ctl = c

\* The log never withdraws c.
OnlyOn(c) == \A j \in 1 .. Len(log) : About(c, j) => log[j].on

\* Every write that has begun has its row in the log, every row its write,
\* and a control is asserted before it is withdrawn.
RowsInv ==
    /\ \A w \in Writer : writer[w].pc # "idle" =>
          \E j \in 1 .. Len(log) : log[j] = Row(writer[w].ctl, writer[w].on)
    /\ \A j \in 1 .. Len(log) : log[j].op = "row" =>
          \E w \in Writer : writer[w].pc # "idle" /\ log[j] = Row(writer[w].ctl, writer[w].on)
    /\ \A j \in 1 .. Len(log) : log[j].op = "row" =>
          \E i \in 1 .. Len(log) : About(log[j].ctl, i) /\ log[i].on
    /\ OnlyOn(Session)
    /\ \A i \in 1 .. Len(plane.ops) : \E j \in 1 .. Len(log) : plane.ops[i] = log[j]

\* Where a call is in the log: its row or its bump.
CallOK(w) ==
    /\ writer[w].pc = "idle" => writer[w].epoch = 0
    /\ writer[w].pc \notin {"idle", "done"} => writer[w].node \in Node
    /\ writer[w].pc \in {"row", "evict", "bump"} =>
          /\ writer[w].idx \in 1 .. Len(log) /\ writer[w].epoch = 0
          /\ log[writer[w].idx] = Row(writer[w].ctl, writer[w].on)
    /\ writer[w].pc \in {"evict", "bump"} => EvictsHere(w) /\ writer[w].idx <= at
    /\ writer[w].pc = "bumped" =>
          /\ writer[w].idx \in 1 .. Len(log) /\ writer[w].node = Here
          /\ EpochAt(writer[w].idx) = writer[w].epoch

CallInv == \A w \in Writer : CallOK(w)

\* A write's epoch is that of one bump, behind its row; no other bump that is
\* still to be recorded here has it.
BumpInv ==
    /\ \A w \in Writer : writer[w].epoch > 0 =>
          /\ writer[w].epoch <= EpochAt(Len(log))
          /\ \E j \in 1 .. Len(log) :
                log[j] = Row(writer[w].ctl, writer[w].on) /\ EpochAt(j) < writer[w].epoch
          /\ \A v \in Writer \ {w} : writer[v].epoch # writer[w].epoch
          /\ bumper[Here].pc = "wait" => EpochAt(bumper[Here].idx) # writer[w].epoch
    /\ \A n \in Node : bumper[n].pc = "wait" => n = Here /\ bumper[n].idx \in 1 .. Len(log)

\* No counter runs ahead of what the storage of Here reflects.
EpochInv ==
    /\ plane.applied <= EpochAt(at) /\ reload.epoch <= EpochAt(at)
    /\ \A e \in plane.parked : e <= EpochAt(at)

ReloadInv ==
    /\ plane.recording <=> reload.pc \in {"scan", "swap"}
    /\ reload.pc = "idle" => ~ reload.reset
    /\ reload.pc = "resignal" => reload.reset
    /\ reload.pc # "idle" /\ reload.by = "install" => install = "reload" /\ reload.reset
    /\ reload.reset => reload.forced
    /\ plane.reset => plane.force

\* The node has been told of epoch e: by a reload, or by its own bump.
Told(e) == e <= plane.applied \/ e \in plane.parked

\* The reload under way reads, or has read, the key space that is there now.
Sound == install = "no" \/ reload.by = "install"

\* A control that is never withdrawn stays in the caches once the node has been
\* told of its epoch, and no swap to come takes it out.
Covers(c, e) ==
    /\ Told(e) /\ ~Rebasing => c \in cache
    /\ (Told(e) \/ e <= reload.epoch) /\ reload.pc = "swap" /\ Sound
       => c \in After(reload.scan, plane.ops)
    /\ Told(e) /\ reload.reset /\ Sound /\ reload.pc \in {"resignal", "flush", "clear"}
       => c \in cache

CoverInv ==
    \A w \in Writer :
        writer[w].epoch > 0 /\ writer[w].ctl # Session /\ OnlyOn(writer[w].ctl)
        => Covers(writer[w].ctl, writer[w].epoch)

\* A lookup that read the session before its revocation will notice.
Noticed == fill.pc \in {"insert", "recheck"} => fill.moved

\* No lookup brings the session back for good.
Gone == Noticed /\ (held => fill.pc = "recheck") /\ Session \in RowsAt(at)

\* A reload that has swapped, but not yet flushed the sessions.
Leaving ==
    /\ reload.pc \in {"resignal", "flush", "clear"}
    /\ reload.pc = "clear" => Noticed

SessionOK(w) ==
    /\ writer[w].pc = "evict" => Noticed
    /\ writer[w].pc \in {"bump", "bumped"} => Gone
    /\ writer[w].epoch > 0 /\ Told(writer[w].epoch) => Gone \/ Leaving

SessionInv == \A w \in Writer : writer[w].ctl = Session => SessionOK(w)

IInv ==
    /\ TypeInv /\ RowsInv /\ CallInv /\ BumpInv /\ EpochInv /\ ReloadInv
    /\ CoverInv /\ SessionInv

-----------------------------------------------------------------------------
(* Numbers and counts.                                                     *)

\* A bounded set of numbers has a largest one.
LEMMA MaxOf ==
    ASSUME NEW S \in SUBSET Nat, S # {}, NEW b \in Nat, \A x \in S : x <= b
    PROVE  Max(S) \in S /\ \A y \in S : y <= Max(S)
  <1> DEFINE R == {ss \in Nat \X Nat : ss[1] < ss[2]}
             T == {b - x : x \in S}
  <1>1. IsWellFoundedOn(R, Nat)
    BY NatLessThanWellFounded DEF OpToRel
  <1>2. T \in SUBSET Nat /\ T # {}
    <2>1. ASSUME NEW x \in S PROVE b - x \in Nat
      <3>1. x \in Nat /\ x <= b
        OBVIOUS
      <3> QED
        BY <3>1
    <2> QED
      BY <2>1
  <1> HIDE DEF R, T
  <1>3. PICK t \in T : \A u \in T : ~ (<<u, t>> \in R)
    BY <1>1, <1>2, WFMin
  <1>4. ASSUME NEW u \in T PROVE t <= u
    <2>1. u \in Nat /\ t \in Nat /\ <<u, t>> \in Nat \X Nat
      BY <1>2
    <2>2. ~ (u < t)
      BY <1>3, <2>1 DEF R
    <2> QED
      BY <2>1, <2>2
  <1>5. PICK x \in S : t = b - x
    BY DEF T
  <1>6. ASSUME NEW y \in S PROVE x >= y
    <2>1. b - x <= b - y
      BY <1>4, <1>5 DEF T
    <2>2. x \in Nat /\ y \in Nat
      OBVIOUS
    <2> QED
      BY <2>1, <2>2
  <1> QED
    BY <1>6 DEF Max

LEMMA MaxTwo ==
    ASSUME NEW x \in Nat, NEW y \in Nat
    PROVE  /\ Max({x, y}) \in Nat /\ x <= Max({x, y}) /\ y <= Max({x, y})
           /\ Max({x, y}) = x \/ Max({x, y}) = y
  <1>1. PICK b \in Nat : x <= b /\ y <= b
    <2>1. x + y \in Nat /\ x <= x + y /\ y <= x + y
      OBVIOUS
    <2> QED
      BY <2>1
  <1>2. {x, y} \in SUBSET Nat /\ {x, y} # {} /\ \A z \in {x, y} : z <= b
    BY <1>1
  <1> QED
    BY <1>1, <1>2, MaxOf

\* The bumps among the first i entries of l.
BumpsIn(l, i) == {j \in 1 .. i : l[j].op = "bump"}
Ep(l, i) == Cardinality(BumpsIn(l, i))

LEMMA EpIs == \A i : EpochAt(i) = Ep(log, i)
  BY DEF EpochAt, Ep, BumpsIn

LEMMA EpNew == \A i : EpochAt(i)' = Ep(log', i)
  BY DEF EpochAt, Ep, BumpsIn

LEMMA EpFinite ==
    ASSUME NEW l, NEW i \in Nat
    PROVE  IsFiniteSet(BumpsIn(l, i)) /\ Ep(l, i) \in Nat
  <1>1. IsFiniteSet(1 .. i)
    BY FS_Interval
  <1>2. BumpsIn(l, i) \subseteq 1 .. i
    BY DEF BumpsIn
  <1>3. IsFiniteSet(BumpsIn(l, i))
    BY <1>1, <1>2, FS_Subset
  <1> QED
    BY <1>3, FS_CardinalityType DEF Ep

LEMMA EpMono ==
    ASSUME NEW l, NEW i \in Nat, NEW j \in Nat, i <= j
    PROVE  Ep(l, i) <= Ep(l, j)
  <1>1. BumpsIn(l, i) \subseteq BumpsIn(l, j)
    BY DEF BumpsIn
  <1> QED
    BY <1>1, EpFinite, FS_Subset DEF Ep

LEMMA EpSame ==
    ASSUME NEW l, NEW m, NEW i \in Nat, \A j \in 1 .. i : m[j] = l[j]
    PROVE  Ep(m, i) = Ep(l, i)
  <1>1. BumpsIn(m, i) = BumpsIn(l, i)
    BY DEF BumpsIn
  <1> QED
    BY <1>1 DEF Ep

LEMMA EpNext ==
    ASSUME NEW l, NEW i \in Nat
    PROVE  Ep(l, i + 1) = IF l[i + 1].op = "bump" THEN Ep(l, i) + 1 ELSE Ep(l, i)
  <1>1. CASE l[i + 1].op = "bump"
    <2>1. BumpsIn(l, i + 1) = BumpsIn(l, i) \union {i + 1}
      BY <1>1 DEF BumpsIn
    <2>2. i + 1 \notin BumpsIn(l, i)
      BY DEF BumpsIn
    <2> QED
      BY <1>1, <2>1, <2>2, EpFinite, FS_AddElement DEF Ep
  <1>2. CASE l[i + 1].op # "bump"
    <2>1. BumpsIn(l, i + 1) = BumpsIn(l, i)
      BY <1>2 DEF BumpsIn
    <2> QED
      BY <1>2, <2>1 DEF Ep
  <1> QED
    BY <1>1, <1>2

-----------------------------------------------------------------------------
(* What rows put in force.                                                 *)

\* A control no row of s withdraws: in force before, or asserted in s.
LEMMA AfterOn ==
    ASSUME NEW S, NEW s, NEW n \in Nat, Len(s) = n, NEW c \in Control,
           \A i \in 1 .. n : s[i].op = "row" /\ s[i].ctl = c => s[i].on
    PROVE  c \in After(S, s) <=> c \in S \/ \E i \in 1 .. n : s[i].op = "row" /\ s[i].ctl = c
  <1> DEFINE about == {i \in 1 .. Len(s) : s[i].op = "row" /\ s[i].ctl = c}
  <1>1. c \in After(S, s) <=> IF about = {} THEN c \in S ELSE s[Max(about)].on
    BY DEF After
  <1>2. about \in SUBSET Nat /\ \A x \in about : x <= n
    OBVIOUS
  <1>3. about # {} => Max(about) \in about
    BY <1>2, MaxOf
  <1> QED
    BY <1>1, <1>3

\* A control in force after s was so before or has been asserted in s.
LEMMA AfterSome ==
    ASSUME NEW S, NEW s, NEW n \in Nat, Len(s) = n, NEW c \in Control,
           c \in After(S, s), c \notin S
    PROVE  \E i \in 1 .. n : s[i].op = "row" /\ s[i].ctl = c /\ s[i].on
  <1> DEFINE about == {i \in 1 .. Len(s) : s[i].op = "row" /\ s[i].ctl = c}
  <1>1. c \in After(S, s) <=> IF about = {} THEN c \in S ELSE s[Max(about)].on
    BY DEF After
  <1>2. about \in SUBSET Nat /\ \A x \in about : x <= n
    OBVIOUS
  <1>3. about # {} /\ s[Max(about)].on
    BY <1>1
  <1>4. Max(about) \in about
    BY <1>2, <1>3, MaxOf
  <1> QED
    BY <1>3, <1>4

LEMMA AfterType == ASSUME NEW S, NEW s PROVE After(S, s) \subseteq Control
  BY DEF After

Rw(l, i) == After({}, SubSeq(l, 1, i))

LEMMA RowsOn ==
    ASSUME NEW l \in Seq(Command), NEW i \in 0 .. Len(l), NEW c \in Control,
           \A j \in 1 .. Len(l) : l[j].op = "row" /\ l[j].ctl = c => l[j].on
    PROVE  c \in Rw(l, i) <=> \E j \in 1 .. i : l[j].op = "row" /\ l[j].ctl = c
  <1>1. PICK s : s = SubSeq(l, 1, i)
    OBVIOUS
  <1>2. i \in Nat /\ Len(s) = i /\ \A j \in 1 .. i : s[j] = l[j]
    BY <1>1
  <1>3. \A j \in 1 .. i : s[j].op = "row" /\ s[j].ctl = c => s[j].on
    BY <1>2
  <1>4. c \in After({}, s) <=> \E j \in 1 .. i : s[j].op = "row" /\ s[j].ctl = c
    BY <1>2, <1>3, AfterOn
  <1> QED
    BY <1>1, <1>2, <1>4 DEF Rw

LEMMA RowsSome ==
    ASSUME NEW l \in Seq(Command), NEW i \in 0 .. Len(l), NEW c \in Control, c \in Rw(l, i)
    PROVE  \E j \in 1 .. i : l[j].op = "row" /\ l[j].ctl = c /\ l[j].on
  <1>1. PICK s : s = SubSeq(l, 1, i)
    OBVIOUS
  <1>2. i \in Nat /\ Len(s) = i /\ \A j \in 1 .. i : s[j] = l[j]
    BY <1>1
  <1>3. c \in After({}, s) /\ c \notin {}
    BY <1>1 DEF Rw
  <1>4. \E j \in 1 .. i : s[j].op = "row" /\ s[j].ctl = c /\ s[j].on
    BY <1>2, <1>3, AfterSome
  <1> QED
    BY <1>2, <1>4

-----------------------------------------------------------------------------
(* Epoch bookkeeping.                                                      *)

\* p counts epoch e as reached, or as one it may reach without a reload.
Knows(p, e) == e <= p.applied \/ e \in p.parked

\* What a counter step leaves: no epoch above b, and of the others only what
\* was known or is x.
Keeps(p, q, x, b) ==
    /\ q \in Plane /\ q.applied <= b /\ \A e \in q.parked : e <= b
    /\ q.force = p.force /\ q.reset = p.reset /\ q.recording = p.recording
    /\ q.ops = p.ops
    /\ \A e \in Nat : Knows(q, e) => Knows(p, e) \/ e = x

LEMMA AdvanceKeeps ==
    ASSUME NEW p \in Plane, NEW floor \in Nat, NEW b \in Nat,
           p.applied <= b, floor <= b, \A e \in p.parked : e <= b
    PROVE  LET q == Advance(p, floor)
           IN  /\ q \in Plane /\ q.applied <= b /\ \A e \in q.parked : e <= b
               /\ q.force = p.force /\ q.reset = p.reset
               /\ q.recording = p.recording /\ q.ops = p.ops
               /\ \A e \in Nat : Knows(q, e) => Knows(p, e) \/ e <= floor
  <1> DEFINE base == Max({p.applied, floor})
             T == {e \in {base} \cup p.parked : e >= base /\ base + 1 .. e \subseteq p.parked}
             top == Max(T)
  <1>0. p.applied \in Nat /\ p.parked \subseteq Nat
    BY DEF Plane
  <1>1. base \in Nat /\ (base = p.applied \/ base = floor) /\ base <= b
    BY <1>0, MaxTwo
  <1> HIDE DEF base
  <1>2. base \in T
    <2>1. base >= base /\ base + 1 .. base = {}
      BY <1>1
    <2> QED
      BY <2>1
  <1>3. T \in SUBSET Nat /\ \A x \in T : x <= b
    BY <1>0, <1>1
  <1>4. top \in T
    BY <1>2, <1>3, MaxOf
  <1>5. /\ top \in Nat /\ top <= b /\ top >= base
        /\ \A e \in base + 1 .. top : e \in p.parked
    BY <1>3, <1>4
  <1> HIDE DEF T, top
  <1>6. Advance(p, floor) = [p EXCEPT !.applied = top, !.parked = {e \in p.parked : e > top}]
    BY DEF Advance, base, T, top
  <1>7. PICK q : q = Advance(p, floor)
    OBVIOUS
  <1>8. /\ q.applied = top /\ q.parked = {e \in p.parked : e > top}
        /\ q.force = p.force /\ q.reset = p.reset
        /\ q.recording = p.recording /\ q.ops = p.ops /\ q \in Plane
    BY <1>0, <1>5, <1>6, <1>7 DEF Plane
  <1>9. ASSUME NEW e \in Nat, Knows(q, e) PROVE Knows(p, e) \/ e <= floor
    <2>1. CASE e \in q.parked
      BY <1>8, <2>1 DEF Knows
    <2>2. CASE e <= top /\ e > base
      <3>1. e \in base + 1 .. top
        BY <1>1, <1>5, <2>2
      <3> QED
        BY <1>5, <3>1 DEF Knows
    <2>3. CASE e <= base
      BY <1>1, <2>3 DEF Knows
    <2> QED
      BY <1>1, <1>5, <1>8, <1>9, <2>1, <2>2, <2>3 DEF Knows
  <1> QED
    BY <1>5, <1>7, <1>8, <1>9

LEMMA RecordKeeps ==
    ASSUME NEW p \in Plane, NEW x \in Nat, NEW b \in Nat,
           p.applied <= b, x <= b, \A e \in p.parked : e <= b
    PROVE  Keeps(p, Record(p, x), x, b)
  <1>0. p.applied \in Nat /\ p.parked \subseteq Nat
    BY DEF Plane
  <1>1. CASE x <= p.applied
    <2>1. Record(p, x) = p
      BY <1>1 DEF Record
    <2> QED
      BY <2>1 DEF Keeps
  <1>2. CASE ~ (x <= p.applied)
    <2>1. PICK r : r = [p EXCEPT !.parked = @ \cup {x}]
      OBVIOUS
    <2>2. /\ r \in Plane /\ r.applied = p.applied /\ r.parked = p.parked \cup {x}
          /\ r.force = p.force /\ r.reset = p.reset
          /\ r.recording = p.recording /\ r.ops = p.ops
      BY <1>0, <2>1 DEF Plane
    <2>3. PICK q : q = Advance(r, p.applied)
      OBVIOUS
    <2>4. /\ q \in Plane /\ q.applied <= b /\ \A e \in q.parked : e <= b
          /\ q.force = r.force /\ q.reset = r.reset
          /\ q.recording = r.recording /\ q.ops = r.ops
          /\ \A e \in Nat : Knows(q, e) => Knows(r, e) \/ e <= p.applied
      <3>1. \A e \in r.parked : e <= b
        BY <2>2
      <3> QED
        BY <1>0, <2>2, <2>3, <3>1, AdvanceKeeps
    <2>5. \A e \in Nat : Knows(q, e) => Knows(p, e) \/ e = x
      BY <2>2, <2>4 DEF Knows
    <2>6. CASE Record(p, x) = q
      BY <2>2, <2>4, <2>5, <2>6 DEF Keeps
    <2>7. CASE Record(p, x) = [q EXCEPT !.parked = {}]
      <3>1. PICK z : z = [q EXCEPT !.parked = {}]
        OBVIOUS
      <3>2. /\ z \in Plane /\ z.applied = q.applied /\ z.parked = {}
            /\ z.force = q.force /\ z.reset = q.reset
            /\ z.recording = q.recording /\ z.ops = q.ops
        BY <2>4, <3>1 DEF Plane
      <3>3. \A e \in Nat : Knows(z, e) => Knows(q, e)
        BY <3>2 DEF Knows
      <3> QED
        BY <2>2, <2>4, <2>5, <2>7, <3>1, <3>2, <3>3 DEF Keeps
    <2>8. Record(p, x) = IF Cardinality(q.parked) > MaxParked THEN [q EXCEPT !.parked = {}]
                         ELSE q
      BY <1>2, <2>1, <2>3 DEF Record
    <2> QED
      BY <2>6, <2>7, <2>8
  <1> QED
    BY <1>1, <1>2

\* A signal changes the target alone.
LEMMA SignalKeeps ==
    ASSUME NEW p \in Plane, NEW x \in Nat
    PROVE  LET q == Signal(p, x)
           IN  /\ q \in Plane /\ q.applied = p.applied /\ q.parked = p.parked
               /\ q.force = p.force /\ q.reset = p.reset
               /\ q.recording = p.recording /\ q.ops = p.ops
  <1>1. p.target \in Nat
    BY DEF Plane
  <1>2. Max({p.target, x}) \in Nat
    BY <1>1, MaxTwo
  <1>3. Signal(p, x) = IF x <= p.applied THEN p ELSE [p EXCEPT !.target = Max({p.target, x})]
    BY DEF Signal
  <1> QED
    BY <1>2, <1>3 DEF Plane

\* The journal gets the command or stays as it is.
LEMMA JournalKeeps ==
    ASSUME NEW p \in Plane, NEW cmd \in RowCommand
    PROVE  LET q == Journal(p, cmd)
           IN  /\ q \in Plane /\ q.applied = p.applied /\ q.parked = p.parked
               /\ q.force = p.force /\ q.reset = p.reset
               /\ q.recording = p.recording
               /\ q.ops = IF p.recording /\ cmd.ctl # Session THEN Append(p.ops, cmd)
                          ELSE p.ops
  <1>1. p.ops \in Seq(RowCommand)
    BY DEF Plane
  <1>2. Append(p.ops, cmd) \in Seq(RowCommand)
    BY <1>1
  <1>3. Journal(p, cmd) = IF p.recording /\ cmd.ctl # Session
                          THEN [p EXCEPT !.ops = Append(p.ops, cmd)] ELSE p
    BY DEF Journal
  <1> QED
    BY <1>2, <1>3 DEF Plane

-----------------------------------------------------------------------------
(* The log, and what the storage of Here reflects of it.                   *)

\* An epoch is a number, and no less than that of a shorter log.
LEMMA EpochOrder ==
    ASSUME TypeInv, NEW i \in Nat, NEW j \in Nat, i <= j
    PROVE  EpochAt(i) \in Nat /\ EpochAt(j) \in Nat /\ EpochAt(i) <= EpochAt(j)
  BY EpIs, EpFinite, EpMono

\* A control whose row is behind an epoch the storage has reached is in force
\* there, unless some row withdraws it.
LEMMA RowReached ==
    ASSUME TypeInv, NEW c \in Control, OnlyOn(c), NEW j \in 1 .. Len(log), About(c, j),
           NEW i \in 0 .. Len(log), j <= i \/ EpochAt(j) < EpochAt(i)
    PROVE  c \in RowsAt(i)
  <1>1. i \in Nat /\ j \in Nat /\ log \in Seq(Command)
    BY DEF TypeInv
  <1>2. j <= i
    <2>1. i <= j => EpochAt(i) <= EpochAt(j) /\ EpochAt(i) \in Nat /\ EpochAt(j) \in Nat
      BY <1>1, EpochOrder
    <2> QED
      BY <1>1, <2>1
  <1>3. \A k \in 1 .. Len(log) : log[k].op = "row" /\ log[k].ctl = c => log[k].on
    BY DEF OnlyOn, About
  <1>4. c \in Rw(log, i) <=> \E k \in 1 .. i : log[k].op = "row" /\ log[k].ctl = c
    BY <1>1, <1>3, RowsOn
  <1>5. c \in Rw(log, i)
    BY <1>1, <1>2, <1>4 DEF About
  <1> QED
    BY <1>5 DEF Rw, RowsAt

-----------------------------------------------------------------------------
(* What the counters of Here become, action by action.                     *)

\* What the journal is once cmd has been applied.
OpsWith(cmd) ==
    IF plane.recording /\ cmd.ctl # Session THEN Append(plane.ops, cmd) ELSE plane.ops

\* The counters have moved to p, for the sake of epoch x at most.
Moved(p, ops, x) ==
    /\ p \in Plane /\ p.applied <= EpochAt(at) /\ \A e \in p.parked : e <= EpochAt(at)
    /\ p.force = plane.force /\ p.reset = plane.reset /\ p.recording = plane.recording
    /\ p.ops = ops
    /\ \A e \in Nat : Knows(p, e) => Told(e) \/ e = x

LEMMA RowTyped == ASSUME NEW c \in Control, NEW on \in BOOLEAN PROVE Row(c, on) \in RowCommand
  BY DEF Row, RowCommand

LEMMA AppliedHere ==
    ASSUME TypeInv, EpochInv, NEW cmd \in RowCommand, NEW x \in Nat, x <= EpochAt(at)
    PROVE  Moved(Record(Journal(plane, cmd), x), OpsWith(cmd), x)
  <1>1. plane \in Plane /\ at \in Nat
    BY DEF TypeInv
  <1>2. EpochAt(at) \in Nat
    BY <1>1, EpochOrder
  <1>3. PICK q : q = Journal(plane, cmd)
    OBVIOUS
  <1>4. /\ q \in Plane /\ q.applied = plane.applied /\ q.parked = plane.parked
        /\ q.force = plane.force /\ q.reset = plane.reset
        /\ q.recording = plane.recording /\ q.ops = OpsWith(cmd)
    BY <1>1, <1>3, JournalKeeps DEF OpsWith
  <1>5. q.applied <= EpochAt(at) /\ \A e \in q.parked : e <= EpochAt(at)
    BY <1>4 DEF EpochInv
  <1>6. Keeps(q, Record(q, x), x, EpochAt(at))
    BY <1>2, <1>4, <1>5, RecordKeeps
  <1>7. \A e \in Nat : Knows(q, e) => Told(e)
    BY <1>4 DEF Knows, Told
  <1> QED
    BY <1>3, <1>4, <1>6, <1>7 DEF Keeps, Moved

LEMMA RecordedHere ==
    ASSUME TypeInv, EpochInv, NEW x \in Nat, x <= EpochAt(at)
    PROVE  Moved(Record(plane, x), plane.ops, x)
  <1>1. plane \in Plane /\ at \in Nat
    BY DEF TypeInv
  <1>2. EpochAt(at) \in Nat
    BY <1>1, EpochOrder
  <1>3. plane.applied <= EpochAt(at) /\ \A e \in plane.parked : e <= EpochAt(at)
    BY DEF EpochInv
  <1>4. Keeps(plane, Record(plane, x), x, EpochAt(at))
    BY <1>1, <1>2, <1>3, RecordKeeps
  <1>5. \A e \in Nat : Knows(plane, e) => Told(e)
    BY DEF Knows, Told
  <1> QED
    BY <1>4, <1>5 DEF Keeps, Moved

\* A write publishes its change: no epoch but its own becomes known.
LEMMA PublishMoves ==
    ASSUME IInv, NEW w \in Writer, Publish(w)
    PROVE  /\ Moved(plane', OpsWith(Row(writer[w].ctl, writer[w].on)), writer[w].epoch)
           /\ writer[w].epoch <= EpochAt(at)
  <1>1. /\ writer[w] \in Call /\ at \in Nat /\ seen \in Nat /\ seen <= at
        /\ writer[w].pc = "bumped" /\ seen >= writer[w].idx
    BY DEF IInv, TypeInv, Publish, Returned
  <1>2. /\ writer[w].idx \in Nat /\ writer[w].epoch \in Nat
        /\ writer[w].epoch = EpochAt(writer[w].idx)
        /\ Row(writer[w].ctl, writer[w].on) \in RowCommand
    BY <1>1, RowTyped DEF IInv, CallInv, CallOK, Call
  <1>3. writer[w].idx <= at
    BY <1>1, <1>2
  <1>4. writer[w].epoch <= EpochAt(at)
    BY <1>1, <1>2, <1>3, EpochOrder DEF IInv
  <1>5. plane' = Record(Journal(plane, Row(writer[w].ctl, writer[w].on)), writer[w].epoch)
    BY DEF Publish, ApplyHere
  <1> QED
    BY <1>2, <1>4, <1>5, AppliedHere DEF IInv

\* A write whose bump failed publishes its change: no epoch becomes known.
LEMMA BumpFailsMoves ==
    ASSUME IInv, NEW w \in Writer, BumpFails(w), writer[w].node = Here
    PROVE  Moved(plane', OpsWith(Row(writer[w].ctl, writer[w].on)), 0)
  <1>1. writer[w] \in Call /\ at \in Nat
    BY DEF IInv, TypeInv
  <1>2. Row(writer[w].ctl, writer[w].on) \in RowCommand
    BY <1>1, RowTyped DEF Call
  <1>3. 0 \in Nat /\ 0 <= EpochAt(at)
    BY <1>1, EpochOrder DEF IInv
  <1>4. plane' = Record(Journal(plane, Row(writer[w].ctl, writer[w].on)), 0)
    BY DEF BumpFails, ApplyHere
  <1> QED
    BY <1>2, <1>3, <1>4, AppliedHere DEF IInv

\* An owed bump is recorded, an election's is not.
LEMMA BumpDoneMoves ==
    ASSUME IInv, NEW n \in Node, BumpDone(n)
    PROVE  /\ n = Here /\ bumper[Here].pc = "wait"
           /\ Moved(plane', plane.ops, EpochAt(bumper[Here].idx))
  <1>1. n = Here /\ bumper[n].pc = "wait" /\ bumper[n].idx \in 1 .. Len(log)
    BY DEF IInv, BumpInv, BumpDone
  <1>2. at \in Nat /\ seen \in Nat /\ seen <= at /\ bumper[n].idx \in Nat
    BY <1>1 DEF IInv, TypeInv
  <1>3. bumper[n].idx <= at
    BY <1>1, <1>2 DEF BumpDone, Returned
  <1>4. EpochAt(bumper[n].idx) \in Nat /\ EpochAt(bumper[n].idx) <= EpochAt(at)
    BY <1>2, <1>3, EpochOrder DEF IInv
  <1>5. CASE plane' = plane
    BY <1>1, <1>5 DEF IInv, TypeInv, EpochInv, Moved, Knows, Told
  <1>6. CASE plane' = Record(plane, EpochAt(bumper[n].idx))
    BY <1>1, <1>4, <1>6, RecordedHere DEF IInv
  <1> QED
    BY <1>1, <1>5, <1>6 DEF BumpDone

\* The observer signals a bump and projects a row: no epoch becomes known.
LEMMA ObserveMoves ==
    ASSUME IInv, Observe
    PROVE  /\ at \in 1 .. Len(log) /\ log[at] \in Command
           /\ \/ log[at].op = "bump" /\ Moved(plane', plane.ops, 0) /\ cache' = cache
              \/ /\ log[at].op = "row" /\ log[at] \in RowCommand
                 /\ Moved(plane', OpsWith(log[at]), 0) /\ cache' = Cached(cache, log[at])
  <1>1. /\ plane \in Plane /\ at \in Nat /\ seen \in Nat /\ seen < at /\ at <= Len(log)
        /\ log \in Seq(Command)
    BY DEF IInv, TypeInv, Observe
  <1>2. at \in 1 .. Len(log) /\ log[at] \in Command
    BY <1>1
  <1>3. EpochAt(at) \in Nat
    BY <1>1, EpochOrder DEF IInv
  <1>4. plane.applied <= EpochAt(at) /\ \A e \in plane.parked : e <= EpochAt(at)
    BY DEF IInv, EpochInv
  <1>5. CASE log[at].op = "bump"
    <2>1. plane' = Signal(plane, EpochAt(at)) /\ cache' = cache
      BY <1>5 DEF Observe
    <2>2. /\ plane' \in Plane /\ plane'.applied = plane.applied /\ plane'.parked = plane.parked
          /\ plane'.force = plane.force /\ plane'.reset = plane.reset
          /\ plane'.recording = plane.recording /\ plane'.ops = plane.ops
      BY <1>1, <1>3, <2>1, SignalKeeps
    <2> QED
      BY <1>2, <1>4, <1>5, <2>1, <2>2 DEF Moved, Knows, Told
  <1>6. CASE log[at].op # "bump"
    <2>1. log[at] \in RowCommand /\ log[at].op = "row"
      BY <1>2, <1>6 DEF Command, RowCommand
    <2>2. plane' = Journal(plane, log[at]) /\ cache' = Cached(cache, log[at])
      BY <1>6 DEF Observe
    <2>3. /\ plane' \in Plane /\ plane'.applied = plane.applied /\ plane'.parked = plane.parked
          /\ plane'.force = plane.force /\ plane'.reset = plane.reset
          /\ plane'.recording = plane.recording /\ plane'.ops = OpsWith(log[at])
      BY <1>1, <2>1, <2>2, JournalKeeps DEF OpsWith
    <2> QED
      BY <1>2, <1>4, <2>1, <2>2, <2>3 DEF Moved, Knows, Told
  <1> QED
    BY <1>5, <1>6

\* A swap: the reload's epoch becomes known, and no other.
LEMMA SwapMoves ==
    ASSUME IInv, Swap
    PROVE  /\ plane' \in Plane /\ plane'.applied <= EpochAt(at)
           /\ \A e \in plane'.parked : e <= EpochAt(at)
           /\ plane'.force = plane.force /\ plane'.reset = plane.reset
           /\ ~ plane'.recording /\ plane'.ops = <<>>
           /\ \A e \in Nat : Knows(plane', e) =>
                 e <= reload.epoch \/ (Told(e) /\ ~ reload.reset)
  <1>1. plane \in Plane /\ at \in Nat /\ reload \in Loads /\ reload.epoch \in Nat
    BY DEF IInv, TypeInv, Loads
  <1>2. EpochAt(at) \in Nat
    BY <1>1, EpochOrder DEF IInv
  <1>3. /\ plane.applied <= EpochAt(at) /\ \A e \in plane.parked : e <= EpochAt(at)
        /\ reload.epoch <= EpochAt(at)
    BY DEF IInv, EpochInv
  <1>4. PICK p : p = [plane EXCEPT !.recording = FALSE, !.ops = <<>>]
    OBVIOUS
  <1>5. /\ p \in Plane /\ p.applied = plane.applied /\ p.parked = plane.parked
        /\ p.force = plane.force /\ p.reset = plane.reset /\ p.target = plane.target
        /\ p.recording = FALSE /\ p.ops = <<>>
    <2>1. <<>> \in Seq(RowCommand)
      OBVIOUS
    <2> QED
      BY <1>1, <1>4, <2>1 DEF Plane
  <1>6. CASE reload.reset
    <2>1. plane' = [p EXCEPT !.parked = {}, !.applied = reload.epoch, !.target = reload.epoch]
      BY <1>4, <1>6 DEF Swap
    <2>2. /\ plane' \in Plane /\ plane'.applied = reload.epoch /\ plane'.parked = {}
          /\ plane'.force = p.force /\ plane'.reset = p.reset
          /\ plane'.recording = FALSE /\ plane'.ops = <<>>
      BY <1>1, <1>5, <2>1 DEF Plane
    <2> QED
      BY <1>3, <1>5, <2>2 DEF Knows
  <1>7. CASE ~ reload.reset
    <2>1. plane' = Advance(p, reload.epoch)
      BY <1>4, <1>7 DEF Swap
    <2>2. p.applied <= EpochAt(at) /\ \A e \in p.parked : e <= EpochAt(at)
      BY <1>3, <1>5
    <2>3. /\ plane' \in Plane /\ plane'.applied <= EpochAt(at)
          /\ \A e \in plane'.parked : e <= EpochAt(at)
          /\ plane'.force = p.force /\ plane'.reset = p.reset
          /\ plane'.recording = p.recording /\ plane'.ops = p.ops
          /\ \A e \in Nat : Knows(plane', e) => Knows(p, e) \/ e <= reload.epoch
      BY <1>1, <1>2, <1>3, <1>5, <2>1, <2>2, AdvanceKeeps
    <2> QED
      BY <1>5, <1>7, <2>3 DEF Knows, Told
  <1> QED
    BY <1>6, <1>7

\* After a reset the signal is made again, or a reload is armed.
LEMMA ResignalMoves ==
    ASSUME IInv, Resignal
    PROVE  /\ plane' \in Plane /\ plane'.applied = plane.applied
           /\ plane'.parked = plane.parked /\ plane'.recording = plane.recording
           /\ plane'.ops = plane.ops
           /\ (plane'.force = plane.force /\ plane'.reset = plane.reset)
              \/ (plane'.force /\ plane'.reset)
  <1>1. plane \in Plane /\ at \in Nat
    BY DEF IInv, TypeInv
  <1>2. EpochAt(at) \in Nat
    BY <1>1, EpochOrder DEF IInv
  <1>3. Epoch \in Nat
    BY <1>2 DEF Epoch
  <1>4. CASE plane' = Signal(plane, Epoch)
    BY <1>1, <1>3, <1>4, SignalKeeps
  <1>5. CASE plane' = [plane EXCEPT !.reset = TRUE, !.force = TRUE]
    BY <1>1, <1>5 DEF Plane
  <1> QED
    BY <1>4, <1>5 DEF Resignal

-----------------------------------------------------------------------------
(* Types.                                                                  *)

LEMMA BumpTyped == Bump \in Command
  BY DEF Bump, Command

LEMMA CallTyped ==
    ASSUME NEW r \in Call
    PROVE  /\ Done(r) \in Call
           /\ [r EXCEPT !.pc = "evict"] \in Call /\ [r EXCEPT !.pc = "bump"] \in Call
  BY DEF Call, Done

LEMMA TypeStep ==
    ASSUME IInv, Next
    PROVE  TypeInv'
  <1> USE DEF raft, applying, control, session, bumps, elsewhere
  <1>1. ASSUME NEW w \in Writer, NEW n \in Node, NEW c \in Control, NEW on \in BOOLEAN,
               WriteRow(w, n, c, on)
        PROVE  TypeInv'
    <2>1. /\ log' = Append(log, Row(c, on)) /\ leader' = leader /\ Event
          /\ excused' \in {excused, excused \cup {c}}
          /\ UNCHANGED <<applying, control, session, bumps>>
      BY <1>1 DEF WriteRow
    <2>2. log' \in Seq(Command) /\ Len(log') = Len(log) + 1
      BY <2>1, RowTyped DEF IInv, TypeInv, Command, RowCommand
    <2>3. writer' \in [Writer -> Call]
      BY <1>1, <2>2 DEF IInv, TypeInv, Call, WriteRow
    <2> QED
      BY <2>1, <2>2, <2>3 DEF IInv, TypeInv, Event
  <1>2. ASSUME NEW w \in Writer, WriteGivenUp(w) PROVE TypeInv'
    <2>1. writer' \in [Writer -> Call]
      BY <1>2, CallTyped DEF IInv, TypeInv, WriteGivenUp
    <2>2. excused' \subseteq Control
      BY <1>2 DEF IInv, TypeInv, Call, WriteGivenUp
    <2>3. events' \in Nat
      BY <1>2 DEF IInv, TypeInv, WriteGivenUp, Event
    <2> QED
      BY <1>2, <2>1, <2>2, <2>3 DEF IInv, TypeInv, WriteGivenUp
  <1>3. ASSUME NEW w \in Writer, FenceSession(w) PROVE TypeInv'
    <2>1. writer' \in [Writer -> Call]
      BY <1>3, CallTyped DEF IInv, TypeInv, FenceSession
    <2>2. fill' \in Lookup
      BY <1>3 DEF IInv, TypeInv, Lookup, FenceSession, Fenced
    <2> QED
      BY <1>3, <2>1, <2>2 DEF IInv, TypeInv, FenceSession
  <1>4. ASSUME NEW w \in Writer, EvictSession(w) PROVE TypeInv'
    <2>1. writer' \in [Writer -> Call]
      BY <1>4, CallTyped DEF IInv, TypeInv, EvictSession
    <2>2. fill' \in Lookup /\ held' \in BOOLEAN
      BY <1>4 DEF IInv, TypeInv, Lookup, EvictSession, Replaced
    <2> QED
      BY <1>4, <2>1, <2>2 DEF IInv, TypeInv, EvictSession
  <1>5. ASSUME NEW w \in Writer, BumpEpoch(w) PROVE TypeInv'
    <2>1. log' \in Seq(Command) /\ Len(log') = Len(log) + 1
      BY <1>5, BumpTyped DEF IInv, TypeInv, BumpEpoch
    <2>2. EpochAt(Len(log)) \in Nat /\ Len(log) \in Nat /\ writer[w] \in Call
      BY EpochOrder DEF IInv, TypeInv
    <2>4. EpochAt(Len(log)) + 1 \in Nat /\ Len(log) + 1 \in Nat
      BY <2>2
    <2>3. writer' \in [Writer -> Call]
      <3>1. CASE writer[w].node = Here
        <4>1. PICK r : r = [writer[w] EXCEPT !.pc = "bumped", !.idx = Len(log) + 1,
                                             !.epoch = EpochAt(Len(log)) + 1]
          OBVIOUS
        <4>2. r \in Call
          BY <2>2, <2>4, <4>1 DEF Call
        <4>3. writer' = [writer EXCEPT ![w] = r]
          BY <1>5, <3>1, <4>1 DEF BumpEpoch
        <4> QED
          BY <4>2, <4>3 DEF IInv, TypeInv
      <3>2. CASE writer[w].node # Here
        <4>1. PICK r : r = [Done(writer[w]) EXCEPT !.epoch = EpochAt(Len(log)) + 1]
          OBVIOUS
        <4>2. r \in Call
          BY <2>2, <2>4, <4>1 DEF Call, Done
        <4>3. writer' = [writer EXCEPT ![w] = r]
          BY <1>5, <3>2, <4>1 DEF BumpEpoch
        <4> QED
          BY <4>2, <4>3 DEF IInv, TypeInv
      <3> QED
        BY <3>1, <3>2
    <2> QED
      BY <1>5, <2>1, <2>3 DEF IInv, TypeInv, BumpEpoch
  <1>6. ASSUME NEW w \in Writer, BumpFails(w) PROVE TypeInv'
    <2>1. log' \in Seq(Command) /\ Len(log') >= Len(log)
      <3>1. CASE log' = log
        BY <3>1 DEF IInv, TypeInv
      <3>2. CASE log' = Append(log, Bump)
        BY <3>2, BumpTyped DEF IInv, TypeInv
      <3> QED
        BY <1>6, <3>1, <3>2 DEF BumpFails
    <2>5. events' \in Nat
      BY <1>6 DEF IInv, TypeInv, BumpFails, Event
    <2>2. plane' \in Plane /\ cache' \subseteq Control
      <3>1. CASE writer[w].node = Here
        <4>1. cache' = Cached(cache, Row(writer[w].ctl, writer[w].on))
          BY <1>6, <3>1 DEF BumpFails, ApplyHere
        <4> QED
          BY <1>6, <3>1, <4>1, BumpFailsMoves, AfterType DEF Moved, Cached, IInv, TypeInv
      <3>2. CASE writer[w].node # Here
        BY <1>6, <3>2 DEF BumpFails, IInv, TypeInv
      <3> QED
        BY <3>1, <3>2
    <2>3. writer' \in [Writer -> Call]
      BY <1>6, CallTyped DEF IInv, TypeInv, BumpFails
    <2>4. owed' \in [Node -> SUBSET Writer]
      BY <1>6 DEF IInv, TypeInv, BumpFails
    <2> QED
      BY <1>6, <2>1, <2>2, <2>3, <2>4, <2>5 DEF IInv, TypeInv, BumpFails
  <1>7. ASSUME NEW w \in Writer, Publish(w) PROVE TypeInv'
    <2>1. cache' = Cached(cache, Row(writer[w].ctl, writer[w].on))
      BY <1>7 DEF Publish, ApplyHere
    <2>2. plane' \in Plane /\ cache' \subseteq Control
      BY <1>7, <2>1, PublishMoves, AfterType DEF Moved, Cached, IInv, TypeInv
    <2>3. writer' \in [Writer -> Call]
      BY <1>7, CallTyped DEF IInv, TypeInv, Publish
    <2> QED
      BY <1>7, <2>2, <2>3 DEF IInv, TypeInv, Publish
  <1>8. ASSUME NEW n \in Node, BumpTake(n) PROVE TypeInv'
    <2>1. bumper' \in [Node -> Bumper] /\ due' \in [Node -> BOOLEAN]
      BY <1>8 DEF IInv, TypeInv, Bumper, BumpTake
    <2> QED
      BY <1>8, <2>1 DEF IInv, TypeInv, BumpTake
  <1>9. ASSUME NEW n \in Node, BumpCommit(n) PROVE TypeInv'
    <2>1. log' \in Seq(Command) /\ Len(log') = Len(log) + 1
      BY <1>9, BumpTyped DEF IInv, TypeInv, BumpCommit
    <2>2. bumper' \in [Node -> Bumper] /\ owed' \in [Node -> SUBSET Writer]
      <3>1. CASE n = Here
        <4>1. PICK r : r = [bumper[n] EXCEPT !.pc = "wait", !.idx = Len(log) + 1]
          OBVIOUS
        <4>2. Len(log) + 1 \in Nat /\ bumper[n] \in Bumper
          BY DEF IInv, TypeInv
        <4>4. r \in Bumper
          BY <4>1, <4>2 DEF Bumper
        <4>3. bumper' = [bumper EXCEPT ![n] = r] /\ owed' = owed
          BY <1>9, <3>1, <4>1 DEF BumpCommit, IInv, TypeInv
        <4> QED
          BY <4>3, <4>4 DEF IInv, TypeInv
      <3>2. CASE n # Here
        <4>1. BumpSettled(n)
          BY <1>9, <3>2 DEF BumpCommit
        <4> QED
          BY <4>1 DEF IInv, TypeInv, Bumper, BumpSettled, NoBump
      <3> QED
        BY <3>1, <3>2
    <2> QED
      BY <1>9, <2>1, <2>2 DEF IInv, TypeInv, BumpCommit
  <1>10. ASSUME NEW n \in Node, BumpDone(n) PROVE TypeInv'
    <2>1. plane' \in Plane
      BY <1>10, BumpDoneMoves DEF Moved
    <2>2. bumper' \in [Node -> Bumper] /\ owed' \in [Node -> SUBSET Writer]
      BY <1>10 DEF IInv, TypeInv, Bumper, BumpDone, BumpSettled, NoBump
    <2> QED
      BY <1>10, <2>1, <2>2 DEF IInv, TypeInv, BumpDone
  <1>11. ASSUME NEW n \in Node, BumpError(n) PROVE TypeInv'
    <2>1. log' \in Seq(Command) /\ Len(log') >= Len(log)
      <3>1. CASE log' = log
        BY <3>1 DEF IInv, TypeInv
      <3>2. CASE log' = Append(log, Bump)
        BY <3>2, BumpTyped DEF IInv, TypeInv
      <3> QED
        BY <1>11, <3>1, <3>2 DEF BumpError
    <2>5. events' \in Nat
      BY <1>11 DEF IInv, TypeInv, BumpError, Event
    <2>2. bumper' \in [Node -> Bumper]
      BY <1>11 DEF IInv, TypeInv, Bumper, BumpError, NoBump
    <2>3. due' \in [Node -> BOOLEAN]
      <3>1. due'[n] = (due[n] \/ bumper[n].election) /\ due' \in [Node -> {due[n] \/ bumper[n].election} \cup BOOLEAN]
        BY <1>11 DEF IInv, TypeInv, BumpError
      <3> QED
        BY <3>1
    <2> QED
      BY <1>11, <2>1, <2>2, <2>3, <2>5 DEF IInv, TypeInv, BumpError
  <1>12. ASSUME NEW n \in Node, BumpRefused(n) PROVE TypeInv'
    <2>1. bumper' \in [Node -> Bumper] /\ owed' \in [Node -> SUBSET Writer]
      BY <1>12 DEF IInv, TypeInv, Bumper, BumpRefused, BumpSettled, NoBump
    <2>2. excused' \subseteq Control
      BY <1>12 DEF IInv, TypeInv, Bumper, Call, BumpRefused
    <2> QED
      BY <1>12, <2>1, <2>2 DEF IInv, TypeInv, BumpRefused
  <1>13. ASSUME NEW n \in Node, Elect(n) PROVE TypeInv'
    BY <1>13 DEF IInv, TypeInv, Elect
  <1>14. ASSUME NEW n \in Node, Restart(n) PROVE TypeInv'
    <2>1. writer' \in [Writer -> Call]
      BY <1>14, CallTyped DEF IInv, TypeInv, Restart
    <2>2. bumper' \in [Node -> Bumper] /\ owed' \in [Node -> SUBSET Writer] /\ due' \in [Node -> BOOLEAN]
      BY <1>14 DEF IInv, TypeInv, Bumper, Restart, NoBump
    <2>3. excused' \subseteq Control /\ events' \in Nat /\ at' = at
      BY <1>14 DEF IInv, TypeInv, Call, Restart, Event
    <2>4. CASE n = Here
      <3>1. /\ seen' = at /\ held' = FALSE /\ fill' = NoFill /\ reload' = NoReload
            /\ cache' = RowsAt(at) \ {Session} /\ plane' = FreshPlane(EpochAt(at))
        BY <1>14, <2>4 DEF Restart
      <3>2. fill' \in Lookup /\ reload' \in Loads
        BY <3>1 DEF Lookup, Loads, NoFill, NoReload
      <3>3. cache' \subseteq Control
        BY <3>1, AfterType DEF RowsAt
      <3>4. EpochAt(at) \in Nat /\ <<>> \in Seq(RowCommand)
        BY EpochOrder DEF IInv, TypeInv
      <3>5. plane' \in Plane
        BY <3>1, <3>4 DEF Plane, FreshPlane
      <3>6. log' = log /\ leader' = leader /\ install' = install
        BY <1>14 DEF Restart
      <3>7. at \in Nat /\ at <= Len(log)
        BY DEF IInv, TypeInv
      <3>8. seen' \in Nat /\ seen' <= at' /\ at' \in Nat /\ at' <= Len(log')
        BY <2>3, <3>1, <3>6, <3>7
      <3>9. held' \in BOOLEAN
        BY <3>1
      <3> QED
        BY <2>1, <2>2, <2>3, <3>2, <3>3, <3>5, <3>6, <3>8, <3>9 DEF IInv, TypeInv
    <2>5. CASE n # Here
      BY <1>14, <2>1, <2>2, <2>3, <2>5 DEF IInv, TypeInv, Restart
    <2> QED
      BY <2>4, <2>5
  <1>15. ASSUME Apply PROVE TypeInv'
    BY <1>15 DEF IInv, TypeInv, Apply
  <1>16. ASSUME Observe PROVE TypeInv'
    <2>1. plane' \in Plane /\ cache' \subseteq Control
      BY <1>16, ObserveMoves, AfterType DEF Moved, Cached, IInv, TypeInv
    <2> QED
      BY <1>16, <2>1 DEF IInv, TypeInv, Observe
  <1>17. ASSUME Wipe PROVE TypeInv'
    BY <1>17 DEF IInv, TypeInv, Wipe, Event
  <1>18. ASSUME NEW k \in 1 .. Len(log), Restore(k) PROVE TypeInv'
    BY <1>18 DEF IInv, TypeInv, Restore
  <1>19. ASSUME StartReload PROVE TypeInv'
    <2>1. Epoch \in Nat
      BY EpochOrder DEF IInv, TypeInv, Epoch
    <2>2. plane' \in Plane
      BY <1>19 DEF IInv, TypeInv, Plane, StartReload
    <2>3. reload' \in Loads
      BY <1>19, <2>1 DEF IInv, TypeInv, Loads, Plane, StartReload, Loading
    <2> QED
      BY <1>19, <2>2, <2>3 DEF IInv, TypeInv, StartReload
  <1>20. ASSUME StartReset PROVE TypeInv'
    <2>1. Epoch \in Nat
      BY EpochOrder DEF IInv, TypeInv, Epoch
    <2>2. reload' \in Loads
      BY <1>20, <2>1 DEF IInv, TypeInv, Loads, StartReset, Loading
    <2> QED
      BY <1>20, <2>2 DEF IInv, TypeInv, StartReset
  <1>21. ASSUME StartRecording PROVE TypeInv'
    <2>1. plane' \in Plane
      <3>1. <<>> \in Seq(RowCommand)
        OBVIOUS
      <3> QED
        BY <1>21, <3>1 DEF IInv, TypeInv, Plane, StartRecording
    <2>2. reload' \in Loads
      BY <1>21 DEF IInv, TypeInv, Loads, StartRecording
    <2> QED
      BY <1>21, <2>1, <2>2 DEF IInv, TypeInv, StartRecording
  <1>22. ASSUME Scan PROVE TypeInv'
    <2>1. Rows \subseteq Control
      BY AfterType DEF Rows, RowsAt
    <2>2. reload' \in Loads
      BY <1>22, <2>1 DEF IInv, TypeInv, Loads, Scan
    <2> QED
      BY <1>22, <2>2 DEF IInv, TypeInv, Scan
  <1>23. ASSUME ScanFails PROVE TypeInv'
    <2>1. plane' \in Plane
      <3>1. <<>> \in Seq(RowCommand) /\ reload.forced \in BOOLEAN /\ reload.reset \in BOOLEAN
        BY DEF IInv, TypeInv, Loads
      <3> QED
        BY <1>23, <3>1 DEF IInv, TypeInv, Plane, ScanFails
    <2>2. /\ reload' \in Loads /\ install' \in {"no", install} /\ seen' \in {seen, at}
          /\ events' \in Nat
      BY <1>23 DEF IInv, TypeInv, Loads, ScanFails, EndReload, NoReload, Event
    <2> QED
      BY <1>23, <2>1, <2>2 DEF IInv, TypeInv, ScanFails
  <1>24. ASSUME Swap PROVE TypeInv'
    <2>1. plane' \in Plane /\ cache' \subseteq Control
      BY <1>24, SwapMoves, AfterType DEF Swap
    <2>2. reload' \in Loads
      BY <1>24 DEF IInv, TypeInv, Loads, Swap
    <2> QED
      BY <1>24, <2>1, <2>2 DEF IInv, TypeInv, Swap
  <1>25. ASSUME Resignal PROVE TypeInv'
    <2>1. plane' \in Plane /\ events' \in Nat
      BY <1>25, ResignalMoves DEF IInv, TypeInv, Resignal, Event
    <2>2. reload' \in Loads
      BY <1>25 DEF IInv, TypeInv, Loads, Resignal
    <2> QED
      BY <1>25, <2>1, <2>2 DEF IInv, TypeInv, Resignal
  <1>26. ASSUME FlushFence PROVE TypeInv'
    <2>1. fill' \in Lookup
      BY <1>26 DEF IInv, TypeInv, Lookup, FlushFence, Fenced
    <2>2. reload' \in Loads
      BY <1>26 DEF IInv, TypeInv, Loads, FlushFence
    <2> QED
      BY <1>26, <2>1, <2>2 DEF IInv, TypeInv, FlushFence
  <1>27. ASSUME FlushStore PROVE TypeInv'
    <2>1. fill' \in Lookup
      BY <1>27 DEF IInv, TypeInv, Lookup, FlushStore, Replaced
    <2>2. reload' \in Loads /\ install' \in {"no", install} /\ seen' \in {seen, at} /\ held' \in BOOLEAN
      BY <1>27 DEF IInv, TypeInv, Loads, FlushStore, EndReload, NoReload
    <2> QED
      BY <1>27, <2>1, <2>2 DEF IInv, TypeInv, FlushStore
  <1>28. ASSUME FillStart PROVE TypeInv'
    <2>1. fill' \in Lookup
      BY <1>28 DEF IInv, TypeInv, Lookup, FillStart, NoFill
    <2>2. held' \in BOOLEAN
      BY <1>28 DEF IInv, TypeInv, FillStart
    <2> QED
      BY <1>28, <2>1, <2>2 DEF IInv, TypeInv, FillStart
  <1>29. ASSUME FillRead PROVE TypeInv'
    <2>1. fill' \in Lookup
      BY <1>29 DEF IInv, TypeInv, Lookup, FillRead, NoFill
    <2>2. held' \in BOOLEAN
      BY <1>29 DEF IInv, TypeInv, FillRead
    <2> QED
      BY <1>29, <2>1, <2>2 DEF IInv, TypeInv, FillRead
  <1>30. ASSUME FillInsert PROVE TypeInv'
    <2>1. fill' \in Lookup
      BY <1>30 DEF IInv, TypeInv, Lookup, FillInsert, NoFill
    <2>2. held' \in BOOLEAN
      BY <1>30 DEF IInv, TypeInv, FillInsert
    <2> QED
      BY <1>30, <2>1, <2>2 DEF IInv, TypeInv, FillInsert
  <1>31. ASSUME FillRecheck PROVE TypeInv'
    <2>1. fill' \in Lookup
      BY <1>31 DEF IInv, TypeInv, Lookup, FillRecheck, NoFill
    <2>2. held' \in BOOLEAN
      BY <1>31 DEF IInv, TypeInv, FillRecheck
    <2> QED
      BY <1>31, <2>1, <2>2 DEF IInv, TypeInv, FillRecheck
  <1>32. ASSUME LoseLeader PROVE TypeInv'
    BY <1>32 DEF IInv, TypeInv, LoseLeader, Event
  <1> QED
    BY <1>1, <1>2, <1>3, <1>4, <1>5, <1>6, <1>7, <1>8, <1>9, <1>10, <1>11, <1>12, <1>13,
       <1>14, <1>15, <1>16, <1>17, <1>18, <1>19, <1>20, <1>21, <1>22, <1>23, <1>24,
       <1>25, <1>26, <1>27, <1>28, <1>29, <1>30, <1>31, <1>32
       DEF Next, Write, Replicate, Reload, Fill, PayBumps

-----------------------------------------------------------------------------
(* What a step does to the log and to the calls.                           *)

\* A write begins.
Begins == \E w \in Writer, n \in Node, c \in Control, on \in BOOLEAN : WriteRow(w, n, c, on)

LEMMA LogStep ==
    ASSUME IInv, Next
    PROVE  at <= at' /\ (log' = log \/ log' = Append(log, Bump) \/ Begins)
  <1> USE DEF raft, applying, control, session, bumps, elsewhere
  <1>1. ASSUME NEW w \in Writer, NEW n \in Node, NEW c \in Control, NEW on \in BOOLEAN,
               WriteRow(w, n, c, on)
        PROVE  at <= at' /\ (log' = log \/ log' = Append(log, Bump) \/ Begins)
    <2>1. at' = at /\ at \in Nat
      BY <1>1 DEF IInv, TypeInv, WriteRow
    <2> QED
      BY <1>1, <2>1 DEF Begins
  <1>2. ASSUME NEW w \in Writer, WriteGivenUp(w)
        PROVE  at <= at' /\ (log' = log \/ log' = Append(log, Bump) \/ Begins)
    BY <1>2 DEF IInv, TypeInv, WriteGivenUp
  <1>3. ASSUME NEW w \in Writer, FenceSession(w)
        PROVE  at <= at' /\ (log' = log \/ log' = Append(log, Bump) \/ Begins)
    BY <1>3 DEF IInv, TypeInv, FenceSession
  <1>4. ASSUME NEW w \in Writer, EvictSession(w)
        PROVE  at <= at' /\ (log' = log \/ log' = Append(log, Bump) \/ Begins)
    BY <1>4 DEF IInv, TypeInv, EvictSession
  <1>5. ASSUME NEW w \in Writer, BumpEpoch(w)
        PROVE  at <= at' /\ (log' = log \/ log' = Append(log, Bump) \/ Begins)
    BY <1>5 DEF IInv, TypeInv, BumpEpoch
  <1>6. ASSUME NEW w \in Writer, BumpFails(w)
        PROVE  at <= at' /\ (log' = log \/ log' = Append(log, Bump) \/ Begins)
    BY <1>6 DEF IInv, TypeInv, BumpFails
  <1>7. ASSUME NEW w \in Writer, Publish(w)
        PROVE  at <= at' /\ (log' = log \/ log' = Append(log, Bump) \/ Begins)
    BY <1>7 DEF IInv, TypeInv, Publish
  <1>8. ASSUME NEW n \in Node, BumpTake(n)
        PROVE  at <= at' /\ (log' = log \/ log' = Append(log, Bump) \/ Begins)
    BY <1>8 DEF IInv, TypeInv, BumpTake
  <1>9. ASSUME NEW n \in Node, BumpCommit(n)
        PROVE  at <= at' /\ (log' = log \/ log' = Append(log, Bump) \/ Begins)
    BY <1>9 DEF IInv, TypeInv, BumpCommit
  <1>10. ASSUME NEW n \in Node, BumpDone(n)
        PROVE  at <= at' /\ (log' = log \/ log' = Append(log, Bump) \/ Begins)
    BY <1>10 DEF IInv, TypeInv, BumpDone
  <1>11. ASSUME NEW n \in Node, BumpError(n)
        PROVE  at <= at' /\ (log' = log \/ log' = Append(log, Bump) \/ Begins)
    BY <1>11 DEF IInv, TypeInv, BumpError
  <1>12. ASSUME NEW n \in Node, BumpRefused(n)
        PROVE  at <= at' /\ (log' = log \/ log' = Append(log, Bump) \/ Begins)
    BY <1>12 DEF IInv, TypeInv, BumpRefused
  <1>13. ASSUME NEW n \in Node, Elect(n)
        PROVE  at <= at' /\ (log' = log \/ log' = Append(log, Bump) \/ Begins)
    BY <1>13 DEF IInv, TypeInv, Elect
  <1>14. ASSUME NEW n \in Node, Restart(n)
        PROVE  at <= at' /\ (log' = log \/ log' = Append(log, Bump) \/ Begins)
    BY <1>14 DEF IInv, TypeInv, Restart
  <1>15. ASSUME Apply PROVE at <= at' /\ (log' = log \/ log' = Append(log, Bump) \/ Begins)
    BY <1>15 DEF IInv, TypeInv, Apply
  <1>16. ASSUME Observe PROVE at <= at' /\ (log' = log \/ log' = Append(log, Bump) \/ Begins)
    BY <1>16 DEF IInv, TypeInv, Observe
  <1>17. ASSUME Wipe PROVE at <= at' /\ (log' = log \/ log' = Append(log, Bump) \/ Begins)
    BY <1>17 DEF IInv, TypeInv, Wipe
  <1>18. ASSUME NEW k \in 1 .. Len(log), Restore(k)
        PROVE  at <= at' /\ (log' = log \/ log' = Append(log, Bump) \/ Begins)
    BY <1>18 DEF IInv, TypeInv, Restore
  <1>19. ASSUME StartReload
        PROVE  at <= at' /\ (log' = log \/ log' = Append(log, Bump) \/ Begins)
    BY <1>19 DEF IInv, TypeInv, StartReload
  <1>20. ASSUME StartReset
        PROVE  at <= at' /\ (log' = log \/ log' = Append(log, Bump) \/ Begins)
    BY <1>20 DEF IInv, TypeInv, StartReset
  <1>21. ASSUME StartRecording
        PROVE  at <= at' /\ (log' = log \/ log' = Append(log, Bump) \/ Begins)
    BY <1>21 DEF IInv, TypeInv, StartRecording
  <1>22. ASSUME Scan PROVE at <= at' /\ (log' = log \/ log' = Append(log, Bump) \/ Begins)
    BY <1>22 DEF IInv, TypeInv, Scan
  <1>23. ASSUME ScanFails PROVE at <= at' /\ (log' = log \/ log' = Append(log, Bump) \/ Begins)
    BY <1>23 DEF IInv, TypeInv, ScanFails
  <1>24. ASSUME Swap PROVE at <= at' /\ (log' = log \/ log' = Append(log, Bump) \/ Begins)
    BY <1>24 DEF IInv, TypeInv, Swap
  <1>25. ASSUME Resignal PROVE at <= at' /\ (log' = log \/ log' = Append(log, Bump) \/ Begins)
    BY <1>25 DEF IInv, TypeInv, Resignal
  <1>26. ASSUME FlushFence
        PROVE  at <= at' /\ (log' = log \/ log' = Append(log, Bump) \/ Begins)
    BY <1>26 DEF IInv, TypeInv, FlushFence
  <1>27. ASSUME FlushStore
        PROVE  at <= at' /\ (log' = log \/ log' = Append(log, Bump) \/ Begins)
    BY <1>27 DEF IInv, TypeInv, FlushStore
  <1>28. ASSUME FillStart PROVE at <= at' /\ (log' = log \/ log' = Append(log, Bump) \/ Begins)
    BY <1>28 DEF IInv, TypeInv, FillStart
  <1>29. ASSUME FillRead PROVE at <= at' /\ (log' = log \/ log' = Append(log, Bump) \/ Begins)
    BY <1>29 DEF IInv, TypeInv, FillRead
  <1>30. ASSUME FillInsert
        PROVE  at <= at' /\ (log' = log \/ log' = Append(log, Bump) \/ Begins)
    BY <1>30 DEF IInv, TypeInv, FillInsert
  <1>31. ASSUME FillRecheck
        PROVE  at <= at' /\ (log' = log \/ log' = Append(log, Bump) \/ Begins)
    BY <1>31 DEF IInv, TypeInv, FillRecheck
  <1>32. ASSUME LoseLeader
        PROVE  at <= at' /\ (log' = log \/ log' = Append(log, Bump) \/ Begins)
    BY <1>32 DEF IInv, TypeInv, LoseLeader
  <1> QED
    BY <1>1, <1>2, <1>3, <1>4, <1>5, <1>6, <1>7, <1>8, <1>9, <1>10, <1>11, <1>12, <1>13,
       <1>14, <1>15, <1>16, <1>17, <1>18, <1>19, <1>20, <1>21, <1>22, <1>23, <1>24,
       <1>25, <1>26, <1>27, <1>28, <1>29, <1>30, <1>31, <1>32
       DEF Next, Write, Replicate, Reload, Fill, PayBumps

\* The entries of the log stay, and so do the epochs they have.
LEMMA Grows ==
    ASSUME IInv, Next
    PROVE  /\ Len(log) \in Nat /\ Len(log') \in Nat /\ Len(log) <= Len(log')
           /\ \A j \in 1 .. Len(log) : j \in 1 .. Len(log') /\ log'[j] = log[j]
           /\ \A i \in 0 .. Len(log) : Ep(log', i) = Ep(log, i)
           /\ \A c \in Control : OnlyOn(c)' => OnlyOn(c)
           /\ \A c, j : j \in 1 .. Len(log) => About(c, j)' = About(c, j)
  <1>0. log \in Seq(Command) /\ Len(log) \in Nat
    BY DEF IInv, TypeInv
  <1>1. /\ Len(log') \in Nat /\ Len(log) <= Len(log')
        /\ \A j \in 1 .. Len(log) : j \in 1 .. Len(log') /\ log'[j] = log[j]
    <2>1. CASE log' = log
      BY <1>0, <2>1
    <2>2. ASSUME NEW e \in Command, log' = Append(log, e)
          PROVE  /\ Len(log') \in Nat /\ Len(log) <= Len(log')
                 /\ \A j \in 1 .. Len(log) : j \in 1 .. Len(log') /\ log'[j] = log[j]
      BY <1>0, <2>2
    <2>3. ASSUME NEW w \in Writer, NEW n \in Node, NEW c \in Control, NEW on \in BOOLEAN,
                 WriteRow(w, n, c, on)
          PROVE  \E e \in Command : log' = Append(log, e)
      BY <2>3, RowTyped DEF WriteRow, Command, RowCommand
    <2> QED
      BY <2>1, <2>2, <2>3, LogStep, BumpTyped DEF Begins
  <1>2. ASSUME NEW i \in 0 .. Len(log) PROVE Ep(log', i) = Ep(log, i)
    <2>1. i \in Nat /\ \A j \in 1 .. i : log'[j] = log[j]
      BY <1>0, <1>1
    <2> QED
      BY <2>1, EpSame
  <1>3. ASSUME NEW c \in Control, OnlyOn(c)' PROVE OnlyOn(c)
    BY <1>1, <1>3 DEF OnlyOn, About
  <1>4. \A c, j : j \in 1 .. Len(log) => About(c, j)' = About(c, j)
    BY <1>1 DEF About
  <1> QED
    BY <1>0, <1>1, <1>2, <1>3, <1>4

\* What a call is about, and the epoch of its bump, stay.
SameCall(v) ==
    /\ writer'[v].ctl = writer[v].ctl /\ writer'[v].on = writer[v].on
    /\ writer'[v].epoch = writer[v].epoch
    /\ writer'[v].pc = "idle" <=> writer[v].pc = "idle"

LEMMA DoneCall ==
    ASSUME NEW r \in Call
    PROVE  /\ Done(r).ctl = r.ctl /\ Done(r).on = r.on /\ Done(r).epoch = r.epoch
           /\ Done(r).pc = "done" /\ Done(r).node = Nobody
  BY DEF Call, Done

LEMMA WriteRowCall ==
    ASSUME IInv, NEW w \in Writer, NEW n \in Node, NEW c \in Control, NEW on \in BOOLEAN,
           WriteRow(w, n, c, on)
    PROVE  /\ writer[w].pc = "idle" /\ log' = Append(log, Row(c, on))
           /\ writer'[w].pc = "row" /\ writer'[w].node = n /\ writer'[w].ctl = c
           /\ writer'[w].on = on /\ writer'[w].idx = Len(log) + 1 /\ writer'[w].epoch = 0
           /\ \A v \in Writer \ {w} : writer'[v] = writer[v]
  BY DEF IInv, TypeInv, WriteRow

LEMMA BumpEpochCall ==
    ASSUME IInv, NEW w \in Writer, BumpEpoch(w)
    PROVE  /\ log' = Append(log, Bump) /\ writer[w].pc \in {"row", "bump"}
           /\ writer'[w].epoch = EpochAt(Len(log)) + 1
           /\ writer'[w].ctl = writer[w].ctl /\ writer'[w].on = writer[w].on
           /\ \A v \in Writer \ {w} : writer'[v] = writer[v]
           /\ writer[w].node = Here =>
                 /\ writer'[w].pc = "bumped" /\ writer'[w].node = Here
                 /\ writer'[w].idx = Len(log) + 1
           /\ writer[w].node # Here => writer'[w].pc = "done"
  <1>1. writer \in [Writer -> Call] /\ writer[w] \in Call
    BY DEF IInv, TypeInv
  <1>2. PICK E : E = EpochAt(Len(log)) + 1
    OBVIOUS
  <1>3. PICK r : r = IF writer[w].node = Here
                     THEN [writer[w] EXCEPT !.pc = "bumped", !.idx = Len(log) + 1, !.epoch = E]
                     ELSE [Done(writer[w]) EXCEPT !.epoch = E]
    OBVIOUS
  <1>4. writer' = [writer EXCEPT ![w] = r]
    BY <1>2, <1>3 DEF BumpEpoch
  <1>5. writer'[w] = r /\ \A v \in Writer \ {w} : writer'[v] = writer[v]
    BY <1>1, <1>4
  <1>6. CASE writer[w].node = Here
    BY <1>1, <1>2, <1>3, <1>5, <1>6 DEF BumpEpoch, AboutToBump, Call
  <1>7. CASE writer[w].node # Here
    BY <1>1, <1>2, <1>3, <1>5, <1>7 DEF BumpEpoch, AboutToBump, Call, Done
  <1> QED
    BY <1>6, <1>7

\* A call begins, or gets its epoch, or is what it was.
Goes == Begins \/ (\E w \in Writer : BumpEpoch(w)) \/ \A v \in Writer : SameCall(v)

LEMMA CallStep ==
    ASSUME IInv, Next
    PROVE  Goes
  <1> USE DEF raft, applying, control, session, bumps, elsewhere
  <1>1. ASSUME NEW w \in Writer, NEW n \in Node, NEW c \in Control, NEW on \in BOOLEAN,
               WriteRow(w, n, c, on)
        PROVE  Goes
    BY <1>1 DEF Begins, Goes
  <1>2. ASSUME NEW w \in Writer, WriteGivenUp(w) PROVE Goes
    <2>1. writer[w] \in Call /\ writer[w].pc # "idle"
      BY <1>2 DEF IInv, TypeInv, WriteGivenUp, AboutToBump
    <2>2. writer'[w] = Done(writer[w]) /\ \A v \in Writer \ {w} : writer'[v] = writer[v]
      BY <1>2 DEF IInv, TypeInv, WriteGivenUp
    <2> QED
      BY <2>1, <2>2, DoneCall DEF SameCall, Goes
  <1>3. ASSUME NEW w \in Writer, FenceSession(w) PROVE Goes
    <2>1. writer[w] \in Call /\ writer[w].pc # "idle"
      BY <1>3 DEF IInv, TypeInv, FenceSession
    <2>2. \A v \in Writer \ {w} : writer'[v] = writer[v]
      BY <1>3 DEF IInv, TypeInv, FenceSession
    <2>3. SameCall(w)
      BY <1>3, <2>1 DEF IInv, TypeInv, FenceSession, SameCall, Call
    <2> QED
      BY <2>2, <2>3 DEF SameCall, Goes
  <1>4. ASSUME NEW w \in Writer, EvictSession(w) PROVE Goes
    <2>1. writer[w] \in Call /\ writer[w].pc # "idle"
      BY <1>4 DEF IInv, TypeInv, EvictSession
    <2>2. \A v \in Writer \ {w} : writer'[v] = writer[v]
      BY <1>4 DEF IInv, TypeInv, EvictSession
    <2>3. SameCall(w)
      BY <1>4, <2>1 DEF IInv, TypeInv, EvictSession, SameCall, Call
    <2> QED
      BY <2>2, <2>3 DEF SameCall, Goes
  <1>5. ASSUME NEW w \in Writer, BumpEpoch(w) PROVE Goes
    BY <1>5 DEF Goes
  <1>6. ASSUME NEW w \in Writer, BumpFails(w) PROVE Goes
    <2>1. writer[w] \in Call /\ writer[w].pc # "idle"
      BY <1>6 DEF IInv, TypeInv, BumpFails, AboutToBump
    <2>2. writer'[w] = Done(writer[w]) /\ \A v \in Writer \ {w} : writer'[v] = writer[v]
      BY <1>6 DEF IInv, TypeInv, BumpFails
    <2> QED
      BY <2>1, <2>2, DoneCall DEF SameCall, Goes
  <1>7. ASSUME NEW w \in Writer, Publish(w) PROVE Goes
    <2>1. writer[w] \in Call /\ writer[w].pc # "idle"
      BY <1>7 DEF IInv, TypeInv, Publish, AboutToBump
    <2>2. writer'[w] = Done(writer[w]) /\ \A v \in Writer \ {w} : writer'[v] = writer[v]
      BY <1>7 DEF IInv, TypeInv, Publish
    <2> QED
      BY <2>1, <2>2, DoneCall DEF SameCall, Goes
  <1>8. ASSUME NEW n \in Node, BumpTake(n) PROVE Goes
    BY <1>8 DEF SameCall, Goes, BumpTake
  <1>9. ASSUME NEW n \in Node, BumpCommit(n) PROVE Goes
    BY <1>9 DEF SameCall, Goes, BumpCommit
  <1>10. ASSUME NEW n \in Node, BumpDone(n) PROVE Goes
    BY <1>10 DEF SameCall, Goes, BumpDone
  <1>11. ASSUME NEW n \in Node, BumpError(n) PROVE Goes
    BY <1>11 DEF SameCall, Goes, BumpError
  <1>12. ASSUME NEW n \in Node, BumpRefused(n) PROVE Goes
    BY <1>12 DEF SameCall, Goes, BumpRefused
  <1>13. ASSUME NEW n \in Node, Elect(n) PROVE Goes
    BY <1>13 DEF SameCall, Goes, Elect
  <1>14. ASSUME NEW n \in Node, Restart(n) PROVE Goes
    <2>1. ASSUME NEW v \in Writer PROVE SameCall(v)
      <3>1. writer[v] \in Call
        BY DEF IInv, TypeInv
      <3>2. \/ writer'[v] = writer[v]
            \/ writer'[v] = Done(writer[v]) /\ writer[v].pc # "idle"
        BY <1>14 DEF Restart, Active
      <3> QED
        BY <3>1, <3>2, DoneCall DEF SameCall
    <2> QED
      BY <2>1 DEF Goes
  <1>15. ASSUME Apply PROVE Goes
    BY <1>15 DEF SameCall, Goes, Apply
  <1>16. ASSUME Observe PROVE Goes
    BY <1>16 DEF SameCall, Goes, Observe
  <1>17. ASSUME Wipe PROVE Goes
    BY <1>17 DEF SameCall, Goes, Wipe
  <1>18. ASSUME NEW k \in 1 .. Len(log), Restore(k) PROVE Goes
    BY <1>18 DEF SameCall, Goes, Restore
  <1>19. ASSUME StartReload PROVE Goes
    BY <1>19 DEF SameCall, Goes, StartReload
  <1>20. ASSUME StartReset PROVE Goes
    BY <1>20 DEF SameCall, Goes, StartReset
  <1>21. ASSUME StartRecording PROVE Goes
    BY <1>21 DEF SameCall, Goes, StartRecording
  <1>22. ASSUME Scan PROVE Goes
    BY <1>22 DEF SameCall, Goes, Scan
  <1>23. ASSUME ScanFails PROVE Goes
    BY <1>23 DEF SameCall, Goes, ScanFails
  <1>24. ASSUME Swap PROVE Goes
    BY <1>24 DEF SameCall, Goes, Swap
  <1>25. ASSUME Resignal PROVE Goes
    BY <1>25 DEF SameCall, Goes, Resignal
  <1>26. ASSUME FlushFence PROVE Goes
    BY <1>26 DEF SameCall, Goes, FlushFence
  <1>27. ASSUME FlushStore PROVE Goes
    BY <1>27 DEF SameCall, Goes, FlushStore
  <1>28. ASSUME FillStart PROVE Goes
    BY <1>28 DEF SameCall, Goes, FillStart
  <1>29. ASSUME FillRead PROVE Goes
    BY <1>29 DEF SameCall, Goes, FillRead
  <1>30. ASSUME FillInsert PROVE Goes
    BY <1>30 DEF SameCall, Goes, FillInsert
  <1>31. ASSUME FillRecheck PROVE Goes
    BY <1>31 DEF SameCall, Goes, FillRecheck
  <1>32. ASSUME LoseLeader PROVE Goes
    BY <1>32 DEF SameCall, Goes, LoseLeader
  <1> QED
    BY <1>1, <1>2, <1>3, <1>4, <1>5, <1>6, <1>7, <1>8, <1>9, <1>10, <1>11, <1>12, <1>13,
       <1>14, <1>15, <1>16, <1>17, <1>18, <1>19, <1>20, <1>21, <1>22, <1>23, <1>24,
       <1>25, <1>26, <1>27, <1>28, <1>29, <1>30, <1>31, <1>32
       DEF Next, Write, Replicate, Reload, Fill, PayBumps

-----------------------------------------------------------------------------
(* The rows of the log are those of the writes.                            *)

\* The journal stays, is emptied, or gets a row of the log.
OpsGo ==
    \/ plane'.ops = plane.ops
    \/ plane'.ops = <<>>
    \/ \E j \in 1 .. Len(log) :
          log[j] \in RowCommand /\ plane'.ops = Append(plane.ops, log[j])

\* The row of a write that has begun.
LEMMA RowLogged ==
    ASSUME IInv, NEW w \in Writer, writer[w].pc # "idle"
    PROVE  /\ Row(writer[w].ctl, writer[w].on) \in RowCommand
           /\ \E j \in 1 .. Len(log) : log[j] = Row(writer[w].ctl, writer[w].on)
  <1>1. writer[w].ctl \in Control /\ writer[w].on \in BOOLEAN
    BY DEF IInv, TypeInv, Call
  <1> QED
    BY <1>1, RowTyped DEF IInv, RowsInv

LEMMA OpsStep ==
    ASSUME IInv, Next
    PROVE  OpsGo
  <1> USE DEF raft, applying, control, session, bumps, elsewhere
  <1>1. ASSUME NEW w \in Writer, NEW n \in Node, NEW c \in Control, NEW on \in BOOLEAN,
               WriteRow(w, n, c, on)
        PROVE  OpsGo
    BY <1>1 DEF IInv, TypeInv, Plane, OpsGo, WriteRow
  <1>2. ASSUME NEW w \in Writer, WriteGivenUp(w) PROVE OpsGo
    BY <1>2 DEF IInv, TypeInv, Plane, OpsGo, WriteGivenUp
  <1>3. ASSUME NEW w \in Writer, FenceSession(w) PROVE OpsGo
    BY <1>3 DEF IInv, TypeInv, Plane, OpsGo, FenceSession
  <1>4. ASSUME NEW w \in Writer, EvictSession(w) PROVE OpsGo
    BY <1>4 DEF IInv, TypeInv, Plane, OpsGo, EvictSession
  <1>5. ASSUME NEW w \in Writer, BumpEpoch(w) PROVE OpsGo
    BY <1>5 DEF IInv, TypeInv, Plane, OpsGo, BumpEpoch
  <1>6. ASSUME NEW w \in Writer, BumpFails(w) PROVE OpsGo
    <2>1. writer[w].pc # "idle"
      BY <1>6 DEF BumpFails, AboutToBump
    <2>2. CASE writer[w].node = Here
      BY <1>6, <2>1, <2>2, BumpFailsMoves, RowLogged DEF Moved, OpsWith, OpsGo
    <2>3. CASE writer[w].node # Here
      BY <1>6, <2>3 DEF BumpFails, OpsGo
    <2> QED
      BY <2>2, <2>3
  <1>7. ASSUME NEW w \in Writer, Publish(w) PROVE OpsGo
    <2>1. writer[w].pc # "idle"
      BY <1>7 DEF Publish
    <2> QED
      BY <1>7, <2>1, PublishMoves, RowLogged DEF Moved, OpsWith, OpsGo
  <1>8. ASSUME NEW n \in Node, BumpTake(n) PROVE OpsGo
    BY <1>8 DEF IInv, TypeInv, Plane, OpsGo, BumpTake
  <1>9. ASSUME NEW n \in Node, BumpCommit(n) PROVE OpsGo
    BY <1>9 DEF IInv, TypeInv, Plane, OpsGo, BumpCommit
  <1>10. ASSUME NEW n \in Node, BumpDone(n) PROVE OpsGo
    BY <1>10, BumpDoneMoves DEF Moved, OpsGo
  <1>11. ASSUME NEW n \in Node, BumpError(n) PROVE OpsGo
    BY <1>11 DEF IInv, TypeInv, Plane, OpsGo, BumpError
  <1>12. ASSUME NEW n \in Node, BumpRefused(n) PROVE OpsGo
    BY <1>12 DEF IInv, TypeInv, Plane, OpsGo, BumpRefused
  <1>13. ASSUME NEW n \in Node, Elect(n) PROVE OpsGo
    BY <1>13 DEF IInv, TypeInv, Plane, OpsGo, Elect
  <1>14. ASSUME NEW n \in Node, Restart(n) PROVE OpsGo
    BY <1>14 DEF OpsGo, Restart, FreshPlane
  <1>15. ASSUME Apply PROVE OpsGo
    BY <1>15 DEF IInv, TypeInv, Plane, OpsGo, Apply
  <1>16. ASSUME Observe PROVE OpsGo
    BY <1>16, ObserveMoves DEF Moved, OpsWith, OpsGo
  <1>17. ASSUME Wipe PROVE OpsGo
    BY <1>17 DEF IInv, TypeInv, Plane, OpsGo, Wipe
  <1>18. ASSUME NEW k \in 1 .. Len(log), Restore(k) PROVE OpsGo
    BY <1>18 DEF IInv, TypeInv, Plane, OpsGo, Restore
  <1>19. ASSUME StartReload PROVE OpsGo
    BY <1>19 DEF IInv, TypeInv, Plane, OpsGo, StartReload
  <1>20. ASSUME StartReset PROVE OpsGo
    BY <1>20 DEF IInv, TypeInv, Plane, OpsGo, StartReset
  <1>21. ASSUME StartRecording PROVE OpsGo
    BY <1>21 DEF IInv, TypeInv, Plane, OpsGo, StartRecording
  <1>22. ASSUME Scan PROVE OpsGo
    BY <1>22 DEF IInv, TypeInv, Plane, OpsGo, Scan
  <1>23. ASSUME ScanFails PROVE OpsGo
    BY <1>23 DEF IInv, TypeInv, Plane, OpsGo, ScanFails
  <1>24. ASSUME Swap PROVE OpsGo
    BY <1>24, SwapMoves DEF OpsGo
  <1>25. ASSUME Resignal PROVE OpsGo
    BY <1>25, ResignalMoves DEF OpsGo
  <1>26. ASSUME FlushFence PROVE OpsGo
    BY <1>26 DEF IInv, TypeInv, Plane, OpsGo, FlushFence
  <1>27. ASSUME FlushStore PROVE OpsGo
    BY <1>27 DEF IInv, TypeInv, Plane, OpsGo, FlushStore
  <1>28. ASSUME FillStart PROVE OpsGo
    BY <1>28 DEF IInv, TypeInv, Plane, OpsGo, FillStart
  <1>29. ASSUME FillRead PROVE OpsGo
    BY <1>29 DEF IInv, TypeInv, Plane, OpsGo, FillRead
  <1>30. ASSUME FillInsert PROVE OpsGo
    BY <1>30 DEF IInv, TypeInv, Plane, OpsGo, FillInsert
  <1>31. ASSUME FillRecheck PROVE OpsGo
    BY <1>31 DEF IInv, TypeInv, Plane, OpsGo, FillRecheck
  <1>32. ASSUME LoseLeader PROVE OpsGo
    BY <1>32 DEF IInv, TypeInv, Plane, OpsGo, LoseLeader
  <1> QED
    BY <1>1, <1>2, <1>3, <1>4, <1>5, <1>6, <1>7, <1>8, <1>9, <1>10, <1>11, <1>12, <1>13,
       <1>14, <1>15, <1>16, <1>17, <1>18, <1>19, <1>20, <1>21, <1>22, <1>23, <1>24,
       <1>25, <1>26, <1>27, <1>28, <1>29, <1>30, <1>31, <1>32
       DEF Next, Write, Replicate, Reload, Fill, PayBumps

\* Every row of the log and the journal is a row there already, or the one just written.
LEMMA RowsStep ==
    ASSUME IInv, Next
    PROVE  RowsInv'
  <1>0. /\ log \in Seq(Command) /\ Len(log) \in Nat
        /\ writer \in [Writer -> Call] /\ plane.ops \in Seq(RowCommand)
    BY DEF IInv, TypeInv, Plane
  <1>1. /\ Len(log') \in Nat /\ Len(log) <= Len(log')
        /\ \A j \in 1 .. Len(log) : j \in 1 .. Len(log') /\ log'[j] = log[j]
    BY Grows
  <1>2. \A i \in 1 .. Len(plane'.ops) : \E j \in 1 .. Len(log') : plane'.ops[i] = log'[j]
    <2>0. \A i \in 1 .. Len(plane.ops) : \E j \in 1 .. Len(log) : plane.ops[i] = log[j]
      BY DEF IInv, RowsInv
    <2>1. CASE plane'.ops = plane.ops
      BY <1>1, <2>0, <2>1
    <2>2. CASE plane'.ops = <<>>
      BY <2>2
    <2>3. ASSUME NEW k \in 1 .. Len(log), log[k] \in RowCommand,
                 plane'.ops = Append(plane.ops, log[k])
          PROVE  \A i \in 1 .. Len(plane'.ops) : \E j \in 1 .. Len(log') : plane'.ops[i] = log'[j]
      <3>1. ASSUME NEW i \in 1 .. Len(plane'.ops)
            PROVE  \E j \in 1 .. Len(log) : plane'.ops[i] = log[j]
        <4>1. Len(plane'.ops) = Len(plane.ops) + 1 /\ Len(plane.ops) \in Nat
          BY <1>0, <2>3
        <4>2. CASE i <= Len(plane.ops)
          <5>1. i \in 1 .. Len(plane.ops)
            BY <4>1, <4>2
          <5>2. plane'.ops[i] = plane.ops[i]
            BY <1>0, <2>3, <5>1
          <5> QED
            BY <2>0, <5>1, <5>2
        <4>3. CASE i = Len(plane.ops) + 1
          BY <1>0, <2>3, <4>3
        <4> QED
          BY <4>1, <4>2, <4>3
      <3> QED
        BY <1>1, <3>1
    <2> QED
      BY <2>1, <2>2, <2>3, OpsStep DEF OpsGo
  <1>3. ASSUME NEW w \in Writer, NEW n \in Node, NEW c \in Control, NEW on \in BOOLEAN,
               WriteRow(w, n, c, on)
        PROVE  RowsInv'
    <2>1. /\ log' = Append(log, Row(c, on)) /\ writer[w].pc = "idle"
          /\ writer'[w].pc = "row" /\ writer'[w].ctl = c /\ writer'[w].on = on
          /\ \A v \in Writer \ {w} : writer'[v] = writer[v]
      BY <1>3, WriteRowCall
    <2>2. Len(log') = Len(log) + 1 /\ log'[Len(log) + 1] = Row(c, on) /\ Len(log) + 1 \in 1 .. Len(log')
      BY <1>0, <2>1
    <2>3. /\ Row(c, on).op = "row" /\ Row(c, on).ctl = c /\ Row(c, on).on = on
      BY DEF Row
    <2>4. \A j \in 1 .. Len(log') : j \in 1 .. Len(log) \/ j = Len(log) + 1
      BY <1>0, <2>2
    <2>5. \A v \in Writer : writer'[v].pc # "idle" =>
             \E j \in 1 .. Len(log') : log'[j] = Row(writer'[v].ctl, writer'[v].on)
      <3>1. ASSUME NEW v \in Writer, v # w, writer'[v].pc # "idle"
            PROVE  \E j \in 1 .. Len(log') : log'[j] = Row(writer'[v].ctl, writer'[v].on)
        <4>1. writer'[v] = writer[v]
          BY <2>1, <3>1
        <4>2. PICK j \in 1 .. Len(log) : log[j] = Row(writer[v].ctl, writer[v].on)
          BY <3>1, <4>1 DEF IInv, RowsInv
        <4> QED
          BY <1>1, <4>1, <4>2
      <3> QED
        BY <2>1, <2>2, <3>1
    <2>6. \A j \in 1 .. Len(log') : log'[j].op = "row" => \E v \in Writer :
             writer'[v].pc # "idle" /\ log'[j] = Row(writer'[v].ctl, writer'[v].on)
      <3>1. ASSUME NEW j \in 1 .. Len(log), log[j].op = "row"
            PROVE  \E v \in Writer : writer'[v].pc # "idle" /\ log'[j] = Row(writer'[v].ctl, writer'[v].on)
        <4>1. PICK v \in Writer : writer[v].pc # "idle" /\ log[j] = Row(writer[v].ctl, writer[v].on)
          BY <3>1 DEF IInv, RowsInv
        <4>2. v # w
          BY <2>1, <4>1
        <4> QED
          BY <1>1, <2>1, <4>1, <4>2
      <3> QED
        BY <1>1, <2>1, <2>2, <2>4, <3>1
    <2>7. \A j \in 1 .. Len(log') : log'[j].op = "row" =>
             \E i \in 1 .. Len(log') : log'[i].op = "row" /\ log'[i].ctl = log'[j].ctl /\ log'[i].on
      <3>1. ASSUME NEW j \in 1 .. Len(log), log[j].op = "row"
            PROVE  \E i \in 1 .. Len(log') : log'[i].op = "row" /\ log'[i].ctl = log'[j].ctl /\ log'[i].on
        <4>1. PICK i \in 1 .. Len(log) : About(log[j].ctl, i) /\ log[i].on
          BY <3>1 DEF IInv, RowsInv
        <4>2. log'[i] = log[i] /\ log'[j] = log[j] /\ i \in 1 .. Len(log')
          BY <1>1
        <4> QED
          BY <4>1, <4>2 DEF About
      <3>2. \E i \in 1 .. Len(log') : log'[i].op = "row" /\ log'[i].ctl = c /\ log'[i].on
        <4>1. CASE on
          BY <2>2, <2>3, <4>1
        <4>2. CASE ~ on
          <5>1. c \in RowsAt(Len(log))
            BY <1>3, <4>2 DEF WriteRow
          <5>2. \E j \in 1 .. Len(log) : log[j].op = "row" /\ log[j].ctl = c /\ log[j].on
            BY <1>0, <5>1, RowsSome DEF Rw, RowsAt
          <5> QED
            BY <1>1, <5>2
        <4> QED
          BY <4>1, <4>2
      <3> QED
        BY <1>1, <2>2, <2>3, <2>4, <3>1, <3>2
    <2>8. \A j \in 1 .. Len(log') : log'[j].op = "row" /\ log'[j].ctl = Session => log'[j].on
      <3>1. \A j \in 1 .. Len(log) : log[j].op = "row" /\ log[j].ctl = Session => log[j].on
        BY DEF IInv, RowsInv, OnlyOn, About
      <3>2. c = Session => on
        BY <1>3 DEF WriteRow
      <3> QED
        BY <1>1, <2>2, <2>3, <2>4, <3>1, <3>2
    <2> QED
      BY <1>2, <2>5, <2>6, <2>7, <2>8 DEF RowsInv, OnlyOn, About
  <1>4. ASSUME log' = log \/ log' = Append(log, Bump),
               \A v \in Writer : /\ writer'[v].ctl = writer[v].ctl /\ writer'[v].on = writer[v].on
                                 /\ writer'[v].pc = "idle" <=> writer[v].pc = "idle"
        PROVE  RowsInv'
    <2>1. \A j \in 1 .. Len(log') : log'[j].op = "row" => j \in 1 .. Len(log)
      <3>1. CASE log' = log
        BY <3>1
      <3>2. CASE log' = Append(log, Bump)
        <4>1. Len(log') = Len(log) + 1 /\ log'[Len(log) + 1] = Bump /\ Bump.op = "bump"
          BY <1>0, <3>2 DEF Bump
        <4> QED
          BY <1>0, <4>1
      <3> QED
        BY <1>4, <3>1, <3>2
    <2>2. \A w \in Writer : writer'[w].pc # "idle" =>
             \E j \in 1 .. Len(log') : log'[j] = Row(writer'[w].ctl, writer'[w].on)
      BY <1>1, <1>4 DEF IInv, RowsInv
    <2>3. \A j \in 1 .. Len(log') : log'[j].op = "row" => \E w \in Writer :
             writer'[w].pc # "idle" /\ log'[j] = Row(writer'[w].ctl, writer'[w].on)
      <3>1. ASSUME NEW j \in 1 .. Len(log), log[j].op = "row"
            PROVE  \E w \in Writer : writer'[w].pc # "idle" /\ log[j] = Row(writer'[w].ctl, writer'[w].on)
        <4>1. PICK w \in Writer : writer[w].pc # "idle" /\ log[j] = Row(writer[w].ctl, writer[w].on)
          BY <3>1 DEF IInv, RowsInv
        <4>2. /\ writer'[w].pc # "idle" /\ writer'[w].ctl = writer[w].ctl
              /\ writer'[w].on = writer[w].on
          BY <1>4, <4>1
        <4> QED
          BY <4>1, <4>2
      <3> QED
        BY <1>1, <2>1, <3>1
    <2>4. \A j \in 1 .. Len(log') : log'[j].op = "row" =>
             \E i \in 1 .. Len(log') : log'[i].op = "row" /\ log'[i].ctl = log'[j].ctl /\ log'[i].on
      <3>1. ASSUME NEW j \in 1 .. Len(log), log[j].op = "row"
            PROVE  \E i \in 1 .. Len(log') : log'[i].op = "row" /\ log'[i].ctl = log'[j].ctl /\ log'[i].on
        <4>1. PICK i \in 1 .. Len(log) : About(log[j].ctl, i) /\ log[i].on
          BY <3>1 DEF IInv, RowsInv
        <4>2. log'[i] = log[i] /\ log'[j] = log[j] /\ i \in 1 .. Len(log')
          BY <1>1
        <4> QED
          BY <4>1, <4>2 DEF About
      <3> QED
        BY <1>1, <2>1, <3>1
    <2>5. \A j \in 1 .. Len(log') : log'[j].op = "row" /\ log'[j].ctl = Session => log'[j].on
      BY <1>1, <2>1 DEF IInv, RowsInv, OnlyOn, About
    <2> QED
      BY <1>2, <2>2, <2>3, <2>4, <2>5 DEF RowsInv, OnlyOn, About
  <1>5. ASSUME NEW w \in Writer, BumpEpoch(w) PROVE RowsInv'
    <2>1. /\ log' = Append(log, Bump) /\ writer[w].pc # "idle" /\ writer'[w].pc # "idle"
          /\ writer'[w].ctl = writer[w].ctl /\ writer'[w].on = writer[w].on
          /\ \A v \in Writer \ {w} : writer'[v] = writer[v]
      BY <1>5, BumpEpochCall
    <2> QED
      BY <1>4, <2>1
  <1>6. ASSUME \A v \in Writer : SameCall(v) PROVE RowsInv'
    BY <1>3, <1>4, <1>6, LogStep DEF SameCall, Begins
  <1> QED
    BY <1>3, <1>5, <1>6, CallStep DEF Goes, Begins

-----------------------------------------------------------------------------
(* Calls, bumps and the reload.                                            *)

\* A call that a step leaves alone is still where it was in the log.
LEMMA CallKept ==
    ASSUME IInv, Next, NEW v \in Writer, writer'[v] = writer[v]
    PROVE  CallOK(v)'
  <1>1. /\ CallOK(v) /\ writer[v] \in Call /\ at \in Nat /\ at' \in Nat /\ at <= at'
    BY LogStep, TypeStep DEF IInv, CallInv, TypeInv
  <1>2. /\ Len(log) \in Nat /\ Len(log') \in Nat /\ Len(log) <= Len(log')
        /\ \A j \in 1 .. Len(log) : j \in 1 .. Len(log') /\ log'[j] = log[j]
        /\ \A i \in 0 .. Len(log) : Ep(log', i) = Ep(log, i)
    BY Grows
  <1>3. PICK r \in Call : r = writer[v] /\ r = writer'[v]
    BY <1>1
  <1>4. r.idx \in Nat
    BY DEF Call
  <1>5. ASSUME r.pc = "bumped" PROVE r.idx \in 1 .. Len(log') /\ EpochAt(r.idx)' = r.epoch
    <2>1. r.idx \in 1 .. Len(log) /\ EpochAt(r.idx) = r.epoch
      BY <1>1, <1>3, <1>5 DEF CallOK
    <2>2. r.idx \in 0 .. Len(log)
      BY <1>2, <2>1
    <2>3. EpochAt(r.idx) = Ep(log, r.idx) /\ EpochAt(r.idx)' = Ep(log', r.idx)
      BY EpIs, EpNew
    <2> QED
      BY <1>2, <2>1, <2>2, <2>3
  <1>6. ASSUME r.pc \in {"row", "evict", "bump"}
        PROVE  r.idx \in 1 .. Len(log') /\ log'[r.idx] = Row(r.ctl, r.on)
    <2>1. r.idx \in 1 .. Len(log) /\ log[r.idx] = Row(r.ctl, r.on)
      BY <1>1, <1>3, <1>6 DEF CallOK
    <2> QED
      BY <1>2, <2>1
  <1>7. ASSUME r.pc \in {"evict", "bump"} PROVE r.idx <= at'
    <2>1. r.idx <= at
      BY <1>1, <1>3, <1>7 DEF CallOK
    <2> QED
      BY <1>1, <1>4, <2>1
  <1>8. EpochAt(writer[v].idx)' = EpochAt(r.idx)'
    BY <1>3 DEF EpochAt
  <1> QED
    BY <1>1, <1>3, <1>5, <1>6, <1>7, <1>8 DEF CallOK, EvictsHere

LEMMA CallDone ==
    ASSUME NEW v \in Writer, writer'[v].pc = "done"
    PROVE  CallOK(v)'
  BY DEF CallOK

\* A bump's epoch is one above that of the log before it.
LEMMA NewEpoch ==
    ASSUME IInv, log' = Append(log, Bump)
    PROVE  /\ Len(log') = Len(log) + 1 /\ Len(log) + 1 \in 1 .. Len(log')
           /\ EpochAt(Len(log)) \in Nat
           /\ Ep(log', Len(log')) = EpochAt(Len(log)) + 1
  <1>1. PICK m \in Nat : m = Len(log)
    BY DEF IInv, TypeInv
  <1>2. /\ log \in Seq(Command) /\ Len(log') = m + 1 /\ log'[m + 1] = Bump
        /\ \A j \in 1 .. m : log'[j] = log[j]
    BY <1>1 DEF IInv, TypeInv
  <1>3. Bump.op = "bump"
    BY DEF Bump
  <1>4. Ep(log', m + 1) = Ep(log', m) + 1
    BY <1>2, <1>3, EpNext
  <1>5. Ep(log', m) = Ep(log, m) /\ Ep(log, m) \in Nat
    BY <1>2, EpSame, EpFinite
  <1>6. EpochAt(Len(log)) = Ep(log, m)
    BY <1>1, EpIs
  <1> QED
    BY <1>1, <1>2, <1>4, <1>5, <1>6

LEMMA CallInvStep ==
    ASSUME IInv, Next
    PROVE  CallInv'
  <1> USE DEF raft, applying, control, session, bumps, elsewhere
  <1>1. ASSUME NEW w \in Writer, NEW n \in Node, NEW c \in Control, NEW on \in BOOLEAN,
               WriteRow(w, n, c, on)
        PROVE  CallInv'
    <2>1. /\ writer'[w].pc = "row" /\ writer'[w].node = n /\ writer'[w].ctl = c
          /\ writer'[w].on = on /\ writer'[w].idx = Len(log) + 1 /\ writer'[w].epoch = 0
          /\ log' = Append(log, Row(c, on)) /\ log \in Seq(Command)
      BY <1>1, WriteRowCall DEF IInv, TypeInv
    <2>2. Len(log) + 1 \in 1 .. Len(log') /\ log'[Len(log) + 1] = Row(c, on)
      BY <2>1
    <2>8. CallOK(w)'
      BY <2>1, <2>2 DEF CallOK
    <2>9. \A v \in Writer \ {w} : writer'[v] = writer[v]
      BY <1>1 DEF IInv, TypeInv, WriteRow
    <2> QED
      BY <2>8, <2>9, CallKept DEF CallInv
  <1>2. ASSUME NEW w \in Writer, WriteGivenUp(w) PROVE CallInv'
    <2>1. writer[w] \in Call /\ writer'[w] = Done(writer[w])
      BY <1>2 DEF IInv, TypeInv, WriteGivenUp
    <2>8. CallOK(w)'
      BY <2>1, DoneCall, CallDone
    <2>9. \A v \in Writer \ {w} : writer'[v] = writer[v]
      BY <1>2 DEF IInv, TypeInv, WriteGivenUp
    <2> QED
      BY <2>8, <2>9, CallKept DEF CallInv
  <1>3. ASSUME NEW w \in Writer, FenceSession(w) PROVE CallInv'
    <2>1. /\ writer[w] \in Call /\ writer[w].pc = "row" /\ EvictsHere(w) /\ CallOK(w)
          /\ seen >= writer[w].idx /\ seen \in Nat /\ at \in Nat /\ seen <= at
          /\ log' = log /\ at' = at
          /\ writer'[w] = [writer[w] EXCEPT !.pc = "evict"]
      BY <1>3 DEF IInv, TypeInv, CallInv, FenceSession, EvictsHere, Returned
    <2>2. /\ writer'[w].pc = "evict" /\ writer'[w].node = writer[w].node
          /\ writer'[w].ctl = writer[w].ctl /\ writer'[w].on = writer[w].on
          /\ writer'[w].idx = writer[w].idx /\ writer'[w].epoch = writer[w].epoch
          /\ writer[w].idx \in Nat
      BY <2>1 DEF Call
    <2>3. writer[w].idx <= at
      BY <2>1, <2>2
    <2>8. CallOK(w)'
      BY <2>1, <2>2, <2>3 DEF CallOK, EvictsHere
    <2>9. \A v \in Writer \ {w} : writer'[v] = writer[v]
      BY <1>3 DEF IInv, TypeInv, FenceSession
    <2> QED
      BY <2>8, <2>9, CallKept DEF CallInv
  <1>4. ASSUME NEW w \in Writer, EvictSession(w) PROVE CallInv'
    <2>1. /\ writer[w] \in Call /\ writer[w].pc = "evict" /\ CallOK(w)
          /\ log' = log /\ at' = at
          /\ writer'[w] = [writer[w] EXCEPT !.pc = "bump"]
      BY <1>4 DEF IInv, TypeInv, CallInv, EvictSession
    <2>2. /\ writer'[w].pc = "bump" /\ writer'[w].node = writer[w].node
          /\ writer'[w].ctl = writer[w].ctl /\ writer'[w].on = writer[w].on
          /\ writer'[w].idx = writer[w].idx /\ writer'[w].epoch = writer[w].epoch
      BY <2>1 DEF Call
    <2>8. CallOK(w)'
      BY <2>1, <2>2 DEF CallOK, EvictsHere
    <2>9. \A v \in Writer \ {w} : writer'[v] = writer[v]
      BY <1>4 DEF IInv, TypeInv, EvictSession
    <2> QED
      BY <2>8, <2>9, CallKept DEF CallInv
  <1>5. ASSUME NEW w \in Writer, BumpEpoch(w) PROVE CallInv'
    <2>8. CallOK(w)'
      <3>1. CASE writer[w].node # Here
        BY <1>5, <3>1, BumpEpochCall, CallDone
      <3>2. CASE writer[w].node = Here
        <4>1. /\ writer'[w].pc = "bumped" /\ writer'[w].node = Here
              /\ writer'[w].idx = Len(log) + 1 /\ writer'[w].epoch = EpochAt(Len(log)) + 1
              /\ log' = Append(log, Bump) /\ log \in Seq(Command) /\ Len(log) \in Nat
              /\ writer[w].pc \in {"row", "bump"} /\ CallOK(w)
          BY <1>5, <3>2, BumpEpochCall DEF IInv, TypeInv, CallInv
        <4>2. /\ Ep(log', Len(log')) = EpochAt(Len(log)) + 1
              /\ writer'[w].idx = Len(log') /\ writer'[w].idx \in 1 .. Len(log')
          BY <4>1, NewEpoch
        <4>3. EpochAt(writer[w].idx)' = Ep(log', writer'[w].idx)
          BY DEF EpochAt, Ep, BumpsIn
        <4> QED
          BY <3>2, <4>1, <4>2, <4>3 DEF CallOK
      <3> QED
        BY <3>1, <3>2
    <2>9. \A v \in Writer \ {w} : writer'[v] = writer[v]
      BY <1>5, BumpEpochCall
    <2> QED
      BY <2>8, <2>9, CallKept DEF CallInv
  <1>6. ASSUME NEW w \in Writer, BumpFails(w) PROVE CallInv'
    <2>1. writer[w] \in Call /\ writer'[w] = Done(writer[w])
      BY <1>6 DEF IInv, TypeInv, BumpFails
    <2>8. CallOK(w)'
      BY <2>1, DoneCall, CallDone
    <2>9. \A v \in Writer \ {w} : writer'[v] = writer[v]
      BY <1>6 DEF IInv, TypeInv, BumpFails
    <2> QED
      BY <2>8, <2>9, CallKept DEF CallInv
  <1>7. ASSUME NEW w \in Writer, Publish(w) PROVE CallInv'
    <2>1. writer[w] \in Call /\ writer'[w] = Done(writer[w])
      BY <1>7 DEF IInv, TypeInv, Publish
    <2>8. CallOK(w)'
      BY <2>1, DoneCall, CallDone
    <2>9. \A v \in Writer \ {w} : writer'[v] = writer[v]
      BY <1>7 DEF IInv, TypeInv, Publish
    <2> QED
      BY <2>8, <2>9, CallKept DEF CallInv
  <1>8. ASSUME NEW n \in Node, BumpTake(n) PROVE CallInv'
    BY <1>8, CallKept DEF CallInv, BumpTake
  <1>9. ASSUME NEW n \in Node, BumpCommit(n) PROVE CallInv'
    BY <1>9, CallKept DEF CallInv, BumpCommit
  <1>10. ASSUME NEW n \in Node, BumpDone(n) PROVE CallInv'
    BY <1>10, CallKept DEF CallInv, BumpDone
  <1>11. ASSUME NEW n \in Node, BumpError(n) PROVE CallInv'
    BY <1>11, CallKept DEF CallInv, BumpError
  <1>12. ASSUME NEW n \in Node, BumpRefused(n) PROVE CallInv'
    BY <1>12, CallKept DEF CallInv, BumpRefused
  <1>13. ASSUME NEW n \in Node, Elect(n) PROVE CallInv'
    BY <1>13, CallKept DEF CallInv, Elect
  <1>14. ASSUME NEW n \in Node, Restart(n) PROVE CallInv'
    <2>1. ASSUME NEW v \in Writer PROVE CallOK(v)'
      <3>1. CASE writer'[v] = writer[v]
        BY <3>1, CallKept
      <3>2. CASE writer'[v] = Done(writer[v])
        BY <3>2, DoneCall, CallDone DEF IInv, TypeInv
      <3> QED
        BY <1>14, <3>1, <3>2 DEF Restart
    <2> QED
      BY <2>1 DEF CallInv
  <1>15. ASSUME Apply PROVE CallInv'
    BY <1>15, CallKept DEF CallInv, Apply
  <1>16. ASSUME Observe PROVE CallInv'
    BY <1>16, CallKept DEF CallInv, Observe
  <1>17. ASSUME Wipe PROVE CallInv'
    BY <1>17, CallKept DEF CallInv, Wipe
  <1>18. ASSUME NEW k \in 1 .. Len(log), Restore(k) PROVE CallInv'
    BY <1>18, CallKept DEF CallInv, Restore
  <1>19. ASSUME StartReload PROVE CallInv'
    BY <1>19, CallKept DEF CallInv, StartReload
  <1>20. ASSUME StartReset PROVE CallInv'
    BY <1>20, CallKept DEF CallInv, StartReset
  <1>21. ASSUME StartRecording PROVE CallInv'
    BY <1>21, CallKept DEF CallInv, StartRecording
  <1>22. ASSUME Scan PROVE CallInv'
    BY <1>22, CallKept DEF CallInv, Scan
  <1>23. ASSUME ScanFails PROVE CallInv'
    BY <1>23, CallKept DEF CallInv, ScanFails
  <1>24. ASSUME Swap PROVE CallInv'
    BY <1>24, CallKept DEF CallInv, Swap
  <1>25. ASSUME Resignal PROVE CallInv'
    BY <1>25, CallKept DEF CallInv, Resignal
  <1>26. ASSUME FlushFence PROVE CallInv'
    BY <1>26, CallKept DEF CallInv, FlushFence
  <1>27. ASSUME FlushStore PROVE CallInv'
    BY <1>27, CallKept DEF CallInv, FlushStore
  <1>28. ASSUME FillStart PROVE CallInv'
    BY <1>28, CallKept DEF CallInv, FillStart
  <1>29. ASSUME FillRead PROVE CallInv'
    BY <1>29, CallKept DEF CallInv, FillRead
  <1>30. ASSUME FillInsert PROVE CallInv'
    BY <1>30, CallKept DEF CallInv, FillInsert
  <1>31. ASSUME FillRecheck PROVE CallInv'
    BY <1>31, CallKept DEF CallInv, FillRecheck
  <1>32. ASSUME LoseLeader PROVE CallInv'
    BY <1>32, CallKept DEF CallInv, LoseLeader
  <1> QED
    BY <1>1, <1>2, <1>3, <1>4, <1>5, <1>6, <1>7, <1>8, <1>9, <1>10, <1>11, <1>12, <1>13,
       <1>14, <1>15, <1>16, <1>17, <1>18, <1>19, <1>20, <1>21, <1>22, <1>23, <1>24,
       <1>25, <1>26, <1>27, <1>28, <1>29, <1>30, <1>31, <1>32
       DEF Next, Write, Replicate, Reload, Fill, PayBumps

LEMMA ReloadStep ==
    ASSUME IInv, Next
    PROVE  ReloadInv'
  <1> USE DEF raft, applying, control, session, bumps, elsewhere
  <1>1. ASSUME NEW w \in Writer, NEW n \in Node, NEW c \in Control, NEW on \in BOOLEAN,
               WriteRow(w, n, c, on)
        PROVE  ReloadInv'
    BY <1>1 DEF IInv, ReloadInv, WriteRow
  <1>2. ASSUME NEW w \in Writer, WriteGivenUp(w) PROVE ReloadInv'
    BY <1>2 DEF IInv, ReloadInv, WriteGivenUp
  <1>3. ASSUME NEW w \in Writer, FenceSession(w) PROVE ReloadInv'
    BY <1>3 DEF IInv, ReloadInv, FenceSession
  <1>4. ASSUME NEW w \in Writer, EvictSession(w) PROVE ReloadInv'
    BY <1>4 DEF IInv, ReloadInv, EvictSession
  <1>5. ASSUME NEW w \in Writer, BumpEpoch(w) PROVE ReloadInv'
    BY <1>5 DEF IInv, ReloadInv, BumpEpoch
  <1>6. ASSUME NEW w \in Writer, BumpFails(w) PROVE ReloadInv'
    <2>1. /\ plane'.force = plane.force /\ plane'.reset = plane.reset
          /\ plane'.recording = plane.recording
      <3>1. CASE writer[w].node = Here
        BY <1>6, <3>1, BumpFailsMoves DEF Moved
      <3>2. CASE writer[w].node # Here
        BY <1>6, <3>2 DEF BumpFails
      <3> QED
        BY <3>1, <3>2
    <2> QED
      BY <1>6, <2>1 DEF IInv, ReloadInv, BumpFails
  <1>7. ASSUME NEW w \in Writer, Publish(w) PROVE ReloadInv'
    <2>1. /\ plane'.force = plane.force /\ plane'.reset = plane.reset
          /\ plane'.recording = plane.recording
      BY <1>7, PublishMoves DEF Moved
    <2> QED
      BY <1>7, <2>1 DEF IInv, ReloadInv, Publish
  <1>8. ASSUME NEW n \in Node, BumpTake(n) PROVE ReloadInv'
    BY <1>8 DEF IInv, ReloadInv, BumpTake
  <1>9. ASSUME NEW n \in Node, BumpCommit(n) PROVE ReloadInv'
    BY <1>9 DEF IInv, ReloadInv, BumpCommit
  <1>10. ASSUME NEW n \in Node, BumpDone(n) PROVE ReloadInv'
    <2>1. /\ plane'.force = plane.force /\ plane'.reset = plane.reset
          /\ plane'.recording = plane.recording
      BY <1>10, BumpDoneMoves DEF Moved
    <2> QED
      BY <1>10, <2>1 DEF IInv, ReloadInv, BumpDone
  <1>11. ASSUME NEW n \in Node, BumpError(n) PROVE ReloadInv'
    BY <1>11 DEF IInv, ReloadInv, BumpError
  <1>12. ASSUME NEW n \in Node, BumpRefused(n) PROVE ReloadInv'
    BY <1>12 DEF IInv, ReloadInv, BumpRefused
  <1>13. ASSUME NEW n \in Node, Elect(n) PROVE ReloadInv'
    BY <1>13 DEF IInv, ReloadInv, Elect
  <1>14. ASSUME NEW n \in Node, Restart(n) PROVE ReloadInv'
    BY <1>14 DEF IInv, ReloadInv, Restart, FreshPlane, NoReload
  <1>15. ASSUME Apply PROVE ReloadInv'
    BY <1>15 DEF IInv, ReloadInv, Apply
  <1>16. ASSUME Observe PROVE ReloadInv'
    <2>1. /\ plane'.force = plane.force /\ plane'.reset = plane.reset
          /\ plane'.recording = plane.recording
      BY <1>16, ObserveMoves DEF Moved
    <2> QED
      BY <1>16, <2>1 DEF IInv, ReloadInv, Observe
  <1>17. ASSUME Wipe PROVE ReloadInv'
    BY <1>17 DEF IInv, ReloadInv, Wipe
  <1>18. ASSUME NEW k \in 1 .. Len(log), Restore(k) PROVE ReloadInv'
    BY <1>18 DEF IInv, ReloadInv, Restore
  <1>19. ASSUME StartReload PROVE ReloadInv'
    <2>1. reload.pc = "idle" /\ plane \in Plane /\ reload' = Loading("thread", plane.force, plane.force /\ plane.reset)
      BY <1>19 DEF IInv, TypeInv, StartReload
    <2>2. /\ reload'.pc = "record" /\ reload'.by = "thread" /\ reload'.forced = plane.force
          /\ reload'.reset = (plane.force /\ plane.reset)
      BY <2>1 DEF Loading
    <2>3. /\ plane'.force = FALSE /\ plane'.reset = (plane.reset /\ ~plane.force)
          /\ plane'.recording = plane.recording
      BY <1>19, <2>1 DEF StartReload, Plane
    <2> QED
      BY <2>1, <2>2, <2>3 DEF IInv, ReloadInv
  <1>20. ASSUME StartReset PROVE ReloadInv'
    BY <1>20 DEF IInv, ReloadInv, StartReset, Loading
  <1>21. ASSUME StartRecording PROVE ReloadInv'
    BY <1>21 DEF IInv, TypeInv, Loads, Plane, ReloadInv, StartRecording
  <1>22. ASSUME Scan PROVE ReloadInv'
    BY <1>22 DEF IInv, TypeInv, Loads, Plane, ReloadInv, Scan
  <1>23. ASSUME ScanFails PROVE ReloadInv'
    BY <1>23 DEF IInv, TypeInv, Loads, Plane, ReloadInv, ScanFails, EndReload, NoReload
  <1>24. ASSUME Swap PROVE ReloadInv'
    <2>1. /\ reload'.by = reload.by /\ reload'.reset = reload.reset
          /\ reload'.forced = reload.forced /\ install' = install /\ reload.pc = "swap"
          /\ reload'.pc = (IF reload.reset THEN "resignal" ELSE "flush")
      BY <1>24 DEF IInv, TypeInv, Loads, Swap
    <2> QED
      BY <1>24, <2>1, SwapMoves DEF IInv, ReloadInv
  <1>25. ASSUME Resignal PROVE ReloadInv'
    <2>1. /\ reload'.by = reload.by /\ reload'.reset = reload.reset
          /\ reload'.forced = reload.forced /\ install' = install
          /\ reload.pc = "resignal" /\ reload'.pc = "flush"
      BY <1>25 DEF IInv, TypeInv, Loads, Resignal
    <2> QED
      BY <1>25, <2>1, ResignalMoves DEF IInv, ReloadInv
  <1>26. ASSUME FlushFence PROVE ReloadInv'
    BY <1>26 DEF IInv, TypeInv, Loads, Plane, ReloadInv, FlushFence
  <1>27. ASSUME FlushStore PROVE ReloadInv'
    BY <1>27 DEF IInv, TypeInv, Loads, Plane, ReloadInv, FlushStore, EndReload, NoReload
  <1>28. ASSUME FillStart PROVE ReloadInv'
    BY <1>28 DEF IInv, ReloadInv, FillStart
  <1>29. ASSUME FillRead PROVE ReloadInv'
    BY <1>29 DEF IInv, ReloadInv, FillRead
  <1>30. ASSUME FillInsert PROVE ReloadInv'
    BY <1>30 DEF IInv, ReloadInv, FillInsert
  <1>31. ASSUME FillRecheck PROVE ReloadInv'
    BY <1>31 DEF IInv, ReloadInv, FillRecheck
  <1>32. ASSUME LoseLeader PROVE ReloadInv'
    BY <1>32 DEF IInv, ReloadInv, LoseLeader
  <1> QED
    BY <1>1, <1>2, <1>3, <1>4, <1>5, <1>6, <1>7, <1>8, <1>9, <1>10, <1>11, <1>12, <1>13,
       <1>14, <1>15, <1>16, <1>17, <1>18, <1>19, <1>20, <1>21, <1>22, <1>23, <1>24,
       <1>25, <1>26, <1>27, <1>28, <1>29, <1>30, <1>31, <1>32
       DEF Next, Write, Replicate, Reload, Fill, PayBumps

\* The epoch of a call is the one it had, or that of the bump this step commits.
LEMMA EpochCall ==
    ASSUME IInv, Next, NEW v \in Writer, writer'[v].epoch > 0
    PROVE  \/ BumpEpoch(v)
           \/ /\ writer'[v].epoch = writer[v].epoch
              /\ writer'[v].ctl = writer[v].ctl /\ writer'[v].on = writer[v].on
  <1>1. ASSUME NEW w \in Writer, NEW n \in Node, NEW c \in Control, NEW on \in BOOLEAN,
               WriteRow(w, n, c, on)
        PROVE  writer'[v] = writer[v]
    <2>1. writer'[w].epoch = 0 /\ \A u \in Writer \ {w} : writer'[u] = writer[u]
      BY <1>1, WriteRowCall
    <2>2. v # w
      BY <2>1
    <2> QED
      BY <2>1, <2>2
  <1>2. ASSUME NEW w \in Writer, BumpEpoch(w)
        PROVE  v = w \/ writer'[v] = writer[v]
    BY <1>2, BumpEpochCall
  <1> QED
    BY <1>1, <1>2, CallStep DEF Goes, SameCall, Begins

\* A bump thread that waits did so before, or its bump commits in this step.
Waits ==
    \A m \in Node : bumper'[m].pc = "wait" =>
        \/ bumper'[m] = bumper[m]
        \/ /\ m = Here /\ bumper'[m].idx = Len(log) + 1
           /\ log' = Append(log, Bump) /\ writer' = writer

LEMMA WaitStep ==
    ASSUME IInv, Next
    PROVE  Waits
  <1> USE DEF raft, applying, control, session, bumps, elsewhere
  <1>1. ASSUME NEW w \in Writer, NEW n \in Node, NEW c \in Control, NEW on \in BOOLEAN,
               WriteRow(w, n, c, on)
        PROVE  Waits
    BY <1>1 DEF Waits, WriteRow
  <1>2. ASSUME NEW w \in Writer, WriteGivenUp(w) PROVE Waits
    BY <1>2 DEF Waits, WriteGivenUp
  <1>3. ASSUME NEW w \in Writer, FenceSession(w) PROVE Waits
    BY <1>3 DEF Waits, FenceSession
  <1>4. ASSUME NEW w \in Writer, EvictSession(w) PROVE Waits
    BY <1>4 DEF Waits, EvictSession
  <1>5. ASSUME NEW w \in Writer, BumpEpoch(w) PROVE Waits
    BY <1>5 DEF Waits, BumpEpoch
  <1>6. ASSUME NEW w \in Writer, BumpFails(w) PROVE Waits
    BY <1>6 DEF Waits, BumpFails
  <1>7. ASSUME NEW w \in Writer, Publish(w) PROVE Waits
    BY <1>7 DEF Waits, Publish
  <1>8. ASSUME NEW n \in Node, BumpTake(n) PROVE Waits
    <2>1. bumper'[n].pc = "try" /\ \A m \in Node \ {n} : bumper'[m] = bumper[m]
      BY <1>8 DEF IInv, TypeInv, BumpTake
    <2> QED
      BY <2>1 DEF Waits
  <1>9. ASSUME NEW n \in Node, BumpCommit(n) PROVE Waits
    <2>1. CASE n = Here
      <3>1. /\ bumper'[n] = [bumper[n] EXCEPT !.pc = "wait", !.idx = Len(log) + 1]
            /\ \A m \in Node \ {n} : bumper'[m] = bumper[m]
        BY <1>9, <2>1 DEF IInv, TypeInv, BumpCommit
      <3>2. bumper'[n].idx = Len(log) + 1
        BY <3>1 DEF IInv, TypeInv, Bumper
      <3>3. log' = Append(log, Bump) /\ writer' = writer
        BY <1>9 DEF BumpCommit
      <3> QED
        BY <2>1, <3>1, <3>2, <3>3 DEF Waits
    <2>2. CASE n # Here
      <3>1. bumper' = [bumper EXCEPT ![n] = NoBump]
        BY <1>9, <2>2 DEF BumpCommit, BumpSettled
      <3>2. bumper'[n].pc = "idle" /\ \A m \in Node \ {n} : bumper'[m] = bumper[m]
        BY <3>1 DEF IInv, TypeInv, NoBump
      <3> QED
        BY <3>2 DEF Waits
    <2> QED
      BY <2>1, <2>2
  <1>10. ASSUME NEW n \in Node, BumpDone(n) PROVE Waits
    <2>1. bumper' = [bumper EXCEPT ![n] = NoBump]
      BY <1>10 DEF BumpDone, BumpSettled
    <2>2. bumper'[n].pc = "idle" /\ \A m \in Node \ {n} : bumper'[m] = bumper[m]
      BY <2>1 DEF IInv, TypeInv, NoBump
    <2> QED
      BY <2>2 DEF Waits
  <1>11. ASSUME NEW n \in Node, BumpError(n) PROVE Waits
    <2>1. bumper' = [bumper EXCEPT ![n] = NoBump]
      BY <1>11 DEF BumpError, BumpSettled
    <2>2. bumper'[n].pc = "idle" /\ \A m \in Node \ {n} : bumper'[m] = bumper[m]
      BY <2>1 DEF IInv, TypeInv, NoBump
    <2> QED
      BY <2>2 DEF Waits
  <1>12. ASSUME NEW n \in Node, BumpRefused(n) PROVE Waits
    <2>1. bumper' = [bumper EXCEPT ![n] = NoBump]
      BY <1>12 DEF BumpRefused, BumpSettled
    <2>2. bumper'[n].pc = "idle" /\ \A m \in Node \ {n} : bumper'[m] = bumper[m]
      BY <2>1 DEF IInv, TypeInv, NoBump
    <2> QED
      BY <2>2 DEF Waits
  <1>13. ASSUME NEW n \in Node, Elect(n) PROVE Waits
    BY <1>13 DEF Waits, Elect
  <1>14. ASSUME NEW n \in Node, Restart(n) PROVE Waits
    <2>1. bumper' = [bumper EXCEPT ![n] = NoBump]
      BY <1>14 DEF Restart, BumpSettled
    <2>2. bumper'[n].pc = "idle" /\ \A m \in Node \ {n} : bumper'[m] = bumper[m]
      BY <2>1 DEF IInv, TypeInv, NoBump
    <2> QED
      BY <2>2 DEF Waits
  <1>15. ASSUME Apply PROVE Waits
    BY <1>15 DEF Waits, Apply
  <1>16. ASSUME Observe PROVE Waits
    BY <1>16 DEF Waits, Observe
  <1>17. ASSUME Wipe PROVE Waits
    BY <1>17 DEF Waits, Wipe
  <1>18. ASSUME NEW k \in 1 .. Len(log), Restore(k) PROVE Waits
    BY <1>18 DEF Waits, Restore
  <1>19. ASSUME StartReload PROVE Waits
    BY <1>19 DEF Waits, StartReload
  <1>20. ASSUME StartReset PROVE Waits
    BY <1>20 DEF Waits, StartReset
  <1>21. ASSUME StartRecording PROVE Waits
    BY <1>21 DEF Waits, StartRecording
  <1>22. ASSUME Scan PROVE Waits
    BY <1>22 DEF Waits, Scan
  <1>23. ASSUME ScanFails PROVE Waits
    BY <1>23 DEF Waits, ScanFails
  <1>24. ASSUME Swap PROVE Waits
    BY <1>24 DEF Waits, Swap
  <1>25. ASSUME Resignal PROVE Waits
    BY <1>25 DEF Waits, Resignal
  <1>26. ASSUME FlushFence PROVE Waits
    BY <1>26 DEF Waits, FlushFence
  <1>27. ASSUME FlushStore PROVE Waits
    BY <1>27 DEF Waits, FlushStore
  <1>28. ASSUME FillStart PROVE Waits
    BY <1>28 DEF Waits, FillStart
  <1>29. ASSUME FillRead PROVE Waits
    BY <1>29 DEF Waits, FillRead
  <1>30. ASSUME FillInsert PROVE Waits
    BY <1>30 DEF Waits, FillInsert
  <1>31. ASSUME FillRecheck PROVE Waits
    BY <1>31 DEF Waits, FillRecheck
  <1>32. ASSUME LoseLeader PROVE Waits
    BY <1>32 DEF Waits, LoseLeader
  <1> QED
    BY <1>1, <1>2, <1>3, <1>4, <1>5, <1>6, <1>7, <1>8, <1>9, <1>10, <1>11, <1>12, <1>13,
       <1>14, <1>15, <1>16, <1>17, <1>18, <1>19, <1>20, <1>21, <1>22, <1>23, <1>24,
       <1>25, <1>26, <1>27, <1>28, <1>29, <1>30, <1>31, <1>32
       DEF Next, Write, Replicate, Reload, Fill, PayBumps

\* A new bump has an epoch of its own, behind every row there is.
LEMMA BumpStep ==
    ASSUME IInv, Next
    PROVE  BumpInv'
  <1> DEFINE top == EpochAt(Len(log))
  <1>0. /\ Here \in Node /\ bumper \in [Node -> Bumper] /\ writer \in [Writer -> Call]
        /\ top = Ep(log, Len(log)) /\ top \in Nat
    BY EpIs, EpochOrder, ControlAssumption DEF IInv, TypeInv
  <1>1. /\ Len(log) \in Nat /\ Len(log') \in Nat /\ Len(log) <= Len(log')
        /\ \A j \in 1 .. Len(log) : j \in 1 .. Len(log') /\ log'[j] = log[j]
        /\ \A i \in 0 .. Len(log) : Ep(log', i) = Ep(log, i)
    BY Grows
  <1> HIDE DEF top
  <1>2. top <= Ep(log', Len(log')) /\ Ep(log', Len(log')) \in Nat
    <2>1. Len(log) \in 0 .. Len(log)
      BY <1>1
    <2>2. Ep(log', Len(log)) <= Ep(log', Len(log'))
      BY <1>1, EpMono
    <2> QED
      BY <1>0, <1>1, <2>1, <2>2, EpFinite
  <1>3. \A j \in 1 .. Len(log) : Ep(log, j) \in Nat /\ Ep(log, j) <= top
                                /\ Ep(log', j) = Ep(log, j)
    <2>1. ASSUME NEW j \in 1 .. Len(log)
          PROVE  Ep(log, j) \in Nat /\ Ep(log, j) <= top /\ Ep(log', j) = Ep(log, j)
      <3>1. j \in Nat /\ j <= Len(log) /\ j \in 0 .. Len(log)
        BY <1>1
      <3> QED
        BY <1>0, <1>1, <3>1, EpFinite, EpMono
    <2> QED
      BY <2>1
  <1>4. \A w \in Writer : writer[w].epoch \in Nat /\ writer[w].epoch <= top
    <2>1. ASSUME NEW w \in Writer PROVE writer[w].epoch \in Nat /\ writer[w].epoch <= top
      <3>1. writer[w].epoch \in Nat
        BY <1>0 DEF Call
      <3>2. writer[w].epoch > 0 => writer[w].epoch <= top
        BY DEF IInv, BumpInv, top
      <3> QED
        BY <1>0, <3>1, <3>2
    <2> QED
      BY <2>1
  <1>5. ASSUME NEW w \in Writer, BumpEpoch(w)
        PROVE  /\ writer'[w].epoch = top + 1 /\ Ep(log', Len(log')) = top + 1
               /\ \A v \in Writer \ {w} : writer'[v] = writer[v]
    BY <1>5, BumpEpochCall, NewEpoch DEF top
  <1>6. ASSUME NEW w \in Writer, writer'[w].epoch > 0
        PROVE  /\ writer'[w].epoch <= Ep(log', Len(log'))
               /\ \E j \in 1 .. Len(log') :
                     /\ log'[j] = Row(writer'[w].ctl, writer'[w].on)
                     /\ Ep(log', j) < writer'[w].epoch
    <2>1. CASE BumpEpoch(w)
      <3>1. /\ writer[w].pc \in {"row", "bump"}
            /\ writer'[w].ctl = writer[w].ctl /\ writer'[w].on = writer[w].on
        BY <2>1, BumpEpochCall
      <3>2. PICK j \in 1 .. Len(log) : log[j] = Row(writer[w].ctl, writer[w].on)
        BY <3>1 DEF IInv, CallInv, CallOK
      <3>3. Ep(log', j) < top + 1
        BY <1>0, <1>3
      <3> QED
        BY <1>0, <1>1, <1>5, <2>1, <3>1, <3>2, <3>3
    <2>2. CASE /\ writer'[w].epoch = writer[w].epoch
               /\ writer'[w].ctl = writer[w].ctl /\ writer'[w].on = writer[w].on
      <3>1. writer[w].epoch > 0
        BY <1>6, <2>2
      <3>2. PICK j \in 1 .. Len(log) :
               log[j] = Row(writer[w].ctl, writer[w].on) /\ EpochAt(j) < writer[w].epoch
        BY <3>1 DEF IInv, BumpInv
      <3>3. Ep(log', j) < writer[w].epoch /\ log'[j] = Row(writer[w].ctl, writer[w].on)
        BY <1>1, <1>3, <3>2, EpIs
      <3>4. writer[w].epoch <= Ep(log', Len(log'))
        BY <1>0, <1>2, <1>4
      <3> QED
        BY <1>1, <2>2, <3>3, <3>4
    <2> QED
      BY <1>6, <2>1, <2>2, EpochCall
  <1>7. ASSUME NEW w \in Writer, writer'[w].epoch > 0, NEW v \in Writer \ {w}
        PROVE  writer'[v].epoch # writer'[w].epoch
    <2>1. CASE BumpEpoch(w)
      BY <1>0, <1>4, <1>5, <2>1
    <2>2. CASE BumpEpoch(v)
      BY <1>0, <1>4, <1>5, <2>2
    <2>3. CASE writer'[w].epoch = writer[w].epoch /\ writer'[v].epoch = writer[v].epoch
      BY <1>7, <2>3 DEF IInv, BumpInv
    <2>4. CASE writer'[v].epoch = 0
      BY <1>7, <2>4
    <2>5. writer'[v].epoch = 0 \/ writer'[v].epoch > 0
      BY TypeStep DEF TypeInv, Call
    <2> QED
      BY <1>7, <2>1, <2>2, <2>3, <2>4, <2>5, EpochCall
  <1>8. ASSUME NEW n \in Node, bumper'[n].pc = "wait"
        PROVE  /\ n = Here /\ bumper'[n].idx \in 1 .. Len(log')
               /\ \A w \in Writer : writer'[w].epoch > 0 => Ep(log', bumper'[n].idx) # writer'[w].epoch
    <2>1. CASE bumper'[n] = bumper[n]
      <3>1. n = Here /\ bumper[n].idx \in 1 .. Len(log)
        BY <1>8, <2>1 DEF IInv, BumpInv
      <3>2. PICK k \in 1 .. Len(log) : k = bumper[n].idx
        BY <3>1
      <3>3. ASSUME NEW w \in Writer, writer'[w].epoch > 0 PROVE Ep(log', k) # writer'[w].epoch
        <4>1. CASE BumpEpoch(w)
          BY <1>0, <1>3, <1>5, <4>1
        <4>2. CASE writer'[w].epoch = writer[w].epoch
          <5>1. EpochAt(k) # writer[w].epoch
            BY <1>8, <2>1, <3>1, <3>2, <3>3, <4>2 DEF IInv, BumpInv
          <5> QED
            BY <1>3, <4>2, <5>1, EpIs
        <4> QED
          BY <3>3, <4>1, <4>2, EpochCall
      <3> QED
        BY <1>1, <2>1, <3>1, <3>2, <3>3
    <2>2. CASE /\ n = Here /\ bumper'[n].idx = Len(log) + 1
               /\ log' = Append(log, Bump) /\ writer' = writer
      <3>1. Ep(log', Len(log')) = top + 1 /\ Len(log') = Len(log) + 1 /\ Len(log) + 1 \in 1 .. Len(log')
        BY <2>2, NewEpoch DEF top
      <3> QED
        BY <1>0, <1>4, <2>2, <3>1
    <2> QED
      BY <1>8, <2>1, <2>2, WaitStep DEF Waits
  <1>9. /\ EpochAt(Len(log))' = Ep(log', Len(log'))
        /\ EpochAt(bumper[Here].idx)' = Ep(log', bumper'[Here].idx)
    BY DEF EpochAt, Ep, BumpsIn
  <1> QED
    BY <1>0, <1>6, <1>7, <1>8, <1>9, EpNew DEF BumpInv

\* No counter of Here runs ahead of what its storage reflected before the step.
Ahead ==
    /\ plane'.applied <= EpochAt(at) /\ reload'.epoch <= EpochAt(at)
    /\ \A e \in plane'.parked : e <= EpochAt(at)

LEMMA AheadStep ==
    ASSUME IInv, Next
    PROVE  Ahead
  <1> USE DEF raft, applying, control, session, bumps, elsewhere
  <1>1. ASSUME NEW w \in Writer, NEW n \in Node, NEW c \in Control, NEW on \in BOOLEAN,
               WriteRow(w, n, c, on)
        PROVE  Ahead
    BY <1>1 DEF IInv, EpochInv, Ahead, WriteRow
  <1>2. ASSUME NEW w \in Writer, WriteGivenUp(w) PROVE Ahead
    BY <1>2 DEF IInv, EpochInv, Ahead, WriteGivenUp
  <1>3. ASSUME NEW w \in Writer, FenceSession(w) PROVE Ahead
    BY <1>3 DEF IInv, EpochInv, Ahead, FenceSession
  <1>4. ASSUME NEW w \in Writer, EvictSession(w) PROVE Ahead
    BY <1>4 DEF IInv, EpochInv, Ahead, EvictSession
  <1>5. ASSUME NEW w \in Writer, BumpEpoch(w) PROVE Ahead
    BY <1>5 DEF IInv, EpochInv, Ahead, BumpEpoch
  <1>6. ASSUME NEW w \in Writer, BumpFails(w) PROVE Ahead
    <2>1. CASE writer[w].node = Here
      BY <1>6, <2>1, BumpFailsMoves DEF Moved, IInv, EpochInv, Ahead, BumpFails
    <2>2. CASE writer[w].node # Here
      BY <1>6, <2>2 DEF IInv, EpochInv, Ahead, BumpFails
    <2> QED
      BY <2>1, <2>2
  <1>7. ASSUME NEW w \in Writer, Publish(w) PROVE Ahead
    BY <1>7, PublishMoves DEF Moved, IInv, EpochInv, Ahead, Publish
  <1>8. ASSUME NEW n \in Node, BumpTake(n) PROVE Ahead
    BY <1>8 DEF IInv, EpochInv, Ahead, BumpTake
  <1>9. ASSUME NEW n \in Node, BumpCommit(n) PROVE Ahead
    BY <1>9 DEF IInv, EpochInv, Ahead, BumpCommit
  <1>10. ASSUME NEW n \in Node, BumpDone(n) PROVE Ahead
    BY <1>10, BumpDoneMoves DEF Moved, IInv, EpochInv, Ahead, BumpDone
  <1>11. ASSUME NEW n \in Node, BumpError(n) PROVE Ahead
    BY <1>11 DEF IInv, EpochInv, Ahead, BumpError
  <1>12. ASSUME NEW n \in Node, BumpRefused(n) PROVE Ahead
    BY <1>12 DEF IInv, EpochInv, Ahead, BumpRefused
  <1>13. ASSUME NEW n \in Node, Elect(n) PROVE Ahead
    BY <1>13 DEF IInv, EpochInv, Ahead, Elect
  <1>14. ASSUME NEW n \in Node, Restart(n) PROVE Ahead
    <2>1. EpochAt(at) \in Nat
      BY EpochOrder DEF IInv, TypeInv
    <2>2. CASE n = Here
      BY <1>14, <2>1, <2>2 DEF Ahead, Restart, FreshPlane, NoReload
    <2>3. CASE n # Here
      BY <1>14, <2>3 DEF IInv, EpochInv, Ahead, Restart
    <2> QED
      BY <2>2, <2>3
  <1>15. ASSUME Apply PROVE Ahead
    BY <1>15 DEF IInv, EpochInv, Ahead, Apply
  <1>16. ASSUME Observe PROVE Ahead
    BY <1>16, ObserveMoves DEF Moved, IInv, EpochInv, Ahead, Observe
  <1>17. ASSUME Wipe PROVE Ahead
    BY <1>17 DEF IInv, EpochInv, Ahead, Wipe
  <1>18. ASSUME NEW k \in 1 .. Len(log), Restore(k) PROVE Ahead
    BY <1>18 DEF IInv, EpochInv, Ahead, Restore
  <1>19. ASSUME StartReload PROVE Ahead
    <2>1. EpochAt(at) \in Nat
      BY EpochOrder DEF IInv, TypeInv
    <2>2. reload'.epoch <= EpochAt(at)
      BY <1>19, <2>1 DEF StartReload, Loading, Epoch
    <2>3. plane'.applied = plane.applied /\ plane'.parked = plane.parked
      BY <1>19 DEF IInv, TypeInv, Plane, StartReload
    <2> QED
      BY <2>2, <2>3 DEF IInv, EpochInv, Ahead
  <1>20. ASSUME StartReset PROVE Ahead
    <2>1. EpochAt(at) \in Nat
      BY EpochOrder DEF IInv, TypeInv
    <2>2. reload'.epoch <= EpochAt(at)
      BY <1>20, <2>1 DEF StartReset, Loading, Epoch
    <2>3. plane'.applied = plane.applied /\ plane'.parked = plane.parked
      BY <1>20 DEF IInv, TypeInv, Plane, StartReset
    <2> QED
      BY <2>2, <2>3 DEF IInv, EpochInv, Ahead
  <1>21. ASSUME StartRecording PROVE Ahead
    <2>1. plane'.applied = plane.applied /\ plane'.parked = plane.parked
      BY <1>21 DEF IInv, TypeInv, Plane, StartRecording
    <2>2. reload'.epoch = reload.epoch
      BY <1>21 DEF IInv, TypeInv, Loads, StartRecording
    <2> QED
      BY <2>1, <2>2 DEF IInv, EpochInv, Ahead
  <1>22. ASSUME Scan PROVE Ahead
    <2>1. plane'.applied = plane.applied /\ plane'.parked = plane.parked
      BY <1>22 DEF IInv, TypeInv, Plane, Scan
    <2>2. reload'.epoch = reload.epoch
      BY <1>22 DEF IInv, TypeInv, Loads, Scan
    <2> QED
      BY <2>1, <2>2 DEF IInv, EpochInv, Ahead
  <1>23. ASSUME ScanFails PROVE Ahead
    <2>1. plane'.applied = plane.applied /\ plane'.parked = plane.parked
      BY <1>23 DEF IInv, TypeInv, Plane, ScanFails
    <2>2. reload'.epoch = 0 /\ 0 <= EpochAt(at)
      BY <1>23, EpochOrder DEF IInv, TypeInv, ScanFails, EndReload, NoReload
    <2> QED
      BY <2>1, <2>2 DEF IInv, EpochInv, Ahead
  <1>24. ASSUME Swap PROVE Ahead
    <2>1. reload'.epoch = 0 /\ 0 <= EpochAt(at)
      BY <1>24, EpochOrder DEF IInv, TypeInv, Loads, Swap
    <2> QED
      BY <1>24, <2>1, SwapMoves DEF Ahead
  <1>25. ASSUME Resignal PROVE Ahead
    <2>1. reload'.epoch = reload.epoch
      BY <1>25 DEF IInv, TypeInv, Loads, Resignal
    <2> QED
      BY <1>25, <2>1, ResignalMoves DEF IInv, EpochInv, Ahead
  <1>26. ASSUME FlushFence PROVE Ahead
    <2>1. plane' = plane /\ reload'.epoch = reload.epoch
      BY <1>26 DEF IInv, TypeInv, Loads, FlushFence
    <2> QED
      BY <2>1 DEF IInv, EpochInv, Ahead
  <1>27. ASSUME FlushStore PROVE Ahead
    <2>1. plane'.applied = plane.applied /\ plane'.parked = plane.parked
      BY <1>27 DEF IInv, TypeInv, Plane, FlushStore
    <2>2. reload'.epoch = 0 /\ 0 <= EpochAt(at)
      BY <1>27, EpochOrder DEF IInv, TypeInv, FlushStore, EndReload, NoReload
    <2> QED
      BY <2>1, <2>2 DEF IInv, EpochInv, Ahead
  <1>28. ASSUME FillStart PROVE Ahead
    BY <1>28 DEF IInv, EpochInv, Ahead, FillStart
  <1>29. ASSUME FillRead PROVE Ahead
    BY <1>29 DEF IInv, EpochInv, Ahead, FillRead
  <1>30. ASSUME FillInsert PROVE Ahead
    BY <1>30 DEF IInv, EpochInv, Ahead, FillInsert
  <1>31. ASSUME FillRecheck PROVE Ahead
    BY <1>31 DEF IInv, EpochInv, Ahead, FillRecheck
  <1>32. ASSUME LoseLeader PROVE Ahead
    BY <1>32 DEF IInv, EpochInv, Ahead, LoseLeader
  <1> QED
    BY <1>1, <1>2, <1>3, <1>4, <1>5, <1>6, <1>7, <1>8, <1>9, <1>10, <1>11, <1>12, <1>13,
       <1>14, <1>15, <1>16, <1>17, <1>18, <1>19, <1>20, <1>21, <1>22, <1>23, <1>24,
       <1>25, <1>26, <1>27, <1>28, <1>29, <1>30, <1>31, <1>32
       DEF Next, Write, Replicate, Reload, Fill, PayBumps

LEMMA EpochStep ==
    ASSUME IInv, Next
    PROVE  EpochInv'
  <1>1. /\ at \in Nat /\ at' \in Nat /\ at <= at' /\ at <= Len(log)
        /\ plane' \in Plane /\ reload' \in Loads
    BY LogStep, TypeStep DEF IInv, TypeInv
  <1>2. at \in 0 .. Len(log)
    BY <1>1, Grows
  <1>3. Ep(log', at) = Ep(log, at) /\ EpochAt(at) = Ep(log, at)
    BY <1>2, Grows, EpIs
  <1>4. Ep(log', at) <= Ep(log', at') /\ Ep(log', at) \in Nat /\ Ep(log', at') \in Nat
    BY <1>1, EpMono, EpFinite
  <1>5. EpochAt(at)' = Ep(log', at')
    BY DEF EpochAt, Ep, BumpsIn
  <1>6. /\ plane'.applied \in Nat /\ plane'.parked \subseteq Nat /\ reload'.epoch \in Nat
    BY <1>1 DEF Plane, Loads
  <1>7. \A e \in Nat : e <= EpochAt(at) => e <= EpochAt(at)'
    BY <1>3, <1>4, <1>5
  <1> QED
    BY <1>6, <1>7, AheadStep DEF EpochInv, Ahead

-----------------------------------------------------------------------------
(* Coverage.                                                               *)

\* Control c is never withdrawn, its row is in front of the bump of epoch e, and
\* the caches are as CoverInv says.
Covering(c, e) ==
    /\ c \in Control \ {Session} /\ e \in Nat /\ e > 0 /\ OnlyOn(c)
    /\ \E j \in 1 .. Len(log) : About(c, j) /\ EpochAt(j) < e
    /\ Covers(c, e)

\* The storage of Here has the row once it has the epoch.
LEMMA CoverRow ==
    ASSUME IInv, NEW c, NEW e, Covering(c, e), Told(e) \/ e <= reload.epoch
    PROVE  c \in RowsAt(at) /\ e <= EpochAt(at)
  <1>1. /\ e \in Nat /\ EpochAt(at) \in Nat /\ plane.applied \in Nat /\ reload.epoch \in Nat
        /\ at \in 0 .. Len(log) /\ c \in Control /\ OnlyOn(c)
    BY EpochOrder DEF IInv, TypeInv, Plane, Loads, Covering
  <1>2. e <= EpochAt(at)
    BY <1>1 DEF Told, IInv, EpochInv
  <1>3. PICK j \in 1 .. Len(log) : About(c, j) /\ EpochAt(j) < e
    BY DEF Covering
  <1>4. EpochAt(j) \in Nat
    BY EpochOrder DEF IInv, TypeInv
  <1>5. EpochAt(j) < EpochAt(at)
    BY <1>1, <1>2, <1>3, <1>4
  <1> QED
    BY <1>1, <1>2, <1>3, <1>5, RowReached DEF IInv

\* A row of the log that is about c asserts it.
LEMMA CoverOn ==
    ASSUME IInv, NEW c, NEW e, Covering(c, e), NEW j \in 1 .. Len(log), log[j] \in RowCommand
    PROVE  log[j].ctl = c => log[j].on
  BY DEF Covering, OnlyOn, About, RowCommand

\* Applying a row that does not withdraw c.
LEMMA CachedOn ==
    ASSUME NEW S, NEW cmd \in RowCommand, NEW c \in Control \ {Session}, cmd.ctl = c => cmd.on,
           c \in S \/ cmd.ctl = c
    PROVE  c \in Cached(S, cmd)
  <1>1. CASE cmd.ctl = Session
    BY <1>1 DEF Cached
  <1>2. CASE cmd.ctl # Session
    <2>1. PICK s : s = <<cmd>>
      OBVIOUS
    <2>2. PICK m \in Nat : m = 1
      OBVIOUS
    <2>3. Len(s) = m /\ s[1] = cmd /\ cmd.op = "row" /\ 1 \in 1 .. m
      BY <2>1, <2>2 DEF RowCommand
    <2>4. \A i \in 1 .. m : s[i].op = "row" /\ s[i].ctl = c => s[i].on
      BY <2>2, <2>3
    <2>6. c \in After(S, s) <=> c \in S \/ \E i \in 1 .. m : s[i].op = "row" /\ s[i].ctl = c
      BY <2>3, <2>4, AfterOn
    <2>5. c \in After(S, s)
      BY <2>3, <2>6
    <2> QED
      BY <1>2, <2>1, <2>5 DEF Cached
  <1> QED
    BY <1>1, <1>2

\* No command of the journal withdraws c.
LEMMA JournalOn ==
    ASSUME IInv, NEW c, NEW e, Covering(c, e), NEW S
    PROVE  /\ Len(plane.ops) \in Nat
           /\ \A i \in 1 .. Len(plane.ops) :
                 plane.ops[i].op = "row" /\ plane.ops[i].ctl = c => plane.ops[i].on
           /\ c \in S => c \in After(S, plane.ops)
  <1>0. PICK s : s = plane.ops
    OBVIOUS
  <1>1. Len(s) \in Nat
    BY <1>0 DEF IInv, TypeInv, Plane
  <1>2. \A i \in 1 .. Len(s) : s[i].op = "row" /\ s[i].ctl = c => s[i].on
    <2>1. \A j \in 1 .. Len(log) : log[j].op = "row" /\ log[j].ctl = c => log[j].on
      BY DEF Covering, OnlyOn, About
    <2>2. \A i \in 1 .. Len(s) : \E j \in 1 .. Len(log) : s[i] = log[j]
      BY <1>0 DEF IInv, RowsInv
    <2> QED
      BY <2>1, <2>2
  <1>3. c \in Control
    BY DEF Covering
  <1>4. c \in After(S, s) <=> c \in S \/ \E i \in 1 .. Len(s) : s[i].op = "row" /\ s[i].ctl = c
    BY <1>1, <1>2, <1>3, AfterOn
  <1> QED
    BY <1>0, <1>1, <1>2, <1>4

\* A row that does not withdraw c, at the end of the journal.
LEMMA JournalAppend ==
    ASSUME IInv, NEW c, NEW e, Covering(c, e), NEW S, NEW cmd \in RowCommand,
           cmd.ctl = c => cmd.on, c \in After(S, plane.ops) \/ cmd.ctl = c
    PROVE  c \in After(S, Append(plane.ops, cmd))
  <1>0. c \in Control /\ cmd.op = "row"
    BY DEF Covering, RowCommand
  <1>1. PICK ops \in Seq(RowCommand) : ops = plane.ops
    BY DEF IInv, TypeInv, Plane
  <1>2. PICK m \in Nat : m = Len(ops)
    OBVIOUS
  <1>3. \A i \in 1 .. m : ops[i].op = "row" /\ ops[i].ctl = c => ops[i].on
    BY <1>1, <1>2, JournalOn
  <1>4. PICK s : s = Append(ops, cmd)
    OBVIOUS
  <1>5. Len(s) = m + 1 /\ s[m + 1] = cmd /\ (\A i \in 1 .. m : s[i] = ops[i]) /\ m + 1 \in Nat
    BY <1>1, <1>2, <1>4
  <1>6. \A i \in 1 .. m + 1 : i \in 1 .. m \/ i = m + 1
    OBVIOUS
  <1>7. \A i \in 1 .. m + 1 : s[i].op = "row" /\ s[i].ctl = c => s[i].on
    BY <1>3, <1>5, <1>6
  <1>8. c \in After(S, s) <=> c \in S \/ \E i \in 1 .. m + 1 : s[i].op = "row" /\ s[i].ctl = c
    BY <1>0, <1>5, <1>7, AfterOn
  <1>9. c \in After(S, ops) <=> c \in S \/ \E i \in 1 .. m : ops[i].op = "row" /\ ops[i].ctl = c
    BY <1>0, <1>2, <1>3, AfterOn
  <1>10. m + 1 \in 1 .. m + 1 /\ \A i \in 1 .. m : i \in 1 .. m + 1
    OBVIOUS
  <1>11. CASE cmd.ctl = c
    BY <1>0, <1>4, <1>1, <1>5, <1>8, <1>10, <1>11
  <1>12. CASE c \in After(S, ops)
    BY <1>1, <1>4, <1>5, <1>8, <1>9, <1>10, <1>12
  <1> QED
    BY <1>1, <1>11, <1>12

\* A step that changes nothing coverage depends on.
LEMMA CoverQuiet ==
    ASSUME NEW c, NEW e, Covers(c, e), UNCHANGED <<install, plane, cache, reload>>
    PROVE  Covers(c, e)'
  BY DEF Covers, Told, Rebasing, Sound

\* A step that records an epoch other than e.
LEMMA CoverMove ==
    ASSUME IInv, NEW c, NEW e, Covering(c, e), NEW x, x # e, Moved(plane', plane.ops, x),
           UNCHANGED <<install, cache, reload>>
    PROVE  Covers(c, e)'
  <1>1. Told(e)' => Told(e)
    BY DEF Moved, Knows, Told, Covering
  <1>2. plane'.reset = plane.reset /\ plane'.ops = plane.ops /\ Covers(c, e)
    BY DEF Moved, Covering
  <1> QED
    BY <1>1, <1>2 DEF Covers, Rebasing, Sound

\* A step that applies a row, and records epoch e only for c.
LEMMA CoverApply ==
    ASSUME IInv, NEW c, NEW e, Covering(c, e), NEW x, NEW cmd \in RowCommand,
           cmd.ctl = c => cmd.on, x = e => cmd.ctl = c, Moved(plane', OpsWith(cmd), x),
           cache' = Cached(cache, cmd), UNCHANGED <<install, reload>>
    PROVE  Covers(c, e)'
  <1>1. Told(e)' => Told(e) \/ cmd.ctl = c
    BY DEF Moved, Knows, Told, Covering
  <1>2. /\ plane'.reset = plane.reset /\ plane'.ops = OpsWith(cmd) /\ Covers(c, e)
        /\ c \in Control \ {Session}
    BY DEF Moved, Covering
  <1>3. c \in cache \/ cmd.ctl = c => c \in cache'
    BY <1>2, CachedOn
  <1>4. ASSUME reload.pc = "swap", c \in After(reload.scan, plane.ops) \/ cmd.ctl = c
        PROVE  c \in After(reload.scan, plane'.ops)
    <2>1. plane.recording
      BY <1>4 DEF IInv, ReloadInv
    <2>2. CASE cmd.ctl = Session
      BY <1>2, <1>4, <2>2 DEF OpsWith
    <2>3. CASE cmd.ctl # Session
      BY <1>2, <1>4, <2>1, <2>3, JournalAppend DEF OpsWith
    <2> QED
      BY <2>2, <2>3
  <1> QED
    BY <1>1, <1>2, <1>3, <1>4 DEF Covers, Rebasing, Sound

\* Coverage is kept: epoch e becomes known through the write of c or through a
\* reload that has read c, and no swap publishes a set without it.
LEMMA CoverGo ==
    ASSUME IInv, Next, NEW c, NEW e, Covering(c, e),
           \A w \in Writer : writer[w].epoch = e => writer[w].ctl = c,
           bumper[Here].pc = "wait" => EpochAt(bumper[Here].idx) # e
    PROVE  Covers(c, e)'
  <1> USE DEF raft, applying, control, session, bumps, elsewhere
  <1>a. c \in Control \ {Session} /\ e \in Nat /\ e > 0 /\ Covers(c, e)
    BY DEF Covering
  <1>1. ASSUME NEW w \in Writer, NEW n \in Node, NEW d \in Control, NEW on \in BOOLEAN,
               WriteRow(w, n, d, on)
        PROVE  Covers(c, e)'
    BY <1>1, <1>a, CoverQuiet DEF WriteRow
  <1>2. ASSUME NEW w \in Writer, WriteGivenUp(w) PROVE Covers(c, e)'
    BY <1>2, <1>a, CoverQuiet DEF WriteGivenUp
  <1>3. ASSUME NEW w \in Writer, FenceSession(w) PROVE Covers(c, e)'
    BY <1>3, <1>a, CoverQuiet DEF FenceSession
  <1>4. ASSUME NEW w \in Writer, EvictSession(w) PROVE Covers(c, e)'
    BY <1>4, <1>a, CoverQuiet DEF EvictSession
  <1>5. ASSUME NEW w \in Writer, BumpEpoch(w) PROVE Covers(c, e)'
    BY <1>5, <1>a, CoverQuiet DEF BumpEpoch
  <1>6. ASSUME NEW w \in Writer, BumpFails(w) PROVE Covers(c, e)'
    <2>1. CASE writer[w].node = Here
      <3>0. writer[w].pc # "idle"
        BY <1>6 DEF BumpFails, AboutToBump
      <3>1. PICK j \in 1 .. Len(log) : log[j] = Row(writer[w].ctl, writer[w].on)
        BY <3>0, RowLogged
      <3>2. log[j] \in RowCommand /\ Moved(plane', OpsWith(log[j]), 0)
        BY <1>6, <2>1, <3>0, <3>1, RowLogged, BumpFailsMoves
      <3>3. cache' = Cached(cache, log[j]) /\ UNCHANGED <<install, reload>>
        BY <1>6, <2>1, <3>1 DEF BumpFails, ApplyHere
      <3> QED
        BY <1>a, <3>2, <3>3, CoverOn, CoverApply
    <2>2. CASE writer[w].node # Here
      BY <1>6, <1>a, <2>2, CoverQuiet DEF BumpFails
    <2> QED
      BY <2>1, <2>2
  <1>7. ASSUME NEW w \in Writer, Publish(w) PROVE Covers(c, e)'
    <2>1. PICK j \in 1 .. Len(log) : log[j] = Row(writer[w].ctl, writer[w].on)
      BY <1>7, RowLogged DEF Publish
    <2>2. log[j] \in RowCommand /\ log[j].ctl = writer[w].ctl
      BY <1>7, <2>1, RowLogged DEF Publish, Row
    <2>4. Moved(plane', OpsWith(log[j]), writer[w].epoch)
      BY <1>7, <2>1, PublishMoves
    <2>3. cache' = Cached(cache, log[j]) /\ UNCHANGED <<install, reload>>
      BY <1>7, <2>1 DEF Publish, ApplyHere
    <2> QED
      BY <2>2, <2>3, <2>4, CoverOn, CoverApply
  <1>8. ASSUME NEW n \in Node, BumpTake(n) PROVE Covers(c, e)'
    BY <1>8, <1>a, CoverQuiet DEF BumpTake
  <1>9. ASSUME NEW n \in Node, BumpCommit(n) PROVE Covers(c, e)'
    BY <1>9, <1>a, CoverQuiet DEF BumpCommit
  <1>10. ASSUME NEW n \in Node, BumpDone(n) PROVE Covers(c, e)'
    <2>1. /\ bumper[Here].pc = "wait" /\ Moved(plane', plane.ops, EpochAt(bumper[Here].idx))
          /\ UNCHANGED <<install, cache, reload>>
      BY <1>10, BumpDoneMoves DEF BumpDone
    <2> QED
      BY <2>1, CoverMove
  <1>11. ASSUME NEW n \in Node, BumpError(n) PROVE Covers(c, e)'
    BY <1>11, <1>a, CoverQuiet DEF BumpError
  <1>12. ASSUME NEW n \in Node, BumpRefused(n) PROVE Covers(c, e)'
    BY <1>12, <1>a, CoverQuiet DEF BumpRefused
  <1>13. ASSUME NEW n \in Node, Elect(n) PROVE Covers(c, e)'
    BY <1>13, <1>a, CoverQuiet DEF Elect
  <1>14. ASSUME NEW n \in Node, Restart(n) PROVE Covers(c, e)'
    <2>1. CASE n # Here
      BY <1>14, <1>a, <2>1, CoverQuiet DEF Restart
    <2>2. CASE n = Here
      <3>1. /\ cache' = RowsAt(at) \ {Session} /\ reload'.pc = "idle"
            /\ plane'.applied = EpochAt(at) /\ plane'.parked = {}
        BY <1>14, <2>2 DEF Restart, NoReload, FreshPlane
      <3>2. ASSUME e <= EpochAt(at) PROVE c \in cache'
        <4>1. PICK j \in 1 .. Len(log) : About(c, j) /\ EpochAt(j) < e
          BY DEF Covering
        <4>2. EpochAt(j) \in Nat /\ EpochAt(at) \in Nat /\ at \in 0 .. Len(log)
          BY EpochOrder DEF IInv, TypeInv
        <4>3. EpochAt(j) < EpochAt(at)
          BY <1>a, <3>2, <4>1, <4>2
        <4>4. c \in RowsAt(at)
          BY <1>a, <4>1, <4>2, <4>3, RowReached DEF IInv, Covering
        <4> QED
          BY <1>a, <3>1, <4>4
      <3> QED
        BY <3>1, <3>2 DEF Covers, Told
    <2> QED
      BY <2>1, <2>2
  <1>15. ASSUME Apply PROVE Covers(c, e)'
    BY <1>15, <1>a, CoverQuiet DEF Apply
  <1>16. ASSUME Observe PROVE Covers(c, e)'
    <2>1. at \in 1 .. Len(log) /\ UNCHANGED <<install, reload>>
      BY <1>16, ObserveMoves DEF Observe
    <2>2. CASE log[at].op = "bump" /\ Moved(plane', plane.ops, 0) /\ cache' = cache
      BY <1>a, <2>1, <2>2, CoverMove
    <2>3. CASE /\ log[at] \in RowCommand /\ Moved(plane', OpsWith(log[at]), 0)
               /\ cache' = Cached(cache, log[at])
      BY <1>a, <2>1, <2>3, CoverOn, CoverApply
    <2> QED
      BY <1>16, <2>2, <2>3, ObserveMoves
  <1>17. ASSUME Wipe PROVE Covers(c, e)'
    BY <1>17, <1>a DEF Wipe, Covers, Told, Rebasing, Sound
  <1>18. ASSUME NEW k \in 1 .. Len(log), Restore(k) PROVE Covers(c, e)'
    BY <1>18, <1>a DEF Restore, Covers, Told, Rebasing, Sound
  <1>19. ASSUME StartReload PROVE Covers(c, e)'
    <2>1. /\ reload.pc = "idle" /\ plane \in Plane /\ ~ reload.reset
          /\ reload' = Loading("thread", plane.force, plane.force /\ plane.reset)
      BY <1>19 DEF IInv, TypeInv, ReloadInv, StartReload
    <2>2. /\ reload'.pc = "record" /\ reload'.reset = (plane.force /\ plane.reset)
      BY <2>1 DEF Loading
    <2>3. /\ plane'.reset = (plane.reset /\ ~plane.force) /\ plane'.applied = plane.applied
          /\ plane'.parked = plane.parked /\ install' = install /\ cache' = cache
      BY <1>19, <2>1 DEF StartReload, Plane
    <2> QED
      BY <1>a, <2>1, <2>2, <2>3 DEF Covers, Told, Rebasing
  <1>20. ASSUME StartReset PROVE Covers(c, e)'
    BY <1>20 DEF StartReset, Loading, Covers, Rebasing
  <1>21. ASSUME StartRecording PROVE Covers(c, e)'
    <2>1. /\ reload'.pc = "scan" /\ reload'.reset = reload.reset
          /\ plane'.reset = plane.reset /\ plane'.applied = plane.applied
          /\ plane'.parked = plane.parked /\ install' = install /\ cache' = cache
      BY <1>21 DEF IInv, TypeInv, Loads, Plane, StartRecording
    <2> QED
      BY <1>a, <2>1 DEF Covers, Told, Rebasing
  <1>22. ASSUME Scan PROVE Covers(c, e)'
    <2>1. /\ reload'.pc = "swap" /\ reload'.reset = reload.reset /\ reload'.by = reload.by
          /\ reload'.scan = Rows \ {Session} /\ reload'.epoch = reload.epoch
          /\ plane' = plane /\ install' = install /\ cache' = cache /\ reload.pc = "scan"
      BY <1>22 DEF IInv, TypeInv, Loads, Scan
    <2>2. ASSUME Told(e) \/ e <= reload.epoch, Sound
          PROVE  c \in After(reload'.scan, plane.ops)
      <3>1. install # "wiped"
        BY <2>1, <2>2 DEF Sound, IInv, ReloadInv
      <3>2. c \in Rows
        BY <2>2, <3>1, CoverRow DEF Rows
      <3>3. c \in reload'.scan
        BY <1>a, <2>1, <3>2
      <3> QED
        BY <3>3, JournalOn
    <2> QED
      BY <1>a, <2>1, <2>2 DEF Covers, Told, Rebasing, Sound
  <1>23. ASSUME ScanFails PROVE Covers(c, e)'
    <2>1. /\ reload.pc = "scan" /\ reload'.pc = "idle" /\ cache' = cache
          /\ plane'.applied = plane.applied /\ plane'.parked = plane.parked
          /\ plane'.reset = (plane.reset \/ reload.reset)
          /\ install' = IF reload.by = "install" THEN "no" ELSE install
      BY <1>23 DEF IInv, TypeInv, Plane, ScanFails, EndReload, NoReload
    <2>2. ~Rebasing' => ~Rebasing
      BY <2>1 DEF Rebasing, IInv, ReloadInv
    <2> QED
      BY <1>a, <2>1, <2>2 DEF Covers, Told
  <1>24. ASSUME Swap PROVE Covers(c, e)'
    <2>1. /\ reload.pc = "swap" /\ cache' = After(reload.scan, plane.ops)
          /\ reload'.pc = (IF reload.reset THEN "resignal" ELSE "flush")
          /\ reload'.reset = reload.reset /\ reload'.by = reload.by /\ install' = install
      BY <1>24 DEF IInv, TypeInv, Loads, Swap
    <2>2. Told(e)' => Told(e) \/ e <= reload.epoch
      BY <1>24, <1>a, SwapMoves DEF Told, Knows
    <2>3. Told(e)' /\ Sound => c \in cache'
      BY <1>a, <2>1, <2>2 DEF Covers
    <2> QED
      BY <2>1, <2>3 DEF Covers, Rebasing, Sound
  <1>25. ASSUME Resignal PROVE Covers(c, e)'
    <2>1. /\ reload.pc = "resignal" /\ reload'.pc = "flush" /\ reload'.reset = reload.reset
          /\ reload'.by = reload.by /\ install' = install /\ cache' = cache
      BY <1>25 DEF IInv, TypeInv, Loads, Resignal
    <2>2. plane'.applied = plane.applied /\ plane'.parked = plane.parked /\ (plane.reset => plane'.reset)
      BY <1>25, ResignalMoves
    <2> QED
      BY <1>a, <2>1, <2>2 DEF Covers, Told, Rebasing, Sound
  <1>26. ASSUME FlushFence PROVE Covers(c, e)'
    <2>1. /\ reload.pc = "flush" /\ reload'.pc = "clear" /\ reload'.reset = reload.reset
          /\ reload'.by = reload.by /\ install' = install /\ cache' = cache /\ plane' = plane
      BY <1>26 DEF IInv, TypeInv, Loads, FlushFence
    <2> QED
      BY <1>a, <2>1 DEF Covers, Told, Rebasing, Sound
  <1>27. ASSUME FlushStore PROVE Covers(c, e)'
    <2>1. /\ reload.pc = "clear" /\ reload'.pc = "idle" /\ cache' = cache /\ plane' = plane
          /\ install' = IF reload.by = "install" THEN "no" ELSE install
      BY <1>27 DEF FlushStore, EndReload, NoReload
    <2>2. ASSUME Told(e), ~Rebasing' PROVE c \in cache
      <3>1. Sound
        BY <2>1, <2>2 DEF Rebasing, Sound
      <3>2. CASE reload.reset
        BY <1>a, <2>1, <2>2, <3>1, <3>2 DEF Covers
      <3>3. CASE ~ reload.reset
        <4>1. reload.by # "install"
          BY <2>1, <3>3 DEF IInv, ReloadInv
        <4>2. ~ Rebasing
          BY <2>1, <2>2, <3>3, <4>1 DEF Rebasing
        <4> QED
          BY <1>a, <2>2, <4>2 DEF Covers
      <3> QED
        BY <3>2, <3>3
    <2> QED
      BY <2>1, <2>2 DEF Covers, Told
  <1>28. ASSUME FillStart PROVE Covers(c, e)'
    BY <1>28, <1>a, CoverQuiet DEF FillStart
  <1>29. ASSUME FillRead PROVE Covers(c, e)'
    BY <1>29, <1>a, CoverQuiet DEF FillRead
  <1>30. ASSUME FillInsert PROVE Covers(c, e)'
    BY <1>30, <1>a, CoverQuiet DEF FillInsert
  <1>31. ASSUME FillRecheck PROVE Covers(c, e)'
    BY <1>31, <1>a, CoverQuiet DEF FillRecheck
  <1>32. ASSUME LoseLeader PROVE Covers(c, e)'
    BY <1>32, <1>a, CoverQuiet DEF LoseLeader
  <1> QED
    BY <1>1, <1>2, <1>3, <1>4, <1>5, <1>6, <1>7, <1>8, <1>9, <1>10, <1>11, <1>12, <1>13,
       <1>14, <1>15, <1>16, <1>17, <1>18, <1>19, <1>20, <1>21, <1>22, <1>23, <1>24,
       <1>25, <1>26, <1>27, <1>28, <1>29, <1>30, <1>31, <1>32
       DEF Next, Write, Replicate, Reload, Fill, PayBumps

LEMMA CoverStep ==
    ASSUME IInv, Next
    PROVE  CoverInv'
  <1> SUFFICES ASSUME NEW w \in Writer, writer'[w].epoch > 0, writer'[w].ctl # Session,
                      OnlyOn(writer[w].ctl)'
               PROVE  Covers(writer[w].ctl, writer[w].epoch)'
    BY DEF CoverInv
  <1>1. PICK c, e : c = writer'[w].ctl /\ e = writer'[w].epoch
    OBVIOUS
  <1>2. c \in Control \ {Session} /\ e \in Nat /\ e > 0
    BY <1>1, TypeStep DEF TypeInv, Call
  <1>3. OnlyOn(c)'
    BY <1>1 DEF OnlyOn, About
  <1>4. OnlyOn(c)
    BY <1>2, <1>3, Grows
  <1>5. SUFFICES Covers(c, e)'
    BY <1>1 DEF Covers, Told, Rebasing, Sound
  <1>6. CASE BumpEpoch(w)
    <2>0. at \in Nat /\ Len(log) \in Nat /\ at <= Len(log) /\ TypeInv
      BY DEF IInv, TypeInv
    <2>1. /\ e = EpochAt(Len(log)) + 1 /\ EpochAt(at) <= EpochAt(Len(log))
          /\ EpochAt(at) \in Nat /\ EpochAt(Len(log)) \in Nat
      BY <1>1, <1>6, <2>0, BumpEpochCall, EpochOrder
    <2>2. plane' = plane /\ reload' = reload
      BY <1>6 DEF BumpEpoch, control
    <2>3. plane.applied \in Nat /\ plane.parked \subseteq Nat /\ reload.epoch \in Nat
      BY DEF IInv, TypeInv, Plane, Loads
    <2>4. ~ (e <= plane.applied) /\ e \notin plane.parked /\ ~ (e <= reload.epoch)
      BY <2>1, <2>3 DEF IInv, EpochInv
    <2> QED
      BY <2>2, <2>4 DEF Covers, Told
  <1>7. CASE writer'[w].epoch = writer[w].epoch /\ writer'[w].ctl = writer[w].ctl
    <2>1. PICK j \in 1 .. Len(log) :
             log[j] = Row(writer[w].ctl, writer[w].on) /\ EpochAt(j) < writer[w].epoch
      BY <1>7 DEF IInv, BumpInv
    <2>2. About(c, j) /\ EpochAt(j) < e
      BY <1>1, <1>7, <2>1 DEF About, Row
    <2>3. Covers(c, e)
      BY <1>1, <1>2, <1>4, <1>7 DEF IInv, CoverInv
    <2>4. Covering(c, e)
      BY <1>2, <1>4, <2>2, <2>3 DEF Covering
    <2>5. /\ \A v \in Writer : writer[v].epoch = e => writer[v].ctl = c
          /\ bumper[Here].pc = "wait" => EpochAt(bumper[Here].idx) # e
      BY <1>1, <1>2, <1>7 DEF IInv, BumpInv
    <2> QED
      BY <2>4, <2>5, CoverGo
  <1> QED
    BY <1>6, <1>7, EpochCall

-----------------------------------------------------------------------------
(* The session.                                                            *)

\* A revoked session stays revoked in the storage of Here.
LEMMA RowStays ==
    ASSUME IInv, Next, Session \in RowsAt(at)
    PROVE  (Session \in RowsAt(at))'
  <1>1. /\ log \in Seq(Command) /\ at \in 0 .. Len(log) /\ Session \in Control
        /\ log' \in Seq(Command) /\ at' \in 0 .. Len(log') /\ at \in Nat /\ at' \in Nat /\ at <= at'
    BY TypeStep, LogStep, ControlAssumption DEF IInv, TypeInv
  <1>2. PICK j \in 1 .. at : log[j].op = "row" /\ log[j].ctl = Session
    BY <1>1, RowsSome DEF RowsAt, Rw
  <1>3. log'[j].op = "row" /\ log'[j].ctl = Session /\ j \in 1 .. at'
    <2>1. j \in 1 .. Len(log)
      BY <1>1
    <2> QED
      BY <1>1, <1>2, <2>1, Grows
  <1>4. \A i \in 1 .. Len(log') : log'[i].op = "row" /\ log'[i].ctl = Session => log'[i].on
    BY RowsStep, TypeStep DEF RowsInv, OnlyOn, About
  <1>5. Session \in Rw(log', at') <=> \E i \in 1 .. at' : log'[i].op = "row" /\ log'[i].ctl = Session
    BY <1>1, <1>4, RowsOn
  <1>6. Session \in Rw(log', at')
    BY <1>3, <1>5
  <1> QED
    BY <1>6 DEF RowsAt, Rw

\* What a step does to the session cache and to a lookup under way.
FillGo ==
    \/ held' = held /\ fill' = fill
    \/ held' = held /\ fill' = Fenced(fill)
    \/ held' = FALSE /\ fill' \in {fill, Replaced(fill), NoFill}
    \/ FillStart \/ FillRead \/ FillInsert \/ FillRecheck

LEMMA FillStep ==
    ASSUME IInv, Next
    PROVE  FillGo
  <1> USE DEF raft, applying, control, session, bumps, elsewhere
  <1>1. ASSUME NEW w \in Writer, NEW n \in Node, NEW c \in Control, NEW on \in BOOLEAN,
               WriteRow(w, n, c, on)
        PROVE  FillGo
    BY <1>1 DEF FillGo, WriteRow
  <1>2. ASSUME NEW w \in Writer, WriteGivenUp(w) PROVE FillGo
    BY <1>2 DEF FillGo, WriteGivenUp
  <1>3. ASSUME NEW w \in Writer, FenceSession(w) PROVE FillGo
    BY <1>3 DEF FillGo, FenceSession
  <1>4. ASSUME NEW w \in Writer, EvictSession(w) PROVE FillGo
    BY <1>4 DEF FillGo, EvictSession
  <1>5. ASSUME NEW w \in Writer, BumpEpoch(w) PROVE FillGo
    BY <1>5 DEF FillGo, BumpEpoch
  <1>6. ASSUME NEW w \in Writer, BumpFails(w) PROVE FillGo
    BY <1>6 DEF FillGo, BumpFails
  <1>7. ASSUME NEW w \in Writer, Publish(w) PROVE FillGo
    BY <1>7 DEF FillGo, Publish
  <1>8. ASSUME NEW n \in Node, BumpTake(n) PROVE FillGo
    BY <1>8 DEF FillGo, BumpTake
  <1>9. ASSUME NEW n \in Node, BumpCommit(n) PROVE FillGo
    BY <1>9 DEF FillGo, BumpCommit
  <1>10. ASSUME NEW n \in Node, BumpDone(n) PROVE FillGo
    BY <1>10 DEF FillGo, BumpDone
  <1>11. ASSUME NEW n \in Node, BumpError(n) PROVE FillGo
    BY <1>11 DEF FillGo, BumpError
  <1>12. ASSUME NEW n \in Node, BumpRefused(n) PROVE FillGo
    BY <1>12 DEF FillGo, BumpRefused
  <1>13. ASSUME NEW n \in Node, Elect(n) PROVE FillGo
    BY <1>13 DEF FillGo, Elect
  <1>14. ASSUME NEW n \in Node, Restart(n) PROVE FillGo
    BY <1>14 DEF FillGo, Restart
  <1>15. ASSUME Apply PROVE FillGo
    BY <1>15 DEF FillGo, Apply
  <1>16. ASSUME Observe PROVE FillGo
    BY <1>16 DEF FillGo, Observe
  <1>17. ASSUME Wipe PROVE FillGo
    BY <1>17 DEF FillGo, Wipe
  <1>18. ASSUME NEW k \in 1 .. Len(log), Restore(k) PROVE FillGo
    BY <1>18 DEF FillGo, Restore
  <1>19. ASSUME StartReload PROVE FillGo
    BY <1>19 DEF FillGo, StartReload
  <1>20. ASSUME StartReset PROVE FillGo
    BY <1>20 DEF FillGo, StartReset
  <1>21. ASSUME StartRecording PROVE FillGo
    BY <1>21 DEF FillGo, StartRecording
  <1>22. ASSUME Scan PROVE FillGo
    BY <1>22 DEF FillGo, Scan
  <1>23. ASSUME ScanFails PROVE FillGo
    BY <1>23 DEF FillGo, ScanFails
  <1>24. ASSUME Swap PROVE FillGo
    BY <1>24 DEF FillGo, Swap
  <1>25. ASSUME Resignal PROVE FillGo
    BY <1>25 DEF FillGo, Resignal
  <1>26. ASSUME FlushFence PROVE FillGo
    BY <1>26 DEF FillGo, FlushFence
  <1>27. ASSUME FlushStore PROVE FillGo
    BY <1>27 DEF FillGo, FlushStore
  <1>28. ASSUME FillStart PROVE FillGo
    BY <1>28 DEF FillGo
  <1>29. ASSUME FillRead PROVE FillGo
    BY <1>29 DEF FillGo
  <1>30. ASSUME FillInsert PROVE FillGo
    BY <1>30 DEF FillGo
  <1>31. ASSUME FillRecheck PROVE FillGo
    BY <1>31 DEF FillGo
  <1>32. ASSUME LoseLeader PROVE FillGo
    BY <1>32 DEF FillGo, LoseLeader
  <1> QED
    BY <1>1, <1>2, <1>3, <1>4, <1>5, <1>6, <1>7, <1>8, <1>9, <1>10, <1>11, <1>12, <1>13,
       <1>14, <1>15, <1>16, <1>17, <1>18, <1>19, <1>20, <1>21, <1>22, <1>23, <1>24,
       <1>25, <1>26, <1>27, <1>28, <1>29, <1>30, <1>31, <1>32
       DEF Next, Write, Replicate, Reload, Fill, PayBumps

\* A lookup that will notice the revocation goes on to notice it, and one that
\* reads the row now finds the session revoked.
LEMMA NoticedStays ==
    ASSUME IInv, Next, Noticed, Session \in RowsAt(at)
    PROVE  Noticed'
  <1>1. fill \in Lookup
    BY DEF IInv, TypeInv
  <1>2. CASE fill' = fill \/ fill' = Fenced(fill) \/ fill' = Replaced(fill) \/ fill' = NoFill
    BY <1>1, <1>2 DEF Noticed, Fenced, Replaced, NoFill, Lookup
  <1>3. CASE FillStart
    BY <1>3 DEF Noticed, FillStart, NoFill
  <1>4. CASE FillRead
    <2>1. install = "wiped" \/ Session \in Rows
      BY DEF Rows
    <2>2. fill' = NoFill
      BY <1>4, <2>1 DEF FillRead
    <2> QED
      BY <2>2 DEF Noticed, NoFill
  <1>5. CASE FillInsert
    <2>1. fill.moved /\ fill'.moved = fill.moved
      BY <1>1, <1>5 DEF Noticed, FillInsert, Lookup
    <2> QED
      BY <2>1 DEF Noticed
  <1>6. CASE FillRecheck
    BY <1>6 DEF Noticed, FillRecheck, NoFill
  <1> QED
    BY <1>2, <1>3, <1>4, <1>5, <1>6, FillStep DEF FillGo

\* Once gone, the session stays out of the cache, but for a lookup that has
\* inserted it and is about to take it out.
LEMMA GoneStays ==
    ASSUME IInv, Next, Gone
    PROVE  Gone'
  <1>0. Noticed /\ (held => fill.pc = "recheck") /\ Session \in RowsAt(at)
    BY DEF Gone
  <1>1. fill \in Lookup /\ held \in BOOLEAN
    BY DEF IInv, TypeInv
  <1>2. Noticed' /\ (Session \in RowsAt(at))'
    BY <1>0, NoticedStays, RowStays
  <1>3. held' => fill'.pc = "recheck"
    <2>1. CASE held' = held /\ (fill' = fill \/ fill' = Fenced(fill))
      BY <1>0, <1>1, <2>1 DEF Fenced, Lookup
    <2>2. CASE held' = FALSE
      BY <2>2
    <2>3. CASE FillStart
      BY <2>3 DEF FillStart
    <2>4. CASE FillRead
      BY <1>0, <2>4 DEF FillRead
    <2>5. CASE FillInsert
      <3>1. fill.moved
        BY <1>0, <2>5 DEF Noticed, FillInsert
      <3> QED
        BY <1>1, <2>5, <3>1 DEF FillInsert, Lookup
    <2>6. CASE FillRecheck
      BY <1>0, <2>6 DEF FillRecheck, Noticed
    <2> QED
      BY <2>1, <2>2, <2>3, <2>4, <2>5, <2>6, FillStep DEF FillGo
  <1> QED
    BY <1>2, <1>3 DEF Gone

\* How a call gets to the steps the session goes through.
PcGo ==
    \A v \in Writer :
        /\ writer'[v].pc = "evict" => writer'[v] = writer[v] \/ FenceSession(v)
        /\ writer'[v].pc = "bump" => writer'[v] = writer[v] \/ EvictSession(v)
        /\ writer'[v].pc = "bumped" => writer'[v] = writer[v] \/ BumpEpoch(v)

LEMMA PcStep ==
    ASSUME IInv, Next
    PROVE  PcGo
  <1> USE DEF raft, applying, control, session, bumps, elsewhere
  <1>1. ASSUME NEW w \in Writer, NEW n \in Node, NEW c \in Control, NEW on \in BOOLEAN,
               WriteRow(w, n, c, on)
        PROVE  PcGo
    BY <1>1, WriteRowCall DEF PcGo
  <1>2. ASSUME NEW w \in Writer, WriteGivenUp(w) PROVE PcGo
    <2>1. writer[w] \in Call
      BY DEF IInv, TypeInv
    <2>2. writer'[w] = Done(writer[w]) /\ \A v \in Writer \ {w} : writer'[v] = writer[v]
      BY <1>2 DEF IInv, TypeInv, WriteGivenUp
    <2>3. writer'[w].pc = "done"
      BY <2>1, <2>2, DoneCall
    <2> QED
      BY <2>2, <2>3 DEF PcGo
  <1>3. ASSUME NEW w \in Writer, FenceSession(w) PROVE PcGo
    <2>1. writer'[w].pc = "evict" /\ \A v \in Writer \ {w} : writer'[v] = writer[v]
      BY <1>3 DEF IInv, TypeInv, Call, FenceSession
    <2> QED
      BY <1>3, <2>1 DEF PcGo
  <1>4. ASSUME NEW w \in Writer, EvictSession(w) PROVE PcGo
    <2>1. writer'[w].pc = "bump" /\ \A v \in Writer \ {w} : writer'[v] = writer[v]
      BY <1>4 DEF IInv, TypeInv, Call, EvictSession
    <2> QED
      BY <1>4, <2>1 DEF PcGo
  <1>5. ASSUME NEW w \in Writer, BumpEpoch(w) PROVE PcGo
    <2>1. /\ writer'[w].pc \in {"bumped", "done"}
          /\ \A v \in Writer \ {w} : writer'[v] = writer[v]
      BY <1>5, BumpEpochCall
    <2> QED
      BY <1>5, <2>1 DEF PcGo
  <1>6. ASSUME NEW w \in Writer, BumpFails(w) PROVE PcGo
    <2>1. writer[w] \in Call
      BY DEF IInv, TypeInv
    <2>2. writer'[w] = Done(writer[w]) /\ \A v \in Writer \ {w} : writer'[v] = writer[v]
      BY <1>6 DEF IInv, TypeInv, BumpFails
    <2>3. writer'[w].pc = "done"
      BY <2>1, <2>2, DoneCall
    <2> QED
      BY <2>2, <2>3 DEF PcGo
  <1>7. ASSUME NEW w \in Writer, Publish(w) PROVE PcGo
    <2>1. writer[w] \in Call
      BY DEF IInv, TypeInv
    <2>2. writer'[w] = Done(writer[w]) /\ \A v \in Writer \ {w} : writer'[v] = writer[v]
      BY <1>7 DEF IInv, TypeInv, Publish
    <2>3. writer'[w].pc = "done"
      BY <2>1, <2>2, DoneCall
    <2> QED
      BY <2>2, <2>3 DEF PcGo
  <1>8. ASSUME NEW n \in Node, BumpTake(n) PROVE PcGo
    BY <1>8 DEF PcGo, BumpTake
  <1>9. ASSUME NEW n \in Node, BumpCommit(n) PROVE PcGo
    BY <1>9 DEF PcGo, BumpCommit
  <1>10. ASSUME NEW n \in Node, BumpDone(n) PROVE PcGo
    BY <1>10 DEF PcGo, BumpDone
  <1>11. ASSUME NEW n \in Node, BumpError(n) PROVE PcGo
    BY <1>11 DEF PcGo, BumpError
  <1>12. ASSUME NEW n \in Node, BumpRefused(n) PROVE PcGo
    BY <1>12 DEF PcGo, BumpRefused
  <1>13. ASSUME NEW n \in Node, Elect(n) PROVE PcGo
    BY <1>13 DEF PcGo, Elect
  <1>14. ASSUME NEW n \in Node, Restart(n) PROVE PcGo
    <2>1. \A v \in Writer : writer[v] \in Call
      BY DEF IInv, TypeInv
    <2>2. \A v \in Writer : writer'[v] = writer[v] \/ writer'[v] = Done(writer[v])
      BY <1>14 DEF Restart
    <2>3. \A v \in Writer : writer'[v] = writer[v] \/ writer'[v].pc = "done"
      BY <2>1, <2>2, DoneCall
    <2> QED
      BY <2>3 DEF PcGo
  <1>15. ASSUME Apply PROVE PcGo
    BY <1>15 DEF PcGo, Apply
  <1>16. ASSUME Observe PROVE PcGo
    BY <1>16 DEF PcGo, Observe
  <1>17. ASSUME Wipe PROVE PcGo
    BY <1>17 DEF PcGo, Wipe
  <1>18. ASSUME NEW k \in 1 .. Len(log), Restore(k) PROVE PcGo
    BY <1>18 DEF PcGo, Restore
  <1>19. ASSUME StartReload PROVE PcGo
    BY <1>19 DEF PcGo, StartReload
  <1>20. ASSUME StartReset PROVE PcGo
    BY <1>20 DEF PcGo, StartReset
  <1>21. ASSUME StartRecording PROVE PcGo
    BY <1>21 DEF PcGo, StartRecording
  <1>22. ASSUME Scan PROVE PcGo
    BY <1>22 DEF PcGo, Scan
  <1>23. ASSUME ScanFails PROVE PcGo
    BY <1>23 DEF PcGo, ScanFails
  <1>24. ASSUME Swap PROVE PcGo
    BY <1>24 DEF PcGo, Swap
  <1>25. ASSUME Resignal PROVE PcGo
    BY <1>25 DEF PcGo, Resignal
  <1>26. ASSUME FlushFence PROVE PcGo
    BY <1>26 DEF PcGo, FlushFence
  <1>27. ASSUME FlushStore PROVE PcGo
    BY <1>27 DEF PcGo, FlushStore
  <1>28. ASSUME FillStart PROVE PcGo
    BY <1>28 DEF PcGo, FillStart
  <1>29. ASSUME FillRead PROVE PcGo
    BY <1>29 DEF PcGo, FillRead
  <1>30. ASSUME FillInsert PROVE PcGo
    BY <1>30 DEF PcGo, FillInsert
  <1>31. ASSUME FillRecheck PROVE PcGo
    BY <1>31 DEF PcGo, FillRecheck
  <1>32. ASSUME LoseLeader PROVE PcGo
    BY <1>32 DEF PcGo, LoseLeader
  <1> QED
    BY <1>1, <1>2, <1>3, <1>4, <1>5, <1>6, <1>7, <1>8, <1>9, <1>10, <1>11, <1>12, <1>13,
       <1>14, <1>15, <1>16, <1>17, <1>18, <1>19, <1>20, <1>21, <1>22, <1>23, <1>24,
       <1>25, <1>26, <1>27, <1>28, <1>29, <1>30, <1>31, <1>32
       DEF Next, Write, Replicate, Reload, Fill, PayBumps

\* The flush that follows a swap ends with the session gone.
LEMMA LeavingGoes ==
    ASSUME IInv, Next, Leaving, Session \in RowsAt(at)
    PROVE  Leaving' \/ Gone'
  <1> USE DEF raft, applying, control, session, bumps, elsewhere
  <1>a. /\ reload.pc \in {"resignal", "flush", "clear"}
        /\ reload.pc = "clear" => Noticed /\ Noticed'
    BY NoticedStays DEF Leaving
  <1>b. (Session \in RowsAt(at))' /\ (Noticed => Noticed')
    BY RowStays, NoticedStays
  <1>1. ASSUME NEW w \in Writer, NEW n \in Node, NEW c \in Control, NEW on \in BOOLEAN,
               WriteRow(w, n, c, on)
        PROVE  Leaving' \/ Gone'
    BY <1>1, <1>a, <1>b DEF Leaving, WriteRow
  <1>2. ASSUME NEW w \in Writer, WriteGivenUp(w) PROVE Leaving' \/ Gone'
    BY <1>2, <1>a, <1>b DEF Leaving, WriteGivenUp
  <1>3. ASSUME NEW w \in Writer, FenceSession(w) PROVE Leaving' \/ Gone'
    BY <1>3, <1>a, <1>b DEF Leaving, FenceSession
  <1>4. ASSUME NEW w \in Writer, EvictSession(w) PROVE Leaving' \/ Gone'
    BY <1>4, <1>a, <1>b DEF Leaving, EvictSession
  <1>5. ASSUME NEW w \in Writer, BumpEpoch(w) PROVE Leaving' \/ Gone'
    BY <1>5, <1>a, <1>b DEF Leaving, BumpEpoch
  <1>6. ASSUME NEW w \in Writer, BumpFails(w) PROVE Leaving' \/ Gone'
    BY <1>6, <1>a, <1>b DEF Leaving, BumpFails
  <1>7. ASSUME NEW w \in Writer, Publish(w) PROVE Leaving' \/ Gone'
    BY <1>7, <1>a, <1>b DEF Leaving, Publish
  <1>8. ASSUME NEW n \in Node, BumpTake(n) PROVE Leaving' \/ Gone'
    BY <1>8, <1>a, <1>b DEF Leaving, BumpTake
  <1>9. ASSUME NEW n \in Node, BumpCommit(n) PROVE Leaving' \/ Gone'
    BY <1>9, <1>a, <1>b DEF Leaving, BumpCommit
  <1>10. ASSUME NEW n \in Node, BumpDone(n) PROVE Leaving' \/ Gone'
    BY <1>10, <1>a, <1>b DEF Leaving, BumpDone
  <1>11. ASSUME NEW n \in Node, BumpError(n) PROVE Leaving' \/ Gone'
    BY <1>11, <1>a, <1>b DEF Leaving, BumpError
  <1>12. ASSUME NEW n \in Node, BumpRefused(n) PROVE Leaving' \/ Gone'
    BY <1>12, <1>a, <1>b DEF Leaving, BumpRefused
  <1>13. ASSUME NEW n \in Node, Elect(n) PROVE Leaving' \/ Gone'
    BY <1>13, <1>a, <1>b DEF Leaving, Elect
  <1>14. ASSUME NEW n \in Node, Restart(n) PROVE Leaving' \/ Gone'
    <2>1. CASE n = Here
      <3>1. held' = FALSE /\ fill' = NoFill
        BY <1>14, <2>1 DEF Restart
      <3> QED
        BY <1>b, <3>1 DEF Gone, Noticed, NoFill
    <2>2. CASE n # Here
      BY <1>14, <1>a, <1>b, <2>2 DEF Leaving, Restart
    <2> QED
      BY <2>1, <2>2
  <1>15. ASSUME Apply PROVE Leaving' \/ Gone'
    BY <1>15, <1>a, <1>b DEF Leaving, Apply
  <1>16. ASSUME Observe PROVE Leaving' \/ Gone'
    BY <1>16, <1>a, <1>b DEF Leaving, Observe
  <1>17. ASSUME Wipe PROVE Leaving' \/ Gone'
    BY <1>17, <1>a, <1>b DEF Leaving, Wipe
  <1>18. ASSUME NEW k \in 1 .. Len(log), Restore(k) PROVE Leaving' \/ Gone'
    BY <1>18, <1>a, <1>b DEF Leaving, Restore
  <1>19. ASSUME StartReload PROVE Leaving' \/ Gone'
    BY <1>19, <1>a, <1>b DEF Leaving, StartReload
  <1>20. ASSUME StartReset PROVE Leaving' \/ Gone'
    BY <1>20, <1>a, <1>b DEF Leaving, StartReset
  <1>21. ASSUME StartRecording PROVE Leaving' \/ Gone'
    BY <1>21, <1>a, <1>b DEF Leaving, StartRecording
  <1>22. ASSUME Scan PROVE Leaving' \/ Gone'
    BY <1>22, <1>a, <1>b DEF Leaving, Scan
  <1>23. ASSUME ScanFails PROVE Leaving' \/ Gone'
    BY <1>23, <1>a, <1>b DEF Leaving, ScanFails
  <1>24. ASSUME Swap PROVE Leaving' \/ Gone'
    BY <1>24, <1>a, <1>b DEF Leaving, Swap
  <1>25. ASSUME Resignal PROVE Leaving' \/ Gone'
    <2>1. reload'.pc = "flush"
      BY <1>25 DEF IInv, TypeInv, Loads, Resignal
    <2> QED
      BY <2>1 DEF Leaving
  <1>26. ASSUME FlushFence PROVE Leaving' \/ Gone'
    <2>1. reload'.pc = "clear" /\ fill' = Fenced(fill) /\ fill \in Lookup
      BY <1>26 DEF IInv, TypeInv, Loads, FlushFence
    <2>2. Noticed'
      BY <2>1 DEF Noticed, Fenced, Lookup
    <2> QED
      BY <2>1, <2>2 DEF Leaving
  <1>27. ASSUME FlushStore PROVE Leaving' \/ Gone'
    <2>1. held' = FALSE /\ reload.pc = "clear"
      BY <1>27 DEF FlushStore
    <2> QED
      BY <1>a, <1>b, <2>1 DEF Leaving, Gone
  <1>28. ASSUME FillStart PROVE Leaving' \/ Gone'
    BY <1>28, <1>a, <1>b DEF Leaving, FillStart
  <1>29. ASSUME FillRead PROVE Leaving' \/ Gone'
    BY <1>29, <1>a, <1>b DEF Leaving, FillRead
  <1>30. ASSUME FillInsert PROVE Leaving' \/ Gone'
    BY <1>30, <1>a, <1>b DEF Leaving, FillInsert
  <1>31. ASSUME FillRecheck PROVE Leaving' \/ Gone'
    BY <1>31, <1>a, <1>b DEF Leaving, FillRecheck
  <1>32. ASSUME LoseLeader PROVE Leaving' \/ Gone'
    BY <1>32, <1>a, <1>b DEF Leaving, LoseLeader
  <1> QED
    BY <1>1, <1>2, <1>3, <1>4, <1>5, <1>6, <1>7, <1>8, <1>9, <1>10, <1>11, <1>12, <1>13,
       <1>14, <1>15, <1>16, <1>17, <1>18, <1>19, <1>20, <1>21, <1>22, <1>23, <1>24,
       <1>25, <1>26, <1>27, <1>28, <1>29, <1>30, <1>31, <1>32
       DEF Next, Write, Replicate, Reload, Fill, PayBumps

\* How an epoch can become known.
ToldGo(e) ==
    \/ Told(e) \/ Swap \/ Restart(Here)
    \/ \E v \in Writer : Publish(v) /\ writer[v].epoch = e

LEMMA ToldStep ==
    ASSUME IInv, Next, NEW e \in Nat, e > 0, Told(e)',
           bumper[Here].pc = "wait" /\ ~bumper[Here].election => EpochAt(bumper[Here].idx) # e
    PROVE  ToldGo(e)
  <1> USE DEF raft, applying, control, session, bumps, elsewhere
  <1>a. Knows(plane', e) /\ 0 # e
    BY DEF Told, Knows
  <1>1. ASSUME NEW w \in Writer, NEW n \in Node, NEW c \in Control, NEW on \in BOOLEAN,
               WriteRow(w, n, c, on)
        PROVE  ToldGo(e)
    BY <1>1, <1>a DEF WriteRow, Told, ToldGo, Knows
  <1>2. ASSUME NEW w \in Writer, WriteGivenUp(w) PROVE ToldGo(e)
    BY <1>2, <1>a DEF WriteGivenUp, Told, ToldGo, Knows
  <1>3. ASSUME NEW w \in Writer, FenceSession(w) PROVE ToldGo(e)
    BY <1>3, <1>a DEF FenceSession, Told, ToldGo, Knows
  <1>4. ASSUME NEW w \in Writer, EvictSession(w) PROVE ToldGo(e)
    BY <1>4, <1>a DEF EvictSession, Told, ToldGo, Knows
  <1>5. ASSUME NEW w \in Writer, BumpEpoch(w) PROVE ToldGo(e)
    BY <1>5, <1>a DEF BumpEpoch, Told, ToldGo, Knows
  <1>6. ASSUME NEW w \in Writer, BumpFails(w) PROVE ToldGo(e)
    <2>1. CASE writer[w].node = Here
      BY <1>6, <1>a, <2>1, BumpFailsMoves DEF Moved, ToldGo
    <2>2. CASE writer[w].node # Here
      BY <1>6, <1>a, <2>2 DEF BumpFails, Told, ToldGo, Knows
    <2> QED
      BY <2>1, <2>2
  <1>7. ASSUME NEW w \in Writer, Publish(w) PROVE ToldGo(e)
    BY <1>7, <1>a, PublishMoves DEF Moved, ToldGo
  <1>8. ASSUME NEW n \in Node, BumpTake(n) PROVE ToldGo(e)
    BY <1>8, <1>a DEF BumpTake, Told, ToldGo, Knows
  <1>9. ASSUME NEW n \in Node, BumpCommit(n) PROVE ToldGo(e)
    BY <1>9, <1>a DEF BumpCommit, Told, ToldGo, Knows
  <1>10. ASSUME NEW n \in Node, BumpDone(n) PROVE ToldGo(e)
    <2>1. /\ n = Here /\ bumper[Here].pc = "wait"
          /\ Moved(plane', plane.ops, EpochAt(bumper[Here].idx))
      BY <1>10, BumpDoneMoves
    <2>2. CASE bumper[Here].election
      BY <1>10, <1>a, <2>1, <2>2 DEF BumpDone, Told, ToldGo, Knows
    <2>3. CASE ~bumper[Here].election
      BY <1>a, <2>1, <2>3 DEF Moved, ToldGo
    <2> QED
      BY <2>2, <2>3
  <1>11. ASSUME NEW n \in Node, BumpError(n) PROVE ToldGo(e)
    BY <1>11, <1>a DEF BumpError, Told, ToldGo, Knows
  <1>12. ASSUME NEW n \in Node, BumpRefused(n) PROVE ToldGo(e)
    BY <1>12, <1>a DEF BumpRefused, Told, ToldGo, Knows
  <1>13. ASSUME NEW n \in Node, Elect(n) PROVE ToldGo(e)
    BY <1>13, <1>a DEF Elect, Told, ToldGo, Knows
  <1>14. ASSUME NEW n \in Node, Restart(n) PROVE ToldGo(e)
    <2>1. CASE n = Here
      BY <1>14, <2>1 DEF ToldGo
    <2>2. CASE n # Here
      BY <1>14, <1>a, <2>2 DEF Restart, Told, ToldGo, Knows
    <2> QED
      BY <2>1, <2>2
  <1>15. ASSUME Apply PROVE ToldGo(e)
    BY <1>15, <1>a DEF Apply, Told, ToldGo, Knows
  <1>16. ASSUME Observe PROVE ToldGo(e)
    BY <1>16, <1>a, ObserveMoves DEF Moved, ToldGo
  <1>17. ASSUME Wipe PROVE ToldGo(e)
    BY <1>17, <1>a DEF Wipe, Told, ToldGo, Knows
  <1>18. ASSUME NEW k \in 1 .. Len(log), Restore(k) PROVE ToldGo(e)
    BY <1>18, <1>a DEF Restore, Told, ToldGo, Knows
  <1>19. ASSUME StartReload PROVE ToldGo(e)
    <2>1. plane'.applied = plane.applied /\ plane'.parked = plane.parked
      BY <1>19 DEF IInv, TypeInv, Plane, StartReload
    <2> QED
      BY <1>a, <2>1 DEF Told, ToldGo, Knows
  <1>20. ASSUME StartReset PROVE ToldGo(e)
    BY <1>20, <1>a DEF StartReset, Told, ToldGo, Knows
  <1>21. ASSUME StartRecording PROVE ToldGo(e)
    <2>1. plane'.applied = plane.applied /\ plane'.parked = plane.parked
      BY <1>21 DEF IInv, TypeInv, Plane, StartRecording
    <2> QED
      BY <1>a, <2>1 DEF Told, ToldGo, Knows
  <1>22. ASSUME Scan PROVE ToldGo(e)
    BY <1>22, <1>a DEF Scan, Told, ToldGo, Knows
  <1>23. ASSUME ScanFails PROVE ToldGo(e)
    <2>1. plane'.applied = plane.applied /\ plane'.parked = plane.parked
      BY <1>23 DEF IInv, TypeInv, Plane, ScanFails
    <2> QED
      BY <1>a, <2>1 DEF Told, ToldGo, Knows
  <1>24. ASSUME Swap PROVE ToldGo(e)
    BY <1>24 DEF ToldGo
  <1>25. ASSUME Resignal PROVE ToldGo(e)
    BY <1>25, <1>a, ResignalMoves DEF Told, ToldGo, Knows
  <1>26. ASSUME FlushFence PROVE ToldGo(e)
    BY <1>26, <1>a DEF FlushFence, Told, ToldGo, Knows
  <1>27. ASSUME FlushStore PROVE ToldGo(e)
    BY <1>27, <1>a DEF FlushStore, Told, ToldGo, Knows
  <1>28. ASSUME FillStart PROVE ToldGo(e)
    BY <1>28, <1>a DEF FillStart, Told, ToldGo, Knows
  <1>29. ASSUME FillRead PROVE ToldGo(e)
    BY <1>29, <1>a DEF FillRead, Told, ToldGo, Knows
  <1>30. ASSUME FillInsert PROVE ToldGo(e)
    BY <1>30, <1>a DEF FillInsert, Told, ToldGo, Knows
  <1>31. ASSUME FillRecheck PROVE ToldGo(e)
    BY <1>31, <1>a DEF FillRecheck, Told, ToldGo, Knows
  <1>32. ASSUME LoseLeader PROVE ToldGo(e)
    BY <1>32, <1>a DEF LoseLeader, Told, ToldGo, Knows
  <1> QED
    BY <1>1, <1>2, <1>3, <1>4, <1>5, <1>6, <1>7, <1>8, <1>9, <1>10, <1>11, <1>12, <1>13,
       <1>14, <1>15, <1>16, <1>17, <1>18, <1>19, <1>20, <1>21, <1>22, <1>23, <1>24,
       <1>25, <1>26, <1>27, <1>28, <1>29, <1>30, <1>31, <1>32
       DEF Next, Write, Replicate, Reload, Fill, PayBumps

\* The third part of SessionOK: what the node has been told of, it has evicted or
\* is about to.
LEMMA SessionGo ==
    ASSUME IInv, Next, NEW e \in Nat, e > 0, Told(e)',
           bumper[Here].pc = "wait" => EpochAt(bumper[Here].idx) # e,
           \A v \in Writer : writer[v].epoch = e => writer[v].ctl = Session,
           NEW j \in 1 .. Len(log), About(Session, j), EpochAt(j) < e,
           Told(e) => Gone \/ Leaving
    PROVE  Gone' \/ Leaving'
  <1>1. /\ Session \in Control /\ OnlyOn(Session) /\ at \in 0 .. Len(log)
        /\ EpochAt(j) \in Nat /\ EpochAt(at) \in Nat
        /\ plane.applied \in Nat /\ plane.parked \subseteq Nat
    BY EpochOrder, ControlAssumption DEF IInv, TypeInv, RowsInv, Plane
  <1>2. e <= EpochAt(at) => Session \in RowsAt(at)
    <2>1. e <= EpochAt(at) => EpochAt(j) < EpochAt(at)
      BY <1>1
    <2> QED
      BY <1>1, <2>1, RowReached DEF IInv
  <1>3. CASE Told(e)
    <2>1. e <= EpochAt(at)
      BY <1>1, <1>3 DEF Told, IInv, EpochInv
    <2> QED
      BY <1>2, <1>3, <2>1, GoneStays, LeavingGoes
  <1>4. CASE Swap
    <2>1. reload'.pc \in {"resignal", "flush"}
      BY <1>4 DEF IInv, TypeInv, Loads, Swap
    <2> QED
      BY <2>1 DEF Leaving
  <1>5. CASE Restart(Here)
    <2>1. /\ held' = FALSE /\ fill' = NoFill
          /\ plane'.applied = EpochAt(at) /\ plane'.parked = {}
      BY <1>5 DEF Restart, FreshPlane
    <2>2. e <= EpochAt(at)
      BY <2>1 DEF Told
    <2>3. (Session \in RowsAt(at))'
      BY <1>2, <2>2, RowStays
    <2> QED
      BY <2>1, <2>3 DEF Gone, Noticed, NoFill
  <1>6. ASSUME NEW v \in Writer, Publish(v), writer[v].epoch = e PROVE Gone'
    <2>1. writer[v].pc = "bumped" /\ writer[v].ctl = Session
      BY <1>6 DEF Publish
    <2>2. Gone
      BY <2>1 DEF IInv, SessionInv, SessionOK
    <2> QED
      BY <2>2, GoneStays
  <1> QED
    BY <1>3, <1>4, <1>5, <1>6, ToldStep DEF ToldGo

LEMMA SessionStep ==
    ASSUME IInv, Next
    PROVE  SessionInv'
  <1> SUFFICES ASSUME NEW w \in Writer, writer'[w].ctl = Session
               PROVE  SessionOK(w)'
    BY DEF SessionInv
  <1>0. Session \in Control /\ OnlyOn(Session) /\ at \in 0 .. Len(log) /\ fill \in Lookup
    BY ControlAssumption DEF IInv, RowsInv, TypeInv
  <1>1. ASSUME writer[w].pc \in {"evict", "bump"}, writer[w].ctl = Session
        PROVE  Session \in RowsAt(at)
    <2>1. PICK j \in 1 .. Len(log) : log[j] = Row(writer[w].ctl, writer[w].on) /\ j <= at
      BY <1>1 DEF IInv, CallInv, CallOK
    <2>2. About(Session, j)
      BY <1>1, <2>1 DEF About, Row
    <2> QED
      BY <1>0, <2>1, <2>2, RowReached DEF IInv
  <1>2. ASSUME writer'[w].pc = "evict" PROVE Noticed'
    <2>1. CASE writer'[w] = writer[w]
      <3>1. Noticed /\ Session \in RowsAt(at)
        BY <1>1, <1>2, <2>1 DEF IInv, SessionInv, SessionOK
      <3> QED
        BY <3>1, NoticedStays
    <2>2. CASE FenceSession(w)
      <3>1. fill' = Fenced(fill)
        BY <2>2 DEF FenceSession
      <3> QED
        BY <1>0, <3>1 DEF Noticed, Fenced, Lookup
    <2> QED
      BY <1>2, <2>1, <2>2, PcStep DEF PcGo
  <1>3. ASSUME writer'[w].pc \in {"bump", "bumped"} PROVE Gone'
    <2>1. CASE writer'[w] = writer[w]
      <3>1. Gone
        BY <1>3, <2>1 DEF IInv, SessionInv, SessionOK
      <3> QED
        BY <3>1, GoneStays
    <2>2. CASE EvictSession(w)
      <3>1. writer[w].pc = "evict" /\ held' = FALSE
        BY <2>2 DEF EvictSession
      <3>2. writer[w].ctl = Session
        BY <3>1 DEF IInv, CallInv, CallOK, EvictsHere
      <3>3. Noticed /\ Session \in RowsAt(at)
        BY <1>1, <3>1, <3>2 DEF IInv, SessionInv, SessionOK
      <3>4. Noticed' /\ (Session \in RowsAt(at))'
        BY <3>3, NoticedStays, RowStays
      <3> QED
        BY <3>1, <3>4 DEF Gone
    <2>3. CASE BumpEpoch(w)
      <3>1. writer[w].ctl = Session /\ writer[w].pc \in {"row", "bump"} /\ writer[w].node = Here
        BY <1>3, <2>3, BumpEpochCall
      <3>2. writer[w].pc = "bump"
        BY <2>3, <3>1 DEF BumpEpoch, AboutToBump, EvictsHere
      <3>3. Gone
        BY <3>1, <3>2 DEF IInv, SessionInv, SessionOK
      <3> QED
        BY <3>3, GoneStays
    <2> QED
      BY <1>3, <2>1, <2>2, <2>3, PcStep DEF PcGo
  <1>4. ASSUME writer'[w].epoch > 0, Told(writer[w].epoch)' PROVE Gone' \/ Leaving'
    <2>1. PICK e : e = writer'[w].epoch
      OBVIOUS
    <2>2. e \in Nat /\ e > 0 /\ Told(e)'
      <3>1. e \in Nat
        BY <2>1, TypeStep DEF TypeInv, Call
      <3> QED
        BY <1>4, <2>1, <3>1 DEF Told
    <2>3. CASE BumpEpoch(w)
      <3>0. at \in Nat /\ Len(log) \in Nat /\ at <= Len(log) /\ TypeInv
        BY DEF IInv, TypeInv
      <3>1. /\ e = EpochAt(Len(log)) + 1 /\ EpochAt(at) <= EpochAt(Len(log))
            /\ EpochAt(at) \in Nat /\ EpochAt(Len(log)) \in Nat
        BY <2>1, <2>3, <3>0, BumpEpochCall, EpochOrder
      <3>2. plane' = plane
        BY <2>3 DEF BumpEpoch, control
      <3>3. plane.applied \in Nat /\ plane.parked \subseteq Nat
        BY DEF IInv, TypeInv, Plane
      <3>4. ~ (e <= plane.applied) /\ e \notin plane.parked
        BY <3>1, <3>3 DEF IInv, EpochInv
      <3> QED
        BY <2>2, <3>2, <3>4 DEF Told
    <2>4. CASE writer'[w].epoch = writer[w].epoch /\ writer'[w].ctl = writer[w].ctl
      <3>1. PICK j \in 1 .. Len(log) :
               log[j] = Row(writer[w].ctl, writer[w].on) /\ EpochAt(j) < writer[w].epoch
        BY <2>1, <2>2, <2>4 DEF IInv, BumpInv
      <3>2. About(Session, j) /\ EpochAt(j) < e
        BY <2>1, <2>4, <3>1 DEF About, Row
      <3>3. /\ \A v \in Writer : writer[v].epoch = e => writer[v].ctl = Session
            /\ bumper[Here].pc = "wait" => EpochAt(bumper[Here].idx) # e
        BY <2>1, <2>2, <2>4 DEF IInv, BumpInv
      <3>4. Told(e) => Gone \/ Leaving
        BY <2>1, <2>2, <2>4 DEF IInv, SessionInv, SessionOK
      <3> QED
        BY <2>2, <3>2, <3>3, <3>4, SessionGo
    <2> QED
      BY <1>4, <2>3, <2>4, EpochCall
  <1> QED
    BY <1>2, <1>3, <1>4 DEF SessionOK

-----------------------------------------------------------------------------
(* The theorems.                                                           *)

LEMMA InitInv == Init => IInv
  <1> SUFFICES ASSUME Init PROVE IInv
    OBVIOUS
  <1>1. /\ log = <<>> /\ Len(log) = 0 /\ at = 0 /\ plane = FreshPlane(0) /\ reload = NoReload
        /\ fill = NoFill /\ bumper = [n \in Node |-> NoBump]
        /\ writer = [w \in Writer |-> NoWrite] /\ install = "no"
    BY DEF Init
  <1>2. /\ plane.ops = <<>> /\ Len(plane.ops) = 0 /\ plane.applied = 0 /\ plane.parked = {}
        /\ plane.recording = FALSE /\ plane.force = FALSE /\ plane.reset = FALSE
        /\ reload.pc = "idle" /\ reload.reset = FALSE /\ reload.epoch = 0
    BY <1>1 DEF FreshPlane, NoReload
  <1>3. \A w \in Writer : writer[w].pc = "idle" /\ writer[w].epoch = 0
    BY <1>1 DEF NoWrite
  <1>4. TypeInv
    <2>1. plane \in Plane
      <3>1. <<>> \in Seq(RowCommand)
        OBVIOUS
      <3> QED
        BY <1>1, <3>1 DEF Plane, FreshPlane
    <2>2. reload \in Loads /\ fill \in Lookup
      BY <1>1 DEF Loads, Lookup, NoReload, NoFill
    <2>3. bumper \in [Node -> Bumper]
      BY <1>1 DEF Bumper, NoBump
    <2>4. writer \in [Writer -> Call]
      BY <1>1, ControlAssumption DEF Call, NoWrite
    <2>5. log \in Seq(Command) /\ at <= Len(log) /\ seen <= at /\ at \in Nat /\ seen \in Nat
      BY <1>1 DEF Init
    <2> QED
      BY <2>1, <2>2, <2>3, <2>4, <2>5 DEF TypeInv, Init
  <1>5. EpochAt(at) \in Nat
    BY <1>1, <1>4, EpochOrder
  <1>6. EpochInv
    BY <1>2, <1>5 DEF EpochInv
  <1>7. RowsInv
    BY <1>1, <1>2, <1>3 DEF RowsInv, OnlyOn
  <1>8. CallInv
    BY <1>3 DEF CallInv, CallOK
  <1>9. BumpInv
    <2>1. \A n \in Node : bumper[n].pc = "idle"
      BY <1>1 DEF NoBump
    <2> QED
      BY <1>3, <2>1, ControlAssumption DEF BumpInv
  <1>10. ReloadInv
    BY <1>2 DEF ReloadInv
  <1>11. CoverInv /\ SessionInv
    BY <1>3 DEF CoverInv, SessionInv, SessionOK
  <1> QED
    BY <1>4, <1>6, <1>7, <1>8, <1>9, <1>10, <1>11 DEF IInv

LEMMA Stutters == IInv /\ UNCHANGED vars => IInv'
  <1> SUFFICES ASSUME IInv, UNCHANGED vars PROVE IInv'
    OBVIOUS
  <1> USE DEF vars
  <1>1. TypeInv'
    BY DEF IInv, TypeInv
  <1>2. RowsInv'
    BY DEF IInv, RowsInv, OnlyOn, About
  <1>3. CallInv'
    BY DEF IInv, CallInv, CallOK, EvictsHere, EpochAt
  <1>4. BumpInv'
    BY DEF IInv, BumpInv, EpochAt
  <1>5. EpochInv' /\ ReloadInv'
    BY DEF IInv, EpochInv, ReloadInv, EpochAt
  <1>6. CoverInv'
    BY DEF IInv, CoverInv, Covers, OnlyOn, About, Told, Rebasing, Sound
  <1>7. SessionInv'
    BY DEF IInv, SessionInv, SessionOK, Gone, Leaving, Noticed, Told, RowsAt
  <1> QED
    BY <1>1, <1>2, <1>3, <1>4, <1>5, <1>6, <1>7 DEF IInv

LEMMA StepInv == IInv /\ [Next]_vars => IInv'
  <1>1. IInv /\ Next => IInv'
    BY TypeStep, RowsStep, CallInvStep, BumpStep, EpochStep, ReloadStep, CoverStep, SessionStep
       DEF IInv
  <1> QED
    BY <1>1, Stutters

\* Every step of the control plane keeps the invariant: the counters of the
\* node followed never run ahead of its storage, an epoch is that of one bump,
\* and what an epoch is known to cover the caches hold and go on holding.
THEOREM Invariance == Spec => []IInv
  <1>1. Init => IInv
    BY InitInv
  <1>2. IInv /\ [Next]_vars => IInv'
    BY StepInv
  <1> QED
    BY <1>1, <1>2, PTL DEF Spec

\* The log says of a control what its last write says, if all its writes agree.
LEMMA FinalOn ==
    ASSUME IInv, NEW w \in Writer, Final(w)
    PROVE  writer[w].on /\ OnlyOn(writer[w].ctl)
  <1>1. writer[w].pc # "idle"
    <2>1. writer[w].epoch > 0
      BY DEF Final
    <2> QED
      BY <2>1 DEF IInv, CallInv, CallOK
  <1>2. ASSUME NEW j \in 1 .. Len(log), About(writer[w].ctl, j)
        PROVE  log[j].on = writer[w].on
    <2>1. PICK v \in Writer : writer[v].pc # "idle" /\ log[j] = Row(writer[v].ctl, writer[v].on)
      BY <1>2 DEF IInv, RowsInv, About
    <2>2. writer[v].ctl = writer[w].ctl /\ log[j].on = writer[v].on
      BY <1>2, <2>1 DEF About, Row
    <2>3. writer[v].on = writer[w].on
      BY <2>1, <2>2 DEF Final
    <2> QED
      BY <2>2, <2>3
  <1>3. writer[w].on
    <2>1. PICK j \in 1 .. Len(log) : log[j] = Row(writer[w].ctl, writer[w].on)
      BY <1>1 DEF IInv, RowsInv
    <2>2. log[j].op = "row" /\ log[j].ctl = writer[w].ctl
      BY <2>1 DEF Row
    <2>3. PICK i \in 1 .. Len(log) : About(log[j].ctl, i) /\ log[i].on
      BY <2>2 DEF IInv, RowsInv
    <2> QED
      BY <1>2, <2>2, <2>3
  <1> QED
    BY <1>2, <1>3 DEF OnlyOn

\* A node whose applied epoch has reached the epoch of a control's last write
\* enforces that control, for any nodes, controls and concurrent writes, and
\* through any reloads, projections, failed bumps, snapshots and restarts.
THEOREM AppliedIsCovered == Spec => []AppliedCovered
  <1>1. IInv => AppliedCovered
    <2> SUFFICES ASSUME IInv, NEW w \in Writer, Final(w), writer[w].ctl # Session,
                        plane.applied >= writer[w].epoch, ~Rebasing
                 PROVE  (writer[w].ctl \in cache) = writer[w].on
      BY DEF AppliedCovered
    <2>1. writer[w].on /\ OnlyOn(writer[w].ctl) /\ writer[w].epoch > 0
      BY FinalOn DEF Final
    <2>2. writer[w].epoch \in Nat /\ plane.applied \in Nat /\ writer[w].on \in BOOLEAN
      BY DEF IInv, TypeInv, Call, Plane
    <2>3. Told(writer[w].epoch)
      BY <2>2 DEF Told
    <2>4. writer[w].ctl \in cache
      BY <2>1, <2>3 DEF IInv, CoverInv, Covers
    <2> QED
      BY <2>1, <2>2, <2>4
  <1> QED
    BY <1>1, Invariance, PTL

\* Once a node's applied epoch has reached a revocation's, and its reload has
\* flushed, the session is out of its cache and no lookup brings it back.
THEOREM SessionsEvicted == Spec => []SessionEvicted
  <1>1. IInv => SessionEvicted
    <2> SUFFICES ASSUME IInv, NEW w \in Writer, Final(w), writer[w].ctl = Session,
                        plane.applied >= writer[w].epoch, ~Rebasing,
                        reload.pc \notin {"flush", "clear"}, fill.pc # "recheck"
                 PROVE  ~held
      BY DEF SessionEvicted
    <2>1. writer[w].epoch > 0 /\ writer[w].epoch \in Nat /\ plane.applied \in Nat
      BY DEF IInv, TypeInv, Call, Plane, Final
    <2>2. Told(writer[w].epoch)
      BY <2>1 DEF Told
    <2>3. Gone \/ Leaving
      BY <2>1, <2>2 DEF IInv, SessionInv, SessionOK
    <2>4. ~Leaving
      BY DEF Leaving, Rebasing, IInv, ReloadInv
    <2> QED
      BY <2>3, <2>4 DEF Gone
  <1> QED
    BY <1>1, Invariance, PTL

-----------------------------------------------------------------------------
(***************************************************************************)
(* CachesInStep: when nothing is left to do, the caches agree with the     *)
(* rows.  What the invariant above says of the epochs a write got is not   *)
(* enough: a bump may be owed, paid by the bump thread, or forgotten for   *)
(* want of a leader.  JInv says of every control what still stands between *)
(* it and the caches of Here.                                              *)
(***************************************************************************)

(* The inductive invariant of the caches.                                  *)

\* The rows of the whole log.
Latest == RowsAt(Len(log))

\* While a write is under way and nothing excuses its control, its row is the
\* last one of the control, and no other write of it is under way.
SoleOK(w) ==
    /\ writer[w].on <=> writer[w].ctl \in Latest
    /\ \A k \in 1 .. Len(log) : About(writer[w].ctl, k) => k <= writer[w].idx
    /\ \A v \in Writer \ {w} : Active(v) => writer[v].ctl # writer[w].ctl

SoleInv == \A w \in Writer : Active(w) /\ writer[w].ctl \notin excused => SoleOK(w)

\* Of the rows of c in s, the last one agrees with V.
LastOp(c, s, V) ==
    \A i \in 1 .. Len(s) :
        s[i].ctl = c /\ (\A k \in i + 1 .. Len(s) : s[k].ctl # c) => (s[i].on <=> c \in V)

\* The caches agree with V about c, and will when a rebuild ends.
Firm(c, V) ==
    /\ ~Rebasing => (c \in cache <=> c \in V)
    /\ reload.reset /\ Sound /\ reload.pc \in {"resignal", "flush", "clear"}
       => (c \in cache <=> c \in V)

\* Once the node has been told of epoch e its caches agree with V about c, and
\* the swap of a reload that has read epoch e leaves them so.
Holds(c, e, V) ==
    /\ Told(e) => Firm(c, V)
    /\ (Told(e) \/ e <= reload.epoch) /\ reload.pc \in {"scan", "swap"}
       => LastOp(c, plane.ops, V)
    /\ (Told(e) \/ e <= reload.epoch) /\ reload.pc = "swap" /\ Sound
       => (c \in After(reload.scan, plane.ops) <=> c \in V)

\* No bump of Here that is still to be recorded has epoch e.
Free(e) ==
    e > 0 =>
        /\ \A w \in Writer : writer[w].pc = "bumped" => writer[w].epoch # e
        /\ bumper[Here].pc = "wait" /\ ~bumper[Here].election
           => EpochAt(bumper[Here].idx) # e

\* The rows of c that Here has not applied are in front of the bump of epoch e.
Behind(c, e) == \A k \in 1 .. Len(log) : About(c, k) => k <= at \/ EpochAt(k) < e

\* Epoch e brings the caches of Here in step with the rows of c.
Brings(c, e) ==
    /\ Free(e) /\ Behind(c, e)
    /\ c # Session => Holds(c, e, Latest)
    /\ c = Session /\ Session \in Latest /\ Told(e) => Gone \/ Leaving

Sheltered(c) == \E e \in 0 .. EpochAt(Len(log)) : Brings(c, e)

\* A write of c is under way; another node owes a bump for c.
Under(c) == \E w \in Writer : Active(w) /\ writer[w].ctl = c

Owes(c) == \E n \in Node \ {Here} : \E w \in owed[n] : writer[w].ctl = c

\* No leader, or one whose election bump has not been committed.
Interregnum ==
    \/ leader = Nobody
    \/ due[leader]
    \/ bumper[leader].pc = "try" /\ bumper[leader].election

DebtInv ==
    \A c \in Control \ excused : Under(c) \/ Owes(c) \/ Interregnum \/ Sheltered(c)

\* How far Here has been told of the log; an install tells it all at once.
Reached == IF install = "no" THEN seen ELSE at

\* Every bump Here has been told of is applied, or makes it reload.
Heard ==
    \/ plane.force \/ reload.pc = "resignal"
    \/ EpochAt(Reached) <= plane.applied \/ EpochAt(Reached) <= plane.target
    \/ /\ reload.forced /\ reload.pc \in {"record", "scan", "swap"}
       /\ EpochAt(Reached) <= reload.epoch

SignalInv ==
    /\ install = "no" => at <= seen + 1
    /\ reload.pc = "idle" => reload.by = "thread"
    /\ Sound => Heard

OwedInv == \A n \in Node : \A w \in owed[n] : writer[w].pc # "idle"

\* Sessions have a cache of their own.
ApartInv ==
    /\ Session \notin cache /\ Session \notin reload.scan
    /\ \A i \in 1 .. Len(plane.ops) : plane.ops[i].ctl # Session

JInv ==
    /\ IInv /\ SoleInv /\ DebtInv /\ SignalInv /\ OwedInv /\ ApartInv

-----------------------------------------------------------------------------
(* What rows put in force: the last one about a control decides.           *)

LEMMA AfterLast ==
    ASSUME NEW S, NEW s, NEW n \in Nat, Len(s) = n, NEW c \in Control
    PROVE  \/ /\ \A i \in 1 .. n : ~ (s[i].op = "row" /\ s[i].ctl = c)
              /\ c \in After(S, s) <=> c \in S
           \/ \E m \in 1 .. n :
                 /\ s[m].op = "row" /\ s[m].ctl = c /\ (c \in After(S, s) <=> s[m].on)
                 /\ \A i \in m + 1 .. n : ~ (s[i].op = "row" /\ s[i].ctl = c)
  <1> DEFINE about == {i \in 1 .. Len(s) : s[i].op = "row" /\ s[i].ctl = c}
  <1>1. c \in After(S, s) <=> IF about = {} THEN c \in S ELSE s[Max(about)].on
    BY DEF After
  <1>2. about \in SUBSET Nat /\ \A x \in about : x <= n
    OBVIOUS
  <1>3. about # {} => Max(about) \in about /\ \A y \in about : y <= Max(about)
    BY <1>2, MaxOf
  <1>4. CASE about = {}
    BY <1>1, <1>4
  <1>5. CASE about # {}
    <2>1. PICK m : m = Max(about)
      OBVIOUS
    <2>2. m \in 1 .. n /\ s[m].op = "row" /\ s[m].ctl = c /\ \A y \in about : y <= m
      BY <1>3, <1>5, <2>1
    <2>3. c \in After(S, s) <=> s[m].on
      BY <1>1, <1>5, <2>1
    <2>4. ASSUME NEW i \in m + 1 .. n PROVE ~ (s[i].op = "row" /\ s[i].ctl = c)
      <3>1. i \in 1 .. n /\ ~ (i <= m)
        BY <2>2
      <3> QED
        BY <2>2, <3>1
    <2> QED
      BY <2>2, <2>3, <2>4
  <1> QED
    BY <1>4, <1>5

\* A row more decides if it is about c.
LEMMA AfterAppend ==
    ASSUME NEW S, NEW s \in Seq(RowCommand), NEW cmd \in RowCommand, NEW c \in Control
    PROVE  /\ cmd.ctl = c => (c \in After(S, Append(s, cmd)) <=> cmd.on)
           /\ cmd.ctl # c => (c \in After(S, Append(s, cmd)) <=> c \in After(S, s))
  <1>0. PICK n \in Nat : n = Len(s)
    OBVIOUS
  <1>1. PICK t : t = Append(s, cmd) /\ n = Len(s)
    BY <1>0
  <1>2. Len(t) = n + 1 /\ t[n + 1] = cmd /\ \A i \in 1 .. n : t[i] = s[i]
    BY <1>1
  <1>3. cmd.op = "row" /\ n + 1 \in Nat /\ n + 1 \in 1 .. n + 1
    BY DEF RowCommand
  <1>4. \/ /\ \A i \in 1 .. n + 1 : ~ (t[i].op = "row" /\ t[i].ctl = c)
           /\ c \in After(S, t) <=> c \in S
        \/ \E m \in 1 .. n + 1 :
              /\ t[m].op = "row" /\ t[m].ctl = c /\ (c \in After(S, t) <=> t[m].on)
              /\ \A i \in m + 1 .. n + 1 : ~ (t[i].op = "row" /\ t[i].ctl = c)
    BY <1>2, <1>3, AfterLast
  <1>5. CASE cmd.ctl = c
    <2>1. PICK m \in 1 .. n + 1 :
             /\ t[m].op = "row" /\ t[m].ctl = c /\ (c \in After(S, t) <=> t[m].on)
             /\ \A i \in m + 1 .. n + 1 : ~ (t[i].op = "row" /\ t[i].ctl = c)
      BY <1>2, <1>3, <1>4, <1>5
    <2>2. m = n + 1
      <3>1. m # n + 1 => n + 1 \in m + 1 .. n + 1
        OBVIOUS
      <3> QED
        BY <1>2, <1>3, <1>5, <2>1, <3>1
    <2> QED
      BY <1>1, <1>2, <1>5, <2>1, <2>2
  <1>6. CASE cmd.ctl # c
    <2>1. \/ /\ \A i \in 1 .. n : ~ (s[i].op = "row" /\ s[i].ctl = c)
             /\ c \in After(S, s) <=> c \in S
          \/ \E m \in 1 .. n :
                /\ s[m].op = "row" /\ s[m].ctl = c /\ (c \in After(S, s) <=> s[m].on)
                /\ \A i \in m + 1 .. n : ~ (s[i].op = "row" /\ s[i].ctl = c)
      BY <1>1, AfterLast
    <2>2. CASE \A i \in 1 .. n : ~ (s[i].op = "row" /\ s[i].ctl = c)
      <3>1. c \in After(S, s) <=> c \in S
        BY <2>1, <2>2
      <3>2. \A i \in 1 .. n + 1 : ~ (t[i].op = "row" /\ t[i].ctl = c)
        <4>1. \A i \in 1 .. n + 1 : i = n + 1 \/ i \in 1 .. n
          OBVIOUS
        <4> QED
          BY <1>2, <1>6, <2>2, <4>1
      <3>3. c \in After(S, t) <=> c \in S
        BY <1>4, <3>2
      <3> QED
        BY <1>1, <1>6, <3>1, <3>3
    <2>3. ASSUME NEW m \in 1 .. n, s[m].op = "row", s[m].ctl = c,
                 c \in After(S, s) <=> s[m].on,
                 \A i \in m + 1 .. n : ~ (s[i].op = "row" /\ s[i].ctl = c)
          PROVE  c \in After(S, t) <=> c \in After(S, s)
      <3>1. t[m] = s[m] /\ m \in 1 .. n + 1
        BY <1>2
      <3>2. PICK k \in 1 .. n + 1 :
               /\ t[k].op = "row" /\ t[k].ctl = c /\ (c \in After(S, t) <=> t[k].on)
               /\ \A i \in k + 1 .. n + 1 : ~ (t[i].op = "row" /\ t[i].ctl = c)
        BY <1>4, <2>3, <3>1
      <3>3. k \in 1 .. n
        <4>1. k # n + 1
          BY <1>2, <1>6, <3>2
        <4> QED
          BY <4>1
      <3>4. t[k] = s[k] /\ ~ (k \in m + 1 .. n)
        BY <1>2, <2>3, <3>2, <3>3
      <3>5. ~ (m \in k + 1 .. n + 1)
        BY <2>3, <3>1, <3>2
      <3>6. k = m
        BY <3>3, <3>4, <3>5
      <3> QED
        BY <2>3, <3>1, <3>2, <3>6
    <2> QED
      BY <1>1, <1>6, <2>1, <2>2, <2>3
  <1> QED
    BY <1>5, <1>6

LEMMA CachedLast ==
    ASSUME NEW S, NEW cmd \in RowCommand, NEW c \in Control \ {Session}
    PROVE  /\ cmd.ctl = c => (c \in Cached(S, cmd) <=> cmd.on)
           /\ cmd.ctl # c => (c \in Cached(S, cmd) <=> c \in S)
  <1>1. PICK s : s = <<cmd>>
    OBVIOUS
  <1>2. PICK n \in Nat : n = 1
    OBVIOUS
  <1>3. Len(s) = n /\ s[1] = cmd /\ cmd.op = "row" /\ 1 .. n = {1}
    BY <1>1, <1>2 DEF RowCommand
  <1>4. \/ /\ \A i \in 1 .. n : ~ (s[i].op = "row" /\ s[i].ctl = c)
           /\ c \in After(S, s) <=> c \in S
        \/ \E m \in 1 .. n :
              /\ s[m].op = "row" /\ s[m].ctl = c /\ (c \in After(S, s) <=> s[m].on)
              /\ \A i \in m + 1 .. n : ~ (s[i].op = "row" /\ s[i].ctl = c)
    BY <1>3, AfterLast
  <1>5. CASE cmd.ctl = Session
    BY <1>5 DEF Cached
  <1>6. CASE cmd.ctl # Session
    BY <1>1, <1>3, <1>4, <1>6 DEF Cached
  <1> QED
    BY <1>5, <1>6

\* The rows of a longer prefix are the same for a control no later entry is about.
LEMMA RwSame ==
    ASSUME NEW l \in Seq(Command), NEW m \in Seq(Command), NEW i \in 0 .. Len(l),
           NEW j \in i .. Len(m), NEW c \in Control,
           \A k \in 1 .. i : m[k] = l[k],
           \A k \in i + 1 .. j : ~ (m[k].op = "row" /\ m[k].ctl = c)
    PROVE  c \in Rw(m, j) <=> c \in Rw(l, i)
  <1>1. PICK s, t : s = SubSeq(l, 1, i) /\ t = SubSeq(m, 1, j)
    OBVIOUS
  <1>2. /\ i \in Nat /\ Len(s) = i /\ \A k \in 1 .. i : s[k] = l[k]
        /\ j \in Nat /\ Len(t) = j /\ \A k \in 1 .. j : t[k] = m[k]
    BY <1>1
  <1> DEFINE A == {k \in 1 .. Len(s) : s[k].op = "row" /\ s[k].ctl = c}
             B == {k \in 1 .. Len(t) : t[k].op = "row" /\ t[k].ctl = c}
  <1>3. \A k \in 1 .. j : k \in 1 .. i \/ k \in i + 1 .. j
    BY <1>2
  <1>4. \A k \in 1 .. i : k \in 1 .. j
    BY <1>2
  <1>5. A = B
    BY <1>2, <1>3, <1>4
  <1>6. \A x \in A : t[x] = s[x]
    BY <1>2, <1>4
  <1>7. A # {} => Max(A) \in A
    <2>1. A \in SUBSET Nat /\ \A x \in A : x <= i
      BY <1>2
    <2> QED
      BY <1>2, <2>1, MaxOf
  <1>8. c \in After({}, s) <=> IF A = {} THEN FALSE ELSE s[Max(A)].on
    BY DEF After
  <1>9. c \in After({}, t) <=> IF B = {} THEN FALSE ELSE t[Max(B)].on
    BY DEF After
  <1> HIDE DEF A, B
  <1>10. c \in After({}, t) <=> c \in After({}, s)
    BY <1>5, <1>6, <1>7, <1>8, <1>9
  <1> QED
    BY <1>1, <1>10 DEF Rw

\* The last entry decides if it is about c.
LEMMA RwLast ==
    ASSUME NEW l \in Seq(Command), NEW i \in 1 .. Len(l), NEW c \in Control,
           l[i].op = "row", l[i].ctl = c
    PROVE  c \in Rw(l, i) <=> l[i].on
  <1>1. PICK s : s = SubSeq(l, 1, i)
    OBVIOUS
  <1>2. i \in Nat /\ Len(s) = i /\ \A k \in 1 .. i : s[k] = l[k]
    BY <1>1
  <1>3. \/ /\ \A k \in 1 .. i : ~ (s[k].op = "row" /\ s[k].ctl = c)
           /\ c \in After({}, s) <=> c \in {}
        \/ \E m \in 1 .. i :
              /\ s[m].op = "row" /\ s[m].ctl = c /\ (c \in After({}, s) <=> s[m].on)
              /\ \A k \in m + 1 .. i : ~ (s[k].op = "row" /\ s[k].ctl = c)
    BY <1>2, AfterLast
  <1>4. i \in 1 .. i /\ s[i].op = "row" /\ s[i].ctl = c
    BY <1>2
  <1>5. PICK m \in 1 .. i :
           /\ s[m].op = "row" /\ s[m].ctl = c /\ (c \in After({}, s) <=> s[m].on)
           /\ \A k \in m + 1 .. i : ~ (s[k].op = "row" /\ s[k].ctl = c)
    BY <1>3, <1>4
  <1>6. m = i
    <2>1. m # i => i \in m + 1 .. i
      OBVIOUS
    <2> QED
      BY <1>4, <1>5, <2>1
  <1> QED
    BY <1>1, <1>2, <1>5, <1>6 DEF Rw

-----------------------------------------------------------------------------
(* The journal and the caches agree with the rows about one control.       *)

LEMMA LastOpAppend ==
    ASSUME NEW s \in Seq(RowCommand), NEW cmd \in RowCommand, NEW c, NEW V,
           cmd.ctl = c => (cmd.on <=> c \in V), LastOp(c, s, V) \/ cmd.ctl = c
    PROVE  LastOp(c, Append(s, cmd), V)
  <1>0. PICK n \in Nat : n = Len(s)
    OBVIOUS
  <1>1. PICK t : t = Append(s, cmd)
    OBVIOUS
  <1>2. Len(t) = n + 1 /\ t[n + 1] = cmd /\ \A i \in 1 .. n : t[i] = s[i]
    BY <1>0, <1>1
  <1>3. ASSUME NEW i \in 1 .. n + 1, t[i].ctl = c, \A k \in i + 1 .. n + 1 : t[k].ctl # c
        PROVE  t[i].on <=> c \in V
    <2>1. CASE i = n + 1
      BY <1>2, <1>3, <2>1
    <2>2. CASE i # n + 1
      <3>1. i \in 1 .. n /\ n + 1 \in i + 1 .. n + 1 /\ \A k \in i + 1 .. n : k \in i + 1 .. n + 1 /\ k \in 1 .. n
        BY <2>2
      <3>2. cmd.ctl # c
        BY <1>2, <1>3, <3>1
      <3>3. t[i] = s[i] /\ \A k \in i + 1 .. n : s[k].ctl # c
        BY <1>2, <1>3, <3>1
      <3> QED
        BY <1>0, <1>3, <3>1, <3>2, <3>3 DEF LastOp
    <2> QED
      BY <2>1, <2>2
  <1> QED
    BY <1>1, <1>2, <1>3 DEF LastOp

\* A journal whose last row of c agrees, replayed onto a set that agrees.
LEMMA LastOpAfter ==
    ASSUME NEW s \in Seq(RowCommand), NEW c \in Control, NEW S, NEW V,
           LastOp(c, s, V), c \in S <=> c \in V
    PROVE  c \in After(S, s) <=> c \in V
  <1>1. PICK n \in Nat : n = Len(s)
    OBVIOUS
  <1>2. \A i \in 1 .. n : s[i].op = "row"
    <2>1. \A i \in 1 .. n : s[i] \in RowCommand
      BY <1>1
    <2> QED
      BY <2>1 DEF RowCommand
  <1>3. \/ /\ \A i \in 1 .. n : ~ (s[i].op = "row" /\ s[i].ctl = c)
           /\ c \in After(S, s) <=> c \in S
        \/ \E m \in 1 .. n :
              /\ s[m].op = "row" /\ s[m].ctl = c /\ (c \in After(S, s) <=> s[m].on)
              /\ \A i \in m + 1 .. n : ~ (s[i].op = "row" /\ s[i].ctl = c)
    BY <1>1, AfterLast
  <1>4. ASSUME NEW m \in 1 .. n, s[m].ctl = c, c \in After(S, s) <=> s[m].on,
               \A i \in m + 1 .. n : ~ (s[i].op = "row" /\ s[i].ctl = c)
        PROVE  c \in After(S, s) <=> c \in V
    <2>1. \A i \in m + 1 .. n : s[i].ctl # c
      <3>1. \A i \in m + 1 .. n : i \in 1 .. n
        OBVIOUS
      <3> QED
        BY <1>2, <1>4, <3>1
    <2> QED
      BY <1>1, <1>4, <2>1 DEF LastOp
  <1> QED
    BY <1>3, <1>4

LEMMA LastOpEmpty == ASSUME NEW c, NEW V PROVE LastOp(c, <<>>, V)
  <1>1. Len(<<>>) = 0
    OBVIOUS
  <1> QED
    BY <1>1 DEF LastOp

\* Once the storage of Here has reached epoch e, it has every row of c.
LEMMA BehindRows ==
    ASSUME IInv, NEW c \in Control, NEW e \in Nat, Behind(c, e), e <= EpochAt(at)
    PROVE  /\ c \in RowsAt(at) <=> c \in Latest
           /\ at \in 1 .. Len(log) /\ About(c, at) => (log[at].on <=> c \in Latest)
  <1>1. log \in Seq(Command) /\ at \in 0 .. Len(log) /\ at \in Nat /\ Len(log) \in Nat
    BY DEF IInv, TypeInv
  <1>2. ASSUME NEW k \in at + 1 .. Len(log) PROVE ~About(c, k)
    <2>1. k \in 1 .. Len(log) /\ k \in Nat /\ ~ (k <= at) /\ at <= k
      BY <1>1
    <2>2. EpochAt(at) <= EpochAt(k) /\ EpochAt(at) \in Nat /\ EpochAt(k) \in Nat
      BY <1>1, <2>1, EpochOrder DEF IInv
    <2> QED
      BY <2>1, <2>2 DEF Behind
  <1>3. /\ \A k \in at + 1 .. Len(log) : ~ (log[k].op = "row" /\ log[k].ctl = c)
        /\ Len(log) \in at .. Len(log)
    BY <1>1, <1>2 DEF About
  <1>4. c \in Rw(log, Len(log)) <=> c \in Rw(log, at)
    BY <1>1, <1>3, RwSame
  <1>5. at \in 1 .. Len(log) /\ About(c, at) => (c \in Rw(log, at) <=> log[at].on)
    BY <1>1, RwLast DEF About
  <1> QED
    BY <1>4, <1>5 DEF Latest, RowsAt, Rw

\* An epoch Here has been told of, or read, its storage has reached.
LEMMA ToldReached ==
    ASSUME IInv, NEW e \in Nat, Told(e) \/ e <= reload.epoch
    PROVE  e <= EpochAt(at)
  <1>1. plane.applied \in Nat /\ reload.epoch \in Nat /\ EpochAt(at) \in Nat
    BY EpochOrder DEF IInv, TypeInv, Plane, Loads
  <1> QED
    BY <1>1 DEF Told, IInv, EpochInv

\* What brings c in step, apart from writes of c under way.
Kept(c, e, V) ==
    /\ c \in Control \ {Session} /\ e \in Nat /\ Free(e) /\ Holds(c, e, V)
    /\ e <= EpochAt(at) =>
          /\ c \in RowsAt(at) <=> c \in V
          /\ at \in 1 .. Len(log) /\ About(c, at) => (log[at].on <=> c \in V)

LEMMA HoldsQuiet ==
    ASSUME NEW c, NEW e, NEW V, Holds(c, e, V), UNCHANGED <<install, plane, cache, reload>>
    PROVE  Holds(c, e, V)'
  BY DEF Holds, Firm, Told, Rebasing, Sound

\* A step that records an epoch other than e.
LEMMA HoldsMove ==
    ASSUME NEW c, NEW e \in Nat, NEW V, Holds(c, e, V), NEW x, e > 0 => x # e,
           Moved(plane', plane.ops, x), plane.applied \in Nat, UNCHANGED <<install, cache, reload>>
    PROVE  Holds(c, e, V)'
  <1>1. Told(e)' => Told(e)
    BY DEF Moved, Knows, Told
  <1>2. plane'.reset = plane.reset /\ plane'.ops = plane.ops
    BY DEF Moved
  <1> QED
    BY <1>1, <1>2 DEF Holds, Firm, Rebasing, Sound

\* A step that applies a row, in agreement with V if it is about c.
LEMMA HoldsApply ==
    ASSUME IInv, NEW c \in Control \ {Session}, NEW e \in Nat, NEW V, NEW x, e > 0 => x # e,
           NEW cmd \in RowCommand, cmd.ctl = c /\ (Told(e) \/ e <= reload.epoch) => (cmd.on <=> c \in V),
           Moved(plane', OpsWith(cmd), x), cache' = Cached(cache, cmd),
           UNCHANGED <<install, reload>>, Holds(c, e, V)
    PROVE  Holds(c, e, V)'
  <1>0. plane.applied \in Nat /\ plane.ops \in Seq(RowCommand)
    BY DEF IInv, TypeInv, Plane
  <1>1. Told(e)' => Told(e)
    BY <1>0 DEF Moved, Knows, Told
  <1>2. plane'.reset = plane.reset /\ plane'.ops = OpsWith(cmd)
    BY DEF Moved
  <1>3. cmd.ctl # c => (c \in cache' <=> c \in cache)
    BY CachedLast
  <1>4. cmd.ctl = c => (c \in cache' <=> cmd.on)
    BY CachedLast
  <1>5. Told(e) => Firm(c, V)'
    BY <1>2, <1>3, <1>4 DEF Holds, Firm, Rebasing, Sound
  <1>6. ASSUME Told(e) \/ e <= reload.epoch, reload.pc \in {"scan", "swap"}
        PROVE  LastOp(c, plane'.ops, V)
    <2>1. LastOp(c, plane.ops, V)
      BY <1>6 DEF Holds
    <2>2. LastOp(c, Append(plane.ops, cmd), V)
      BY <1>0, <1>6, <2>1, LastOpAppend
    <2> QED
      BY <1>2, <2>1, <2>2 DEF OpsWith
  <1>7. ASSUME Told(e) \/ e <= reload.epoch, reload.pc = "swap", Sound
        PROVE  c \in After(reload.scan, plane'.ops) <=> c \in V
    <2>1. c \in After(reload.scan, plane.ops) <=> c \in V
      BY <1>7 DEF Holds
    <2>2. c \in After(reload.scan, Append(plane.ops, cmd)) <=> c \in V
      BY <1>0, <1>7, <2>1, AfterAppend
    <2> QED
      BY <1>2, <2>1, <2>2 DEF OpsWith
  <1>8. Sound' <=> Sound
    BY DEF Sound
  <1> QED
    BY <1>1, <1>5, <1>6, <1>7, <1>8 DEF Holds

\* The caches go on agreeing with V about c, whatever a step does, unless it is
\* one of a write of c: epoch e becomes known through a reload that has read V.
LEMMA HoldsGo ==
    ASSUME IInv, Next, NEW c, NEW e, NEW V, Kept(c, e, V),
           \A w \in Writer : Active(w) => writer[w].ctl # c
    PROVE  Holds(c, e, V)'
  <1> USE DEF raft, applying, control, session, bumps, elsewhere
  <1>a. c \in Control \ {Session} /\ e \in Nat /\ Free(e) /\ Holds(c, e, V)
    BY DEF Kept
  <1>b. plane.applied \in Nat /\ plane.ops \in Seq(RowCommand)
    BY DEF IInv, TypeInv, Plane
  <1>c. Told(e) \/ e <= reload.epoch => e <= EpochAt(at)
    BY <1>a, ToldReached
  <1>1. ASSUME NEW w \in Writer, NEW n \in Node, NEW d \in Control, NEW on \in BOOLEAN,
               WriteRow(w, n, d, on)
        PROVE  Holds(c, e, V)'
    BY <1>1, <1>a, HoldsQuiet DEF WriteRow
  <1>2. ASSUME NEW w \in Writer, WriteGivenUp(w) PROVE Holds(c, e, V)'
    BY <1>2, <1>a, HoldsQuiet DEF WriteGivenUp
  <1>3. ASSUME NEW w \in Writer, FenceSession(w) PROVE Holds(c, e, V)'
    BY <1>3, <1>a, HoldsQuiet DEF FenceSession
  <1>4. ASSUME NEW w \in Writer, EvictSession(w) PROVE Holds(c, e, V)'
    BY <1>4, <1>a, HoldsQuiet DEF EvictSession
  <1>5. ASSUME NEW w \in Writer, BumpEpoch(w) PROVE Holds(c, e, V)'
    BY <1>5, <1>a, HoldsQuiet DEF BumpEpoch
  <1>6. ASSUME NEW w \in Writer, BumpFails(w) PROVE Holds(c, e, V)'
    <2>1. CASE writer[w].node = Here
      <3>0. writer[w].pc # "idle" /\ Active(w)
        BY <1>6 DEF BumpFails, AboutToBump, Active
      <3>1. PICK j \in 1 .. Len(log) : log[j] = Row(writer[w].ctl, writer[w].on)
        BY <3>0, RowLogged
      <3>2. log[j] \in RowCommand /\ Moved(plane', OpsWith(log[j]), 0)
        BY <1>6, <2>1, <3>0, <3>1, RowLogged, BumpFailsMoves
      <3>3. cache' = Cached(cache, log[j]) /\ UNCHANGED <<install, reload>>
        BY <1>6, <2>1, <3>1 DEF BumpFails, ApplyHere
      <3>4. log[j].ctl # c
        BY <3>0, <3>1 DEF Row
      <3>5. e > 0 => 0 # e
        BY <1>a
      <3> QED
        BY <1>a, <3>2, <3>3, <3>4, <3>5, HoldsApply
    <2>2. CASE writer[w].node # Here
      BY <1>6, <1>a, <2>2, HoldsQuiet DEF BumpFails
    <2> QED
      BY <2>1, <2>2
  <1>7. ASSUME NEW w \in Writer, Publish(w) PROVE Holds(c, e, V)'
    <2>0. writer[w].pc = "bumped" /\ Active(w)
      BY <1>7 DEF Publish, Active
    <2>1. PICK j \in 1 .. Len(log) : log[j] = Row(writer[w].ctl, writer[w].on)
      BY <2>0, RowLogged
    <2>2. log[j] \in RowCommand /\ Moved(plane', OpsWith(log[j]), writer[w].epoch)
      BY <1>7, <2>0, <2>1, RowLogged, PublishMoves
    <2>3. cache' = Cached(cache, log[j]) /\ UNCHANGED <<install, reload>>
      BY <1>7, <2>1 DEF Publish, ApplyHere
    <2>4. log[j].ctl # c
      BY <2>0, <2>1 DEF Row
    <2>5. e > 0 => writer[w].epoch # e
      BY <1>a, <2>0 DEF Free
    <2> QED
      BY <1>a, <2>2, <2>3, <2>4, <2>5, HoldsApply
  <1>8. ASSUME NEW n \in Node, BumpTake(n) PROVE Holds(c, e, V)'
    BY <1>8, <1>a, HoldsQuiet DEF BumpTake
  <1>9. ASSUME NEW n \in Node, BumpCommit(n) PROVE Holds(c, e, V)'
    BY <1>9, <1>a, HoldsQuiet DEF BumpCommit
  <1>10. ASSUME NEW n \in Node, BumpDone(n) PROVE Holds(c, e, V)'
    <2>1. /\ n = Here /\ bumper[Here].pc = "wait"
          /\ Moved(plane', plane.ops, EpochAt(bumper[Here].idx))
          /\ UNCHANGED <<install, cache, reload>>
      BY <1>10, BumpDoneMoves DEF BumpDone
    <2>2. CASE bumper[Here].election
      <3>1. plane' = plane
        BY <1>10, <2>1, <2>2 DEF BumpDone
      <3> QED
        BY <1>a, <2>1, <3>1, HoldsQuiet
    <2>3. CASE ~bumper[Here].election
      <3>1. e > 0 => EpochAt(bumper[Here].idx) # e
        BY <1>a, <2>1, <2>3 DEF Free
      <3> QED
        BY <1>a, <1>b, <2>1, <3>1, HoldsMove
    <2> QED
      BY <2>2, <2>3
  <1>11. ASSUME NEW n \in Node, BumpError(n) PROVE Holds(c, e, V)'
    BY <1>11, <1>a, HoldsQuiet DEF BumpError
  <1>12. ASSUME NEW n \in Node, BumpRefused(n) PROVE Holds(c, e, V)'
    BY <1>12, <1>a, HoldsQuiet DEF BumpRefused
  <1>13. ASSUME NEW n \in Node, Elect(n) PROVE Holds(c, e, V)'
    BY <1>13, <1>a, HoldsQuiet DEF Elect
  <1>14. ASSUME NEW n \in Node, Restart(n) PROVE Holds(c, e, V)'
    <2>1. CASE n # Here
      BY <1>14, <1>a, <2>1, HoldsQuiet DEF Restart
    <2>2. CASE n = Here
      <3>1. /\ cache' = RowsAt(at) \ {Session} /\ reload'.pc = "idle"
            /\ plane'.applied = EpochAt(at) /\ plane'.parked = {}
        BY <1>14, <2>2 DEF Restart, NoReload, FreshPlane
      <3>2. ASSUME e <= EpochAt(at) PROVE c \in cache' <=> c \in V
        BY <1>a, <3>1, <3>2 DEF Kept
      <3> QED
        BY <3>1, <3>2 DEF Holds, Firm, Told
    <2> QED
      BY <2>1, <2>2
  <1>15. ASSUME Apply PROVE Holds(c, e, V)'
    BY <1>15, <1>a, HoldsQuiet DEF Apply
  <1>16. ASSUME Observe PROVE Holds(c, e, V)'
    <2>1. at \in 1 .. Len(log) /\ UNCHANGED <<install, reload>>
      BY <1>16, ObserveMoves DEF Observe
    <2>2. CASE log[at].op = "bump" /\ Moved(plane', plane.ops, 0) /\ cache' = cache
      BY <1>a, <1>b, <2>1, <2>2, HoldsMove
    <2>3. CASE /\ log[at] \in RowCommand /\ log[at].op = "row" /\ Moved(plane', OpsWith(log[at]), 0)
               /\ cache' = Cached(cache, log[at])
      <3>1. log[at].ctl = c /\ (Told(e) \/ e <= reload.epoch) => (log[at].on <=> c \in V)
        BY <1>a, <1>c, <2>1, <2>3 DEF Kept, About
      <3>2. e > 0 => 0 # e
        BY <1>a
      <3> QED
        BY <1>a, <2>1, <2>3, <3>1, <3>2, HoldsApply
    <2> QED
      BY <1>16, <2>2, <2>3, ObserveMoves
  <1>17. ASSUME Wipe PROVE Holds(c, e, V)'
    BY <1>17, <1>a DEF Wipe, Holds, Firm, Told, Rebasing, Sound
  <1>18. ASSUME NEW k \in 1 .. Len(log), Restore(k) PROVE Holds(c, e, V)'
    BY <1>18, <1>a DEF Restore, Holds, Firm, Told, Rebasing, Sound
  <1>19. ASSUME StartReload PROVE Holds(c, e, V)'
    <2>1. /\ reload.pc = "idle" /\ plane \in Plane /\ ~ reload.reset
          /\ reload' = Loading("thread", plane.force, plane.force /\ plane.reset)
      BY <1>19 DEF IInv, TypeInv, ReloadInv, StartReload
    <2>2. reload'.pc = "record" /\ reload'.reset = (plane.force /\ plane.reset)
      BY <2>1 DEF Loading
    <2>3. /\ plane'.reset = (plane.reset /\ ~plane.force) /\ plane'.applied = plane.applied
          /\ plane'.parked = plane.parked /\ install' = install /\ cache' = cache
      BY <1>19, <2>1 DEF StartReload, Plane
    <2> QED
      BY <1>a, <2>1, <2>2, <2>3 DEF Holds, Firm, Told, Rebasing
  <1>20. ASSUME StartReset PROVE Holds(c, e, V)'
    BY <1>20 DEF StartReset, Loading, Holds, Firm, Rebasing
  <1>21. ASSUME StartRecording PROVE Holds(c, e, V)'
    <2>1. /\ reload'.pc = "scan" /\ reload'.reset = reload.reset /\ plane'.ops = <<>>
          /\ plane'.reset = plane.reset /\ plane'.applied = plane.applied
          /\ plane'.parked = plane.parked /\ install' = install /\ cache' = cache
      BY <1>21 DEF IInv, TypeInv, Loads, Plane, StartRecording
    <2>2. LastOp(c, plane'.ops, V)
      BY <2>1, LastOpEmpty
    <2>3. Told(e)' <=> Told(e)
      BY <2>1 DEF Told
    <2>4. Firm(c, V) => Firm(c, V)'
      BY <2>1 DEF Firm, Rebasing
    <2> QED
      BY <1>a, <2>1, <2>2, <2>3, <2>4 DEF Holds
  <1>22. ASSUME Scan PROVE Holds(c, e, V)'
    <2>1. /\ reload'.pc = "swap" /\ reload'.reset = reload.reset /\ reload'.by = reload.by
          /\ reload'.scan = Rows \ {Session} /\ reload'.epoch = reload.epoch
          /\ plane' = plane /\ install' = install /\ cache' = cache /\ reload.pc = "scan"
      BY <1>22 DEF IInv, TypeInv, Loads, Scan
    <2>2. ASSUME Told(e) \/ e <= reload.epoch, Sound
          PROVE  c \in After(reload'.scan, plane.ops) <=> c \in V
      <3>1. install # "wiped"
        BY <2>1, <2>2 DEF Sound, IInv, ReloadInv
      <3>2. c \in reload'.scan <=> c \in V
        BY <1>a, <1>c, <2>1, <2>2, <3>1 DEF Rows, Kept
      <3>3. LastOp(c, plane.ops, V)
        BY <1>a, <2>1, <2>2 DEF Holds
      <3> QED
        BY <1>a, <1>b, <3>2, <3>3, LastOpAfter
    <2>3. Firm(c, V) => Firm(c, V)'
      BY <2>1 DEF Firm, Rebasing
    <2> QED
      BY <1>a, <2>1, <2>2, <2>3 DEF Holds, Told, Sound
  <1>23. ASSUME ScanFails PROVE Holds(c, e, V)'
    <2>1. /\ reload.pc = "scan" /\ reload'.pc = "idle" /\ cache' = cache
          /\ plane'.applied = plane.applied /\ plane'.parked = plane.parked
          /\ plane'.reset = (plane.reset \/ reload.reset)
          /\ install' = IF reload.by = "install" THEN "no" ELSE install
      BY <1>23 DEF IInv, TypeInv, Plane, ScanFails, EndReload, NoReload
    <2>2. ~Rebasing' => ~Rebasing
      BY <2>1 DEF Rebasing, IInv, ReloadInv
    <2> QED
      BY <1>a, <2>1, <2>2 DEF Holds, Firm, Told
  <1>24. ASSUME Swap PROVE Holds(c, e, V)'
    <2>1. /\ reload.pc = "swap" /\ cache' = After(reload.scan, plane.ops)
          /\ reload'.pc = (IF reload.reset THEN "resignal" ELSE "flush")
          /\ reload'.reset = reload.reset /\ reload'.by = reload.by /\ install' = install
      BY <1>24 DEF IInv, TypeInv, Loads, Swap
    <2>2. Told(e)' => Told(e) \/ e <= reload.epoch
      BY <1>24, <1>a, SwapMoves DEF Told, Knows
    <2>3. Told(e)' /\ Sound => (c \in cache' <=> c \in V)
      BY <1>a, <2>1, <2>2 DEF Holds
    <2> QED
      BY <2>1, <2>3 DEF Holds, Firm, Rebasing, Sound
  <1>25. ASSUME Resignal PROVE Holds(c, e, V)'
    <2>1. /\ reload.pc = "resignal" /\ reload'.pc = "flush" /\ reload'.reset = reload.reset
          /\ reload'.by = reload.by /\ install' = install /\ cache' = cache
      BY <1>25 DEF IInv, TypeInv, Loads, Resignal
    <2>2. plane'.applied = plane.applied /\ plane'.parked = plane.parked /\ (plane.reset => plane'.reset)
      BY <1>25, ResignalMoves
    <2> QED
      BY <1>a, <2>1, <2>2 DEF Holds, Firm, Told, Rebasing, Sound
  <1>26. ASSUME FlushFence PROVE Holds(c, e, V)'
    <2>1. /\ reload.pc = "flush" /\ reload'.pc = "clear" /\ reload'.reset = reload.reset
          /\ reload'.by = reload.by /\ install' = install /\ cache' = cache /\ plane' = plane
      BY <1>26 DEF IInv, TypeInv, Loads, FlushFence
    <2> QED
      BY <1>a, <2>1 DEF Holds, Firm, Told, Rebasing, Sound
  <1>27. ASSUME FlushStore PROVE Holds(c, e, V)'
    <2>1. /\ reload.pc = "clear" /\ reload'.pc = "idle" /\ cache' = cache /\ plane' = plane
          /\ install' = IF reload.by = "install" THEN "no" ELSE install
      BY <1>27 DEF FlushStore, EndReload, NoReload
    <2>2. ASSUME Told(e), ~Rebasing' PROVE c \in cache <=> c \in V
      <3>0. Firm(c, V)
        BY <1>a, <2>2 DEF Holds
      <3>1. Sound
        BY <2>1, <2>2 DEF Rebasing, Sound
      <3>2. CASE reload.reset
        BY <2>1, <3>0, <3>1, <3>2 DEF Firm
      <3>3. CASE ~ reload.reset
        <4>1. reload.by # "install"
          BY <2>1, <3>3 DEF IInv, ReloadInv
        <4>2. ~ Rebasing
          BY <2>1, <2>2, <3>3, <4>1 DEF Rebasing
        <4> QED
          BY <3>0, <4>2 DEF Firm
      <3> QED
        BY <3>2, <3>3
    <2> QED
      BY <2>1, <2>2 DEF Holds, Firm, Told
  <1>28. ASSUME FillStart PROVE Holds(c, e, V)'
    BY <1>28, <1>a, HoldsQuiet DEF FillStart
  <1>29. ASSUME FillRead PROVE Holds(c, e, V)'
    BY <1>29, <1>a, HoldsQuiet DEF FillRead
  <1>30. ASSUME FillInsert PROVE Holds(c, e, V)'
    BY <1>30, <1>a, HoldsQuiet DEF FillInsert
  <1>31. ASSUME FillRecheck PROVE Holds(c, e, V)'
    BY <1>31, <1>a, HoldsQuiet DEF FillRecheck
  <1>32. ASSUME LoseLeader PROVE Holds(c, e, V)'
    BY <1>32, <1>a, HoldsQuiet DEF LoseLeader
  <1> QED
    BY <1>1, <1>2, <1>3, <1>4, <1>5, <1>6, <1>7, <1>8, <1>9, <1>10, <1>11, <1>12, <1>13,
       <1>14, <1>15, <1>16, <1>17, <1>18, <1>19, <1>20, <1>21, <1>22, <1>23, <1>24,
       <1>25, <1>26, <1>27, <1>28, <1>29, <1>30, <1>31, <1>32
       DEF Next, Write, Replicate, Reload, Fill, PayBumps

-----------------------------------------------------------------------------
(* Epochs, old and new.                                                    *)

\* A step that begins no write of c leaves the rows of c as they are.
Spares(c) == \A w \in Writer, n \in Node, on \in BOOLEAN : ~WriteRow(w, n, c, on)

LEMMA NoNewRow ==
    ASSUME IInv, Next, NEW c \in Control, Spares(c), NEW k \in 1 .. Len(log'), About(c, k)'
    PROVE  k \in 1 .. Len(log) /\ About(c, k)
  <1>1. PICK m \in Nat : m = Len(log)
    BY DEF IInv, TypeInv
  <1>2. log \in Seq(Command)
    BY DEF IInv, TypeInv
  <1>3. k \in 1 .. m => k \in 1 .. Len(log) /\ About(c, k)
    BY <1>1, Grows
  <1>4. ASSUME NEW x, log' = Append(log, x), ~ (x.op = "row" /\ x.ctl = c) PROVE k \in 1 .. m
    <2>1. Len(log') = m + 1 /\ log'[m + 1] = x
      BY <1>1, <1>2, <1>4
    <2>2. k = m + 1 \/ k \in 1 .. m
      BY <2>1
    <2> QED
      BY <1>4, <2>1, <2>2 DEF About
  <1>5. CASE log' = log
    BY <1>1, <1>3, <1>5
  <1>6. CASE log' = Append(log, Bump)
    <2>1. Bump.op # "row"
      BY DEF Bump
    <2> QED
      BY <1>3, <1>4, <1>6, <2>1
  <1>7. ASSUME NEW w \in Writer, NEW n \in Node, NEW d \in Control, NEW on \in BOOLEAN,
               WriteRow(w, n, d, on)
        PROVE  k \in 1 .. m
    <2>1. d # c
      BY <1>7 DEF Spares
    <2>2. log' = Append(log, Row(d, on)) /\ Row(d, on).ctl = d
      BY <1>7 DEF WriteRow, Row
    <2> QED
      BY <1>4, <2>1, <2>2
  <1> QED
    BY <1>3, <1>5, <1>6, <1>7, LogStep DEF Begins

LEMMA LatestStep ==
    ASSUME IInv, Next, NEW c \in Control, Spares(c)
    PROVE  (c \in Latest)' <=> c \in Latest
  <1>1. PICK i \in Nat : i = Len(log)
    BY DEF IInv, TypeInv
  <1>2. PICK j \in Nat : j = Len(log')
    BY Grows
  <1>3. /\ log \in Seq(Command) /\ log' \in Seq(Command) /\ i \in 0 .. Len(log) /\ j \in i .. Len(log')
        /\ \A k \in 1 .. i : log'[k] = log[k]
    BY <1>1, <1>2, Grows, TypeStep DEF IInv, TypeInv
  <1>4. ASSUME NEW k \in i + 1 .. j PROVE ~ (log'[k].op = "row" /\ log'[k].ctl = c)
    <2>1. k \in 1 .. Len(log') /\ k \notin 1 .. Len(log)
      BY <1>1, <1>2
    <2>2. ~ About(c, k)'
      BY <2>1, NoNewRow
    <2> QED
      BY <2>2 DEF About
  <1>5. c \in Rw(log', j) <=> c \in Rw(log, i)
    BY <1>3, <1>4, RwSame
  <1> QED
    BY <1>1, <1>2, <1>5 DEF Latest, RowsAt, Rw

LEMMA BehindStep ==
    ASSUME IInv, Next, NEW c \in Control, NEW e \in Nat, Spares(c), Behind(c, e)
    PROVE  Behind(c, e)'
  <1>1. at \in Nat /\ at' \in Nat /\ at <= at' /\ Len(log) \in Nat
    BY LogStep, TypeStep DEF IInv, TypeInv
  <1>2. ASSUME NEW k \in 1 .. Len(log'), About(c, k)' PROVE k <= at' \/ EpochAt(k)' < e
    <2>1. k \in 1 .. Len(log) /\ About(c, k)
      BY <1>2, NoNewRow
    <2>2. k <= at \/ EpochAt(k) < e
      BY <2>1 DEF Behind
    <2>3. k \in 0 .. Len(log)
      BY <1>1, <2>1
    <2>4. EpochAt(k)' = EpochAt(k)
      BY <2>3, Grows, EpIs, EpNew
    <2> QED
      BY <1>1, <2>1, <2>2, <2>4
  <1> QED
    BY <1>2 DEF Behind

LEMMA EpochGrows ==
    ASSUME IInv, Next
    PROVE  /\ EpochAt(Len(log)) \in Nat /\ EpochAt(Len(log))' \in Nat
           /\ EpochAt(Len(log)) <= EpochAt(Len(log))'
  <1>1. PICK i \in Nat : i = Len(log)
    BY DEF IInv, TypeInv
  <1>2. PICK j \in Nat : j = Len(log')
    BY Grows
  <1>3. i <= j /\ i \in 0 .. Len(log)
    BY <1>1, <1>2, Grows
  <1>4. Ep(log', i) = Ep(log, i) /\ Ep(log', i) <= Ep(log', j) /\ Ep(log, i) \in Nat /\ Ep(log', j) \in Nat
    BY <1>3, Grows, EpMono, EpFinite
  <1>5. EpochAt(Len(log)) = Ep(log, i)
    BY <1>1, EpIs
  <1>6. EpochAt(Len(log))' = Ep(log', j)
    BY <1>2 DEF EpochAt, Ep, BumpsIn
  <1> QED
    BY <1>4, <1>5, <1>6

\* An epoch that was not to be recorded is not to be recorded later: a new bump
\* has a new epoch.
LEMMA FreeStep ==
    ASSUME IInv, Next, NEW e \in Nat, e <= EpochAt(Len(log)), Free(e)
    PROVE  Free(e)'
  <1>0. /\ EpochAt(Len(log)) \in Nat /\ Here \in Node /\ TypeInv /\ Len(log) \in Nat
    BY EpochGrows, ControlAssumption DEF IInv, TypeInv
  <1>1. ASSUME e > 0, NEW w \in Writer, writer'[w].pc = "bumped" PROVE writer'[w].epoch # e
    <2>1. CASE writer'[w] = writer[w]
      BY <1>1, <2>1 DEF Free
    <2>2. CASE BumpEpoch(w)
      BY <1>0, <2>2, BumpEpochCall
    <2> QED
      BY <1>1, <2>1, <2>2, PcStep DEF PcGo
  <1>2. ASSUME e > 0, bumper'[Here].pc = "wait", ~bumper'[Here].election
        PROVE  EpochAt(bumper[Here].idx)' # e
    <2>1. PICK x : x = bumper'[Here].idx
      OBVIOUS
    <2>2. EpochAt(bumper[Here].idx)' = Ep(log', x)
      BY <2>1 DEF EpochAt, Ep, BumpsIn
    <2>3. CASE bumper'[Here] = bumper[Here]
      <3>1. EpochAt(x) # e /\ x \in 1 .. Len(log)
        BY <1>0, <1>2, <2>1, <2>3 DEF Free, IInv, BumpInv
      <3>2. x \in 0 .. Len(log)
        BY <1>0, <3>1
      <3> QED
        BY <2>2, <3>1, <3>2, Grows, EpIs
    <2>4. CASE x = Len(log) + 1 /\ log' = Append(log, Bump)
      <3>1. Ep(log', x) = EpochAt(Len(log)) + 1
        BY <2>4, NewEpoch
      <3> QED
        BY <1>0, <2>2, <3>1
    <2> QED
      BY <1>0, <1>2, <2>1, <2>3, <2>4, WaitStep DEF Waits
  <1> QED
    BY <1>1, <1>2 DEF Free

\* A bump that nobody here records brings every control in step once it is known.
LEMMA Fresh ==
    ASSUME IInv, Next, log' = Append(log, Bump), UNCHANGED <<plane, reload>>,
           \A w \in Writer : writer'[w].pc = "bumped" => writer'[w] = writer[w],
           bumper'[Here].pc = "wait" => bumper'[Here].election \/ bumper'[Here] = bumper[Here],
           NEW c \in Control
    PROVE  Sheltered(c)'
  <1>0. PICK L \in Nat : L = EpochAt(Len(log))
    BY EpochGrows
  <1>1. PICK e \in Nat : e = L + 1
    OBVIOUS
  <1>2. EpochAt(Len(log))' = e /\ e > 0
    <2>1. Ep(log', Len(log')) = L + 1
      BY <1>0, NewEpoch
    <2>2. EpochAt(Len(log))' = Ep(log', Len(log'))
      BY DEF EpochAt, Ep, BumpsIn
    <2> QED
      BY <1>1, <2>1, <2>2
  <1>3. TypeInv /\ Len(log) \in Nat /\ at \in Nat /\ at <= Len(log) /\ Here \in Node
    BY ControlAssumption DEF IInv, TypeInv
  <1>4. ASSUME NEW k \in 1 .. Len(log) PROVE EpochAt(k) \in Nat /\ EpochAt(k) <= L
    <2>1. k \in Nat /\ k <= Len(log)
      BY <1>3
    <2> QED
      BY <1>0, <1>3, <2>1, EpochOrder
  <1>5. ~ Told(e) /\ ~ (e <= reload.epoch)
    <2>1. EpochAt(at) \in Nat /\ EpochAt(at) <= L
      BY <1>0, <1>3, EpochOrder
    <2>2. plane.applied \in Nat /\ plane.parked \subseteq Nat /\ reload.epoch \in Nat
      BY DEF IInv, TypeInv, Plane, Loads
    <2> QED
      BY <1>1, <2>1, <2>2 DEF Told, IInv, EpochInv
  <1>6. Free(e)'
    <2>1. ASSUME NEW w \in Writer, writer'[w].pc = "bumped" PROVE writer'[w].epoch # e
      <3>1. writer'[w] = writer[w] /\ writer[w].epoch \in Nat
        BY <2>1 DEF IInv, TypeInv, Call
      <3>2. writer[w].epoch > 0 => writer[w].epoch <= L
        BY <1>0 DEF IInv, BumpInv
      <3> QED
        BY <1>1, <3>1, <3>2
    <2>2. ASSUME bumper'[Here].pc = "wait", ~bumper'[Here].election
          PROVE  EpochAt(bumper[Here].idx)' # e
      <3>1. PICK x : x = bumper'[Here].idx
        OBVIOUS
      <3>2. EpochAt(bumper[Here].idx)' = Ep(log', x)
        BY <3>1 DEF EpochAt, Ep, BumpsIn
      <3>3. x \in 1 .. Len(log)
        BY <1>3, <2>2, <3>1 DEF IInv, BumpInv
      <3>4. x \in 0 .. Len(log) /\ EpochAt(x) \in Nat /\ EpochAt(x) <= L
        BY <1>3, <1>4, <3>3
      <3>5. Ep(log', x) <= L /\ Ep(log', x) \in Nat
        BY <3>4, Grows, EpIs
      <3> QED
        BY <1>1, <3>2, <3>5
    <2> QED
      BY <2>1, <2>2 DEF Free
  <1>7. Behind(c, e)'
    <2>1. Spares(c)
      <3>1. ASSUME NEW w \in Writer, NEW n \in Node, NEW on \in BOOLEAN, WriteRow(w, n, c, on)
            PROVE  FALSE
        <4>1. log \in Seq(Command) /\ log' = Append(log, Row(c, on))
          BY <3>1 DEF WriteRow, IInv, TypeInv
        <4>2. Row(c, on) = Bump
          <5>1. ASSUME NEW x PROVE Append(log, x)[Len(log) + 1] = x
            BY <4>1
          <5>2. Append(log, Bump)[Len(log) + 1] = Append(log, Row(c, on))[Len(log) + 1]
            BY <4>1
          <5> QED
            BY <5>1, <5>2
        <4> QED
          BY <4>2 DEF Row, Bump
      <3> QED
        BY <3>1 DEF Spares
    <2>2. ASSUME NEW k \in 1 .. Len(log'), About(c, k)' PROVE EpochAt(k)' < e
      <3>1. k \in 1 .. Len(log)
        BY <2>1, <2>2, NoNewRow
      <3>2. k \in 0 .. Len(log) /\ EpochAt(k) \in Nat /\ EpochAt(k) <= L
        BY <1>3, <1>4, <3>1
      <3>3. EpochAt(k)' = EpochAt(k)
        BY <3>2, Grows, EpIs, EpNew
      <3> QED
        BY <1>1, <3>2, <3>3
    <2> QED
      BY <2>2 DEF Behind
  <1>8. ~ Told(e)' /\ ~ (e <= reload'.epoch)
    BY <1>5 DEF Told
  <1>9. Brings(c, e)'
    BY <1>6, <1>7, <1>8 DEF Brings, Holds
  <1>10. e \in 0 .. EpochAt(Len(log))'
    BY <1>2
  <1> QED
    BY <1>9, <1>10 DEF Sheltered

-----------------------------------------------------------------------------
(* Who is at work, and who owes.                                           *)

\* The call of write v returns, or is cut off.
Ends(v) ==
    \/ WriteGivenUp(v) \/ BumpFails(v) \/ Publish(v)
    \/ BumpEpoch(v) /\ writer[v].node # Here
    \/ \E n \in Node : Restart(n) /\ writer[v].node = n

StartsCall(v) == \E n \in Node, c \in Control, on \in BOOLEAN : WriteRow(v, n, c, on)

\* Call v goes on: what it is about stays, and it points to its row or its bump.
GoesOn(v) ==
    /\ Active(v) /\ writer'[v].ctl = writer[v].ctl /\ writer'[v].on = writer[v].on
    /\ writer'[v].idx = writer[v].idx \/ writer'[v].idx = Len(log) + 1

ActiveGo ==
    \A v \in Writer : /\ Active(v)' => StartsCall(v) \/ GoesOn(v)
                      /\ Active(v) /\ ~Active(v)' => Ends(v)

LEMMA ActiveStep ==
    ASSUME IInv, Next
    PROVE  ActiveGo
  <1> USE DEF raft, applying, control, session, bumps, elsewhere
  <1>1. ASSUME NEW w \in Writer, NEW n \in Node, NEW d \in Control, NEW on \in BOOLEAN,
               WriteRow(w, n, d, on)
        PROVE  ActiveGo
    <2>1. writer[w].pc = "idle" /\ \A v \in Writer \ {w} : writer'[v] = writer[v]
      BY <1>1, WriteRowCall
    <2> QED
      BY <1>1, <2>1 DEF ActiveGo, Active, StartsCall, GoesOn
  <1>2. ASSUME NEW w \in Writer, WriteGivenUp(w) PROVE ActiveGo
    <2>1. writer \in [Writer -> Call] /\ writer[w] \in Call
      BY DEF IInv, TypeInv
    <2>2. writer' = [writer EXCEPT ![w] = Done(writer[w])]
      BY <1>2 DEF WriteGivenUp
    <2>3. writer'[w] = Done(writer[w]) /\ \A v \in Writer \ {w} : writer'[v] = writer[v]
      BY <2>1, <2>2
    <2>4. writer'[w].pc = "done"
      BY <2>1, <2>3, DoneCall
    <2> QED
      BY <1>2, <2>3, <2>4 DEF ActiveGo, Active, Ends, GoesOn
  <1>3. ASSUME NEW w \in Writer, FenceSession(w) PROVE ActiveGo
    <2>1. writer \in [Writer -> Call] /\ writer[w] \in Call
      BY DEF IInv, TypeInv
    <2>2. writer' = [writer EXCEPT ![w].pc = "evict"] /\ Active(w)
      BY <1>3 DEF FenceSession, Active
    <2>3. /\ \A v \in Writer \ {w} : writer'[v] = writer[v]
          /\ writer'[w].pc = "evict" /\ writer'[w].ctl = writer[w].ctl /\ writer'[w].on = writer[w].on
          /\ writer'[w].idx = writer[w].idx
      BY <2>1, <2>2 DEF Call
    <2> QED
      BY <2>2, <2>3 DEF ActiveGo, Active, GoesOn
  <1>4. ASSUME NEW w \in Writer, EvictSession(w) PROVE ActiveGo
    <2>1. writer \in [Writer -> Call] /\ writer[w] \in Call
      BY DEF IInv, TypeInv
    <2>2. writer' = [writer EXCEPT ![w].pc = "bump"] /\ Active(w)
      BY <1>4 DEF EvictSession, Active
    <2>3. /\ \A v \in Writer \ {w} : writer'[v] = writer[v]
          /\ writer'[w].pc = "bump" /\ writer'[w].ctl = writer[w].ctl /\ writer'[w].on = writer[w].on
          /\ writer'[w].idx = writer[w].idx
      BY <2>1, <2>2 DEF Call
    <2> QED
      BY <2>2, <2>3 DEF ActiveGo, Active, GoesOn
  <1>5. ASSUME NEW w \in Writer, BumpEpoch(w) PROVE ActiveGo
    <2>1. /\ writer[w].pc \in {"row", "bump"}
          /\ writer'[w].ctl = writer[w].ctl /\ writer'[w].on = writer[w].on
          /\ \A v \in Writer \ {w} : writer'[v] = writer[v]
          /\ writer[w].node = Here => writer'[w].pc = "bumped" /\ writer'[w].idx = Len(log) + 1
          /\ writer[w].node # Here => writer'[w].pc = "done"
      BY <1>5, BumpEpochCall
    <2> QED
      BY <1>5, <2>1 DEF ActiveGo, Active, Ends, GoesOn
  <1>6. ASSUME NEW w \in Writer, BumpFails(w) PROVE ActiveGo
    <2>1. writer \in [Writer -> Call] /\ writer[w] \in Call
      BY DEF IInv, TypeInv
    <2>2. writer' = [writer EXCEPT ![w] = Done(writer[w])]
      BY <1>6 DEF BumpFails
    <2>3. writer'[w] = Done(writer[w]) /\ \A v \in Writer \ {w} : writer'[v] = writer[v]
      BY <2>1, <2>2
    <2>4. writer'[w].pc = "done"
      BY <2>1, <2>3, DoneCall
    <2> QED
      BY <1>6, <2>3, <2>4 DEF ActiveGo, Active, Ends, GoesOn
  <1>7. ASSUME NEW w \in Writer, Publish(w) PROVE ActiveGo
    <2>1. writer \in [Writer -> Call] /\ writer[w] \in Call
      BY DEF IInv, TypeInv
    <2>2. writer' = [writer EXCEPT ![w] = Done(writer[w])]
      BY <1>7 DEF Publish
    <2>3. writer'[w] = Done(writer[w]) /\ \A v \in Writer \ {w} : writer'[v] = writer[v]
      BY <2>1, <2>2
    <2>4. writer'[w].pc = "done"
      BY <2>1, <2>3, DoneCall
    <2> QED
      BY <1>7, <2>3, <2>4 DEF ActiveGo, Active, Ends, GoesOn
  <1>8. ASSUME NEW n \in Node, BumpTake(n) PROVE ActiveGo
    BY <1>8 DEF BumpTake, ActiveGo, Active, GoesOn
  <1>9. ASSUME NEW n \in Node, BumpCommit(n) PROVE ActiveGo
    BY <1>9 DEF BumpCommit, ActiveGo, Active, GoesOn
  <1>10. ASSUME NEW n \in Node, BumpDone(n) PROVE ActiveGo
    BY <1>10 DEF BumpDone, ActiveGo, Active, GoesOn
  <1>11. ASSUME NEW n \in Node, BumpError(n) PROVE ActiveGo
    BY <1>11 DEF BumpError, ActiveGo, Active, GoesOn
  <1>12. ASSUME NEW n \in Node, BumpRefused(n) PROVE ActiveGo
    BY <1>12 DEF BumpRefused, ActiveGo, Active, GoesOn
  <1>13. ASSUME NEW n \in Node, Elect(n) PROVE ActiveGo
    BY <1>13 DEF Elect, ActiveGo, Active, GoesOn
  <1>14. ASSUME NEW n \in Node, Restart(n) PROVE ActiveGo
    <2>1. ASSUME NEW v \in Writer
          PROVE  writer'[v] = writer[v] \/ (writer[v].node = n /\ writer'[v].pc = "done")
      <3>1. writer[v] \in Call
        BY DEF IInv, TypeInv
      <3>2. writer'[v] = writer[v] \/ (writer[v].node = n /\ writer'[v] = Done(writer[v]))
        BY <1>14 DEF Restart
      <3> QED
        BY <3>1, <3>2, DoneCall
    <2> QED
      BY <1>14, <2>1 DEF ActiveGo, Active, Ends, GoesOn
  <1>15. ASSUME Apply PROVE ActiveGo
    BY <1>15 DEF Apply, ActiveGo, Active, GoesOn
  <1>16. ASSUME Observe PROVE ActiveGo
    BY <1>16 DEF Observe, ActiveGo, Active, GoesOn
  <1>17. ASSUME Wipe PROVE ActiveGo
    BY <1>17 DEF Wipe, ActiveGo, Active, GoesOn
  <1>18. ASSUME NEW k \in 1 .. Len(log), Restore(k) PROVE ActiveGo
    BY <1>18 DEF Restore, ActiveGo, Active, GoesOn
  <1>19. ASSUME StartReload PROVE ActiveGo
    BY <1>19 DEF StartReload, ActiveGo, Active, GoesOn
  <1>20. ASSUME StartReset PROVE ActiveGo
    BY <1>20 DEF StartReset, ActiveGo, Active, GoesOn
  <1>21. ASSUME StartRecording PROVE ActiveGo
    BY <1>21 DEF StartRecording, ActiveGo, Active, GoesOn
  <1>22. ASSUME Scan PROVE ActiveGo
    BY <1>22 DEF Scan, ActiveGo, Active, GoesOn
  <1>23. ASSUME ScanFails PROVE ActiveGo
    BY <1>23 DEF ScanFails, ActiveGo, Active, GoesOn
  <1>24. ASSUME Swap PROVE ActiveGo
    BY <1>24 DEF Swap, ActiveGo, Active, GoesOn
  <1>25. ASSUME Resignal PROVE ActiveGo
    BY <1>25 DEF Resignal, ActiveGo, Active, GoesOn
  <1>26. ASSUME FlushFence PROVE ActiveGo
    BY <1>26 DEF FlushFence, ActiveGo, Active, GoesOn
  <1>27. ASSUME FlushStore PROVE ActiveGo
    BY <1>27 DEF FlushStore, ActiveGo, Active, GoesOn
  <1>28. ASSUME FillStart PROVE ActiveGo
    BY <1>28 DEF FillStart, ActiveGo, Active, GoesOn
  <1>29. ASSUME FillRead PROVE ActiveGo
    BY <1>29 DEF FillRead, ActiveGo, Active, GoesOn
  <1>30. ASSUME FillInsert PROVE ActiveGo
    BY <1>30 DEF FillInsert, ActiveGo, Active, GoesOn
  <1>31. ASSUME FillRecheck PROVE ActiveGo
    BY <1>31 DEF FillRecheck, ActiveGo, Active, GoesOn
  <1>32. ASSUME LoseLeader PROVE ActiveGo
    BY <1>32 DEF LoseLeader, ActiveGo, Active, GoesOn
  <1> QED
    BY <1>1, <1>2, <1>3, <1>4, <1>5, <1>6, <1>7, <1>8, <1>9, <1>10, <1>11, <1>12, <1>13,
       <1>14, <1>15, <1>16, <1>17, <1>18, <1>19, <1>20, <1>21, <1>22, <1>23, <1>24,
       <1>25, <1>26, <1>27, <1>28, <1>29, <1>30, <1>31, <1>32
       DEF Next, Write, Replicate, Reload, Fill, PayBumps

\* How what another node owes is settled, and how the term of a leader begins.
OfficeGo ==
    /\ excused \subseteq excused'
    /\ \A n \in Node, w \in Writer : w \in owed'[n] => w \in owed[n] \/ BumpFails(w)
    /\ \A n \in Node \ {Here}, w \in Writer :
          w \in owed[n] => \/ w \in owed'[n] \/ BumpCommit(n) \/ Restart(n)
                           \/ BumpRefused(n) /\ w \in bumper[n].owed
    /\ Interregnum =>
          Interregnum' \/ \E n \in Node : BumpCommit(n) /\ leader = n /\ bumper[n].election

LEMMA OfficeStep ==
    ASSUME IInv, Next
    PROVE  OfficeGo
  <1> USE DEF raft, applying, control, session, bumps, elsewhere
  <1>a. /\ owed \in [Node -> SUBSET Writer] /\ due \in [Node -> BOOLEAN]
        /\ bumper \in [Node -> Bumper] /\ writer \in [Writer -> Call]
        /\ leader \in Node \cup {Nobody} /\ Nobody \notin Node /\ Here \in Node
    BY ControlAssumption DEF IInv, TypeInv
  <1>1. ASSUME NEW w \in Writer, NEW n \in Node, NEW d \in Control, NEW on \in BOOLEAN,
               WriteRow(w, n, d, on)
        PROVE  OfficeGo
    BY <1>1 DEF WriteRow, OfficeGo, Interregnum
  <1>2. ASSUME NEW w \in Writer, WriteGivenUp(w) PROVE OfficeGo
    BY <1>2 DEF WriteGivenUp, OfficeGo, Interregnum
  <1>3. ASSUME NEW w \in Writer, FenceSession(w) PROVE OfficeGo
    BY <1>3 DEF FenceSession, OfficeGo, Interregnum
  <1>4. ASSUME NEW w \in Writer, EvictSession(w) PROVE OfficeGo
    BY <1>4 DEF EvictSession, OfficeGo, Interregnum
  <1>5. ASSUME NEW w \in Writer, BumpEpoch(w) PROVE OfficeGo
    BY <1>5 DEF BumpEpoch, OfficeGo, Interregnum
  <1>6. ASSUME NEW w \in Writer, BumpFails(w) PROVE OfficeGo
    <2>1. owed' = [owed EXCEPT ![writer[w].node] = owed[writer[w].node] \cup {w}] /\ UNCHANGED <<leader, due, bumper, excused>>
      BY <1>6 DEF BumpFails
    <2> QED
      BY <1>6, <1>a, <2>1 DEF OfficeGo, Interregnum
  <1>7. ASSUME NEW w \in Writer, Publish(w) PROVE OfficeGo
    BY <1>7 DEF Publish, OfficeGo, Interregnum
  <1>8. ASSUME NEW n \in Node, BumpTake(n) PROVE OfficeGo
    <2>1. /\ bumper' = [bumper EXCEPT ![n] = [pc |-> "try", owed |-> owed[n], election |-> due[n], idx |-> 0]]
          /\ due' = [due EXCEPT ![n] = FALSE] /\ UNCHANGED <<leader, owed, excused>> /\ bumper[n].pc = "idle"
      BY <1>8 DEF BumpTake
    <2>2. Interregnum => Interregnum'
      BY <1>a, <2>1 DEF Interregnum
    <2> QED
      BY <2>1, <2>2 DEF OfficeGo
  <1>9. ASSUME NEW n \in Node, BumpCommit(n) PROVE OfficeGo
    <2>1. UNCHANGED <<leader, due, excused>> /\ bumper[n].pc = "try"
      BY <1>9 DEF BumpCommit
    <2>2. \A m \in Node \ {n} : bumper'[m] = bumper[m] /\ owed'[m] = owed[m]
      BY <1>9, <1>a DEF BumpCommit, BumpSettled
    <2>3. \A w \in Writer : w \in owed'[n] => w \in owed[n]
      BY <1>9, <1>a DEF BumpCommit, BumpSettled
    <2>4. Interregnum => Interregnum' \/ (leader = n /\ bumper[n].election)
      BY <1>a, <2>1, <2>2 DEF Interregnum
    <2> QED
      BY <1>9, <2>1, <2>2, <2>3, <2>4 DEF OfficeGo
  <1>10. ASSUME NEW n \in Node, BumpDone(n) PROVE OfficeGo
    <2>1. UNCHANGED <<leader, due, excused>> /\ bumper[n].pc = "wait" /\ n = Here
      BY <1>10, BumpDoneMoves DEF BumpDone
    <2>2. \A m \in Node \ {n} : bumper'[m] = bumper[m] /\ owed'[m] = owed[m]
      BY <1>10, <1>a DEF BumpDone, BumpSettled
    <2>3. \A w \in Writer : w \in owed'[n] => w \in owed[n]
      BY <1>10, <1>a DEF BumpDone, BumpSettled
    <2>4. Interregnum => Interregnum'
      BY <1>a, <2>1, <2>2 DEF Interregnum
    <2> QED
      BY <2>1, <2>2, <2>3, <2>4 DEF OfficeGo
  <1>11. ASSUME NEW n \in Node, BumpError(n) PROVE OfficeGo
    <2>1. /\ bumper[n].pc = "try" /\ due' = [due EXCEPT ![n] = due[n] \/ bumper[n].election]
          /\ bumper' = [bumper EXCEPT ![n] = NoBump] /\ UNCHANGED <<leader, owed, excused>>
      BY <1>11 DEF BumpError
    <2>2. \A m \in Node \ {n} : bumper'[m] = bumper[m] /\ due'[m] = due[m]
      BY <1>a, <2>1
    <2>3. due'[n] = (due[n] \/ bumper[n].election)
      BY <1>a, <2>1
    <2>4. Interregnum => Interregnum'
      BY <1>a, <2>1, <2>2, <2>3 DEF Interregnum
    <2> QED
      BY <2>1, <2>4 DEF OfficeGo
  <1>12. ASSUME NEW n \in Node, BumpRefused(n) PROVE OfficeGo
    <2>1. UNCHANGED <<leader, due>> /\ leader # n /\ excused \subseteq excused'
      BY <1>12 DEF BumpRefused
    <2>2. \A m \in Node \ {n} : bumper'[m] = bumper[m] /\ owed'[m] = owed[m]
      BY <1>12, <1>a DEF BumpRefused, BumpSettled
    <2>3. owed'[n] = owed[n] \ bumper[n].owed
      BY <1>12, <1>a DEF BumpRefused, BumpSettled
    <2>4. Interregnum => Interregnum'
      BY <1>a, <2>1, <2>2 DEF Interregnum
    <2> QED
      BY <1>12, <2>1, <2>2, <2>3, <2>4 DEF OfficeGo
  <1>13. ASSUME NEW n \in Node, Elect(n) PROVE OfficeGo
    <2>1. leader' = n /\ due' = [due EXCEPT ![n] = TRUE] /\ UNCHANGED <<owed, bumper, excused>>
      BY <1>13 DEF Elect
    <2>2. Interregnum'
      BY <1>a, <2>1 DEF Interregnum
    <2> QED
      BY <2>1, <2>2 DEF OfficeGo
  <1>14. ASSUME NEW n \in Node, Restart(n) PROVE OfficeGo
    <2>1. /\ leader # n /\ leader' = leader /\ excused \subseteq excused' /\ owed' = [owed EXCEPT ![n] = {}]
          /\ due' = [due EXCEPT ![n] = FALSE] /\ bumper' = [bumper EXCEPT ![n] = NoBump]
      BY <1>14 DEF Restart
    <2>2. \A m \in Node \ {n} : bumper'[m] = bumper[m] /\ owed'[m] = owed[m] /\ due'[m] = due[m]
      BY <1>a, <2>1
    <2>3. owed'[n] = {}
      BY <1>a, <2>1
    <2>4. Interregnum => Interregnum'
      BY <1>a, <2>1, <2>2 DEF Interregnum
    <2> QED
      BY <1>14, <2>1, <2>2, <2>3, <2>4 DEF OfficeGo
  <1>15. ASSUME Apply PROVE OfficeGo
    BY <1>15 DEF Apply, OfficeGo, Interregnum
  <1>16. ASSUME Observe PROVE OfficeGo
    BY <1>16 DEF Observe, OfficeGo, Interregnum
  <1>17. ASSUME Wipe PROVE OfficeGo
    BY <1>17 DEF Wipe, OfficeGo, Interregnum
  <1>18. ASSUME NEW k \in 1 .. Len(log), Restore(k) PROVE OfficeGo
    BY <1>18 DEF Restore, OfficeGo, Interregnum
  <1>19. ASSUME StartReload PROVE OfficeGo
    BY <1>19 DEF StartReload, OfficeGo, Interregnum
  <1>20. ASSUME StartReset PROVE OfficeGo
    BY <1>20 DEF StartReset, OfficeGo, Interregnum
  <1>21. ASSUME StartRecording PROVE OfficeGo
    BY <1>21 DEF StartRecording, OfficeGo, Interregnum
  <1>22. ASSUME Scan PROVE OfficeGo
    BY <1>22 DEF Scan, OfficeGo, Interregnum
  <1>23. ASSUME ScanFails PROVE OfficeGo
    BY <1>23 DEF ScanFails, OfficeGo, Interregnum
  <1>24. ASSUME Swap PROVE OfficeGo
    BY <1>24 DEF Swap, OfficeGo, Interregnum
  <1>25. ASSUME Resignal PROVE OfficeGo
    BY <1>25 DEF Resignal, OfficeGo, Interregnum
  <1>26. ASSUME FlushFence PROVE OfficeGo
    BY <1>26 DEF FlushFence, OfficeGo, Interregnum
  <1>27. ASSUME FlushStore PROVE OfficeGo
    BY <1>27 DEF FlushStore, OfficeGo, Interregnum
  <1>28. ASSUME FillStart PROVE OfficeGo
    BY <1>28 DEF FillStart, OfficeGo, Interregnum
  <1>29. ASSUME FillRead PROVE OfficeGo
    BY <1>29 DEF FillRead, OfficeGo, Interregnum
  <1>30. ASSUME FillInsert PROVE OfficeGo
    BY <1>30 DEF FillInsert, OfficeGo, Interregnum
  <1>31. ASSUME FillRecheck PROVE OfficeGo
    BY <1>31 DEF FillRecheck, OfficeGo, Interregnum
  <1>32. ASSUME LoseLeader PROVE OfficeGo
    BY <1>32 DEF LoseLeader, OfficeGo, Interregnum
  <1> QED
    BY <1>1, <1>2, <1>3, <1>4, <1>5, <1>6, <1>7, <1>8, <1>9, <1>10, <1>11, <1>12, <1>13,
       <1>14, <1>15, <1>16, <1>17, <1>18, <1>19, <1>20, <1>21, <1>22, <1>23, <1>24,
       <1>25, <1>26, <1>27, <1>28, <1>29, <1>30, <1>31, <1>32
       DEF Next, Write, Replicate, Reload, Fill, PayBumps

-----------------------------------------------------------------------------
(* Writes of one control, what is owed for them, and the session's rows.   *)

\* A call that has begun keeps what it is about.
LEMMA Begun ==
    ASSUME IInv, Next, NEW w \in Writer, writer[w].pc # "idle"
    PROVE  /\ writer'[w].pc # "idle" /\ writer'[w].ctl = writer[w].ctl
           /\ writer'[w].on = writer[w].on
  <1>1. ASSUME NEW u \in Writer, NEW n \in Node, NEW c \in Control, NEW on \in BOOLEAN,
               WriteRow(u, n, c, on)
        PROVE  writer'[w] = writer[w]
    BY <1>1, WriteRowCall
  <1>2. ASSUME NEW u \in Writer, BumpEpoch(u)
        PROVE  \/ writer'[w] = writer[w]
               \/ /\ writer'[w].pc # "idle" /\ writer'[w].ctl = writer[w].ctl
                  /\ writer'[w].on = writer[w].on
    BY <1>2, BumpEpochCall
  <1> QED
    BY <1>1, <1>2, CallStep DEF Goes, Begins, SameCall

LEMMA OwedStep ==
    ASSUME IInv, OwedInv, Next
    PROVE  OwedInv'
  <1> SUFFICES ASSUME NEW n \in Node, NEW w \in owed'[n] PROVE writer'[w].pc # "idle"
    BY DEF OwedInv
  <1>1. w \in Writer
    BY TypeStep DEF TypeInv
  <1>2. CASE w \in owed[n]
    BY <1>1, <1>2, Begun DEF OwedInv
  <1>3. CASE BumpFails(w)
    <2>1. writer[w].pc # "idle"
      BY <1>3 DEF BumpFails, AboutToBump
    <2> QED
      BY <1>1, <2>1, Begun
  <1> QED
    BY <1>1, <1>2, <1>3, OfficeStep DEF OfficeGo

\* What a new write says of its control is news.
LEMMA News ==
    ASSUME NEW w, NEW n, NEW c, NEW on \in BOOLEAN, WriteRow(w, n, c, on)
    PROVE  /\ on <=> ~ (c \in Latest)
           /\ c \notin excused' => \A v \in Writer \ {w} : Active(v) /\ writer[v].ctl = c => writer[v].on = on
  <1>1. on # (c \in RowsAt(Len(log)))
    BY DEF WriteRow
  <1>2. on <=> ~ (c \in Latest)
    BY <1>1 DEF Latest
  <1>3. c \notin excused' => ~Races(w, c, on)
    BY DEF WriteRow
  <1> QED
    BY <1>2, <1>3 DEF Races

\* Nothing else is written about the control of a write under way, or the control
\* is excused.
LEMMA SoleSpares ==
    ASSUME IInv, SoleInv, Next, NEW w \in Writer, Active(w), writer[w].ctl \notin excused'
    PROVE  Spares(writer[w].ctl) /\ SoleOK(w) /\ writer[w].ctl \notin excused
  <1>1. PICK c \in Control : c = writer[w].ctl
    BY DEF IInv, TypeInv, Call
  <1>2. c \notin excused
    BY <1>1, OfficeStep DEF OfficeGo
  <1>3. SoleOK(w)
    BY <1>1, <1>2 DEF SoleInv
  <1>4. ASSUME NEW u \in Writer, NEW n \in Node, NEW on \in BOOLEAN, WriteRow(u, n, c, on)
        PROVE  FALSE
    <2>1. u # w
      BY <1>4 DEF WriteRow, Active
    <2>2. writer[w].on = on
      BY <1>1, <1>4, <2>1, News
    <2>3. on <=> ~ (c \in Latest)
      BY <1>4, News
    <2> QED
      BY <1>1, <1>3, <2>2, <2>3 DEF SoleOK
  <1> QED
    BY <1>1, <1>2, <1>3, <1>4 DEF Spares

LEMMA SoleStep ==
    ASSUME IInv, SoleInv, Next
    PROVE  SoleInv'
  <1> SUFFICES ASSUME NEW w \in Writer, Active(w)', writer'[w].ctl \notin excused'
               PROVE  SoleOK(w)'
    BY DEF SoleInv
  <1>0. log \in Seq(Command) /\ Len(log) \in Nat /\ excused \subseteq excused'
    BY OfficeStep DEF IInv, TypeInv, OfficeGo
  <1>1. ASSUME NEW n \in Node, NEW c \in Control, NEW on \in BOOLEAN, WriteRow(w, n, c, on)
        PROVE  SoleOK(w)'
    <2>1. /\ writer[w].pc = "idle" /\ log' = Append(log, Row(c, on)) /\ writer'[w].ctl = c
          /\ writer'[w].on = on /\ writer'[w].idx = Len(log) + 1
          /\ \A v \in Writer \ {w} : writer'[v] = writer[v]
      BY <1>1, WriteRowCall
    <2>2. c \notin excused /\ c \notin excused'
      BY <1>0, <2>1
    <2>3. ASSUME NEW v \in Writer \ {w}, Active(v)' PROVE writer'[v].ctl # c
      <3>1. writer'[v] = writer[v] /\ Active(v)
        BY <2>1, <2>3 DEF Active
      <3>2. ASSUME writer[v].ctl = c PROVE FALSE
        <4>1. writer[v].on <=> c \in Latest
          BY <2>2, <3>1, <3>2 DEF SoleInv, SoleOK
        <4>2. writer[v].on = on
          BY <1>1, <2>2, <3>1, <3>2, News
        <4> QED
          BY <1>1, <4>1, <4>2, News
      <3> QED
        BY <3>1, <3>2
    <2>4. PICK m \in Nat : m = Len(log) + 1
      BY <1>0
    <2>5. /\ log' \in Seq(Command) /\ Len(log') = m /\ m \in 1 .. Len(log')
          /\ log'[m] = Row(c, on)
      <3>1. Row(c, on) \in Command
        BY RowTyped DEF Command, RowCommand
      <3> QED
        BY <1>0, <2>1, <2>4, <3>1
    <2>6. log'[m].op = "row" /\ log'[m].ctl = c /\ (log'[m].on <=> on)
      BY <2>5 DEF Row
    <2>7. c \in Rw(log', m) <=> on
      BY <2>5, <2>6, RwLast
    <2>8. (c \in Latest)' <=> on
      BY <2>5, <2>7 DEF Latest, RowsAt, Rw
    <2>9. \A k \in 1 .. Len(log') : k <= writer'[w].idx
      BY <2>1, <2>4, <2>5
    <2> QED
      BY <2>1, <2>3, <2>8, <2>9 DEF SoleOK
  <1>2. ASSUME GoesOn(w) PROVE SoleOK(w)'
    <2>1. PICK c \in Control : c = writer[w].ctl
      BY DEF IInv, TypeInv, Call
    <2>2. /\ Active(w) /\ writer'[w].ctl = c /\ writer'[w].on = writer[w].on
          /\ writer'[w].idx = writer[w].idx \/ writer'[w].idx = Len(log) + 1
      BY <1>2, <2>1 DEF GoesOn
    <2>3. Spares(c) /\ SoleOK(w)
      BY <2>1, <2>2, SoleSpares
    <2>4. (c \in Latest)' <=> c \in Latest
      BY <2>3, LatestStep
    <2>5. writer'[w].on <=> (c \in Latest)'
      BY <2>1, <2>2, <2>3, <2>4 DEF SoleOK
    <2>6. ASSUME NEW k \in 1 .. Len(log'), About(c, k)' PROVE k <= writer'[w].idx
      <3>1. k \in 1 .. Len(log) /\ About(c, k)
        BY <2>3, <2>6, NoNewRow
      <3>2. k <= writer[w].idx
        BY <2>1, <2>3, <3>1 DEF SoleOK
      <3>3. k <= Len(log) + 1
        BY <1>0, <3>1
      <3> QED
        BY <2>2, <3>2, <3>3
    <2>7. ASSUME NEW v \in Writer \ {w}, Active(v)' PROVE writer'[v].ctl # c
      <3>1. ASSUME NEW n \in Node, NEW d \in Control, NEW on \in BOOLEAN, WriteRow(v, n, d, on)
            PROVE  writer'[v].ctl # c
        <4>1. writer'[v].ctl = d
          BY <3>1, WriteRowCall
        <4> QED
          BY <2>3, <3>1, <4>1 DEF Spares
      <3>2. CASE GoesOn(v)
        BY <2>1, <2>3, <3>2 DEF GoesOn, SoleOK
      <3> QED
        BY <2>7, <3>1, <3>2, ActiveStep DEF ActiveGo, StartsCall
    <2> QED
      BY <2>2, <2>5, <2>6, <2>7 DEF SoleOK, About
  <1> QED
    BY <1>1, <1>2, ActiveStep DEF ActiveGo, StartsCall

\* No step puts the session in the control caches.
LEMMA AfterApart ==
    ASSUME NEW S, NEW s, NEW n \in Nat, Len(s) = n, Session \notin S,
           \A i \in 1 .. n : s[i].ctl # Session
    PROVE  Session \notin After(S, s)
  <1>1. Session \in Control
    BY ControlAssumption
  <1>2. \/ /\ \A i \in 1 .. n : ~ (s[i].op = "row" /\ s[i].ctl = Session)
           /\ Session \in After(S, s) <=> Session \in S
        \/ \E m \in 1 .. n :
              /\ s[m].op = "row" /\ s[m].ctl = Session /\ (Session \in After(S, s) <=> s[m].on)
              /\ \A i \in m + 1 .. n : ~ (s[i].op = "row" /\ s[i].ctl = Session)
    BY <1>1, AfterLast
  <1> QED
    BY <1>2

LEMMA CachedApart ==
    ASSUME NEW S, NEW cmd, Session \notin S
    PROVE  Session \notin Cached(S, cmd)
  <1>1. PICK s : s = <<cmd>>
    OBVIOUS
  <1>2. PICK n \in Nat : n = 1
    OBVIOUS
  <1>3. Len(s) = n /\ \A i \in 1 .. n : s[i] = cmd
    BY <1>1, <1>2
  <1>4. cmd.ctl # Session => Session \notin After(S, <<cmd>>)
    BY <1>1, <1>3, AfterApart
  <1> QED
    BY <1>4 DEF Cached

LEMMA JournalApart ==
    ASSUME IInv, ApartInv, NEW cmd \in RowCommand, plane'.ops = OpsWith(cmd)
    PROVE  \A i \in 1 .. Len(plane'.ops) : plane'.ops[i].ctl # Session
  <1>1. plane.ops \in Seq(RowCommand)
    BY DEF IInv, TypeInv, Plane
  <1>2. CASE plane'.ops = plane.ops
    BY <1>2 DEF ApartInv
  <1>3. CASE cmd.ctl # Session /\ plane'.ops = Append(plane.ops, cmd)
    <2>1. PICK m \in Nat : m = Len(plane.ops)
      BY <1>1
    <2>2. /\ Len(plane'.ops) = m + 1 /\ plane'.ops[m + 1] = cmd
          /\ \A i \in 1 .. m : plane'.ops[i] = plane.ops[i]
      BY <1>1, <1>3, <2>1
    <2>3. \A i \in 1 .. m + 1 : i = m + 1 \/ i \in 1 .. m
      OBVIOUS
    <2> QED
      BY <1>3, <2>1, <2>2, <2>3 DEF ApartInv
  <1> QED
    BY <1>2, <1>3 DEF OpsWith

LEMMA ApartStep ==
    ASSUME IInv, ApartInv, Next
    PROVE  ApartInv'
  <1> USE DEF raft, applying, control, session, bumps, elsewhere
  <1>a. Session \notin cache /\ Session \notin reload.scan
    BY DEF ApartInv
  <1>b. 1 .. Len(<<>>) = {}
    OBVIOUS
  <1>c. plane \in Plane /\ reload \in Loads
    BY DEF IInv, TypeInv
  <1>1. ASSUME NEW w \in Writer, NEW n \in Node, NEW d \in Control, NEW on \in BOOLEAN,
               WriteRow(w, n, d, on)
        PROVE  ApartInv'
    BY <1>1 DEF WriteRow, ApartInv
  <1>2. ASSUME NEW w \in Writer, WriteGivenUp(w) PROVE ApartInv'
    BY <1>2 DEF WriteGivenUp, ApartInv
  <1>3. ASSUME NEW w \in Writer, FenceSession(w) PROVE ApartInv'
    BY <1>3 DEF FenceSession, ApartInv
  <1>4. ASSUME NEW w \in Writer, EvictSession(w) PROVE ApartInv'
    BY <1>4 DEF EvictSession, ApartInv
  <1>5. ASSUME NEW w \in Writer, BumpEpoch(w) PROVE ApartInv'
    BY <1>5 DEF BumpEpoch, ApartInv
  <1>6. ASSUME NEW w \in Writer, BumpFails(w) PROVE ApartInv'
    <2>1. CASE writer[w].node = Here
      <3>1. PICK cmd : cmd = Row(writer[w].ctl, writer[w].on)
        OBVIOUS
      <3>2. cmd \in RowCommand /\ plane'.ops = OpsWith(cmd)
        BY <1>6, <2>1, <3>1, RowTyped, BumpFailsMoves DEF Moved, IInv, TypeInv, Call
      <3>3. cache' = Cached(cache, cmd) /\ reload' = reload
        BY <1>6, <2>1, <3>1 DEF BumpFails, ApplyHere
      <3> QED
        BY <1>a, <3>2, <3>3, JournalApart, CachedApart DEF ApartInv
    <2>2. CASE writer[w].node # Here
      BY <1>6, <2>2 DEF BumpFails, ApartInv
    <2> QED
      BY <2>1, <2>2
  <1>7. ASSUME NEW w \in Writer, Publish(w) PROVE ApartInv'
    <2>1. PICK cmd : cmd = Row(writer[w].ctl, writer[w].on)
      OBVIOUS
    <2>2. cmd \in RowCommand /\ plane'.ops = OpsWith(cmd)
      BY <1>7, <2>1, RowTyped, PublishMoves DEF Moved, IInv, TypeInv, Call
    <2>3. cache' = Cached(cache, cmd) /\ reload' = reload
      BY <1>7, <2>1 DEF Publish, ApplyHere
    <2> QED
      BY <1>a, <2>2, <2>3, JournalApart, CachedApart DEF ApartInv
  <1>8. ASSUME NEW n \in Node, BumpTake(n) PROVE ApartInv'
    BY <1>8 DEF BumpTake, ApartInv
  <1>9. ASSUME NEW n \in Node, BumpCommit(n) PROVE ApartInv'
    BY <1>9 DEF BumpCommit, ApartInv
  <1>10. ASSUME NEW n \in Node, BumpDone(n) PROVE ApartInv'
    <2>1. plane'.ops = plane.ops
      BY <1>10, BumpDoneMoves DEF Moved
    <2> QED
      BY <1>10, <2>1 DEF BumpDone, ApartInv
  <1>11. ASSUME NEW n \in Node, BumpError(n) PROVE ApartInv'
    BY <1>11 DEF BumpError, ApartInv
  <1>12. ASSUME NEW n \in Node, BumpRefused(n) PROVE ApartInv'
    BY <1>12 DEF BumpRefused, ApartInv
  <1>13. ASSUME NEW n \in Node, Elect(n) PROVE ApartInv'
    BY <1>13 DEF Elect, ApartInv
  <1>14. ASSUME NEW n \in Node, Restart(n) PROVE ApartInv'
    <2>1. CASE n = Here
      <3>1. cache' = RowsAt(at) \ {Session} /\ plane'.ops = <<>> /\ reload'.scan = {}
        BY <1>14, <2>1 DEF Restart, FreshPlane, NoReload
      <3> QED
        BY <1>b, <3>1 DEF ApartInv
    <2>2. CASE n # Here
      BY <1>14, <2>2 DEF Restart, ApartInv
    <2> QED
      BY <2>1, <2>2
  <1>15. ASSUME Apply PROVE ApartInv'
    BY <1>15 DEF Apply, ApartInv
  <1>16. ASSUME Observe PROVE ApartInv'
    <2>1. CASE plane'.ops = plane.ops /\ cache' = cache
      BY <1>16, <2>1 DEF Observe, ApartInv
    <2>2. CASE log[at] \in RowCommand /\ plane'.ops = OpsWith(log[at]) /\ cache' = Cached(cache, log[at])
      BY <1>16, <1>a, <2>2, JournalApart, CachedApart DEF Observe, ApartInv
    <2> QED
      BY <1>16, <2>1, <2>2, ObserveMoves DEF Moved
  <1>17. ASSUME Wipe PROVE ApartInv'
    BY <1>17 DEF Wipe, ApartInv
  <1>18. ASSUME NEW k \in 1 .. Len(log), Restore(k) PROVE ApartInv'
    BY <1>18 DEF Restore, ApartInv
  <1>19. ASSUME StartReload PROVE ApartInv'
    <2>1. reload'.scan = {} /\ plane'.ops = plane.ops /\ cache' = cache
      BY <1>19, <1>c DEF StartReload, Loading, Plane
    <2> QED
      BY <2>1 DEF ApartInv
  <1>20. ASSUME StartReset PROVE ApartInv'
    <2>1. reload'.scan = {} /\ plane' = plane /\ cache' = cache
      BY <1>20, <1>c DEF StartReset, Loading
    <2> QED
      BY <2>1 DEF ApartInv
  <1>21. ASSUME StartRecording PROVE ApartInv'
    <2>1. reload'.scan = reload.scan /\ plane'.ops = <<>> /\ cache' = cache
      BY <1>21, <1>c DEF StartRecording, Loads, Plane
    <2> QED
      BY <1>b, <2>1 DEF ApartInv
  <1>22. ASSUME Scan PROVE ApartInv'
    <2>1. reload'.scan = Rows \ {Session} /\ plane' = plane /\ cache' = cache
      BY <1>22, <1>c DEF Scan, Loads
    <2> QED
      BY <2>1 DEF ApartInv
  <1>23. ASSUME ScanFails PROVE ApartInv'
    <2>1. reload'.scan = {} /\ plane'.ops = <<>> /\ cache' = cache
      BY <1>23, <1>c DEF ScanFails, EndReload, NoReload, Plane
    <2> QED
      BY <1>b, <2>1 DEF ApartInv
  <1>24. ASSUME Swap PROVE ApartInv'
    <2>1. reload'.scan = {} /\ plane'.ops = <<>> /\ cache' = After(reload.scan, plane.ops)
      BY <1>24, <1>c, SwapMoves DEF Swap, Loads
    <2>2. PICK m \in Nat : m = Len(plane.ops)
      BY <1>c DEF Plane
    <2>3. Session \notin cache'
      BY <1>a, <2>1, <2>2, AfterApart DEF ApartInv
    <2> QED
      BY <1>b, <2>1, <2>3 DEF ApartInv
  <1>25. ASSUME Resignal PROVE ApartInv'
    <2>1. reload'.scan = reload.scan /\ plane'.ops = plane.ops /\ cache' = cache
      BY <1>25, <1>c, ResignalMoves DEF Resignal, Loads
    <2> QED
      BY <2>1 DEF ApartInv
  <1>26. ASSUME FlushFence PROVE ApartInv'
    <2>1. reload'.scan = reload.scan /\ plane' = plane /\ cache' = cache
      BY <1>26, <1>c DEF FlushFence, Loads
    <2> QED
      BY <2>1 DEF ApartInv
  <1>27. ASSUME FlushStore PROVE ApartInv'
    <2>1. reload'.scan = {} /\ plane' = plane /\ cache' = cache
      BY <1>27 DEF FlushStore, EndReload, NoReload
    <2> QED
      BY <2>1 DEF ApartInv
  <1>28. ASSUME FillStart PROVE ApartInv'
    BY <1>28 DEF FillStart, ApartInv
  <1>29. ASSUME FillRead PROVE ApartInv'
    BY <1>29 DEF FillRead, ApartInv
  <1>30. ASSUME FillInsert PROVE ApartInv'
    BY <1>30 DEF FillInsert, ApartInv
  <1>31. ASSUME FillRecheck PROVE ApartInv'
    BY <1>31 DEF FillRecheck, ApartInv
  <1>32. ASSUME LoseLeader PROVE ApartInv'
    BY <1>32 DEF LoseLeader, ApartInv
  <1> QED
    BY <1>1, <1>2, <1>3, <1>4, <1>5, <1>6, <1>7, <1>8, <1>9, <1>10, <1>11, <1>12, <1>13,
       <1>14, <1>15, <1>16, <1>17, <1>18, <1>19, <1>20, <1>21, <1>22, <1>23, <1>24,
       <1>25, <1>26, <1>27, <1>28, <1>29, <1>30, <1>31, <1>32
       DEF Next, Write, Replicate, Reload, Fill, PayBumps

-----------------------------------------------------------------------------
(* No bump that Here has been told of is forgotten.                        *)

LEMMA AdvanceGrows ==
    ASSUME NEW p \in Plane, NEW floor \in Nat, NEW b \in Nat,
           p.applied <= b, floor <= b, \A e \in p.parked : e <= b
    PROVE  LET q == Advance(p, floor)
           IN  p.applied <= q.applied /\ floor <= q.applied /\ q.target = p.target
  <1> DEFINE base == Max({p.applied, floor})
             T == {e \in {base} \cup p.parked : e >= base /\ base + 1 .. e \subseteq p.parked}
             top == Max(T)
  <1>0. p.applied \in Nat /\ p.parked \subseteq Nat
    BY DEF Plane
  <1>1. base \in Nat /\ (base = p.applied \/ base = floor) /\ p.applied <= base /\ floor <= base
    BY <1>0, MaxTwo
  <1> HIDE DEF base
  <1>2. base \in T
    <2>1. base >= base /\ base + 1 .. base = {}
      BY <1>1
    <2> QED
      BY <2>1
  <1>3. T \in SUBSET Nat /\ \A x \in T : x <= b
    BY <1>0, <1>1
  <1>4. top \in T
    BY <1>2, <1>3, MaxOf
  <1>5. top \in Nat /\ top >= base
    BY <1>3, <1>4
  <1> HIDE DEF T, top
  <1>6. Advance(p, floor) = [p EXCEPT !.applied = top, !.parked = {e \in p.parked : e > top}]
    BY DEF Advance, base, T, top
  <1>7. PICK q : q = Advance(p, floor)
    OBVIOUS
  <1>8. q.applied = top /\ q.target = p.target
    BY <1>6, <1>7 DEF Plane
  <1> QED
    BY <1>0, <1>1, <1>5, <1>7, <1>8

LEMMA RecordGrows ==
    ASSUME NEW p \in Plane, NEW x \in Nat, NEW b \in Nat,
           p.applied <= b, x <= b, \A e \in p.parked : e <= b
    PROVE  LET q == Record(p, x) IN p.applied <= q.applied /\ q.target = p.target
  <1>0. p.applied \in Nat /\ p.parked \subseteq Nat
    BY DEF Plane
  <1>1. CASE x <= p.applied
    BY <1>0, <1>1 DEF Record
  <1>2. CASE ~ (x <= p.applied)
    <2>1. PICK r : r = [p EXCEPT !.parked = @ \cup {x}]
      OBVIOUS
    <2>2. /\ r \in Plane /\ r.applied = p.applied /\ r.parked = p.parked \cup {x}
          /\ r.target = p.target
      BY <1>0, <2>1 DEF Plane
    <2>3. PICK q : q = Advance(r, p.applied)
      OBVIOUS
    <2>4. \A e \in r.parked : e <= b
      BY <2>2
    <2>5. r.applied <= q.applied /\ q.target = r.target
      BY <1>0, <2>2, <2>3, <2>4, AdvanceGrows
    <2>6. q \in Plane
      BY <1>0, <2>2, <2>3, <2>4, AdvanceKeeps
    <2>7. Record(p, x) = IF Cardinality(q.parked) > MaxParked THEN [q EXCEPT !.parked = {}]
                         ELSE q
      BY <1>2, <2>1, <2>3 DEF Record
    <2>8. PICK z : z = [q EXCEPT !.parked = {}]
      OBVIOUS
    <2>9. z.applied = q.applied /\ z.target = q.target
      BY <2>6, <2>8 DEF Plane
    <2> QED
      BY <2>2, <2>5, <2>7, <2>8, <2>9
  <1> QED
    BY <1>1, <1>2

\* A signal leaves a target that epoch x does not exceed, unless it is applied.
LEMMA SignalRaises ==
    ASSUME NEW p \in Plane, NEW x \in Nat
    PROVE  LET q == Signal(p, x)
           IN  p.target <= q.target /\ (x <= q.applied \/ x <= q.target)
  <1>1. p.target \in Nat /\ p.applied \in Nat
    BY DEF Plane
  <1>2. PICK t \in Nat : t = Max({p.target, x}) /\ p.target <= t /\ x <= t
    BY <1>1, MaxTwo
  <1>3. Signal(p, x) = IF x <= p.applied THEN p ELSE [p EXCEPT !.target = t]
    BY <1>2 DEF Signal
  <1>4. PICK z : z = [p EXCEPT !.target = t]
    OBVIOUS
  <1>5. z.target = t /\ z.applied = p.applied
    BY <1>4 DEF Plane
  <1> QED
    BY <1>1, <1>2, <1>3, <1>4, <1>5

LEMMA JournalTarget ==
    ASSUME NEW p \in Plane, NEW cmd
    PROVE  Journal(p, cmd).target = p.target
  <1>1. PICK z : z = [p EXCEPT !.ops = Append(p.ops, cmd)]
    OBVIOUS
  <1>2. z.target = p.target
    BY <1>1 DEF Plane
  <1>3. Journal(p, cmd) = IF p.recording /\ cmd.ctl # Session THEN z ELSE p
    BY <1>1 DEF Journal
  <1> QED
    BY <1>2, <1>3

\* What Here has been told of is part of what its storage reflects.
LEMMA ReachedEpoch ==
    ASSUME IInv
    PROVE  /\ Reached \in Nat /\ Reached <= at /\ Reached \in 0 .. Len(log)
           /\ EpochAt(Reached) \in Nat /\ EpochAt(at) \in Nat /\ EpochAt(Reached) <= EpochAt(at)
  <1>1. at \in Nat /\ seen \in Nat /\ seen <= at /\ at <= Len(log) /\ Len(log) \in Nat
    BY DEF IInv, TypeInv
  <1>2. Reached \in Nat /\ Reached <= at /\ Reached \in 0 .. Len(log)
    BY <1>1 DEF Reached
  <1> QED
    BY <1>1, <1>2, EpochOrder DEF IInv

LEMMA ReachedSame ==
    ASSUME IInv, Next, Reached' = Reached
    PROVE  EpochAt(Reached)' = EpochAt(Reached)
  <1>1. PICK r : r = Reached
    OBVIOUS
  <1>2. r \in 0 .. Len(log)
    BY <1>1, ReachedEpoch
  <1>3. Ep(log', r) = Ep(log, r) /\ EpochAt(Reached) = Ep(log, r)
    BY <1>1, <1>2, Grows, EpIs
  <1>4. EpochAt(Reached)' = Ep(log', r)
    BY <1>1 DEF EpochAt, Ep, BumpsIn
  <1> QED
    BY <1>3, <1>4

\* A step that leaves the reload, and tells Here of nothing more.
LEMMA SignalQuiet ==
    ASSUME IInv, SignalInv, Next, UNCHANGED <<at, seen, install, reload>>,
           plane.force => plane'.force, plane.applied <= plane'.applied,
           plane.target <= plane'.target
    PROVE  SignalInv'
  <1>1. EpochAt(Reached)' = EpochAt(Reached)
    <2>1. Reached' = Reached
      BY DEF Reached
    <2> QED
      BY <2>1, ReachedSame
  <1>2. /\ EpochAt(Reached) \in Nat /\ plane \in Plane /\ plane' \in Plane
        /\ plane.applied \in Nat /\ plane'.applied \in Nat
        /\ plane.target \in Nat /\ plane'.target \in Nat
    BY ReachedEpoch, TypeStep DEF IInv, TypeInv, Plane
  <1>3. EpochAt(Reached) <= plane.applied => EpochAt(Reached) <= plane'.applied
    BY <1>2
  <1>4. EpochAt(Reached) <= plane.target => EpochAt(Reached) <= plane'.target
    BY <1>2
  <1>5. Heard => Heard'
    BY <1>1, <1>3, <1>4 DEF Heard
  <1> QED
    BY <1>5 DEF SignalInv, Sound

LEMMA SignalSame ==
    ASSUME IInv, SignalInv, Next, UNCHANGED <<at, seen, install, reload, plane>>
    PROVE  SignalInv'
  <1>1. plane.applied \in Nat /\ plane.target \in Nat
    BY DEF IInv, TypeInv, Plane
  <1>2. plane.applied <= plane.applied /\ plane.target <= plane.target
    BY <1>1
  <1> QED
    BY <1>2, SignalQuiet

\* Here applies a change of its own and records epoch x.
LEMMA SignalApply ==
    ASSUME IInv, SignalInv, Next, NEW cmd \in RowCommand, NEW x \in Nat, x <= EpochAt(at),
           plane' = Record(Journal(plane, cmd), x), UNCHANGED <<at, seen, install, reload>>
    PROVE  SignalInv'
  <1>0. plane \in Plane /\ EpochAt(at) \in Nat
    BY ReachedEpoch DEF IInv, TypeInv
  <1>1. PICK q : q = Journal(plane, cmd)
    OBVIOUS
  <1>2. /\ q \in Plane /\ q.applied = plane.applied /\ q.parked = plane.parked
        /\ q.force = plane.force /\ q.target = plane.target
    BY <1>0, <1>1, JournalKeeps, JournalTarget
  <1>3. q.applied <= EpochAt(at) /\ \A e \in q.parked : e <= EpochAt(at)
    BY <1>2 DEF IInv, EpochInv
  <1>4. plane' = Record(q, x)
    BY <1>1
  <1>5. q.applied <= plane'.applied /\ plane'.target = q.target
    BY <1>0, <1>2, <1>3, <1>4, RecordGrows
  <1>6. plane'.force = q.force
    BY <1>0, <1>2, <1>3, <1>4, RecordKeeps DEF Keeps
  <1>7. plane.target \in Nat /\ plane.target <= plane.target
    BY <1>0 DEF Plane
  <1> QED
    BY <1>2, <1>5, <1>6, <1>7, SignalQuiet

LEMMA SignalStep ==
    ASSUME IInv, SignalInv, Next
    PROVE  SignalInv'
  <1> USE DEF raft, applying, control, session, bumps, elsewhere
  <1>a. /\ plane \in Plane /\ plane' \in Plane /\ reload \in Loads
        /\ at \in Nat /\ seen \in Nat /\ seen <= at /\ at <= Len(log) /\ log \in Seq(Command)
        /\ install \in {"no", "wiped", "reload"}
    BY TypeStep DEF IInv, TypeInv
  <1>b. /\ EpochAt(Reached) \in Nat /\ EpochAt(at) \in Nat /\ EpochAt(Reached) <= EpochAt(at)
    BY ReachedEpoch
  <1>c. Reached' = Reached => EpochAt(Reached)' = EpochAt(Reached)
    BY ReachedSame
  <1>d. EpochAt(at)' = Ep(log', at')
    BY DEF EpochAt, Ep, BumpsIn
  <1>1. ASSUME NEW w \in Writer, NEW n \in Node, NEW d \in Control, NEW on \in BOOLEAN,
               WriteRow(w, n, d, on)
        PROVE  SignalInv'
    BY <1>1, SignalSame DEF WriteRow
  <1>2. ASSUME NEW w \in Writer, WriteGivenUp(w) PROVE SignalInv'
    BY <1>2, SignalSame DEF WriteGivenUp
  <1>3. ASSUME NEW w \in Writer, FenceSession(w) PROVE SignalInv'
    BY <1>3, SignalSame DEF FenceSession
  <1>4. ASSUME NEW w \in Writer, EvictSession(w) PROVE SignalInv'
    BY <1>4, SignalSame DEF EvictSession
  <1>5. ASSUME NEW w \in Writer, BumpEpoch(w) PROVE SignalInv'
    BY <1>5, SignalSame DEF BumpEpoch
  <1>6. ASSUME NEW w \in Writer, BumpFails(w) PROVE SignalInv'
    <2>1. CASE writer[w].node = Here
      <3>1. PICK cmd : cmd = Row(writer[w].ctl, writer[w].on)
        OBVIOUS
      <3>2. cmd \in RowCommand
        BY <3>1, RowTyped DEF IInv, TypeInv, Call
      <3>3. plane' = Record(Journal(plane, cmd), 0) /\ UNCHANGED <<at, seen, install, reload>>
        BY <1>6, <2>1, <3>1 DEF BumpFails, ApplyHere
      <3>4. 0 \in Nat /\ 0 <= EpochAt(at)
        BY <1>b
      <3> QED
        BY <3>2, <3>3, <3>4, SignalApply
    <2>2. CASE writer[w].node # Here
      BY <1>6, <2>2, SignalSame DEF BumpFails
    <2> QED
      BY <2>1, <2>2
  <1>7. ASSUME NEW w \in Writer, Publish(w) PROVE SignalInv'
    <2>1. PICK cmd : cmd = Row(writer[w].ctl, writer[w].on)
      OBVIOUS
    <2>2. cmd \in RowCommand /\ writer[w].epoch \in Nat /\ writer[w].epoch <= EpochAt(at)
      BY <1>7, <2>1, RowTyped, PublishMoves DEF IInv, TypeInv, Call
    <2>3. plane' = Record(Journal(plane, cmd), writer[w].epoch) /\ UNCHANGED <<at, seen, install, reload>>
      BY <1>7, <2>1 DEF Publish, ApplyHere
    <2> QED
      BY <2>2, <2>3, SignalApply
  <1>8. ASSUME NEW n \in Node, BumpTake(n) PROVE SignalInv'
    BY <1>8, SignalSame DEF BumpTake
  <1>9. ASSUME NEW n \in Node, BumpCommit(n) PROVE SignalInv'
    BY <1>9, SignalSame DEF BumpCommit
  <1>10. ASSUME NEW n \in Node, BumpDone(n) PROVE SignalInv'
    <2>1. UNCHANGED <<at, seen, install, reload>>
      BY <1>10 DEF BumpDone
    <2>2. CASE plane' = plane
      BY <2>1, <2>2, SignalSame
    <2>3. CASE plane' = Record(plane, EpochAt(bumper[n].idx))
      <3>1. n = Here /\ bumper[n].pc = "wait" /\ bumper[n].idx \in 1 .. Len(log)
        BY <1>10 DEF IInv, BumpInv, BumpDone
      <3>2. bumper[n].idx \in Nat /\ bumper[n].idx <= at
        BY <1>10, <1>a, <3>1 DEF BumpDone, Returned
      <3>3. EpochAt(bumper[n].idx) \in Nat /\ EpochAt(bumper[n].idx) <= EpochAt(at)
        BY <1>a, <3>2, EpochOrder DEF IInv
      <3>4. plane.applied <= EpochAt(at) /\ \A e \in plane.parked : e <= EpochAt(at)
        BY DEF IInv, EpochInv
      <3>5. plane.applied <= plane'.applied /\ plane'.target = plane.target
        BY <1>a, <1>b, <2>3, <3>3, <3>4, RecordGrows
      <3>6. plane'.force = plane.force
        BY <1>a, <1>b, <2>3, <3>3, <3>4, RecordKeeps DEF Keeps
      <3>7. plane.target <= plane'.target
        BY <1>a, <3>5 DEF Plane
      <3> QED
        BY <2>1, <3>5, <3>6, <3>7, SignalQuiet
    <2> QED
      BY <1>10, <2>2, <2>3 DEF BumpDone
  <1>11. ASSUME NEW n \in Node, BumpError(n) PROVE SignalInv'
    BY <1>11, SignalSame DEF BumpError
  <1>12. ASSUME NEW n \in Node, BumpRefused(n) PROVE SignalInv'
    BY <1>12, SignalSame DEF BumpRefused
  <1>13. ASSUME NEW n \in Node, Elect(n) PROVE SignalInv'
    BY <1>13, SignalSame DEF Elect
  <1>14. ASSUME NEW n \in Node, Restart(n) PROVE SignalInv'
    <2>1. CASE n = Here
      <3>1. /\ seen' = at /\ at' = at /\ log' = log /\ install' = install /\ install = "no"
            /\ plane'.applied = EpochAt(at) /\ reload'.pc = "idle" /\ reload'.by = "thread"
        BY <1>14, <2>1 DEF Restart, FreshPlane, NoReload
      <3>2. EpochAt(Reached)' = EpochAt(at)
        BY <3>1 DEF Reached, EpochAt
      <3>3. EpochAt(at) <= EpochAt(at) /\ at <= at + 1
        BY <1>a, <1>b
      <3> QED
        BY <3>1, <3>2, <3>3 DEF SignalInv, Heard
    <2>2. CASE n # Here
      BY <1>14, <2>2, SignalSame DEF Restart
    <2> QED
      BY <2>1, <2>2
  <1>15. ASSUME Apply PROVE SignalInv'
    <2>1. /\ install = "no" /\ seen = at /\ at < Len(log) /\ at' = at + 1
          /\ seen' = seen \/ (seen' = at + 1 /\ log[at + 1].op # "bump")
          /\ UNCHANGED <<log, install, reload, plane>>
      BY <1>15 DEF Apply, Watched
    <2>2. EpochAt(Reached)' = EpochAt(Reached)
      <3>1. CASE seen' = seen
        BY <1>c, <2>1, <3>1 DEF Reached
      <3>2. CASE seen' = at + 1 /\ log[at + 1].op # "bump"
        <4>1. Ep(log, at + 1) = Ep(log, at)
          BY <1>a, <3>2, EpNext
        <4>2. EpochAt(Reached)' = Ep(log, at + 1)
          BY <2>1, <3>2 DEF Reached, EpochAt, Ep, BumpsIn
        <4>3. EpochAt(Reached) = Ep(log, at)
          BY <2>1, EpIs DEF Reached
        <4> QED
          BY <4>1, <4>2, <4>3
      <3> QED
        BY <2>1, <3>1, <3>2
    <2>3. at' <= seen' + 1
      BY <1>a, <2>1
    <2>4. Heard => Heard'
      BY <2>1, <2>2 DEF Heard
    <2> QED
      BY <2>1, <2>3, <2>4 DEF SignalInv, Sound
  <1>16. ASSUME Observe PROVE SignalInv'
    <2>1. /\ install = "no" /\ seen < at /\ seen' = at
          /\ UNCHANGED <<log, at, install, reload>>
      BY <1>16 DEF Observe
    <2>2. at = seen + 1 /\ at \in 1 .. Len(log) /\ at' <= seen' + 1
      BY <1>a, <2>1 DEF SignalInv
    <2>3. EpochAt(Reached)' = EpochAt(at) /\ EpochAt(at) = Ep(log, seen + 1)
      <3>1. EpochAt(Reached)' = EpochAt(at)
        BY <2>1 DEF Reached, EpochAt
      <3> QED
        BY <2>2, <3>1, EpIs
    <2>4. CASE log[at].op = "bump"
      <3>1. plane' = Signal(plane, EpochAt(at))
        BY <1>16, <2>4 DEF Observe
      <3>2. EpochAt(at) <= plane'.applied \/ EpochAt(at) <= plane'.target
        BY <1>a, <1>b, <3>1, SignalRaises
      <3> QED
        BY <2>1, <2>2, <2>3, <3>2 DEF SignalInv, Heard
    <2>5. CASE log[at].op # "bump"
      <3>1. EpochAt(at) = EpochAt(Reached)
        <4>1. Ep(log, seen + 1) = Ep(log, seen)
          BY <1>a, <2>2, <2>5, EpNext
        <4> QED
          BY <2>1, <2>3, <4>1, EpIs DEF Reached
      <3>2. plane' = Journal(plane, log[at]) /\ log[at] \in RowCommand
        BY <1>16, <2>5, ObserveMoves DEF Observe
      <3>3. plane'.target = plane.target /\ plane'.applied = plane.applied /\ plane'.force = plane.force
        BY <1>a, <3>2, JournalKeeps, JournalTarget
      <3>4. Heard => Heard'
        BY <2>1, <2>3, <3>1, <3>3 DEF Heard
      <3> QED
        BY <2>1, <2>2, <3>4 DEF SignalInv, Sound
    <2> QED
      BY <2>4, <2>5
  <1>17. ASSUME Wipe PROVE SignalInv'
    <2>1. /\ install = "no" /\ install' = "wiped" /\ seen = at
          /\ UNCHANGED <<log, at, seen, reload, plane>>
      BY <1>17 DEF Wipe
    <2>2. EpochAt(Reached)' = EpochAt(Reached)
      BY <1>c, <2>1 DEF Reached
    <2>3. Heard => Heard'
      BY <2>1, <2>2 DEF Heard
    <2> QED
      BY <2>1, <2>3 DEF SignalInv, Sound
  <1>18. ASSUME NEW k \in 1 .. Len(log), Restore(k) PROVE SignalInv'
    <2>1. install = "wiped" /\ install' = "reload" /\ reload' = reload
      BY <1>18 DEF Restore
    <2>2. reload.by # "install"
      BY <2>1 DEF SignalInv, IInv, ReloadInv
    <2> QED
      BY <2>1, <2>2 DEF SignalInv, Sound
  <1>19. ASSUME StartReload PROVE SignalInv'
    <2>1. /\ reload.pc = "idle" /\ plane'.applied = plane.applied /\ plane'.target = plane.target
          /\ reload' = Loading("thread", plane.force, plane.force /\ plane.reset)
          /\ UNCHANGED <<log, at, seen, install>>
      BY <1>19, <1>a DEF StartReload, Plane
    <2>2. /\ reload'.pc = "record" /\ reload'.by = "thread" /\ reload'.forced = plane.force
          /\ reload'.epoch = Epoch
      BY <2>1 DEF Loading
    <2>3. EpochAt(Reached)' = EpochAt(Reached)
      BY <1>c, <2>1 DEF Reached
    <2>4. install = "no" => EpochAt(Reached) <= reload'.epoch
      BY <1>b, <2>2 DEF Epoch
    <2>5. install = "no" /\ Heard => Heard'
      BY <2>1, <2>2, <2>3, <2>4 DEF Heard
    <2> QED
      BY <2>1, <2>2, <2>5 DEF SignalInv, Sound
  <1>20. ASSUME StartReset PROVE SignalInv'
    <2>1. /\ install = "reload" /\ reload' = Loading("install", TRUE, TRUE)
          /\ UNCHANGED <<log, at, seen, install>>
      BY <1>20 DEF StartReset
    <2>2. reload'.pc = "record" /\ reload'.forced /\ reload'.epoch = EpochAt(at)
      BY <2>1 DEF Loading, Epoch
    <2>3. EpochAt(Reached)' = EpochAt(at)
      BY <2>1 DEF Reached, EpochAt
    <2>4. EpochAt(at) <= EpochAt(at)
      BY <1>b
    <2> QED
      BY <2>1, <2>2, <2>3, <2>4 DEF SignalInv, Heard
  <1>21. ASSUME StartRecording PROVE SignalInv'
    <2>1. /\ reload'.pc = "scan" /\ reload.pc = "record" /\ reload'.by = reload.by
          /\ reload'.forced = reload.forced /\ reload'.epoch = reload.epoch
          /\ plane'.applied = plane.applied /\ plane'.target = plane.target /\ plane'.force = plane.force
          /\ UNCHANGED <<at, seen, install>>
      BY <1>21, <1>a DEF StartRecording, Loads, Plane
    <2>2. EpochAt(Reached)' = EpochAt(Reached)
      BY <1>c, <2>1 DEF Reached
    <2>3. Heard => Heard'
      BY <2>1, <2>2 DEF Heard
    <2> QED
      BY <2>1, <2>3 DEF SignalInv, Sound
  <1>22. ASSUME Scan PROVE SignalInv'
    <2>1. /\ reload'.pc = "swap" /\ reload.pc = "scan" /\ reload'.by = reload.by
          /\ reload'.forced = reload.forced /\ reload'.epoch = reload.epoch
          /\ UNCHANGED <<at, seen, install, plane>>
      BY <1>22, <1>a DEF Scan, Loads
    <2>2. EpochAt(Reached)' = EpochAt(Reached)
      BY <1>c, <2>1 DEF Reached
    <2>3. Heard => Heard'
      BY <2>1, <2>2 DEF Heard
    <2> QED
      BY <2>1, <2>3 DEF SignalInv, Sound
  <1>23. ASSUME ScanFails PROVE SignalInv'
    <2>1. /\ reload.pc = "scan" /\ reload'.pc = "idle" /\ reload'.by = "thread"
          /\ plane'.applied = plane.applied /\ plane'.target = plane.target
          /\ plane'.force = (plane.force \/ reload.forced) /\ at' = at
          /\ install' = IF reload.by = "install" THEN "no" ELSE install
          /\ seen' = IF reload.by = "install" THEN at ELSE seen
      BY <1>23, <1>a DEF ScanFails, EndReload, NoReload, Plane
    <2>2. CASE reload.by = "install"
      <3>1. plane'.force
        BY <2>1, <2>2 DEF IInv, ReloadInv
      <3>2. at' <= seen' + 1
        BY <1>a, <2>1, <2>2
      <3> QED
        BY <2>1, <3>1, <3>2 DEF SignalInv, Heard
    <2>3. CASE reload.by # "install"
      <3>1. install' = install /\ seen' = seen
        BY <2>1, <2>3
      <3>2. EpochAt(Reached)' = EpochAt(Reached)
        BY <1>c, <2>1, <3>1 DEF Reached
      <3>3. Heard => Heard'
        BY <2>1, <3>2 DEF Heard
      <3> QED
        BY <2>1, <3>1, <3>3 DEF SignalInv, Sound
    <2> QED
      BY <2>2, <2>3
  <1>24. ASSUME Swap PROVE SignalInv'
    <2>1. /\ reload.pc = "swap" /\ reload'.by = reload.by /\ UNCHANGED <<at, seen, install>>
          /\ reload'.pc = (IF reload.reset THEN "resignal" ELSE "flush")
      BY <1>24, <1>a DEF Swap, Loads
    <2>2. CASE reload.reset
      BY <2>1, <2>2 DEF SignalInv, Heard
    <2>3. CASE ~reload.reset
      <3>1. PICK p : p = [plane EXCEPT !.recording = FALSE, !.ops = <<>>]
        OBVIOUS
      <3>2. /\ p \in Plane /\ p.applied = plane.applied /\ p.parked = plane.parked
            /\ p.target = plane.target /\ p.force = plane.force
        <4>1. <<>> \in Seq(RowCommand)
          OBVIOUS
        <4> QED
          BY <1>a, <3>1, <4>1 DEF Plane
      <3>3. plane' = Advance(p, reload.epoch)
        BY <1>24, <2>3, <3>1 DEF Swap
      <3>4. /\ p.applied <= EpochAt(at) /\ \A e \in p.parked : e <= EpochAt(at)
            /\ reload.epoch <= EpochAt(at) /\ reload.epoch \in Nat
        BY <1>a, <3>2 DEF IInv, EpochInv, Loads
      <3>5. /\ p.applied <= plane'.applied /\ reload.epoch <= plane'.applied
            /\ plane'.target = p.target
        BY <1>b, <3>2, <3>3, <3>4, AdvanceGrows
      <3>6. plane'.force = plane.force
        BY <1>24, SwapMoves
      <3>7. EpochAt(Reached)' = EpochAt(Reached)
        BY <1>c, <2>1 DEF Reached
      <3>8. plane.applied \in Nat /\ plane'.applied \in Nat
        BY <1>a DEF Plane
      <3>9. EpochAt(Reached) <= plane.applied => EpochAt(Reached) <= plane'.applied
        BY <1>b, <3>2, <3>5, <3>8
      <3>10. EpochAt(Reached) <= reload.epoch => EpochAt(Reached) <= plane'.applied
        BY <1>b, <3>4, <3>5, <3>8
      <3>11. Heard => Heard'
        BY <2>1, <3>2, <3>5, <3>6, <3>7, <3>9, <3>10 DEF Heard
      <3> QED
        BY <2>1, <2>3, <3>11 DEF SignalInv, Sound
    <2> QED
      BY <2>2, <2>3
  <1>25. ASSUME Resignal PROVE SignalInv'
    <2>1. /\ reload.pc = "resignal" /\ reload'.pc = "flush" /\ reload'.by = reload.by
          /\ UNCHANGED <<log, at, seen, install>>
      BY <1>25, <1>a DEF Resignal, Loads
    <2>2. EpochAt(Reached)' = EpochAt(Reached)
      BY <1>c, <2>1 DEF Reached
    <2>3. ASSUME Sound PROVE Heard'
      <3>1. Epoch = EpochAt(at)
        BY <2>1, <2>3 DEF Epoch, Sound, IInv, ReloadInv
      <3>2. CASE plane' = Signal(plane, Epoch)
        <4>1. EpochAt(at) <= plane'.applied \/ EpochAt(at) <= plane'.target
          BY <1>a, <1>b, <3>1, <3>2, SignalRaises
        <4>2. plane'.applied \in Nat /\ plane'.target \in Nat
          BY <1>a DEF Plane
        <4>3. EpochAt(Reached) <= plane'.applied \/ EpochAt(Reached) <= plane'.target
          BY <1>b, <4>1, <4>2
        <4> QED
          BY <2>2, <4>3 DEF Heard
      <3>3. CASE plane' = [plane EXCEPT !.reset = TRUE, !.force = TRUE]
        <4>1. plane'.force
          BY <1>a, <3>3 DEF Plane
        <4> QED
          BY <4>1 DEF Heard
      <3> QED
        BY <1>25, <3>2, <3>3 DEF Resignal
    <2> QED
      BY <2>1, <2>3 DEF SignalInv, Sound
  <1>26. ASSUME FlushFence PROVE SignalInv'
    <2>1. /\ reload.pc = "flush" /\ reload'.pc = "clear" /\ reload'.by = reload.by
          /\ UNCHANGED <<at, seen, install, plane>>
      BY <1>26, <1>a DEF FlushFence, Loads
    <2>2. EpochAt(Reached)' = EpochAt(Reached)
      BY <1>c, <2>1 DEF Reached
    <2>3. Heard => Heard'
      BY <2>1, <2>2 DEF Heard
    <2> QED
      BY <2>1, <2>3 DEF SignalInv, Sound
  <1>27. ASSUME FlushStore PROVE SignalInv'
    <2>1. /\ reload.pc = "clear" /\ reload'.pc = "idle" /\ reload'.by = "thread" /\ at' = at
          /\ plane' = plane
          /\ install' = IF reload.by = "install" THEN "no" ELSE install
          /\ seen' = IF reload.by = "install" THEN at ELSE seen
      BY <1>27 DEF FlushStore, EndReload, NoReload
    <2>2. Reached' = Reached /\ (Sound' => Sound)
      BY <2>1 DEF Reached, Sound, IInv, ReloadInv
    <2>3. Heard => Heard'
      BY <1>c, <2>1, <2>2 DEF Heard
    <2>4. install' = "no" => at' <= seen' + 1
      BY <1>a, <2>1 DEF SignalInv
    <2> QED
      BY <2>1, <2>2, <2>3, <2>4 DEF SignalInv
  <1>28. ASSUME FillStart PROVE SignalInv'
    BY <1>28, SignalSame DEF FillStart
  <1>29. ASSUME FillRead PROVE SignalInv'
    BY <1>29, SignalSame DEF FillRead
  <1>30. ASSUME FillInsert PROVE SignalInv'
    BY <1>30, SignalSame DEF FillInsert
  <1>31. ASSUME FillRecheck PROVE SignalInv'
    BY <1>31, SignalSame DEF FillRecheck
  <1>32. ASSUME LoseLeader PROVE SignalInv'
    BY <1>32, SignalSame DEF LoseLeader
  <1> QED
    BY <1>1, <1>2, <1>3, <1>4, <1>5, <1>6, <1>7, <1>8, <1>9, <1>10, <1>11, <1>12, <1>13,
       <1>14, <1>15, <1>16, <1>17, <1>18, <1>19, <1>20, <1>21, <1>22, <1>23, <1>24,
       <1>25, <1>26, <1>27, <1>28, <1>29, <1>30, <1>31, <1>32
       DEF Next, Write, Replicate, Reload, Fill, PayBumps

-----------------------------------------------------------------------------
(* What brings one control in step stays, and a change applied here does.  *)

\* The caches have just taken in a row of c that agrees with V.
LEMMA HoldsLocal ==
    ASSUME IInv, NEW c \in Control \ {Session}, NEW e, NEW V, NEW cmd \in RowCommand,
           cmd.ctl = c, cmd.on <=> c \in V, plane'.ops = OpsWith(cmd),
           cache' = Cached(cache, cmd), reload' = reload
    PROVE  Holds(c, e, V)'
  <1>0. plane.ops \in Seq(RowCommand)
    BY DEF IInv, TypeInv, Plane
  <1>1. c \in cache' <=> c \in V
    BY CachedLast
  <1>2. ASSUME reload.pc \in {"scan", "swap"}
        PROVE  plane'.ops = Append(plane.ops, cmd)
    BY <1>2 DEF OpsWith, IInv, ReloadInv
  <1>3. LastOp(c, Append(plane.ops, cmd), V)
    BY <1>0, LastOpAppend
  <1>4. c \in After(reload.scan, Append(plane.ops, cmd)) <=> c \in V
    BY <1>0, AfterAppend
  <1> QED
    BY <1>1, <1>2, <1>3, <1>4 DEF Holds, Firm

\* A write of Here that publishes its change brings its control in step at once.
LEMMA LocalApply ==
    ASSUME IInv, SoleInv, Next, NEW w \in Writer, writer[w].node = Here,
           Publish(w) \/ BumpFails(w), NEW c, c = writer[w].ctl, c \notin excused'
    PROVE  Sheltered(c)'
  <1>0. c \in Control /\ c = writer[w].ctl
    BY DEF IInv, TypeInv, Call
  <1>1. PICK cmd : cmd = Row(writer[w].ctl, writer[w].on)
    OBVIOUS
  <1>2. Active(w) /\ writer[w].pc \in {"row", "bump", "bumped"}
    BY DEF Publish, BumpFails, AboutToBump, Active
  <1>3. /\ cmd \in RowCommand /\ cmd.ctl = c /\ (cmd.on <=> writer[w].on)
        /\ cache' = Cached(cache, cmd) /\ reload' = reload
    <2>1. cmd \in RowCommand
      BY <1>1, RowTyped DEF IInv, TypeInv, Call
    <2>2. cmd.ctl = c /\ (cmd.on <=> writer[w].on)
      BY <1>0, <1>1 DEF Row
    <2>3. cache' = Cached(cache, cmd) /\ reload' = reload
      BY <1>1 DEF Publish, BumpFails, ApplyHere
    <2> QED
      BY <2>1, <2>2, <2>3
  <1>4. plane'.ops = OpsWith(cmd)
    BY <1>1, PublishMoves, BumpFailsMoves DEF Moved
  <1>5. Spares(c) /\ SoleOK(w)
    BY <1>0, <1>2, SoleSpares
  <1>6. PICK V : V = Latest'
    OBVIOUS
  <1>7. cmd.on <=> c \in V
    <2>1. (c \in Latest)' <=> c \in Latest
      BY <1>0, <1>5, LatestStep
    <2> QED
      BY <1>0, <1>3, <1>5, <1>6, <2>1 DEF SoleOK
  <1>8. c # Session => Holds(c, 0, Latest)'
    <2>1. c # Session => Holds(c, 0, V)'
      BY <1>0, <1>3, <1>4, <1>7, HoldsLocal
    <2> QED
      BY <1>6, <2>1 DEF Holds, Firm, LastOp
  <1>9. Behind(c, 0)'
    <2>1. /\ writer[w].idx \in Nat /\ at \in Nat /\ seen \in Nat /\ seen <= at
          /\ at' \in Nat /\ at <= at'
      BY LogStep, TypeStep DEF IInv, TypeInv, Call
    <2>2. writer[w].idx <= at
      <3>1. CASE writer[w].pc = "bump"
        BY <3>1 DEF IInv, CallInv, CallOK
      <3>2. CASE writer[w].pc # "bump"
        BY <2>1, <3>2 DEF Publish, BumpFails, AboutToBump, Returned
      <3> QED
        BY <3>1, <3>2
    <2>3. ASSUME NEW k \in 1 .. Len(log'), About(c, k)' PROVE k <= at'
      <3>1. k \in 1 .. Len(log) /\ About(c, k)
        BY <1>0, <1>5, <2>3, NoNewRow
      <3>2. k <= writer[w].idx
        BY <1>0, <1>5, <3>1 DEF SoleOK
      <3> QED
        BY <2>1, <2>2, <3>2
    <2> QED
      BY <2>3 DEF Behind
  <1>10. Free(0)'
    BY DEF Free
  <1>11. c = Session => Gone'
    <2>1. c = Session => writer[w].pc # "row"
      BY <1>0 DEF Publish, BumpFails, AboutToBump, EvictsHere
    <2>2. c = Session => Gone
      BY <1>0, <1>2, <2>1 DEF IInv, SessionInv, SessionOK
    <2> QED
      BY <2>2, GoneStays
  <1>12. 0 \in 0 .. EpochAt(Len(log))'
    BY EpochGrows
  <1>13. Brings(c, 0)'
    BY <1>8, <1>9, <1>10, <1>11 DEF Brings
  <1>14. \E e \in 0 .. EpochAt(Len(log))' : Brings(c, e)'
    BY <1>12, <1>13
  <1> QED
    BY <1>14 DEF Sheltered

\* The session, once out of the cache for epoch e, stays out; and a reload that
\* has read epoch e takes it out.
LEMMA SessionKept ==
    ASSUME IInv, Next, NEW e \in Nat, Free(e), Behind(Session, e), Session \in Latest,
           Told(e) => Gone \/ Leaving, Told(e)'
    PROVE  Gone' \/ Leaving'
  <1>0. /\ Session \in Control /\ EpochAt(at) \in Nat
        /\ plane.applied \in Nat /\ plane.parked \subseteq Nat
    BY ReachedEpoch, ControlAssumption DEF IInv, TypeInv, Plane
  <1>1. e <= EpochAt(at) => Session \in RowsAt(at)
    BY <1>0, BehindRows
  <1>2. CASE Told(e)
    <2>1. e <= EpochAt(at)
      BY <1>2, ToldReached
    <2> QED
      BY <1>1, <1>2, <2>1, GoneStays, LeavingGoes
  <1>3. CASE Swap
    <2>1. reload'.pc \in {"resignal", "flush"}
      BY <1>3 DEF IInv, TypeInv, Loads, Swap
    <2> QED
      BY <2>1 DEF Leaving
  <1>4. CASE Restart(Here)
    <2>1. /\ held' = FALSE /\ fill' = NoFill
          /\ plane'.applied = EpochAt(at) /\ plane'.parked = {}
      BY <1>4 DEF Restart, FreshPlane
    <2>2. e <= EpochAt(at)
      BY <2>1 DEF Told
    <2>3. (Session \in RowsAt(at))'
      BY <1>1, <2>2, RowStays
    <2> QED
      BY <2>1, <2>3 DEF Gone, Noticed, NoFill
  <1>5. CASE e = 0
    BY <1>0, <1>2, <1>5 DEF Told
  <1>6. CASE e > 0
    <2>1. bumper[Here].pc = "wait" /\ ~bumper[Here].election => EpochAt(bumper[Here].idx) # e
      BY <1>6 DEF Free
    <2>2. ToldGo(e)
      BY <1>6, <2>1, ToldStep
    <2>3. \A v \in Writer : ~ (Publish(v) /\ writer[v].epoch = e)
      BY <1>6 DEF Free, Publish
    <2> QED
      BY <1>2, <1>3, <1>4, <2>2, <2>3 DEF ToldGo
  <1> QED
    BY <1>5, <1>6

\* What brings c in step goes on doing so, unless a write of c is under way or
\* begins.
LEMMA ShelterStep ==
    ASSUME IInv, Next, NEW c \in Control, Sheltered(c), Spares(c), ~Under(c)
    PROVE  Sheltered(c)'
  <1>1. PICK e \in 0 .. EpochAt(Len(log)) : Brings(c, e)
    BY DEF Sheltered
  <1>2. /\ EpochAt(Len(log)) \in Nat /\ EpochAt(Len(log))' \in Nat
        /\ EpochAt(Len(log)) <= EpochAt(Len(log))'
    BY EpochGrows
  <1>3. e \in Nat /\ e <= EpochAt(Len(log)) /\ e \in 0 .. EpochAt(Len(log))'
    BY <1>2
  <1>4. Free(e) /\ Behind(c, e)
    BY <1>1 DEF Brings
  <1>5. Free(e)' /\ Behind(c, e)'
    BY <1>3, <1>4, FreeStep, BehindStep
  <1>6. (c \in Latest)' <=> c \in Latest
    BY LatestStep
  <1>7. ASSUME c # Session PROVE Holds(c, e, Latest)'
    <2>1. PICK V : V = Latest
      OBVIOUS
    <2>2. Kept(c, e, V)
      <3>1. Holds(c, e, V)
        BY <1>1, <1>7, <2>1 DEF Brings
      <3>2. e <= EpochAt(at) =>
               /\ c \in RowsAt(at) <=> c \in V
               /\ at \in 1 .. Len(log) /\ About(c, at) => (log[at].on <=> c \in V)
        BY <1>3, <1>4, <2>1, BehindRows
      <3> QED
        BY <1>3, <1>4, <1>7, <3>1, <3>2 DEF Kept
    <2>3. \A w \in Writer : Active(w) => writer[w].ctl # c
      BY DEF Under
    <2>4. Holds(c, e, V)'
      BY <2>2, <2>3, HoldsGo
    <2> QED
      BY <1>6, <2>1, <2>4 DEF Holds, Firm, LastOp
  <1>8. ASSUME c = Session, (Session \in Latest)', Told(e)' PROVE Gone' \/ Leaving'
    <2>1. Session \in Latest /\ Behind(Session, e)
      BY <1>4, <1>6, <1>8
    <2>2. Told(e) => Gone \/ Leaving
      BY <1>1, <1>8, <2>1 DEF Brings
    <2> QED
      BY <1>3, <1>4, <1>8, <2>1, <2>2, SessionKept
  <1>9. Brings(c, e)'
    BY <1>5, <1>7, <1>8 DEF Brings
  <1> QED
    BY <1>3, <1>9 DEF Sheltered

-----------------------------------------------------------------------------
(* Every control is under way, owed for, or brought in step.               *)

\* A bump of a write made elsewhere, of another node, or of an election is one
\* that nobody here records.
LEMMA FreshElsewhere ==
    ASSUME IInv, Next, NEW c \in Control,
           \/ \E w \in Writer : BumpEpoch(w) /\ writer[w].node # Here
           \/ \E n \in Node : BumpCommit(n) /\ (n # Here \/ bumper[n].election)
    PROVE  Sheltered(c)'
  <1> USE DEF raft, applying, control, session, bumps
  <1>1. ASSUME NEW w \in Writer, BumpEpoch(w), writer[w].node # Here PROVE Sheltered(c)'
    <2>1. /\ log' = Append(log, Bump) /\ writer'[w].pc = "done"
          /\ \A v \in Writer \ {w} : writer'[v] = writer[v]
      BY <1>1, BumpEpochCall
    <2>2. UNCHANGED <<plane, reload, bumper>>
      BY <1>1 DEF BumpEpoch
    <2> QED
      BY <2>1, <2>2, Fresh
  <1>2. ASSUME NEW n \in Node, BumpCommit(n), n # Here \/ bumper[n].election PROVE Sheltered(c)'
    <2>1. log' = Append(log, Bump) /\ UNCHANGED <<plane, reload, writer>>
      BY <1>2 DEF BumpCommit
    <2>2. bumper \in [Node -> Bumper] /\ Here \in Node
      BY ControlAssumption DEF IInv, TypeInv
    <2>3. CASE n # Here
      <3>1. bumper'[Here] = bumper[Here]
        BY <1>2, <2>2, <2>3 DEF BumpCommit, BumpSettled
      <3> QED
        BY <2>1, <3>1, Fresh
    <2>4. CASE n = Here /\ bumper[n].election
      <3>1. bumper' = [bumper EXCEPT ![Here].pc = "wait", ![Here].idx = Len(log) + 1]
        BY <1>2, <2>4 DEF BumpCommit
      <3>2. bumper'[Here].election
        BY <2>2, <2>4, <3>1 DEF Bumper
      <3> QED
        BY <2>1, <3>2, Fresh
    <2> QED
      BY <1>2, <2>3, <2>4
  <1> QED
    BY <1>1, <1>2

\* What stands between c and the caches after a step.
Stands(c) == Under(c) \/ Owes(c) \/ Interregnum \/ Sheltered(c)

\* A write of c is under way: it goes on, or leaves its bump to be paid, or was
\* the last thing c needed.
LEMMA UnderStep ==
    ASSUME IInv, SoleInv, Next, NEW c \in Control, Under(c), c \notin excused'
    PROVE  Stands(c)'
  <1>1. PICK w \in Writer : Active(w) /\ writer[w].ctl = c
    BY DEF Under
  <1>2. writer[w] \in Call /\ writer[w].node \in Node
    BY <1>1 DEF IInv, TypeInv, CallInv, CallOK, Active
  <1>3. writer'[w].ctl = c
    BY <1>1, Begun DEF Active
  <1>4. CASE Active(w)'
    BY <1>3, <1>4 DEF Under, Stands
  <1>5. CASE WriteGivenUp(w)
    BY <1>1, <1>5 DEF WriteGivenUp
  <1>6. CASE Publish(w)
    <2>1. writer[w].node = Here
      BY <1>6 DEF Publish, IInv, CallInv, CallOK
    <2> QED
      BY <1>1, <1>6, <2>1, LocalApply DEF Stands
  <1>7. CASE BumpFails(w)
    <2>1. CASE writer[w].node = Here
      BY <1>1, <1>7, <2>1, LocalApply DEF Stands
    <2>2. CASE writer[w].node # Here
      <3>1. owed' = [owed EXCEPT ![writer[w].node] = @ \cup {w}] /\ owed \in [Node -> SUBSET Writer]
        BY <1>7 DEF BumpFails, IInv, TypeInv
      <3>2. PICK n \in Node \ {Here} : n = writer[w].node
        BY <1>2, <2>2
      <3>3. w \in owed'[n]
        BY <3>1, <3>2
      <3> QED
        BY <1>3, <3>3 DEF Owes, Stands
    <2> QED
      BY <2>1, <2>2
  <1>8. CASE BumpEpoch(w) /\ writer[w].node # Here
    BY <1>8, FreshElsewhere DEF Stands
  <1>9. ASSUME NEW n \in Node, Restart(n), writer[w].node = n PROVE FALSE
    <2>1. excused' = excused \cup {writer[v].ctl : v \in {u \in Writer : Active(u) /\ writer[u].node = n} \cup owed[n]}
      BY <1>9 DEF Restart
    <2> QED
      BY <1>1, <1>9, <2>1
  <1> QED
    BY <1>1, <1>4, <1>5, <1>6, <1>7, <1>8, <1>9, ActiveStep DEF ActiveGo, Ends

\* Another node owes a bump for c: it pays, or its debt is excused or goes with
\* the leader.
LEMMA OwesStep ==
    ASSUME IInv, OwedInv, Next, NEW c \in Control, Owes(c), c \notin excused'
    PROVE  Stands(c)'
  <1>1. PICK n \in Node \ {Here} : \E w \in owed[n] : writer[w].ctl = c
    BY DEF Owes
  <1>2. PICK w \in owed[n] : writer[w].ctl = c
    BY <1>1
  <1>3. w \in Writer
    BY DEF IInv, TypeInv
  <1>4. writer'[w].ctl = c
    BY <1>2, <1>3, Begun DEF OwedInv
  <1>5. CASE w \in owed'[n]
    BY <1>4, <1>5 DEF Owes, Stands
  <1>6. CASE BumpCommit(n)
    BY <1>6, FreshElsewhere DEF Stands
  <1>7. CASE Restart(n)
    <2>1. excused' = excused \cup {writer[v].ctl : v \in {u \in Writer : Active(u) /\ writer[u].node = n} \cup owed[n]}
      BY <1>7 DEF Restart
    <2> QED
      BY <1>2, <2>1
  <1>8. CASE BumpRefused(n) /\ w \in bumper[n].owed
    <2>1. CASE leader = Nobody
      BY <1>8, <2>1 DEF BumpRefused, raft, Interregnum, Stands
    <2>2. CASE leader # Nobody
      <3>1. excused' = excused \cup {writer[v].ctl : v \in bumper[n].owed}
        BY <1>8, <2>2 DEF BumpRefused
      <3> QED
        BY <1>2, <1>8, <3>1
    <2> QED
      BY <2>1, <2>2
  <1> QED
    BY <1>3, <1>5, <1>6, <1>7, <1>8, OfficeStep DEF OfficeGo

LEMMA DebtStep ==
    ASSUME IInv, SoleInv, OwedInv, DebtInv, Next
    PROVE  DebtInv'
  <1> SUFFICES ASSUME NEW c \in Control, c \notin excused' PROVE Stands(c)'
    BY DEF DebtInv, Stands
  <1>1. c \notin excused
    BY OfficeStep DEF OfficeGo
  <1>2. CASE Under(c)
    BY <1>2, UnderStep
  <1>3. CASE Owes(c)
    BY <1>3, OwesStep
  <1>4. CASE Interregnum
    <2>1. CASE Interregnum'
      BY <2>1 DEF Stands
    <2>2. ASSUME NEW n \in Node, BumpCommit(n), bumper[n].election PROVE Stands(c)'
      BY <2>2, FreshElsewhere DEF Stands
    <2> QED
      BY <1>4, <2>1, <2>2, OfficeStep DEF OfficeGo
  <1>5. CASE Sheltered(c) /\ ~Under(c)
    <2>1. ASSUME NEW w \in Writer, NEW n \in Node, NEW on \in BOOLEAN, WriteRow(w, n, c, on)
          PROVE  Stands(c)'
      <3>1. writer'[w].pc = "row" /\ writer'[w].ctl = c
        BY <2>1, WriteRowCall
      <3>2. Under(c)'
        BY <3>1 DEF Under, Active
      <3> QED
        BY <3>2 DEF Stands
    <2>2. CASE Spares(c)
      BY <1>5, <2>2, ShelterStep DEF Stands
    <2> QED
      BY <2>1, <2>2 DEF Spares
  <1> QED
    BY <1>1, <1>2, <1>3, <1>4, <1>5 DEF DebtInv

-----------------------------------------------------------------------------
(* The theorems.                                                           *)

LEMMA InitCache == Init => JInv
  <1> SUFFICES ASSUME Init PROVE JInv
    OBVIOUS
  <1>1. IInv
    BY InitInv
  <1>2. /\ log = <<>> /\ at = 0 /\ seen = 0 /\ install = "no" /\ plane = FreshPlane(0) /\ cache = {}
        /\ reload = NoReload /\ \A n \in Node : owed[n] = {}
        /\ \A w \in Writer : writer[w].pc = "idle"
        /\ \A n \in Node : bumper[n].pc = "idle" /\ Here \in Node
    BY ControlAssumption DEF Init, NoWrite, NoBump
  <1>3. /\ plane.applied = 0 /\ plane.ops = <<>> /\ reload.pc = "idle" /\ reload.by = "thread"
        /\ reload.scan = {}
    BY <1>2 DEF FreshPlane, NoReload
  <1>4. Len(log) = 0 /\ 1 .. Len(log) = {} /\ Len(<<>>) = 0 /\ 1 .. Len(<<>>) = {}
    BY <1>2
  <1>5. SoleInv
    BY <1>2 DEF SoleInv, Active
  <1>6. OwedInv
    BY <1>2 DEF OwedInv
  <1>7. ApartInv
    BY <1>2, <1>3, <1>4 DEF ApartInv
  <1>8. EpochAt(0) = 0
    <2>1. BumpsIn(log, 0) = {}
      BY DEF BumpsIn
    <2> QED
      BY <2>1, EpIs, FS_EmptySet DEF Ep
  <1>9. SignalInv
    <2>1. EpochAt(Reached) <= plane.applied
      BY <1>2, <1>3, <1>8 DEF Reached
    <2>2. at <= seen + 1
      BY <1>2
    <2> QED
      BY <1>3, <2>1, <2>2 DEF SignalInv, Heard
  <1>10. ASSUME NEW c \in Control PROVE Sheltered(c)
    <2>1. c \notin Latest
      <3>1. PICK s : s = SubSeq(log, 1, 0)
        OBVIOUS
      <3>2. Len(s) = 0 /\ 0 \in Nat
        BY <1>1, <3>1 DEF IInv, TypeInv
      <3>3. c \in After({}, s) <=> c \in {}
        <4>1. \/ /\ \A i \in 1 .. 0 : ~ (s[i].op = "row" /\ s[i].ctl = c)
                 /\ c \in After({}, s) <=> c \in {}
              \/ \E m \in 1 .. 0 :
                    /\ s[m].op = "row" /\ s[m].ctl = c /\ (c \in After({}, s) <=> s[m].on)
                    /\ \A i \in m + 1 .. 0 : ~ (s[i].op = "row" /\ s[i].ctl = c)
          BY <3>2, AfterLast
        <4> QED
          BY <4>1
      <3> QED
        BY <1>4, <3>1, <3>3 DEF Latest, RowsAt
    <2>2. Free(0) /\ Behind(c, 0)
      BY <1>4 DEF Free, Behind
    <2>3. Holds(c, 0, Latest)
      BY <1>2, <1>3, <2>1 DEF Holds, Firm
    <2>4. c = Session => Session \notin Latest
      BY <2>1
    <2>5. Brings(c, 0)
      BY <2>2, <2>3, <2>4 DEF Brings
    <2>6. 0 \in 0 .. EpochAt(Len(log))
      BY <1>4, <1>8
    <2> QED
      BY <2>5, <2>6 DEF Sheltered
  <1>11. DebtInv
    BY <1>10 DEF DebtInv
  <1> QED
    BY <1>1, <1>5, <1>6, <1>7, <1>9, <1>11 DEF JInv

LEMMA StutterCache == JInv /\ UNCHANGED vars => JInv'
  <1> SUFFICES ASSUME JInv, UNCHANGED vars PROVE JInv'
    OBVIOUS
  <1> USE DEF vars
  <1>1. IInv'
    BY Stutters DEF JInv
  <1>2. SoleInv'
    BY DEF JInv, SoleInv, SoleOK, Active, About, Latest, RowsAt
  <1>3. DebtInv'
    <2>1. ASSUME NEW c, NEW e, Brings(c, e) PROVE Brings(c, e)'
      <3>1. Free(e)' /\ Behind(c, e)'
        BY <2>1 DEF Brings, Free, Behind, About, EpochAt
      <3>2. Latest' = Latest
        BY DEF Latest, RowsAt
      <3>3. c # Session => Holds(c, e, Latest)'
        BY <2>1, <3>2 DEF Brings, Holds, Firm, LastOp, Told, Rebasing, Sound
      <3>4. c = Session /\ (Session \in Latest)' /\ Told(e)' => Gone' \/ Leaving'
        BY <2>1, <3>2 DEF Brings, Gone, Leaving, Noticed, Told, RowsAt
      <3> QED
        BY <3>1, <3>3, <3>4 DEF Brings
    <2>2. EpochAt(Len(log))' = EpochAt(Len(log))
      BY DEF EpochAt
    <2>3. \A c : Sheltered(c) => Sheltered(c)'
      BY <2>1, <2>2 DEF Sheltered
    <2>4. \A c : Under(c) \/ Owes(c) \/ Interregnum => Under(c)' \/ Owes(c)' \/ Interregnum'
      BY DEF Under, Owes, Interregnum, Active
    <2> QED
      BY <2>3, <2>4 DEF JInv, DebtInv
  <1>4. SignalInv'
    BY DEF JInv, SignalInv, Heard, Reached, Sound, EpochAt
  <1>5. OwedInv' /\ ApartInv'
    BY DEF JInv, OwedInv, ApartInv
  <1> QED
    BY <1>1, <1>2, <1>3, <1>4, <1>5 DEF JInv

LEMMA StepCache == JInv /\ [Next]_vars => JInv'
  <1> SUFFICES ASSUME JInv, [Next]_vars PROVE JInv'
    OBVIOUS
  <1>1. CASE UNCHANGED vars
    BY <1>1, StutterCache
  <1>2. CASE Next
    <2>1. IInv /\ SoleInv /\ DebtInv /\ SignalInv /\ OwedInv /\ ApartInv
      BY DEF JInv
    <2>2. IInv'
      BY <1>2, <2>1, StepInv
    <2> QED
      BY <1>2, <2>1, <2>2, SoleStep, DebtStep, SignalStep, OwedStep, ApartStep DEF JInv
  <1> QED
    BY <1>1, <1>2

\* Every control, unless it is excused, is being written, owed a bump by another
\* node, waiting for a leader's election bump, or brought in step by an epoch
\* that every reload to come has to reach: no interleaving of writes, bumps,
\* reloads, snapshots, elections and restarts leaves it with none of these.
THEOREM CacheInvariance == Spec => []JInv
  <1> USE DEF vars
  <1>1. Init => JInv
    BY InitCache
  <1>2. JInv /\ [Next]_vars => JInv'
    BY StepCache
  <1> QED
    BY <1>1, <1>2, PTL DEF Spec

\* When nothing is left to do the node has been told of the last epoch.
LEMMA SettledTold ==
    ASSUME JInv, Settled
    PROVE  \A e \in 0 .. EpochAt(Len(log)) : Told(e)
  <1>1. /\ seen = Len(log) /\ install = "no" /\ reload.pc = "idle" /\ ~plane.force
        /\ ~ (plane.target > plane.applied)
    BY DEF Settled, ReloadWanted
  <1>2. /\ plane.applied \in Nat /\ plane.target \in Nat /\ EpochAt(Reached) \in Nat
    BY ReachedEpoch DEF JInv, IInv, TypeInv, Plane
  <1>3. Heard /\ Reached = Len(log)
    BY <1>1 DEF JInv, SignalInv, Sound, Reached
  <1>4. EpochAt(Len(log)) <= plane.applied /\ EpochAt(Len(log)) \in Nat
    BY <1>1, <1>2, <1>3 DEF Heard
  <1> QED
    BY <1>2, <1>4 DEF Told

LEMMA CacheAgrees == JInv => CachesInStep
  <1> SUFFICES ASSUME JInv, Settled PROVE InStep
    BY DEF CachesInStep
  <1>1. /\ \A w \in Writer : ~Active(w)
        /\ \A n \in Node : owed[n] = {} /\ ~due[n] /\ bumper[n].pc = "idle"
        /\ leader # Nobody /\ install = "no" /\ reload.pc = "idle" /\ fill.pc # "recheck"
    BY DEF Settled
  <1>2. leader \in Node /\ cache \subseteq Control /\ IInv /\ ~plane.force
    BY <1>1 DEF JInv, IInv, TypeInv, Settled, ReloadWanted
  <1>3. ~Rebasing
    BY <1>1, <1>2 DEF Rebasing, IInv, ReloadInv
  <1>4. ASSUME NEW c \in Control \ excused PROVE Sheltered(c)
    <2>1. ~Under(c) /\ ~Owes(c)
      BY <1>1 DEF Under, Owes
    <2>2. ~Interregnum
      BY <1>1, <1>2 DEF Interregnum
    <2> QED
      BY <2>1, <2>2 DEF JInv, DebtInv
  <1>5. ASSUME NEW c \in Control \ excused, c # Session PROVE c \in cache <=> c \in Latest
    <2>1. PICK e \in 0 .. EpochAt(Len(log)) : Brings(c, e)
      BY <1>4 DEF Sheltered
    <2>2. Told(e)
      BY SettledTold
    <2> QED
      BY <1>3, <1>5, <2>1, <2>2 DEF Brings, Holds, Firm
  <1>6. Session \in Latest /\ Session \notin excused => ~held
    <2>1. ASSUME Session \in Latest, Session \notin excused PROVE ~held
      <3>1. Session \in Control
        BY ControlAssumption
      <3>2. PICK e \in 0 .. EpochAt(Len(log)) : Brings(Session, e)
        BY <1>4, <2>1, <3>1 DEF Sheltered
      <3>3. Told(e)
        BY SettledTold
      <3>4. Gone
        BY <1>1, <2>1, <3>2, <3>3 DEF Brings, Leaving
      <3> QED
        BY <1>1, <3>4 DEF Gone
    <2> QED
      BY <2>1
  <1>7. Latest \subseteq Control /\ Session \notin cache
    BY AfterType DEF Latest, RowsAt, JInv, ApartInv
  <1>8. cache \ excused = Latest \ (excused \cup {Session})
    BY <1>2, <1>5, <1>7
  <1> QED
    BY <1>6, <1>8 DEF InStep, Latest

\* When nothing is left to do, the caches agree with the rows: what the run
\* checks of a few writes and faults, for any number of them.
THEOREM CachesStayInStep == Spec => []CachesInStep
  BY CacheInvariance, CacheAgrees, PTL

=============================================================================
