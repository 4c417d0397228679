--------------------- MODULE ClusterStateMachineProofs ---------------------
(***************************************************************************)
(* Proofs about ClusterStateMachine: what a node holds, and what a served  *)
(* snapshot leads to, is what the log says (Converges,                     *)
(* ServedSnapshotSound), for any nodes, commands and bounds.               *)
(***************************************************************************)
EXTENDS ClusterStateMachine, FiniteSetTheorems, NaturalsInduction,
        WellFoundedInduction, FunctionTheorems, TLAPS

-----------------------------------------------------------------------------
(* Sets of numbers.                                                        *)

\* A nonempty set of naturals has a least element.
LEMMA SmallestOf ==
    ASSUME NEW S \in SUBSET Nat, S # {}
    PROVE  Min(S) \in S /\ \A y \in S : Min(S) <= y
  <1> DEFINE R == {ss \in Nat \X Nat : ss[1] < ss[2]}
  <1>1. IsWellFoundedOn(R, Nat)
    BY NatLessThanWellFounded DEF OpToRel
  <1> HIDE DEF R
  <1>2. PICK x \in S : \A y \in S : ~ (<<y, x>> \in R)
    BY <1>1, WFMin
  <1>3. ASSUME NEW y \in S PROVE x <= y
    <2>1. x \in Nat /\ y \in Nat /\ ~ (<<y, x>> \in R)
      BY <1>2
    <2>2. <<y, x>> \in Nat \X Nat
      BY <2>1
    <2>3. ~ (y < x)
      BY <2>1, <2>2 DEF R
    <2> QED
      BY <2>1, <2>3
  <1> QED
    BY <1>2, <1>3 DEF Min

LEMMA MaxIs ==
    ASSUME NEW S \in SUBSET Nat, NEW x \in S, \A y \in S : y <= x
    PROVE  Max(S) = x
  <1>1. Max(S) \in S /\ \A y \in S : Max(S) >= y
    BY DEF Max
  <1>2. PICK m : m = Max(S)
    OBVIOUS
  <1>3. m \in Nat /\ x \in Nat /\ m >= x /\ m <= x
    BY <1>1, <1>2
  <1> QED
    BY <1>2, <1>3

\* A bounded, nonempty set of naturals has its Max.
LEMMA LargestOf ==
    ASSUME NEW n \in Nat, NEW S \in SUBSET (1..n), S # {}
    PROVE  Max(S) \in S /\ \A y \in S : y <= Max(S)
  <1> DEFINE T == {n - y : y \in S}
  <1>1. T \in SUBSET Nat /\ T # {}
    <2>1. ASSUME NEW y \in S PROVE n - y \in Nat
      OBVIOUS
    <2> QED
      BY <2>1
  <1>2. Min(T) \in T /\ \A t \in T : Min(T) <= t
    <2> HIDE DEF T
    <2> QED
      BY <1>1, SmallestOf
  <1>3. PICK x \in S : Min(T) = n - x
    BY <1>2
  <1>4. ASSUME NEW y \in S PROVE y <= x
    <2>1. n - x <= n - y
      BY <1>2, <1>3
    <2>2. x \in Int /\ y \in Int /\ n \in Int
      OBVIOUS
    <2> QED
      BY <2>1, <2>2
  <1>5. S \in SUBSET Nat
    OBVIOUS
  <1> QED
    BY <1>4, <1>5, MaxIs

LEMMA MaxOfTwo ==
    ASSUME NEW a \in Nat, NEW b \in Nat
    PROVE  Max({a, b}) = IF a <= b THEN b ELSE a
  <1>1. CASE a <= b
    BY <1>1, MaxIs
  <1>2. CASE ~ (a <= b)
    BY <1>2, MaxIs
  <1> QED
    BY <1>1, <1>2

-----------------------------------------------------------------------------
(* The last of the rows stored counts.                                     *)

LEMMA LatestNone ==
    ASSUME NEW S, NEW b \in Seq(S), NEW key, NEW old,
           \A j \in DOMAIN b : b[j].key # key
    PROVE  Latest(b, key, old) = old
  BY DEF Latest

\* Row j of b is the last one named key.
LastRow(b, key, j) ==
    /\ j \in DOMAIN b /\ b[j].key = key
    /\ \A l \in DOMAIN b : b[l].key = key => l <= j

LEMMA LatestIs ==
    ASSUME NEW S, NEW b \in Seq(S), NEW key, NEW old, NEW j, LastRow(b, key, j)
    PROVE  Latest(b, key, old) = b[j].value
  <1> DEFINE writes == {l \in DOMAIN b : b[l].key = key}
  <1>1. writes \in SUBSET Nat /\ j \in writes /\ \A y \in writes : y <= j
    BY DEF LastRow
  <1>2. Max(writes) = j
    <2> HIDE DEF writes
    <2> QED
      BY <1>1, MaxIs
  <1>3. writes # {}
    BY <1>1
  <1> QED
    BY <1>2, <1>3 DEF Latest

LEMMA LatestHas ==
    ASSUME NEW S, NEW b \in Seq(S), NEW key,
           \E j \in DOMAIN b : b[j].key = key
    PROVE  \E j : LastRow(b, key, j)
  <1> DEFINE writes == {l \in DOMAIN b : b[l].key = key}
  <1>1. writes \in SUBSET (1..Len(b)) /\ writes # {} /\ Len(b) \in Nat
    OBVIOUS
  <1>2. Max(writes) \in writes /\ \A y \in writes : y <= Max(writes)
    <2> HIDE DEF writes
    <2> QED
      BY <1>1, LargestOf
  <1> QED
    BY <1>2 DEF LastRow

\* Rows stored after others: the later ones count first.
LEMMA LatestJoin ==
    ASSUME NEW S, NEW a \in Seq(S), NEW b \in Seq(S), NEW key, NEW old
    PROVE  Latest(a \o b, key, old) = Latest(b, key, Latest(a, key, old))
  <1>1. PICK s : s = a \o b
    OBVIOUS
  <1>2. PICK p : p = Len(a)
    OBVIOUS
  <1>3. PICK q : q = Len(b)
    OBVIOUS
  <1>4. /\ s \in Seq(S) /\ p \in Nat /\ q \in Nat
        /\ DOMAIN s = 1..(p + q) /\ DOMAIN a = 1..p /\ DOMAIN b = 1..q
    BY <1>1, <1>2, <1>3
  <1>5. ASSUME NEW j \in 1..p PROVE j \in DOMAIN s /\ s[j] = a[j]
    BY <1>1, <1>2, <1>3, <1>4
  <1>6. ASSUME NEW j \in 1..q PROVE p + j \in DOMAIN s /\ s[p + j] = b[j]
    BY <1>1, <1>2, <1>3, <1>4
  <1>7. ASSUME NEW l \in DOMAIN s
        PROVE  \/ l \in 1..p
               \/ \E j \in 1..q : l = p + j
    <2>1. l \in Nat /\ l <= p + q /\ 1 <= l
      BY <1>4
    <2>2. CASE l <= p
      BY <2>1, <2>2, <1>4
    <2>3. CASE ~ (l <= p)
      <3>1. l - p \in 1..q /\ l = p + (l - p)
        BY <2>1, <2>3, <1>4
      <3> QED
        BY <3>1
    <2> QED
      BY <2>2, <2>3
  <1>8. CASE \E j \in DOMAIN b : b[j].key = key
    <2>0. PICK j : LastRow(b, key, j)
      BY <1>8, LatestHas
    <2>1. /\ j \in DOMAIN b /\ b[j].key = key
          /\ \A l \in DOMAIN b : b[l].key = key => l <= j
      BY <2>0 DEF LastRow
    <2>2. Latest(b, key, Latest(a, key, old)) = b[j].value
      BY <2>0, LatestIs
    <2>3. j \in 1..q /\ p + j \in DOMAIN s /\ s[p + j] = b[j]
      BY <1>4, <1>6, <2>1
    <2>4. ASSUME NEW l \in DOMAIN s, s[l].key = key PROVE l <= p + j
      <3>1. CASE l \in 1..p
        BY <1>4, <2>3, <3>1
      <3>2. CASE \E i \in 1..q : l = p + i
        <4>1. PICK i \in 1..q : l = p + i
          BY <3>2
        <4>2. b[i].key = key
          BY <1>6, <2>4, <4>1
        <4>3. i <= j
          BY <1>4, <2>1, <4>2
        <4> QED
          BY <1>4, <2>3, <4>1, <4>3
      <3> QED
        BY <1>7, <3>1, <3>2
    <2>5. Latest(s, key, old) = s[p + j].value
      <3>1. LastRow(s, key, p + j)
        BY <2>1, <2>3, <2>4 DEF LastRow
      <3> QED
        BY <1>4, <3>1, LatestIs
    <2> QED
      BY <1>1, <2>2, <2>3, <2>5
  <1>9. CASE ~ \E j \in DOMAIN b : b[j].key = key
    <2>1. Latest(b, key, Latest(a, key, old)) = Latest(a, key, old)
      BY <1>9, LatestNone
    <2>2. CASE \E j \in DOMAIN a : a[j].key = key
      <3>0. PICK j : LastRow(a, key, j)
        BY <2>2, LatestHas
      <3>1. /\ j \in DOMAIN a /\ a[j].key = key
            /\ \A l \in DOMAIN a : a[l].key = key => l <= j
        BY <3>0 DEF LastRow
      <3>2. Latest(a, key, old) = a[j].value
        BY <3>0, LatestIs
      <3>3. j \in 1..p /\ j \in DOMAIN s /\ s[j] = a[j]
        BY <1>4, <1>5, <3>1
      <3>4. ASSUME NEW l \in DOMAIN s, s[l].key = key PROVE l <= j
        <4>1. CASE l \in 1..p
          BY <1>4, <1>5, <3>1, <3>4, <4>1
        <4>2. CASE \E i \in 1..q : l = p + i
          BY <1>4, <1>6, <1>9, <3>4, <4>2
        <4> QED
          BY <1>7, <4>1, <4>2
      <3>5. Latest(s, key, old) = s[j].value
        <4>1. LastRow(s, key, j)
          BY <3>1, <3>3, <3>4 DEF LastRow
        <4> QED
          BY <1>4, <4>1, LatestIs
      <3> QED
        BY <1>1, <2>1, <3>2, <3>3, <3>5
    <2>3. CASE ~ \E j \in DOMAIN a : a[j].key = key
      <3>1. Latest(a, key, old) = old
        BY <2>3, LatestNone
      <3>2. ASSUME NEW l \in DOMAIN s PROVE s[l].key # key
        <4>1. CASE l \in 1..p
          BY <1>4, <1>5, <2>3, <4>1
        <4>2. CASE \E i \in 1..q : l = p + i
          BY <1>4, <1>6, <1>9, <4>2
        <4> QED
          BY <1>7, <4>1, <4>2
      <3>3. Latest(s, key, old) = old
        BY <1>4, <3>2, LatestNone
      <3> QED
        BY <1>1, <2>1, <3>1, <3>3
    <2> QED
      BY <2>2, <2>3
  <1> QED
    BY <1>8, <1>9

LEMMA LatestRow ==
    ASSUME NEW r, NEW key, NEW old
    PROVE  Latest(<<r>>, key, old) = IF r.key = key THEN r.value ELSE old
  <1>1. PICK b : b = <<r>>
    OBVIOUS
  <1>2. b \in Seq({r}) /\ DOMAIN b = {1} /\ b[1] = r
    BY <1>1
  <1>3. CASE r.key = key
    <2>1. Latest(b, key, old) = b[1].value
      <3>1. LastRow(b, key, 1)
        BY <1>2, <1>3 DEF LastRow
      <3> QED
        BY <1>2, <3>1, LatestIs
    <2> QED
      BY <1>1, <1>2, <1>3, <2>1
  <1>4. CASE r.key # key
    <2>1. Latest(b, key, old) = old
      BY <1>2, <1>4, LatestNone
    <2> QED
      BY <1>1, <1>4, <2>1
  <1> QED
    BY <1>3, <1>4

LEMMA LatestEmpty ==
    ASSUME NEW key, NEW old
    PROVE  Latest(<<>>, key, old) = old
  BY DEF Latest

-----------------------------------------------------------------------------
(* The inductive invariant.  Rows of a store are compared with the log lg: *)
(* the store was left by entries 1..j, and may hold rows of entries up to  *)
(* u, which are going to be applied over it.                               *)

(* What a row may hold when the log has len entries. *)
RowValue(row, len) ==
    IF row = Counter THEN Nat \union {Absent, Bad}
    ELSE IF row = Sidecar THEN Nat \union {Absent}
    ELSE IF row = Plain THEN Value \union {Absent}
    ELSE (0..len) \union {Absent}

StoreOK(rows, len) ==
    /\ rows = [row \in Rows |-> rows[row]]
    /\ \A row \in Rows : rows[row] \in RowValue(row, len)

Increments(c) == c.op = "increment"

(* The entry sets or removes the key whatever it held. *)
Overwrites(c, key) ==
    /\ c.op = "write"
    /\ key \in ToSet(c.deletes) \/ \E j \in DOMAIN c.puts : c.puts[j].key = key

Over(lg, key, j, u) == \E i \in (j + 1)..u : Overwrites(lg[i], key)

(* The plain key holds what the log says at one of the points j..u, or an  *)
(* entry still to be applied will set it.                                  *)
PlainOK(lg, y, j, u) ==
    \/ Over(lg, Plain, j, u)
    \/ \E k \in j..u : y = Reference(lg, k)[Plain]

(* The sidecar of a counter after entry k. *)
SideAt(lg, d, k) ==
    /\ d # Absent => d \in 0..k
    /\ \A i \in 1..k : Increments(lg[i]) => d # Absent /\ i <= d

(* The same for a counter and its sidecar, both from one point. *)
PairOK(lg, x, d, j, u) ==
    \/ Over(lg, Counter, j, u)
    \/ \E k \in j..u : x = Reference(lg, k)[Counter] /\ SideAt(lg, d, k)

(* A counter incremented so far has a sidecar. *)
SideKept(lg, d, j) == \A i \in 1..j : Increments(lg[i]) => d # Absent

CounterOK(lg, x, d, j, u) == PairOK(lg, x, d, j, u) /\ SideKept(lg, d, j)

DataOK(lg, rows, j, u, tn) ==
    /\ PlainOK(lg, rows[Plain], j, u)
    /\ ~tn => CounterOK(lg, rows[Counter], rows[Sidecar], j, u)

Reach(a, f) == IF f <= a THEN a ELSE f

(* The effect of entry i on the plain key. *)
StepPlain(c, y) ==
    IF c.op = "write" THEN Written(c, Plain, y)
    ELSE IF c.op = "put_if_absent" /\ c.key = Plain /\ y = Absent THEN c.value
    ELSE y

SideMoved(d, i) == IF d = Absent THEN Absent ELSE i

(* The effect of entry i on a counter x and its sidecar d. *)
StepPair(c, i, x, d, x2, d2) ==
    IF Increments(c)
    THEN IF x = Bad THEN x2 = i /\ d2 = i
         ELSE IF d # Absent /\ i <= d THEN x2 = x /\ d2 = d
         ELSE x2 = Decoded(x) + 1 /\ d2 = i
    ELSE IF Overwrites(c, Counter)
    THEN x2 = Written(c, Counter, x) /\ d2 = SideMoved(d, i)
    ELSE IF c.op = "put_if_absent" /\ c.key = Counter /\ x = Absent
    THEN x2 = c.value /\ d2 = SideMoved(d, i)
    ELSE x2 = x /\ d2 = d

(* fin is what entry i makes of rows. *)
Applied(rows, c, i, fin) ==
    /\ fin[Plain] = StepPlain(c, rows[Plain])
    /\ StepPair(c, i, rows[Counter], rows[Sidecar], fin[Counter], fin[Sidecar])
    /\ \A r \in Realms : fin[r] = IF r = CommandRealm(c) THEN i ELSE rows[r]

AnyRow == [key : Rows, value : Nat \union {Absent, Bad} \union Value]

(* The rows b of entry i are on their way into m; d holds none of them. *)
RowsOK(b, len) ==
    /\ b \in Seq(AnyRow)
    /\ \A j \in DOMAIN b : b[j].value \in RowValue(b[j].key, len)

Pending(m, d, b, c) ==
    \A key \in {Counter, Sidecar, Plain} : \A j \in DOMAIN b :
        b[j].key = key =>
            \/ Overwrites(c, key)
            \/ /\ m[key] = d[key]
               /\ \A l \in DOMAIN b : b[l].key = key => l = j

FlightOK(lg, m, d, b, la) ==
    /\ la + 1 <= Len(lg)
    /\ RowsOK(b, Len(lg))
    /\ Applied(d, lg[la + 1], la + 1, StoreAll(m, b))
    /\ Pending(m, d, b, lg[la + 1])

SnapType(s, len) ==
    /\ s = [index |-> s.index, data |-> s.data, upto |-> s.upto,
            torn |-> s.torn, mixed |-> s.mixed]
    /\ s.index \in 1..len /\ s.upto \in s.index..len
    /\ s.torn \in BOOLEAN /\ s.mixed \in BOOLEAN
    /\ StoreOK(s.data, len)
    /\ \A r \in Realms : s.data[r] = Absent

SnapOK(lg, s) == s.mixed \/ DataOK(lg, s.data, s.index, s.upto, s.torn)

(* A build that no install has raced. *)
Clean(bd, sl, inst) == inst = None /\ (sl = None \/ sl.index <= bd.index)

Todos == {<<Counter, Sidecar, Plain>>, <<Counter, Sidecar>>,
          <<Sidecar, Plain>>, <<Sidecar>>, <<Plain>>, <<>>}

BuildType(bd, la, len) ==
    /\ bd = [index |-> bd.index, data |-> bd.data, todo |-> bd.todo,
             torn |-> bd.torn]
    /\ bd.index \in 1..la /\ bd.todo \in Todos /\ bd.torn \in BOOLEAN
    /\ StoreOK(bd.data, len)
    /\ \A r \in Realms : bd.data[r] = Absent

(* What a clean build has read is good for its index and the point u the   *)
(* node has reached.                                                       *)
ScanOK(lg, bd, u, tn) ==
    /\ tn => bd.torn
    /\ Plain \notin ToSet(bd.todo) => PlainOK(lg, bd.data[Plain], bd.index, u)
    /\ Sidecar \notin ToSet(bd.todo) /\ ~bd.torn =>
          CounterOK(lg, bd.data[Counter], bd.data[Sidecar], bd.index, u)

BuildOK(lg, b, la, bd, sl, inst, fz, tn, mx) ==
    /\ BuildType(bd, la, Len(lg))
    /\ Clean(bd, sl, inst) /\ ~mx =>
          ScanOK(lg, bd, Reach(IF b = <<>> THEN la ELSE la + 1, fz), tn)

(* A store being cleared. *)
ClearOK(lg, d, inst, fz, tn, mx) ==
    /\ inst.meta
    /\ inst.put = ListRealms(inst.snap.data)
    /\ \A row \in Rows : RealmOf(row) \notin ToSet(inst.clear) =>
                             d[row] = Absent
    /\ ~mx => DataOK(lg, d, 0, fz, tn)

(* A store being filled. *)
FillOK(d, inst) ==
    /\ \A row \in Rows : row # "meta" =>
          d[row] = IF RealmOf(row) \in ToSet(inst.put) THEN Absent
                   ELSE inst.snap.data[row]
    /\ d["meta"] = IF inst.meta THEN Absent ELSE inst.snap.index
    /\ ~inst.meta => inst.put = <<>>

Puts == {<<"acct", "data">>, <<"acct">>, <<"data">>, <<>>}

Clears == Puts \union {<<"meta", "acct", "data">>, <<"meta", "acct">>,
                       <<"meta", "data">>, <<"meta">>}

InstallOK(lg, d, b, la, isUp, inst, fz, tn, mx) ==
    /\ inst = [snap |-> inst.snap, clear |-> inst.clear, put |-> inst.put,
               meta |-> inst.meta]
    /\ inst.clear \in Clears /\ inst.put \in Puts
    /\ inst.meta \in BOOLEAN
    /\ SnapType(inst.snap, Len(lg)) /\ SnapOK(lg, inst.snap)
    /\ inst.snap.upto <= fz
    /\ b = <<>>
    /\ isUp => la < inst.snap.index
    /\ IF inst.clear # <<>> THEN ClearOK(lg, d, inst, fz, tn, mx)
       ELSE FillOK(d, inst)

(* One node: its rows m in the map and d on disk, the batch b in flight,   *)
(* last_applied la, the build bd, the slot sl, the install inst and the    *)
(* history.                                                                *)
NodeOK(lg, m, d, b, la, isUp, bd, sl, inst, fz, tn, mx) ==
    /\ StoreOK(m, Len(lg)) /\ StoreOK(d, Len(lg))
    /\ la \in 0..Len(lg) /\ fz \in 0..Len(lg)
    /\ isUp \in BOOLEAN /\ tn \in BOOLEAN /\ mx \in BOOLEAN
    /\ ~isUp => b = <<>> /\ bd = None /\ sl = None
    /\ b = <<>> => m = d
    /\ b # <<>> => FlightOK(lg, m, d, b, la) /\ inst = None
    /\ isUp /\ inst = None => la = LoadAppliedState(d)
    /\ inst = None /\ ~mx =>
          DataOK(lg, d, LoadAppliedState(d), Reach(LoadAppliedState(d), fz), tn)
    /\ inst # None => InstallOK(lg, d, b, la, isUp, inst, fz, tn, mx)
    /\ bd # None => BuildOK(lg, b, la, bd, sl, inst, fz, tn, mx)
    /\ sl # None => /\ SnapType(sl, Len(lg)) /\ sl.index <= la
                    /\ inst = None => SnapOK(lg, sl)

NodeSound(n) == NodeOK(log, mem[n], disk[n], batch[n], last[n], n \in up,
                     build[n], slot[n], install[n], fuzz[n], n \in torn,
                     n \in mixed)

PerNode(F) == F = [n \in Node |-> F[n]]

Inv ==
    /\ log \in Seq(Command)
    /\ PerNode(mem) /\ PerNode(disk) /\ PerNode(batch) /\ PerNode(last)
    /\ PerNode(build) /\ PerNode(slot) /\ PerNode(install) /\ PerNode(fuzz)
    /\ up \subseteq Node
    /\ \A n \in Node : NodeSound(n)

-----------------------------------------------------------------------------
(* What the log says, entry by entry.                                      *)

NoKeys == [key \in {Counter, Plain} |-> Absent]

RefRun(f, lg, n) ==
    f = [j \in 0..n |-> IF j = 0 THEN NoKeys ELSE After(f[j - 1], lg[j], j)]

\* A function that runs through the entries up to end as Reference does exists.
LEMMA RefRuns ==
    ASSUME NEW lg, NEW end \in Nat
    PROVE  \E f : RefRun(f, lg, end)
  <1> DEFINE bad == {n \in 0..end : ~ \E f : RefRun(f, lg, n)}
  <1>1. SUFFICES ASSUME bad # {} PROVE FALSE
    OBVIOUS
  <1>2. PICK m : m = Min(bad)
    OBVIOUS
  <1>3. m \in bad /\ \A y \in bad : m <= y
    <2>1. bad \in SUBSET Nat
      OBVIOUS
    <2> HIDE DEF bad
    <2> QED
      BY <1>1, <1>2, <2>1, SmallestOf
  <1>4. CASE m = 0
    <2>1. PICK f : f = [j \in 0..0 |-> NoKeys]
      OBVIOUS
    <2>2. RefRun(f, lg, 0)
      BY <2>1 DEF RefRun
    <2> QED
      BY <1>3, <1>4, <2>2
  <1>5. CASE m # 0
    <2>1. m \in Nat /\ m - 1 \in 0..end /\ m > 0
      BY <1>3, <1>5
    <2>2. m - 1 \notin bad
      BY <1>3, <2>1
    <2>3. PICK f : RefRun(f, lg, m - 1)
      BY <2>1, <2>2
    <2>4. PICK x : x = After(f[m - 1], lg[m], m)
      OBVIOUS
    <2>5. PICK g : g = [j \in 0..m |-> IF j = m THEN x ELSE f[j]]
      OBVIOUS
    <2>6. ASSUME NEW j \in 0..m
          PROVE  g[j] = IF j = 0 THEN NoKeys ELSE After(g[j - 1], lg[j], j)
      <3>1. CASE j = m
        <4>1. m - 1 \in 0..m /\ m - 1 # m
          BY <2>1
        <4>2. g[m - 1] = f[m - 1] /\ g[m] = x
          BY <2>1, <2>5, <4>1
        <4> QED
          BY <1>5, <2>4, <3>1, <4>2
      <3>2. CASE j # m
        <4>1. j \in 0..(m - 1) /\ g[j] = f[j]
          BY <2>1, <2>5, <3>2
        <4>2. CASE j = 0
          BY <2>3, <4>1, <4>2 DEF RefRun
        <4>3. CASE j # 0
          <5>1. j - 1 \in 0..m /\ j - 1 # m
            BY <2>1, <4>1, <4>3
          <5>2. g[j - 1] = f[j - 1]
            BY <2>5, <5>1
          <5>3. f[j] = After(f[j - 1], lg[j], j)
            BY <2>3, <4>1, <4>3 DEF RefRun
          <5> QED
            BY <4>1, <4>3, <5>2, <5>3
        <4> QED
          BY <4>2, <4>3
      <3> QED
        BY <3>1, <3>2
    <2>7. RefRun(g, lg, m)
      <3>1. g = [j \in 0..m |-> g[j]]
        BY <2>5
      <3> QED
        BY <2>6, <3>1 DEF RefRun
    <2> QED
      BY <1>3, <2>7
  <1> QED
    BY <1>4, <1>5

LEMMA RefRunsAgree ==
    ASSUME NEW lg, NEW lg2, NEW f, NEW g, NEW n \in Nat, NEW n2 \in Nat,
           RefRun(f, lg, n), RefRun(g, lg2, n2),
           NEW k \in Nat, k <= n, k <= n2,
           \A i \in 1..k : lg[i] = lg2[i]
    PROVE  f[k] = g[k]
  <1> DEFINE bad == {j \in 0..k : f[j] # g[j]}
  <1>1. SUFFICES ASSUME bad # {} PROVE FALSE
    OBVIOUS
  <1>2. PICK m : m = Min(bad)
    OBVIOUS
  <1>3. m \in bad /\ \A y \in bad : m <= y
    <2>1. bad \in SUBSET Nat
      OBVIOUS
    <2> HIDE DEF bad
    <2> QED
      BY <1>1, <1>2, <2>1, SmallestOf
  <1>4. m \in Nat /\ m <= k /\ m \in 0..n /\ m \in 0..n2 /\ f[m] # g[m]
    BY <1>3
  <1>5. CASE m = 0
    BY <1>4, <1>5 DEF RefRun
  <1>6. CASE m # 0
    <2>1. m - 1 \in 0..k /\ m - 1 < m /\ m \in 1..k
      BY <1>4, <1>6
    <2>2. m - 1 \notin bad
      BY <1>3, <1>4, <2>1
    <2>3. f[m - 1] = g[m - 1]
      BY <2>1, <2>2
    <2>4. f[m] = After(f[m - 1], lg[m], m)
      BY <1>4, <1>6 DEF RefRun
    <2>5. g[m] = After(g[m - 1], lg2[m], m)
      BY <1>4, <1>6 DEF RefRun
    <2> QED
      BY <1>4, <2>1, <2>3, <2>4, <2>5
  <1> QED
    BY <1>5, <1>6

LEMMA RefIsRun ==
    ASSUME NEW lg, NEW i \in Nat
    PROVE  \E f : RefRun(f, lg, i) /\ Reference(lg, i) = f[i]
  <1>1. PICK f : f = CHOOSE g : RefRun(g, lg, i)
    OBVIOUS
  <1>2. RefRun(f, lg, i)
    BY <1>1, RefRuns
  <1>3. Reference(lg, i) = f[i]
    BY <1>1 DEF Reference, RefRun, NoKeys
  <1> QED
    BY <1>2, <1>3

LEMMA RefBase ==
    ASSUME NEW lg
    PROVE  Reference(lg, 0) = NoKeys
  <1>1. PICK f : RefRun(f, lg, 0) /\ Reference(lg, 0) = f[0]
    BY RefIsRun
  <1> QED
    BY <1>1 DEF RefRun

\* The state after one more entry is that entry's effect on the state before.
LEMMA RefStep ==
    ASSUME NEW lg, NEW i \in Nat
    PROVE  Reference(lg, i + 1) = After(Reference(lg, i), lg[i + 1], i + 1)
  <1>1. PICK f : RefRun(f, lg, i) /\ Reference(lg, i) = f[i]
    BY RefIsRun
  <1>2. i + 1 \in Nat
    OBVIOUS
  <1>3. PICK g : RefRun(g, lg, i + 1) /\ Reference(lg, i + 1) = g[i + 1]
    BY <1>2, RefIsRun
  <1>4. f[i] = g[i]
    <2>1. i <= i /\ i <= i + 1 /\ i \in Nat
      OBVIOUS
    <2>2. PICK h : h = i + 1
      OBVIOUS
    <2>3. \A j \in 1..i : lg[j] = lg[j]
      OBVIOUS
    <2>4. h \in Nat /\ i <= h /\ RefRun(f, lg, i) /\ RefRun(g, lg, h)
      BY <1>1, <1>2, <1>3, <2>1, <2>2
    <2> QED
      BY ONLY <2>1, <2>3, <2>4, RefRunsAgree
  <1>5. g[i + 1] = After(g[i], lg[i + 1], i + 1)
    <2>1. i + 1 \in 0..(i + 1) /\ i + 1 # 0 /\ (i + 1) - 1 = i
      OBVIOUS
    <2>2. PICK h : h = i + 1
      OBVIOUS
    <2>3. g[h] = After(g[h - 1], lg[h], h)
      BY <1>3, <2>1, <2>2 DEF RefRun
    <2> QED
      BY <2>1, <2>2, <2>3
  <1> QED
    BY <1>1, <1>3, <1>4, <1>5

\* The state after i entries depends on those entries alone.
LEMMA RefPrefix ==
    ASSUME NEW lg, NEW lg2, NEW k \in Nat, \A i \in 1..k : lg[i] = lg2[i]
    PROVE  Reference(lg, k) = Reference(lg2, k)
  <1>1. PICK f : RefRun(f, lg, k) /\ Reference(lg, k) = f[k]
    BY RefIsRun
  <1>2. PICK g : RefRun(g, lg2, k) /\ Reference(lg2, k) = g[k]
    BY RefIsRun
  <1>3. f[k] = g[k]
    BY <1>1, <1>2, RefRunsAgree
  <1> QED
    BY <1>1, <1>2, <1>3

(* The entries. *)

WriteOK(c) ==
    /\ c.puts # <<>> \/ c.deletes # <<>>
    /\ c.puts \in Seq([key : {Counter, Plain}, value : Content])
    /\ \A j \in DOMAIN c.puts : Writable(c.puts[j].key, c.puts[j].value)
    /\ c.deletes \in Seq({Counter, Plain})

LEMMA Kinds ==
    ASSUME NEW c \in Command
    PROVE  \/ c.op = "blank"
           \/ c.op = "increment" /\ c.key = Counter
           \/ c.op = "put_if_absent" /\ Writable(c.key, c.value)
           \/ c.op = "write" /\ WriteOK(c)
  BY CommandAssumption DEF WriteOK

LEMMA Different ==
    /\ Counter # Sidecar /\ Counter # Plain /\ Sidecar # Plain
    /\ Counter \notin Realms /\ Sidecar \notin Realms /\ Plain \notin Realms
    /\ Counter \in Rows /\ Sidecar \in Rows /\ Plain \in Rows
    /\ \A row \in Rows : row \in Realms \/ row \in {Counter, Sidecar, Plain}
    /\ Realms \subseteq Rows
  BY DEF Counter, Sidecar, Plain, Realms, Rows

LEMMA AbsentIs ==
    Absent # Bad /\ Absent \notin Nat /\ Absent \notin Value /\ Bad \notin Nat
  BY ValueAssumption

CounterValue == Nat \union {Absent, Bad}
PlainValue == Value \union {Absent}

\* A write leaves a key alone, or makes it what its last put or its delete says.
LEMMA WrittenOver ==
    ASSUME NEW c, c.op = "write", WriteOK(c), NEW key, NEW x
    PROVE  /\ ~ Overwrites(c, key) => Written(c, key, x) = x
           /\ Overwrites(c, key) =>
                 \/ Written(c, key, x) = Absent /\ key \in ToSet(c.deletes)
                 \/ /\ key \notin ToSet(c.deletes)
                    /\ \E j \in DOMAIN c.puts :
                          LastRow(c.puts, key, j) /\ Written(c, key, x) = c.puts[j].value
  <1>1. c.puts \in Seq([key : {Counter, Plain}, value : Content])
    BY DEF WriteOK
  <1>2. CASE key \in ToSet(c.deletes)
    BY <1>2 DEF Written, Overwrites
  <1>3. CASE key \notin ToSet(c.deletes) /\ \E j \in DOMAIN c.puts : c.puts[j].key = key
    <2>1. PICK j : LastRow(c.puts, key, j)
      BY <1>1, <1>3, LatestHas
    <2>2. Latest(c.puts, key, x) = c.puts[j].value
      BY <1>1, <2>1, LatestIs
    <2>3. j \in DOMAIN c.puts
      BY <2>1 DEF LastRow
    <2> QED
      BY <1>3, <2>1, <2>2, <2>3 DEF Written, Overwrites
  <1>4. CASE /\ key \notin ToSet(c.deletes)
             /\ ~ \E j \in DOMAIN c.puts : c.puts[j].key = key
    <2>1. Latest(c.puts, key, x) = x
      BY <1>1, <1>4, LatestNone
    <2> QED
      BY <1>4, <2>1 DEF Written, Overwrites
  <1> QED
    BY <1>2, <1>3, <1>4

LEMMA WrittenValue ==
    ASSUME NEW c, c.op = "write", WriteOK(c)
    PROVE  /\ \A x \in CounterValue : Written(c, Counter, x) \in CounterValue
           /\ \A x \in PlainValue : Written(c, Plain, x) \in PlainValue
  <1>1. ASSUME NEW x \in CounterValue PROVE Written(c, Counter, x) \in CounterValue
    <2>1. CASE ~ Overwrites(c, Counter)
      BY <2>1, WrittenOver
    <2>2. CASE Overwrites(c, Counter)
      <3>1. CASE Written(c, Counter, x) = Absent
        BY <3>1 DEF CounterValue
      <3>2. CASE \E j \in DOMAIN c.puts :
                    LastRow(c.puts, Counter, j) /\ Written(c, Counter, x) = c.puts[j].value
        <4>1. PICK j \in DOMAIN c.puts :
                    LastRow(c.puts, Counter, j) /\ Written(c, Counter, x) = c.puts[j].value
          BY <3>2
        <4>2. c.puts[j].key = Counter /\ Writable(c.puts[j].key, c.puts[j].value)
          BY <4>1 DEF LastRow, WriteOK
        <4> QED
          BY <4>1, <4>2, Different DEF Writable, CounterValue
      <3> QED
        BY <2>2, <3>1, <3>2, WrittenOver
    <2> QED
      BY <2>1, <2>2
  <1>2. ASSUME NEW x \in PlainValue PROVE Written(c, Plain, x) \in PlainValue
    <2>1. CASE ~ Overwrites(c, Plain)
      BY <2>1, WrittenOver
    <2>2. CASE Overwrites(c, Plain)
      <3>1. CASE Written(c, Plain, x) = Absent
        BY <3>1 DEF PlainValue
      <3>2. CASE \E j \in DOMAIN c.puts :
                    LastRow(c.puts, Plain, j) /\ Written(c, Plain, x) = c.puts[j].value
        <4>1. PICK j \in DOMAIN c.puts :
                    LastRow(c.puts, Plain, j) /\ Written(c, Plain, x) = c.puts[j].value
          BY <3>2
        <4>2. c.puts[j].key = Plain /\ Writable(c.puts[j].key, c.puts[j].value)
          BY <4>1 DEF LastRow, WriteOK
        <4> QED
          BY <4>1, <4>2, Different DEF Writable, PlainValue
      <3> QED
        BY <2>2, <3>1, <3>2, WrittenOver
    <2> QED
      BY <2>1, <2>2
  <1> QED
    BY <1>1, <1>2

\* A write that overwrites the key does so whatever the key held.
LEMMA WrittenAlike ==
    ASSUME NEW c, c.op = "write", WriteOK(c), NEW key, Overwrites(c, key),
           NEW x, NEW y
    PROVE  Written(c, key, x) = Written(c, key, y)
  <1>1. c.puts \in Seq([key : {Counter, Plain}, value : Content])
    BY DEF WriteOK
  <1>2. CASE key \in ToSet(c.deletes)
    BY <1>2 DEF Written
  <1>3. CASE key \notin ToSet(c.deletes)
    <2>1. PICK j : LastRow(c.puts, key, j)
      BY <1>1, <1>3, LatestHas DEF Overwrites
    <2>2. Latest(c.puts, key, x) = c.puts[j].value
      BY <1>1, <2>1, LatestIs
    <2>3. Latest(c.puts, key, y) = c.puts[j].value
      BY <1>1, <2>1, LatestIs
    <2> QED
      BY <1>3, <2>2, <2>3 DEF Written
  <1> QED
    BY <1>2, <1>3

\* The effect of entry i on the counter, by the log.
StepCounter(c, i, x) ==
    IF Increments(c) THEN IF x = Bad THEN i ELSE Decoded(x) + 1
    ELSE IF c.op = "write" THEN Written(c, Counter, x)
    ELSE IF c.op = "put_if_absent" /\ c.key = Counter /\ x = Absent THEN c.value
    ELSE x

IsRef(s) ==
    /\ s = [key \in {Counter, Plain} |-> s[key]]
    /\ s[Counter] \in CounterValue /\ s[Plain] \in PlainValue

LEMMA DecodedIs ==
    ASSUME NEW x \in CounterValue, x # Bad
    PROVE  Decoded(x) \in Nat
  BY DEF Decoded, CounterValue

\* What one entry makes of each of the three rows.
LEMMA AfterStep ==
    ASSUME NEW s, IsRef(s), NEW c \in Command, NEW i \in Nat
    PROVE  /\ IsRef(After(s, c, i))
           /\ After(s, c, i)[Plain] = StepPlain(c, s[Plain])
           /\ After(s, c, i)[Counter] = StepCounter(c, i, s[Counter])
  <1> DEFINE t == After(s, c, i)
  <1>0. DOMAIN s = {Counter, Plain} /\ Counter # Plain
    BY Different DEF IsRef
  <1>5. s[Counter] \in CounterValue /\ s[Plain] \in PlainValue
    BY DEF IsRef
  <1>1. CASE c.op = "blank"
    <2>1. t = s
      BY <1>1 DEF After
    <2> QED
      BY <1>1, <2>1 DEF StepPlain, StepCounter, Increments
  <1>2. CASE c.op = "increment" /\ c.key = Counter
    <2>1. PICK v : v = IF s[Counter] = Bad THEN i ELSE Decoded(s[Counter]) + 1
      OBVIOUS
    <2>2. t = [s EXCEPT ![Counter] = v]
      BY <1>2, <2>1 DEF After
    <2>3. v \in CounterValue
      <3>1. CASE s[Counter] = Bad
        BY <2>1, <3>1 DEF CounterValue
      <3>2. CASE s[Counter] # Bad
        <4>1. Decoded(s[Counter]) \in Nat
          BY <1>5, <3>2, DecodedIs
        <4>2. v = Decoded(s[Counter]) + 1
          BY <2>1, <3>2
        <4>3. v \in Nat
          BY <4>1, <4>2
        <4> QED
          BY <4>3 DEF CounterValue
      <3> QED
        BY <3>1, <3>2
    <2>4. t = [key \in {Counter, Plain} |-> IF key = Counter THEN v ELSE s[key]]
      BY <2>2 DEF IsRef
    <2>5. t[Counter] = v /\ t[Plain] = s[Plain]
      BY <1>0, <2>4
    <2>6. IsRef(t)
      BY <1>0, <1>5, <2>3, <2>4, <2>5 DEF IsRef
    <2> QED
      BY <1>2, <2>1, <2>5, <2>6 DEF StepPlain, StepCounter, Increments
  <1>3. CASE c.op = "put_if_absent" /\ Writable(c.key, c.value)
    <2>1. PICK v : v = IF s[c.key] = Absent THEN c.value ELSE s[c.key]
      OBVIOUS
    <2>2. t = [s EXCEPT ![c.key] = v]
      BY <1>3, <2>1 DEF After
    <2>3. CASE c.key = Counter
      <3>1. v \in CounterValue
        BY <1>3, <1>5, <2>1, <2>3, Different DEF CounterValue, Writable
      <3>4. t = [key \in {Counter, Plain} |-> IF key = Counter THEN v ELSE s[key]]
        BY <2>2, <2>3 DEF IsRef
      <3>5. t[Counter] = v /\ t[Plain] = s[Plain]
        BY <1>0, <3>4
      <3>6. IsRef(t)
        BY <1>0, <1>5, <3>1, <3>4, <3>5 DEF IsRef
      <3> QED
        BY <1>0, <1>3, <2>1, <2>3, <3>5, <3>6 DEF StepPlain, StepCounter, Increments
    <2>4. CASE c.key = Plain
      <3>1. v \in PlainValue
        BY <1>3, <1>5, <2>1, <2>4, Different DEF PlainValue, Writable
      <3>4. t = [key \in {Counter, Plain} |-> IF key = Plain THEN v ELSE s[key]]
        BY <2>2, <2>4 DEF IsRef
      <3>5. t[Plain] = v /\ t[Counter] = s[Counter]
        BY <1>0, <3>4
      <3>6. IsRef(t)
        BY <1>0, <1>5, <3>1, <3>4, <3>5 DEF IsRef
      <3> QED
        BY <1>0, <1>3, <2>1, <2>4, <3>5, <3>6 DEF StepPlain, StepCounter, Increments
    <2> QED
      BY <1>3, <2>3, <2>4 DEF Writable
  <1>4. CASE c.op = "write" /\ WriteOK(c)
    <2>1. t = [key \in {Counter, Plain} |-> Written(c, key, s[key])]
      BY <1>0, <1>4 DEF After
    <2>2. t[Counter] = Written(c, Counter, s[Counter]) /\ t[Plain] = Written(c, Plain, s[Plain])
      BY <2>1
    <2>3. t[Counter] \in CounterValue /\ t[Plain] \in PlainValue
      BY <1>4, <1>5, <2>2, WrittenValue
    <2>4. IsRef(t)
      BY <2>1, <2>3 DEF IsRef
    <2> QED
      BY <1>4, <2>2, <2>4 DEF StepPlain, StepCounter, Increments
  <1> QED
    BY <1>1, <1>2, <1>3, <1>4, Kinds

\* Every row of Reference holds what its kind of row may hold.
LEMMA RefType ==
    ASSUME NEW lg \in Seq(Command), NEW k \in 0..Len(lg)
    PROVE  IsRef(Reference(lg, k))
  <1> DEFINE bad == {j \in 0..k : ~ IsRef(Reference(lg, j))}
  <1>1. SUFFICES ASSUME bad # {} PROVE FALSE
    OBVIOUS
  <1>2. PICK m : m = Min(bad)
    OBVIOUS
  <1>3. m \in bad /\ \A y \in bad : m <= y
    <2>1. bad \in SUBSET Nat
      OBVIOUS
    <2> HIDE DEF bad
    <2> QED
      BY <1>1, <1>2, <2>1, SmallestOf
  <1>4. m \in Nat /\ m <= Len(lg) /\ m <= k /\ k \in Nat /\ ~ IsRef(Reference(lg, m))
    BY <1>3
  <1>5. CASE m = 0
    <2>1. IsRef(NoKeys)
      BY DEF IsRef, NoKeys, CounterValue, PlainValue
    <2> QED
      BY <1>4, <1>5, <2>1, RefBase
  <1>6. CASE m # 0
    <2>0. PICK p : p = m - 1
      OBVIOUS
    <2>1. p \in Nat /\ m = p + 1 /\ p \in 0..k /\ m \in 1..Len(lg)
      BY <1>4, <1>6, <2>0
    <2>2. p \notin bad
      BY <1>3, <1>4, <2>1
    <2>3. IsRef(Reference(lg, p)) /\ lg[m] \in Command
      BY <2>1, <2>2
    <2>4. Reference(lg, m) = After(Reference(lg, p), lg[m], m)
      BY <2>1, RefStep
    <2>5. IsRef(Reference(lg, m))
      BY <1>4, <2>3, <2>4, AfterStep
    <2> QED
      BY <1>4, <2>5
  <1> QED
    BY <1>5, <1>6

\* What one entry makes of the plain key and of the counter in Reference.
LEMMA RefKeys ==
    ASSUME NEW lg \in Seq(Command), NEW k \in Nat, k + 1 <= Len(lg)
    PROVE  /\ Reference(lg, k + 1)[Plain] =
                 StepPlain(lg[k + 1], Reference(lg, k)[Plain])
           /\ Reference(lg, k + 1)[Counter] =
                 StepCounter(lg[k + 1], k + 1, Reference(lg, k)[Counter])
  <1>1. k \in 0..Len(lg) /\ k + 1 \in 1..Len(lg) /\ k + 1 \in Nat /\ Len(lg) \in Nat
    OBVIOUS
  <1>2. lg[k + 1] \in Command
    BY <1>1
  <1>3. IsRef(Reference(lg, k))
    BY <1>1, RefType
  <1>4. PICK h : h = k + 1
    OBVIOUS
  <1>5. PICK s : s = Reference(lg, k)
    OBVIOUS
  <1>6. Reference(lg, h) = After(s, lg[h], h)
    BY <1>4, <1>5, RefStep
  <1>7. h \in Nat /\ lg[h] \in Command /\ IsRef(s)
    BY <1>1, <1>2, <1>3, <1>4, <1>5
  <1>8. /\ After(s, lg[h], h)[Plain] = StepPlain(lg[h], s[Plain])
        /\ After(s, lg[h], h)[Counter] = StepCounter(lg[h], h, s[Counter])
    BY ONLY <1>7, AfterStep
  <1> QED
    BY <1>4, <1>5, <1>6, <1>8

-----------------------------------------------------------------------------
(* How good data stays good.                                               *)

LEMMA OverWiden ==
    ASSUME NEW lg, NEW key, NEW j \in Nat, NEW u \in Nat, NEW j2 \in Nat,
           NEW u2 \in Nat, j2 <= j, u <= u2, Over(lg, key, j, u)
    PROVE  Over(lg, key, j2, u2)
  <1>1. PICK i \in (j + 1)..u : Overwrites(lg[i], key)
    BY DEF Over
  <1>2. i \in (j2 + 1)..u2
    BY <1>1
  <1> QED
    BY <1>1, <1>2 DEF Over

LEMMA PlainWiden ==
    ASSUME NEW lg, NEW y, NEW j \in Nat, NEW u \in Nat, NEW j2 \in Nat,
           NEW u2 \in Nat, j2 <= j, u <= u2, PlainOK(lg, y, j, u)
    PROVE  PlainOK(lg, y, j2, u2)
  <1>1. CASE Over(lg, Plain, j, u)
    BY <1>1, OverWiden DEF PlainOK
  <1>2. CASE \E k \in j..u : y = Reference(lg, k)[Plain]
    <2>1. PICK k \in j..u : y = Reference(lg, k)[Plain]
      BY <1>2
    <2>2. k \in j2..u2
      OBVIOUS
    <2> QED
      BY <2>1, <2>2 DEF PlainOK
  <1> QED
    BY <1>1, <1>2 DEF PlainOK

LEMMA CounterWiden ==
    ASSUME NEW lg, NEW x, NEW d, NEW j \in Nat, NEW u \in Nat, NEW j2 \in Nat,
           NEW u2 \in Nat, j2 <= j, u <= u2, CounterOK(lg, x, d, j, u)
    PROVE  CounterOK(lg, x, d, j2, u2)
  <1>1. SideKept(lg, d, j2)
    <2>1. ASSUME NEW i \in 1..j2 PROVE i \in 1..j
      OBVIOUS
    <2> QED
      BY <2>1 DEF CounterOK, SideKept
  <1>2. PairOK(lg, x, d, j2, u2)
    <2>1. CASE Over(lg, Counter, j, u)
      BY <2>1, OverWiden DEF PairOK
    <2>2. CASE \E k \in j..u : x = Reference(lg, k)[Counter] /\ SideAt(lg, d, k)
      <3>1. PICK k \in j..u : x = Reference(lg, k)[Counter] /\ SideAt(lg, d, k)
        BY <2>2
      <3>2. k \in j2..u2
        OBVIOUS
      <3> QED
        BY <3>1, <3>2 DEF PairOK
    <2> QED
      BY <2>1, <2>2 DEF CounterOK, PairOK
  <1> QED
    BY <1>1, <1>2 DEF CounterOK

\* Rows good up to a point are good up to any later one.
LEMMA DataWiden ==
    ASSUME NEW lg, NEW rows, NEW tn, NEW tn2, NEW j \in Nat, NEW u \in Nat,
           NEW j2 \in Nat, NEW u2 \in Nat, j2 <= j, u <= u2, tn => tn2,
           DataOK(lg, rows, j, u, tn)
    PROVE  DataOK(lg, rows, j2, u2, tn2)
  <1>1. PlainOK(lg, rows[Plain], j2, u2)
    BY PlainWiden DEF DataOK
  <1>2. ASSUME ~ tn2
        PROVE  CounterOK(lg, rows[Counter], rows[Sidecar], j2, u2)
    BY <1>2, CounterWiden DEF DataOK
  <1> QED
    BY <1>1, <1>2 DEF DataOK

\* The log only grows at its end.
LEMMA PlainKeeps ==
    ASSUME NEW lg, NEW lg2, NEW y, NEW j \in Nat, NEW u \in Nat,
           \A i \in 1..u : lg[i] = lg2[i], PlainOK(lg, y, j, u)
    PROVE  PlainOK(lg2, y, j, u)
  <1>1. CASE Over(lg, Plain, j, u)
    <2>1. ASSUME NEW i \in (j + 1)..u PROVE i \in 1..u
      OBVIOUS
    <2> QED
      BY <1>1, <2>1 DEF PlainOK, Over
  <1>2. CASE \E k \in j..u : y = Reference(lg, k)[Plain]
    <2>1. PICK k \in j..u : y = Reference(lg, k)[Plain]
      BY <1>2
    <2>2. k \in Nat /\ \A i \in 1..k : lg[i] = lg2[i]
      OBVIOUS
    <2>3. Reference(lg, k) = Reference(lg2, k)
      BY <2>2, RefPrefix
    <2> QED
      BY <2>1, <2>3 DEF PlainOK
  <1> QED
    BY <1>1, <1>2 DEF PlainOK

LEMMA CounterKeeps ==
    ASSUME NEW lg, NEW lg2, NEW x, NEW d, NEW j \in Nat, NEW u \in Nat,
           \A i \in 1..u : lg[i] = lg2[i], j <= u, CounterOK(lg, x, d, j, u)
    PROVE  CounterOK(lg2, x, d, j, u)
  <1>1. SideKept(lg2, d, j)
    <2>1. ASSUME NEW i \in 1..j PROVE i \in 1..u
      OBVIOUS
    <2> QED
      BY <2>1 DEF CounterOK, SideKept
  <1>2. PairOK(lg2, x, d, j, u)
    <2>1. CASE Over(lg, Counter, j, u)
      <3>1. ASSUME NEW i \in (j + 1)..u PROVE i \in 1..u
        OBVIOUS
      <3> QED
        BY <2>1, <3>1 DEF PairOK, Over
    <2>2. CASE \E k \in j..u : x = Reference(lg, k)[Counter] /\ SideAt(lg, d, k)
      <3>1. PICK k \in j..u : x = Reference(lg, k)[Counter] /\ SideAt(lg, d, k)
        BY <2>2
      <3>2. k \in Nat /\ \A i \in 1..k : lg[i] = lg2[i]
        OBVIOUS
      <3>3. Reference(lg, k) = Reference(lg2, k)
        BY <3>2, RefPrefix
      <3>4. SideAt(lg2, d, k)
        BY <3>1, <3>2 DEF SideAt
      <3> QED
        BY <3>1, <3>3, <3>4 DEF PairOK
    <2> QED
      BY <2>1, <2>2 DEF CounterOK, PairOK
  <1> QED
    BY <1>1, <1>2 DEF CounterOK

\* Rows good for a log are good for its extensions.
LEMMA DataKeeps ==
    ASSUME NEW lg, NEW lg2, NEW rows, NEW tn, NEW j \in Nat, NEW u \in Nat,
           \A i \in 1..u : lg[i] = lg2[i], j <= u, DataOK(lg, rows, j, u, tn)
    PROVE  DataOK(lg2, rows, j, u, tn)
  <1>1. PlainOK(lg2, rows[Plain], j, u)
    BY PlainKeeps DEF DataOK
  <1>2. ASSUME ~ tn
        PROVE  CounterOK(lg2, rows[Counter], rows[Sidecar], j, u)
    BY <1>2, CounterKeeps DEF DataOK
  <1> QED
    BY <1>1, <1>2 DEF DataOK

(* One entry. *)

\* What one entry may make of a plain key.
LEMMA PlainSteps ==
    ASSUME NEW c \in Command, NEW y \in PlainValue
    PROVE  /\ StepPlain(c, y) \in PlainValue
           /\ ~ Overwrites(c, Plain) /\ y # Absent => StepPlain(c, y) = y
           /\ ~ Overwrites(c, Plain) /\ StepPlain(c, y) # y =>
                 /\ c.op = "put_if_absent" /\ c.key = Plain /\ y = Absent
           /\ c.op = "put_if_absent" /\ c.key = Plain => StepPlain(c, y) # Absent
           /\ Overwrites(c, Plain) =>
                 \A z : StepPlain(c, z) = StepPlain(c, y)
  <1>1. CASE c.op = "blank"
    BY <1>1 DEF StepPlain, Overwrites
  <1>2. CASE c.op = "increment" /\ c.key = Counter
    BY <1>2 DEF StepPlain, Overwrites
  <1>3. CASE c.op = "put_if_absent" /\ Writable(c.key, c.value)
    BY <1>3, AbsentIs, Different DEF StepPlain, Overwrites, Writable, PlainValue
  <1>4. CASE c.op = "write" /\ WriteOK(c)
    <2>1. ASSUME NEW z PROVE StepPlain(c, z) = Written(c, Plain, z)
      BY <1>4 DEF StepPlain
    <2>2. StepPlain(c, y) \in PlainValue
      BY <1>4, <2>1, WrittenValue
    <2>3. CASE ~ Overwrites(c, Plain)
      BY <1>4, <2>1, <2>2, <2>3, WrittenOver
    <2>4. CASE Overwrites(c, Plain)
      <3>1. ASSUME NEW z PROVE Written(c, Plain, z) = Written(c, Plain, y)
        BY <1>4, <2>4, WrittenAlike
      <3> QED
        BY <1>4, <2>1, <2>2, <2>4, <3>1
    <2> QED
      BY <2>3, <2>4
  <1> QED
    BY <1>1, <1>2, <1>3, <1>4, Kinds

\* What one entry may make of a counter.
LEMMA CounterSteps ==
    ASSUME NEW c \in Command, NEW x \in CounterValue, NEW i \in Nat
    PROVE  /\ StepCounter(c, i, x) \in CounterValue
           /\ ~ Overwrites(c, Counter) =>
                 /\ x # Absent => StepCounter(c, i, x) # Absent
                 /\ x \in Nat => StepCounter(c, i, x) \in Nat
           /\ Increments(c) => StepCounter(c, i, x) \in Nat
           /\ Increments(c) => ~ Overwrites(c, Counter)
           /\ c.op = "put_if_absent" /\ c.key = Counter =>
                 StepCounter(c, i, x) # Absent
           /\ Overwrites(c, Counter) =>
                 \A z : StepCounter(c, i, x) = Written(c, Counter, z)
           /\ ~ Overwrites(c, Counter) /\ ~ Increments(c) =>
                 StepCounter(c, i, x) =
                     IF c.op = "put_if_absent" /\ c.key = Counter /\ x = Absent
                     THEN c.value ELSE x
  <1>1. CASE c.op = "blank"
    BY <1>1 DEF StepCounter, Overwrites, Increments
  <1>2. CASE c.op = "increment" /\ c.key = Counter
    <2>1. Increments(c) /\ ~ Overwrites(c, Counter) /\ c.op # "put_if_absent"
      BY <1>2 DEF Overwrites, Increments
    <2>2. StepCounter(c, i, x) \in Nat
      <3>1. CASE x = Bad
        BY <2>1, <3>1 DEF StepCounter
      <3>2. CASE x # Bad
        <4>1. Decoded(x) \in Nat
          BY <3>2, DecodedIs
        <4>2. StepCounter(c, i, x) = Decoded(x) + 1
          BY <2>1, <3>2 DEF StepCounter
        <4> QED
          BY <4>1, <4>2
      <3> QED
        BY <3>1, <3>2
    <2> QED
      BY <2>1, <2>2, AbsentIs DEF CounterValue
  <1>3. CASE c.op = "put_if_absent" /\ Writable(c.key, c.value)
    <2>1. ~ Increments(c) /\ ~ Overwrites(c, Counter)
      BY <1>3 DEF Overwrites, Increments
    <2>2. StepCounter(c, i, x) =
              IF c.key = Counter /\ x = Absent THEN c.value ELSE x
      BY <1>3, <2>1 DEF StepCounter
    <2>3. c.key = Counter => c.value \in Nat \union {Bad}
      BY <1>3, Different DEF Writable
    <2> QED
      BY <1>3, <2>1, <2>2, <2>3, AbsentIs DEF CounterValue
  <1>4. CASE c.op = "write" /\ WriteOK(c)
    <2>1. ~ Increments(c) /\ StepCounter(c, i, x) = Written(c, Counter, x)
      BY <1>4 DEF StepCounter, Increments
    <2>2. StepCounter(c, i, x) \in CounterValue
      BY <1>4, <2>1, WrittenValue
    <2>3. CASE ~ Overwrites(c, Counter)
      BY <1>4, <2>1, <2>2, <2>3, WrittenOver
    <2>4. CASE Overwrites(c, Counter)
      <3>1. ASSUME NEW z PROVE Written(c, Counter, x) = Written(c, Counter, z)
        BY <1>4, <2>4, WrittenAlike
      <3> QED
        BY <1>4, <2>1, <2>2, <2>4, <3>1
    <2> QED
      BY <2>3, <2>4
  <1> QED
    BY <1>1, <1>2, <1>3, <1>4, Kinds

\* A plain key that nothing overwrites stays present.
LEMMA PlainStays ==
    ASSUME NEW lg \in Seq(Command), NEW k1 \in Nat, NEW k2 \in Nat,
           k1 <= k2, k2 <= Len(lg), ~ Over(lg, Plain, k1, k2),
           Reference(lg, k1)[Plain] # Absent
    PROVE  Reference(lg, k2)[Plain] # Absent
  <1> DEFINE bad == {k \in k1..k2 : Reference(lg, k)[Plain] = Absent}
  <1>1. SUFFICES ASSUME bad # {} PROVE FALSE
    OBVIOUS
  <1>2. PICK m : m = Min(bad)
    OBVIOUS
  <1>3. m \in bad /\ \A y \in bad : m <= y
    <2>1. bad \in SUBSET Nat
      OBVIOUS
    <2> HIDE DEF bad
    <2> QED
      BY <1>1, <1>2, <2>1, SmallestOf
  <1>4. /\ m \in Nat /\ k1 <= m /\ m <= k2 /\ m # k1 /\ Len(lg) \in Nat
        /\ Reference(lg, m)[Plain] = Absent
    BY <1>3
  <1>5. PICK p : p = m - 1
    OBVIOUS
  <1>6. p \in Nat /\ m = p + 1 /\ p \in k1..k2 /\ m \in 1..Len(lg)
        /\ p \in 0..Len(lg) /\ m \in (k1 + 1)..k2 /\ p < m
    BY <1>4, <1>5
  <1>7. p \notin bad
    BY <1>3, <1>4, <1>6
  <1>8. Reference(lg, p)[Plain] # Absent
    BY <1>6, <1>7
  <1>9. Reference(lg, p)[Plain] \in PlainValue /\ lg[m] \in Command
    BY <1>6, RefType DEF IsRef
  <1>10. ~ Overwrites(lg[m], Plain)
    BY <1>6 DEF Over
  <1>11. Reference(lg, m)[Plain] = StepPlain(lg[m], Reference(lg, p)[Plain])
    BY <1>6, RefKeys
  <1> QED
    BY <1>4, <1>8, <1>9, <1>10, <1>11, PlainSteps

\* A counter that nothing overwrites stays present, and once a number a number.
LEMMA CounterStays ==
    ASSUME NEW lg \in Seq(Command), NEW k1 \in Nat, NEW k2 \in Nat,
           k1 <= k2, k2 <= Len(lg), ~ Over(lg, Counter, k1, k2),
           Reference(lg, k1)[Counter] # Absent
    PROVE  /\ Reference(lg, k2)[Counter] # Absent
           /\ Reference(lg, k1)[Counter] \in Nat => Reference(lg, k2)[Counter] \in Nat
  <1> DEFINE ok(x) == /\ x # Absent
                      /\ Reference(lg, k1)[Counter] \in Nat => x \in Nat
  <1> DEFINE bad == {k \in k1..k2 : ~ ok(Reference(lg, k)[Counter])}
  <1>1. SUFFICES ASSUME bad # {} PROVE FALSE
    OBVIOUS
  <1>2. PICK m : m = Min(bad)
    OBVIOUS
  <1>3. m \in bad /\ \A y \in bad : m <= y
    <2>1. bad \in SUBSET Nat
      OBVIOUS
    <2> HIDE DEF bad
    <2> QED
      BY <1>1, <1>2, <2>1, SmallestOf
  <1>4. /\ m \in Nat /\ k1 <= m /\ m <= k2 /\ m # k1 /\ Len(lg) \in Nat
        /\ ~ ok(Reference(lg, m)[Counter])
    BY <1>3
  <1>5. PICK p : p = m - 1
    OBVIOUS
  <1>6. p \in Nat /\ m = p + 1 /\ p \in k1..k2 /\ m \in 1..Len(lg)
        /\ p \in 0..Len(lg) /\ m \in (k1 + 1)..k2 /\ p < m
    BY <1>4, <1>5
  <1>7. p \notin bad
    BY <1>3, <1>4, <1>6
  <1>8. ok(Reference(lg, p)[Counter])
    BY <1>6, <1>7
  <1>9. Reference(lg, p)[Counter] \in CounterValue /\ lg[m] \in Command
    BY <1>6, RefType DEF IsRef
  <1>10. ~ Overwrites(lg[m], Counter)
    BY <1>6 DEF Over
  <1>11. Reference(lg, m)[Counter] = StepCounter(lg[m], m, Reference(lg, p)[Counter])
    BY <1>6, RefKeys
  <1>12. ok(Reference(lg, m)[Counter])
    BY <1>4, <1>8, <1>9, <1>10, <1>11, CounterSteps
  <1> QED
    BY <1>4, <1>12

\* Applying the next entry to data that may hold later rows.
LEMMA PlainAdvance ==
    ASSUME NEW lg \in Seq(Command), NEW j \in Nat, NEW u \in Nat,
           j + 1 <= u, u <= Len(lg), NEW y \in PlainValue, PlainOK(lg, y, j, u)
    PROVE  PlainOK(lg, StepPlain(lg[j + 1], y), j + 1, u)
  <1>1. PICK h : h = j + 1
    OBVIOUS
  <1>2. PICK c : c = lg[h]
    OBVIOUS
  <1>3. PICK z : z = StepPlain(c, y)
    OBVIOUS
  <1>4. /\ h \in Nat /\ h \in 1..Len(lg) /\ j \in 0..Len(lg) /\ h <= u
        /\ Len(lg) \in Nat /\ h \in h..u /\ h <= Len(lg)
    BY <1>1
  <1>5. c \in Command /\ Reference(lg, j)[Plain] \in PlainValue
    BY <1>2, <1>4, RefType DEF IsRef
  <1>6. Reference(lg, h)[Plain] = StepPlain(c, Reference(lg, j)[Plain])
    BY <1>1, <1>2, <1>4, RefKeys
  <1>7. SUFFICES PlainOK(lg, z, h, u)
    BY <1>1, <1>2, <1>3
  <1>8. CASE z = Reference(lg, h)[Plain]
    BY <1>4, <1>8 DEF PlainOK
  <1>9. CASE Overwrites(c, Plain)
    <2>1. z = Reference(lg, h)[Plain]
      BY <1>3, <1>5, <1>6, <1>9, PlainSteps
    <2> QED
      BY <1>8, <2>1
  <1>10. CASE ~ Overwrites(c, Plain) /\ Over(lg, Plain, j, u)
    <2>1. PICK i \in h..u : Overwrites(lg[i], Plain)
      BY <1>1, <1>10 DEF Over
    <2>2. i # h /\ i \in Nat
      BY <1>2, <1>4, <1>10, <2>1
    <2>3. i \in (h + 1)..u
      BY <1>4, <2>1, <2>2
    <2> QED
      BY <2>1, <2>3 DEF PlainOK, Over
  <1>11. CASE ~ Over(lg, Plain, j, u)
    <2>1. PICK k \in j..u : y = Reference(lg, k)[Plain]
      BY <1>11 DEF PlainOK
    <2>2. ~ Overwrites(c, Plain)
      BY <1>1, <1>2, <1>4, <1>11 DEF Over
    <2>3. CASE k = j
      BY <1>3, <1>6, <1>8, <2>1, <2>3
    <2>4. CASE k # j
      <3>1. k \in Nat /\ h <= k /\ k \in h..u /\ k <= Len(lg)
        BY <1>1, <1>4, <2>1, <2>4
      <3>2. z = y
        <4>1. SUFFICES ASSUME z # y PROVE FALSE
          OBVIOUS
        <4>2. c.op = "put_if_absent" /\ c.key = Plain /\ y = Absent
          BY <1>3, <1>5, <2>2, <4>1, PlainSteps
        <4>3. Reference(lg, h)[Plain] # Absent
          BY <1>5, <1>6, <4>2, PlainSteps
        <4>4. ~ Over(lg, Plain, h, k)
          <5>1. j <= h /\ k <= u
            BY <1>1, <3>1
          <5> QED
            BY <1>4, <1>11, <3>1, <5>1, OverWiden
        <4>5. Reference(lg, k)[Plain] # Absent
          BY <1>4, <3>1, <4>3, <4>4, PlainStays
        <4> QED
          BY <2>1, <4>2, <4>5
      <3> QED
        BY <2>1, <3>1, <3>2 DEF PlainOK
    <2> QED
      BY <2>3, <2>4
  <1> QED
    BY <1>9, <1>10, <1>11

SideValue == Nat \union {Absent}

LEMMA PairSteps ==
    ASSUME NEW c \in Command, NEW i \in Nat, i > 0, NEW x \in CounterValue,
           NEW d \in SideValue, NEW x2, NEW d2, StepPair(c, i, x, d, x2, d2)
    PROVE  /\ x2 \in CounterValue /\ d2 \in SideValue
           /\ d # Absent => d2 # Absent
           /\ Increments(c) => d2 # Absent
           /\ d2 \in {d, i}
  <1>1. CASE Increments(c)
    <2>1. CASE x = Bad
      BY <1>1, <2>1, AbsentIs DEF StepPair, CounterValue, SideValue
    <2>2. CASE x # Bad
      <3>1. Decoded(x) + 1 \in Nat
        BY <2>2, DecodedIs
      <3> QED
        BY <1>1, <2>2, <3>1, AbsentIs DEF StepPair, CounterValue, SideValue
    <2> QED
      BY <2>1, <2>2
  <1>2. CASE ~ Increments(c)
    <2>1. SideMoved(d, i) \in SideValue /\ (d # Absent => SideMoved(d, i) # Absent)
          /\ SideMoved(d, i) \in {d, i}
      BY AbsentIs DEF SideMoved, SideValue
    <2>2. CASE Overwrites(c, Counter)
      <3>1. StepCounter(c, i, x) = Written(c, Counter, x)
        BY <2>2, CounterSteps
      <3> QED
        BY <1>2, <2>1, <2>2, <3>1, CounterSteps DEF StepPair
    <2>3. CASE ~ Overwrites(c, Counter)
      BY <1>2, <2>1, <2>3, CounterSteps DEF StepPair
    <2> QED
      BY <2>2, <2>3
  <1> QED
    BY <1>1, <1>2

LEMMA CounterAdvance ==
    ASSUME NEW lg \in Seq(Command), NEW j \in Nat, NEW u \in Nat,
           j + 1 <= u, u <= Len(lg),
           NEW x \in CounterValue, NEW d \in SideValue, NEW x2, NEW d2,
           CounterOK(lg, x, d, j, u),
           StepPair(lg[j + 1], j + 1, x, d, x2, d2)
    PROVE  CounterOK(lg, x2, d2, j + 1, u)
  <1>1. PICK h : h = j + 1
    OBVIOUS
  <1>2. PICK c : c = lg[h]
    OBVIOUS
  <1>4. /\ h \in Nat /\ h \in 1..Len(lg) /\ j \in 0..Len(lg) /\ h <= u
        /\ Len(lg) \in Nat /\ h \in h..u /\ h <= Len(lg) /\ h > 0
    BY <1>1
  <1>5. c \in Command /\ Reference(lg, j)[Counter] \in CounterValue
    BY <1>2, <1>4, RefType DEF IsRef
  <1>6. Reference(lg, h)[Counter] = StepCounter(c, h, Reference(lg, j)[Counter])
    BY <1>1, <1>2, <1>4, RefKeys
  <1>7. StepPair(c, h, x, d, x2, d2)
    BY <1>1, <1>2
  <1>8. /\ x2 \in CounterValue /\ d2 \in SideValue
        /\ d # Absent => d2 # Absent
        /\ Increments(c) => d2 # Absent
        /\ d2 \in {d, h}
    BY <1>4, <1>5, <1>7, PairSteps
  <1>9. SideKept(lg, d2, h)
    <2>1. ASSUME NEW i \in 1..h, Increments(lg[i]) PROVE d2 # Absent
      <3>1. CASE i = h
        BY <1>2, <1>8, <2>1, <3>1
      <3>2. CASE i # h
        <4>1. i \in 1..j
          BY <1>1, <1>4, <3>2
        <4> QED
          BY <1>8, <2>1, <4>1 DEF CounterOK, SideKept
      <3> QED
        BY <3>1, <3>2
    <2> QED
      BY <2>1 DEF SideKept
  <1>10. SUFFICES PairOK(lg, x2, d2, h, u)
    BY <1>1, <1>9 DEF CounterOK
  \* The sidecar set to the entry's index.
  <1>11. ASSUME d2 = h PROVE SideAt(lg, d2, h)
    BY <1>4, <1>11, AbsentIs DEF SideAt
  <1>12. CASE Overwrites(c, Counter)
    <2>1. ~ Increments(c)
      BY <1>5, <1>4, <1>12, CounterSteps
    <2>2. x2 = Written(c, Counter, x) /\ d2 = SideMoved(d, h)
      BY <1>7, <1>12, <2>1 DEF StepPair
    <2>3. x2 = Reference(lg, h)[Counter]
      BY <1>4, <1>5, <1>6, <1>12, <2>2, CounterSteps
    <2>4. SideAt(lg, d2, h)
      <3>1. CASE d = Absent
        <4>1. d2 = Absent
          BY <2>2, <3>1 DEF SideMoved
        <4>2. ASSUME NEW i \in 1..h PROVE ~ Increments(lg[i])
          BY <1>9, <4>1 DEF SideKept
        <4> QED
          BY <4>1, <4>2 DEF SideAt
      <3>2. CASE d # Absent
        BY <1>11, <2>2, <3>2 DEF SideMoved
      <3> QED
        BY <3>1, <3>2
    <2> QED
      BY <1>4, <2>3, <2>4 DEF PairOK
  <1>13. CASE ~ Overwrites(c, Counter) /\ Over(lg, Counter, j, u)
    <2>1. PICK i \in h..u : Overwrites(lg[i], Counter)
      BY <1>1, <1>13 DEF Over
    <2>2. i # h /\ i \in Nat
      BY <1>2, <1>4, <1>13, <2>1
    <2>3. i \in (h + 1)..u
      BY <1>4, <2>1, <2>2
    <2> QED
      BY <2>1, <2>3 DEF PairOK, Over
  <1>14. CASE ~ Over(lg, Counter, j, u)
    <2>1. PICK k \in j..u : x = Reference(lg, k)[Counter] /\ SideAt(lg, d, k)
      BY <1>14 DEF CounterOK, PairOK
    <2>2. ~ Overwrites(c, Counter)
      BY <1>1, <1>2, <1>4, <1>14 DEF Over
    <2>3. CASE k = j
      \* The data is the log's at j: so it is at j + 1.
      <3>1. x2 = Reference(lg, h)[Counter] /\ SideAt(lg, d2, h)
        <4>1. CASE Increments(c)
          <5>1. CASE x = Bad
            <6>1. x2 = h /\ d2 = h
              BY <1>7, <4>1, <5>1 DEF StepPair
            <6>2. Reference(lg, h)[Counter] = h
              BY <1>6, <2>1, <2>3, <4>1, <5>1 DEF StepCounter
            <6> QED
              BY <1>11, <6>1, <6>2
          <5>2. CASE x # Bad
            <6>1. ~ (d # Absent /\ h <= d)
              <7>1. d # Absent => d \in 0..j
                BY <2>1, <2>3 DEF SideAt
              <7> QED
                BY <1>1, <1>4, <7>1
            <6>2. x2 = Decoded(x) + 1 /\ d2 = h
              BY <1>7, <4>1, <5>2, <6>1 DEF StepPair
            <6>3. Reference(lg, h)[Counter] = Decoded(x) + 1
              BY <1>6, <2>1, <2>3, <4>1, <5>2 DEF StepCounter
            <6> QED
              BY <1>11, <6>2, <6>3
          <5> QED
            BY <5>1, <5>2
        <4>2. CASE ~ Increments(c)
          <5>1. x2 = Reference(lg, h)[Counter]
            BY <1>4, <1>5, <1>6, <1>7, <2>1, <2>2, <2>3, <4>2, CounterSteps DEF StepPair
          <5>2. d2 = d \/ d2 = h
            BY <1>8
          <5>3. ASSUME d2 = d PROVE SideAt(lg, d2, h)
            <6>1. ASSUME NEW i \in 1..h, Increments(lg[i]) PROVE i \in 1..j
              <7>1. i # h
                BY <1>2, <4>2, <6>1
              <7> QED
                BY <1>1, <1>4, <7>1
            <6>2. d # Absent => d \in 0..h
              BY <1>1, <1>4, <2>1, <2>3 DEF SideAt
            <6>3. SideAt(lg, d, j)
              BY <2>1, <2>3
            <6> QED
              BY <5>3, <6>1, <6>2, <6>3 DEF SideAt
          <5> QED
            BY <1>11, <5>1, <5>2, <5>3
        <4> QED
          BY <4>1, <4>2
      <3> QED
        BY <1>4, <3>1 DEF PairOK
    <2>4. CASE k # j
      \* The data is the log's at a later point: the entry changes nothing.
      <3>1. k \in Nat /\ h <= k /\ k \in h..u /\ k <= Len(lg) /\ h \in 1..k
        BY <1>1, <1>4, <2>1, <2>4
      <3>2. ~ Over(lg, Counter, h, k)
        <4>1. j <= h /\ k <= u
          BY <1>1, <3>1
        <4> QED
          BY <1>4, <1>14, <3>1, <4>1, OverWiden
      <3>3. x2 = x /\ d2 = d
        <4>1. CASE Increments(c)
          <5>1. d # Absent /\ h <= d
            BY <1>2, <2>1, <3>1, <4>1 DEF SideAt
          <5>2. Reference(lg, h)[Counter] \in Nat
            BY <1>4, <1>5, <1>6, <4>1, CounterSteps
          <5>3. Reference(lg, k)[Counter] \in Nat
            BY <1>4, <3>1, <3>2, <5>2, CounterStays, AbsentIs
          <5>4. x # Bad
            BY <2>1, <5>3, AbsentIs
          <5> QED
            BY <1>7, <4>1, <5>1, <5>4 DEF StepPair
        <4>2. CASE ~ Increments(c)
          <5>1. SUFFICES ~ (c.op = "put_if_absent" /\ c.key = Counter /\ x = Absent)
            BY <1>7, <2>2, <4>2 DEF StepPair
          <5>2. SUFFICES ASSUME c.op = "put_if_absent", c.key = Counter, x = Absent
                         PROVE  FALSE
            OBVIOUS
          <5>3. Reference(lg, h)[Counter] # Absent
            BY <1>4, <1>5, <1>6, <5>2, CounterSteps
          <5>4. Reference(lg, k)[Counter] # Absent
            BY <1>4, <3>1, <3>2, <5>3, CounterStays
          <5> QED
            BY <2>1, <5>2, <5>4
        <4> QED
          BY <4>1, <4>2
      <3> QED
        BY <2>1, <3>1, <3>3 DEF PairOK
    <2> QED
      BY <2>3, <2>4
  <1> QED
    BY <1>12, <1>13, <1>14

\* Data at a point that it cannot be ahead of is the log's.
LEMMA DataIsRef ==
    ASSUME NEW lg, NEW rows, NEW j \in Nat, NEW tn, DataOK(lg, rows, j, j, tn)
    PROVE  /\ rows[Plain] = Reference(lg, j)[Plain]
           /\ ~ tn => rows[Counter] = Reference(lg, j)[Counter]
  <1>1. ASSUME NEW key PROVE ~ Over(lg, key, j, j)
    BY DEF Over
  <1>2. ASSUME NEW k \in j..j PROVE k = j
    OBVIOUS
  <1> QED
    BY <1>1, <1>2 DEF DataOK, PlainOK, CounterOK, PairOK

\* The whole store, one entry further.
LEMMA DataAdvance ==
    ASSUME NEW lg \in Seq(Command), NEW j \in Nat, NEW u \in Nat,
           j + 1 <= u, u <= Len(lg), NEW rows, NEW fin, NEW tn \in BOOLEAN,
           rows[Plain] \in PlainValue, rows[Counter] \in CounterValue,
           rows[Sidecar] \in SideValue,
           DataOK(lg, rows, j, u, tn), Applied(rows, lg[j + 1], j + 1, fin)
    PROVE  DataOK(lg, fin, j + 1, u, tn)
  <1>1. PICK y : y = rows[Plain]
    OBVIOUS
  <1>2. PICK x : x = rows[Counter]
    OBVIOUS
  <1>3. PICK d : d = rows[Sidecar]
    OBVIOUS
  <1>4. y \in PlainValue /\ x \in CounterValue /\ d \in SideValue
    BY <1>1, <1>2, <1>3
  <1>5. PlainOK(lg, y, j, u) /\ (~ tn => CounterOK(lg, x, d, j, u))
    BY <1>1, <1>2, <1>3 DEF DataOK
  <1>6. /\ fin[Plain] = StepPlain(lg[j + 1], y)
        /\ StepPair(lg[j + 1], j + 1, x, d, fin[Counter], fin[Sidecar])
    BY <1>1, <1>2, <1>3 DEF Applied
  <1>7. PlainOK(lg, fin[Plain], j + 1, u)
    BY <1>4, <1>5, <1>6, PlainAdvance
  <1>8. ASSUME ~ tn PROVE CounterOK(lg, fin[Counter], fin[Sidecar], j + 1, u)
    BY <1>4, <1>5, <1>6, <1>8, CounterAdvance
  <1> QED
    BY <1>7, <1>8 DEF DataOK

-----------------------------------------------------------------------------
(* The batch of an entry.                                                  *)

LEMMA LatestTwo ==
    ASSUME NEW r, NEW s, NEW key, NEW old
    PROVE  Latest(<<r, s>>, key, old) =
               IF s.key = key THEN s.value ELSE IF r.key = key THEN r.value ELSE old
  <1>1. PICK b : b = <<r, s>>
    OBVIOUS
  <1>2. b \in Seq({r, s}) /\ DOMAIN b = {1, 2} /\ b[1] = r /\ b[2] = s
    BY <1>1
  <1>3. CASE s.key = key
    <2>1. LastRow(b, key, 2)
      BY <1>2, <1>3 DEF LastRow
    <2>2. Latest(b, key, old) = b[2].value
      BY <1>2, <2>1, LatestIs
    <2> QED
      BY <1>1, <1>2, <1>3, <2>2
  <1>4. CASE s.key # key /\ r.key = key
    <2>1. LastRow(b, key, 1)
      BY <1>2, <1>4 DEF LastRow
    <2>2. Latest(b, key, old) = b[1].value
      BY <1>2, <2>1, LatestIs
    <2> QED
      BY <1>1, <1>2, <1>4, <2>2
  <1>5. CASE s.key # key /\ r.key # key
    <2>1. \A j \in DOMAIN b : b[j].key # key
      BY <1>2, <1>5
    <2>2. Latest(b, key, old) = old
      BY <1>2, <2>1, LatestNone
    <2> QED
      BY <1>1, <1>5, <2>2
  <1> QED
    BY <1>3, <1>4, <1>5

LEMMA LatestThree ==
    ASSUME NEW r, NEW s, NEW t, NEW key, NEW old
    PROVE  Latest(<<r, s, t>>, key, old) =
               IF t.key = key THEN t.value ELSE IF s.key = key THEN s.value
               ELSE IF r.key = key THEN r.value ELSE old
  <1>1. PICK b : b = <<r, s, t>>
    OBVIOUS
  <1>2. /\ b \in Seq({r, s, t}) /\ DOMAIN b = {1, 2, 3}
        /\ b[1] = r /\ b[2] = s /\ b[3] = t
    BY <1>1
  <1>3. CASE t.key = key
    <2>1. LastRow(b, key, 3)
      BY <1>2, <1>3 DEF LastRow
    <2>2. Latest(b, key, old) = b[3].value
      BY <1>2, <2>1, LatestIs
    <2> QED
      BY <1>1, <1>2, <1>3, <2>2
  <1>4. CASE t.key # key /\ s.key = key
    <2>1. LastRow(b, key, 2)
      BY <1>2, <1>4 DEF LastRow
    <2>2. Latest(b, key, old) = b[2].value
      BY <1>2, <2>1, LatestIs
    <2> QED
      BY <1>1, <1>2, <1>4, <2>2
  <1>5. CASE t.key # key /\ s.key # key /\ r.key = key
    <2>1. LastRow(b, key, 1)
      BY <1>2, <1>5 DEF LastRow
    <2>2. Latest(b, key, old) = b[1].value
      BY <1>2, <2>1, LatestIs
    <2> QED
      BY <1>1, <1>2, <1>5, <2>2
  <1>6. CASE t.key # key /\ s.key # key /\ r.key # key
    <2>1. \A j \in DOMAIN b : b[j].key # key
      BY <1>2, <1>6
    <2>2. Latest(b, key, old) = old
      BY <1>2, <2>1, LatestNone
    <2> QED
      BY <1>1, <1>6, <2>2
  <1> QED
    BY <1>3, <1>4, <1>5, <1>6

LEMMA RowIs ==
    ASSUME NEW key, NEW value
    PROVE  Row(key, value).key = key /\ Row(key, value).value = value
  BY DEF Row

LEMMA StoredRow ==
    ASSUME NEW rows, NEW seq, NEW row \in Rows
    PROVE  StoreAll(rows, seq)[row] = Latest(seq, row, rows[row])
  BY DEF StoreAll

LEMMA ValueOf ==
    ASSUME NEW len \in Nat
    PROVE  /\ RowValue(Counter, len) = CounterValue
           /\ RowValue(Sidecar, len) = SideValue
           /\ RowValue(Plain, len) = PlainValue
           /\ \A r \in Realms : RowValue(r, len) = (0..len) \union {Absent}
           /\ \A r \in Rows : RowValue(r, len) \subseteq
                                 Nat \union {Absent, Bad} \union Value
  <1>1. RowValue(Counter, len) = CounterValue
    BY DEF RowValue, CounterValue
  <1>2. RowValue(Sidecar, len) = SideValue
    BY Different DEF RowValue, SideValue
  <1>3. RowValue(Plain, len) = PlainValue
    BY Different DEF RowValue, PlainValue
  <1>4. ASSUME NEW r \in Realms PROVE RowValue(r, len) = (0..len) \union {Absent}
    BY Different DEF RowValue
  <1>5. ASSUME NEW r \in Rows
        PROVE RowValue(r, len) \subseteq Nat \union {Absent, Bad} \union Value
    BY <1>1, <1>2, <1>3, <1>4, Different DEF CounterValue, SideValue, PlainValue
  <1> QED
    BY <1>1, <1>2, <1>3, <1>4, <1>5

\* What a store of the right shape is.
LEMMA StoreParts ==
    ASSUME NEW len \in Nat, NEW rows, StoreOK(rows, len)
    PROVE  /\ rows[Counter] \in CounterValue /\ rows[Sidecar] \in SideValue
           /\ rows[Plain] \in PlainValue
           /\ \A r \in Realms : rows[r] \in (0..len) \union {Absent}
           /\ DOMAIN rows = Rows
  <1>1. \A row \in Rows : rows[row] \in RowValue(row, len)
    BY DEF StoreOK
  <1>2. DOMAIN rows = Rows
    BY DEF StoreOK
  <1> QED
    BY <1>1, <1>2, ValueOf, Different

\* Storing rows of the right kind.
LEMMA StoreKeeps ==
    ASSUME NEW len \in Nat, NEW rows, StoreOK(rows, len), NEW b, RowsOK(b, len)
    PROVE  StoreOK(StoreAll(rows, b), len)
  <1>1. PICK t : t = StoreAll(rows, b)
    OBVIOUS
  <1>2. ASSUME NEW row \in Rows PROVE t[row] \in RowValue(row, len)
    <2>1. t[row] = Latest(b, row, rows[row])
      BY <1>1, StoredRow
    <2>2. b \in Seq(AnyRow)
      BY DEF RowsOK
    <2>3. CASE \E j \in DOMAIN b : b[j].key = row
      <3>1. PICK j : LastRow(b, row, j)
        BY <2>2, <2>3, LatestHas
      <3>2. t[row] = b[j].value
        BY <2>1, <2>2, <3>1, LatestIs
      <3> QED
        BY <3>1, <3>2 DEF LastRow, RowsOK
    <2>4. CASE ~ \E j \in DOMAIN b : b[j].key = row
      <3>1. t[row] = rows[row]
        BY <2>1, <2>2, <2>4, LatestNone
      <3> QED
        BY <3>1 DEF StoreOK
    <2> QED
      BY <2>3, <2>4
  <1>3. t = [row \in Rows |-> t[row]]
    BY <1>1 DEF StoreAll
  <1> QED
    BY <1>1, <1>2, <1>3 DEF StoreOK

\* The realm of each row.
LEMMA RealmIs ==
    ASSUME NEW c \in Command
    PROVE  CommandRealm(c) \in Realms
  <1>0. ASSUME NEW key \in {Counter, Plain} PROVE RealmOf(key) \in Realms
    BY Different DEF RealmOf, Realms
  <1>1. CASE c.op = "blank"
    BY <1>1 DEF CommandRealm, Realms
  <1>2. CASE c.op = "increment" /\ c.key = Counter
    BY <1>0, <1>2 DEF CommandRealm
  <1>3. CASE c.op = "put_if_absent" /\ Writable(c.key, c.value)
    <2>1. c.key \in {Counter, Plain}
      BY <1>3 DEF Writable
    <2>2. CommandRealm(c) = RealmOf(c.key)
      BY <1>3 DEF CommandRealm
    <2> QED
      BY <1>0, <2>1, <2>2
  <1>4. CASE c.op = "write" /\ WriteOK(c)
    <2>1. PICK key : key = IF c.puts # <<>> THEN c.puts[1].key ELSE c.deletes[1]
      OBVIOUS
    <2>2. key \in {Counter, Plain}
      <3>1. CASE c.puts # <<>>
        <4>1. c.puts \in Seq([key : {Counter, Plain}, value : Content])
          BY <1>4 DEF WriteOK
        <4>2. 1 \in DOMAIN c.puts
          BY <3>1, <4>1
        <4>3. Writable(c.puts[1].key, c.puts[1].value)
          BY <1>4, <4>2 DEF WriteOK
        <4> QED
          BY <2>1, <3>1, <4>3 DEF Writable
      <3>2. CASE c.puts = <<>>
        <4>1. c.deletes \in Seq({Counter, Plain}) /\ c.deletes # <<>>
          BY <1>4, <3>2 DEF WriteOK
        <4>2. c.deletes[1] \in {Counter, Plain}
          BY <4>1
        <4> QED
          BY <2>1, <3>2, <4>2
      <3> QED
        BY <3>1, <3>2
    <2>3. CommandRealm(c) = RealmOf(key)
      BY <1>4, <2>1 DEF CommandRealm
    <2> QED
      BY <1>0, <2>2, <2>3
  <1> QED
    BY <1>1, <1>2, <1>3, <1>4, Kinds

LEMMA SetOfJoin ==
    ASSUME NEW S, NEW a \in Seq(S), NEW b \in Seq(S), NEW x
    PROVE  x \in ToSet(a \o b) <=> x \in ToSet(a) \/ x \in ToSet(b)
  <1>1. PICK s : s = a \o b
    OBVIOUS
  <1>2. PICK p : p = Len(a)
    OBVIOUS
  <1>3. PICK q : q = Len(b)
    OBVIOUS
  <1>4. /\ p \in Nat /\ q \in Nat
        /\ DOMAIN s = 1..(p + q) /\ DOMAIN a = 1..p /\ DOMAIN b = 1..q
    BY <1>1, <1>2, <1>3
  <1>5. ASSUME NEW j \in 1..p PROVE j \in DOMAIN s /\ s[j] = a[j]
    BY <1>1, <1>2, <1>3, <1>4
  <1>6. ASSUME NEW j \in 1..q PROVE p + j \in DOMAIN s /\ s[p + j] = b[j]
    BY <1>1, <1>2, <1>3, <1>4
  <1>7. ASSUME NEW l \in DOMAIN s
        PROVE  \/ l \in 1..p
               \/ \E j \in 1..q : l = p + j
    <2>1. l \in Nat /\ l <= p + q /\ 1 <= l
      BY <1>4
    <2>2. CASE l <= p
      BY <2>1, <2>2, <1>4
    <2>3. CASE ~ (l <= p)
      <3>1. l - p \in 1..q /\ l = p + (l - p)
        BY <2>1, <2>3, <1>4
      <3> QED
        BY <3>1
    <2> QED
      BY <2>2, <2>3
  <1>8. ASSUME x \in ToSet(a) \/ x \in ToSet(b) PROVE x \in ToSet(s)
    BY <1>4, <1>5, <1>6, <1>8 DEF ToSet
  <1>9. ASSUME x \in ToSet(s) PROVE x \in ToSet(a) \/ x \in ToSet(b)
    <2>1. PICK l \in DOMAIN s : s[l] = x
      BY <1>9 DEF ToSet
    <2> QED
      BY <1>4, <1>5, <1>6, <1>7, <2>1 DEF ToSet
  <1> QED
    BY <1>1, <1>8, <1>9

LEMMA Joined ==
    ASSUME NEW T, NEW s \in Seq(T), NEW t \in Seq(T)
    PROVE  /\ s \o t \in Seq(T) /\ Len(s \o t) = Len(s) + Len(t)
           /\ \A i \in 1..Len(s) : (s \o t)[i] = s[i]
           /\ \A i \in 1..Len(t) : (s \o t)[Len(s) + i] = t[i]
  <1>1. s \o t \in Seq(T) /\ Len(s \o t) = Len(s) + Len(t)
    OBVIOUS
  <1>2. ASSUME NEW i \in 1..Len(s) PROVE (s \o t)[i] = s[i]
    OBVIOUS
  <1>3. ASSUME NEW i \in 1..Len(t) PROVE (s \o t)[Len(s) + i] = t[i]
    OBVIOUS
  <1> QED
    BY <1>1, <1>2, <1>3

LEMMA SameThree ==
    ASSUME NEW S, NEW a \in Seq(S), NEW b \in Seq(S), Len(a) = 3, Len(b) = 3,
           a[1] = b[1], a[2] = b[2], a[3] = b[3]
    PROVE  a = b
  <1>1. a = [j \in 1..3 |-> a[j]] /\ b = [j \in 1..3 |-> b[j]]
    OBVIOUS
  <1>2. ASSUME NEW j \in 1..3 PROVE j = 1 \/ j = 2 \/ j = 3
    OBVIOUS
  <1>3. \A j \in 1..3 : a[j] = b[j]
    BY <1>2
  <1> QED
    BY <1>1, <1>3

LEMMA ThreeRows ==
    ASSUME NEW r, NEW s, NEW t
    PROVE  Append(<<r, s>>, t) = <<r, s, t>> /\ <<r>> \o <<s, t>> = <<r, s, t>>
  <1>1. PICK a : a = Append(<<r, s>>, t)
    OBVIOUS
  <1>2. PICK b : b = <<r>> \o <<s, t>>
    OBVIOUS
  <1>3. PICK e : e = <<r, s, t>>
    OBVIOUS
  <1>4. e \in Seq({r, s, t}) /\ Len(e) = 3 /\ e[1] = r /\ e[2] = s /\ e[3] = t
    BY <1>3
  <1>5. a \in Seq({r, s, t}) /\ Len(a) = 3 /\ a[1] = r /\ a[2] = s /\ a[3] = t
    BY <1>1
  <1>6. b \in Seq({r, s, t}) /\ Len(b) = 3 /\ b[1] = r /\ b[2] = s /\ b[3] = t
    <2>1. PICK p : p = <<r>>
      OBVIOUS
    <2>2. PICK q : q = <<s, t>>
      OBVIOUS
    <2>3. p \in Seq({r, s, t}) /\ Len(p) = 1 /\ p[1] = r
      BY <2>1
    <2>4. q \in Seq({r, s, t}) /\ Len(q) = 2 /\ q[1] = s /\ q[2] = t
      BY <2>2
    <2>5. b = p \o q
      BY <1>2, <2>1, <2>2
    <2>6. b \in Seq({r, s, t}) /\ Len(b) = Len(p) + Len(q)
      <3>1. p \in Seq({r, s, t}) /\ q \in Seq({r, s, t})
        BY <2>3, <2>4
      <3> QED
        BY ONLY <2>5, <3>1, Joined
    <2>7. /\ \A j \in 1..Len(p) : b[j] = p[j]
          /\ \A j \in 1..Len(q) : b[Len(p) + j] = q[j]
      <3>1. p \in Seq({r, s, t}) /\ q \in Seq({r, s, t})
        BY <2>3, <2>4
      <3> QED
        BY ONLY <2>5, <3>1, Joined
    <2>8. Len(b) = 3
      BY <2>3, <2>4, <2>6
    <2>9. /\ \A j \in 1..1 : b[j] = p[j]
          /\ \A j \in 1..2 : b[1 + j] = q[j]
      BY <2>3, <2>4, <2>7
    <2>10. b[1] = p[1] /\ b[2] = q[1] /\ b[3] = q[2]
      BY <2>9
    <2> QED
      BY <2>3, <2>4, <2>6, <2>8, <2>10
  <1>7. a = e
    BY ONLY <1>4, <1>5, SameThree
  <1>8. b = e
    BY ONLY <1>4, <1>6, SameThree
  <1> QED
    BY <1>1, <1>2, <1>3, <1>7, <1>8

BatchOK(b, rows, c, i, len) ==
    /\ RowsOK(b, len) /\ b # <<>>
    /\ Applied(rows, c, i, StoreAll(rows, b))
    /\ Pending(rows, rows, b, c)

\* Rows of distinct names: none is stored twice.
LEMMA PendingOnce ==
    ASSUME NEW rows, NEW b, NEW c,
           \A j, l \in DOMAIN b : b[j].key = b[l].key => j = l
    PROVE  Pending(rows, rows, b, c)
  BY DEF Pending

LEMMA RowTyped ==
    ASSUME NEW len \in Nat, NEW key \in Rows, NEW v \in RowValue(key, len)
    PROVE  Row(key, v) \in AnyRow
  <1>1. v \in Nat \union {Absent, Bad} \union Value
    BY ValueOf
  <1> QED
    BY <1>1 DEF Row, AnyRow

LEMMA BatchOne ==
    ASSUME NEW len \in Nat, NEW i \in 1..len, NEW rows, NEW c \in Command,
           StepPlain(c, rows[Plain]) = rows[Plain],
           StepPair(c, i, rows[Counter], rows[Sidecar], rows[Counter], rows[Sidecar])
    PROVE  BatchOK(<<Row(CommandRealm(c), i)>>, rows, c, i, len)
  <1>1. PICK ap : ap = Row(CommandRealm(c), i)
    OBVIOUS
  <1>2. PICK b : b = <<ap>>
    OBVIOUS
  <1>3. CommandRealm(c) \in Realms /\ CommandRealm(c) \in Rows
    BY RealmIs, Different
  <1>4. ap.key = CommandRealm(c) /\ ap.value = i
    BY <1>1, RowIs
  <1>5. i \in RowValue(CommandRealm(c), len)
    BY <1>3, ValueOf
  <1>6. b \in Seq(AnyRow) /\ DOMAIN b = {1} /\ b[1] = ap /\ b # <<>>
    BY <1>1, <1>2, <1>3, <1>5, RowTyped
  <1>7. RowsOK(b, len)
    BY <1>4, <1>5, <1>6 DEF RowsOK
  <1>8. ASSUME NEW row \in Rows
        PROVE  StoreAll(rows, b)[row] = IF row = CommandRealm(c) THEN i ELSE rows[row]
    BY <1>2, <1>4, LatestRow, StoredRow
  <1>9. Applied(rows, c, i, StoreAll(rows, b))
    BY <1>3, <1>8, Different DEF Applied
  <1>10. Pending(rows, rows, b, c)
    BY <1>6, PendingOnce
  <1> QED
    BY <1>1, <1>2, <1>6, <1>7, <1>9, <1>10 DEF BatchOK

LEMMA BatchTwo ==
    ASSUME NEW len \in Nat, NEW i \in 1..len, NEW rows, NEW c \in Command,
           NEW k \in {Counter, Plain}, NEW v \in RowValue(k, len),
           StepPlain(c, rows[Plain]) = IF k = Plain THEN v ELSE rows[Plain],
           StepPair(c, i, rows[Counter], rows[Sidecar],
                    IF k = Counter THEN v ELSE rows[Counter], rows[Sidecar])
    PROVE  BatchOK(<<Row(k, v), Row(CommandRealm(c), i)>>, rows, c, i, len)
  <1>1. PICK ap : ap = Row(CommandRealm(c), i)
    OBVIOUS
  <1>11. PICK r : r = Row(k, v)
    OBVIOUS
  <1>2. PICK b : b = <<r, ap>>
    OBVIOUS
  <1>3. CommandRealm(c) \in Realms /\ CommandRealm(c) \in Rows /\ k \in Rows
        /\ k \notin Realms
    BY RealmIs, Different
  <1>4. ap.key = CommandRealm(c) /\ ap.value = i /\ r.key = k /\ r.value = v
    BY <1>1, <1>11, RowIs
  <1>5. i \in RowValue(CommandRealm(c), len)
    BY <1>3, ValueOf
  <1>12. r \in AnyRow /\ ap \in AnyRow
    BY <1>1, <1>3, <1>5, <1>11, RowTyped
  <1>6. b \in Seq(AnyRow) /\ DOMAIN b = {1, 2} /\ b[1] = r /\ b[2] = ap /\ b # <<>>
    BY <1>2, <1>12
  <1>7. RowsOK(b, len)
    BY <1>4, <1>5, <1>6 DEF RowsOK
  <1>8. ASSUME NEW row \in Rows
        PROVE  StoreAll(rows, b)[row] = IF row = CommandRealm(c) THEN i
                                        ELSE IF row = k THEN v ELSE rows[row]
    BY <1>2, <1>4, LatestTwo, StoredRow
  <1>9. Applied(rows, c, i, StoreAll(rows, b))
    <2>1. ASSUME NEW q \in Realms
          PROVE StoreAll(rows, b)[q] = IF q = CommandRealm(c) THEN i ELSE rows[q]
      BY <1>3, <1>8, Different
    <2>2. /\ StoreAll(rows, b)[Plain] = IF k = Plain THEN v ELSE rows[Plain]
          /\ StoreAll(rows, b)[Counter] = IF k = Counter THEN v ELSE rows[Counter]
          /\ StoreAll(rows, b)[Sidecar] = rows[Sidecar]
      BY <1>3, <1>8, Different
    <2> QED
      BY <2>1, <2>2 DEF Applied
  <1>10. Pending(rows, rows, b, c)
    BY <1>3, <1>4, <1>6, PendingOnce
  <1> QED
    BY <1>1, <1>2, <1>6, <1>7, <1>9, <1>10, <1>11 DEF BatchOK

LEMMA BatchThree ==
    ASSUME NEW len \in Nat, NEW i \in 1..len, NEW rows, NEW c \in Command,
           NEW k, NEW l, {k, l} = {Counter, Sidecar},
           NEW v \in RowValue(k, len), NEW w \in RowValue(l, len),
           StepPlain(c, rows[Plain]) = rows[Plain],
           StepPair(c, i, rows[Counter], rows[Sidecar],
                    IF k = Counter THEN v ELSE w, IF k = Counter THEN w ELSE v)
    PROVE  BatchOK(<<Row(k, v), Row(l, w), Row(CommandRealm(c), i)>>, rows, c, i, len)
  <1>1. PICK ap : ap = Row(CommandRealm(c), i)
    OBVIOUS
  <1>11. PICK r : r = Row(k, v)
    OBVIOUS
  <1>13. PICK s : s = Row(l, w)
    OBVIOUS
  <1>2. PICK b : b = <<r, s, ap>>
    OBVIOUS
  <1>3. CommandRealm(c) \in Realms /\ CommandRealm(c) \in Rows
    BY RealmIs, Different
  <1>14. \/ k = Counter /\ l = Sidecar
         \/ k = Sidecar /\ l = Counter
    BY Different
  <1>15. k \in Rows /\ l \in Rows /\ k # l /\ k # CommandRealm(c) /\ l # CommandRealm(c)
    BY <1>3, <1>14, Different
  <1>4. /\ ap.key = CommandRealm(c) /\ ap.value = i /\ r.key = k /\ r.value = v
        /\ s.key = l /\ s.value = w
    BY <1>1, <1>11, <1>13, RowIs
  <1>5. i \in RowValue(CommandRealm(c), len)
    BY <1>3, ValueOf
  <1>12. r \in AnyRow /\ ap \in AnyRow /\ s \in AnyRow
    BY <1>1, <1>3, <1>5, <1>11, <1>13, <1>15, RowTyped
  <1>6. /\ b \in Seq(AnyRow) /\ DOMAIN b = {1, 2, 3}
        /\ b[1] = r /\ b[2] = s /\ b[3] = ap /\ b # <<>>
    BY <1>2, <1>12
  <1>7. RowsOK(b, len)
    BY <1>4, <1>5, <1>6 DEF RowsOK
  <1>8. ASSUME NEW row \in Rows
        PROVE  StoreAll(rows, b)[row] = IF row = CommandRealm(c) THEN i
                                        ELSE IF row = l THEN w
                                        ELSE IF row = k THEN v ELSE rows[row]
    BY <1>2, <1>4, LatestThree, StoredRow
  <1>9. Applied(rows, c, i, StoreAll(rows, b))
    <2>1. ASSUME NEW q \in Realms
          PROVE StoreAll(rows, b)[q] = IF q = CommandRealm(c) THEN i ELSE rows[q]
      BY <1>3, <1>8, <1>14, Different
    <2>2. /\ StoreAll(rows, b)[Plain] = rows[Plain]
          /\ StoreAll(rows, b)[Counter] = IF k = Counter THEN v ELSE w
          /\ StoreAll(rows, b)[Sidecar] = IF k = Counter THEN w ELSE v
      BY <1>3, <1>8, <1>14, Different
    <2> QED
      BY <2>1, <2>2 DEF Applied
  <1>10. Pending(rows, rows, b, c)
    <2>1. \A p, q \in {1, 2, 3} : b[p].key = b[q].key => p = q
      BY <1>4, <1>6, <1>15
    <2> QED
      BY <1>6, <2>1, PendingOnce
  <1> QED
    BY <1>1, <1>2, <1>6, <1>7, <1>9, <1>10, <1>11, <1>13 DEF BatchOK

\* The batch of an increment (increment_once) does what the entry says.
LEMMA BatchIncrement ==
    ASSUME NEW len \in Nat, NEW i \in 1..len, NEW rows, StoreOK(rows, len),
           NEW c \in Command, c.op = "increment", c.key = Counter
    PROVE  BatchOK(Batch(rows, c, i), rows, c, i, len)
  <1>1. PICK x : x = rows[Counter]
    OBVIOUS
  <1>2. PICK d : d = rows[Sidecar]
    OBVIOUS
  <1>3. PICK ap : ap = Row(CommandRealm(c), i)
    OBVIOUS
  <1>4. x \in CounterValue /\ d \in SideValue /\ i \in Nat /\ i > 0
    BY <1>1, <1>2, StoreParts
  <1>5. d # Bad
    BY <1>4, AbsentIs DEF SideValue
  <1>6. Batch(rows, c, i) = Append(IncrementOnce(rows, Counter, i), ap)
    BY <1>3 DEF Batch
  <1>7. Increments(c) /\ StepPlain(c, rows[Plain]) = rows[Plain]
    BY DEF Increments, StepPlain
  <1>13. ASSUME NEW v \in CounterValue, NEW b, b = <<Row(Counter, v), Row(Sidecar, i), ap>>,
                StepPair(c, i, x, d, v, i)
         PROVE  BatchOK(b, rows, c, i, len)
    <2>1. v \in RowValue(Counter, len) /\ i \in RowValue(Sidecar, len)
      BY <1>4, <1>13, ValueOf DEF SideValue
    <2>2. PICK k : k = Counter
      OBVIOUS
    <2>3. PICK l : l = Sidecar
      OBVIOUS
    <2>4. /\ {k, l} = {Counter, Sidecar} /\ v \in RowValue(k, len) /\ i \in RowValue(l, len)
          /\ StepPair(c, i, rows[Counter], rows[Sidecar],
                      IF k = Counter THEN v ELSE i, IF k = Counter THEN i ELSE v)
      BY <1>1, <1>2, <1>13, <2>1, <2>2, <2>3
    <2>5. BatchOK(<<Row(k, v), Row(l, i), Row(CommandRealm(c), i)>>, rows, c, i, len)
      BY <1>7, <2>4, BatchThree
    <2> QED
      BY <1>3, <1>13, <2>2, <2>3, <2>5
  <1>8. CASE x = Bad
    <2>1. IncrementOnce(rows, Counter, i) = <<Row(Counter, i), Row(Sidecar, i)>>
      BY <1>1, <1>2, <1>8 DEF IncrementOnce
    <2>2. Batch(rows, c, i) = <<Row(Counter, i), Row(Sidecar, i), ap>>
      BY <1>6, <2>1, ThreeRows
    <2>3. StepPair(c, i, x, d, i, i)
      BY <1>7, <1>8 DEF StepPair
    <2>4. i \in CounterValue
      BY <1>4 DEF CounterValue
    <2> QED
      BY <1>13, <2>2, <2>3, <2>4
  <1>9. CASE x # Bad /\ d # Absent /\ i <= d
    <2>1. Bad \notin {x, d} /\ Decoded(d) >= i
      BY <1>4, <1>5, <1>9 DEF Decoded, SideValue
    <2>2. IncrementOnce(rows, Counter, i) = <<>>
      BY <1>1, <1>2, <2>1 DEF IncrementOnce
    <2>3. Batch(rows, c, i) = <<ap>>
      BY <1>6, <2>2
    <2>4. StepPair(c, i, x, d, x, d)
      BY <1>7, <1>9 DEF StepPair
    <2> QED
      BY <1>1, <1>2, <1>3, <1>7, <2>3, <2>4, BatchOne
  <1>10. CASE x # Bad /\ ~ (d # Absent /\ i <= d)
    <2>1. Bad \notin {x, d} /\ ~ (Decoded(d) >= i)
      BY <1>4, <1>5, <1>10 DEF Decoded, SideValue
    <2>2. IncrementOnce(rows, Counter, i) =
              <<Row(Counter, Decoded(x) + 1), Row(Sidecar, i)>>
      BY <1>1, <1>2, <2>1 DEF IncrementOnce
    <2>3. Batch(rows, c, i) = <<Row(Counter, Decoded(x) + 1), Row(Sidecar, i), ap>>
      BY <1>6, <2>2, ThreeRows
    <2>4. StepPair(c, i, x, d, Decoded(x) + 1, i)
      BY <1>7, <1>10 DEF StepPair
    <2>5. Decoded(x) + 1 \in CounterValue
      BY <1>4, <1>10, DecodedIs DEF CounterValue
    <2> QED
      BY <1>13, <2>3, <2>4, <2>5
  <1> QED
    BY <1>8, <1>9, <1>10

\* The batch of a conditional put (apply_put_if_absent) does what it says.
LEMMA BatchPutIfAbsent ==
    ASSUME NEW len \in Nat, NEW i \in 1..len, NEW rows, StoreOK(rows, len),
           NEW c \in Command, c.op = "put_if_absent", Writable(c.key, c.value)
    PROVE  BatchOK(Batch(rows, c, i), rows, c, i, len)
  <1>1. PICK x : x = rows[Counter]
    OBVIOUS
  <1>2. PICK d : d = rows[Sidecar]
    OBVIOUS
  <1>3. PICK ap : ap = Row(CommandRealm(c), i)
    OBVIOUS
  <1>14. PICK k : k = c.key
    OBVIOUS
  <1>15. PICK v : v = c.value
    OBVIOUS
  <1>4. x \in CounterValue /\ d \in SideValue /\ i \in Nat /\ i > 0
    BY <1>1, <1>2, StoreParts
  <1>5. k \in {Counter, Plain} /\ v \in RowValue(k, len)
    BY <1>14, <1>15, ValueOf, Different DEF Writable, CounterValue, PlainValue
  <1>6. ~ Increments(c) /\ ~ Overwrites(c, Counter) /\ c.op # "write"
    BY DEF Increments, Overwrites
  <1>7. CASE rows[k] # Absent
    <2>1. Batch(rows, c, i) = <<ap>>
      BY <1>3, <1>7, <1>14 DEF Batch
    <2>2. StepPlain(c, rows[Plain]) = rows[Plain] /\ StepPair(c, i, x, d, x, d)
      BY <1>1, <1>6, <1>7, <1>14 DEF StepPlain, StepPair
    <2> QED
      BY <1>1, <1>2, <1>3, <2>1, <2>2, BatchOne
  <1>8. CASE rows[k] = Absent /\ (k = Plain \/ d = Absent)
    <2>1. MovedSidecars(rows, <<k>>, i) = <<>>
      BY <1>2, <1>8, Different DEF MovedSidecars, ToSet
    <2>2. Batch(rows, c, i) = <<>> \o <<Row(k, v), ap>>
      BY <1>3, <1>8, <1>14, <1>15, <2>1 DEF Batch
    <2>3. Batch(rows, c, i) = <<Row(k, v), ap>>
      BY <2>2
    <2>4. StepPlain(c, rows[Plain]) = IF k = Plain THEN v ELSE rows[Plain]
      BY <1>6, <1>8, <1>14, <1>15 DEF StepPlain
    <2>5. StepPair(c, i, x, d, IF k = Counter THEN v ELSE x, d)
      BY <1>1, <1>6, <1>8, <1>14, <1>15, Different DEF StepPair, SideMoved
    <2> QED
      BY <1>1, <1>2, <1>3, <1>5, <2>3, <2>4, <2>5, BatchTwo
  <1>9. CASE rows[k] = Absent /\ k = Counter /\ d # Absent
    <2>1. MovedSidecars(rows, <<k>>, i) = <<Row(Sidecar, i)>>
      BY <1>2, <1>9 DEF MovedSidecars, ToSet
    <2>2. Batch(rows, c, i) = <<Row(Sidecar, i)>> \o <<Row(k, v), ap>>
      BY <1>3, <1>9, <1>14, <1>15, <2>1 DEF Batch
    <2>3. Batch(rows, c, i) = <<Row(Sidecar, i), Row(k, v), ap>>
      BY <2>2, ThreeRows
    <2>4. StepPlain(c, rows[Plain]) = rows[Plain]
      BY <1>6, <1>9, <1>14, Different DEF StepPlain
    <2>5. StepPair(c, i, x, d, v, i)
      BY <1>1, <1>6, <1>9, <1>14, <1>15 DEF StepPair, SideMoved
    <2>6. PICK l : l = Sidecar
      OBVIOUS
    <2>7. /\ {l, k} = {Counter, Sidecar} /\ i \in RowValue(l, len) /\ v \in RowValue(k, len)
          /\ StepPair(c, i, rows[Counter], rows[Sidecar],
                      IF l = Counter THEN i ELSE v, IF l = Counter THEN v ELSE i)
      BY <1>1, <1>2, <1>4, <1>5, <1>9, <2>5, <2>6, ValueOf, Different DEF SideValue
    <2>8. BatchOK(<<Row(l, i), Row(k, v), Row(CommandRealm(c), i)>>, rows, c, i, len)
      BY <2>4, <2>7, BatchThree
    <2> QED
      BY <1>3, <2>3, <2>6, <2>8
  <1> QED
    BY <1>5, <1>7, <1>8, <1>9

LEMMA TwoRows ==
    ASSUME NEW r, NEW s
    PROVE  <<r>> \o <<s>> = <<r, s>>
  <1>1. PICK p : p = <<r>>
    OBVIOUS
  <1>2. PICK q : q = <<s>>
    OBVIOUS
  <1>3. PICK e : e = <<r, s>>
    OBVIOUS
  <1>4. PICK b : b = p \o q
    OBVIOUS
  <1>5. p \in Seq({r, s}) /\ Len(p) = 1 /\ p[1] = r
    BY <1>1
  <1>6. q \in Seq({r, s}) /\ Len(q) = 1 /\ q[1] = s
    BY <1>2
  <1>7. e \in Seq({r, s}) /\ Len(e) = 2 /\ e[1] = r /\ e[2] = s
    BY <1>3
  <1>8. /\ b \in Seq({r, s}) /\ Len(b) = Len(p) + Len(q)
        /\ \A j \in 1..Len(p) : b[j] = p[j]
        /\ \A j \in 1..Len(q) : b[Len(p) + j] = q[j]
    <2>1. p \in Seq({r, s}) /\ q \in Seq({r, s})
      BY <1>5, <1>6
    <2> QED
      BY ONLY <1>4, <2>1, Joined
  <1>9. /\ b \in Seq({r, s}) /\ Len(b) = 2
        /\ \A j \in 1..1 : b[j] = p[j]
        /\ \A j \in 1..1 : b[1 + j] = q[j]
    BY <1>5, <1>6, <1>8
  <1>10. b[1] = r /\ b[2] = s
    BY <1>5, <1>6, <1>9
  <1>11. b = [j \in 1..2 |-> b[j]] /\ e = [j \in 1..2 |-> e[j]]
    BY <1>7, <1>9
  <1>12. ASSUME NEW j \in 1..2 PROVE b[j] = e[j]
    <2>1. j = 1 \/ j = 2
      OBVIOUS
    <2> QED
      BY <1>7, <1>10, <2>1
  <1>13. b = e
    BY <1>11, <1>12
  <1> QED
    BY <1>1, <1>2, <1>3, <1>4, <1>13

\* The rows that remove the deleted keys.
Removals(c) == [j \in DOMAIN c.deletes |-> Row(c.deletes[j], Absent)]

\* The deletions of a write batch leave every deleted key absent.
LEMMA RemovalsIs ==
    ASSUME NEW len \in Nat, NEW c, WriteOK(c)
    PROVE  /\ Removals(c) \in Seq(AnyRow)
           /\ \A j \in DOMAIN Removals(c) : /\ Removals(c)[j].key \in ToSet(c.deletes)
                                            /\ Removals(c)[j].value = Absent
                                            /\ Removals(c)[j].key \in {Counter, Plain}
           /\ \A key, old : Latest(Removals(c), key, old) =
                                IF key \in ToSet(c.deletes) THEN Absent ELSE old
  <1>1. PICK d : d = c.deletes
    OBVIOUS
  <1>2. PICK b : b = Removals(c)
    OBVIOUS
  <1>3. PICK n : n = Len(d)
    OBVIOUS
  <1>4. d \in Seq({Counter, Plain})
    BY <1>1 DEF WriteOK
  <1>5. n \in Nat /\ DOMAIN d = 1..n
    BY <1>3, <1>4
  <1>6. b = [j \in 1..n |-> Row(d[j], Absent)]
    BY <1>1, <1>2, <1>5 DEF Removals
  <1>7. ASSUME NEW j \in 1..n
        PROVE  /\ b[j] = Row(d[j], Absent) /\ b[j] \in AnyRow
               /\ b[j].key = d[j] /\ b[j].value = Absent /\ d[j] \in {Counter, Plain}
    <2>1. d[j] \in {Counter, Plain} /\ d[j] \in Rows
      BY <1>4, <1>5, Different
    <2>2. Absent \in RowValue(d[j], len)
      BY <2>1, ValueOf DEF CounterValue, PlainValue
    <2>3. Row(d[j], Absent) \in AnyRow
      BY <2>1, <2>2, RowTyped
    <2> QED
      BY <1>6, <2>1, <2>3, RowIs
  <1>8. b \in Seq(AnyRow) /\ DOMAIN b = 1..n
    <2>1. b \in [1..n -> AnyRow]
      BY <1>6, <1>7
    <2> QED
      BY <1>5, <2>1
  <1>9. ASSUME NEW key, NEW old
        PROVE  Latest(b, key, old) = IF key \in ToSet(d) THEN Absent ELSE old
    <2>1. CASE key \in ToSet(d)
      <3>1. PICK j \in 1..n : d[j] = key
        BY <1>5, <2>1 DEF ToSet
      <3>2. \E l \in DOMAIN b : b[l].key = key
        BY <1>7, <1>8, <3>1
      <3>3. PICK l : LastRow(b, key, l)
        BY <1>8, <3>2, LatestHas
      <3>4. Latest(b, key, old) = b[l].value
        BY <1>8, <3>3, LatestIs
      <3>5. b[l].value = Absent
        BY <1>7, <1>8, <3>3 DEF LastRow
      <3> QED
        BY <2>1, <3>4, <3>5
    <2>2. CASE key \notin ToSet(d)
      <3>1. \A l \in DOMAIN b : b[l].key # key
        BY <1>5, <1>7, <1>8, <2>2 DEF ToSet
      <3>2. Latest(b, key, old) = old
        BY <1>8, <3>1, LatestNone
      <3> QED
        BY <2>2, <3>2
    <2> QED
      BY <2>1, <2>2
  <1>10. \A j \in DOMAIN b : b[j].key \in ToSet(d)
    BY <1>5, <1>7, <1>8 DEF ToSet
  <1> QED
    BY <1>1, <1>2, <1>7, <1>8, <1>9, <1>10

\* The puts of a write batch are rows of the right kind.
LEMMA PutsTyped ==
    ASSUME NEW len \in Nat, NEW c, WriteOK(c)
    PROVE  /\ c.puts \in Seq(AnyRow)
           /\ \A j \in DOMAIN c.puts : /\ c.puts[j].key \in {Counter, Plain}
                                       /\ c.puts[j].value \in RowValue(c.puts[j].key, len)
  <1>1. PICK p : p = c.puts
    OBVIOUS
  <1>2. PICK n : n = Len(p)
    OBVIOUS
  <1>3. p \in Seq([key : {Counter, Plain}, value : Content])
    BY <1>1 DEF WriteOK
  <1>7. PICK T : T = [key : {Counter, Plain}, value : Content]
    OBVIOUS
  <1>8. p \in Seq(T)
    BY <1>3, <1>7
  <1>4. n \in Nat /\ DOMAIN p = 1..n /\ p \in [1..n -> T]
    BY <1>2, <1>8
  <1>5. ASSUME NEW j \in 1..n
        PROVE  /\ p[j] \in AnyRow /\ p[j].key \in {Counter, Plain}
               /\ p[j].value \in RowValue(p[j].key, len)
    <2>1. p[j] \in [key : {Counter, Plain}, value : Content]
      BY <1>4, <1>7
    <2>2. [key : {Counter, Plain}, value : Content] \subseteq AnyRow
      BY Different DEF AnyRow, Content
    <2>3. Writable(p[j].key, p[j].value)
      BY <1>1, <1>4 DEF WriteOK
    <2>4. p[j].value \in RowValue(p[j].key, len) /\ p[j].key \in {Counter, Plain}
      BY <2>3, ValueOf DEF Writable, CounterValue, PlainValue
    <2> QED
      BY <2>1, <2>2, <2>4
  <1>6. p \in Seq(AnyRow)
    <2>1. p \in [1..n -> AnyRow]
      BY <1>4, <1>5
    <2> QED
      BY <1>4, <2>1
  <1> QED
    BY <1>1, <1>4, <1>5, <1>6

LEMMA JoinAssoc ==
    ASSUME NEW S, NEW a \in Seq(S), NEW b \in Seq(S), NEW e \in Seq(S),
           NEW f \in Seq(S)
    PROVE  ((a \o b) \o e) \o f = (a \o (b \o e)) \o f
  <1>1. (a \o b) \o e = a \o (b \o e)
    OBVIOUS
  <1> QED
    BY <1>1

\* The places of a concatenation of three sequences.
LEMMA Places ==
    ASSUME NEW S, NEW a \in Seq(S), NEW b \in Seq(S), NEW e \in Seq(S),
           NEW l \in DOMAIN (a \o b \o e)
    PROVE  \/ \E j \in DOMAIN a : l = j /\ (a \o b \o e)[l] = a[j]
           \/ \E j \in DOMAIN b : l = Len(a) + j /\ (a \o b \o e)[l] = b[j]
           \/ \E j \in DOMAIN e : l = Len(a) + Len(b) + j /\ (a \o b \o e)[l] = e[j]
  <1>1. PICK p : p = Len(a)
    OBVIOUS
  <1>2. PICK q : q = Len(b)
    OBVIOUS
  <1>3. PICK r : r = Len(e)
    OBVIOUS
  <1>4. PICK ab : ab = a \o b
    OBVIOUS
  <1>5. PICK abe : abe = ab \o e
    OBVIOUS
  <1>6. /\ p \in Nat /\ q \in Nat /\ r \in Nat
        /\ DOMAIN a = 1..p /\ DOMAIN b = 1..q /\ DOMAIN e = 1..r
    BY <1>1, <1>2, <1>3
  <1>7. /\ ab \in Seq(S) /\ Len(ab) = p + q
        /\ \A i \in 1..p : ab[i] = a[i]
        /\ \A i \in 1..q : ab[p + i] = b[i]
    BY <1>1, <1>2, <1>4, Joined
  <1>8. /\ abe \in Seq(S) /\ Len(abe) = (p + q) + r
        /\ \A i \in 1..(p + q) : abe[i] = ab[i]
        /\ \A i \in 1..r : abe[(p + q) + i] = e[i]
    <2>1. ab \in Seq(S) /\ e \in Seq(S) /\ abe = ab \o e
      BY <1>5, <1>7
    <2>2. /\ abe \in Seq(S) /\ Len(abe) = Len(ab) + Len(e)
          /\ \A i \in 1..Len(ab) : abe[i] = ab[i]
          /\ \A i \in 1..Len(e) : abe[Len(ab) + i] = e[i]
      BY ONLY <2>1, Joined
    <2> QED
      BY <1>3, <1>7, <2>2
  <1>9. l \in Nat /\ 1 <= l /\ l <= (p + q) + r
    BY <1>4, <1>5, <1>6, <1>8
  <1>10. CASE l <= p
    <2>1. l \in 1..p /\ l \in 1..(p + q)
      BY <1>6, <1>9, <1>10
    <2> QED
      BY <1>4, <1>5, <1>6, <1>7, <1>8, <2>1
  <1>11. CASE p < l /\ l <= p + q
    <2>1. PICK j : j = l - p
      OBVIOUS
    <2>2. j \in 1..q /\ l = p + j /\ l \in 1..(p + q)
      BY <1>6, <1>9, <1>11, <2>1
    <2>3. abe[l] = b[j]
      BY <1>7, <1>8, <2>2
    <2> QED
      BY <1>1, <1>4, <1>5, <1>6, <2>2, <2>3
  <1>12. CASE p + q < l
    <2>1. PICK j : j = l - (p + q)
      OBVIOUS
    <2>2. j \in 1..r /\ l = (p + q) + j
      BY <1>6, <1>9, <1>12, <2>1
    <2>3. abe[l] = e[j]
      BY <1>8, <2>2
    <2> QED
      BY <1>1, <1>2, <1>4, <1>5, <1>6, <2>2, <2>3
  <1> QED
    BY <1>6, <1>9, <1>10, <1>11, <1>12

\* moved_sidecars moves the sidecar exactly when a counter that has one is written.
LEMMA MovesSidecar ==
    ASSUME NEW rows, NEW c, c.op = "write", WriteOK(c), NEW i
    PROVE  MovedSidecars(rows, [j \in DOMAIN c.puts |-> c.puts[j].key] \o c.deletes, i) =
               IF Overwrites(c, Counter) /\ rows[Sidecar] # Absent
               THEN <<Row(Sidecar, i)>> ELSE <<>>
  <1>1. PICK p : p = [j \in DOMAIN c.puts |-> c.puts[j].key]
    OBVIOUS
  <1>2. PICK n : n = Len(c.puts)
    OBVIOUS
  <1>3. c.puts \in Seq([key : {Counter, Plain}, value : Content])
        /\ c.deletes \in Seq({Counter, Plain})
    BY DEF WriteOK
  <1>4. n \in Nat /\ DOMAIN c.puts = 1..n
    BY <1>2, <1>3
  <1>5. p \in Seq({Counter, Plain})
    <2>1. ASSUME NEW j \in 1..n PROVE c.puts[j].key \in {Counter, Plain}
      BY <1>4, PutsTyped
    <2>2. p \in [1..n -> {Counter, Plain}]
      BY <1>1, <1>4, <2>1
    <2> QED
      BY <1>4, <2>2
  <1>6. Counter \in ToSet(p \o c.deletes) <=>
           Counter \in ToSet(p) \/ Counter \in ToSet(c.deletes)
    BY <1>3, <1>5, SetOfJoin
  <1>7. Counter \in ToSet(p) <=> \E j \in DOMAIN c.puts : c.puts[j].key = Counter
    BY <1>1 DEF ToSet
  <1>8. Counter \in ToSet(p \o c.deletes) <=> Overwrites(c, Counter)
    BY <1>6, <1>7 DEF Overwrites
  <1> QED
    BY <1>1, <1>8 DEF MovedSidecars

\* The batch of a write, with its moved sidecars, does what the entry says.
LEMMA BatchWrite ==
    ASSUME NEW len \in Nat, NEW i \in 1..len, NEW rows, StoreOK(rows, len),
           NEW c \in Command, c.op = "write", WriteOK(c)
    PROVE  BatchOK(Batch(rows, c, i), rows, c, i, len)
  <1>1. PICK x : x = rows[Counter]
    OBVIOUS
  <1>2. PICK d : d = rows[Sidecar]
    OBVIOUS
  <1>3. PICK ap : ap = Row(CommandRealm(c), i)
    OBVIOUS
  <1>4. PICK mv : mv = IF Overwrites(c, Counter) /\ d # Absent
                       THEN <<Row(Sidecar, i)>> ELSE <<>>
    OBVIOUS
  <1>5. PICK ps : ps = c.puts
    OBVIOUS
  <1>6. PICK rm : rm = Removals(c)
    OBVIOUS
  <1>7. PICK ma : ma = mv \o <<ap>>
    OBVIOUS
  <1>8. PICK b : b = Batch(rows, c, i)
    OBVIOUS
  <1>9. b = ((ps \o mv) \o <<ap>>) \o rm
    BY <1>2, <1>3, <1>4, <1>5, <1>6, <1>8, MovesSidecar DEF Batch, Removals
  <1>10. CommandRealm(c) \in Realms /\ CommandRealm(c) \in Rows
    BY RealmIs, Different
  <1>11. i \in RowValue(CommandRealm(c), len) /\ i \in RowValue(Sidecar, len)
    BY <1>10, ValueOf DEF SideValue
  <1>12. ap \in AnyRow /\ ap.key = CommandRealm(c) /\ ap.value = i
    BY <1>3, <1>10, <1>11, RowTyped, RowIs
  <1>13. Row(Sidecar, i) \in AnyRow
    BY <1>11, Different, RowTyped
  <1>14. /\ <<ap>> \in Seq(AnyRow) /\ mv \in Seq(AnyRow) /\ ps \in Seq(AnyRow)
         /\ rm \in Seq(AnyRow)
    <2>1. ps \in Seq(AnyRow) /\ rm \in Seq(AnyRow)
      BY <1>5, <1>6, PutsTyped, RemovalsIs
    <2>2. <<ap>> \in Seq(AnyRow)
      BY <1>12
    <2>3. mv \in Seq(AnyRow)
      BY <1>4, <1>13
    <2> QED
      BY <2>1, <2>2, <2>3
  <1>15. PICK pm : pm = ps \o mv
    OBVIOUS
  <1>16. PICK pma : pma = pm \o <<ap>>
    OBVIOUS
  <1>17. pm \in Seq(AnyRow)
    BY ONLY <1>14, <1>15, Joined
  <1>18. pma \in Seq(AnyRow)
    BY ONLY <1>14, <1>16, <1>17, Joined
  <1>19. b = pma \o rm
    BY <1>9, <1>15, <1>16
  <1>20. b \in Seq(AnyRow) /\ Len(b) = Len(pma) + Len(rm)
    BY ONLY <1>14, <1>18, <1>19, Joined
  <1>21. ASSUME NEW key, NEW old
         PROVE  Latest(b, key, old) =
                  Latest(rm, key, Latest(<<ap>>, key, Latest(mv, key, Latest(ps, key, old))))
    <2>1. Latest(pm, key, old) = Latest(mv, key, Latest(ps, key, old))
      BY ONLY <1>14, <1>15, LatestJoin
    <2>2. Latest(pma, key, old) = Latest(<<ap>>, key, Latest(pm, key, old))
      <3>1. PICK one : one = <<ap>>
        OBVIOUS
      <3>2. one \in Seq(AnyRow) /\ pma = pm \o one
        BY <1>14, <1>16, <3>1
      <3>3. Latest(pma, key, old) = Latest(one, key, Latest(pm, key, old))
        BY ONLY <1>17, <3>2, LatestJoin
      <3> QED
        BY <3>1, <3>3
    <2>3. Latest(b, key, old) = Latest(rm, key, Latest(pma, key, old))
      BY ONLY <1>14, <1>18, <1>19, LatestJoin
    <2> QED
      BY <2>1, <2>2, <2>3
  <1>22. ASSUME NEW key, NEW old
         PROVE  /\ Latest(<<ap>>, key, old) = IF key = CommandRealm(c) THEN i ELSE old
                /\ Latest(rm, key, old) = IF key \in ToSet(c.deletes) THEN Absent ELSE old
                /\ Latest(mv, key, old) =
                      IF key = Sidecar /\ Overwrites(c, Counter) /\ d # Absent
                      THEN i ELSE old
    <2>1. Latest(<<ap>>, key, old) = IF key = CommandRealm(c) THEN i ELSE old
      BY <1>12, LatestRow
    <2>2. Latest(rm, key, old) = IF key \in ToSet(c.deletes) THEN Absent ELSE old
      BY <1>6, RemovalsIs
    <2>3. CASE Overwrites(c, Counter) /\ d # Absent
      <3>1. mv = <<Row(Sidecar, i)>>
        BY <1>4, <2>3
      <3>2. Latest(mv, key, old) = IF key = Sidecar THEN i ELSE old
        BY <3>1, LatestRow, RowIs
      <3> QED
        BY <2>1, <2>2, <2>3, <3>2
    <2>4. CASE ~ (Overwrites(c, Counter) /\ d # Absent)
      <3>1. mv = <<>>
        BY <1>4, <2>4
      <3>2. Latest(mv, key, old) = old
        BY <3>1, LatestEmpty
      <3> QED
        BY <2>1, <2>2, <2>4, <3>2
    <2> QED
      BY <2>3, <2>4
  <1>23. ASSUME NEW key, key \notin {Counter, Plain}, NEW old
         PROVE  Latest(ps, key, old) = old /\ key \notin ToSet(c.deletes)
    <2>1. \A j \in DOMAIN ps : ps[j].key # key
      BY <1>5, <1>23, PutsTyped
    <2>2. Latest(ps, key, old) = old
      BY <1>14, <2>1, LatestNone
    <2>3. key \notin ToSet(c.deletes)
      <3>1. c.deletes \in Seq({Counter, Plain})
        BY DEF WriteOK
      <3> QED
        BY <1>23, <3>1 DEF ToSet
    <2> QED
      BY <2>2, <2>3
  <1>24. PICK fin : fin = StoreAll(rows, b)
    OBVIOUS
  <1>25. ASSUME NEW key \in {Counter, Plain}
         PROVE  fin[key] = Written(c, key, rows[key])
    <2>1. key # Sidecar /\ key # CommandRealm(c) /\ key \in Rows
      BY <1>10, Different
    <2>2. fin[key] = Latest(b, key, rows[key])
      BY <1>24, <2>1, StoredRow
    <2>3. fin[key] = IF key \in ToSet(c.deletes) THEN Absent ELSE Latest(ps, key, rows[key])
      BY <1>21, <1>22, <2>1, <2>2
    <2> QED
      BY <1>5, <2>3 DEF Written
  <1>26. fin[Sidecar] = IF Overwrites(c, Counter) THEN SideMoved(d, i) ELSE d
    <2>1. Sidecar \notin {Counter, Plain} /\ Sidecar # CommandRealm(c) /\ Sidecar \in Rows
      BY <1>10, Different
    <2>2. fin[Sidecar] = Latest(b, Sidecar, d)
      BY <1>2, <1>24, <2>1, StoredRow
    <2>3. fin[Sidecar] = IF Overwrites(c, Counter) /\ d # Absent THEN i ELSE d
      BY <1>21, <1>22, <1>23, <2>1, <2>2
    <2> QED
      BY <2>3 DEF SideMoved
  <1>27. ASSUME NEW r \in Realms
         PROVE  fin[r] = IF r = CommandRealm(c) THEN i ELSE rows[r]
    <2>1. r \notin {Counter, Plain} /\ r # Sidecar /\ r \in Rows
      BY Different
    <2>2. fin[r] = Latest(b, r, rows[r])
      BY <1>24, <2>1, StoredRow
    <2> QED
      BY <1>21, <1>22, <1>23, <2>1, <2>2
  <1>28. Applied(rows, c, i, fin)
    <2>1. fin[Plain] = StepPlain(c, rows[Plain])
      BY <1>25 DEF StepPlain
    <2>2. ~ Increments(c) /\ c.op # "put_if_absent"
      BY DEF Increments
    <2>3. StepPair(c, i, x, d, fin[Counter], fin[Sidecar])
      <3>1. CASE Overwrites(c, Counter)
        BY <1>1, <1>25, <1>26, <2>2, <3>1 DEF StepPair
      <3>2. CASE ~ Overwrites(c, Counter)
        <4>1. fin[Counter] = x
          BY <1>1, <1>25, <3>2, WrittenOver
        <4> QED
          BY <1>26, <2>2, <3>2, <4>1 DEF StepPair
      <3> QED
        BY <3>1, <3>2
    <2> QED
      BY <1>1, <1>2, <1>27, <2>1, <2>3 DEF Applied
  <1>29. /\ \A j \in DOMAIN ps : /\ ps[j].key \in {Counter, Plain}
                                 /\ ps[j].value \in RowValue(ps[j].key, len)
         /\ \A j \in DOMAIN rm : /\ rm[j].key \in ToSet(c.deletes)
                                 /\ rm[j].value = Absent
                                 /\ rm[j].key \in {Counter, Plain}
    BY <1>5, <1>6, PutsTyped, RemovalsIs
  <1>30. /\ ma \in Seq(AnyRow) /\ Len(ma) \in {1, 2}
         /\ \A j \in DOMAIN ma : \/ ma[j] = ap
                                 \/ j = 1 /\ ma[j] = Row(Sidecar, i)
    <2>1. CASE mv = <<>>
      <3>1. ma = <<ap>>
        BY <1>7, <2>1
      <3> QED
        BY <1>14, <3>1
    <2>2. CASE mv = <<Row(Sidecar, i)>>
      <3>1. ma = <<Row(Sidecar, i), ap>>
        BY <1>7, <2>2, TwoRows
      <3> QED
        BY <1>12, <1>13, <3>1
    <2> QED
      BY <1>4, <2>1, <2>2
  <1>31. b = (ps \o ma) \o rm
    BY ONLY <1>7, <1>9, <1>14, JoinAssoc
  <1>32. ASSUME NEW l \in DOMAIN b
         PROVE  \/ \E j \in DOMAIN ps : l = j /\ b[l] = ps[j]
                \/ \E j \in DOMAIN ma : l = Len(ps) + j /\ b[l] = ma[j]
                \/ \E j \in DOMAIN rm : b[l] = rm[j]
    <2>1. l \in DOMAIN (ps \o ma \o rm)
      BY <1>31
    <2> QED
      BY ONLY <1>14, <1>30, <1>31, <2>1, Places
  <1>33. RowsOK(b, len)
    <2>1. ASSUME NEW l \in DOMAIN b PROVE b[l].value \in RowValue(b[l].key, len)
      <3>1. CASE \E j \in DOMAIN ps : b[l] = ps[j]
        BY <1>29, <3>1
      <3>2. CASE \E j \in DOMAIN ma : b[l] = ma[j]
        BY <1>11, <1>12, <1>30, <3>2, RowIs
      <3>3. CASE \E j \in DOMAIN rm : b[l] = rm[j]
        BY <1>29, <3>3, ValueOf DEF CounterValue, PlainValue
      <3> QED
        BY <1>32, <3>1, <3>2, <3>3
    <2> QED
      BY <1>20, <2>1 DEF RowsOK
  <1>34. Pending(rows, rows, b, c)
    <2>1. ASSUME NEW key \in {Counter, Plain}, NEW l \in DOMAIN b, b[l].key = key
          PROVE  Overwrites(c, key)
      <3>1. CASE \E j \in DOMAIN ps : b[l] = ps[j]
        BY <1>5, <2>1, <3>1 DEF Overwrites
      <3>2. CASE \E j \in DOMAIN ma : b[l] = ma[j]
        BY <1>10, <1>12, <1>30, <2>1, <3>2, RowIs, Different
      <3>3. CASE \E j \in DOMAIN rm : b[l] = rm[j]
        BY <1>29, <2>1, <3>3 DEF Overwrites
      <3> QED
        BY <1>32, <3>1, <3>2, <3>3
    <2>2. ASSUME NEW l \in DOMAIN b, b[l].key = Sidecar
          PROVE  l = Len(ps) + 1
      <3>1. CASE \E j \in DOMAIN ps : b[l] = ps[j]
        BY <1>29, <2>2, <3>1, Different
      <3>2. CASE \E j \in DOMAIN ma : l = Len(ps) + j /\ b[l] = ma[j]
        BY <1>10, <1>12, <1>30, <2>2, <3>2, Different
      <3>3. CASE \E j \in DOMAIN rm : b[l] = rm[j]
        BY <1>29, <2>2, <3>3, Different
      <3> QED
        BY <1>32, <3>1, <3>2, <3>3
    <2> QED
      BY <2>1, <2>2 DEF Pending
  <1>35. b # <<>>
    <2>1. Len(pma) = Len(pm) + 1 /\ Len(pm) \in Nat /\ Len(rm) \in Nat
      BY <1>14, <1>16, <1>17
    <2>2. Len(b) # 0
      BY <1>20, <2>1
    <2> QED
      BY <2>2
  <1> QED
    BY <1>8, <1>24, <1>28, <1>33, <1>34, <1>35 DEF BatchOK

\* The batch apply_command stores is the entry's effect on the rows it was computed from.
LEMMA BatchApplies ==
    ASSUME NEW len \in Nat, NEW i \in 1..len, NEW rows, StoreOK(rows, len),
           NEW c \in Command
    PROVE  BatchOK(Batch(rows, c, i), rows, c, i, len)
  <1>1. CASE c.op = "blank"
    <2>1. Batch(rows, c, i) = <<Row(CommandRealm(c), i)>>
      BY <1>1 DEF Batch
    <2>2. StepPlain(c, rows[Plain]) = rows[Plain]
      BY <1>1 DEF StepPlain
    <2>3. StepPair(c, i, rows[Counter], rows[Sidecar], rows[Counter], rows[Sidecar])
      BY <1>1 DEF StepPair, Increments, Overwrites
    <2> QED
      BY <2>1, <2>2, <2>3, BatchOne
  <1>2. CASE c.op = "increment" /\ c.key = Counter
    BY <1>2, BatchIncrement
  <1>3. CASE c.op = "put_if_absent" /\ Writable(c.key, c.value)
    BY <1>3, BatchPutIfAbsent
  <1>4. CASE c.op = "write" /\ WriteOK(c)
    BY <1>4, BatchWrite
  <1> QED
    BY <1>1, <1>2, <1>3, <1>4, Kinds

-----------------------------------------------------------------------------
(* Replaying the log over a snapshot.                                      *)

ReplayRun(f, rows, lg, from, n) ==
    f = [j \in from..n |->
            IF j = from THEN rows
            ELSE StoreAll(f[j - 1], Batch(f[j - 1], lg[j], j))]

\* A function that runs through the entries from..end as Replay does exists.
LEMMA ReplayRuns ==
    ASSUME NEW rows, NEW lg, NEW from \in Nat, NEW end \in Nat, from <= end
    PROVE  \E f : ReplayRun(f, rows, lg, from, end)
  <1> DEFINE bad == {n \in from..end : ~ \E f : ReplayRun(f, rows, lg, from, n)}
  <1>1. SUFFICES ASSUME bad # {} PROVE FALSE
    OBVIOUS
  <1>2. PICK m : m = Min(bad)
    OBVIOUS
  <1>3. m \in bad /\ \A y \in bad : m <= y
    <2>1. bad \in SUBSET Nat
      OBVIOUS
    <2> HIDE DEF bad
    <2> QED
      BY <1>1, <1>2, <2>1, SmallestOf
  <1>4. CASE m = from
    <2>1. PICK f : f = [j \in from..m |-> rows]
      OBVIOUS
    <2>2. ASSUME NEW j \in from..m PROVE j = from
      BY <1>4
    <2>3. ReplayRun(f, rows, lg, from, m)
      BY <2>1, <2>2 DEF ReplayRun
    <2> QED
      BY <1>3, <2>3
  <1>5. CASE m # from
    <2>1. m \in Nat /\ m - 1 \in from..end /\ m > from
      BY <1>3, <1>5
    <2>2. m - 1 \notin bad
      BY <1>3, <2>1
    <2>3. PICK f : ReplayRun(f, rows, lg, from, m - 1)
      BY <2>1, <2>2
    <2>4. PICK x : x = StoreAll(f[m - 1], Batch(f[m - 1], lg[m], m))
      OBVIOUS
    <2>5. PICK g : g = [j \in from..m |-> IF j = m THEN x ELSE f[j]]
      OBVIOUS
    <2>6. ASSUME NEW j \in from..m
          PROVE  g[j] = IF j = from THEN rows
                        ELSE StoreAll(g[j - 1], Batch(g[j - 1], lg[j], j))
      <3>1. CASE j = m
        <4>1. m - 1 \in from..m /\ m - 1 # m
          BY <2>1
        <4>2. g[m - 1] = f[m - 1] /\ g[m] = x
          BY <2>1, <2>5, <4>1
        <4> QED
          BY <1>5, <2>4, <3>1, <4>2
      <3>2. CASE j # m
        <4>1. j \in from..(m - 1) /\ g[j] = f[j]
          BY <2>1, <2>5, <3>2
        <4>2. CASE j = from
          BY <2>3, <4>1, <4>2 DEF ReplayRun
        <4>3. CASE j # from
          <5>1. j - 1 \in from..m /\ j - 1 # m
            BY <2>1, <4>1, <4>3
          <5>2. g[j - 1] = f[j - 1]
            BY <2>5, <5>1
          <5>3. f[j] = StoreAll(f[j - 1], Batch(f[j - 1], lg[j], j))
            BY <2>3, <4>1, <4>3 DEF ReplayRun
          <5> QED
            BY <4>1, <4>3, <5>2, <5>3
        <4> QED
          BY <4>2, <4>3
      <3> QED
        BY <3>1, <3>2
    <2>7. ReplayRun(g, rows, lg, from, m)
      <3>1. g = [j \in from..m |-> g[j]]
        BY <2>5
      <3> QED
        BY <2>6, <3>1 DEF ReplayRun
    <2> QED
      BY <1>3, <2>7
  <1> QED
    BY <1>4, <1>5

\* One more entry of the log.
LEMMA EntryAdvances ==
    ASSUME NEW lg \in Seq(Command), NEW j \in Nat, NEW u \in Nat,
           j + 1 <= u, u <= Len(lg), NEW rows, StoreOK(rows, Len(lg)),
           NEW tn \in BOOLEAN, DataOK(lg, rows, j, u, tn)
    PROVE  /\ StoreOK(StoreAll(rows, Batch(rows, lg[j + 1], j + 1)), Len(lg))
           /\ DataOK(lg, StoreAll(rows, Batch(rows, lg[j + 1], j + 1)), j + 1, u, tn)
  <1>1. PICK b : b = Batch(rows, lg[j + 1], j + 1)
    OBVIOUS
  <1>2. j + 1 \in 1..Len(lg) /\ Len(lg) \in Nat /\ lg[j + 1] \in Command
    OBVIOUS
  <1>3. BatchOK(b, rows, lg[j + 1], j + 1, Len(lg))
    BY <1>1, <1>2, BatchApplies
  <1>4. RowsOK(b, Len(lg)) /\ Applied(rows, lg[j + 1], j + 1, StoreAll(rows, b))
    BY <1>3 DEF BatchOK
  <1>5. StoreOK(StoreAll(rows, b), Len(lg))
    BY <1>2, <1>4, StoreKeeps
  <1>6. /\ rows[Plain] \in PlainValue /\ rows[Counter] \in CounterValue
        /\ rows[Sidecar] \in SideValue
    BY <1>2, StoreParts
  <1>7. DataOK(lg, StoreAll(rows, b), j + 1, u, tn)
    BY <1>4, <1>6, DataAdvance
  <1> QED
    BY <1>1, <1>5, <1>7

\* Replaying the rest of the log over good rows gives the log's state.
LEMMA ReplayAgrees ==
    ASSUME NEW lg \in Seq(Command), NEW from \in Nat, from <= Len(lg),
           NEW rows, StoreOK(rows, Len(lg)), NEW tn \in BOOLEAN,
           DataOK(lg, rows, from, Len(lg), tn)
    PROVE  /\ Replay(rows, lg, from, Len(lg))[Plain] = Reference(lg, Len(lg))[Plain]
           /\ ~ tn => Replay(rows, lg, from, Len(lg))[Counter] =
                          Reference(lg, Len(lg))[Counter]
  <1>1. PICK n : n = Len(lg)
    OBVIOUS
  <1>2. n \in Nat
    BY <1>1
  <1>3. PICK run : run = CHOOSE f : ReplayRun(f, rows, lg, from, n)
    OBVIOUS
  <1>4. ReplayRun(run, rows, lg, from, n)
    BY <1>1, <1>2, <1>3, ReplayRuns
  <1>5. Replay(rows, lg, from, Len(lg)) = run[n]
    BY <1>1, <1>3 DEF Replay, ReplayRun
  <1> DEFINE ok(j) == StoreOK(run[j], n) /\ DataOK(lg, run[j], j, n, tn)
  <1> DEFINE bad == {j \in from..n : ~ ok(j)}
  <1>6. ASSUME bad # {} PROVE FALSE
    <2>1. PICK m : m = Min(bad)
      OBVIOUS
    <2>2. m \in bad /\ \A y \in bad : m <= y
      <3>1. bad \in SUBSET Nat
        OBVIOUS
      <3> HIDE DEF bad
      <3> QED
        BY <1>6, <2>1, <3>1, SmallestOf
    <2>3. m \in from..n /\ ~ ok(m) /\ m \in Nat
      BY <2>2
    <2>4. CASE m = from
      <3>1. run[m] = rows
        BY <1>4, <2>3, <2>4 DEF ReplayRun
      <3> QED
        BY <1>1, <2>3, <2>4, <3>1
    <2>5. CASE m # from
      <3>1. PICK p : p = m - 1
        OBVIOUS
      <3>2. p \in Nat /\ m = p + 1 /\ p \in from..n /\ p < m /\ p + 1 <= n
        BY <1>2, <2>3, <2>5, <3>1
      <3>3. p \notin bad
        BY <2>2, <2>3, <3>2
      <3>4. ok(p)
        BY <3>2, <3>3
      <3>5. run[m] = StoreAll(run[m - 1], Batch(run[m - 1], lg[m], m))
        BY <1>4, <2>3, <2>5 DEF ReplayRun
      <3>6. run[m] = StoreAll(run[p], Batch(run[p], lg[p + 1], p + 1))
        BY <3>1, <3>2, <3>5
      <3>7. PICK q : q = run[p]
        OBVIOUS
      <3>8. /\ lg \in Seq(Command) /\ p \in Nat /\ n \in Nat /\ p + 1 <= n
            /\ n <= Len(lg) /\ StoreOK(q, Len(lg)) /\ tn \in BOOLEAN
            /\ DataOK(lg, q, p, n, tn)
        BY <1>1, <1>2, <3>2, <3>4, <3>7
      <3>9. /\ StoreOK(StoreAll(q, Batch(q, lg[p + 1], p + 1)), Len(lg))
            /\ DataOK(lg, StoreAll(q, Batch(q, lg[p + 1], p + 1)), p + 1, n, tn)
        BY ONLY <3>8, EntryAdvances
      <3>10. StoreOK(run[m], n) /\ DataOK(lg, run[m], m, n, tn)
        BY <1>1, <3>2, <3>6, <3>7, <3>9
      <3> QED
        BY <2>3, <3>10
    <2> QED
      BY <2>4, <2>5
  <1>7. n \in from..n
    BY <1>1, <1>2
  <1>8. DataOK(lg, run[n], n, n, tn)
    BY <1>6, <1>7
  <1> QED
    BY <1>1, <1>2, <1>5, <1>8, DataIsRef

-----------------------------------------------------------------------------
(* The applied index on disk.                                              *)

LEMMA LoadOf ==
    ASSUME NEW rows, NEW v \in Nat,
           \A r \in Realms : Decoded(rows[r]) \in Nat /\ Decoded(rows[r]) <= v,
           \E r \in Realms : Decoded(rows[r]) = v
    PROVE  LoadAppliedState(rows) = v
  <1> DEFINE S == {Decoded(rows[r]) : r \in Realms}
  <1>1. S \in SUBSET Nat /\ v \in S /\ \A y \in S : y <= v
    OBVIOUS
  <1>2. Max(S) = v
    <2> HIDE DEF S
    <2> QED
      BY <1>1, MaxIs
  <1> QED
    BY <1>2 DEF LoadAppliedState

LEMMA DecodedRealm ==
    ASSUME NEW len \in Nat, NEW rows, StoreOK(rows, len), NEW r \in Realms
    PROVE  Decoded(rows[r]) \in 0..len
  <1>1. rows[r] \in (0..len) \union {Absent}
    BY StoreParts
  <1> QED
    BY <1>1 DEF Decoded

\* load_applied_state is a bound of the applied-state rows, within the log.
LEMMA LoadIs ==
    ASSUME NEW len \in Nat, NEW rows, StoreOK(rows, len)
    PROVE  /\ LoadAppliedState(rows) \in 0..len
           /\ \A r \in Realms : /\ Decoded(rows[r]) \in Nat
                                /\ Decoded(rows[r]) <= LoadAppliedState(rows)
  <1>1. PICK a : a = Decoded(rows["meta"])
    OBVIOUS
  <1>2. PICK b : b = Decoded(rows["acct"])
    OBVIOUS
  <1>3. PICK c : c = Decoded(rows["data"])
    OBVIOUS
  <1>4. \A r \in Realms : Decoded(rows[r]) \in {a, b, c}
    BY <1>1, <1>2, <1>3 DEF Realms
  <1>5. "meta" \in Realms /\ "acct" \in Realms /\ "data" \in Realms
    BY DEF Realms
  <1>6. a \in 0..len /\ b \in 0..len /\ c \in 0..len
    BY <1>1, <1>2, <1>3, <1>5, DecodedRealm
  <1>7. PICK v \in {a, b, c} : a <= v /\ b <= v /\ c <= v
    BY <1>6
  <1>8. v \in Nat /\ v \in 0..len
    BY <1>6, <1>7
  <1>9. \A r \in Realms : Decoded(rows[r]) \in Nat /\ Decoded(rows[r]) <= v
    BY <1>4, <1>6, <1>7
  <1>10. \E r \in Realms : Decoded(rows[r]) = v
    BY <1>1, <1>2, <1>3, <1>5, <1>7
  <1>11. LoadAppliedState(rows) = v
    BY <1>8, <1>9, <1>10, LoadOf
  <1> QED
    BY <1>8, <1>9, <1>11

\* A stored batch moves the applied index to its entry.
LEMMA LoadAdvances ==
    ASSUME NEW len \in Nat, NEW rows, StoreOK(rows, len), NEW fin, NEW c \in Command,
           NEW i \in 1..len, LoadAppliedState(rows) <= i, Applied(rows, c, i, fin)
    PROVE  LoadAppliedState(fin) = i
  <1>1. CommandRealm(c) \in Realms
    BY RealmIs
  <1>2. Decoded(i) = i
    BY AbsentIs DEF Decoded
  <1>3. PICK v : v = LoadAppliedState(rows)
    OBVIOUS
  <1>4. v \in Nat /\ v <= i /\ i \in Nat
    BY <1>3, LoadIs
  <1>5. ASSUME NEW r \in Realms PROVE Decoded(fin[r]) \in Nat /\ Decoded(fin[r]) <= i
    <2>1. CASE r = CommandRealm(c)
      BY <1>2, <1>4, <2>1 DEF Applied
    <2>2. CASE r # CommandRealm(c)
      <3>1. fin[r] = rows[r]
        BY <2>2 DEF Applied
      <3>2. PICK w : w = Decoded(rows[r])
        OBVIOUS
      <3>3. w \in Nat /\ w <= v
        BY <1>3, <3>2, LoadIs
      <3> QED
        BY <1>4, <3>1, <3>2, <3>3
    <2> QED
      BY <2>1, <2>2
  <1>6. Decoded(fin[CommandRealm(c)]) = i
    BY <1>1, <1>2 DEF Applied
  <1> QED
    BY <1>1, <1>4, <1>5, <1>6, LoadOf

-----------------------------------------------------------------------------
(* A batch on its way into the map.                                        *)

\* HalfWritten, of a map m and the rows b still to reach it.
Half(m, b) ==
    LET left == {b[j].key : j \in DOMAIN b}
    IN \/ Sidecar \in left /\ Counter \notin left
       \/ Counter \in left /\ Sidecar \notin left /\ m[Sidecar] # Absent

\* A batch in flight, once stored, leaves rows good one entry further.
LEMMA FlightLands ==
    ASSUME NEW lg \in Seq(Command), NEW m, NEW d, NEW b, NEW la \in Nat,
           NEW fz \in 0..Len(lg), NEW tn \in BOOLEAN,
           StoreOK(m, Len(lg)), StoreOK(d, Len(lg)),
           la = LoadAppliedState(d), FlightOK(lg, m, d, b, la)
    PROVE  /\ StoreOK(StoreAll(m, b), Len(lg))
           /\ LoadAppliedState(StoreAll(m, b)) = la + 1
           /\ DataOK(lg, d, la, Reach(la, fz), tn) =>
                 DataOK(lg, StoreAll(m, b), la + 1, Reach(la + 1, fz), tn)
  <1>1. PICK fin : fin = StoreAll(m, b)
    OBVIOUS
  <1>2. PICK n : n = Len(lg)
    OBVIOUS
  <1>3. PICK h : h = la + 1
    OBVIOUS
  <1>4. n \in Nat /\ h \in 1..n /\ h \in Nat /\ la <= h /\ fz \in Nat /\ fz <= n
    BY <1>2, <1>3 DEF FlightOK
  <1>5. lg[h] \in Command
    BY <1>2, <1>4
  <1>6. RowsOK(b, n) /\ Applied(d, lg[h], h, fin)
    BY <1>1, <1>2, <1>3 DEF FlightOK
  <1>7. StoreOK(fin, n)
    BY <1>1, <1>2, <1>4, <1>6, StoreKeeps
  <1>8. LoadAppliedState(fin) = h
    <2>1. StoreOK(d, n) /\ LoadAppliedState(d) <= h
      BY <1>2, <1>4
    <2> QED
      BY <1>4, <1>5, <1>6, <2>1, LoadAdvances
  <1>9. ASSUME DataOK(lg, d, la, Reach(la, fz), tn)
        PROVE  DataOK(lg, fin, h, Reach(h, fz), tn)
    <2>1. PICK u : u = Reach(la, fz)
      OBVIOUS
    <2>2. PICK u2 : u2 = Reach(h, fz)
      OBVIOUS
    <2>3. u \in Nat /\ u2 \in Nat /\ u <= u2 /\ u2 <= n /\ h <= u2
      BY <1>4, <2>1, <2>2 DEF Reach
    <2>4. DataOK(lg, d, la, u2, tn)
      <3>1. la <= la
        OBVIOUS
      <3> QED
        BY <1>9, <2>1, <2>3, <3>1, DataWiden
    <2>5. /\ d[Plain] \in PlainValue /\ d[Counter] \in CounterValue
          /\ d[Sidecar] \in SideValue
      BY <1>2, <1>4, StoreParts
    <2>6. la + 1 <= u2 /\ u2 <= Len(lg) /\ Applied(d, lg[la + 1], la + 1, fin)
      BY <1>2, <1>3, <1>6, <2>3
    <2>7. DataOK(lg, fin, la + 1, u2, tn)
      BY <2>3, <2>4, <2>5, <2>6, DataAdvance
    <2> QED
      BY <1>3, <2>2, <2>7
  <1> QED
    BY <1>1, <1>2, <1>3, <1>7, <1>8, <1>9

Names(b, key) == \E j \in DOMAIN b : b[j].key = key

LEMMA Untouched ==
    ASSUME NEW m, NEW len \in Nat, NEW b, RowsOK(b, len), NEW row \in Rows,
           ~ Names(b, row)
    PROVE  StoreAll(m, b)[row] = m[row]
  <1>1. b \in Seq(AnyRow)
    BY DEF RowsOK
  <1>2. Latest(b, row, m[row]) = m[row]
    BY <1>1, LatestNone DEF Names
  <1> QED
    BY <1>2, StoredRow

\* What a reader of the map may see while the batch is stored.
LEMMA FlightSeen ==
    ASSUME NEW lg \in Seq(Command), NEW m, NEW d, NEW b, NEW la \in Nat,
           NEW fz \in 0..Len(lg), NEW tn \in BOOLEAN,
           StoreOK(m, Len(lg)), StoreOK(d, Len(lg)),
           la = LoadAppliedState(d), FlightOK(lg, m, d, b, la),
           DataOK(lg, d, la, Reach(la, fz), tn)
    PROVE  /\ PlainOK(lg, m[Plain], la, Reach(la + 1, fz))
           /\ ~ tn /\ ~ Half(m, b) =>
                 CounterOK(lg, m[Counter], m[Sidecar], la, Reach(la + 1, fz))
  <1>1. PICK fin : fin = StoreAll(m, b)
    OBVIOUS
  <1>2. PICK n : n = Len(lg)
    OBVIOUS
  <1>3. PICK h : h = la + 1
    OBVIOUS
  <1>4. n \in Nat /\ h \in 1..n /\ h \in Nat /\ la <= h /\ fz \in Nat /\ fz <= n
    BY <1>2, <1>3 DEF FlightOK
  <1>5. PICK c : c = lg[h]
    OBVIOUS
  <1>6. RowsOK(b, n) /\ Applied(d, c, h, fin) /\ Pending(m, d, b, c) /\ c \in Command
    BY <1>1, <1>2, <1>3, <1>4, <1>5 DEF FlightOK
  <1>7. PICK u : u = Reach(la, fz)
    OBVIOUS
  <1>8. PICK u2 : u2 = Reach(h, fz)
    OBVIOUS
  <1>9. u \in Nat /\ u2 \in Nat /\ u <= u2 /\ u2 <= n /\ h <= u2 /\ la <= la
    BY <1>4, <1>7, <1>8 DEF Reach
  <1>10. DataOK(lg, d, la, u2, tn)
    BY <1>7, <1>9, DataWiden
  <1>11. DataOK(lg, fin, la, u2, tn)
    <2>1. DataOK(lg, fin, h, u2, tn)
      BY <1>1, <1>3, <1>8, FlightLands
    <2>2. u2 <= u2
      BY <1>9
    <2> QED
      BY <1>4, <1>9, <2>1, <2>2, DataWiden
  <1>12. ASSUME NEW key, Overwrites(c, key) PROVE Over(lg, key, la, u2)
    <2>1. h \in (la + 1)..u2
      BY <1>3, <1>4, <1>9
    <2> QED
      BY <1>5, <1>12, <2>1 DEF Over
  <1>13. ASSUME NEW key \in {Counter, Sidecar, Plain}, ~ Names(b, key)
         PROVE  m[key] = fin[key]
    <2>1. key \in Rows
      BY Different
    <2> QED
      BY <1>1, <1>4, <1>6, <1>13, <2>1, Untouched
  <1>14. ASSUME NEW key \in {Counter, Sidecar, Plain}, Names(b, key)
         PROVE  Overwrites(c, key) \/ m[key] = d[key]
    BY <1>6, <1>14 DEF Pending, Names
  <1>15. PlainOK(lg, m[Plain], la, u2)
    <2>1. CASE Names(b, Plain)
      <3>1. CASE Overwrites(c, Plain)
        BY <1>12, <3>1 DEF PlainOK
      <3>2. CASE m[Plain] = d[Plain]
        BY <1>10, <3>2 DEF DataOK
      <3> QED
        BY <1>14, <2>1, <3>1, <3>2
    <2>2. CASE ~ Names(b, Plain)
      BY <1>11, <1>13, <2>2 DEF DataOK
    <2> QED
      BY <2>1, <2>2
  <1>16. ASSUME ~ tn, ~ Half(m, b)
         PROVE  CounterOK(lg, m[Counter], m[Sidecar], la, u2)
    <2>0. /\ CounterOK(lg, d[Counter], d[Sidecar], la, u2)
          /\ CounterOK(lg, fin[Counter], fin[Sidecar], la, u2)
      BY <1>10, <1>11, <1>16 DEF DataOK
    <2>1. ~ Overwrites(c, Sidecar)
      <3>1. CASE c.op = "write" /\ WriteOK(c)
        <4>1. c.deletes \in Seq({Counter, Plain})
          BY <3>1 DEF WriteOK
        <4>2. Sidecar \notin ToSet(c.deletes)
          BY <4>1, Different DEF ToSet
        <4>3. \A j \in DOMAIN c.puts : c.puts[j].key # Sidecar
          BY <1>4, <3>1, PutsTyped, Different
        <4> QED
          BY <4>2, <4>3 DEF Overwrites
      <3>2. CASE c.op # "write"
        BY <3>2 DEF Overwrites
      <3> QED
        BY <1>6, <3>1, <3>2, Kinds
    <2>2. SideKept(lg, m[Sidecar], la)
      <3>1. m[Sidecar] = d[Sidecar] \/ m[Sidecar] = fin[Sidecar]
        BY <1>13, <1>14, <2>1
      <3> QED
        BY <2>0, <3>1 DEF CounterOK
    <2>3. CASE Overwrites(c, Counter)
      BY <1>12, <2>2, <2>3 DEF CounterOK, PairOK
    <2>4. CASE ~ Overwrites(c, Counter)
      <3>1. CASE ~ Names(b, Counter)
        <4>1. ~ Names(b, Sidecar)
          BY <1>16, <3>1 DEF Half, Names
        <4> QED
          BY <1>13, <2>0, <3>1, <4>1
      <3>2. CASE Names(b, Counter) /\ Names(b, Sidecar)
        BY <1>14, <2>0, <2>1, <2>4, <3>2
      <3>3. CASE Names(b, Counter) /\ ~ Names(b, Sidecar)
        <4>1. m[Sidecar] = Absent
          BY <1>16, <3>3 DEF Half, Names
        <4>2. m[Counter] = d[Counter]
          BY <1>14, <2>4, <3>3
        <4>3. d[Sidecar] = Absent
          <5>1. fin[Sidecar] = Absent
            BY <1>13, <3>3, <4>1
          <5>2. d[Counter] \in CounterValue /\ d[Sidecar] \in SideValue
            BY <1>2, <1>4, StoreParts
          <5>3. StepPair(c, h, d[Counter], d[Sidecar], fin[Counter], fin[Sidecar])
            BY <1>6 DEF Applied
          <5>4. h \in Nat /\ h > 0
            BY <1>4
          <5> QED
            BY <1>6, <5>1, <5>2, <5>3, <5>4, PairSteps
        <4> QED
          BY <2>0, <4>1, <4>2, <4>3
      <3> QED
        BY <3>1, <3>2, <3>3
    <2> QED
      BY <2>3, <2>4
  <1> QED
    BY <1>3, <1>8, <1>15, <1>16

-----------------------------------------------------------------------------
(* The log grows.                                                          *)

LEMMA StoreWider ==
    ASSUME NEW len \in Nat, NEW len2 \in Nat, len <= len2, NEW rows, StoreOK(rows, len)
    PROVE  StoreOK(rows, len2)
  <1>1. ASSUME NEW row \in Rows PROVE RowValue(row, len) \subseteq RowValue(row, len2)
    BY DEF RowValue
  <1> QED
    BY <1>1 DEF StoreOK

LEMMA SnapWider ==
    ASSUME NEW len \in Nat, NEW len2 \in Nat, len <= len2, NEW s, SnapType(s, len)
    PROVE  SnapType(s, len2)
  <1>1. StoreOK(s.data, len2)
    BY StoreWider DEF SnapType
  <1>2. s.index \in 1..len /\ s.upto \in s.index..len
    BY DEF SnapType
  <1>3. s.index \in 1..len2 /\ s.upto \in s.index..len2
    <2>1. PICK i : i = s.index
      OBVIOUS
    <2>2. PICK u : u = s.upto
      OBVIOUS
    <2>3. i \in 1..len2 /\ u \in i..len2
      BY <1>2, <2>1, <2>2
    <2> QED
      BY <2>1, <2>2, <2>3
  <1> QED
    BY <1>1, <1>3 DEF SnapType

LEMMA SnapKeeps ==
    ASSUME NEW lg, NEW lg2, NEW len \in Nat, NEW s, SnapType(s, len),
           \A i \in 1..len : lg[i] = lg2[i], SnapOK(lg, s)
    PROVE  SnapOK(lg2, s)
  <1>1. PICK j : j = s.index
    OBVIOUS
  <1>2. PICK u : u = s.upto
    OBVIOUS
  <1>3. j \in Nat /\ u \in Nat /\ j <= u /\ u <= len
    BY <1>1, <1>2 DEF SnapType
  <1>4. \A i \in 1..u : lg[i] = lg2[i]
    BY <1>3
  <1>5. ASSUME DataOK(lg, s.data, j, u, s.torn) PROVE DataOK(lg2, s.data, j, u, s.torn)
    BY <1>3, <1>4, <1>5, DataKeeps
  <1> QED
    BY <1>1, <1>2, <1>5 DEF SnapOK

LEMMA ScanWiden ==
    ASSUME NEW lg, NEW bd, NEW la \in Nat, NEW len \in Nat, BuildType(bd, la, len),
           NEW u \in Nat, NEW u2 \in Nat, u <= u2, NEW tn, ScanOK(lg, bd, u, tn)
    PROVE  ScanOK(lg, bd, u2, tn)
  <1>1. PICK j : j = bd.index
    OBVIOUS
  <1>2. j \in Nat /\ j <= j
    BY <1>1 DEF BuildType
  <1>3. PlainOK(lg, bd.data[Plain], j, u) => PlainOK(lg, bd.data[Plain], j, u2)
    BY <1>2, PlainWiden
  <1>4. CounterOK(lg, bd.data[Counter], bd.data[Sidecar], j, u) =>
           CounterOK(lg, bd.data[Counter], bd.data[Sidecar], j, u2)
    BY <1>2, CounterWiden
  <1> QED
    BY <1>1, <1>3, <1>4 DEF ScanOK

LEMMA ScanKeeps ==
    ASSUME NEW lg, NEW lg2, NEW bd, NEW la \in Nat, NEW len \in Nat,
           BuildType(bd, la, len), NEW u \in Nat, la <= u,
           \A i \in 1..u : lg[i] = lg2[i], NEW tn, ScanOK(lg, bd, u, tn)
    PROVE  ScanOK(lg2, bd, u, tn)
  <1>1. PICK j : j = bd.index
    OBVIOUS
  <1>2. j \in Nat /\ j <= u
    BY <1>1 DEF BuildType
  <1>3. PlainOK(lg, bd.data[Plain], j, u) => PlainOK(lg2, bd.data[Plain], j, u)
    BY <1>2, PlainKeeps
  <1>4. CounterOK(lg, bd.data[Counter], bd.data[Sidecar], j, u) =>
           CounterOK(lg2, bd.data[Counter], bd.data[Sidecar], j, u)
    BY <1>2, CounterKeeps
  <1> QED
    BY <1>1, <1>3, <1>4 DEF ScanOK

LEMMA BuildWider ==
    ASSUME NEW len \in Nat, NEW len2 \in Nat, len <= len2, NEW bd, NEW la \in Nat,
           NEW la2 \in Nat, la <= la2, BuildType(bd, la, len)
    PROVE  BuildType(bd, la2, len2)
  <1>1. StoreOK(bd.data, len2)
    BY StoreWider DEF BuildType
  <1>2. PICK i : i = bd.index
    OBVIOUS
  <1>3. i \in 1..la
    BY <1>2 DEF BuildType
  <1>4. i \in 1..la2
    BY <1>3
  <1> QED
    BY <1>1, <1>2, <1>4 DEF BuildType

LEMMA RowsWider ==
    ASSUME NEW len \in Nat, NEW len2 \in Nat, len <= len2, NEW b, RowsOK(b, len)
    PROVE  RowsOK(b, len2)
  <1>1. ASSUME NEW row PROVE RowValue(row, len) \subseteq RowValue(row, len2)
    BY DEF RowValue
  <1> QED
    BY <1>1 DEF RowsOK

\* Everything said of a node stays true when the log grows.
LEMMA LogGrows ==
    ASSUME NEW lg \in Seq(Command), NEW c \in Command,
           NEW m, NEW d, NEW b, NEW la, NEW isUp, NEW bd, NEW sl, NEW inst, NEW fz,
           NEW tn, NEW mx, NodeOK(lg, m, d, b, la, isUp, bd, sl, inst, fz, tn, mx)
    PROVE  NodeOK(Append(lg, c), m, d, b, la, isUp, bd, sl, inst, fz, tn, mx)
  <1>1. PICK lg2 : lg2 = Append(lg, c)
    OBVIOUS
  <1>2. PICK n : n = Len(lg)
    OBVIOUS
  <1>3. PICK n2 : n2 = Len(lg2)
    OBVIOUS
  <1>4. n \in Nat /\ n2 \in Nat /\ n2 = n + 1 /\ n <= n2 /\ \A i \in 1..n : lg[i] = lg2[i]
    BY <1>1, <1>2, <1>3
  <1>5. /\ StoreOK(m, n) /\ StoreOK(d, n) /\ la \in 0..n /\ fz \in 0..n
        /\ la \in Nat /\ fz \in Nat /\ la <= n /\ fz <= n
        /\ isUp \in BOOLEAN /\ tn \in BOOLEAN /\ mx \in BOOLEAN
    BY <1>2, <1>4 DEF NodeOK
  <1>6. StoreOK(m, n2) /\ StoreOK(d, n2) /\ la \in 0..n2 /\ fz \in 0..n2
    BY <1>4, <1>5, StoreWider
  <1>7. ASSUME FlightOK(lg, m, d, b, la)
        PROVE  FlightOK(lg2, m, d, b, la) /\ la + 1 <= n
    <2>1. la + 1 <= n /\ RowsOK(b, n)
      BY <1>2, <1>7 DEF FlightOK
    <2>2. la + 1 \in 1..n /\ la + 1 <= n2 /\ RowsOK(b, n2)
      <3>1. la + 1 \in 1..n /\ la + 1 <= n2
        BY <1>4, <1>5, <2>1
      <3>2. RowsOK(b, n2)
        BY <1>4, <2>1, RowsWider
      <3> QED
        BY <3>1, <3>2
    <2>3. lg2[la + 1] = lg[la + 1]
      BY <1>4, <2>2
    <2> QED
      BY <1>3, <1>7, <2>1, <2>2, <2>3 DEF FlightOK
  <1>8. ASSUME NEW j \in Nat, NEW u \in Nat, j <= u, u <= n, NEW t,
               DataOK(lg, d, j, u, t)
        PROVE  DataOK(lg2, d, j, u, t)
    <2>1. \A i \in 1..u : lg[i] = lg2[i]
      BY <1>4, <1>8
    <2> QED
      BY <1>8, <2>1, DataKeeps
  <1>9. ASSUME inst = None, ~ mx
        PROVE  DataOK(lg2, d, LoadAppliedState(d), Reach(LoadAppliedState(d), fz), tn)
    <2>1. PICK a : a = LoadAppliedState(d)
      OBVIOUS
    <2>2. PICK u : u = Reach(a, fz)
      OBVIOUS
    <2>3. a \in 0..n
      BY <1>4, <1>5, <2>1, LoadIs
    <2>4. a \in Nat /\ u \in Nat /\ a <= u /\ u <= n
      BY <1>4, <1>5, <2>2, <2>3 DEF Reach
    <2>5. DataOK(lg, d, a, u, tn)
      BY <1>9, <2>1, <2>2 DEF NodeOK
    <2> QED
      BY <1>8, <2>1, <2>2, <2>4, <2>5
  <1>10. ASSUME inst # None
         PROVE  InstallOK(lg2, d, b, la, isUp, inst, fz, tn, mx)
    <2>1. InstallOK(lg, d, b, la, isUp, inst, fz, tn, mx)
      BY <1>10 DEF NodeOK
    <2>2. SnapType(inst.snap, n) /\ SnapOK(lg, inst.snap)
      BY <1>2, <2>1 DEF InstallOK
    <2>3. SnapType(inst.snap, n2) /\ SnapOK(lg2, inst.snap)
      BY <1>4, <2>2, SnapWider, SnapKeeps
    <2>4. ASSUME ClearOK(lg, d, inst, fz, tn, mx) PROVE ClearOK(lg2, d, inst, fz, tn, mx)
      <3>1. 0 \in Nat /\ 0 <= fz
        BY <1>5
      <3>2. DataOK(lg, d, 0, fz, tn) => DataOK(lg2, d, 0, fz, tn)
        BY <1>5, <1>8, <3>1
      <3> QED
        BY <2>4, <3>2 DEF ClearOK
    <2> QED
      BY <1>3, <2>1, <2>3, <2>4 DEF InstallOK
  <1>11. ASSUME bd # None
         PROVE  BuildOK(lg2, b, la, bd, sl, inst, fz, tn, mx)
    <2>1. BuildOK(lg, b, la, bd, sl, inst, fz, tn, mx)
      BY <1>11 DEF NodeOK
    <2>2. BuildType(bd, la, n)
      BY <1>2, <2>1 DEF BuildOK
    <2>3. BuildType(bd, la, n2)
      <3>1. la <= la
        BY <1>5
      <3> QED
        BY <1>4, <1>5, <2>2, <3>1, BuildWider
    <2>4. PICK v : v = IF b = <<>> THEN la ELSE la + 1
      OBVIOUS
    <2>5. PICK u : u = Reach(v, fz)
      OBVIOUS
    <2>6. v \in Nat /\ v <= n /\ la <= v
      BY <1>5, <1>7, <2>4 DEF NodeOK
    <2>7. u \in Nat /\ u <= n /\ la <= u
      BY <1>4, <1>5, <2>5, <2>6 DEF Reach
    <2>8. \A i \in 1..u : lg[i] = lg2[i]
      BY <1>4, <2>7
    <2>9. ScanOK(lg, bd, u, tn) => ScanOK(lg2, bd, u, tn)
      BY <1>4, <1>5, <2>2, <2>7, <2>8, ScanKeeps
    <2> QED
      BY <1>3, <2>1, <2>3, <2>4, <2>5, <2>9 DEF BuildOK
  <1>12. ASSUME sl # None
         PROVE  /\ SnapType(sl, n2) /\ sl.index <= la
                /\ inst = None => SnapOK(lg2, sl)
    <2>1. /\ SnapType(sl, n) /\ sl.index <= la
          /\ inst = None => SnapOK(lg, sl)
      BY <1>2, <1>12 DEF NodeOK
    <2>2. SnapType(sl, n2)
      BY <1>4, <2>1, SnapWider
    <2>3. SnapOK(lg, sl) => SnapOK(lg2, sl)
      BY <1>4, <2>1, SnapKeeps
    <2> QED
      BY <2>1, <2>2, <2>3
  <1>13. /\ ~ isUp => b = <<>> /\ bd = None /\ sl = None
         /\ b = <<>> => m = d
         /\ b # <<>> => FlightOK(lg, m, d, b, la) /\ inst = None
         /\ isUp /\ inst = None => la = LoadAppliedState(d)
    BY DEF NodeOK
  <1>14. NodeOK(lg2, m, d, b, la, isUp, bd, sl, inst, fz, tn, mx)
    BY <1>3, <1>5, <1>6, <1>7, <1>9, <1>10, <1>11, <1>12, <1>13 DEF NodeOK
  <1> QED
    BY <1>1, <1>14

-----------------------------------------------------------------------------
(* Applying an entry.                                                      *)

LEMMA ReachGrows ==
    ASSUME NEW a \in Nat, NEW a2 \in Nat, NEW f \in Nat, a <= a2
    PROVE  Reach(a, f) \in Nat /\ Reach(a2, f) \in Nat /\ Reach(a, f) <= Reach(a2, f)
  BY DEF Reach

\* apply computes a batch that makes of the rows what the entry does.
LEMMA ApplyStarts ==
    ASSUME NEW lg \in Seq(Command), NEW m, NEW d, NEW b, NEW la, NEW isUp, NEW bd,
           NEW sl, NEW inst, NEW fz, NEW tn, NEW mx,
           NodeOK(lg, m, d, b, la, isUp, bd, sl, inst, fz, tn, mx),
           isUp, b = <<>>, inst = None, la + 1 <= Len(lg)
    PROVE  NodeOK(lg, m, d, Batch(m, lg[la + 1], la + 1), la, isUp, bd, sl, inst,
                  fz, tn, mx)
  <1>1. PICK b2 : b2 = Batch(m, lg[la + 1], la + 1)
    OBVIOUS
  <1>2. PICK n : n = Len(lg)
    OBVIOUS
  <1>3. n \in Nat /\ la \in Nat /\ fz \in Nat /\ StoreOK(m, n) /\ m = d
    BY <1>2 DEF NodeOK
  <1>4. la + 1 \in 1..n /\ lg[la + 1] \in Command
    BY <1>2, <1>3
  <1>5. BatchOK(b2, m, lg[la + 1], la + 1, n)
    BY <1>1, <1>3, <1>4, BatchApplies
  <1>6. b2 # <<>> /\ FlightOK(lg, m, d, b2, la)
    BY <1>2, <1>3, <1>4, <1>5 DEF BatchOK, FlightOK
  <1>7. ASSUME bd # None PROVE BuildOK(lg, b2, la, bd, sl, inst, fz, tn, mx)
    <2>1. BuildOK(lg, b, la, bd, sl, inst, fz, tn, mx)
      BY <1>7 DEF NodeOK
    <2>2. BuildType(bd, la, n)
      BY <1>2, <2>1 DEF BuildOK
    <2>3. PICK u : u = Reach(la, fz)
      OBVIOUS
    <2>4. PICK u2 : u2 = Reach(la + 1, fz)
      OBVIOUS
    <2>5. la + 1 \in Nat /\ la <= la + 1
      BY <1>3
    <2>6. u \in Nat /\ u2 \in Nat /\ u <= u2
      BY <1>3, <2>3, <2>4, <2>5, ReachGrows
    <2>7. ScanOK(lg, bd, u, tn) => ScanOK(lg, bd, u2, tn)
      BY <1>3, <2>2, <2>6, ScanWiden
    <2> QED
      BY <1>6, <2>1, <2>3, <2>4, <2>7 DEF BuildOK
  <1>8. NodeOK(lg, m, d, b2, la, isUp, bd, sl, inst, fz, tn, mx)
    BY <1>6, <1>7 DEF NodeOK
  <1> QED
    BY <1>1, <1>8

\* A sequence is its first k members and the others.
LEMMA Cut ==
    ASSUME NEW S, NEW b \in Seq(S), NEW k \in 1..Len(b)
    PROVE  /\ SubSeq(b, 1, k) \in Seq(S) /\ SubSeq(b, k + 1, Len(b)) \in Seq(S)
           /\ Len(SubSeq(b, 1, k)) = k
           /\ Len(SubSeq(b, k + 1, Len(b))) = Len(b) - k
           /\ \A l \in 1..k : SubSeq(b, 1, k)[l] = b[l]
           /\ \A l \in 1..(Len(b) - k) : SubSeq(b, k + 1, Len(b))[l] = b[k + l]
           /\ b = SubSeq(b, 1, k) \o SubSeq(b, k + 1, Len(b))
  <1>1. PICK p : p = SubSeq(b, 1, k)
    OBVIOUS
  <1>2. PICK q : q = SubSeq(b, k + 1, Len(b))
    OBVIOUS
  <1>3. PICK n : n = Len(b)
    OBVIOUS
  <1>4. n \in Nat /\ k \in Nat /\ 1 <= k /\ k <= n
    BY <1>3
  <1>5. p \in Seq(S) /\ Len(p) = k /\ \A l \in 1..k : p[l] = b[l]
    BY <1>1, <1>3, <1>4
  <1>6. q \in Seq(S) /\ Len(q) = n - k /\ \A l \in 1..(n - k) : q[l] = b[k + l]
    BY <1>2, <1>3, <1>4
  <1>7. b = p \o q
    <2>1. /\ p \o q \in Seq(S) /\ Len(p \o q) = n
          /\ \A l \in 1..k : (p \o q)[l] = p[l]
          /\ \A l \in 1..(n - k) : (p \o q)[k + l] = q[l]
      <3>1. p \in Seq(S) /\ q \in Seq(S) /\ k + (n - k) = n
        BY <1>4, <1>5, <1>6
      <3>2. /\ p \o q \in Seq(S) /\ Len(p \o q) = Len(p) + Len(q)
            /\ \A l \in 1..Len(p) : (p \o q)[l] = p[l]
            /\ \A l \in 1..Len(q) : (p \o q)[Len(p) + l] = q[l]
        BY <3>1, Joined
      <3> QED
        BY <1>5, <1>6, <3>1, <3>2
    <2>2. ASSUME NEW l \in 1..n PROVE (p \o q)[l] = b[l]
      <3>1. CASE l <= k
        BY <1>4, <1>5, <2>1, <3>1
      <3>2. CASE l > k
        <4>1. PICK j : j = l - k
          OBVIOUS
        <4>2. j \in 1..(n - k) /\ l = k + j
          BY <1>4, <3>2, <4>1
        <4> QED
          BY <1>6, <2>1, <4>2
      <3>3. l <= k \/ l > k
        BY <1>4
      <3> QED
        BY <3>1, <3>2, <3>3
    <2> QED
      BY <1>3, <1>4, <2>1, <2>2
  <1> QED
    BY <1>1, <1>2, <1>3, <1>5, <1>6, <1>7

\* k rows of b have landed; rest is left.
Landed(b, k, p, rest) ==
    k \in 1..Len(b) /\ p = SubSeq(b, 1, k) /\ rest = SubSeq(b, k + 1, Len(b))

\* The first rows of a batch reach the map; the others are still to come.
LEMMA RowsLand ==
    ASSUME NEW len \in Nat, NEW m, NEW d, NEW b, NEW c, RowsOK(b, len),
           Pending(m, d, b, c), NEW k, NEW p, NEW b2, Landed(b, k, p, b2)
    PROVE  /\ RowsOK(p, len) /\ RowsOK(b2, len)
           /\ StoreAll(StoreAll(m, p), b2) = StoreAll(m, b)
           /\ Pending(StoreAll(m, p), d, b2, c)
  <1>0. PICK m2 : m2 = StoreAll(m, p)
    OBVIOUS
  <1>1. PICK n : n = Len(b)
    OBVIOUS
  <1>2. b \in Seq(AnyRow) /\ n \in Nat /\ k \in 1..n /\ DOMAIN b = 1..n
    BY <1>1 DEF RowsOK, Landed
  <1>3. /\ p \in Seq(AnyRow) /\ b2 \in Seq(AnyRow) /\ Len(p) = k /\ Len(b2) = n - k
        /\ \A l \in 1..k : p[l] = b[l]
        /\ \A l \in 1..(n - k) : b2[l] = b[k + l]
        /\ b = p \o b2
    BY <1>1, <1>2, Cut DEF Landed
  <1>4. DOMAIN p = 1..k /\ DOMAIN b2 = 1..(n - k)
    BY <1>2, <1>3
  <1>5. k \in Nat /\ \A l \in 1..k : l \in 1..n
    BY <1>2
  <1>6. \A l \in 1..(n - k) : k + l \in 1..n
    BY <1>2
  <1>7. RowsOK(p, len)
    BY <1>2, <1>3, <1>4, <1>5 DEF RowsOK
  <1>8. RowsOK(b2, len)
    BY <1>2, <1>3, <1>4, <1>6 DEF RowsOK
  <1>9. StoreAll(m2, b2) = StoreAll(m, b)
    <2>1. ASSUME NEW row \in Rows
          PROVE  Latest(b2, row, m2[row]) = Latest(b, row, m[row])
      <3>1. m2[row] = Latest(p, row, m[row])
        BY <1>0, StoredRow
      <3>2. Latest(p \o b2, row, m[row]) = Latest(b2, row, Latest(p, row, m[row]))
        <4>1. PICK old : old = m[row]
          OBVIOUS
        <4>2. p \in Seq(AnyRow) /\ b2 \in Seq(AnyRow)
          BY <1>3
        <4>3. Latest(p \o b2, row, old) = Latest(b2, row, Latest(p, row, old))
          BY ONLY <4>2, LatestJoin
        <4> QED
          BY <4>1, <4>3
      <3> QED
        BY <1>3, <3>1, <3>2
    <2> QED
      BY <2>1 DEF StoreAll
  <1>10. ASSUME NEW key \in {Counter, Sidecar, Plain}, NEW j \in DOMAIN b2,
                b2[j].key = key, ~ Overwrites(c, key)
         PROVE  /\ m2[key] = d[key]
                /\ \A l \in DOMAIN b2 : b2[l].key = key => l = j
    <2>1. j \in 1..(n - k) /\ k + j \in DOMAIN b /\ b[k + j].key = key
      BY <1>2, <1>3, <1>4, <1>6, <1>10
    <2>2. m[key] = d[key] /\ \A l \in DOMAIN b : b[l].key = key => l = k + j
      BY <1>10, <2>1 DEF Pending
    <2>3. \A l \in 1..k : p[l].key # key
      <3>1. \A l \in 1..k : l # k + j
        BY <1>2, <2>1
      <3> QED
        BY <1>2, <1>3, <1>5, <2>2, <3>1
    <2>4. Latest(p, key, m[key]) = m[key]
      <3>1. p \in Seq(AnyRow)
        BY <1>3
      <3>2. \A l \in DOMAIN p : p[l].key # key
        BY <1>4, <2>3
      <3>3. PICK old : old = m[key]
        OBVIOUS
      <3>4. Latest(p, key, old) = old
        BY ONLY <3>1, <3>2, LatestNone
      <3> QED
        BY <3>3, <3>4
    <2>5. m2[key] = Latest(p, key, m[key])
      BY <1>0, Different, StoredRow
    <2>6. ASSUME NEW l \in DOMAIN b2, b2[l].key = key PROVE l = j
      <3>1. l \in 1..(n - k) /\ k + l \in DOMAIN b /\ b[k + l].key = key
        BY <1>2, <1>3, <1>4, <1>6, <2>6
      <3>2. k + l = k + j
        BY <2>2, <3>1
      <3> QED
        BY <1>5, <2>1, <3>1, <3>2
    <2> QED
      BY <2>2, <2>4, <2>5, <2>6
  <1>11. Pending(m2, d, b2, c)
    BY <1>10 DEF Pending
  <1> QED
    BY <1>0, <1>7, <1>8, <1>9, <1>11

LEMMA NothingStored ==
    ASSUME NEW len \in Nat, NEW m, StoreOK(m, len)
    PROVE  StoreAll(m, <<>>) = m
  <1>1. \A row \in Rows : Latest(<<>>, row, m[row]) = m[row]
    BY LatestEmpty
  <1> QED
    BY <1>1 DEF StoreAll, StoreOK

\* One row of a batch reaches the map.
LEMMA ApplyRows ==
    ASSUME NEW lg \in Seq(Command), NEW m, NEW d, NEW b, NEW la, NEW isUp, NEW bd,
           NEW sl, NEW inst, NEW fz, NEW tn, NEW mx,
           NodeOK(lg, m, d, b, la, isUp, bd, sl, inst, fz, tn, mx),
           isUp, b # <<>>, NEW k \in 1..Len(b),
           NEW m2, m2 = StoreAll(m, SubSeq(b, 1, k)),
           NEW b2, b2 = SubSeq(b, k + 1, Len(b))
    PROVE  /\ b2 # <<>> => NodeOK(lg, m2, d, b2, la, isUp, bd, sl, inst, fz, tn, mx)
           /\ b2 = <<>> =>
                 NodeOK(lg, m2, m2, b2, la + 1, isUp, bd, sl, inst, fz, tn, mx)
  <1>1. PICK n : n = Len(lg)
    OBVIOUS
  <1>2. /\ n \in Nat /\ la \in Nat /\ la <= n /\ fz \in Nat /\ fz \in 0..n
        /\ StoreOK(m, n) /\ StoreOK(d, n)
        /\ FlightOK(lg, m, d, b, la) /\ inst = None /\ la = LoadAppliedState(d)
        /\ tn \in BOOLEAN /\ mx \in BOOLEAN
    BY <1>1 DEF NodeOK
  <1>3. /\ la + 1 <= n /\ RowsOK(b, n) /\ Pending(m, d, b, lg[la + 1])
        /\ Applied(d, lg[la + 1], la + 1, StoreAll(m, b))
    BY <1>1, <1>2 DEF FlightOK
  <1>4. /\ RowsOK(SubSeq(b, 1, k), n) /\ RowsOK(b2, n)
        /\ StoreAll(m2, b2) = StoreAll(m, b)
        /\ Pending(m2, d, b2, lg[la + 1])
    <2>1. PICK p : p = SubSeq(b, 1, k)
      OBVIOUS
    <2>2. PICK c : c = lg[la + 1]
      OBVIOUS
    <2>3. Pending(m, d, b, c) /\ m2 = StoreAll(m, p)
      BY <1>3, <2>1, <2>2
    <2>4. Landed(b, k, p, b2) /\ n \in Nat /\ RowsOK(b, n)
      BY <1>2, <1>3, <2>1 DEF Landed
    <2>5. /\ RowsOK(p, n) /\ RowsOK(b2, n)
          /\ StoreAll(StoreAll(m, p), b2) = StoreAll(m, b)
          /\ Pending(StoreAll(m, p), d, b2, c)
      BY ONLY <2>3, <2>4, RowsLand
    <2> QED
      BY <2>1, <2>2, <2>3, <2>5
  <1>5. StoreOK(m2, n)
    BY <1>2, <1>4, StoreKeeps
  <1>6. FlightOK(lg, m2, d, b2, la)
    BY <1>1, <1>3, <1>4 DEF FlightOK
  <1>7. ASSUME b2 # <<>>
        PROVE  NodeOK(lg, m2, d, b2, la, isUp, bd, sl, inst, fz, tn, mx)
    <2>1. bd # None => BuildOK(lg, b2, la, bd, sl, inst, fz, tn, mx)
      <3>1. bd # None => BuildOK(lg, b, la, bd, sl, inst, fz, tn, mx)
        BY DEF NodeOK
      <3> QED
        BY <1>7, <3>1 DEF BuildOK
    <2> QED
      BY <1>1, <1>5, <1>6, <1>7, <2>1 DEF NodeOK
  <1>8. ASSUME b2 = <<>>
        PROVE  NodeOK(lg, m2, m2, b2, la + 1, isUp, bd, sl, inst, fz, tn, mx)
    <2>1. m2 = StoreAll(m, b)
      BY <1>2, <1>4, <1>5, <1>8, NothingStored
    <2>2. /\ LoadAppliedState(m2) = la + 1
          /\ DataOK(lg, d, la, Reach(la, fz), tn) =>
                DataOK(lg, m2, la + 1, Reach(la + 1, fz), tn)
      BY <1>1, <1>2, <2>1, FlightLands
    <2>3. ~ mx => DataOK(lg, d, la, Reach(la, fz), tn)
      <3>1. ASSUME ~ mx
            PROVE  DataOK(lg, d, LoadAppliedState(d), Reach(LoadAppliedState(d), fz), tn)
        BY <1>2, <3>1 DEF NodeOK
      <3> QED
        BY <1>2, <3>1
    <2>4. la + 1 \in 0..n /\ la + 1 \in Nat /\ la <= la + 1
      BY <1>2, <1>3
    <2>5. ASSUME bd # None PROVE BuildOK(lg, b2, la + 1, bd, sl, inst, fz, tn, mx)
      <3>1. BuildOK(lg, b, la, bd, sl, inst, fz, tn, mx)
        BY <2>5 DEF NodeOK
      <3>2. BuildType(bd, la, n)
        BY <1>1, <3>1 DEF BuildOK
      <3>3. BuildType(bd, la + 1, n)
        <4>1. n <= n
          BY <1>2
        <4> QED
          BY <1>2, <2>4, <3>2, <4>1, BuildWider
      <3> QED
        BY <1>1, <1>8, <3>1, <3>3 DEF BuildOK
    <2>6. ASSUME sl # None
          PROVE  SnapType(sl, n) /\ sl.index <= la + 1 /\ SnapOK(lg, sl)
      <3>1. SnapType(sl, n) /\ sl.index <= la /\ SnapOK(lg, sl)
        BY <1>1, <1>2, <2>6 DEF NodeOK
      <3>2. PICK i : i = sl.index
        OBVIOUS
      <3>3. i \in Nat /\ i <= la
        BY <1>2, <3>1, <3>2 DEF SnapType
      <3>4. i <= la + 1
        BY <1>2, <3>3
      <3> QED
        BY <3>1, <3>2, <3>4
    <2> QED
      BY <1>1, <1>2, <1>5, <1>8, <2>2, <2>3, <2>4, <2>5, <2>6 DEF NodeOK
  <1> QED
    BY <1>7, <1>8

-----------------------------------------------------------------------------
(* Building a snapshot.                                                    *)

LEMMA RealmNames ==
    /\ RealmOf(Counter) = "acct" /\ RealmOf(Sidecar) = "acct" /\ RealmOf(Plain) = "data"
    /\ \A r \in Realms : RealmOf(r) = r
    /\ \A row \in Rows : /\ RealmOf(row) \in Realms
                         /\ RealmOf(row) = "acct" <=> row \in {Counter, Sidecar, "acct"}
                         /\ RealmOf(row) = "data" <=> row \in {Plain, "data"}
                         /\ RealmOf(row) = "meta" <=> row = "meta"
  BY DEF RealmOf, Counter, Sidecar, Plain, Realms, Rows

LEMMA JoinEmpty ==
    ASSUME NEW S, NEW s \in Seq(S)
    PROVE  s \o <<>> = s /\ <<>> \o s = s
  <1>1. <<>> \in Seq(S) /\ Len(<<>>) = 0 /\ Len(s) \in Nat
    OBVIOUS
  <1>2. PICK a : a = s \o <<>>
    OBVIOUS
  <1>3. PICK b : b = <<>> \o s
    OBVIOUS
  <1>4. a \in Seq(S) /\ Len(a) = Len(s) + 0 /\ \A i \in 1..Len(s) : a[i] = s[i]
    BY <1>1, <1>2, Joined
  <1>5. b \in Seq(S) /\ Len(b) = 0 + Len(s) /\ \A i \in 1..Len(s) : b[0 + i] = s[i]
    BY <1>1, <1>3, Joined
  <1>6. a = s
    BY <1>1, <1>4
  <1>7. \A i \in 1..Len(s) : b[i] = s[i]
    BY <1>5
  <1>8. b = s
    BY <1>1, <1>5, <1>7
  <1> QED
    BY <1>2, <1>3, <1>6, <1>8

LEMMA ThreeJoined ==
    ASSUME NEW r, NEW s, NEW t
    PROVE  /\ <<r, s>> \o <<t>> = <<r, s, t>>
           /\ <<r, s>> \o <<>> = <<r, s>> /\ <<>> \o <<t>> = <<t>>
           /\ <<>> \o <<>> = <<>>
  <1>1. <<r, s>> \in Seq({r, s, t}) /\ <<t>> \in Seq({r, s, t})
        /\ Len(<<r, s>>) = 2 /\ Len(<<t>>) = 1
    OBVIOUS
  <1>2. PICK j : j = <<r, s>> \o <<t>>
    OBVIOUS
  <1>3. /\ j \in Seq({r, s, t}) /\ Len(j) = 2 + 1
        /\ \A i \in 1..2 : j[i] = <<r, s>>[i]
        /\ \A i \in 1..1 : j[2 + i] = <<t>>[i]
    BY <1>1, <1>2, Joined
  <1>4. Len(j) = 3 /\ j[1] = r /\ j[2] = s /\ j[3] = t
    BY <1>3
  <1>5. j = <<r, s, t>>
    <2>1. <<r, s, t>> \in Seq({r, s, t}) /\ Len(<<r, s, t>>) = 3
      OBVIOUS
    <2> QED
      BY <1>3, <1>4, <2>1, SameThree
  <1>6. <<>> \in Seq({r, s, t})
    OBVIOUS
  <1>7. <<r, s>> \o <<>> = <<r, s>> /\ <<>> \o <<t>> = <<t>> /\ <<>> \o <<>> = <<>>
    BY <1>1, <1>6, JoinEmpty
  <1> QED
    BY <1>2, <1>5, <1>7

\* The rows a build has still to scan are those of the realms it listed.
LEMMA ScanOrderIs ==
    ASSUME NEW m
    PROVE  /\ ScanOrder(m) \in Todos
           /\ Plain \notin ToSet(ScanOrder(m)) => m[Plain] = Absent
           /\ Sidecar \notin ToSet(ScanOrder(m)) =>
                 m[Counter] = Absent /\ m[Sidecar] = Absent
  <1>1. PICK a : a = Listed(m, "acct", <<Counter, Sidecar>>)
    OBVIOUS
  <1>2. PICK p : p = Listed(m, "data", <<Plain>>)
    OBVIOUS
  <1>3. ScanOrder(m) = a \o p
    BY <1>1, <1>2 DEF ScanOrder
  <1>4. \/ a = <<Counter, Sidecar>>
        \/ a = <<>> /\ m[Counter] = Absent /\ m[Sidecar] = Absent
    BY <1>1, Different, RealmNames DEF Listed
  <1>5. p = <<Plain>> \/ (p = <<>> /\ m[Plain] = Absent)
    <2>1. Plain \in Rows /\ RealmOf(Plain) = "data"
      BY Different, RealmNames
    <2>2. CASE m[Plain] # Absent
      <3>1. \E row \in Rows : RealmOf(row) = "data" /\ m[row] # Absent
        BY <2>1, <2>2
      <3> QED
        BY <1>2, <3>1 DEF Listed
    <2>3. CASE m[Plain] = Absent
      BY <1>2, <2>3 DEF Listed
    <2> QED
      BY <2>2, <2>3
  <1>6. CASE a = <<Counter, Sidecar>> /\ p = <<Plain>>
    <2>1. ScanOrder(m) = <<Counter, Sidecar, Plain>>
      BY <1>3, <1>6, ThreeJoined
    <2> QED
      BY <2>1 DEF Todos, ToSet
  <1>7. CASE a = <<Counter, Sidecar>> /\ p = <<>> /\ m[Plain] = Absent
    <2>1. ScanOrder(m) = <<Counter, Sidecar>>
      BY <1>3, <1>7, ThreeJoined
    <2> QED
      BY <1>7, <2>1 DEF Todos, ToSet
  <1>8. CASE a = <<>> /\ m[Counter] = Absent /\ m[Sidecar] = Absent /\ p = <<Plain>>
    <2>1. ScanOrder(m) = <<Plain>>
      BY <1>3, <1>8, ThreeJoined
    <2> QED
      BY <1>8, <2>1 DEF Todos, ToSet
  <1>9. CASE /\ a = <<>> /\ m[Counter] = Absent /\ m[Sidecar] = Absent
             /\ p = <<>> /\ m[Plain] = Absent
    <2>1. ScanOrder(m) = <<>>
      BY <1>3, <1>9, ThreeJoined
    <2> QED
      BY <1>9, <2>1 DEF Todos, ToSet
  <1> QED
    BY <1>4, <1>5, <1>6, <1>7, <1>8, <1>9

LEMMA EmptyIs ==
    ASSUME NEW len \in Nat
    PROVE  /\ StoreOK(EmptyStore, len)
           /\ \A row \in Rows : EmptyStore[row] = Absent
  BY DEF StoreOK, EmptyStore, RowValue

\* A build that has read nothing yet.
Begun(bd, la, m, tn) ==
    /\ bd = [index |-> la, data |-> EmptyStore, todo |-> ScanOrder(m), torn |-> tn]
    /\ la > 0

\* A build starts with an empty copy and every row of its realms to scan.
LEMMA BuildStarts ==
    ASSUME NEW lg \in Seq(Command), NEW m, NEW d, NEW b, NEW la, NEW isUp, NEW bd,
           NEW sl, NEW inst, NEW fz, NEW tn, NEW mx,
           NodeOK(lg, m, d, b, la, isUp, bd, sl, inst, fz, tn, mx),
           isUp, b = <<>>, inst = None, NEW bd2, Begun(bd2, la, m, tn)
    PROVE  NodeOK(lg, m, d, b, la, isUp, bd2, sl, inst, fz, tn, mx)
  <1>1. PICK n : n = Len(lg)
    OBVIOUS
  <1>2. /\ n \in Nat /\ la \in Nat /\ la <= n /\ m = d /\ la = LoadAppliedState(d)
        /\ tn \in BOOLEAN
    BY <1>1 DEF NodeOK
  <1>3. /\ bd2.index = la /\ bd2.data = EmptyStore /\ bd2.todo = ScanOrder(m)
        /\ bd2.torn = tn
        /\ bd2 = [index |-> bd2.index, data |-> bd2.data, todo |-> bd2.todo,
                  torn |-> bd2.torn]
    BY DEF Begun
  <1>4. /\ bd2.data[Plain] = Absent /\ bd2.data[Counter] = Absent
        /\ bd2.data[Sidecar] = Absent /\ \A r \in Realms : bd2.data[r] = Absent
        /\ StoreOK(bd2.data, n)
    BY <1>2, <1>3, Different, EmptyIs
  <1>5. BuildType(bd2, la, n)
    <2>1. la \in 1..la
      BY <1>2 DEF Begun
    <2>2. bd2.todo \in Todos
      BY <1>3, ScanOrderIs
    <2> QED
      BY <1>2, <1>3, <1>4, <2>1, <2>2 DEF BuildType
  <1>6. ASSUME ~ mx PROVE ScanOK(lg, bd2, Reach(la, fz), tn)
    <2>1. DataOK(lg, d, LoadAppliedState(d), Reach(LoadAppliedState(d), fz), tn)
      BY <1>6 DEF NodeOK
    <2>2. DataOK(lg, m, la, Reach(la, fz), tn)
      BY <1>2, <2>1
    <2>3. /\ PlainOK(lg, m[Plain], la, Reach(la, fz))
          /\ ~ tn => CounterOK(lg, m[Counter], m[Sidecar], la, Reach(la, fz))
      BY <2>2 DEF DataOK
    <2>4. ASSUME Plain \notin ToSet(bd2.todo)
          PROVE  PlainOK(lg, bd2.data[Plain], bd2.index, Reach(la, fz))
      <3>1. m[Plain] = Absent
        BY <1>3, <2>4, ScanOrderIs
      <3> QED
        BY <1>3, <1>4, <2>3, <3>1
    <2>5. ASSUME Sidecar \notin ToSet(bd2.todo), ~ bd2.torn
          PROVE  CounterOK(lg, bd2.data[Counter], bd2.data[Sidecar], bd2.index,
                           Reach(la, fz))
      <3>1. m[Counter] = Absent /\ m[Sidecar] = Absent
        BY <1>3, <2>5, ScanOrderIs
      <3>2. ~ tn
        BY <1>3, <2>5
      <3> QED
        BY <1>3, <1>4, <2>3, <3>1, <3>2
    <2>6. tn => bd2.torn
      BY <1>3
    <2> QED
      BY <2>4, <2>5, <2>6 DEF ScanOK
  <1>7. BuildOK(lg, b, la, bd2, sl, inst, fz, tn, mx)
    BY <1>1, <1>5, <1>6 DEF BuildOK
  <1> QED
    BY <1>7 DEF NodeOK

\* What a reader of the map finds while nothing is installed.
LEMMA Seen ==
    ASSUME NEW lg \in Seq(Command), NEW m, NEW d, NEW b, NEW la \in Nat, la <= Len(lg),
           NEW fz \in 0..Len(lg), NEW tn \in BOOLEAN,
           StoreOK(m, Len(lg)), StoreOK(d, Len(lg)), la = LoadAppliedState(d),
           b = <<>> => m = d, b # <<>> => FlightOK(lg, m, d, b, la),
           DataOK(lg, d, la, Reach(la, fz), tn),
           NEW u, u = Reach(IF b = <<>> THEN la ELSE la + 1, fz)
    PROVE  /\ u \in Nat /\ u <= Len(lg)
           /\ PlainOK(lg, m[Plain], la, u)
           /\ ~ tn /\ ~ Half(m, b) => CounterOK(lg, m[Counter], m[Sidecar], la, u)
  <1>1. PICK n : n = Len(lg)
    OBVIOUS
  <1>2. n \in Nat /\ la <= n /\ fz \in Nat /\ fz <= n /\ fz \in 0..n
    BY <1>1
  <1>3. DataOK(lg, d, la, Reach(la, fz), tn)
    OBVIOUS
  <1>4. CASE b = <<>>
    <2>1. u = Reach(la, fz) /\ m = d
      BY <1>2, <1>4
    <2>2. u \in Nat /\ u <= n
      BY <1>2, <2>1 DEF Reach
    <2> QED
      BY <1>1, <1>3, <2>1, <2>2 DEF DataOK
  <1>5. CASE b # <<>>
    <2>1. u = Reach(la + 1, fz) /\ FlightOK(lg, m, d, b, la)
      BY <1>2, <1>5
    <2>2. la + 1 <= n
      BY <1>1, <2>1 DEF FlightOK
    <2>3. u \in Nat /\ u <= n
      BY <1>2, <2>1, <2>2 DEF Reach
    <2> QED
      BY <1>1, <1>2, <1>3, <2>1, <2>3, FlightSeen
  <1> QED
    BY <1>4, <1>5

TodoSteps(t, rest) ==
    /\ rest \in Todos
    /\ Head(t) \in {Counter, Sidecar, Plain}
    /\ Head(t) = Counter => Sidecar \in ToSet(rest)
    /\ Head(t) # Plain => (Plain \in ToSet(t) <=> Plain \in ToSet(rest))
    /\ Head(t) = Plain => (Sidecar \in ToSet(t) <=> Sidecar \in ToSet(rest))

LEMMA TodoStep ==
    ASSUME NEW t \in Todos, t # <<>>
    PROVE  TodoSteps(t, Tail(t))
  <1>1. CASE t = <<Counter, Sidecar, Plain>>
    <2>1. Tail(t) = <<Sidecar, Plain>> /\ Head(t) = Counter
      BY <1>1
    <2> QED
      BY <1>1, <2>1, Different DEF Todos, ToSet, TodoSteps
  <1>2. CASE t = <<Counter, Sidecar>>
    <2>1. Tail(t) = <<Sidecar>> /\ Head(t) = Counter
      BY <1>2
    <2> QED
      BY <1>2, <2>1, Different DEF Todos, ToSet, TodoSteps
  <1>3. CASE t = <<Sidecar, Plain>>
    <2>1. Tail(t) = <<Plain>> /\ Head(t) = Sidecar
      BY <1>3
    <2> QED
      BY <1>3, <2>1, Different DEF Todos, ToSet, TodoSteps
  <1>4. CASE t = <<Sidecar>>
    <2>1. Tail(t) = <<>> /\ Head(t) = Sidecar
      BY <1>4
    <2> QED
      BY <1>4, <2>1, Different DEF Todos, ToSet, TodoSteps
  <1>5. CASE t = <<Plain>>
    <2>1. Tail(t) = <<>> /\ Head(t) = Plain
      BY <1>5
    <2> QED
      BY <1>5, <2>1, Different DEF Todos, ToSet, TodoSteps
  <1> QED
    BY <1>1, <1>2, <1>3, <1>4, <1>5 DEF Todos

\* One more row read.
Scanned(bd, bd2, m, b) ==
    LET key == Head(bd.todo)
        tears == key = Sidecar /\ (bd.data[Counter] # m[Counter] \/ Half(m, b))
    IN bd2 = [bd EXCEPT !.data[key] = m[key], !.todo = Tail(@),
                        !.torn = @ \/ tears]

\* A scanned row is good between the build's index and the map's.
LEMMA ScanRows ==
    ASSUME NEW lg \in Seq(Command), NEW m, NEW d, NEW b, NEW la, NEW isUp, NEW bd,
           NEW sl, NEW inst, NEW fz, NEW tn, NEW mx,
           NodeOK(lg, m, d, b, la, isUp, bd, sl, inst, fz, tn, mx),
           isUp, bd # None, bd.todo # <<>>, NEW bd2, Scanned(bd, bd2, m, b)
    PROVE  NodeOK(lg, m, d, b, la, isUp, bd2, sl, inst, fz, tn, mx)
  <1>1. PICK n : n = Len(lg)
    OBVIOUS
  <1>2. n \in Nat /\ la \in Nat /\ StoreOK(m, n) /\ tn \in BOOLEAN
    BY <1>1 DEF NodeOK
  <1>3. BuildOK(lg, b, la, bd, sl, inst, fz, tn, mx)
    BY DEF NodeOK
  <1>4. BuildType(bd, la, n)
    BY <1>1, <1>3 DEF BuildOK
  <1>5. PICK key : key = Head(bd.todo)
    OBVIOUS
  <1>6. PICK tears \in BOOLEAN :
            tears <=> key = Sidecar /\ (bd.data[Counter] # m[Counter] \/ Half(m, b))
    OBVIOUS
  <1>7. /\ bd = [index |-> bd.index, data |-> bd.data, todo |-> bd.todo, torn |-> bd.torn]
        /\ bd.index \in 1..la /\ bd.todo \in Todos /\ bd.torn \in BOOLEAN
        /\ StoreOK(bd.data, n) /\ \A r \in Realms : bd.data[r] = Absent
    BY <1>4 DEF BuildType
  <1>8. PICK rest : rest = Tail(bd.todo)
    OBVIOUS
  <1>9. PICK data : data = [bd.data EXCEPT ![key] = m[key]]
    OBVIOUS
  <1>10. TodoSteps(bd.todo, rest)
    BY <1>7, <1>8, TodoStep
  <1>11. key \in {Counter, Sidecar, Plain} /\ rest \in Todos
    BY <1>5, <1>10 DEF TodoSteps
  <1>12. /\ bd2.index = bd.index /\ bd2.data = data /\ bd2.todo = rest
         /\ bd2.torn = (bd.torn \/ tears)
         /\ bd2 = [index |-> bd2.index, data |-> bd2.data, todo |-> bd2.todo,
                   torn |-> bd2.torn]
    <2>1. bd2 = [index |-> bd.index, data |-> data, todo |-> rest,
                 torn |-> bd.torn \/ tears]
      BY <1>5, <1>6, <1>7, <1>8, <1>9 DEF Scanned
    <2> QED
      BY <2>1
  <1>13. bd2.torn \in BOOLEAN /\ (bd2.torn <=> bd.torn \/ tears)
    BY <1>6, <1>7, <1>12
  <1>14. DOMAIN bd.data = Rows /\ key \in Rows /\ key \notin Realms
    BY <1>2, <1>7, <1>11, Different, StoreParts
  <1>15. data = [row \in Rows |-> IF row = key THEN m[row] ELSE bd.data[row]]
    BY <1>2, <1>7, <1>9, <1>14 DEF StoreOK
  <1>16. /\ data[key] = m[key]
         /\ \A row \in Rows : row # key => data[row] = bd.data[row]
    BY <1>14, <1>15
  <1>17. StoreOK(data, n)
    BY <1>2, <1>7, <1>15 DEF StoreOK
  <1>18. \A r \in Realms : data[r] = Absent
    BY <1>7, <1>14, <1>16, Different
  <1>19. BuildType(bd2, la, n)
    BY <1>7, <1>11, <1>12, <1>13, <1>17, <1>18 DEF BuildType
  <1>20. PICK u : u = Reach(IF b = <<>> THEN la ELSE la + 1, fz)
    OBVIOUS
  <1>21. ASSUME Clean(bd2, sl, inst), ~ mx PROVE ScanOK(lg, bd2, u, tn)
    <2>1. Clean(bd, sl, inst) /\ inst = None
      BY <1>12, <1>21 DEF Clean
    <2>2. ScanOK(lg, bd, u, tn)
      BY <1>3, <1>20, <1>21, <2>1 DEF BuildOK
    <2>3. /\ u \in Nat /\ PlainOK(lg, m[Plain], la, u)
          /\ ~ tn /\ ~ Half(m, b) => CounterOK(lg, m[Counter], m[Sidecar], la, u)
      <3>1. DataOK(lg, d, LoadAppliedState(d), Reach(LoadAppliedState(d), fz), tn)
        BY <1>21, <2>1 DEF NodeOK
      <3>2. /\ la = LoadAppliedState(d) /\ la <= Len(lg) /\ fz \in 0..Len(lg)
            /\ StoreOK(d, Len(lg)) /\ (b = <<>> => m = d)
            /\ (b # <<>> => FlightOK(lg, m, d, b, la))
        BY <1>21, <2>1 DEF NodeOK
      <3>3. DataOK(lg, d, la, Reach(la, fz), tn)
        BY <3>1, <3>2
      <3> QED
        BY <1>1, <1>2, <1>20, <3>2, <3>3, Seen
    <2>4. PICK j : j = bd.index
      OBVIOUS
    <2>5. j \in Nat /\ j <= la
      BY <1>2, <1>7, <2>4
    <2>6. u <= u
      BY <2>3
    <2>7. PlainOK(lg, m[Plain], j, u)
      BY <1>2, <2>3, <2>5, <2>6, PlainWiden
    <2>8. ~ tn /\ ~ Half(m, b) => CounterOK(lg, m[Counter], m[Sidecar], j, u)
      BY <1>2, <2>3, <2>5, <2>6, CounterWiden
    <2>9. /\ tn => bd.torn
          /\ Plain \notin ToSet(bd.todo) => PlainOK(lg, bd.data[Plain], j, u)
          /\ Sidecar \notin ToSet(bd.todo) /\ ~ bd.torn =>
                CounterOK(lg, bd.data[Counter], bd.data[Sidecar], j, u)
      BY <2>2, <2>4 DEF ScanOK
    <2>10. tn => bd2.torn
      BY <1>13, <2>9
    <2>11. ASSUME Plain \notin ToSet(rest) PROVE PlainOK(lg, data[Plain], j, u)
      <3>1. CASE key = Plain
        BY <1>16, <2>7, <3>1
      <3>2. CASE key # Plain
        <4>1. Plain \notin ToSet(bd.todo)
          BY <1>5, <1>10, <2>11, <3>2 DEF TodoSteps
        <4>2. data[Plain] = bd.data[Plain]
          BY <1>16, <3>2, Different
        <4> QED
          BY <2>9, <4>1, <4>2
      <3> QED
        BY <3>1, <3>2
    <2>12. ASSUME Sidecar \notin ToSet(rest), ~ bd2.torn
           PROVE  CounterOK(lg, data[Counter], data[Sidecar], j, u)
      <3>1. ~ bd.torn /\ ~ tears /\ ~ tn
        BY <1>13, <2>9, <2>12
      <3>2. key # Counter
        BY <1>5, <1>10, <2>12 DEF TodoSteps
      <3>3. CASE key = Sidecar
        <4>1. bd.data[Counter] = m[Counter] /\ ~ Half(m, b)
          BY <1>6, <3>1, <3>3
        <4>2. data[Counter] = m[Counter] /\ data[Sidecar] = m[Sidecar]
          BY <1>16, <3>3, <4>1, Different
        <4> QED
          BY <2>8, <3>1, <4>1, <4>2
      <3>4. CASE key = Plain
        <4>1. Sidecar \notin ToSet(bd.todo)
          BY <1>5, <1>10, <2>12, <3>4 DEF TodoSteps
        <4>2. data[Counter] = bd.data[Counter] /\ data[Sidecar] = bd.data[Sidecar]
          BY <1>16, <3>4, Different
        <4> QED
          BY <2>9, <3>1, <4>1, <4>2
      <3> QED
        BY <1>11, <3>2, <3>3, <3>4
    <2> QED
      BY <1>12, <2>4, <2>10, <2>11, <2>12 DEF ScanOK
  <1>22. BuildOK(lg, b, la, bd2, sl, inst, fz, tn, mx)
    BY <1>1, <1>19, <1>20, <1>21 DEF BuildOK
  <1> QED
    BY <1>22 DEF NodeOK

\* A finished build of a clean node is a sound snapshot.
LEMMA BuildDones ==
    ASSUME NEW lg \in Seq(Command), NEW m, NEW d, NEW b, NEW la, NEW isUp, NEW bd,
           NEW sl, NEW inst, NEW fz, NEW tn, NEW mx,
           NodeOK(lg, m, d, b, la, isUp, bd, sl, inst, fz, tn, mx),
           isUp, bd # None, bd.todo = <<>>,
           NEW snap, snap = [index |-> bd.index, data |-> bd.data,
                             upto |-> Max({la + (IF b = <<>> THEN 0 ELSE 1), fz}),
                             torn |-> bd.torn, mixed |-> mx]
    PROVE  NodeOK(lg, m, d, b, la, isUp, None, SlotOffer(sl, snap), inst, fz, tn, mx)
  <1>1. PICK n : n = Len(lg)
    OBVIOUS
  <1>2. /\ n \in Nat /\ la \in Nat /\ la <= n /\ fz \in Nat /\ fz <= n
        /\ tn \in BOOLEAN /\ mx \in BOOLEAN
        /\ b # <<>> => FlightOK(lg, m, d, b, la)
    BY <1>1 DEF NodeOK
  <1>3. BuildOK(lg, b, la, bd, sl, inst, fz, tn, mx)
    BY DEF NodeOK
  <1>4. BuildType(bd, la, n)
    BY <1>1, <1>3 DEF BuildOK
  <1>5. PICK v : v = IF b = <<>> THEN la ELSE la + 1
    OBVIOUS
  <1>6. v \in Nat /\ v <= n /\ la <= v /\ v = la + (IF b = <<>> THEN 0 ELSE 1)
    <2>1. b # <<>> => la + 1 <= n
      BY <1>1, <1>2 DEF FlightOK
    <2> QED
      BY <1>2, <1>5, <2>1
  <1>7. PICK u : u = Reach(v, fz)
    OBVIOUS
  <1>8. u \in Nat /\ u <= n /\ la <= u
    BY <1>2, <1>6, <1>7 DEF Reach
  <1>9. snap.upto = u
    <2>1. snap.upto = Max({v, fz})
      BY <1>6
    <2>2. Max({v, fz}) = IF v <= fz THEN fz ELSE v
      BY <1>2, <1>6, MaxOfTwo
    <2> QED
      BY <1>2, <1>6, <1>7, <2>1, <2>2 DEF Reach
  <1>10. /\ snap.index = bd.index /\ snap.data = bd.data /\ snap.torn = bd.torn
         /\ snap.mixed = mx
         /\ snap = [index |-> snap.index, data |-> snap.data, upto |-> snap.upto,
                    torn |-> snap.torn, mixed |-> snap.mixed]
    OBVIOUS
  <1>11. PICK i : i = bd.index
    OBVIOUS
  <1>12. i \in 1..la /\ i \in Nat
    BY <1>2, <1>4, <1>11 DEF BuildType
  <1>13. SnapType(snap, n) /\ snap.index <= la
    <2>1. i \in 1..n /\ u \in i..n /\ i <= la
      BY <1>2, <1>8, <1>12
    <2> QED
      BY <1>2, <1>4, <1>9, <1>10, <1>11, <2>1 DEF SnapType, BuildType
  <1>14. ASSUME Clean(bd, sl, inst) PROVE SnapOK(lg, snap)
    <2>1. CASE mx
      BY <1>10, <2>1 DEF SnapOK
    <2>2. CASE ~ mx
      <3>1. ScanOK(lg, bd, u, tn)
        BY <1>3, <1>5, <1>7, <1>14, <2>2 DEF BuildOK
      <3>2. ToSet(bd.todo) = {}
        BY DEF ToSet
      <3>3. DataOK(lg, bd.data, bd.index, u, bd.torn)
        BY <3>1, <3>2 DEF ScanOK, DataOK
      <3> QED
        BY <1>9, <1>10, <3>3 DEF SnapOK
    <2> QED
      BY <1>2, <2>1, <2>2
  <1>15. PICK sl2 : sl2 = SlotOffer(sl, snap)
    OBVIOUS
  <1>16. /\ SnapType(sl2, n) /\ sl2.index <= la
         /\ inst = None => SnapOK(lg, sl2)
    <2>1. CASE sl = None
      <3>1. sl2 = snap
        BY <1>15, <2>1 DEF SlotOffer
      <3>2. inst = None => Clean(bd, sl, inst)
        BY <2>1 DEF Clean
      <3> QED
        BY <1>13, <1>14, <3>1, <3>2
    <2>2. CASE sl # None /\ sl.index <= snap.index
      <3>1. sl2 = snap
        BY <1>15, <2>2 DEF SlotOffer
      <3>2. inst = None => Clean(bd, sl, inst)
        BY <1>10, <2>2 DEF Clean
      <3> QED
        BY <1>13, <1>14, <3>1, <3>2
    <2>3. CASE sl # None /\ ~ (sl.index <= snap.index)
      <3>1. sl2 = sl
        BY <1>15, <2>3 DEF SlotOffer
      <3>2. /\ SnapType(sl, n) /\ sl.index <= la
            /\ inst = None => SnapOK(lg, sl)
        BY <1>1, <2>3 DEF NodeOK
      <3> QED
        BY <3>1, <3>2
    <2> QED
      BY <2>1, <2>2, <2>3
  <1>17. NodeOK(lg, m, d, b, la, isUp, None, sl2, inst, fz, tn, mx)
    BY <1>1, <1>16 DEF NodeOK
  <1> QED
    BY <1>15, <1>17

-----------------------------------------------------------------------------
(* Installing a snapshot.                                                  *)

\* list_realms leaves out no realm that holds a row.
LEMMA ListedRealms ==
    ASSUME NEW rows
    PROVE  /\ ListRealms(rows) \in Clears
           /\ rows["meta"] = Absent => ListRealms(rows) \in Puts
           /\ \A row \in Rows : RealmOf(row) \notin ToSet(ListRealms(rows)) =>
                                    rows[row] = Absent
  <1>1. PICK a : a = Listed(rows, "meta", <<"meta">>)
    OBVIOUS
  <1>2. PICK b : b = Listed(rows, "acct", <<"acct">>)
    OBVIOUS
  <1>3. PICK c : c = Listed(rows, "data", <<"data">>)
    OBVIOUS
  <1>4. ListRealms(rows) = (a \o b) \o c
    BY <1>1, <1>2, <1>3 DEF ListRealms
  <1>5. \/ a = <<"meta">> /\ ~ (rows["meta"] = Absent)
        \/ a = <<>> /\ \A row \in Rows : RealmOf(row) = "meta" => rows[row] = Absent
    <2>1. \A row \in Rows : RealmOf(row) = "meta" <=> row = "meta"
      BY RealmNames
    <2> QED
      BY <1>1, <2>1 DEF Listed
  <1>6. \/ b = <<"acct">>
        \/ b = <<>> /\ \A row \in Rows : RealmOf(row) = "acct" => rows[row] = Absent
    BY <1>2 DEF Listed
  <1>7. \/ c = <<"data">>
        \/ c = <<>> /\ \A row \in Rows : RealmOf(row) = "data" => rows[row] = Absent
    BY <1>3 DEF Listed
  <1>8. \A row \in Rows : RealmOf(row) \in {"meta", "acct", "data"}
    BY RealmNames DEF Realms
  <1>9. /\ <<"meta">> \o <<"acct">> = <<"meta", "acct">>
        /\ <<"meta">> \o <<>> = <<"meta">> /\ <<>> \o <<"acct">> = <<"acct">>
        /\ <<>> \o <<>> = <<>>
        /\ <<"meta", "acct">> \o <<"data">> = <<"meta", "acct", "data">>
        /\ <<"meta", "acct">> \o <<>> = <<"meta", "acct">>
        /\ <<"acct">> \o <<"data">> = <<"acct", "data">>
        /\ <<"meta">> \o <<"data">> = <<"meta", "data">>
        /\ <<"acct">> \o <<>> = <<"acct">> /\ <<>> \o <<"data">> = <<"data">>
    <2>1. \A x : <<x>> \in Seq({x})
      OBVIOUS
    <2>2. \A x : <<x>> \o <<>> = <<x>> /\ <<>> \o <<x>> = <<x>>
      BY <2>1, JoinEmpty
    <2> QED
      BY <2>2, ThreeJoined, TwoRows
  <1>10. PICK l : l = ListRealms(rows)
    OBVIOUS
  <1>11. CASE a = <<"meta">> /\ ~ (rows["meta"] = Absent)
    <2>1. CASE b = <<"acct">> /\ c = <<"data">>
      <3>1. l = <<"meta", "acct", "data">>
        BY <1>4, <1>9, <1>10, <1>11, <2>1
      <3> QED
        BY <1>8, <1>10, <1>11, <3>1 DEF Clears, ToSet
    <2>2. CASE b = <<"acct">> /\ c = <<>>
      <3>1. l = <<"meta", "acct">>
        BY <1>4, <1>9, <1>10, <1>11, <2>2
      <3>2. ToSet(l) = {"meta", "acct"}
        BY <3>1 DEF ToSet
      <3> QED
        BY <1>7, <1>8, <1>10, <1>11, <2>2, <3>1, <3>2 DEF Clears
    <2>3. CASE b = <<>> /\ c = <<"data">>
      <3>1. l = <<"meta", "data">>
        BY <1>4, <1>9, <1>10, <1>11, <2>3
      <3>2. ToSet(l) = {"meta", "data"}
        BY <3>1 DEF ToSet
      <3> QED
        BY <1>6, <1>8, <1>10, <1>11, <2>3, <3>1, <3>2 DEF Clears
    <2>4. CASE b = <<>> /\ c = <<>>
      <3>1. l = <<"meta">>
        BY <1>4, <1>9, <1>10, <1>11, <2>4
      <3>2. ToSet(l) = {"meta"}
        BY <3>1 DEF ToSet
      <3> QED
        BY <1>6, <1>7, <1>8, <1>10, <1>11, <2>4, <3>1, <3>2 DEF Clears
    <2> QED
      BY <1>6, <1>7, <2>1, <2>2, <2>3, <2>4
  <1>12. CASE a = <<>> /\ \A row \in Rows : RealmOf(row) = "meta" => rows[row] = Absent
    <2>1. CASE b = <<"acct">> /\ c = <<"data">>
      <3>1. l = <<"acct", "data">>
        BY <1>4, <1>9, <1>10, <1>12, <2>1
      <3>2. ToSet(l) = {"acct", "data"}
        BY <3>1 DEF ToSet
      <3> QED
        BY <1>8, <1>10, <1>12, <3>1, <3>2 DEF Clears, Puts
    <2>2. CASE b = <<"acct">> /\ c = <<>>
      <3>1. l = <<"acct">>
        BY <1>4, <1>9, <1>10, <1>12, <2>2
      <3>2. ToSet(l) = {"acct"}
        BY <3>1 DEF ToSet
      <3> QED
        BY <1>7, <1>8, <1>10, <1>12, <2>2, <3>1, <3>2 DEF Clears, Puts
    <2>3. CASE b = <<>> /\ c = <<"data">>
      <3>1. l = <<"data">>
        BY <1>4, <1>9, <1>10, <1>12, <2>3
      <3>2. ToSet(l) = {"data"}
        BY <3>1 DEF ToSet
      <3> QED
        BY <1>6, <1>8, <1>10, <1>12, <2>3, <3>1, <3>2 DEF Clears, Puts
    <2>4. CASE b = <<>> /\ c = <<>>
      <3>1. l = <<>>
        BY <1>4, <1>9, <1>10, <1>12, <2>4
      <3> QED
        BY <1>6, <1>7, <1>8, <1>10, <1>12, <2>4, <3>1 DEF Clears, Puts
    <2> QED
      BY <1>6, <1>7, <2>1, <2>2, <2>3, <2>4
  <1> QED
    BY <1>5, <1>11, <1>12

\* A store that every realm was cleared from is ready to be filled.
LEMMA FillStarts ==
    ASSUME NEW len \in Nat, NEW d, \A row \in Rows : d[row] = Absent, NEW inst,
           SnapType(inst.snap, len), inst.put = ListRealms(inst.snap.data), inst.meta
    PROVE  FillOK(d, inst)
  <1>1. \A row \in Rows : RealmOf(row) \notin ToSet(inst.put) =>
                              inst.snap.data[row] = Absent
    BY ListedRealms
  <1>2. "meta" \in Rows
    BY DEF Rows, Realms
  <1> QED
    BY <1>1, <1>2 DEF FillOK

\* An install of s over the rows m that has cleared nothing yet.
Opened(inst, s, m) ==
    inst = [snap |-> s, clear |-> ListRealms(m), put |-> ListRealms(s.data),
            meta |-> TRUE]

\* An install starts with every realm of the node to clear.
LEMMA InstallStarts ==
    ASSUME NEW lg \in Seq(Command), NEW m, NEW d, NEW b, NEW la, NEW isUp, NEW bd,
           NEW sl, NEW inst, NEW fz, NEW tn, NEW mx,
           NodeOK(lg, m, d, b, la, isUp, bd, sl, inst, fz, tn, mx),
           isUp, b = <<>>, inst = None,
           NEW s, SnapType(s, Len(lg)), SnapOK(lg, s), la < s.index,
           NEW inst2, Opened(inst2, s, m)
    PROVE  NodeOK(lg, m, d, b, la, isUp, bd, sl, inst2, Max({fz, s.upto}), tn, mx)
  <1>1. PICK n : n = Len(lg)
    OBVIOUS
  <1>2. /\ n \in Nat /\ la \in Nat /\ la <= n /\ fz \in Nat /\ fz <= n
        /\ tn \in BOOLEAN /\ mx \in BOOLEAN /\ m = d /\ la = LoadAppliedState(d)
    BY <1>1 DEF NodeOK
  <1>3. PICK i : i = s.index
    OBVIOUS
  <1>4. PICK u : u = s.upto
    OBVIOUS
  <1>5. i \in Nat /\ u \in Nat /\ i <= u /\ u <= n /\ la < i
    BY <1>1, <1>3, <1>4 DEF SnapType
  <1>6. PICK fz2 : fz2 = Max({fz, u})
    OBVIOUS
  <1>7. fz2 = IF fz <= u THEN u ELSE fz
    BY <1>2, <1>5, <1>6, MaxOfTwo
  <1>8. fz2 \in 0..n /\ fz2 \in Nat /\ u <= fz2 /\ fz <= fz2 /\ la <= fz2
    BY <1>2, <1>5, <1>7
  <1>9. /\ inst2.snap = s /\ inst2.clear = ListRealms(m) /\ inst2.put = ListRealms(s.data)
        /\ inst2.meta = TRUE
        /\ inst2 = [snap |-> inst2.snap, clear |-> inst2.clear, put |-> inst2.put,
                    meta |-> inst2.meta]
    BY DEF Opened
  <1>10. s.data["meta"] = Absent
    BY DEF SnapType, Realms
  <1>11. inst2.clear \in Clears /\ inst2.put \in Puts
    BY <1>9, <1>10, ListedRealms
  <1>12. \A row \in Rows : RealmOf(row) \notin ToSet(inst2.clear) => d[row] = Absent
    BY <1>2, <1>9, ListedRealms
  <1>13. ASSUME ~ mx PROVE DataOK(lg, d, 0, fz2, tn)
    <2>1. DataOK(lg, d, LoadAppliedState(d), Reach(LoadAppliedState(d), fz), tn)
      BY <1>13 DEF NodeOK
    <2>2. PICK r : r = Reach(la, fz)
      OBVIOUS
    <2>3. DataOK(lg, d, la, r, tn)
      BY <1>2, <2>1, <2>2
    <2>4. r \in Nat /\ r <= fz2 /\ 0 \in Nat /\ 0 <= la
      BY <1>2, <1>8, <2>2 DEF Reach
    <2> QED
      BY <1>2, <1>8, <2>3, <2>4, DataWiden
  <1>14. ASSUME inst2.clear # <<>> PROVE ClearOK(lg, d, inst2, fz2, tn, mx)
    BY <1>9, <1>12, <1>13 DEF ClearOK
  <1>15. ASSUME inst2.clear = <<>> PROVE FillOK(d, inst2)
    <2>1. ToSet(inst2.clear) = {}
      BY <1>15 DEF ToSet
    <2>2. \A row \in Rows : d[row] = Absent
      BY <1>12, <2>1
    <2>3. SnapType(inst2.snap, n) /\ inst2.put = ListRealms(inst2.snap.data) /\ inst2.meta
      BY <1>1, <1>9
    <2> QED
      BY <1>2, <2>2, <2>3, FillStarts
  <1>16. InstallOK(lg, d, b, la, isUp, inst2, fz2, tn, mx)
    BY <1>1, <1>3, <1>4, <1>5, <1>8, <1>9, <1>11, <1>14, <1>15 DEF InstallOK
  <1>17. inst2 # None
    BY DEF None, Opened
  <1>18. ASSUME bd # None PROVE BuildOK(lg, b, la, bd, sl, inst2, fz2, tn, mx)
    <2>1. BuildOK(lg, b, la, bd, sl, inst, fz, tn, mx)
      BY <1>18 DEF NodeOK
    <2> QED
      BY <1>17, <2>1 DEF BuildOK, Clean
  <1>19. NodeOK(lg, m, d, b, la, isUp, bd, sl, inst2, fz2, tn, mx)
    BY <1>1, <1>8, <1>16, <1>17, <1>18 DEF NodeOK
  <1> QED
    BY <1>4, <1>6, <1>19

LEMMA EmptyDataOK ==
    ASSUME NEW lg, NEW f \in Nat
    PROVE  PlainOK(lg, Absent, 0, f) /\ CounterOK(lg, Absent, Absent, 0, f)
  <1>1. Reference(lg, 0)[Plain] = Absent /\ Reference(lg, 0)[Counter] = Absent
    BY RefBase DEF NoKeys
  <1>2. 0 \in 0..f /\ 1..0 = {}
    OBVIOUS
  <1>3. SideAt(lg, Absent, 0) /\ SideKept(lg, Absent, 0)
    BY <1>2 DEF SideAt, SideKept
  <1> QED
    BY <1>1, <1>2, <1>3 DEF PlainOK, CounterOK, PairOK

\* The rows of one realm are replaced.
Replaced(m, realm, rows, m2) ==
    m2 = [row \in Rows |-> IF RealmOf(row) = realm THEN rows[row] ELSE m[row]]

LEMMA ReplaceKeeps ==
    ASSUME NEW len \in Nat, NEW m, NEW realm, NEW rows, NEW m2, StoreOK(m, len),
           StoreOK(rows, len), Replaced(m, realm, rows, m2)
    PROVE  StoreOK(m2, len)
  BY DEF StoreOK, Replaced

ClearSteps(t, rest) ==
    /\ rest \in Clears
    /\ Head(t) \in Realms
    /\ \A x : x \in ToSet(t) <=> x = Head(t) \/ x \in ToSet(rest)
    /\ Head(t) \notin ToSet(rest)
    /\ t \in Puts => rest \in Puts /\ Head(t) \in {"acct", "data"}

\* The realms still to clear, one realm further.
LEMMA ClearStep ==
    ASSUME NEW t \in Clears, t # <<>>
    PROVE  ClearSteps(t, Tail(t))
  <1>0. Puts \subseteq Clears
    BY DEF Clears
  <1>1. CASE t = <<"meta", "acct", "data">>
    <2>1. Tail(t) = <<"acct", "data">> /\ Head(t) = "meta"
      BY <1>1
    <2>2. t \notin Puts
      BY <1>1 DEF Puts
    <2> QED
      BY <1>1, <2>1, <2>2 DEF Clears, Puts, ToSet, ClearSteps, Realms
  <1>2. CASE t = <<"meta", "acct">>
    <2>1. Tail(t) = <<"acct">> /\ Head(t) = "meta"
      BY <1>2
    <2>2. t \notin Puts
      BY <1>2 DEF Puts
    <2> QED
      BY <1>2, <2>1, <2>2 DEF Clears, Puts, ToSet, ClearSteps, Realms
  <1>3. CASE t = <<"meta", "data">>
    <2>1. Tail(t) = <<"data">> /\ Head(t) = "meta"
      BY <1>3
    <2>2. t \notin Puts
      BY <1>3 DEF Puts
    <2> QED
      BY <1>3, <2>1, <2>2 DEF Clears, Puts, ToSet, ClearSteps, Realms
  <1>4. CASE t = <<"meta">>
    <2>1. Tail(t) = <<>> /\ Head(t) = "meta"
      BY <1>4
    <2>2. t \notin Puts
      BY <1>4 DEF Puts
    <2> QED
      BY <1>4, <2>1, <2>2 DEF Clears, Puts, ToSet, ClearSteps, Realms
  <1>5. CASE t = <<"acct", "data">>
    <2>1. Tail(t) = <<"data">> /\ Head(t) = "acct"
      BY <1>5
    <2> QED
      BY <1>5, <2>1 DEF Clears, Puts, ToSet, ClearSteps, Realms
  <1>6. CASE t = <<"acct">>
    <2>1. Tail(t) = <<>> /\ Head(t) = "acct"
      BY <1>6
    <2> QED
      BY <1>6, <2>1 DEF Clears, Puts, ToSet, ClearSteps, Realms
  <1>7. CASE t = <<"data">>
    <2>1. Tail(t) = <<>> /\ Head(t) = "data"
      BY <1>7
    <2> QED
      BY <1>7, <2>1 DEF Clears, Puts, ToSet, ClearSteps, Realms
  <1> QED
    BY <1>1, <1>2, <1>3, <1>4, <1>5, <1>6, <1>7 DEF Clears, Puts

LEMMA InstallNotNone ==
    ASSUME NEW s, NEW c, NEW p, NEW f
    PROVE  [snap |-> s, clear |-> c, put |-> p, meta |-> f] # None
  BY DEF None

\* A step of an install that has not ended.
LEMMA InstallGoesOn ==
    ASSUME NEW lg \in Seq(Command), NEW m, NEW d, NEW b, NEW la, NEW isUp, NEW bd,
           NEW sl, NEW inst, NEW fz, NEW tn, NEW mx,
           NodeOK(lg, m, d, b, la, isUp, bd, sl, inst, fz, tn, mx), inst # None,
           NEW m2, StoreOK(m2, Len(lg)), NEW inst2, inst2 # None,
           InstallOK(lg, m2, b, la, isUp, inst2, fz, tn, mx)
    PROVE  NodeOK(lg, m2, m2, b, la, isUp, bd, sl, inst2, fz, tn, mx)
  <1>1. b = <<>>
    BY DEF InstallOK
  <1>2. ASSUME bd # None PROVE BuildOK(lg, b, la, bd, sl, inst2, fz, tn, mx)
    <2>1. BuildOK(lg, b, la, bd, sl, inst, fz, tn, mx)
      BY <1>2 DEF NodeOK
    <2> QED
      BY <2>1 DEF BuildOK, Clean
  <1> QED
    BY <1>1, <1>2 DEF NodeOK

\* One realm cleared (Phase 1).
LEMMA InstallClears ==
    ASSUME NEW lg \in Seq(Command), NEW m, NEW d, NEW b, NEW la, NEW isUp, NEW bd,
           NEW sl, NEW inst, NEW fz, NEW tn, NEW mx,
           NodeOK(lg, m, d, b, la, isUp, bd, sl, inst, fz, tn, mx), inst # None,
           inst.clear # <<>>, NEW m2, Replaced(m, Head(inst.clear), EmptyStore, m2),
           NEW inst2, inst2 = [inst EXCEPT !.clear = Tail(@)]
    PROVE  NodeOK(lg, m2, m2, b, la, isUp, bd, sl, inst2, fz, tn, mx)
  <1>1. PICK n : n = Len(lg)
    OBVIOUS
  <1>2. InstallOK(lg, d, b, la, isUp, inst, fz, tn, mx)
    BY DEF NodeOK
  <1>3. /\ inst = [snap |-> inst.snap, clear |-> inst.clear, put |-> inst.put,
                   meta |-> inst.meta]
        /\ inst.clear \in Clears /\ inst.put \in Puts /\ inst.meta \in BOOLEAN
        /\ SnapType(inst.snap, n) /\ SnapOK(lg, inst.snap) /\ inst.snap.upto <= fz
        /\ b = <<>> /\ (isUp => la < inst.snap.index)
        /\ ClearOK(lg, d, inst, fz, tn, mx)
    BY <1>1, <1>2 DEF InstallOK
  <1>4. /\ n \in Nat /\ fz \in Nat /\ StoreOK(m, n) /\ tn \in BOOLEAN /\ mx \in BOOLEAN
        /\ m = d
    BY <1>1, <1>2 DEF NodeOK, InstallOK
  <1>5. PICK realm : realm = Head(inst.clear)
    OBVIOUS
  <1>6. PICK rest : rest = Tail(inst.clear)
    OBVIOUS
  <1>7. ClearSteps(inst.clear, rest)
    BY <1>3, <1>6, ClearStep
  <1>8. /\ inst2.snap = inst.snap /\ inst2.clear = rest /\ inst2.put = inst.put
        /\ inst2.meta = inst.meta
        /\ inst2 = [snap |-> inst2.snap, clear |-> inst2.clear, put |-> inst2.put,
                    meta |-> inst2.meta]
        /\ inst2 # None
    <2>1. inst2 = [snap |-> inst.snap, clear |-> rest, put |-> inst.put,
                   meta |-> inst.meta]
      BY <1>3, <1>6
    <2>2. inst2 # None
      BY <2>1, InstallNotNone
    <2>3. /\ inst2.snap = inst.snap /\ inst2.clear = rest /\ inst2.put = inst.put
          /\ inst2.meta = inst.meta
      BY <1>3, <2>1
    <2> QED
      BY <2>1, <2>2, <2>3
  <1>9. StoreOK(m2, n)
    BY <1>4, EmptyIs, ReplaceKeeps
  <1>10. \A row \in Rows : m2[row] = IF RealmOf(row) = realm THEN Absent ELSE d[row]
    BY <1>4, <1>5, EmptyIs DEF Replaced
  <1>11. /\ inst.meta /\ inst.put = ListRealms(inst.snap.data)
         /\ \A row \in Rows : RealmOf(row) \notin ToSet(inst.clear) => d[row] = Absent
         /\ ~ mx => DataOK(lg, d, 0, fz, tn)
    BY <1>3 DEF ClearOK
  <1>12. \A row \in Rows : RealmOf(row) \notin ToSet(rest) => m2[row] = Absent
    BY <1>5, <1>7, <1>10, <1>11 DEF ClearSteps
  <1>13. ASSUME ~ mx PROVE DataOK(lg, m2, 0, fz, tn)
    <2>1. /\ PlainOK(lg, d[Plain], 0, fz)
          /\ ~ tn => CounterOK(lg, d[Counter], d[Sidecar], 0, fz)
      BY <1>11, <1>13 DEF DataOK
    <2>2. PlainOK(lg, Absent, 0, fz) /\ CounterOK(lg, Absent, Absent, 0, fz)
      BY <1>4, EmptyDataOK
    <2>3. m2[Plain] = d[Plain] \/ m2[Plain] = Absent
      BY <1>10, Different
    <2>4. \/ m2[Counter] = d[Counter] /\ m2[Sidecar] = d[Sidecar]
          \/ m2[Counter] = Absent /\ m2[Sidecar] = Absent
      <3>1. RealmOf(Counter) = RealmOf(Sidecar)
        BY RealmNames
      <3> QED
        BY <1>10, <3>1, Different
    <2> QED
      BY <2>1, <2>2, <2>3, <2>4 DEF DataOK
  <1>14. ASSUME rest # <<>> PROVE ClearOK(lg, m2, inst2, fz, tn, mx)
    BY <1>8, <1>11, <1>12, <1>13 DEF ClearOK
  <1>15. ASSUME rest = <<>> PROVE FillOK(m2, inst2)
    <2>1. ToSet(rest) = {}
      BY <1>15 DEF ToSet
    <2>2. \A row \in Rows : m2[row] = Absent
      BY <1>12, <2>1
    <2>3. SnapType(inst2.snap, n) /\ inst2.put = ListRealms(inst2.snap.data) /\ inst2.meta
      BY <1>3, <1>8, <1>11
    <2> QED
      BY <1>4, <2>2, <2>3, FillStarts
  <1>16. rest \in Clears
    BY <1>7 DEF ClearSteps
  <1>17. InstallOK(lg, m2, b, la, isUp, inst2, fz, tn, mx)
    BY <1>1, <1>3, <1>8, <1>14, <1>15, <1>16 DEF InstallOK
  <1>18. StoreOK(m2, Len(lg)) /\ inst2 # None
    BY <1>1, <1>8, <1>9
  <1>19. /\ lg \in Seq(Command) /\ inst # None
         /\ NodeOK(lg, m, d, b, la, isUp, bd, sl, inst, fz, tn, mx)
    OBVIOUS
  <1> QED
    BY ONLY <1>17, <1>18, <1>19, InstallGoesOn, Zenon

\* One realm filled (Phase 2).
LEMMA InstallPuts ==
    ASSUME NEW lg \in Seq(Command), NEW m, NEW d, NEW b, NEW la, NEW isUp, NEW bd,
           NEW sl, NEW inst, NEW fz, NEW tn, NEW mx,
           NodeOK(lg, m, d, b, la, isUp, bd, sl, inst, fz, tn, mx), inst # None,
           inst.clear = <<>>, inst.put # <<>>,
           NEW m2, Replaced(m, Head(inst.put), inst.snap.data, m2),
           NEW inst2, inst2 = [inst EXCEPT !.put = Tail(@)]
    PROVE  NodeOK(lg, m2, m2, b, la, isUp, bd, sl, inst2, fz, tn, mx)
  <1>1. PICK n : n = Len(lg)
    OBVIOUS
  <1>2. InstallOK(lg, d, b, la, isUp, inst, fz, tn, mx)
    BY DEF NodeOK
  <1>3. /\ inst = [snap |-> inst.snap, clear |-> inst.clear, put |-> inst.put,
                   meta |-> inst.meta]
        /\ inst.clear \in Clears /\ inst.put \in Puts /\ inst.meta \in BOOLEAN
        /\ SnapType(inst.snap, n) /\ SnapOK(lg, inst.snap) /\ inst.snap.upto <= fz
        /\ b = <<>> /\ (isUp => la < inst.snap.index)
        /\ FillOK(d, inst)
    BY <1>1, <1>2 DEF InstallOK
  <1>4. n \in Nat /\ StoreOK(m, n) /\ m = d
    BY <1>1, <1>2 DEF NodeOK, InstallOK
  <1>5. PICK realm : realm = Head(inst.put)
    OBVIOUS
  <1>6. PICK rest : rest = Tail(inst.put)
    OBVIOUS
  <1>7. ClearSteps(inst.put, rest)
    BY <1>3, <1>6, ClearStep DEF Clears
  <1>8. /\ inst2.snap = inst.snap /\ inst2.clear = inst.clear /\ inst2.put = rest
        /\ inst2.meta = inst.meta
        /\ inst2 = [snap |-> inst2.snap, clear |-> inst2.clear, put |-> inst2.put,
                    meta |-> inst2.meta]
        /\ inst2 # None
    <2>1. inst2 = [snap |-> inst.snap, clear |-> inst.clear, put |-> rest,
                   meta |-> inst.meta]
      BY <1>3, <1>6
    <2>2. inst2 # None
      BY <2>1, InstallNotNone
    <2>3. /\ inst2.snap = inst.snap /\ inst2.clear = inst.clear /\ inst2.put = rest
          /\ inst2.meta = inst.meta
      BY <1>3, <2>1
    <2> QED
      BY <2>1, <2>2, <2>3
  <1>9. StoreOK(m2, n)
    <2>1. StoreOK(inst.snap.data, n)
      BY <1>3 DEF SnapType
    <2> QED
      BY <1>4, <2>1, ReplaceKeeps
  <1>10. \A row \in Rows : m2[row] = IF RealmOf(row) = realm THEN inst.snap.data[row]
                                     ELSE d[row]
    BY <1>4, <1>5 DEF Replaced
  <1>11. /\ \A row \in Rows : row # "meta" =>
               d[row] = IF RealmOf(row) \in ToSet(inst.put) THEN Absent
                        ELSE inst.snap.data[row]
         /\ d["meta"] = IF inst.meta THEN Absent ELSE inst.snap.index
         /\ ~ inst.meta => inst.put = <<>>
    BY <1>3 DEF FillOK
  <1>12. inst.meta /\ d["meta"] = Absent
    BY <1>11
  <1>13. /\ \A x : x \in ToSet(inst.put) <=> (x = realm \/ x \in ToSet(rest))
         /\ realm \notin ToSet(rest) /\ rest \in Puts /\ realm \in {"acct", "data"}
    BY <1>3, <1>5, <1>7 DEF ClearSteps
  <1>14. FillOK(m2, inst2)
    <2>1. ASSUME NEW row \in Rows, row # "meta"
          PROVE  m2[row] = IF RealmOf(row) \in ToSet(rest) THEN Absent
                           ELSE inst.snap.data[row]
      <3>1. CASE RealmOf(row) = realm
        BY <1>10, <1>13, <3>1
      <3>2. CASE RealmOf(row) # realm
        BY <1>10, <1>11, <1>13, <2>1, <3>2
      <3> QED
        BY <3>1, <3>2
    <2>2. m2["meta"] = Absent
      <3>1. "meta" \in Rows /\ RealmOf("meta") = "meta"
        BY RealmNames DEF Rows, Realms
      <3> QED
        BY <1>10, <1>12, <1>13, <3>1
    <2> QED
      BY <1>8, <1>12, <2>1, <2>2 DEF FillOK
  <1>15. InstallOK(lg, m2, b, la, isUp, inst2, fz, tn, mx)
    BY <1>1, <1>3, <1>8, <1>13, <1>14 DEF InstallOK
  <1>16. StoreOK(m2, Len(lg)) /\ inst2 # None
    BY <1>1, <1>8, <1>9
  <1>17. /\ lg \in Seq(Command) /\ inst # None
         /\ NodeOK(lg, m, d, b, la, isUp, bd, sl, inst, fz, tn, mx)
    OBVIOUS
  <1> QED
    BY ONLY <1>15, <1>16, <1>17, InstallGoesOn, Zenon

\* The applied-state rows written last.
LEMMA InstallMetas ==
    ASSUME NEW lg \in Seq(Command), NEW m, NEW d, NEW b, NEW la, NEW isUp, NEW bd,
           NEW sl, NEW inst, NEW fz, NEW tn, NEW mx,
           NodeOK(lg, m, d, b, la, isUp, bd, sl, inst, fz, tn, mx), inst # None,
           inst.clear = <<>>, inst.put = <<>>, inst.meta,
           NEW m2, Replaced(m, "meta", [EmptyStore EXCEPT !["meta"] = inst.snap.index], m2),
           NEW inst2, inst2 = [inst EXCEPT !.meta = FALSE]
    PROVE  NodeOK(lg, m2, m2, b, la, isUp, bd, sl, inst2, fz, tn, mx)
  <1>1. PICK n : n = Len(lg)
    OBVIOUS
  <1>2. InstallOK(lg, d, b, la, isUp, inst, fz, tn, mx)
    BY DEF NodeOK
  <1>3. /\ inst = [snap |-> inst.snap, clear |-> inst.clear, put |-> inst.put,
                   meta |-> inst.meta]
        /\ inst.clear \in Clears /\ inst.put \in Puts
        /\ SnapType(inst.snap, n) /\ SnapOK(lg, inst.snap) /\ inst.snap.upto <= fz
        /\ b = <<>> /\ (isUp => la < inst.snap.index)
        /\ FillOK(d, inst)
    BY <1>1, <1>2 DEF InstallOK
  <1>4. n \in Nat /\ StoreOK(m, n) /\ m = d
    BY <1>1, <1>2 DEF NodeOK, InstallOK
  <1>5. /\ inst2.snap = inst.snap /\ inst2.clear = inst.clear /\ inst2.put = inst.put
        /\ inst2.meta = FALSE
        /\ inst2 = [snap |-> inst2.snap, clear |-> inst2.clear, put |-> inst2.put,
                    meta |-> inst2.meta]
        /\ inst2 # None
    <2>1. inst2 = [snap |-> inst.snap, clear |-> inst.clear, put |-> inst.put,
                   meta |-> FALSE]
      BY <1>3
    <2>2. inst2 # None
      BY <2>1, InstallNotNone
    <2>3. /\ inst2.snap = inst.snap /\ inst2.clear = inst.clear /\ inst2.put = inst.put
          /\ inst2.meta = FALSE
      BY <1>3, <2>1
    <2> QED
      BY <2>1, <2>2, <2>3
  <1>6. PICK i : i = inst.snap.index
    OBVIOUS
  <1>7. i \in 0..n
    BY <1>3, <1>4, <1>6 DEF SnapType
  <1>8. "meta" \in Rows /\ "meta" \in Realms
    BY DEF Rows, Realms
  <1>9. \A row \in Rows : m2[row] = IF row = "meta" THEN i ELSE d[row]
    <2>1. PICK e : e = [EmptyStore EXCEPT !["meta"] = i]
      OBVIOUS
    <2>2. e["meta"] = i
      BY <1>8, <2>1 DEF EmptyStore
    <2>3. \A row \in Rows : RealmOf(row) = "meta" <=> row = "meta"
      BY RealmNames
    <2> QED
      BY <1>4, <1>6, <2>1, <2>2, <2>3 DEF Replaced
  <1>10. StoreOK(m2, n)
    <2>1. m2 = [row \in Rows |-> m2[row]]
      BY DEF Replaced
    <2>2. i \in RowValue("meta", n)
      BY <1>4, <1>7, <1>8, ValueOf
    <2> QED
      BY <1>4, <1>9, <2>1, <2>2 DEF StoreOK
  <1>11. FillOK(m2, inst2)
    BY <1>3, <1>5, <1>6, <1>8, <1>9 DEF FillOK
  <1>12. InstallOK(lg, m2, b, la, isUp, inst2, fz, tn, mx)
    BY <1>1, <1>3, <1>5, <1>11 DEF InstallOK
  <1>13. StoreOK(m2, Len(lg)) /\ inst2 # None
    BY <1>1, <1>5, <1>10
  <1>14. /\ lg \in Seq(Command) /\ inst # None
         /\ NodeOK(lg, m, d, b, la, isUp, bd, sl, inst, fz, tn, mx)
    OBVIOUS
  <1> QED
    BY ONLY <1>12, <1>13, <1>14, InstallGoesOn, Zenon

\* A store being filled has applied nothing until its meta rows are written.
LEMMA FilledLoad ==
    ASSUME NEW len \in Nat, NEW d, NEW inst, SnapType(inst.snap, len), FillOK(d, inst),
           inst.meta \in BOOLEAN
    PROVE  LoadAppliedState(d) = IF inst.meta THEN 0 ELSE inst.snap.index
  <1>1. "meta" \in Realms /\ \A r \in Realms : r \in Rows
    BY DEF Realms, Rows
  <1>2. \A r \in Realms : r # "meta" => d[r] = Absent
    BY <1>1 DEF FillOK, SnapType
  <1>3. PICK i : i = inst.snap.index
    OBVIOUS
  <1>4. i \in Nat
    BY <1>3 DEF SnapType
  <1>5. \A r \in Realms : r # "meta" => Decoded(d[r]) = 0
    BY <1>2 DEF Decoded
  <1>6. CASE inst.meta
    <2>1. Decoded(d["meta"]) = 0
      BY <1>6 DEF FillOK, Decoded
    <2>2. \A r \in Realms : Decoded(d[r]) = 0
      BY <1>5, <2>1
    <2>3. LoadAppliedState(d) = 0
      <3>1. \A r \in Realms : Decoded(d[r]) \in Nat /\ Decoded(d[r]) <= 0
        BY <2>2
      <3>2. \E r \in Realms : Decoded(d[r]) = 0
        BY <1>1, <2>2
      <3> QED
        BY <3>1, <3>2, LoadOf
    <2> QED
      BY <1>6, <2>3
  <1>7. CASE ~ inst.meta
    <2>1. Decoded(d["meta"]) = i
      BY <1>3, <1>4, <1>7, AbsentIs DEF FillOK, Decoded
    <2>2. LoadAppliedState(d) = i
      <3>1. \A r \in Realms : Decoded(d[r]) \in Nat /\ Decoded(d[r]) <= i
        BY <1>4, <1>5, <2>1
      <3>2. \E r \in Realms : Decoded(d[r]) = i
        BY <1>1, <2>1
      <3> QED
        BY <1>4, <3>1, <3>2, LoadOf
    <2> QED
      BY <1>3, <1>7, <2>2
  <1> QED
    BY <1>6, <1>7

LEMMA DataSame ==
    ASSUME NEW lg, NEW rows, NEW rows2, NEW j, NEW u, NEW tn, rows[Plain] = rows2[Plain],
           rows[Counter] = rows2[Counter], rows[Sidecar] = rows2[Sidecar],
           DataOK(lg, rows, j, u, tn)
    PROVE  DataOK(lg, rows2, j, u, tn)
  BY DEF DataOK

\* An installed snapshot's rows are good from its index to where its scan ended.
LEMMA InstallDones ==
    ASSUME NEW lg \in Seq(Command), NEW m, NEW d, NEW b, NEW la, NEW isUp, NEW bd,
           NEW sl, NEW inst, NEW fz, NEW tn, NEW mx,
           NodeOK(lg, m, d, b, la, isUp, bd, sl, inst, fz, tn, mx), inst # None,
           isUp, ~ inst.meta, NEW snap, snap = inst.snap
    PROVE  NodeOK(lg, m, d, b, snap.index, isUp, bd, SlotOffer(sl, snap), None,
                  snap.upto, snap.torn, snap.mixed)
  <1>1. PICK n : n = Len(lg)
    OBVIOUS
  <1>2. InstallOK(lg, d, b, la, isUp, inst, fz, tn, mx)
    BY DEF NodeOK
  <1>3. inst.clear = <<>>
    BY <1>2 DEF InstallOK, ClearOK
  <1>4. /\ inst.meta \in BOOLEAN /\ SnapType(snap, n) /\ SnapOK(lg, snap)
        /\ b = <<>> /\ la < snap.index /\ FillOK(d, inst)
    BY <1>1, <1>2, <1>3 DEF InstallOK
  <1>5. n \in Nat /\ la \in Nat /\ m = d /\ StoreOK(d, n)
    BY <1>1, <1>4 DEF NodeOK
  <1>6. PICK i : i = snap.index
    OBVIOUS
  <1>7. PICK u : u = snap.upto
    OBVIOUS
  <1>8. i \in 1..n /\ u \in i..n /\ snap.torn \in BOOLEAN /\ snap.mixed \in BOOLEAN
    BY <1>4, <1>6, <1>7 DEF SnapType
  <1>9. i \in Nat /\ u \in Nat /\ i \in 0..n /\ u \in 0..n /\ la < i /\ Reach(i, u) = u
    BY <1>4, <1>5, <1>6, <1>8 DEF Reach
  <1>10. LoadAppliedState(d) = i
    BY <1>4, <1>5, <1>6, FilledLoad
  <1>11. /\ d[Plain] = snap.data[Plain] /\ d[Counter] = snap.data[Counter]
         /\ d[Sidecar] = snap.data[Sidecar]
    <2>1. ToSet(inst.put) = {}
      BY <1>4 DEF FillOK, ToSet
    <2>2. Plain # "meta" /\ Counter # "meta" /\ Sidecar # "meta"
      BY DEF Plain, Counter, Sidecar
    <2> QED
      BY <1>4, <2>1, <2>2, Different DEF FillOK
  <1>12. ~ snap.mixed => DataOK(lg, d, i, Reach(i, u), snap.torn)
    <2>1. ~ snap.mixed => DataOK(lg, snap.data, i, u, snap.torn)
      BY <1>4, <1>6, <1>7 DEF SnapOK
    <2> QED
      BY <1>9, <1>11, <2>1, DataSame
  <1>13. SlotOffer(sl, snap) = snap
    <2>1. CASE sl = None
      BY <2>1 DEF SlotOffer
    <2>2. CASE sl # None
      <3>1. PICK k : k = sl.index
        OBVIOUS
      <3>2. k <= la /\ k \in Nat
        BY <1>1, <2>2, <3>1 DEF NodeOK, SnapType
      <3>3. k <= i
        BY <1>5, <1>9, <3>2
      <3> QED
        BY <1>6, <2>2, <3>1, <3>3 DEF SlotOffer
    <2> QED
      BY <2>1, <2>2
  <1>14. ASSUME bd # None
         PROVE  BuildOK(lg, b, i, bd, snap, None, u, snap.torn, snap.mixed)
    <2>1. BuildOK(lg, b, la, bd, sl, inst, fz, tn, mx)
      BY <1>14 DEF NodeOK
    <2>2. BuildType(bd, la, n)
      BY <1>1, <2>1 DEF BuildOK
    <2>3. n <= n /\ la <= i
      BY <1>5, <1>9
    <2>4. BuildType(bd, i, n)
      BY <1>5, <1>9, <2>2, <2>3, BuildWider
    <2>5. PICK k : k = bd.index
      OBVIOUS
    <2>6. k \in 1..la
      BY <2>2, <2>5 DEF BuildType
    <2>7. ~ (i <= k)
      BY <1>5, <1>9, <2>6
    <2>8. snap # None
      <3>1. snap = [index |-> snap.index, data |-> snap.data, upto |-> snap.upto,
                    torn |-> snap.torn, mixed |-> snap.mixed]
        BY <1>4 DEF SnapType
      <3> QED
        BY <3>1 DEF None
    <2>9. ~ Clean(bd, snap, None)
      BY <1>6, <2>5, <2>7, <2>8 DEF Clean
    <2> QED
      BY <1>1, <2>4, <2>9 DEF BuildOK
  <1>15. i <= i
    BY <1>9
  <1>16. NodeOK(lg, m, d, b, i, isUp, bd, snap, None, u, snap.torn, snap.mixed)
    BY <1>1, <1>4, <1>5, <1>6, <1>8, <1>9, <1>10, <1>12, <1>14, <1>15 DEF NodeOK
  <1> QED
    BY <1>6, <1>7, <1>13, <1>16

-----------------------------------------------------------------------------
(* Crash and restart.                                                      *)

\* A crash leaves a node the rows on disk and its restore marker.
LEMMA Crashes ==
    ASSUME NEW lg \in Seq(Command), NEW m, NEW d, NEW b, NEW la, NEW isUp, NEW bd,
           NEW sl, NEW inst, NEW fz, NEW tn, NEW mx,
           NodeOK(lg, m, d, b, la, isUp, bd, sl, inst, fz, tn, mx), isUp,
           NEW kept \in {d, StoreAll(m, b)}
    PROVE  NodeOK(lg, kept, kept, <<>>, la, FALSE, None, None, inst, fz, tn, mx)
  <1>1. PICK n : n = Len(lg)
    OBVIOUS
  <1>2. /\ n \in Nat /\ la \in Nat /\ StoreOK(m, n) /\ StoreOK(d, n) /\ fz \in 0..n
        /\ tn \in BOOLEAN
    BY <1>1 DEF NodeOK
  <1>3. CASE kept = d
    <2>1. inst # None => InstallOK(lg, d, <<>>, la, FALSE, inst, fz, tn, mx)
      <3>1. inst # None => InstallOK(lg, d, b, la, isUp, inst, fz, tn, mx)
        BY DEF NodeOK
      <3> QED
        BY <3>1 DEF InstallOK
    <2> QED
      BY <1>1, <1>2, <1>3, <2>1 DEF NodeOK
  <1>4. CASE b = <<>>
    <2>1. m = d
      BY <1>4 DEF NodeOK
    <2>2. StoreAll(m, b) = d
      BY <1>2, <1>4, <2>1, NothingStored
    <2> QED
      BY <1>3, <2>2
  <1>5. CASE b # <<>> /\ kept = StoreAll(m, b)
    <2>1. FlightOK(lg, m, d, b, la) /\ inst = None /\ la = LoadAppliedState(d)
      BY <1>5 DEF NodeOK
    <2>2. /\ StoreOK(kept, n) /\ LoadAppliedState(kept) = la + 1
          /\ DataOK(lg, d, la, Reach(la, fz), tn) =>
                DataOK(lg, kept, la + 1, Reach(la + 1, fz), tn)
      BY <1>1, <1>2, <1>5, <2>1, FlightLands
    <2>3. ASSUME ~ mx
          PROVE  DataOK(lg, kept, LoadAppliedState(kept),
                        Reach(LoadAppliedState(kept), fz), tn)
      <3>1. DataOK(lg, d, LoadAppliedState(d), Reach(LoadAppliedState(d), fz), tn)
        BY <2>1, <2>3 DEF NodeOK
      <3>2. DataOK(lg, d, la, Reach(la, fz), tn)
        BY <2>1, <3>1
      <3> QED
        BY <2>2, <3>2
    <2> QED
      BY <1>1, <2>1, <2>2, <2>3 DEF NodeOK
  <1> QED
    BY <1>3, <1>4, <1>5

\* A restart without a marker reads the applied index off the rows.
LEMMA Restarts ==
    ASSUME NEW lg \in Seq(Command), NEW m, NEW d, NEW b, NEW la, NEW bd,
           NEW sl, NEW inst, NEW fz, NEW tn, NEW mx,
           NodeOK(lg, m, d, b, la, FALSE, bd, sl, inst, fz, tn, mx), inst = None
    PROVE  NodeOK(lg, m, d, b, LoadAppliedState(d), TRUE, bd, sl, inst, fz, tn, mx)
  <1>1. Len(lg) \in Nat /\ StoreOK(d, Len(lg))
    BY DEF NodeOK
  <1>2. LoadAppliedState(d) \in 0..Len(lg)
    BY <1>1, LoadIs
  <1> QED
    BY <1>2 DEF NodeOK

\* What deleting the marker makes of the history.
Marked(inst, d, tn, mx, tn2, mx2) ==
    /\ tn2 \in BOOLEAN /\ mx2 \in BOOLEAN
    /\ tn \/ inst.snap.torn => tn2
    /\ mx \/ (IF inst.clear = <<>> THEN inst.snap.mixed
              ELSE LoadAppliedState(d) > 0) => mx2

\* A node whose marker the operator deleted keeps its part of the invariant.
LEMMA MarkerDeleted ==
    ASSUME NEW lg \in Seq(Command), NEW m, NEW d, NEW b, NEW la, NEW bd,
           NEW sl, NEW inst, NEW fz, NEW tn, NEW mx,
           NodeOK(lg, m, d, b, la, FALSE, bd, sl, inst, fz, tn, mx), inst # None,
           NEW tn2, NEW mx2, Marked(inst, d, tn, mx, tn2, mx2)
    PROVE  NodeOK(lg, m, d, b, la, FALSE, bd, sl, None, fz, tn2, mx2)
  <1>0. /\ tn2 \in BOOLEAN /\ mx2 \in BOOLEAN /\ (tn \/ inst.snap.torn => tn2)
        /\ (mx \/ (IF inst.clear = <<>> THEN inst.snap.mixed
                   ELSE LoadAppliedState(d) > 0) => mx2)
    BY DEF Marked
  <1>1. PICK n : n = Len(lg)
    OBVIOUS
  <1>2. /\ n \in Nat /\ fz \in Nat /\ StoreOK(d, n) /\ tn \in BOOLEAN /\ mx \in BOOLEAN
    BY <1>1 DEF NodeOK
  <1>3. InstallOK(lg, d, b, la, FALSE, inst, fz, tn, mx)
    BY DEF NodeOK
  <1>4. /\ SnapType(inst.snap, n) /\ SnapOK(lg, inst.snap) /\ inst.snap.upto <= fz
        /\ inst.meta \in BOOLEAN
        /\ inst.clear # <<>> => ClearOK(lg, d, inst, fz, tn, mx)
        /\ inst.clear = <<>> => FillOK(d, inst)
    BY <1>1, <1>3 DEF InstallOK
  <1>5. PICK a : a = LoadAppliedState(d)
    OBVIOUS
  <1>6. a \in Nat
    BY <1>2, <1>5, LoadIs
  <1>7. ASSUME ~ mx2, inst.clear # <<>> PROVE DataOK(lg, d, a, Reach(a, fz), tn2)
    <2>1. a = 0 /\ ~ mx
      BY <1>0, <1>2, <1>5, <1>6, <1>7
    <2>2. DataOK(lg, d, 0, fz, tn)
      BY <1>4, <1>7, <2>1 DEF ClearOK
    <2>3. Reach(a, fz) = fz /\ 0 \in Nat /\ 0 <= 0 /\ fz <= fz /\ (tn => tn2)
      BY <1>0, <1>2, <2>1 DEF Reach
    <2> QED
      BY <1>2, <2>1, <2>2, <2>3, DataWiden
  <1>8. ASSUME ~ mx2, inst.clear = <<>> PROVE DataOK(lg, d, a, Reach(a, fz), tn2)
    <2>1. PICK i : i = inst.snap.index
      OBVIOUS
    <2>2. PICK u : u = inst.snap.upto
      OBVIOUS
    <2>3. i \in Nat /\ u \in Nat /\ i <= u /\ u <= fz
      BY <1>2, <1>4, <2>1, <2>2 DEF SnapType
    <2>4. PICK s : s = inst.snap.data
      OBVIOUS
    <2>5. /\ inst.snap.torn \in BOOLEAN /\ (inst.snap.torn => tn2)
          /\ DataOK(lg, s, i, u, inst.snap.torn)
      BY <1>0, <1>4, <1>8, <2>1, <2>2, <2>4 DEF SnapOK, SnapType
    <2>6. /\ PlainOK(lg, s[Plain], i, u)
          /\ ~ tn2 => CounterOK(lg, s[Counter], s[Sidecar], i, u)
      BY <2>5 DEF DataOK
    <2>7. a = IF inst.meta THEN 0 ELSE i
      BY <1>2, <1>4, <1>5, <1>8, <2>1, FilledLoad
    <2>8. a <= i /\ u <= Reach(a, fz) /\ Reach(a, fz) \in Nat
      BY <1>2, <2>3, <2>7 DEF Reach
    <2>9. PICK r : r = Reach(a, fz)
      OBVIOUS
    <2>10. /\ PlainOK(lg, s[Plain], a, r)
           /\ ~ tn2 => CounterOK(lg, s[Counter], s[Sidecar], a, r)
      BY <1>6, <2>3, <2>6, <2>8, <2>9, PlainWiden, CounterWiden
    <2>11. Plain # "meta" /\ Counter # "meta" /\ Sidecar # "meta"
      BY DEF Plain, Counter, Sidecar
    <2>12. /\ d[Plain] = IF "data" \in ToSet(inst.put) THEN Absent ELSE s[Plain]
           /\ d[Counter] = IF "acct" \in ToSet(inst.put) THEN Absent ELSE s[Counter]
           /\ d[Sidecar] = IF "acct" \in ToSet(inst.put) THEN Absent ELSE s[Sidecar]
      BY <1>4, <1>8, <2>4, <2>11, Different, RealmNames DEF FillOK
    <2>13. ~ inst.meta => ToSet(inst.put) = {}
      BY <1>4, <1>8 DEF FillOK, ToSet
    <2>14. CASE inst.meta
      <3>1. a = 0 /\ r \in Nat
        BY <2>7, <2>8, <2>9, <2>14
      <3>2. PlainOK(lg, Absent, a, r) /\ CounterOK(lg, Absent, Absent, a, r)
        BY <3>1, EmptyDataOK
      <3> QED
        BY <2>9, <2>10, <2>12, <3>2 DEF DataOK
    <2>15. CASE ~ inst.meta
      <3>1. d[Plain] = s[Plain] /\ d[Counter] = s[Counter] /\ d[Sidecar] = s[Sidecar]
        BY <2>12, <2>13, <2>15
      <3> QED
        BY <2>9, <2>10, <3>1 DEF DataOK
    <2> QED
      BY <2>14, <2>15
  <1>9. ~ mx2 => DataOK(lg, d, LoadAppliedState(d), Reach(LoadAppliedState(d), fz), tn2)
    BY <1>5, <1>7, <1>8
  <1>10. bd = None /\ sl = None
    BY DEF NodeOK
  <1> QED
    BY <1>0, <1>9, <1>10 DEF NodeOK

-----------------------------------------------------------------------------
(* The invariant is inductive.                                             *)

\* Nothing of node k changes, the log apart.
Same(k) ==
    /\ mem'[k] = mem[k] /\ disk'[k] = disk[k] /\ batch'[k] = batch[k]
    /\ last'[k] = last[k] /\ build'[k] = build[k] /\ slot'[k] = slot[k]
    /\ install'[k] = install[k] /\ fuzz'[k] = fuzz[k]
    /\ (k \in up') = (k \in up) /\ (k \in torn') = (k \in torn)
    /\ (k \in mixed') = (k \in mixed)

\* A node that a step leaves as it was is as sound as it was.
LEMMA Elsewhere ==
    ASSUME NEW k \in Node, NodeSound(k), Same(k), log' = log
    PROVE  NodeSound(k)'
  BY DEF NodeSound, Same

LEMMA LongerLog ==
    ASSUME NEW k \in Node, log \in Seq(Command), NEW c \in Command, NodeSound(k)
    PROVE  NodeOK(Append(log, c), mem[k], disk[k], batch[k], last[k], k \in up,
                  build[k], slot[k], install[k], fuzz[k], k \in torn, k \in mixed)
  BY LogGrows, Zenon DEF NodeSound

\* ApplyStart preserves the invariant.
LEMMA ApplyStartKeeps ==
    ASSUME Inv, NEW n \in Node, ApplyStart(n)
    PROVE  Inv'
  <1>1. /\ log \in Seq(Command) /\ PerNode(batch) /\ \A k \in Node : NodeSound(k)
        /\ PerNode(mem) /\ PerNode(disk) /\ PerNode(last)
        /\ PerNode(build) /\ PerNode(slot) /\ PerNode(install) /\ PerNode(fuzz)
        /\ up \subseteq Node
    BY DEF Inv
  <1>2. PICK b2 : b2 = Batch(mem[n], log'[last[n] + 1], last[n] + 1)
    OBVIOUS
  <1>3. PerNode(batch') /\ batch'[n] = b2 /\ \A k \in Node : k # n => batch'[k] = batch[k]
    <2>1. batch' = [batch EXCEPT ![n] = b2]
      BY <1>2 DEF ApplyStart
    <2> QED
      BY <1>1, <2>1 DEF PerNode
  <1>4. /\ mem' = mem /\ disk' = disk /\ last' = last /\ up' = up /\ build' = build
        /\ slot' = slot /\ install' = install /\ fuzz' = fuzz /\ torn' = torn
        /\ mixed' = mixed
        /\ n \in up /\ batch[n] = <<>> /\ install[n] = None
        /\ \/ last[n] < Len(log) /\ log' = log
           \/ last[n] = Len(log) /\ \E c \in Command : log' = Append(log, c)
    BY DEF ApplyStart, Idle, history, counts
  <1>5. /\ log' \in Seq(Command) /\ last[n] + 1 <= Len(log')
        /\ \A k \in Node :
              NodeOK(log', mem[k], disk[k], batch[k], last[k], k \in up, build[k],
                     slot[k], install[k], fuzz[k], k \in torn, k \in mixed)
    <2>1. last[n] \in Nat /\ Len(log) \in Nat
      <3>1. last[n] \in 0..Len(log)
        BY <1>1 DEF NodeSound, NodeOK
      <3> QED
        BY <1>1, <3>1
    <2>2. CASE last[n] < Len(log) /\ log' = log
      BY <1>1, <2>1, <2>2 DEF NodeSound
    <2>3. CASE last[n] = Len(log) /\ \E c \in Command : log' = Append(log, c)
      <3>1. PICK c \in Command : log' = Append(log, c)
        BY <2>3
      <3>2. log' \in Seq(Command) /\ Len(log') = Len(log) + 1
        BY <1>1, <3>1
      <3>3. last[n] + 1 <= Len(log')
        BY <2>1, <2>3, <3>2
      <3> QED
        BY <1>1, <3>1, <3>2, <3>3, LongerLog
    <2> QED
      BY <1>4, <2>2, <2>3
  <1>6. NodeOK(log', mem[n], disk[n], b2, last[n], n \in up, build[n],
               slot[n], install[n], fuzz[n], n \in torn, n \in mixed)
    BY <1>2, <1>4, <1>5, ApplyStarts, Zenon
  <1>7. ASSUME NEW k \in Node PROVE NodeSound(k)'
    <2>1. CASE k = n
      BY <1>3, <1>4, <1>6, <2>1 DEF NodeSound
    <2>2. CASE k # n
      BY <1>3, <1>4, <1>5, <2>2 DEF NodeSound
    <2> QED
      BY <2>1, <2>2
  <1> QED
    BY <1>1, <1>3, <1>4, <1>5, <1>7 DEF Inv

\* ApplyRow preserves the invariant.
LEMMA ApplyRowKeeps ==
    ASSUME Inv, NEW n \in Node, ApplyRow(n)
    PROVE  Inv'
  <1>1. /\ log \in Seq(Command) /\ PerNode(batch) /\ \A k \in Node : NodeSound(k)
        /\ PerNode(mem) /\ PerNode(disk) /\ PerNode(last)
        /\ PerNode(build) /\ PerNode(slot) /\ PerNode(install) /\ PerNode(fuzz)
        /\ up \subseteq Node
    BY DEF Inv
  <1>2. PICK r : r = IF build[n] = None THEN Len(batch[n]) ELSE 1
    OBVIOUS
  <1>3. PICK m2 : m2 = StoreAll(mem[n], SubSeq(batch[n], 1, r))
    OBVIOUS
  <1>4. PICK b2 : b2 = SubSeq(batch[n], r + 1, Len(batch[n]))
    OBVIOUS
  <1>5. /\ n \in up /\ batch[n] # <<>>
        /\ log' = log /\ up' = up /\ build' = build /\ slot' = slot
        /\ install' = install /\ fuzz' = fuzz /\ torn' = torn /\ mixed' = mixed
        /\ mem' = [mem EXCEPT ![n] = m2] /\ batch' = [batch EXCEPT ![n] = b2]
    BY <1>2, <1>3, <1>4 DEF ApplyRow, history, counts
  <1>6. /\ PerNode(mem') /\ mem'[n] = m2 /\ \A k \in Node : k # n => mem'[k] = mem[k]
        /\ PerNode(batch') /\ batch'[n] = b2
        /\ \A k \in Node : k # n => batch'[k] = batch[k]
    BY <1>1, <1>5 DEF PerNode
  <1>7. /\ PerNode(disk') /\ PerNode(last')
        /\ disk'[n] = IF b2 = <<>> THEN m2 ELSE disk[n]
        /\ last'[n] = IF b2 = <<>> THEN last[n] + 1 ELSE last[n]
        /\ \A k \in Node : k # n => disk'[k] = disk[k] /\ last'[k] = last[k]
    <2>1. IF b2 = <<>> THEN /\ disk' = [disk EXCEPT ![n] = m2]
                            /\ last' = [last EXCEPT ![n] = last[n] + 1]
          ELSE disk' = disk /\ last' = last
      BY <1>6 DEF ApplyRow
    <2> QED
      BY <1>1, <2>1 DEF PerNode
  <1>8. NodeOK(log, mem[n], disk[n], batch[n], last[n], n \in up, build[n],
               slot[n], install[n], fuzz[n], n \in torn, n \in mixed)
    BY <1>1 DEF NodeSound
  <1>9. r \in 1..Len(batch[n])
    <2>1. PICK b : b = batch[n]
      OBVIOUS
    <2>2. b \in Seq(AnyRow) /\ b # <<>>
      BY <1>5, <1>8, <2>1 DEF NodeOK, FlightOK, RowsOK
    <2>3. Len(b) \in Nat /\ Len(b) > 0
      BY <2>2
    <2> QED
      BY <1>2, <2>1, <2>3
  <1>10. /\ b2 # <<>> =>
               NodeOK(log, m2, disk[n], b2, last[n], n \in up, build[n], slot[n],
                      install[n], fuzz[n], n \in torn, n \in mixed)
         /\ b2 = <<>> =>
               NodeOK(log, m2, m2, b2, last[n] + 1, n \in up, build[n], slot[n],
                      install[n], fuzz[n], n \in torn, n \in mixed)
    BY <1>1, <1>3, <1>4, <1>5, <1>8, <1>9, ApplyRows, Zenon
  <1>11. NodeSound(n)'
    BY <1>5, <1>6, <1>7, <1>10 DEF NodeSound
  <1>12. ASSUME NEW k \in Node, k # n PROVE NodeSound(k)'
    BY <1>1, <1>5, <1>6, <1>7, <1>12, Elsewhere DEF Same
  <1> QED
    BY <1>1, <1>5, <1>6, <1>7, <1>11, <1>12 DEF Inv

\* BuildStart preserves the invariant.
LEMMA BuildStartKeeps ==
    ASSUME Inv, NEW n \in Node, BuildStart(n)
    PROVE  Inv'
  <1>1. /\ log \in Seq(Command) /\ PerNode(batch) /\ \A k \in Node : NodeSound(k)
        /\ PerNode(mem) /\ PerNode(disk) /\ PerNode(last)
        /\ PerNode(build) /\ PerNode(slot) /\ PerNode(install) /\ PerNode(fuzz)
        /\ up \subseteq Node
    BY DEF Inv
  <1>2. PICK bd2 : Begun(bd2, last[n], mem[n], n \in torn)
    BY DEF BuildStart, Begun
  <1>3. /\ n \in up /\ batch[n] = <<>> /\ install[n] = None
        /\ log' = log /\ mem' = mem /\ disk' = disk /\ batch' = batch /\ last' = last
        /\ up' = up /\ slot' = slot /\ install' = install /\ fuzz' = fuzz
        /\ torn' = torn /\ mixed' = mixed
        /\ build' = [build EXCEPT ![n] = bd2]
    BY <1>2 DEF BuildStart, Begun, Idle, history
  <1>4. /\ PerNode(build') /\ build'[n] = bd2
        /\ \A k \in Node : k # n => build'[k] = build[k]
    BY <1>1, <1>3 DEF PerNode
  <1>5. NodeOK(log, mem[n], disk[n], batch[n], last[n], n \in up, build[n],
               slot[n], install[n], fuzz[n], n \in torn, n \in mixed)
    BY <1>1 DEF NodeSound
  <1>6. NodeOK(log, mem[n], disk[n], batch[n], last[n], n \in up, bd2,
               slot[n], install[n], fuzz[n], n \in torn, n \in mixed)
    BY <1>1, <1>2, <1>3, <1>5, BuildStarts, Zenon
  <1>7. NodeSound(n)'
    BY <1>3, <1>4, <1>6 DEF NodeSound
  <1>8. ASSUME NEW k \in Node, k # n PROVE NodeSound(k)'
    BY <1>1, <1>3, <1>4, <1>8, Elsewhere DEF Same
  <1> QED
    BY <1>1, <1>3, <1>4, <1>7, <1>8 DEF Inv

\* ScanRow preserves the invariant.
LEMMA ScanRowKeeps ==
    ASSUME Inv, NEW n \in Node, ScanRow(n)
    PROVE  Inv'
  <1>1. /\ log \in Seq(Command) /\ PerNode(batch) /\ \A k \in Node : NodeSound(k)
        /\ PerNode(mem) /\ PerNode(disk) /\ PerNode(last)
        /\ PerNode(build) /\ PerNode(slot) /\ PerNode(install) /\ PerNode(fuzz)
        /\ up \subseteq Node
    BY DEF Inv
  <1>2. PICK bd2 : Scanned(build[n], bd2, mem[n], batch[n])
    BY DEF Scanned
  <1>3. HalfWritten(n) <=> Half(mem[n], batch[n])
    BY DEF HalfWritten, Half
  <1>4. /\ n \in up /\ build[n] # None /\ build[n].todo # <<>>
        /\ log' = log /\ mem' = mem /\ disk' = disk /\ batch' = batch /\ last' = last
        /\ up' = up /\ slot' = slot /\ install' = install /\ fuzz' = fuzz
        /\ torn' = torn /\ mixed' = mixed
        /\ build' = [build EXCEPT ![n] = bd2]
    BY <1>2, <1>3 DEF ScanRow, Scanned, history, counts
  <1>5. /\ PerNode(build') /\ build'[n] = bd2
        /\ \A k \in Node : k # n => build'[k] = build[k]
    BY <1>1, <1>4 DEF PerNode
  <1>6. NodeOK(log, mem[n], disk[n], batch[n], last[n], n \in up, build[n],
               slot[n], install[n], fuzz[n], n \in torn, n \in mixed)
    BY <1>1 DEF NodeSound
  <1>7. NodeOK(log, mem[n], disk[n], batch[n], last[n], n \in up, bd2,
               slot[n], install[n], fuzz[n], n \in torn, n \in mixed)
    BY <1>1, <1>2, <1>4, <1>6, ScanRows, Zenon
  <1>8. NodeSound(n)'
    BY <1>4, <1>5, <1>7 DEF NodeSound
  <1>9. ASSUME NEW k \in Node, k # n PROVE NodeSound(k)'
    BY <1>1, <1>4, <1>5, <1>9, Elsewhere DEF Same
  <1> QED
    BY <1>1, <1>4, <1>5, <1>8, <1>9 DEF Inv

\* BuildDone preserves the invariant.
LEMMA BuildDoneKeeps ==
    ASSUME Inv, NEW n \in Node, BuildDone(n)
    PROVE  Inv'
  <1>1. /\ log \in Seq(Command) /\ PerNode(batch) /\ \A k \in Node : NodeSound(k)
        /\ PerNode(mem) /\ PerNode(disk) /\ PerNode(last)
        /\ PerNode(build) /\ PerNode(slot) /\ PerNode(install) /\ PerNode(fuzz)
        /\ up \subseteq Node
    BY DEF Inv
  <1>2. PICK snap : snap = [index |-> build[n].index, data |-> build[n].data,
                upto |-> Max({last[n] + (IF batch[n] = <<>> THEN 0 ELSE 1), fuzz[n]}),
                torn |-> build[n].torn, mixed |-> n \in mixed]
    OBVIOUS
  <1>3. /\ n \in up /\ build[n] # None /\ build[n].todo = <<>>
        /\ log' = log /\ mem' = mem /\ disk' = disk /\ batch' = batch /\ last' = last
        /\ up' = up /\ install' = install /\ fuzz' = fuzz
        /\ torn' = torn /\ mixed' = mixed
        /\ build' = [build EXCEPT ![n] = None]
        /\ slot' = [slot EXCEPT ![n] = SlotOffer(slot[n], snap)]
    BY <1>2 DEF BuildDone, history, counts
  <1>4. /\ PerNode(build') /\ build'[n] = None
        /\ PerNode(slot') /\ slot'[n] = SlotOffer(slot[n], snap)
        /\ \A k \in Node : k # n => build'[k] = build[k] /\ slot'[k] = slot[k]
    BY <1>1, <1>3 DEF PerNode
  <1>5. NodeOK(log, mem[n], disk[n], batch[n], last[n], n \in up, build[n],
               slot[n], install[n], fuzz[n], n \in torn, n \in mixed)
    BY <1>1 DEF NodeSound
  <1>6. NodeOK(log, mem[n], disk[n], batch[n], last[n], n \in up, None,
               SlotOffer(slot[n], snap), install[n], fuzz[n], n \in torn, n \in mixed)
    BY <1>1, <1>2, <1>3, <1>5, BuildDones, Zenon
  <1>7. NodeSound(n)'
    BY <1>3, <1>4, <1>6 DEF NodeSound
  <1>8. ASSUME NEW k \in Node, k # n PROVE NodeSound(k)'
    BY <1>1, <1>3, <1>4, <1>8, Elsewhere DEF Same
  <1> QED
    BY <1>1, <1>3, <1>4, <1>7, <1>8 DEF Inv

\* InstallStart preserves the invariant.
LEMMA InstallStartKeeps ==
    ASSUME Inv, NEW n \in Node, NEW m \in Node, InstallStart(n, m)
    PROVE  Inv'
  <1>1. /\ log \in Seq(Command) /\ PerNode(batch) /\ \A k \in Node : NodeSound(k)
        /\ PerNode(mem) /\ PerNode(disk) /\ PerNode(last)
        /\ PerNode(build) /\ PerNode(slot) /\ PerNode(install) /\ PerNode(fuzz)
        /\ up \subseteq Node
    BY DEF Inv
  <1>2. PICK s : s = slot[m]
    OBVIOUS
  <1>3. PICK inst2 : Opened(inst2, s, mem[n])
    BY DEF Opened
  <1>4. PICK f : f = Max({fuzz[n], s.upto})
    OBVIOUS
  <1>5. /\ n \in up /\ batch[n] = <<>> /\ install[n] = None
        /\ install[m] = None /\ s # None /\ s.index > last[n]
        /\ log' = log /\ mem' = mem /\ disk' = disk /\ batch' = batch /\ last' = last
        /\ up' = up /\ build' = build /\ slot' = slot /\ torn' = torn /\ mixed' = mixed
        /\ install' = [install EXCEPT ![n] = inst2]
        /\ fuzz' = [fuzz EXCEPT ![n] = f]
    BY <1>2, <1>3, <1>4 DEF InstallStart, Idle, Opened, counts
  <1>6. /\ PerNode(install') /\ install'[n] = inst2
        /\ PerNode(fuzz') /\ fuzz'[n] = f
        /\ \A k \in Node : k # n => install'[k] = install[k] /\ fuzz'[k] = fuzz[k]
    BY <1>1, <1>5 DEF PerNode
  <1>7. NodeOK(log, mem[n], disk[n], batch[n], last[n], n \in up, build[n],
               slot[n], install[n], fuzz[n], n \in torn, n \in mixed)
    BY <1>1 DEF NodeSound
  <1>8. SnapType(s, Len(log)) /\ SnapOK(log, s)
    BY <1>1, <1>2, <1>5 DEF NodeSound, NodeOK
  <1>9. last[n] < s.index
    <2>1. PICK i : i = s.index
      OBVIOUS
    <2>2. PICK a : a = last[n]
      OBVIOUS
    <2>3. i \in 1..Len(log) /\ a \in 0..Len(log)
      BY <1>7, <1>8, <2>1, <2>2 DEF SnapType, NodeOK
    <2>4. i > a
      BY <1>5, <2>1, <2>2
    <2>5. a < i
      BY <1>1, <2>3, <2>4
    <2> QED
      BY <2>1, <2>2, <2>5
  <1>10. NodeOK(log, mem[n], disk[n], batch[n], last[n], n \in up, build[n],
                slot[n], inst2, f, n \in torn, n \in mixed)
    BY <1>1, <1>3, <1>4, <1>5, <1>7, <1>8, <1>9, InstallStarts, Zenon
  <1>11. NodeSound(n)'
    BY <1>5, <1>6, <1>10 DEF NodeSound
  <1>12. ASSUME NEW k \in Node, k # n PROVE NodeSound(k)'
    BY <1>1, <1>5, <1>6, <1>12, Elsewhere DEF Same
  <1> QED
    BY <1>1, <1>5, <1>6, <1>11, <1>12 DEF Inv

\* InstallClear preserves the invariant.
LEMMA InstallClearKeeps ==
    ASSUME Inv, NEW n \in Node, InstallClear(n)
    PROVE  Inv'
  <1>1. /\ log \in Seq(Command) /\ PerNode(batch) /\ \A k \in Node : NodeSound(k)
        /\ PerNode(mem) /\ PerNode(disk) /\ PerNode(last)
        /\ PerNode(build) /\ PerNode(slot) /\ PerNode(install) /\ PerNode(fuzz)
        /\ up \subseteq Node
    BY DEF Inv
  <1>2. PICK m2 : Replaced(mem[n], Head(install[n].clear), EmptyStore, m2)
    BY DEF Replaced
  <1>3. PICK inst2 : inst2 = [install[n] EXCEPT !.clear = Tail(@)]
    OBVIOUS
  <1>4. /\ n \in up /\ install[n] # None
        /\ install[n].clear # <<>>
        /\ log' = log /\ batch' = batch /\ last' = last /\ up' = up /\ build' = build
        /\ slot' = slot /\ fuzz' = fuzz /\ torn' = torn /\ mixed' = mixed
        /\ install' = [install EXCEPT ![n] = inst2]
        /\ mem' = [mem EXCEPT ![n] = m2] /\ disk' = [disk EXCEPT ![n] = mem'[n]]
    BY <1>2, <1>3 DEF InstallClear, ReplaceRealm, Replaced, history, counts
  <1>5. /\ PerNode(install') /\ install'[n] = inst2
        /\ PerNode(mem') /\ mem'[n] = m2
        /\ \A k \in Node : k # n => install'[k] = install[k] /\ mem'[k] = mem[k]
    BY <1>1, <1>4 DEF PerNode
  <1>6. /\ PerNode(disk') /\ disk'[n] = m2
        /\ \A k \in Node : k # n => disk'[k] = disk[k]
    BY <1>1, <1>4, <1>5 DEF PerNode
  <1>7. NodeOK(log, mem[n], disk[n], batch[n], last[n], n \in up, build[n],
               slot[n], install[n], fuzz[n], n \in torn, n \in mixed)
    BY <1>1 DEF NodeSound
  <1>8. NodeOK(log, m2, m2, batch[n], last[n], n \in up, build[n],
               slot[n], inst2, fuzz[n], n \in torn, n \in mixed)
    BY <1>1, <1>2, <1>3, <1>4, <1>7, InstallClears, Zenon
  <1>9. NodeSound(n)'
    BY <1>4, <1>5, <1>6, <1>8 DEF NodeSound
  <1>10. ASSUME NEW k \in Node, k # n PROVE NodeSound(k)'
    BY <1>1, <1>4, <1>5, <1>6, <1>10, Elsewhere DEF Same
  <1> QED
    BY <1>1, <1>4, <1>5, <1>6, <1>9, <1>10 DEF Inv

\* InstallPut preserves the invariant.
LEMMA InstallPutKeeps ==
    ASSUME Inv, NEW n \in Node, InstallPut(n)
    PROVE  Inv'
  <1>1. /\ log \in Seq(Command) /\ PerNode(batch) /\ \A k \in Node : NodeSound(k)
        /\ PerNode(mem) /\ PerNode(disk) /\ PerNode(last)
        /\ PerNode(build) /\ PerNode(slot) /\ PerNode(install) /\ PerNode(fuzz)
        /\ up \subseteq Node
    BY DEF Inv
  <1>2. PICK m2 : Replaced(mem[n], Head(install[n].put), install[n].snap.data, m2)
    BY DEF Replaced
  <1>3. PICK inst2 : inst2 = [install[n] EXCEPT !.put = Tail(@)]
    OBVIOUS
  <1>4. /\ n \in up /\ install[n] # None
        /\ install[n].clear = <<>> /\ install[n].put # <<>>
        /\ log' = log /\ batch' = batch /\ last' = last /\ up' = up /\ build' = build
        /\ slot' = slot /\ fuzz' = fuzz /\ torn' = torn /\ mixed' = mixed
        /\ install' = [install EXCEPT ![n] = inst2]
        /\ mem' = [mem EXCEPT ![n] = m2] /\ disk' = [disk EXCEPT ![n] = mem'[n]]
    BY <1>2, <1>3 DEF InstallPut, ReplaceRealm, Replaced, history, counts
  <1>5. /\ PerNode(install') /\ install'[n] = inst2
        /\ PerNode(mem') /\ mem'[n] = m2
        /\ \A k \in Node : k # n => install'[k] = install[k] /\ mem'[k] = mem[k]
    BY <1>1, <1>4 DEF PerNode
  <1>6. /\ PerNode(disk') /\ disk'[n] = m2
        /\ \A k \in Node : k # n => disk'[k] = disk[k]
    BY <1>1, <1>4, <1>5 DEF PerNode
  <1>7. NodeOK(log, mem[n], disk[n], batch[n], last[n], n \in up, build[n],
               slot[n], install[n], fuzz[n], n \in torn, n \in mixed)
    BY <1>1 DEF NodeSound
  <1>8. NodeOK(log, m2, m2, batch[n], last[n], n \in up, build[n],
               slot[n], inst2, fuzz[n], n \in torn, n \in mixed)
    BY <1>1, <1>2, <1>3, <1>4, <1>7, InstallPuts, Zenon
  <1>9. NodeSound(n)'
    BY <1>4, <1>5, <1>6, <1>8 DEF NodeSound
  <1>10. ASSUME NEW k \in Node, k # n PROVE NodeSound(k)'
    BY <1>1, <1>4, <1>5, <1>6, <1>10, Elsewhere DEF Same
  <1> QED
    BY <1>1, <1>4, <1>5, <1>6, <1>9, <1>10 DEF Inv

\* InstallMeta preserves the invariant.
LEMMA InstallMetaKeeps ==
    ASSUME Inv, NEW n \in Node, InstallMeta(n)
    PROVE  Inv'
  <1>1. /\ log \in Seq(Command) /\ PerNode(batch) /\ \A k \in Node : NodeSound(k)
        /\ PerNode(mem) /\ PerNode(disk) /\ PerNode(last)
        /\ PerNode(build) /\ PerNode(slot) /\ PerNode(install) /\ PerNode(fuzz)
        /\ up \subseteq Node
    BY DEF Inv
  <1>2. PICK m2 : Replaced(mem[n], "meta", 
                        [EmptyStore EXCEPT !["meta"] = install[n].snap.index], m2)
    BY DEF Replaced
  <1>3. PICK inst2 : inst2 = [install[n] EXCEPT !.meta = FALSE]
    OBVIOUS
  <1>4. /\ n \in up /\ install[n] # None
        /\ install[n].clear = <<>> /\ install[n].put = <<>> /\ install[n].meta
        /\ log' = log /\ batch' = batch /\ last' = last /\ up' = up /\ build' = build
        /\ slot' = slot /\ fuzz' = fuzz /\ torn' = torn /\ mixed' = mixed
        /\ install' = [install EXCEPT ![n] = inst2]
        /\ mem' = [mem EXCEPT ![n] = m2] /\ disk' = [disk EXCEPT ![n] = mem'[n]]
    BY <1>2, <1>3 DEF InstallMeta, ReplaceRealm, Replaced, history, counts
  <1>5. /\ PerNode(install') /\ install'[n] = inst2
        /\ PerNode(mem') /\ mem'[n] = m2
        /\ \A k \in Node : k # n => install'[k] = install[k] /\ mem'[k] = mem[k]
    BY <1>1, <1>4 DEF PerNode
  <1>6. /\ PerNode(disk') /\ disk'[n] = m2
        /\ \A k \in Node : k # n => disk'[k] = disk[k]
    BY <1>1, <1>4, <1>5 DEF PerNode
  <1>7. NodeOK(log, mem[n], disk[n], batch[n], last[n], n \in up, build[n],
               slot[n], install[n], fuzz[n], n \in torn, n \in mixed)
    BY <1>1 DEF NodeSound
  <1>8. NodeOK(log, m2, m2, batch[n], last[n], n \in up, build[n],
               slot[n], inst2, fuzz[n], n \in torn, n \in mixed)
    BY <1>1, <1>2, <1>3, <1>4, <1>7, InstallMetas, Zenon
  <1>9. NodeSound(n)'
    BY <1>4, <1>5, <1>6, <1>8 DEF NodeSound
  <1>10. ASSUME NEW k \in Node, k # n PROVE NodeSound(k)'
    BY <1>1, <1>4, <1>5, <1>6, <1>10, Elsewhere DEF Same
  <1> QED
    BY <1>1, <1>4, <1>5, <1>6, <1>9, <1>10 DEF Inv

\* InstallDone preserves the invariant.
LEMMA InstallDoneKeeps ==
    ASSUME Inv, NEW n \in Node, InstallDone(n)
    PROVE  Inv'
  <1>1. /\ log \in Seq(Command) /\ PerNode(batch) /\ \A k \in Node : NodeSound(k)
        /\ PerNode(mem) /\ PerNode(disk) /\ PerNode(last)
        /\ PerNode(build) /\ PerNode(slot) /\ PerNode(install) /\ PerNode(fuzz)
        /\ up \subseteq Node
    BY DEF Inv
  <1>2. NodeOK(log, mem[n], disk[n], batch[n], last[n], n \in up, build[n],
               slot[n], install[n], fuzz[n], n \in torn, n \in mixed)
    BY <1>1 DEF NodeSound
  <1>3. PICK snap : snap = install[n].snap
    OBVIOUS
  <1>4. /\ n \in up /\ install[n] # None /\ ~ install[n].meta
        /\ log' = log /\ mem' = mem /\ disk' = disk /\ batch' = batch /\ up' = up
        /\ build' = build
        /\ last' = [last EXCEPT ![n] = snap.index]
        /\ fuzz' = [fuzz EXCEPT ![n] = snap.upto]
        /\ slot' = [slot EXCEPT ![n] = SlotOffer(slot[n], snap)]
        /\ install' = [install EXCEPT ![n] = None]
        /\ torn' = IF snap.torn THEN torn \union {n} ELSE torn \ {n}
        /\ mixed' = IF snap.mixed THEN mixed \union {n} ELSE mixed \ {n}
    BY <1>3 DEF InstallDone, counts
  <1>5. /\ PerNode(last') /\ PerNode(fuzz') /\ PerNode(slot') /\ PerNode(install')
        /\ last'[n] = snap.index /\ fuzz'[n] = snap.upto /\ install'[n] = None
        /\ slot'[n] = SlotOffer(slot[n], snap)
        /\ \A k \in Node : k # n => /\ last'[k] = last[k] /\ fuzz'[k] = fuzz[k]
                                    /\ slot'[k] = slot[k] /\ install'[k] = install[k]
    BY <1>1, <1>4 DEF PerNode
  <1>6. snap.torn \in BOOLEAN /\ snap.mixed \in BOOLEAN
    BY <1>2, <1>3, <1>4 DEF NodeOK, InstallOK, SnapType
  <1>7. (n \in torn') = snap.torn /\ (n \in mixed') = snap.mixed
    BY <1>4, <1>6
  <1>8. NodeOK(log, mem[n], disk[n], batch[n], snap.index, n \in up, build[n],
               SlotOffer(slot[n], snap), None, snap.upto, snap.torn, snap.mixed)
    BY <1>1, <1>2, <1>3, <1>4, InstallDones, Zenon
  <1>9. NodeSound(n)'
    BY <1>4, <1>5, <1>7, <1>8 DEF NodeSound
  <1>10. ASSUME NEW k \in Node, k # n PROVE NodeSound(k)'
    <2>1. (k \in torn') = (k \in torn) /\ (k \in mixed') = (k \in mixed)
      BY <1>4, <1>10
    <2> QED
      BY <1>1, <1>4, <1>5, <1>10, <2>1, Elsewhere DEF Same
  <1> QED
    BY <1>1, <1>4, <1>5, <1>9, <1>10 DEF Inv

\* Crash preserves the invariant.
LEMMA CrashKeeps ==
    ASSUME Inv, NEW n \in Node, Crash(n)
    PROVE  Inv'
  <1>1. /\ log \in Seq(Command) /\ PerNode(batch) /\ \A k \in Node : NodeSound(k)
        /\ PerNode(mem) /\ PerNode(disk) /\ PerNode(last)
        /\ PerNode(build) /\ PerNode(slot) /\ PerNode(install) /\ PerNode(fuzz)
        /\ up \subseteq Node
    BY DEF Inv
  <1>2. NodeOK(log, mem[n], disk[n], batch[n], last[n], n \in up, build[n],
               slot[n], install[n], fuzz[n], n \in torn, n \in mixed)
    BY <1>1 DEF NodeSound
  <1>3. PICK kept \in {disk[n], StoreAll(mem[n], batch[n])} :
            /\ mem' = [mem EXCEPT ![n] = kept]
            /\ disk' = [disk EXCEPT ![n] = kept]
    BY DEF Crash
  <1>4. /\ n \in up /\ up' = up \ {n}
        /\ batch' = [batch EXCEPT ![n] = <<>>] /\ build' = [build EXCEPT ![n] = None]
        /\ slot' = [slot EXCEPT ![n] = None]
        /\ log' = log /\ last' = last /\ install' = install /\ fuzz' = fuzz
        /\ torn' = torn /\ mixed' = mixed
    BY DEF Crash, history
  <1>5. /\ PerNode(mem') /\ PerNode(disk') /\ mem'[n] = kept /\ disk'[n] = kept
        /\ \A k \in Node : k # n => mem'[k] = mem[k] /\ disk'[k] = disk[k]
    BY <1>1, <1>3 DEF PerNode
  <1>6. /\ PerNode(batch') /\ PerNode(build') /\ PerNode(slot')
        /\ batch'[n] = <<>> /\ build'[n] = None /\ slot'[n] = None
        /\ \A k \in Node : k # n => /\ batch'[k] = batch[k] /\ build'[k] = build[k]
                                    /\ slot'[k] = slot[k]
    BY <1>1, <1>4 DEF PerNode
  <1>7. NodeOK(log, kept, kept, <<>>, last[n], FALSE, None, None, install[n],
               fuzz[n], n \in torn, n \in mixed)
    BY <1>1, <1>2, <1>3, <1>4, Crashes, Zenon
  <1>8. (n \in up') = FALSE
    BY <1>4
  <1>9. NodeSound(n)'
    BY <1>4, <1>5, <1>6, <1>7, <1>8 DEF NodeSound
  <1>10. ASSUME NEW k \in Node, k # n PROVE NodeSound(k)'
    <2>1. (k \in up') = (k \in up)
      BY <1>4, <1>10
    <2> QED
      BY <1>1, <1>4, <1>5, <1>6, <1>10, <2>1, Elsewhere DEF Same
  <1> QED
    BY <1>1, <1>4, <1>5, <1>6, <1>9, <1>10 DEF Inv

\* Restart preserves the invariant.
LEMMA RestartKeeps ==
    ASSUME Inv, NEW n \in Node, Restart(n)
    PROVE  Inv'
  <1>1. /\ log \in Seq(Command) /\ PerNode(batch) /\ \A k \in Node : NodeSound(k)
        /\ PerNode(mem) /\ PerNode(disk) /\ PerNode(last)
        /\ PerNode(build) /\ PerNode(slot) /\ PerNode(install) /\ PerNode(fuzz)
        /\ up \subseteq Node
    BY DEF Inv
  <1>2. NodeOK(log, mem[n], disk[n], batch[n], last[n], n \in up, build[n],
               slot[n], install[n], fuzz[n], n \in torn, n \in mixed)
    BY <1>1 DEF NodeSound
  <1>3. /\ n \notin up /\ install[n] = None /\ up' = up \union {n}
        /\ last' = [last EXCEPT ![n] = LoadAppliedState(disk[n])]
        /\ log' = log /\ mem' = mem /\ disk' = disk /\ batch' = batch /\ build' = build
        /\ slot' = slot /\ install' = install /\ fuzz' = fuzz /\ torn' = torn
        /\ mixed' = mixed
    BY DEF Restart, history, counts
  <1>4. /\ PerNode(last') /\ last'[n] = LoadAppliedState(disk[n])
        /\ \A k \in Node : k # n => last'[k] = last[k]
    BY <1>1, <1>3 DEF PerNode
  <1>5. NodeOK(log, mem[n], disk[n], batch[n], LoadAppliedState(disk[n]), TRUE, build[n],
               slot[n], install[n], fuzz[n], n \in torn, n \in mixed)
    <2>1. (n \in up) = FALSE
      BY <1>3
    <2>2. install[n] = None
      BY <1>3
    <2>3. NodeOK(log, mem[n], disk[n], batch[n], last[n], FALSE, build[n],
                 slot[n], install[n], fuzz[n], n \in torn, n \in mixed)
      BY <1>2, <2>1
    <2> QED
      BY <1>1, <2>1, <2>2, <2>3, Restarts, Zenon
  <1>6. (n \in up') = TRUE
    BY <1>3
  <1>7. NodeSound(n)'
    BY <1>3, <1>4, <1>5, <1>6 DEF NodeSound
  <1>8. ASSUME NEW k \in Node, k # n PROVE NodeSound(k)'
    <2>1. (k \in up') = (k \in up)
      BY <1>3, <1>8
    <2> QED
      BY <1>1, <1>3, <1>4, <1>8, <2>1, Elsewhere DEF Same
  <1> QED
    BY <1>1, <1>3, <1>4, <1>7, <1>8 DEF Inv

\* DeleteMarker preserves the invariant.
LEMMA DeleteMarkerKeeps ==
    ASSUME Inv, NEW n \in Node, DeleteMarker(n)
    PROVE  Inv'
  <1>1. /\ log \in Seq(Command) /\ PerNode(batch) /\ \A k \in Node : NodeSound(k)
        /\ PerNode(mem) /\ PerNode(disk) /\ PerNode(last)
        /\ PerNode(build) /\ PerNode(slot) /\ PerNode(install) /\ PerNode(fuzz)
        /\ up \subseteq Node
    BY DEF Inv
  <1>2. NodeOK(log, mem[n], disk[n], batch[n], last[n], n \in up, build[n],
               slot[n], install[n], fuzz[n], n \in torn, n \in mixed)
    BY <1>1 DEF NodeSound
  <1>3. /\ n \notin up /\ install[n] # None
        /\ install' = [install EXCEPT ![n] = None]
        /\ log' = log /\ mem' = mem /\ disk' = disk /\ batch' = batch /\ last' = last
        /\ up' = up /\ build' = build /\ slot' = slot /\ fuzz' = fuzz
        /\ torn' = IF install[n].snap.torn THEN torn \union {n} ELSE torn
        /\ mixed' = IF (IF install[n].clear = <<>> THEN install[n].snap.mixed
                        ELSE LoadAppliedState(disk[n]) > 0)
                    THEN mixed \union {n} ELSE mixed
    BY DEF DeleteMarker, counts
  <1>4. /\ PerNode(install') /\ install'[n] = None
        /\ \A k \in Node : k # n => install'[k] = install[k]
    BY <1>1, <1>3 DEF PerNode
  <1>5. Marked(install[n], disk[n], n \in torn, n \in mixed, n \in torn', n \in mixed')
    BY <1>3 DEF Marked
  <1>6. NodeOK(log, mem[n], disk[n], batch[n], last[n], FALSE, build[n],
               slot[n], None, fuzz[n], n \in torn', n \in mixed')
    <2>1. (n \in up) = FALSE
      BY <1>3
    <2>2. install[n] # None
      BY <1>3
    <2>3. NodeOK(log, mem[n], disk[n], batch[n], last[n], FALSE, build[n],
                 slot[n], install[n], fuzz[n], n \in torn, n \in mixed)
      BY <1>2, <2>1
    <2> QED
      BY <1>1, <1>5, <2>1, <2>2, <2>3, MarkerDeleted, Zenon
  <1>7. NodeSound(n)'
    <2>1. (n \in up') = FALSE
      BY <1>3
    <2> QED
      BY <1>3, <1>4, <1>6, <2>1 DEF NodeSound
  <1>8. ASSUME NEW k \in Node, k # n PROVE NodeSound(k)'
    <2>1. (k \in torn') = (k \in torn) /\ (k \in mixed') = (k \in mixed)
      BY <1>3, <1>8
    <2> QED
      BY <1>1, <1>3, <1>4, <1>8, <2>1, Elsewhere DEF Same
  <1> QED
    BY <1>1, <1>3, <1>4, <1>7, <1>8 DEF Inv

\* A cluster of empty nodes satisfies the invariant.
LEMMA InitInv == Init => Inv
  <1> SUFFICES ASSUME Init PROVE Inv
    OBVIOUS
  <1>1. log = <<>> /\ Len(log) = 0 /\ log \in Seq(Command)
    BY DEF Init
  <1>2. StoreOK(EmptyStore, 0) /\ \A row \in Rows : EmptyStore[row] = Absent
    BY EmptyIs
  <1>3. LoadAppliedState(EmptyStore) = 0
    <2>1. \A r \in Realms : Decoded(EmptyStore[r]) = 0
      BY <1>2, Different DEF Decoded
    <2>2. \A r \in Realms : Decoded(EmptyStore[r]) \in Nat /\ Decoded(EmptyStore[r]) <= 0
      BY <2>1
    <2>3. \E r \in Realms : Decoded(EmptyStore[r]) = 0
      BY <2>1 DEF Realms
    <2> QED
      BY <2>2, <2>3, LoadOf
  <1>4. Reach(0, 0) = 0
    BY DEF Reach
  <1>5. ASSUME NEW t PROVE DataOK(log, EmptyStore, 0, 0, t)
    <2>1. PlainOK(log, Absent, 0, 0) /\ CounterOK(log, Absent, Absent, 0, 0)
      BY EmptyDataOK
    <2> QED
      BY <1>2, <2>1, Different DEF DataOK
  <1>6. ASSUME NEW n \in Node PROVE NodeSound(n)
    <2>1. /\ mem[n] = EmptyStore /\ disk[n] = EmptyStore /\ batch[n] = <<>>
          /\ last[n] = 0 /\ n \in up /\ build[n] = None /\ slot[n] = None
          /\ install[n] = None /\ fuzz[n] = 0
          /\ (n \in up) = TRUE /\ (n \in torn) = FALSE /\ (n \in mixed) = FALSE
      BY DEF Init
    <2>2. 0 \in 0..0
      OBVIOUS
    <2>3. NodeOK(log, EmptyStore, EmptyStore, <<>>, 0, TRUE, None, None, None, 0,
                 FALSE, FALSE)
      BY <1>1, <1>2, <1>3, <1>4, <1>5, <2>2 DEF NodeOK
    <2> QED
      BY <2>1, <2>3 DEF NodeSound
  <1>7. /\ PerNode(mem) /\ PerNode(disk) /\ PerNode(batch) /\ PerNode(last)
        /\ PerNode(build) /\ PerNode(slot) /\ PerNode(install) /\ PerNode(fuzz)
        /\ up \subseteq Node
    BY DEF Init, PerNode
  <1> QED
    BY <1>1, <1>6, <1>7 DEF Inv

\* Every action preserves the invariant.
LEMMA NextInv == Inv /\ [Next]_vars => Inv'
  <1> SUFFICES ASSUME Inv, [Next]_vars PROVE Inv'
    OBVIOUS
  <1>1. CASE UNCHANGED vars
    <2>1. /\ log' = log /\ mem' = mem /\ disk' = disk /\ batch' = batch /\ last' = last
          /\ up' = up /\ build' = build /\ slot' = slot /\ install' = install
          /\ fuzz' = fuzz /\ torn' = torn /\ mixed' = mixed
      BY <1>1 DEF vars
    <2>2. ASSUME NEW k \in Node PROVE NodeSound(k)'
      <3>1. NodeSound(k)
        BY DEF Inv
      <3> QED
        BY <2>1, <3>1, Elsewhere DEF Same
    <2> QED
      BY <2>1, <2>2 DEF Inv
  <1>2. ASSUME NEW n \in Node,
               \/ ApplyStart(n) \/ ApplyRow(n)
               \/ BuildStart(n) \/ ScanRow(n) \/ BuildDone(n)
               \/ \E m \in Node : InstallStart(n, m)
               \/ InstallClear(n) \/ InstallPut(n) \/ InstallMeta(n) \/ InstallDone(n)
               \/ Crash(n) \/ Restart(n) \/ DeleteMarker(n)
        PROVE  Inv'
    BY <1>2, ApplyStartKeeps, ApplyRowKeeps, BuildStartKeeps, ScanRowKeeps,
       BuildDoneKeeps, InstallStartKeeps, InstallClearKeeps, InstallPutKeeps,
       InstallMetaKeeps, InstallDoneKeeps, CrashKeeps, RestartKeeps, DeleteMarkerKeeps
  <1> QED
    BY <1>1, <1>2 DEF Next

-----------------------------------------------------------------------------
(* The invariant of the replicated state machine: on every node, whatever  *)
(* it applies, scans, installs, loses in a crash or restarts on, the rows  *)
(* are good for the entries its applied-state rows name (apply,            *)
(* restore_snapshot_in_place, load_applied_state).                         *)
THEOREM StateMachineInvariance == Spec => []Inv
  BY InitInv, NextInv, PTL DEF Spec

\* A node that satisfies NodeOK and has caught up with the log agrees with it.
LEMMA NodeConverges ==
    ASSUME NEW n \in Node, log \in Seq(Command), NodeSound(n), Settled(n)
    PROVE  Agrees(mem[n], last[n], n \notin torn)
  <1>1. PICK a : a = last[n]
    OBVIOUS
  <1>2. PICK f : f = fuzz[n]
    OBVIOUS
  <1>3. n \in up /\ batch[n] = <<>> /\ install[n] = None /\ a >= f /\ n \notin mixed
    BY <1>1, <1>2 DEF Settled, Idle
  <1>4. /\ a \in Nat /\ f \in Nat /\ mem[n] = disk[n]
        /\ a = LoadAppliedState(disk[n])
    BY <1>1, <1>2, <1>3 DEF NodeSound, NodeOK
  <1>5. DataOK(log, disk[n], LoadAppliedState(disk[n]),
               Reach(LoadAppliedState(disk[n]), fuzz[n]), n \in torn)
    BY <1>3 DEF NodeSound, NodeOK
  <1>6. Reach(a, f) = a
    BY <1>3, <1>4 DEF Reach
  <1>7. DataOK(log, mem[n], a, a, n \in torn)
    BY <1>2, <1>4, <1>5, <1>6
  <1>8. PICK rows : rows = mem[n]
    OBVIOUS
  <1>9. PICK t : t = (n \in torn)
    OBVIOUS
  <1>10. DataOK(log, rows, a, a, t)
    BY <1>7, <1>8, <1>9
  <1>11. /\ rows[Plain] = Reference(log, a)[Plain]
         /\ ~ t => rows[Counter] = Reference(log, a)[Counter]
    BY <1>4, <1>10, DataIsRef
  <1> QED
    BY <1>1, <1>8, <1>9, <1>11 DEF Agrees

(* A node that has settled holds exactly what the entries it has applied   *)
(* produce, however it got there: entry by entry, from a snapshot scanned  *)
(* while its builder went on applying, or by the replay after a crash in   *)
(* a batch or an install (apply, increment_once, moved_sidecars,           *)
(* restore_snapshot_in_place, load_applied_state).  For every set of nodes *)
(* and commands, and however many crashes.                                 *)
THEOREM NodesConverge == Spec => []Converges
  <1>1. Inv => Converges
    BY NodeConverges DEF Inv, Converges
  <1> QED
    BY <1>1, StateMachineInvariance, PTL

\* A sound slot, replayed to the end of the log, agrees with it.
LEMMA SnapshotSound ==
    ASSUME NEW n \in Node, log \in Seq(Command), NodeSound(n), Idle(n),
           slot[n] # None, ~ slot[n].mixed
    PROVE  Agrees(Replay(slot[n].data, log, slot[n].index, Len(log)), Len(log),
                  ~ slot[n].torn)
  <1>1. PICK s : s = slot[n]
    OBVIOUS
  <1>2. PICK len : len = Len(log)
    OBVIOUS
  <1>3. SnapType(s, len) /\ SnapOK(log, s)
    BY <1>1, <1>2 DEF NodeSound, NodeOK, Idle
  <1>4. PICK i : i = s.index
    OBVIOUS
  <1>5. PICK u : u = s.upto
    OBVIOUS
  <1>6. /\ len \in Nat /\ i \in Nat /\ u \in Nat /\ i <= u /\ u <= len /\ i <= len
        /\ i <= i
    BY <1>2, <1>3, <1>4, <1>5 DEF SnapType
  <1>7. PICK t : t = s.torn
    OBVIOUS
  <1>8. t \in BOOLEAN /\ StoreOK(s.data, len)
    BY <1>3, <1>7 DEF SnapType
  <1>9. DataOK(log, s.data, i, u, t)
    BY <1>1, <1>3, <1>4, <1>5, <1>7 DEF SnapOK
  <1>10. PICK rows : rows = s.data
    OBVIOUS
  <1>11. DataOK(log, rows, i, len, t)
    <2>1. t => t
      BY <1>8
    <2> QED
      BY <1>6, <1>9, <1>10, <2>1, DataWiden
  <1>12. /\ Replay(rows, log, i, len)[Plain] = Reference(log, len)[Plain]
         /\ ~ t => Replay(rows, log, i, len)[Counter] = Reference(log, len)[Counter]
    BY <1>2, <1>6, <1>8, <1>10, <1>11, ReplayAgrees
  <1> QED
    BY <1>1, <1>2, <1>4, <1>7, <1>8, <1>10, <1>12 DEF Agrees

(* Whoever installs the snapshot a node serves (get_current_snapshot) and  *)
(* then applies the entries after its index reaches the log's state: a     *)
(* build that raced an install is never the snapshot served               *)
(* (snapshot_slot_offer).                                                  *)
THEOREM ServedSnapshotsAreSound == Spec => []ServedSnapshotSound
  <1>1. Inv => ServedSnapshotSound
    BY SnapshotSound DEF Inv, ServedSnapshotSound
  <1> QED
    BY <1>1, StateMachineInvariance, PTL

=============================================================================
