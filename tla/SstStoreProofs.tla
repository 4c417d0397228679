--------------------------- MODULE SstStoreProofs ---------------------------
(***************************************************************************)
(* Proofs about SstStore, for any keys and values and any number of        *)
(* writes, files, faults and crashes: reads see the last write, crashes    *)
(* lose no logged write, and the store implements KVStore.                 *)
(***************************************************************************)
EXTENDS SstStore, FiniteSetTheorems, WellFoundedInduction, TLAPS

-----------------------------------------------------------------------------
(* The inductive invariant.                                                *)

\* The values a crash may leave at k: the last logged one or a queued one.
Admissible(k) == {safe[k]} \union {VisibleOf(queue[i][2]) : i \in QueuedFor(k)}

\* The map that still holds what a file not yet in the reader list holds.
Cover == IF flush.at = "idle" THEN mem ELSE parked

\* Directory d is the reader list and newer files the cover hides: a flush's
\* own output, and outputs of flushes that failed after the rename.
Extends(d) ==
    /\ \A n \in DOMAIN readers : n \in DOMAIN d /\ d[n] = readers[n]
    /\ \A n \in DOMAIN d \ DOMAIN readers :
          /\ \A m \in DOMAIN readers : m < n
          /\ \A k \in Keys : d[n][k] # Absent => Cover[k] # Absent

DirInv == comp.at \notin CommitPcs => \A d \in crashable : Extends(d)

\* The flush: its lock, its number above every file's, its file.
FlushInv ==
    /\ flush.at = "idle" => parked = Empty /\ flush.rotate = FALSE
    /\ flush.at # "idle" =>
          /\ comp.at \notin CommitPcs
          /\ flush.num < sst_counter
          /\ comp.at # "idle" => comp.num < flush.num
          /\ \A n \in DOMAIN readers : n < flush.num
    /\ flush.at = "write" =>
          \A d \in crashable : \A n \in DOMAIN d : n < flush.num
    /\ flush.at \in {"renamed", "reload"} =>
          /\ flush.num \in DOMAIN disk /\ disk[flush.num] = parked
          /\ \A d \in crashable : \A n \in DOMAIN d : n <= flush.num
    /\ flush.at = "reload" => crashable = {disk}
    /\ flush.rotate => rotation = "flush"

\* The inputs of the running compaction are neighbours in the reader list, and
\* its output holds what they resolve to, less tombstones with nothing below.
Inputs == [n \in comp.run |-> readers[n]]
AboveRun(n) == \A m \in comp.run : m < n

MergeOf ==
    \A k \in Keys :
        \/ comp.out[k] = Resolve(Inputs, k)
        \/ /\ comp.out[k] = Absent /\ Resolve(Inputs, k) = Tombstone
           /\ \A n \in DOMAIN readers \ comp.run : AboveRun(n)

\* A file a failed flush left behind, older than the output's number, is
\* below a newer file.
Hidden ==
    \A n \in DOMAIN readers \ comp.run, k \in Keys :
        AboveRun(n) /\ n < comp.num /\ readers[n][k] # Absent
        => \E f \in DOMAIN readers : f > comp.num /\ readers[f][k] # Absent

Choice ==
    /\ comp.run # {} /\ comp.run \subseteq DOMAIN readers
    /\ comp.kind = "partial" =>
          comp.num \in comp.run /\ \A n \in comp.run : comp.num <= n
    /\ comp.kind = "full" => comp.num \notin DOMAIN readers /\ AboveRun(comp.num)
    /\ \A n \in DOMAIN readers \ comp.run :
          (\A m \in comp.run : n < m) \/ AboveRun(n)

CompInv ==
    comp.at # "idle" =>
        /\ Choice /\ MergeOf /\ Hidden /\ comp.num < sst_counter
        /\ comp.at \in {"merge", "commit"} =>
              /\ comp.left = comp.run \ {comp.num}
              /\ comp.kind = "full" => \A d \in crashable : comp.num \notin DOMAIN d

\* Directory d while the commit replaces the inputs by the output: `left' are
\* the inputs not yet unlinked, the newest ones; strays are as in Extends.
CommitDir(d, left) ==
    /\ comp.num \in DOMAIN d /\ d[comp.num] = comp.out
    /\ left \subseteq comp.run \ {comp.num}
    /\ \A n \in left : n \in DOMAIN d /\ d[n] = readers[n]
    /\ \A n \in comp.run \ {comp.num} :
          n \notin left => n \notin DOMAIN d /\ \A m \in left : n < m
    /\ \A n \in DOMAIN readers \ comp.run : n \in DOMAIN d /\ d[n] = readers[n]
    /\ \A n \in DOMAIN d \ DOMAIN readers :
          n # comp.num => \A m \in DOMAIN readers : m < n

CommitInv ==
    comp.at \in CommitPcs =>
        /\ CommitDir(disk, comp.left)
        /\ \A n \in DOMAIN disk \ DOMAIN readers, k \in Keys :
              n # comp.num /\ disk[n][k] # Absent => mem[k] # Absent
        /\ comp.at = "publish" => comp.left = {} /\ crashable = {disk}

\* A crash would have to find k in a file: the segment does not hold it, or is
\* about to be truncated.
Exposed(k) == wal[k] = Absent \/ rotation = "truncate"

\* What files, reader list and parked map then hold for k is not too old.
CrashAt(k) ==
    /\ wal[k] # Absent => safe[k] = VisibleOf(wal[k])
    /\ Exposed(k) =>
          /\ \A d \in crashable : VisibleOf(Resolve(d, k)) \in Admissible(k)
          /\ VisibleOf(Resolve(readers, k)) \in Admissible(k)
    /\ (Exposed(k) \/ flush.rotate) /\ parked[k] # Absent =>
          VisibleOf(parked[k]) \in Admissible(k)
    /\ flush.rotate /\ parked[k] = Absent =>
          VisibleOf(Resolve(readers, k)) \in Admissible(k)

CrashInv == \A k \in Keys : CrashAt(k)

TypeInv == TypeOK /\ sst_counter \in Nat \ {0}

IInv ==
    /\ TypeInv
    /\ FlushInv /\ DirInv /\ CompInv /\ CommitInv /\ ReadsLatest /\ CrashInv

-----------------------------------------------------------------------------
(* Largest and smallest numbers, and which file decides a key.             *)

LEMMA MinOf ==
    ASSUME NEW S \in SUBSET Nat, S # {}
    PROVE  Min(S) \in S /\ \A y \in S : Min(S) <= y
  <1> DEFINE R == {ss \in Nat \X Nat : ss[1] < ss[2]}
  <1>1. IsWellFoundedOn(R, Nat)
    BY NatLessThanWellFounded DEF OpToRel
  <1> HIDE DEF R
  <1>2. PICK x \in S : \A y \in S : ~ (<<y, x>> \in R)
    BY <1>1, WFMin
  <1>3. ASSUME NEW y \in S PROVE x =< y
    <2>1. x \in Nat /\ y \in Nat /\ ~ (<<y, x>> \in R)
      BY <1>2
    <2>2. <<y, x>> \in Nat \X Nat
      BY <2>1
    <2>3. ~ (y < x)
      BY <2>1, <2>2 DEF R
    <2> QED
      BY <2>1, <2>3
  <1> QED
    BY <1>3 DEF Min

LEMMA MaxOf ==
    ASSUME NEW S \in SUBSET Nat, S # {}, NEW b \in Nat, \A x \in S : x <= b
    PROVE  Max(S) \in S /\ \A y \in S : y <= Max(S)
  <1> DEFINE T == {b - x : x \in S}
  <1>1. T \in SUBSET Nat /\ T # {}
    <2>1. ASSUME NEW x \in S PROVE b - x \in Nat
      <3>1. x \in Nat /\ x <= b
        OBVIOUS
      <3> QED
        BY <3>1
    <2> QED
      BY <2>1
  <1>2. PICK t \in T : \A u \in T : t <= u
    BY <1>1, MinOf
  <1>3. PICK x \in S : t = b - x
    OBVIOUS
  <1>4. ASSUME NEW y \in S PROVE x >= y
    <2>1. b - x <= b - y
      BY <1>2, <1>3
    <2> QED
      BY <2>1
  <1> QED
    BY <1>4 DEF Max

Numbered(f) == DOMAIN f \subseteq Nat /\ \E b \in Nat : \A n \in DOMAIN f : n <= b
Hit(f, n, k) == n \in DOMAIN f /\ f[n][k] # Absent
TopHit(f, n, k) == Hit(f, n, k) /\ \A m : Hit(f, m, k) => m <= n

LEMMA ResolveTop ==
    ASSUME NEW f, NEW k, NEW n, Numbered(f), TopHit(f, n, k)
    PROVE  Resolve(f, k) = f[n][k] /\ f[n][k] # Absent
  <1> DEFINE hits == {m \in DOMAIN f : f[m][k] # Absent}
  <1>1. n \in hits /\ \A m \in hits : n >= m
    BY DEF TopHit, Hit, Numbered
  <1>2. hits \subseteq Nat
    BY DEF Numbered
  <1> HIDE DEF hits
  <1>3. Max(hits) = n
    <2>1. ASSUME NEW z \in hits, \A y \in hits : z >= y PROVE z = n
      <3>1. z \in Nat /\ n \in Nat /\ z >= n /\ n >= z
        BY <1>1, <1>2, <2>1
      <3> QED
        BY <3>1
    <2> QED
      BY <1>1, <2>1 DEF Max
  <1> QED
    BY <1>1, <1>3 DEF hits, Resolve

LEMMA ResolveNone ==
    ASSUME NEW f, NEW k, \A n : ~ Hit(f, n, k)
    PROVE  Resolve(f, k) = Absent
  BY DEF Hit, Resolve

LEMMA ResolveCases ==
    ASSUME NEW f, NEW k, Numbered(f)
    PROVE  (\E n : TopHit(f, n, k)) \/ (\A n : ~ Hit(f, n, k))
  <1> DEFINE hits == {m \in DOMAIN f : f[m][k] # Absent}
  <1>1. SUFFICES ASSUME hits # {} PROVE \E n : TopHit(f, n, k)
    BY DEF Hit
  <1>2. PICK b \in Nat : \A n \in DOMAIN f : n <= b
    BY DEF Numbered
  <1>3. hits \in SUBSET Nat /\ \A x \in hits : x <= b
    BY <1>2 DEF Numbered
  <1> HIDE DEF hits
  <1>4. Max(hits) \in hits /\ \A y \in hits : y <= Max(hits)
    BY <1>1, <1>2, <1>3, MaxOf
  <1> QED
    BY <1>4 DEF hits, TopHit, Hit

\* Two lists with the same entries of k that are not hidden resolve alike.
LEMMA ResolveSame ==
    ASSUME NEW f, NEW g, NEW k, Numbered(f), Numbered(g),
           \A n : Hit(f, n, k) <=> Hit(g, n, k),
           \A n : Hit(f, n, k) => f[n][k] = g[n][k]
    PROVE  Resolve(f, k) = Resolve(g, k)
  <1>1. CASE \E n : TopHit(f, n, k)
    <2>1. PICK n : TopHit(f, n, k)
      BY <1>1
    <2>2. TopHit(g, n, k) /\ f[n][k] = g[n][k]
      BY <2>1 DEF TopHit
    <2> QED
      BY <2>1, <2>2, ResolveTop
  <1>2. CASE \A n : ~ Hit(f, n, k)
    BY <1>2, ResolveNone
  <1> QED
    BY <1>1, <1>2, ResolveCases

LEMMA Numbers ==
    ASSUME TypeOK, sst_counter \in Nat
    PROVE  Numbered(readers) /\ Numbered(disk) /\ \A d \in crashable : Numbered(d)
  <1>1. ASSUME NEW d \in crashable \union {disk, readers} PROVE Numbered(d)
    <2>1. DOMAIN d \subseteq Nat /\ \A n \in DOMAIN d : n < sst_counter
      BY DEF TypeOK, Files
    <2>2. \A n \in DOMAIN d : n <= sst_counter
      BY <2>1
    <2> QED
      BY <2>1, <2>2 DEF Numbered
  <1> QED
    BY <1>1

LEMMA WithTop ==
    ASSUME NEW f, NEW n \in Nat, NEW layer, NEW k, Numbered(f),
           \A m \in DOMAIN f : m < n
    PROVE  Resolve(With(f, n, layer), k)
             = IF layer[k] # Absent THEN layer[k] ELSE Resolve(f, k)
  <1> DEFINE g == With(f, n, layer)
  <1>1. /\ DOMAIN g = DOMAIN f \union {n} /\ g[n] = layer
        /\ \A m \in DOMAIN f : g[m] = f[m]
    BY DEF With, Numbered
  <1>2. Numbered(g)
    <2>1. \A m \in DOMAIN g : m \in Nat /\ m <= n
      BY <1>1 DEF Numbered
    <2> QED
      BY <2>1 DEF Numbered
  <1> HIDE DEF g
  <1>3. CASE layer[k] # Absent
    <2>1. TopHit(g, n, k)
      <3>1. ASSUME NEW m, Hit(g, m, k) PROVE m <= n
        BY <1>1, <3>1 DEF Hit, Numbered
      <3> QED
        BY <1>1, <1>3, <3>1 DEF TopHit, Hit
    <2> QED
      BY <1>1, <1>2, <1>3, <2>1, ResolveTop DEF g
  <1>4. CASE layer[k] = Absent
    <2>1. \A m : Hit(f, m, k) <=> Hit(g, m, k)
      BY <1>1, <1>4 DEF Hit, Numbered
    <2>2. \A m : Hit(f, m, k) => f[m][k] = g[m][k]
      BY <1>1 DEF Hit
    <2> QED
      BY <1>2, <1>4, <2>1, <2>2, ResolveSame DEF g
  <1> QED
    BY <1>3, <1>4

\* A key the cover does not hold reads the same from such a directory.
LEMMA ExtendsResolves ==
    ASSUME NEW d, NEW k \in Keys, Numbered(d), Numbered(readers), Extends(d),
           Cover[k] = Absent
    PROVE  Resolve(d, k) = Resolve(readers, k)
  <1>1. \A n : Hit(d, n, k) <=> Hit(readers, n, k)
    BY DEF Hit, Extends
  <1>2. \A n : Hit(d, n, k) => d[n][k] = readers[n][k]
    BY <1>1 DEF Hit, Extends
  <1> QED
    BY <1>1, <1>2, ResolveSame

\* n is in d only because of a flush that failed after its rename.
Stray(d, n) == n \in DOMAIN d \ DOMAIN readers /\ n # comp.num

LEMMA CommitShows ==
    ASSUME TypeOK, Choice, MergeOf, Hidden, Numbered(readers),
           NEW d, NEW left, Numbered(d), CommitDir(d, left), NEW k \in Keys
    PROVE  \/ VisibleOf(Resolve(d, k)) = VisibleOf(Resolve(readers, k))
           \/ \E n : Stray(d, n) /\ TopHit(d, n, k)
  <1>0. /\ comp.num \in Nat /\ comp.kind \in {"full", "partial"}
        /\ comp.run \subseteq DOMAIN readers /\ DOMAIN readers \subseteq Nat
        /\ DOMAIN d \subseteq Nat /\ comp.run # {}
    BY DEF TypeOK, Choice, Numbered
  <1>1. /\ DOMAIN Inputs = comp.run /\ \A n \in comp.run : Inputs[n] = readers[n]
    BY DEF Inputs
  <1>2. Numbered(Inputs)
    BY <1>0, <1>1 DEF Numbered
  \* If the inputs hold the key and no other reader above them does, they decide.
  <1>3. ASSUME NEW h, TopHit(Inputs, h, k),
               \A n : Hit(readers, n, k) /\ n \notin comp.run => ~ AboveRun(n)
        PROVE  TopHit(readers, h, k) /\ Resolve(readers, k) = Resolve(Inputs, k)
    <2>1. h \in comp.run /\ Hit(readers, h, k) /\ Inputs[h] = readers[h]
      BY <1>0, <1>1, <1>3 DEF TopHit, Hit
    <2>2. ASSUME NEW m, Hit(readers, m, k) PROVE m <= h
      <3>1. CASE m \in comp.run
        BY <1>1, <1>3, <2>2, <3>1 DEF TopHit, Hit
      <3>2. CASE m \notin comp.run
        <4>1. m < h
          BY <1>3, <2>1, <2>2, <3>2 DEF Choice, Hit
        <4> QED
          BY <1>0, <2>1, <2>2, <4>1 DEF Hit
      <3> QED
        BY <3>1, <3>2
    <2>3. TopHit(readers, h, k)
      BY <2>1, <2>2 DEF TopHit
    <2> QED
      BY <1>2, <1>3, <2>1, <2>3, ResolveTop
  <1>4. ASSUME NEW t, TopHit(d, t, k), ~ Stray(d, t)
        PROVE  VisibleOf(Resolve(d, k)) = VisibleOf(Resolve(readers, k))
    <2>0. /\ Resolve(d, k) = d[t][k] /\ d[t][k] # Absent /\ t \in DOMAIN d
          /\ t \in Nat
      BY <1>0, <1>4, ResolveTop DEF TopHit, Hit
    <2>1. CASE t = comp.num
      <3>1. comp.out[k] = d[t][k] /\ comp.out[k] = Resolve(Inputs, k)
        BY <2>0, <2>1 DEF CommitDir, MergeOf
      <3>2. PICK h : TopHit(Inputs, h, k)
        BY <1>2, <2>0, <3>1, ResolveCases, ResolveNone
      <3>3. ASSUME NEW n, Hit(readers, n, k), n \notin comp.run, AboveRun(n)
            PROVE  FALSE
        <4>1. n \in DOMAIN readers \ comp.run /\ Hit(d, n, k) /\ n \in Nat
          BY <1>0, <3>3 DEF Hit, CommitDir
        <4>2. n <= comp.num
          BY <1>4, <2>1, <4>1 DEF TopHit
        <4>3. CASE comp.kind = "partial"
          BY <1>0, <3>3, <4>1, <4>2, <4>3 DEF Choice, AboveRun
        <4>4. CASE comp.kind = "full"
          <5>1. n < comp.num
            BY <1>0, <4>1, <4>2, <4>4 DEF Choice
          <5>2. PICK f \in DOMAIN readers : f > comp.num /\ readers[f][k] # Absent
            BY <3>3, <4>1, <5>1 DEF Hidden, Hit
          <5>3. f \notin comp.run
            BY <1>0, <4>4, <5>2 DEF Choice, AboveRun
          <5>4. Hit(d, f, k)
            BY <5>2, <5>3 DEF Hit, CommitDir
          <5>5. f <= comp.num
            BY <1>4, <2>1, <5>4 DEF TopHit
          <5> QED
            BY <1>0, <5>2, <5>5
        <4> QED
          BY <1>0, <4>3, <4>4
      <3>4. Resolve(readers, k) = Resolve(Inputs, k)
        BY <1>3, <3>2, <3>3
      <3> QED
        BY <2>0, <3>1, <3>4
    <2>2. CASE t \in left
      <3>1. t \in comp.run /\ Hit(readers, t, k) /\ d[t] = readers[t]
        BY <1>0, <2>0, <2>2 DEF Hit, CommitDir
      <3>2. ASSUME NEW n, Hit(readers, n, k) PROVE n <= t
        <4>1. n \in Nat /\ n \in DOMAIN readers /\ readers[n][k] # Absent
          BY <1>0, <3>2 DEF Hit
        <4>2. CASE n \in left \/ n \notin comp.run
          <5>1. Hit(d, n, k)
            BY <4>1, <4>2 DEF Hit, CommitDir
          <5> QED
            BY <1>4, <5>1 DEF TopHit
        <4>3. CASE n \in comp.run \ {comp.num} /\ n \notin left
          BY <2>0, <2>2, <4>1, <4>3 DEF CommitDir
        <4>4. CASE n = comp.num /\ n \in comp.run
          BY <1>0, <2>0, <3>1, <4>1, <4>4 DEF Choice, AboveRun
        <4> QED
          BY <4>2, <4>3, <4>4
      <3>3. TopHit(readers, t, k)
        BY <3>1, <3>2 DEF TopHit
      <3> QED
        BY <2>0, <3>1, <3>3, ResolveTop
    <2>3. CASE t \in DOMAIN readers \ comp.run
      <3>1. Hit(readers, t, k) /\ d[t] = readers[t]
        BY <2>0, <2>3 DEF Hit, CommitDir
      <3>2. ASSUME NEW n, Hit(readers, n, k) PROVE n <= t
        <4>1. n \in Nat /\ n \in DOMAIN readers /\ readers[n][k] # Absent
          BY <1>0, <3>2 DEF Hit
        <4>2. CASE n \notin comp.run
          <5>1. Hit(d, n, k)
            BY <4>1, <4>2 DEF Hit, CommitDir
          <5> QED
            BY <1>4, <5>1 DEF TopHit
        <4>3. CASE n \in comp.run
          <5>1. CASE AboveRun(t)
            BY <2>0, <4>1, <4>3, <5>1 DEF AboveRun
          <5>2. CASE \A m \in comp.run : t < m
            <6>1. Hit(Inputs, n, k)
              BY <1>1, <4>1, <4>3 DEF Hit
            <6>2. Resolve(Inputs, k) # Absent
              BY <1>2, <6>1, ResolveCases, ResolveTop
            <6>3. ~ AboveRun(t)
              BY <1>0, <2>0, <4>1, <4>3, <5>2 DEF AboveRun
            <6>4. comp.out[k] # Absent
              BY <2>3, <6>2, <6>3 DEF MergeOf
            <6>5. Hit(d, comp.num, k)
              BY <6>4 DEF Hit, CommitDir
            <6>6. comp.num <= t
              BY <1>4, <6>5 DEF TopHit
            <6>7. t < comp.num
              <7>1. CASE comp.kind = "partial"
                BY <5>2, <7>1 DEF Choice
              <7>2. CASE comp.kind = "full"
                BY <1>0, <2>0, <4>1, <4>3, <5>2, <7>2 DEF Choice, AboveRun
              <7> QED
                BY <1>0, <7>1, <7>2
            <6> QED
              BY <1>0, <2>0, <6>6, <6>7
          <5> QED
            BY <2>3, <5>1, <5>2 DEF Choice
        <4> QED
          BY <4>2, <4>3
      <3>3. TopHit(readers, t, k)
        BY <3>1, <3>2 DEF TopHit
      <3> QED
        BY <2>0, <3>1, <3>3, ResolveTop
    <2>4. t = comp.num \/ t \in left \/ t \in DOMAIN readers \ comp.run
      BY <1>4, <2>0 DEF Stray, CommitDir
    <2> QED
      BY <2>1, <2>2, <2>3, <2>4
  <1>5. ASSUME \A n : ~ Hit(d, n, k)
        PROVE  VisibleOf(Resolve(d, k)) = VisibleOf(Resolve(readers, k))
    <2>1. Resolve(d, k) = Absent
      BY <1>5, ResolveNone
    <2>2. comp.out[k] = Absent
      BY <1>5 DEF Hit, CommitDir
    <2>3. ASSUME NEW n, Hit(readers, n, k) PROVE n \in comp.run
      BY <1>5, <2>3 DEF Hit, CommitDir
    <2>4. CASE \E h : TopHit(Inputs, h, k)
      <3>1. PICK h : TopHit(Inputs, h, k)
        BY <2>4
      <3>2. Resolve(Inputs, k) # Absent
        BY <1>2, <3>1, ResolveTop
      <3>3. Resolve(Inputs, k) = Tombstone
        BY <2>2, <3>2 DEF MergeOf
      <3>4. Resolve(readers, k) = Tombstone
        BY <1>3, <2>3, <3>1, <3>3
      <3> QED
        BY <2>1, <3>4, LayerAssumption DEF VisibleOf
    <2>5. CASE \A h : ~ Hit(Inputs, h, k)
      <3>1. \A n : ~ Hit(readers, n, k)
        BY <1>1, <2>3, <2>5 DEF Hit
      <3> QED
        BY <2>1, <3>1, ResolveNone
    <2> QED
      BY <1>2, <2>4, <2>5, ResolveCases
  <1> QED
    BY <1>4, <1>5, ResolveCases

-----------------------------------------------------------------------------
(* Types.                                                                  *)

\* The entry a well-formed set of files resolves a key to.
LEMMA ResolveType ==
    ASSUME NEW f, Files(f), Numbered(f), NEW k \in Keys
    PROVE  Resolve(f, k) \in Entries \union {Absent}
  <1>1. CASE \E n : TopHit(f, n, k)
    <2>1. PICK n : TopHit(f, n, k)
      BY <1>1
    <2>2. f[n] \in Layer /\ Resolve(f, k) = f[n][k]
      BY <2>1, ResolveTop DEF TopHit, Hit, Files
    <2> QED
      BY <2>2 DEF Layer
  <1>2. CASE \A n : ~ Hit(f, n, k)
    BY <1>2, ResolveNone
  <1> QED
    BY <1>1, <1>2, ResolveCases

LEMMA VisibleType == ASSUME NEW e PROVE VisibleOf(e) \in Values \union {Absent}
  BY DEF VisibleOf

LEMMA EmptyType == Empty \in Layer /\ \A k \in Keys : Empty[k] = Absent
  BY DEF Empty, Layer

\* A directory of files with numbers below c.
Below(d, c) == Files(d) /\ \A n \in DOMAIN d : n < c

LEMMA WithType ==
    ASSUME NEW c \in Nat, NEW d, Below(d, c), NEW n \in Nat, n < c,
           NEW layer \in Layer
    PROVE  Below(With(d, n, layer), c)
  BY DEF Below, Files, With

LEMMA WithoutType ==
    ASSUME NEW c \in Nat, NEW d, Below(d, c), NEW S
    PROVE  Below(Without(d, S), c)
  BY DEF Below, Files, Without

Store == crashable \union {disk, readers}

LEMMA BelowRaised ==
    ASSUME NEW c \in Nat, NEW d, Below(d, c)
    PROVE  Below(d, c + 1)
  BY DEF Below, Files

\* What a merge of open readers makes.
LEMMA MergedType ==
    ASSUME Files(readers), Numbered(readers), NEW run \in SUBSET DOMAIN readers,
           NEW drop \in BOOLEAN
    PROVE  /\ Merged(run, drop) \in Layer
           /\ \A k \in Keys :
                LET m == Resolve([n \in run |-> readers[n]], k)
                IN  \/ Merged(run, drop)[k] = m
                    \/ drop /\ m = Tombstone /\ Merged(run, drop)[k] = Absent
  <1> DEFINE f == [n \in run |-> readers[n]]
             m == Resolved(f)
  <1>1. Files(f) /\ Numbered(f)
    BY DEF Files, Numbered
  <1> HIDE DEF f
  <1>2. m \in Layer /\ \A k \in Keys : m[k] = Resolve(f, k)
    BY <1>1, ResolveType DEF Resolved, Layer
  <1>3. Merged(run, drop) = IF drop THEN DropTombstones(m) ELSE m
    BY DEF Merged, f
  <1> HIDE DEF m
  <1>4. DropTombstones(m) \in Layer
    BY <1>2 DEF DropTombstones, Layer
  <1>5. \A k \in Keys :
          DropTombstones(m)[k] = IF m[k] = Tombstone THEN Absent ELSE m[k]
    BY DEF DropTombstones
  <1>6. Merged(run, drop) \in Layer
    BY <1>2, <1>3, <1>4
  <1>7. ASSUME NEW k \in Keys
        PROVE  \/ Merged(run, drop)[k] = Resolve(f, k)
               \/ drop /\ Resolve(f, k) = Tombstone /\ Merged(run, drop)[k] = Absent
    BY <1>2, <1>3, <1>5
  <1> QED
    BY <1>6, <1>7 DEF f

\* Publishing takes the directory as it is: no open reader differs from it.
LEMMA ReloadAll ==
    ASSUME NEW u, \A n \in DOMAIN disk : n \in DOMAIN u => u[n] = disk[n]
    PROVE  /\ DOMAIN Reload(u) = DOMAIN disk
           /\ \A n \in DOMAIN disk : Reload(u)[n] = disk[n]
  BY DEF Reload

Small ==
    /\ {mem, parked, wal} \subseteq Layer
    /\ flush \in [at : {"idle", "write", "renamed", "reload"}, num : Nat,
                  rotate : BOOLEAN]
    /\ rotation \in {"no", "flush", "truncate", "fenced"}
    /\ comp \in [at : {"idle", "merge", "commit"} \union CommitPcs,
                 kind : {"full", "partial"}, num : Nat, run : SUBSET Nat,
                 left : SUBSET Nat, out : Layer]
    /\ queue \in Seq(Keys \X Entries)
    /\ safe \in [Keys -> Values \union {Absent}]

FilesOK == (\A d \in Store : Below(d, sst_counter)) /\ disk \in crashable

LEMMA TypeParts == TypeInv <=> Small /\ FilesOK /\ sst_counter \in Nat \ {0}
  BY DEF TypeInv, TypeOK, Small, FilesOK, Store, Below

LEMMA NoFlushType ==
    NoFlush \in [at : {"idle", "write", "renamed", "reload"}, num : Nat,
                 rotate : BOOLEAN]
  BY DEF NoFlush

LEMMA NoCompType ==
    NoComp \in [at : {"idle", "merge", "commit"} \union CommitPcs,
                kind : {"full", "partial"}, num : Nat, run : SUBSET Nat,
                left : SUBSET Nat, out : Layer]
  BY EmptyType DEF NoComp

LEMMA SmallStep ==
    ASSUME TypeInv, [Next]_vars
    PROVE  Small'
  <1> USE DEF Small
  <1>0. Small /\ FilesOK /\ sst_counter \in Nat \ {0}
    BY TypeParts
  <1>r. Files(readers) /\ Numbered(readers) /\ DOMAIN readers \subseteq Nat
    BY <1>0, Numbers DEF FilesOK, Store, Below, TypeInv, Files
  <1>1. ASSUME NEW k \in Keys, NEW e \in Entries, Apply(k, e) PROVE Small'
    <2>1. mem' \in Layer
      BY <1>0, <1>1 DEF Apply, Layer
    <2>2. queue' \in Seq(Keys \X Entries)
      BY <1>0, <1>1 DEF Apply
    <2> QED
      BY <1>0, <1>1, <2>1, <2>2 DEF Apply
  <1>2. CASE LogCommit
    <2>1. PICK r \in Keys \X Entries : r = Head(queue)
      BY <1>0, <1>2 DEF LogCommit
    <2>2. r[1] \in Keys /\ r[2] \in Entries /\ VisibleOf(r[2]) \in Values \union {Absent}
      BY <2>1, VisibleType
    <2>3. wal' = [wal EXCEPT ![r[1]] = r[2]]
          /\ safe' = [safe EXCEPT ![r[1]] = VisibleOf(r[2])]
      BY <1>2, <2>1 DEF LogCommit
    <2>4. wal' \in Layer /\ safe' \in [Keys -> Values \union {Absent}]
      BY <1>0, <2>2, <2>3 DEF Layer
    <2>5. queue' \in Seq(Keys \X Entries)
      BY <1>0, <1>2 DEF LogCommit
    <2> QED
      BY <1>0, <1>2, <2>4, <2>5 DEF LogCommit
  <1>3. CASE RotateBegin \/ RotateNothingToFlush \/ RotateTruncate
    BY <1>0, <1>3, EmptyType DEF RotateBegin, RotateNothingToFlush,
       RotateTruncate, layerVars, histVars
  <1>4. ASSUME NEW rotate \in BOOLEAN, FlushSwap(rotate) PROVE Small'
    BY <1>0, <1>4, EmptyType DEF FlushSwap, histVars
  <1>5. CASE FlushRename \/ FlushSyncDir
    BY <1>0, <1>5 DEF FlushRename, FlushSyncDir, layerVars, histVars
  <1>6. CASE FlushPublish
    BY <1>0, <1>6, EmptyType, NoFlushType DEF FlushPublish, histVars
  <1>7. CASE FlushFault
    <2>1. mem' \in Layer
      BY <1>0, <1>7 DEF FlushFault, Reabsorb, Overlay, Layer
    <2> QED
      BY <1>0, <1>7, <2>1, EmptyType, NoFlushType
         DEF FlushFault, Reabsorb, histVars
  <1>8. CASE FullBegin
    <2>1. Merged(DOMAIN readers, TRUE) \in Layer
      BY <1>r, MergedType
    <2> QED
      BY <1>0, <1>8, <1>r, <2>1 DEF FullBegin, layerVars, histVars
  <1>9. ASSUME NEW run \in SUBSET DOMAIN readers, PartialBegin(run) PROVE Small'
    <2>1. Merged(run, DropAllowed(run)) \in Layer
      BY <1>r, MergedType DEF DropAllowed
    <2>2. run \in SUBSET Nat /\ run # {}
      <3>1. Cardinality(run) >= MergeMin /\ run \in SUBSET Nat
        BY <1>9, <1>r DEF PartialBegin, Runs
      <3>2. CASE run = {}
        <4>1. Cardinality(run) = 0
          BY <3>2, FS_EmptySet
        <4> QED
          BY <3>1, <4>1, LayerAssumption
      <3> QED
        BY <3>1, <3>2
    <2>3. TargetNum(run) \in Nat
      BY <2>2, MinOf DEF TargetNum
    <2> QED
      BY <1>0, <1>9, <2>1, <2>2, <2>3 DEF PartialBegin, layerVars, histVars
  <1>10. CASE \/ CompactMerge \/ CompactRename \/ CompactSyncRename
              \/ CompactSyncUnlinks
    BY <1>0, <1>10 DEF CompactMerge, CompactRename, CompactSyncRename,
       CompactSyncUnlinks, layerVars, histVars, CommitPcs
  <1>11. CASE CompactUnlink
    BY <1>0, <1>11 DEF CompactUnlink, layerVars, histVars
  <1>12. CASE CompactPublish \/ CompactFault
    BY <1>0, <1>12, NoCompType
       DEF CompactPublish, CompactFault, layerVars, histVars
  <1>13. ASSUME NEW d \in crashable, CrashAndOpen(d) PROVE Small'
    <2>1. Recovered(d) \in [Keys -> Values \union {Absent}]
      BY VisibleType DEF Recovered
    <2>2. queue' \in Seq(Keys \X Entries)
      BY <1>13 DEF CrashAndOpen
    <2> QED
      BY <1>0, <1>13, <2>1, <2>2, EmptyType, NoFlushType, NoCompType
         DEF CrashAndOpen
  <1>14. CASE UNCHANGED vars
    BY <1>0, <1>14 DEF vars, layerVars, histVars
  <1> QED
    BY <1>1, <1>2, <1>3, <1>4, <1>5, <1>6, <1>7, <1>8, <1>9, <1>10, <1>11,
       <1>12, <1>13, <1>14 DEF Next

LEMMA FilesStep ==
    ASSUME TypeInv, FlushInv, CompInv, [Next]_vars
    PROVE  FilesOK' /\ sst_counter' \in Nat \ {0}
  <1>0. Small /\ FilesOK /\ sst_counter \in Nat \ {0}
    BY TypeParts
  <1>d. Below(disk, sst_counter) /\ Below(readers, sst_counter)
    BY <1>0 DEF FilesOK, Store
  \* A step that adds at most one directory of the right shape.
  <1>1. ASSUME NEW d, Below(d, sst_counter), disk' = d,
               crashable' = crashable \union {d}, UNCHANGED <<readers, sst_counter>>
        PROVE  FilesOK' /\ sst_counter' \in Nat \ {0}
    BY <1>0, <1>1 DEF FilesOK, Store
  <1>2. ASSUME SyncDir, UNCHANGED <<readers, sst_counter>>
        PROVE  FilesOK' /\ sst_counter' \in Nat \ {0}
    BY <1>0, <1>d, <1>2 DEF FilesOK, Store, SyncDir
  <1>3. ASSUME UNCHANGED fileVars PROVE FilesOK' /\ sst_counter' \in Nat \ {0}
    BY <1>0, <1>3 DEF FilesOK, Store, fileVars
  <1>4. ASSUME UNCHANGED <<disk, crashable, readers>>,
               sst_counter' = sst_counter + 1
        PROVE  FilesOK' /\ sst_counter' \in Nat \ {0}
    <2>1. \A d \in Store : Below(d, sst_counter + 1)
      BY <1>0, BelowRaised DEF FilesOK
    <2> QED
      BY <1>0, <1>4, <2>1 DEF FilesOK, Store
  <1>5. ASSUME NEW u, readers' = Reload(u),
               \A n \in DOMAIN disk : n \in DOMAIN u => u[n] \in Layer,
               UNCHANGED <<disk, crashable, sst_counter>>
        PROVE  FilesOK' /\ sst_counter' \in Nat \ {0}
    <2>1. Below(readers', sst_counter)
      BY <1>d, <1>5 DEF Reload, Below, Files
    <2> QED
      BY <1>0, <1>5, <2>1 DEF FilesOK, Store
  <1>6. \A n \in DOMAIN readers : readers[n] \in Layer
    BY <1>d DEF Below, Files
  <1>7. CASE FlushRename
    <2>1. Below(With(disk, flush.num, parked), sst_counter)
      BY <1>0, <1>d, <1>7, WithType DEF FlushRename, FlushInv, Small
    <2> QED
      BY <1>1, <1>7, <2>1 DEF FlushRename, DirOp
  <1>8. CASE CompactRename
    <2>1. Below(With(disk, comp.num, comp.out), sst_counter)
      BY <1>0, <1>d, <1>8, WithType DEF CompactRename, CompInv, Small
    <2> QED
      BY <1>1, <1>8, <2>1 DEF CompactRename, DirOp
  <1>9. CASE CompactUnlink
    <2>1. Below(Without(disk, {NextUnlink}), sst_counter)
      BY <1>0, <1>d, WithoutType
    <2> QED
      BY <1>1, <1>9, <2>1 DEF CompactUnlink, DirOp
  <1>10. CASE FlushSyncDir \/ CompactMerge \/ CompactSyncRename \/ CompactSyncUnlinks
    BY <1>2, <1>10
       DEF FlushSyncDir, CompactMerge, CompactSyncRename, CompactSyncUnlinks
  <1>11. CASE FlushPublish
    BY <1>5, <1>6, <1>11 DEF FlushPublish
  <1>12. CASE CompactPublish
    <2>1. \A n \in DOMAIN Unchanged : Unchanged[n] \in Layer
      BY <1>6 DEF Unchanged, Without
    <2> QED
      BY <1>5, <1>12, <2>1 DEF CompactPublish
  <1>13. ASSUME NEW rotate \in BOOLEAN, FlushSwap(rotate)
         PROVE  FilesOK' /\ sst_counter' \in Nat \ {0}
    BY <1>4, <1>13 DEF FlushSwap
  <1>14. CASE FullBegin
    BY <1>4, <1>14 DEF FullBegin
  <1>15. ASSUME NEW d \in crashable, CrashAndOpen(d)
         PROVE  FilesOK' /\ sst_counter' \in Nat \ {0}
    <2>1. Below(d, sst_counter)
      BY <1>0 DEF FilesOK, Store
    <2>2. Below(d, NextNumber(d)) /\ NextNumber(d) \in Nat \ {0}
      <3>1. CASE DOMAIN d = {}
        BY <2>1, <3>1 DEF NextNumber, Below, Files
      <3>2. CASE DOMAIN d # {}
        <4>1. DOMAIN d \in SUBSET Nat /\ \A n \in DOMAIN d : n <= sst_counter
          BY <1>0, <2>1 DEF Below, Files
        <4>2. Max(DOMAIN d) \in DOMAIN d /\ \A n \in DOMAIN d : n <= Max(DOMAIN d)
          BY <1>0, <3>2, <4>1, MaxOf
        <4>3. PICK b \in Nat : b = Max(DOMAIN d)
          BY <4>1, <4>2
        <4>4. NextNumber(d) = b + 1 /\ \A n \in DOMAIN d : n <= b
          BY <3>2, <4>2, <4>3 DEF NextNumber
        <4>5. \A n \in DOMAIN d : n < b + 1
          BY <4>1, <4>4
        <4> QED
          BY <2>1, <4>4, <4>5 DEF Below
      <3> QED
        BY <3>1, <3>2
    <2>3. /\ disk' = d /\ crashable' = {d} /\ readers' = d
          /\ sst_counter' = NextNumber(d)
      BY <1>15 DEF CrashAndOpen
    <2> QED
      BY <2>2, <2>3 DEF FilesOK, Store
  <1>16. CASE \/ \E k \in Keys, e \in Entries : Apply(k, e)
              \/ LogCommit \/ RotateBegin \/ RotateNothingToFlush
              \/ RotateTruncate \/ FlushFault \/ CompactFault
              \/ \E run \in SUBSET DOMAIN readers : PartialBegin(run)
              \/ UNCHANGED vars
    <2>1. UNCHANGED fileVars
      BY <1>16 DEF Apply, LogCommit, RotateBegin, RotateNothingToFlush,
         RotateTruncate, FlushFault, CompactFault, PartialBegin, vars
    <2> QED
      BY <1>3, <2>1
  <1> QED
    BY <1>7, <1>8, <1>9, <1>10, <1>11, <1>12, <1>13, <1>14, <1>15, <1>16
       DEF Next

LEMMA TypeStep ==
    ASSUME TypeInv, FlushInv, CompInv, [Next]_vars
    PROVE  TypeInv'
  <1>1. Small'
    BY SmallStep
  <1>2. FilesOK' /\ sst_counter' \in Nat \ {0}
    BY FilesStep
  <1> QED
    BY <1>1, <1>2 DEF TypeInv, TypeOK, Small, FilesOK, Store, Below

-----------------------------------------------------------------------------
(* The flush lock and the flush's file.                                    *)

\* A chosen partial run, and the number its output takes.
LEMMA RunChosen ==
    ASSUME TypeInv, NEW run \in SUBSET DOMAIN readers, PartialBegin(run)
    PROVE  /\ run # {} /\ run \subseteq Nat
           /\ TargetNum(run) \in run /\ \A n \in run : TargetNum(run) <= n
           /\ \A n \in DOMAIN readers \ run :
                 (\A m \in run : n < m) \/ (\A m \in run : m < n)
           /\ DropAllowed(run) =>
                 \A n \in DOMAIN readers \ run : \A m \in run : m < n
  <1>0. /\ Numbered(readers) /\ DOMAIN readers \subseteq Nat /\ run \in Runs
        /\ sst_counter \in Nat /\ \A n \in DOMAIN readers : n < sst_counter
    BY Numbers DEF TypeInv, Numbered, PartialBegin, TypeOK
  <1>1. run # {} /\ run \in SUBSET Nat
    <2>1. Cardinality(run) >= MergeMin
      BY <1>0 DEF Runs
    <2>2. CASE run = {}
      <3>1. Cardinality(run) = 0
        BY <2>2, FS_EmptySet
      <3> QED
        BY <2>1, <3>1, LayerAssumption
    <2> QED
      BY <1>0, <2>2
  <1>2. PICK lo \in Nat : lo = Min(run) /\ lo \in run /\ \A n \in run : lo <= n
    BY <1>1, MinOf
  <1>3. \A n \in run : n <= sst_counter
    BY <1>0
  <1>4. PICK hi \in Nat : hi = Max(run) /\ hi \in run /\ \A n \in run : n <= hi
    BY <1>0, <1>1, <1>3, MaxOf
  <1>5. ASSUME NEW n \in DOMAIN readers \ run
        PROVE  (\A m \in run : n < m) \/ (\A m \in run : m < n)
    <2>1. n \in Nat /\ (n < lo \/ hi < n)
      BY <1>0, <1>2, <1>4, <1>5 DEF Runs
    <2>2. CASE n < lo
      BY <1>1, <1>2, <2>1, <2>2
    <2>3. CASE hi < n
      BY <1>1, <1>4, <2>1, <2>3
    <2> QED
      BY <2>1, <2>2, <2>3
  <1>6. ASSUME DropAllowed(run), NEW n \in DOMAIN readers \ run
        PROVE  \A m \in run : m < n
    <2>1. lo <= n
      BY <1>0, <1>2, <1>6, MinOf DEF DropAllowed
    <2> QED
      BY <1>0, <1>2, <1>5, <2>1
  <1> QED
    BY <1>1, <1>2, <1>5, <1>6 DEF TargetNum

LEMMA FlushInvStep ==
    ASSUME TypeInv, FlushInv, CompInv, [Next]_vars
    PROVE  FlushInv'
  <1>0. /\ Small /\ FilesOK /\ sst_counter \in Nat \ {0}
        /\ \A d \in crashable : \A n \in DOMAIN d : n \in Nat /\ n < sst_counter
        /\ \A n \in DOMAIN readers : n \in Nat /\ n < sst_counter
        /\ disk \in crashable
    BY TypeParts DEF FilesOK, Store, Below, Files
  <1>i. NoFlush.at = "idle" /\ NoFlush.rotate = FALSE /\ NoComp.at = "idle"
    BY DEF NoFlush, NoComp
  \* Ending a flush.
  <1>1. ASSUME flush' = NoFlush, parked' = Empty PROVE FlushInv'
    BY <1>1, <1>i DEF FlushInv
  \* A step that leaves flush, files and the compaction alone.
  <1>2. ASSUME UNCHANGED <<flush, parked, fileVars>>,
               flush.at # "idle" /\ comp'.at # "idle" =>
                  comp'.at \notin CommitPcs /\ comp'.num < flush.num,
               flush.rotate => rotation' = "flush"
        PROVE  FlushInv'
    BY <1>2 DEF FlushInv, fileVars, CommitPcs
  <1>3. CASE \/ \E k \in Keys, e \in Entries : Apply(k, e)
             \/ LogCommit \/ UNCHANGED vars
    BY <1>2, <1>3 DEF Apply, LogCommit, vars, layerVars, FlushInv
  <1>4. CASE RotateBegin \/ RotateNothingToFlush \/ RotateTruncate
    BY <1>2, <1>4 DEF RotateBegin, RotateNothingToFlush, RotateTruncate,
       FlushLockFree, layerVars, FlushInv
  <1>5. ASSUME NEW rotate \in BOOLEAN, FlushSwap(rotate) PROVE FlushInv'
    <2>1. /\ flush'.at = "write" /\ flush'.num = sst_counter
          /\ flush'.rotate = rotate /\ sst_counter' = sst_counter + 1
          /\ UNCHANGED <<disk, crashable, readers, comp, rotation>>
          /\ rotate => rotation = "flush"
          /\ comp.at \notin CommitPcs
      BY <1>5 DEF FlushSwap, FlushLockFree
    <2>2. comp.at # "idle" => comp.num < sst_counter
      BY DEF CompInv
    <2> QED
      BY <1>0, <2>1, <2>2 DEF FlushInv
  <1>6. CASE FlushRename
    <2>1. /\ flush.at = "write" /\ flush'.at = "renamed" /\ flush'.num = flush.num
          /\ flush'.rotate = flush.rotate
          /\ UNCHANGED <<parked, readers, sst_counter, rotation, comp>>
          /\ disk' = With(disk, flush.num, parked)
          /\ crashable' = crashable \union {disk'}
      BY <1>0, <1>6 DEF FlushRename, DirOp, layerVars, Small
    <2>2. /\ DOMAIN disk' = DOMAIN disk \union {flush.num}
          /\ disk'[flush.num] = parked
      BY <2>1 DEF With
    <2>3. flush.num \in Nat
      BY <1>0 DEF Small
    <2>4. \A d \in crashable' : \A n \in DOMAIN d : n <= flush.num
      BY <1>0, <2>1, <2>2, <2>3 DEF FlushInv
    <2> QED
      BY <2>1, <2>2, <2>4 DEF FlushInv
  <1>7. CASE FlushSyncDir
    <2>1. /\ flush.at = "renamed" /\ flush'.at = "reload" /\ flush'.num = flush.num
          /\ flush'.rotate = flush.rotate
          /\ UNCHANGED <<parked, readers, sst_counter, rotation, comp, disk>>
          /\ crashable' = {disk}
      BY <1>0, <1>7 DEF FlushSyncDir, SyncDir, layerVars, Small
    <2> QED
      BY <1>0, <2>1 DEF FlushInv
  <1>8. CASE FlushPublish
    BY <1>1, <1>8 DEF FlushPublish
  <1>9. CASE FlushFault
    BY <1>1, <1>9 DEF FlushFault, Reabsorb
  <1>10. CASE FullBegin
    BY <1>10 DEF FullBegin, FlushInv, FlushLockFree, layerVars
  <1>11. ASSUME NEW run \in SUBSET DOMAIN readers, PartialBegin(run)
         PROVE  FlushInv'
    <2>1. /\ UNCHANGED <<flush, parked, fileVars, rotation>>
          /\ comp'.at = "merge" /\ comp'.num = TargetNum(run)
      BY <1>11 DEF PartialBegin, layerVars
    <2>2. TargetNum(run) \in DOMAIN readers
      BY <1>11, RunChosen
    <2>3. flush.at # "idle" => comp'.at \notin CommitPcs /\ comp'.num < flush.num
      BY <2>1, <2>2 DEF FlushInv, CommitPcs
    <2> QED
      BY <1>2, <2>1, <2>3 DEF FlushInv
  <1>12. CASE CompactMerge
    <2>1. /\ UNCHANGED <<flush, parked, readers, sst_counter, rotation, disk>>
          /\ comp.at = "merge" /\ comp'.at = "commit" /\ comp'.num = comp.num
          /\ crashable' = {disk}
      BY <1>0, <1>12 DEF CompactMerge, SyncDir, layerVars, Small
    <2> QED
      BY <1>0, <2>1 DEF FlushInv, CommitPcs
  <1>13. CASE \/ CompactRename \/ CompactSyncRename \/ CompactUnlink
              \/ CompactSyncUnlinks \/ CompactPublish
    <2>1. UNCHANGED <<flush, parked, rotation>> /\ flush.at = "idle"
      BY <1>13 DEF CompactRename, CompactSyncRename, CompactUnlink,
         CompactSyncUnlinks, CompactPublish, layerVars, FlushInv, CommitPcs
    <2> QED
      BY <2>1 DEF FlushInv
  <1>14. CASE CompactFault
    BY <1>2, <1>14, <1>i DEF CompactFault, layerVars, FlushInv
  <1>15. ASSUME NEW d \in crashable, CrashAndOpen(d) PROVE FlushInv'
    BY <1>1, <1>15 DEF CrashAndOpen
  <1> QED
    BY <1>3, <1>4, <1>5, <1>6, <1>7, <1>8, <1>9, <1>10, <1>11, <1>12, <1>13,
       <1>14, <1>15 DEF Next

-----------------------------------------------------------------------------
(* Directories outside a compaction's commit.                              *)

\* Publishing makes the reader list the directory, which is then durable.
LEMMA Published ==
    ASSUME FlushInv, DirInv, CompInv, CommitInv, FlushPublish \/ CompactPublish,
           disk \in crashable
    PROVE  /\ crashable = {disk} /\ crashable' = {disk} /\ disk' = disk
           /\ DOMAIN readers' = DOMAIN disk
           /\ \A n \in DOMAIN disk : readers'[n] = disk[n]
  <1>1. CASE FlushPublish
    <2>1. crashable = {disk} /\ Extends(disk)
      BY <1>1 DEF FlushPublish, FlushInv, DirInv
    <2>2. /\ DOMAIN readers' = DOMAIN disk
          /\ \A n \in DOMAIN disk : readers'[n] = disk[n]
      BY <1>1, <2>1, ReloadAll DEF FlushPublish, Extends
    <2> QED
      BY <1>1, <2>1, <2>2 DEF FlushPublish
  <1>2. CASE CompactPublish
    <2>1. /\ comp.at \in CommitPcs /\ crashable = {disk} /\ comp.left = {}
          /\ CommitDir(disk, {})
      BY <1>2 DEF CompactPublish, CommitInv, CommitPcs
    <2>2. ASSUME NEW n \in DOMAIN disk, n \in DOMAIN Unchanged
          PROVE  Unchanged[n] = disk[n]
      <3>1. n \in DOMAIN readers /\ Unchanged[n] = readers[n]
        BY <2>2 DEF Unchanged, Without
      <3>2. CASE n \notin comp.run
        BY <2>1, <3>1, <3>2 DEF CommitDir
      <3>3. CASE n \in comp.run
        <4>1. n = comp.num
          BY <2>1, <2>2, <3>3 DEF CommitDir
        <4>2. comp.kind = "full"
          BY <2>2, <3>3 DEF Unchanged, Without
        <4> QED
          BY <2>1, <3>1, <4>1, <4>2 DEF CompInv, Choice, CommitPcs
      <3> QED
        BY <3>2, <3>3
    <2>3. /\ DOMAIN readers' = DOMAIN disk
          /\ \A n \in DOMAIN disk : readers'[n] = disk[n]
      BY <1>2, <2>2, ReloadAll DEF CompactPublish
    <2> QED
      BY <1>2, <2>1, <2>3 DEF CompactPublish
  <1> QED
    BY <1>1, <1>2

LEMMA DirStep ==
    ASSUME TypeInv, FlushInv, DirInv, CompInv, CommitInv, [Next]_vars
    PROVE  DirInv'
  <1>0. /\ Small /\ FilesOK /\ sst_counter \in Nat \ {0}
        /\ \A d \in crashable : \A n \in DOMAIN d : n \in Nat /\ n < sst_counter
        /\ \A n \in DOMAIN readers : n \in Nat /\ n < sst_counter
        /\ disk \in crashable
    BY TypeParts DEF FilesOK, Store, Below, Files
  <1>e. \A k \in Keys : Empty[k] = Absent
    BY EmptyType
  \* The same files, and a cover that holds as many keys.
  <1>1. ASSUME comp'.at \notin CommitPcs => comp.at \notin CommitPcs,
               UNCHANGED readers, crashable' \subseteq crashable,
               \A k \in Keys : Cover[k] # Absent => Cover'[k] # Absent
        PROVE  DirInv'
    BY <1>1 DEF DirInv, Extends
  <1>2. ASSUME NEW k \in Keys, NEW e \in Entries, Apply(k, e) PROVE DirInv'
    <2>1. e # Absent
      BY LayerAssumption DEF Entries
    <2>2. \A j \in Keys : mem[j] # Absent => mem'[j] # Absent
      BY <1>0, <1>2, <2>1 DEF Apply, Small, Layer
    <2>3. \A j \in Keys : Cover[j] # Absent => Cover'[j] # Absent
      BY <1>2, <2>2 DEF Apply, Cover
    <2> QED
      BY <1>1, <1>2, <2>3 DEF Apply, fileVars
  <1>3. CASE \/ LogCommit \/ RotateBegin \/ RotateNothingToFlush
             \/ RotateTruncate \/ UNCHANGED vars
    <2>1. UNCHANGED <<mem, parked, flush, comp, readers, crashable>>
      BY <1>3 DEF LogCommit, RotateBegin, RotateNothingToFlush,
         RotateTruncate, vars, layerVars, fileVars
    <2> QED
      BY <1>1, <2>1 DEF Cover
  <1>4. ASSUME NEW rotate \in BOOLEAN, FlushSwap(rotate) PROVE DirInv'
    <2>1. /\ flush.at = "idle" /\ flush'.at = "write" /\ parked' = mem
          /\ UNCHANGED <<comp, readers, crashable>>
      BY <1>4 DEF FlushSwap, FlushLockFree
    <2>2. Cover = mem /\ Cover' = mem
      BY <2>1 DEF Cover
    <2> QED
      BY <1>1, <2>1, <2>2
  <1>5. CASE FlushRename
    <2>1. /\ flush.at = "write" /\ flush'.at = "renamed"
          /\ UNCHANGED <<mem, parked, readers, comp>>
          /\ disk' = With(disk, flush.num, parked)
          /\ crashable' = crashable \union {disk'}
      BY <1>0, <1>5 DEF FlushRename, DirOp, layerVars, Small
    <2>2. /\ DOMAIN disk' = DOMAIN disk \union {flush.num}
          /\ disk'[flush.num] = parked
          /\ \A n \in DOMAIN disk : n # flush.num => disk'[n] = disk[n]
      BY <2>1 DEF With
    <2>3. /\ comp.at \notin CommitPcs /\ flush.num \notin DOMAIN disk
          /\ \A n \in DOMAIN readers : n < flush.num
      BY <1>0, <2>1 DEF FlushInv
    <2>4. Cover = parked /\ Cover' = parked
      BY <2>1 DEF Cover
    <2>5. \A d \in crashable : Extends(d)
      BY <2>3 DEF DirInv
    <2>d. PICK D : D = disk'
      OBVIOUS
    <2>6. Extends(D)'
      BY <1>0, <2>1, <2>2, <2>3, <2>4, <2>5, <2>d DEF Extends
    <2>7. \A d \in crashable : Extends(d)'
      BY <2>1, <2>4, <2>5 DEF Extends
    <2> QED
      BY <2>1, <2>6, <2>7, <2>d DEF DirInv
  <1>6. CASE FlushSyncDir
    <2>1. /\ flush.at = "renamed" /\ flush'.at = "reload"
          /\ UNCHANGED <<mem, parked, readers, comp>> /\ crashable' = {disk}
      BY <1>0, <1>6 DEF FlushSyncDir, SyncDir, layerVars, Small
    <2>2. Cover' = Cover
      BY <2>1 DEF Cover
    <2> QED
      BY <1>0, <1>1, <2>1, <2>2
  \* A list that is the directory.
  <1>7. ASSUME DOMAIN readers' = DOMAIN disk, crashable' = {disk},
               \A n \in DOMAIN disk : readers'[n] = disk[n]
        PROVE  DirInv'
    BY <1>7 DEF DirInv, Extends
  <1>8. CASE FlushPublish \/ CompactPublish
    BY <1>0, <1>7, <1>8, Published
  <1>9. CASE FlushFault
    <2>1. /\ flush.at # "idle" /\ flush'.at = "idle"
          /\ mem' = Overlay(mem, parked) /\ UNCHANGED <<readers, crashable, comp>>
      BY <1>9 DEF FlushFault, Reabsorb, NoFlush, fileVars
    <2>2. Cover = parked /\ Cover' = mem'
      BY <2>1 DEF Cover
    <2>3. \A k \in Keys : parked[k] # Absent => mem'[k] # Absent
      BY <2>1 DEF Overlay
    <2> QED
      BY <1>1, <2>1, <2>2, <2>3
  <1>10. CASE FullBegin \/ \E run \in SUBSET DOMAIN readers : PartialBegin(run)
    <2>1. /\ UNCHANGED <<mem, parked, flush, readers, crashable>>
          /\ comp.at = "idle"
      BY <1>10 DEF FullBegin, PartialBegin, layerVars, fileVars
    <2> QED
      BY <1>1, <2>1 DEF Cover, CommitPcs
  <1>11. CASE CompactMerge \/ CompactFault
    <2>1. /\ UNCHANGED <<mem, parked, flush, readers>> /\ crashable' \subseteq crashable
          /\ comp.at \in {"merge", "commit"}
      BY <1>0, <1>11 DEF CompactMerge, CompactFault, SyncDir, layerVars, fileVars
    <2> QED
      BY <1>1, <2>1 DEF Cover, CommitPcs
  <1>12. CASE CompactRename \/ CompactSyncRename \/ CompactUnlink \/ CompactSyncUnlinks
    <2>1. comp'.at \in CommitPcs
      BY <1>0, <1>12 DEF CompactRename, CompactSyncRename, CompactUnlink,
         CompactSyncUnlinks, Small, CommitPcs
    <2> QED
      BY <2>1 DEF DirInv
  <1>13. ASSUME NEW d \in crashable, CrashAndOpen(d) PROVE DirInv'
    BY <1>13 DEF CrashAndOpen, DirInv, Extends
  <1> QED
    BY <1>2, <1>3, <1>4, <1>5, <1>6, <1>8, <1>9, <1>10, <1>11, <1>12, <1>13
       DEF Next

-----------------------------------------------------------------------------
(* The compaction and its commit.                                          *)

\* What is recorded of a compaction whose inputs stay open and whose later
\* readers are newer than all of its inputs.
LEMMA ChoiceKept ==
    ASSUME Choice, MergeOf, Hidden, comp.num \in Nat,
           comp'.run = comp.run, comp'.num = comp.num, comp'.kind = comp.kind,
           comp'.out = comp.out, UNCHANGED readers
    PROVE  Choice' /\ MergeOf' /\ Hidden'
  <1>1. Inputs' = Inputs /\ \A n : AboveRun(n)' <=> AboveRun(n)
    BY DEF Inputs, AboveRun
  <1>2. AboveRun(comp.num)' <=> AboveRun(comp.num)
    BY DEF AboveRun
  <1> QED
    BY <1>1, <1>2 DEF Choice, MergeOf, Hidden

LEMMA ChoicePublished ==
    ASSUME Choice, MergeOf, Hidden, TypeInv, UNCHANGED comp,
           Extends(disk), DOMAIN readers' = DOMAIN disk,
           \A n \in DOMAIN disk : readers'[n] = disk[n],
           comp.kind = "full" => comp.num \notin DOMAIN disk,
           flush.num \in DOMAIN disk, disk[flush.num] = parked, flush.at # "idle",
           comp.num < flush.num
    PROVE  Choice' /\ MergeOf' /\ Hidden'
  <1>0. comp.run \subseteq DOMAIN readers /\ comp.kind \in {"full", "partial"}
    BY DEF Choice, TypeInv, TypeOK
  <1>1. \A n \in DOMAIN readers : n \in DOMAIN readers' /\ readers'[n] = readers[n]
    BY DEF Extends
  <1>2. ASSUME NEW n \in DOMAIN readers', n \notin DOMAIN readers
        PROVE  AboveRun(n) /\ \A k \in Keys : readers'[n][k] # Absent => parked[k] # Absent
    BY <1>0, <1>2 DEF AboveRun, Extends, Cover
  <1>3. Inputs' = Inputs
    BY <1>0, <1>1 DEF Inputs
  <1>4. \A n : AboveRun(n)' <=> AboveRun(n)
    BY DEF AboveRun
  <1>4a. AboveRun(comp.num)' <=> AboveRun(comp.num)
    BY DEF AboveRun
  <1>5. Choice'
    <2>1. \A n \in DOMAIN readers' \ comp.run :
             (\A m \in comp.run : n < m) \/ AboveRun(n)
      BY <1>1, <1>2 DEF Choice
    <2> QED
      BY <1>0, <1>1, <1>4, <1>4a, <2>1 DEF Choice
  <1>6. MergeOf'
    <2>1. ASSUME \A n \in DOMAIN readers \ comp.run : AboveRun(n)
          PROVE  \A n \in DOMAIN readers' \ comp.run : AboveRun(n)
      BY <1>2, <2>1
    <2> QED
      BY <1>3, <1>4, <2>1 DEF MergeOf
  <1>7. Hidden'
    <2>1. ASSUME NEW n \in DOMAIN readers' \ comp.run, NEW k \in Keys,
                 AboveRun(n), n < comp.num, readers'[n][k] # Absent
          PROVE  \E f \in DOMAIN readers' : f > comp.num /\ readers'[f][k] # Absent
      <3>1. CASE n \in DOMAIN readers
        <4>1. PICK f \in DOMAIN readers : f > comp.num /\ readers[f][k] # Absent
          BY <1>1, <2>1, <3>1 DEF Hidden
        <4> QED
          BY <1>1, <4>1
      <3>2. CASE n \notin DOMAIN readers
        <4>1. parked[k] # Absent
          BY <1>2, <2>1, <3>2
        <4>2. flush.num \in DOMAIN readers' /\ readers'[flush.num][k] # Absent
          BY <4>1
        <4>3. flush.num > comp.num
          BY DEF TypeInv, TypeOK
        <4> QED
          BY <4>2, <4>3
      <3> QED
        BY <3>1, <3>2
    <2> QED
      BY <1>4, <2>1 DEF Hidden
  <1> QED
    BY <1>5, <1>6, <1>7

LEMMA CompStep ==
    ASSUME TypeInv, FlushInv, DirInv, CompInv, CommitInv, [Next]_vars
    PROVE  CompInv'
  <1>0. /\ Small /\ FilesOK /\ sst_counter \in Nat \ {0} /\ TypeOK
        /\ \A d \in crashable : \A n \in DOMAIN d : n \in Nat /\ n < sst_counter
        /\ \A n \in DOMAIN readers : n \in Nat /\ n < sst_counter
        /\ disk \in crashable /\ comp.num \in Nat
        /\ Numbered(readers) /\ Files(readers)
    BY TypeParts, Numbers DEF FilesOK, Store, Below, Files, TypeInv, Small
  <1>i. NoComp.at = "idle"
    BY DEF NoComp
  \* A compaction that does not notice the step.
  <1>1. ASSUME UNCHANGED <<comp, readers>>, sst_counter <= sst_counter',
               sst_counter' \in Nat,
               \A d \in crashable' :
                  comp.at \in {"merge", "commit"} /\ comp.kind = "full"
                  => comp.num \notin DOMAIN d
        PROVE  CompInv'
    <2>1. CASE comp.at # "idle"
      <3>1. Choice' /\ MergeOf' /\ Hidden'
        BY <1>0, <1>1, <2>1, ChoiceKept DEF CompInv
      <3>2. comp.num < sst_counter'
        BY <1>0, <1>1, <2>1 DEF CompInv
      <3> QED
        BY <1>1, <2>1, <3>1, <3>2 DEF CompInv
    <2>2. CASE comp.at = "idle"
      BY <1>1, <2>2 DEF CompInv
    <2> QED
      BY <2>1, <2>2
  \* A step of the compaction itself.
  <1>2. ASSUME comp.at # "idle", UNCHANGED <<readers, sst_counter>>,
               comp'.run = comp.run, comp'.num = comp.num,
               comp'.kind = comp.kind, comp'.out = comp.out,
               comp'.at \in {"merge", "commit"} =>
                  /\ comp.at \in {"merge", "commit"} /\ comp'.left = comp.left
                  /\ crashable' \subseteq crashable
        PROVE  CompInv'
    <2>1. Choice' /\ MergeOf' /\ Hidden'
      BY <1>0, <1>2, ChoiceKept DEF CompInv
    <2> QED
      BY <1>2, <2>1 DEF CompInv
  <1>3. CASE \/ \E k \in Keys, e \in Entries : Apply(k, e)
             \/ LogCommit \/ RotateBegin \/ RotateNothingToFlush
             \/ RotateTruncate \/ FlushFault \/ UNCHANGED vars
    <2>1. UNCHANGED <<comp, readers, sst_counter, crashable>>
      BY <1>3 DEF Apply, LogCommit, RotateBegin, RotateNothingToFlush,
         RotateTruncate, FlushFault, vars, fileVars
    <2> QED
      BY <1>0, <1>1, <2>1 DEF CompInv
  <1>4. ASSUME NEW rotate \in BOOLEAN, FlushSwap(rotate) PROVE CompInv'
    BY <1>0, <1>1, <1>4 DEF FlushSwap, CompInv
  <1>5. CASE FlushRename
    <2>1. /\ flush.at = "write" /\ UNCHANGED <<comp, readers, sst_counter>>
          /\ crashable' = crashable \union {With(disk, flush.num, parked)}
      BY <1>5 DEF FlushRename, DirOp
    <2>2. DOMAIN With(disk, flush.num, parked) = DOMAIN disk \union {flush.num}
      BY DEF With
    <2>3. comp.at # "idle" => comp.num # flush.num
      BY <1>0, <2>1 DEF FlushInv
    <2> QED
      BY <1>0, <1>1, <2>1, <2>2, <2>3 DEF CompInv
  <1>6. CASE FlushSyncDir
    BY <1>0, <1>1, <1>6 DEF FlushSyncDir, SyncDir, CompInv
  <1>7. CASE FlushPublish
    <2>1. /\ flush.at = "reload" /\ UNCHANGED <<comp, sst_counter>>
      BY <1>7 DEF FlushPublish
    <2>2. /\ crashable' = {disk} /\ DOMAIN readers' = DOMAIN disk
          /\ \A n \in DOMAIN disk : readers'[n] = disk[n]
      BY <1>0, <1>7, Published
    <2>3. CASE comp.at # "idle"
      <3>1. comp.at \in {"merge", "commit"}
        BY <1>0, <2>1, <2>3 DEF FlushInv, Small
      <3>2. comp.kind = "full" => comp.num \notin DOMAIN disk
        BY <1>0, <2>3, <3>1 DEF CompInv
      <3>3. Extends(disk)
        BY <1>0, <3>1 DEF DirInv, CommitPcs
      <3>4. Choice' /\ MergeOf' /\ Hidden'
        BY <2>1, <2>2, <2>3, <3>2, <3>3, ChoicePublished DEF CompInv, FlushInv
      <3> QED
        BY <2>1, <2>2, <2>3, <3>2, <3>4 DEF CompInv
    <2>4. CASE comp.at = "idle"
      BY <2>1, <2>4 DEF CompInv
    <2> QED
      BY <2>3, <2>4
  <1>8. CASE FullBegin
    <2>1. /\ comp'.at = "merge" /\ comp'.kind = "full" /\ comp'.num = sst_counter
          /\ comp'.run = DOMAIN readers /\ comp'.left = DOMAIN readers
          /\ comp'.out = Merged(DOMAIN readers, TRUE)
          /\ UNCHANGED <<readers, crashable>> /\ sst_counter' = sst_counter + 1
          /\ Cardinality(DOMAIN readers) >= MergeMin
      BY <1>8 DEF FullBegin
    <2>2. DOMAIN readers # {}
      <3>1. CASE DOMAIN readers = {}
        <4>1. Cardinality(DOMAIN readers) = 0
          BY <3>1, FS_EmptySet
        <4> QED
          BY <2>1, <4>1, LayerAssumption
      <3> QED
        BY <3>1
    <2>3. sst_counter \notin DOMAIN readers /\ \A n \in DOMAIN readers : n < sst_counter
      BY <1>0
    <2>4. Choice'
      BY <2>1, <2>2, <2>3 DEF Choice, AboveRun
    <2>5. Inputs' = [n \in DOMAIN readers |-> readers[n]]
      BY <2>1 DEF Inputs
    <2>6. MergeOf'
      <3>1. DOMAIN readers \in SUBSET DOMAIN readers /\ TRUE \in BOOLEAN
        OBVIOUS
      <3>2. ASSUME NEW k \in Keys
            PROVE  \/ comp'.out[k] = Resolve(Inputs', k)
                   \/ Resolve(Inputs', k) = Tombstone /\ comp'.out[k] = Absent
        <4>1. PICK f : f = [n \in DOMAIN readers |-> readers[n]]
          OBVIOUS
        <4>2. PICK o : o = Merged(DOMAIN readers, TRUE)
          OBVIOUS
        <4>3. o[k] = Resolve(f, k) \/ (Resolve(f, k) = Tombstone /\ o[k] = Absent)
          BY <1>0, <3>1, <4>1, <4>2, MergedType
        <4>4. comp'.out = o /\ Inputs' = f
          BY <2>1, <2>5, <4>1, <4>2
        <4> QED
          BY <4>3, <4>4
      <3>3. DOMAIN readers' \ comp'.run = {}
        BY <2>1
      <3> QED
        BY <3>2, <3>3 DEF MergeOf
    <2>7. Hidden'
      BY <2>1 DEF Hidden
    <2>8. \A d \in crashable' : comp'.num \notin DOMAIN d
      BY <1>0, <2>1
    <2>9. comp'.num < sst_counter'
      BY <1>0, <2>1
    <2>10. comp'.left = comp'.run \ {comp'.num}
      BY <2>1, <2>3
    <2> QED
      BY <2>4, <2>6, <2>7, <2>8, <2>9, <2>10 DEF CompInv
  <1>9. ASSUME NEW run \in SUBSET DOMAIN readers, PartialBegin(run) PROVE CompInv'
    <2>1. /\ comp'.at = "merge" /\ comp'.kind = "partial"
          /\ comp'.num = TargetNum(run) /\ comp'.run = run
          /\ comp'.left = run \ {TargetNum(run)}
          /\ comp'.out = Merged(run, DropAllowed(run))
          /\ UNCHANGED <<readers, crashable, sst_counter>>
      BY <1>9 DEF PartialBegin, fileVars
    <2>2. /\ run # {} /\ TargetNum(run) \in run
          /\ \A n \in run : TargetNum(run) <= n
          /\ \A n \in DOMAIN readers \ run :
                (\A m \in run : n < m) \/ (\A m \in run : m < n)
          /\ DropAllowed(run) =>
                \A n \in DOMAIN readers \ run : \A m \in run : m < n
      BY <1>9, RunChosen
    <2>3. Choice'
      BY <2>1, <2>2 DEF Choice, AboveRun
    <2>4. Inputs' = [n \in run |-> readers[n]]
      BY <2>1 DEF Inputs
    <2>5. DropAllowed(run) \in BOOLEAN
      BY DEF DropAllowed
    <2>6. MergeOf'
      <3>1. ASSUME NEW k \in Keys
            PROVE  \/ comp'.out[k] = Resolve(Inputs', k)
                   \/ /\ Resolve(Inputs', k) = Tombstone /\ comp'.out[k] = Absent
                      /\ DropAllowed(run)
        BY <1>0, <2>1, <2>4, <2>5, MergedType
      <3> QED
        BY <2>1, <2>2, <3>1 DEF MergeOf, AboveRun
    <2>7. Hidden'
      BY <1>0, <2>1, <2>2 DEF Hidden, AboveRun
    <2>8. comp'.num < sst_counter'
      BY <1>0, <2>1, <2>2
    <2> QED
      BY <2>1, <2>3, <2>6, <2>7, <2>8 DEF CompInv
  <1>10. CASE CompactMerge
    BY <1>0, <1>2, <1>10 DEF CompactMerge, SyncDir, Small
  <1>11. CASE CompactRename \/ CompactSyncRename \/ CompactUnlink \/ CompactSyncUnlinks
    BY <1>0, <1>2, <1>11 DEF CompactRename, CompactSyncRename, CompactUnlink,
       CompactSyncUnlinks, Small
  <1>12. CASE CompactPublish \/ CompactFault
    BY <1>12, <1>i DEF CompactPublish, CompactFault, CompInv
  <1>13. ASSUME NEW d \in crashable, CrashAndOpen(d) PROVE CompInv'
    BY <1>13, <1>i DEF CrashAndOpen, CompInv
  <1> QED
    BY <1>3, <1>4, <1>5, <1>6, <1>7, <1>8, <1>9, <1>10, <1>11, <1>12, <1>13
       DEF Next

\* The rename: the output appears, every input is still there.
LEMMA RenameDir ==
    ASSUME TypeInv, FlushInv, DirInv, CompInv, CompactRename, NEW D, D = disk'
    PROVE  /\ CommitDir(D, comp.left)
           /\ DOMAIN D = DOMAIN disk \union {comp.num}
           /\ \A n \in DOMAIN disk : n # comp.num => D[n] = disk[n]
           /\ Extends(disk) /\ Cover = mem
  <1>1. /\ comp.at = "commit" /\ flush.at = "idle" /\ disk \in crashable
        /\ comp.kind \in {"full", "partial"}
    BY DEF CompactRename, TypeInv, TypeOK
  <1>2. Extends(disk) /\ Cover = mem
    BY <1>1 DEF DirInv, CommitPcs, Cover
  <1>3. Choice /\ comp.left = comp.run \ {comp.num}
    BY <1>1 DEF CompInv
  <1>4. /\ DOMAIN D = DOMAIN disk \union {comp.num} /\ D[comp.num] = comp.out
        /\ \A n \in DOMAIN disk : n # comp.num => D[n] = disk[n]
    BY DEF CompactRename, DirOp, With
  <1>5. comp.num \notin DOMAIN readers \ comp.run
    BY <1>1, <1>3 DEF Choice
  <1>6. \A n \in comp.left : n \in DOMAIN D /\ D[n] = readers[n]
    BY <1>2, <1>3, <1>4 DEF Extends, Choice
  <1>7. \A n \in DOMAIN readers \ comp.run : n \in DOMAIN D /\ D[n] = readers[n]
    BY <1>2, <1>4, <1>5 DEF Extends
  <1>8. \A n \in DOMAIN D \ DOMAIN readers :
           n # comp.num => \A m \in DOMAIN readers : m < n
    BY <1>2, <1>4 DEF Extends
  <1>9. CommitDir(D, comp.left)
    BY <1>3, <1>4, <1>6, <1>7, <1>8 DEF CommitDir
  <1> QED
    BY <1>2, <1>4, <1>9

\* An unlink: one input less, the oldest of those left.
LEMMA UnlinkDir ==
    ASSUME TypeInv, CompInv, CommitInv, CompactUnlink, NEW D, D = disk'
    PROVE  /\ CommitDir(disk, comp.left) /\ CommitDir(D, comp.left \ {NextUnlink})
           /\ NextUnlink \in comp.left /\ DOMAIN D = DOMAIN disk \ {NextUnlink}
           /\ \A n \in DOMAIN D : D[n] = disk[n]
  <1>1. /\ comp.at \in CommitPcs /\ comp.left # {} /\ comp.left \in SUBSET Nat
        /\ comp.run \in SUBSET Nat
    BY DEF CompactUnlink, CommitPcs, TypeInv, TypeOK
  <1>2. CommitDir(disk, comp.left) /\ Choice
    BY <1>1 DEF CommitInv, CompInv, CommitPcs
  <1>3. PICK u \in comp.left : u = NextUnlink /\ \A n \in comp.left : u <= n
    BY <1>1, MinOf DEF NextUnlink
  <1>4. DOMAIN D = DOMAIN disk \ {u} /\ \A n \in DOMAIN D : D[n] = disk[n]
    BY <1>3 DEF CompactUnlink, DirOp, Without
  <1>5. u \in comp.run /\ u # comp.num /\ u \in DOMAIN readers
    BY <1>2 DEF CommitDir, Choice
  <1>6. comp.num \in DOMAIN D /\ D[comp.num] = comp.out
    BY <1>2, <1>4, <1>5 DEF CommitDir
  <1>7. \A n \in comp.left \ {u} : n \in DOMAIN D /\ D[n] = readers[n]
    BY <1>2, <1>4 DEF CommitDir
  <1>8. ASSUME NEW n \in comp.run \ {comp.num}, n \notin comp.left \ {u}
        PROVE  n \notin DOMAIN D /\ \A m \in comp.left \ {u} : n < m
    <2>1. CASE n = u
      <3>1. \A m \in comp.left \ {u} : m \in Nat /\ u \in Nat /\ u <= m /\ u # m
        BY <1>1, <1>3
      <3>2. \A m \in comp.left \ {u} : u < m
        BY <3>1
      <3> QED
        BY <1>4, <2>1, <3>2
    <2>2. CASE n # u
      BY <1>2, <1>4, <1>8, <2>2 DEF CommitDir
    <2> QED
      BY <2>1, <2>2
  <1>9. \A n \in DOMAIN readers \ comp.run : n \in DOMAIN D /\ D[n] = readers[n]
    BY <1>2, <1>4, <1>5 DEF CommitDir
  <1>10. \A n \in DOMAIN D \ DOMAIN readers :
           n # comp.num => \A m \in DOMAIN readers : m < n
    BY <1>2, <1>4 DEF CommitDir
  <1>11. comp.left \ {u} \subseteq comp.run \ {comp.num}
    BY <1>2 DEF CommitDir
  <1>12. CommitDir(D, comp.left \ {u})
    BY <1>6, <1>7, <1>8, <1>9, <1>10, <1>11 DEF CommitDir
  <1> QED
    BY <1>2, <1>3, <1>4, <1>12

LEMMA CommitStep ==
    ASSUME TypeInv, FlushInv, DirInv, CompInv, CommitInv, [Next]_vars
    PROVE  CommitInv'
  <1>0. Small /\ disk \in crashable
    BY TypeParts DEF FilesOK
  <1>i. NoComp.at \notin CommitPcs
    BY DEF NoComp, CommitPcs
  \* Neither the directory nor the compaction moves.
  <1>1. ASSUME UNCHANGED <<comp, readers, disk, crashable>>,
               \A k \in Keys : mem[k] # Absent => mem'[k] # Absent
        PROVE  CommitInv'
    BY <1>1 DEF CommitInv, CommitDir
  <1>2. ASSUME comp'.at \notin CommitPcs PROVE CommitInv'
    BY <1>2 DEF CommitInv
  \* The commit goes on from directory D, inputs `left' not yet unlinked.
  <1>3. ASSUME NEW D, NEW left, D = disk', left = comp'.left, CommitDir(D, left),
               comp'.run = comp.run, comp'.num = comp.num, comp'.out = comp.out,
               UNCHANGED <<readers, mem>>,
               \A n \in DOMAIN D \ DOMAIN readers, k \in Keys :
                  n # comp.num /\ D[n][k] # Absent => mem[k] # Absent,
               comp'.at = "publish" => left = {} /\ crashable' = {D}
        PROVE  CommitInv'
    <2>1. CommitDir(D, left)'
      BY <1>3 DEF CommitDir
    <2>2. CommitDir(disk, comp.left)'
      BY <1>3, <2>1 DEF CommitDir
    <2> QED
      BY <1>3, <2>2 DEF CommitInv
  <1>4. ASSUME NEW k \in Keys, NEW e \in Entries, Apply(k, e) PROVE CommitInv'
    <2>1. e # Absent
      BY LayerAssumption DEF Entries
    <2>2. \A j \in Keys : mem[j] # Absent => mem'[j] # Absent
      BY <1>0, <1>4, <2>1 DEF Apply, Small, Layer
    <2> QED
      BY <1>1, <1>4, <2>2 DEF Apply, fileVars
  <1>5. CASE \/ LogCommit \/ RotateBegin \/ RotateNothingToFlush
             \/ RotateTruncate \/ UNCHANGED vars
    <2>1. UNCHANGED <<comp, readers, disk, crashable, mem>>
      BY <1>5 DEF LogCommit, RotateBegin, RotateNothingToFlush,
         RotateTruncate, vars, fileVars, layerVars
    <2> QED
      BY <1>1, <2>1
  <1>6. CASE \/ \E rotate \in BOOLEAN : FlushSwap(rotate)
             \/ FlushRename \/ FlushSyncDir \/ FlushPublish \/ FlushFault
    <2>1. comp' = comp /\ comp.at \notin CommitPcs
      BY <1>6 DEF FlushSwap, FlushRename, FlushSyncDir, FlushPublish,
         FlushFault, FlushInv, FlushLockFree
    <2> QED
      BY <1>2, <2>1
  <1>7. CASE \/ FullBegin \/ \E run \in SUBSET DOMAIN readers : PartialBegin(run)
             \/ CompactMerge
    <2>1. CASE FullBegin
      BY <1>2, <2>1 DEF FullBegin, CommitPcs
    <2>2. CASE \E run \in SUBSET DOMAIN readers : PartialBegin(run)
      BY <1>2, <2>2 DEF PartialBegin, CommitPcs
    <2>3. CASE CompactMerge
      BY <1>0, <1>2, <2>3 DEF CompactMerge, CommitPcs, Small
    <2> QED
      BY <1>7, <2>1, <2>2, <2>3
  <1>8. CASE CompactRename
    <2>1. PICK D : D = disk'
      OBVIOUS
    <2>2. /\ CommitDir(D, comp.left) /\ DOMAIN D = DOMAIN disk \union {comp.num}
          /\ \A n \in DOMAIN disk : n # comp.num => D[n] = disk[n]
          /\ Extends(disk) /\ Cover = mem
      BY <1>8, <2>1, RenameDir
    <2>3. /\ comp'.run = comp.run /\ comp'.num = comp.num /\ comp'.out = comp.out
          /\ comp'.left = comp.left /\ comp'.at = "renamed"
          /\ UNCHANGED <<readers, mem>>
      BY <1>0, <1>8 DEF CompactRename, layerVars, Small
    <2>4. \A n \in DOMAIN D \ DOMAIN readers, k \in Keys :
             n # comp.num /\ D[n][k] # Absent => mem[k] # Absent
      BY <2>2 DEF Extends
    <2> QED
      BY <1>3, <2>1, <2>2, <2>3, <2>4
  <1>9. CASE CompactUnlink
    <2>1. PICK D : D = disk'
      OBVIOUS
    <2>2. /\ CommitDir(D, comp.left \ {NextUnlink})
          /\ DOMAIN D = DOMAIN disk \ {NextUnlink}
          /\ \A n \in DOMAIN D : D[n] = disk[n]
      BY <1>9, <2>1, UnlinkDir
    <2>3. /\ comp'.run = comp.run /\ comp'.num = comp.num /\ comp'.out = comp.out
          /\ comp'.left = comp.left \ {NextUnlink} /\ comp'.at = "unlink"
          /\ UNCHANGED <<readers, mem>> /\ comp.at \in CommitPcs
      BY <1>0, <1>9 DEF CompactUnlink, layerVars, Small, CommitPcs
    <2>4. \A n \in DOMAIN D \ DOMAIN readers, k \in Keys :
             n # comp.num /\ D[n][k] # Absent => mem[k] # Absent
      BY <2>2, <2>3 DEF CommitInv
    <2> QED
      BY <1>3, <2>1, <2>2, <2>3, <2>4
  <1>10. CASE CompactSyncRename \/ CompactSyncUnlinks
    <2>1. /\ comp'.run = comp.run /\ comp'.num = comp.num /\ comp'.out = comp.out
          /\ comp'.left = comp.left /\ comp.at \in CommitPcs
          /\ comp'.at = "publish" => comp.left = {}
          /\ UNCHANGED <<readers, mem, disk>> /\ crashable' = {disk}
      BY <1>0, <1>10 DEF CompactSyncRename, CompactSyncUnlinks, SyncDir,
         layerVars, Small, CommitPcs
    <2> QED
      BY <1>3, <2>1 DEF CommitInv
  <1>11. CASE CompactPublish \/ CompactFault
    BY <1>2, <1>11, <1>i DEF CompactPublish, CompactFault
  <1>12. ASSUME NEW d \in crashable, CrashAndOpen(d) PROVE CommitInv'
    BY <1>2, <1>12, <1>i DEF CrashAndOpen
  <1> QED
    BY <1>4, <1>5, <1>6, <1>7, <1>8, <1>9, <1>10, <1>11, <1>12 DEF Next

-----------------------------------------------------------------------------
(* The queue of unlogged writes.                                           *)

\* The newest queued write of k.
LEMMA Newest ==
    ASSUME queue \in Seq(Keys \X Entries), NEW k, QueuedFor(k) # {}
    PROVE  /\ Max(QueuedFor(k)) \in QueuedFor(k)
           /\ \A i \in QueuedFor(k) : i <= Max(QueuedFor(k))
  <1>1. Len(queue) \in Nat /\ DOMAIN queue = 1 .. Len(queue)
    OBVIOUS
  <1>2. PICK b \in Nat : b = Len(queue)
    BY <1>1
  <1>3. QueuedFor(k) \in SUBSET Nat /\ \A i \in QueuedFor(k) : i <= b
    BY <1>1, <1>2 DEF QueuedFor
  <1> QED
    BY <1>3, MaxOf

LEMMA MaxIs ==
    ASSUME NEW S \in SUBSET Nat, NEW x \in S, \A y \in S : y <= x
    PROVE  Max(S) = x
  <1>1. ASSUME NEW z \in S, \A y \in S : z >= y PROVE z = x
    <2>1. z \in Nat /\ x \in Nat /\ z >= x /\ z <= x
      BY <1>1
    <2> QED
      BY <2>1
  <1>2. \A y \in S : x >= y
    OBVIOUS
  <1> QED
    BY <1>1, <1>2 DEF Max

\* The last write of a key is one a crash may leave.
LEMMA LatestAdmissible ==
    ASSUME queue \in Seq(Keys \X Entries), NEW k
    PROVE  Latest(k) \in Admissible(k)
  BY Newest DEF Latest, Admissible

LEMMA ApplyQueue ==
    ASSUME queue \in Seq(Keys \X Entries), NEW k \in Keys, NEW e \in Entries,
           Apply(k, e)
    PROVE  /\ Latest(k)' = VisibleOf(e)
           /\ \A j \in Keys : j # k => Latest(j)' = Latest(j)
           /\ \A j \in Keys : Admissible(j) \subseteq Admissible(j)'
  <1>1. queue' = Append(queue, <<k, e>>) /\ safe' = safe
    BY DEF Apply
  <1>2. PICK n \in Nat : n = Len(queue)
    OBVIOUS
  <1>3. /\ DOMAIN queue = 1 .. n /\ DOMAIN queue' = 1 .. n + 1
        /\ queue'[n + 1] = <<k, e>>
        /\ \A i \in 1 .. n : queue'[i] = queue[i]
    BY <1>1, <1>2
  <1>4. /\ n + 1 \in QueuedFor(k)' /\ QueuedFor(k)' \in SUBSET Nat
        /\ \A i \in QueuedFor(k)' : i <= n + 1
    BY <1>3 DEF QueuedFor
  <1>5. Max(QueuedFor(k)') = n + 1
    BY <1>4, MaxIs
  <1>6. Latest(k)' = VisibleOf(e)
    BY <1>3, <1>4, <1>5 DEF Latest
  <1>7. ASSUME NEW j \in Keys, j # k PROVE Latest(j)' = Latest(j)
    <2>1. QueuedFor(j)' = QueuedFor(j)
      BY <1>3, <1>7 DEF QueuedFor
    <2>2. QueuedFor(j) # {} => Max(QueuedFor(j)) \in 1 .. n
      BY <1>3, Newest DEF QueuedFor
    <2> QED
      BY <1>1, <1>3, <2>1, <2>2 DEF Latest
  <1>8. ASSUME NEW j \in Keys PROVE Admissible(j) \subseteq Admissible(j)'
    <2>1. \A i \in QueuedFor(j) : i \in QueuedFor(j)' /\ queue'[i] = queue[i]
      BY <1>3 DEF QueuedFor
    <2> QED
      BY <1>1, <2>1 DEF Admissible
  <1> QED
    BY <1>6, <1>7, <1>8

LEMMA LogQueue ==
    ASSUME queue \in Seq(Keys \X Entries), safe \in [Keys -> Values \union {Absent}],
           LogCommit
    PROVE  \E k \in Keys, e \in Entries :
             /\ queue[1] = <<k, e>> /\ safe' = [safe EXCEPT ![k] = VisibleOf(e)]
             /\ wal' = [wal EXCEPT ![k] = e]
             /\ \A j \in Keys : Latest(j)' = Latest(j)
             /\ \A j \in Keys : j # k => Admissible(j) \subseteq Admissible(j)'
  <1>1. queue # <<>> /\ queue[1] \in Keys \X Entries /\ Head(queue) = queue[1]
    BY DEF LogCommit
  <1>2. PICK k \in Keys, e \in Entries : queue[1] = <<k, e>>
    BY <1>1
  <1>3. /\ queue' = Tail(queue) /\ safe' = [safe EXCEPT ![k] = VisibleOf(e)]
        /\ wal' = [wal EXCEPT ![k] = e]
    <2>1. Head(queue)[1] = k /\ Head(queue)[2] = e
      BY <1>1, <1>2
    <2> QED
      BY <2>1 DEF LogCommit
  <1>4. PICK n \in Nat : n = Len(queue) /\ n >= 1
    BY <1>1
  <1>5. /\ DOMAIN queue = 1 .. n /\ DOMAIN queue' = 1 .. n - 1
        /\ \A i \in 1 .. n - 1 : queue'[i] = queue[i + 1]
    BY <1>1, <1>3, <1>4
  <1>6. ASSUME NEW j, NEW i \in Nat PROVE i \in QueuedFor(j)' <=> i >= 1 /\ i + 1 \in QueuedFor(j)
    BY <1>4, <1>5 DEF QueuedFor
  <1>7. \A j : QueuedFor(j) \in SUBSET Nat /\ QueuedFor(j)' \in SUBSET Nat
    BY <1>4, <1>5 DEF QueuedFor
  <1>8. ASSUME NEW j \in Keys PROVE Latest(j)' = Latest(j)
    <2>1. CASE QueuedFor(j)' # {}
      <3>1. PICK i \in QueuedFor(j)' : TRUE
        BY <2>1
      <3>2. i \in Nat /\ i >= 1 /\ i + 1 \in QueuedFor(j)
        BY <1>6, <1>7
      <3>3. PICK x \in Nat : /\ x = Max(QueuedFor(j)) /\ x \in QueuedFor(j)
                             /\ \A y \in QueuedFor(j) : y <= x
        BY <1>7, <3>2, Newest
      <3>4. x >= 2 /\ x - 1 \in Nat /\ (x - 1) + 1 = x
        BY <3>2, <3>3
      <3>5. x - 1 \in QueuedFor(j)'
        <4>1. PICK z \in Nat : z = x - 1
          BY <3>4
        <4>2. z >= 1 /\ z + 1 \in QueuedFor(j)
          BY <3>3, <3>4, <4>1
        <4> QED
          BY <1>6, <4>1, <4>2
      <3>6. ASSUME NEW y \in QueuedFor(j)' PROVE y <= x - 1
        <4>1. y \in Nat /\ y + 1 \in QueuedFor(j)
          BY <1>6, <1>7
        <4>2. y + 1 <= x
          BY <3>3, <4>1
        <4> QED
          BY <3>4, <4>1, <4>2
      <3>7. Max(QueuedFor(j)') = x - 1
        BY <1>7, <3>5, <3>6, MaxIs
      <3>8. queue'[x - 1] = queue[x]
        <4>1. x <= n
          BY <1>5, <3>3 DEF QueuedFor
        <4>2. x - 1 \in 1 .. n - 1
          BY <3>4, <4>1
        <4> QED
          BY <1>5, <3>4, <4>2
      <3>9. QueuedFor(j) # {}
        BY <3>2
      <3> QED
        BY <2>1, <3>3, <3>7, <3>8, <3>9 DEF Latest
    <2>2. CASE QueuedFor(j)' = {} /\ j = k
      <3>1. 1 \in QueuedFor(j)
        BY <1>2, <1>4, <1>5, <2>2 DEF QueuedFor
      <3>2. ASSUME NEW y \in QueuedFor(j) PROVE y <= 1
        <4>1. y \in Nat /\ y >= 1
          BY <1>4, <1>5 DEF QueuedFor
        <4>2. CASE y # 1
          <5>1. PICK z \in Nat : z + 1 = y /\ z >= 1
            <6>1. y - 1 \in Nat /\ (y - 1) + 1 = y /\ y - 1 >= 1
              BY <4>1, <4>2
            <6> QED
              BY <6>1
          <5>2. z \in QueuedFor(j)'
            BY <1>6, <5>1
          <5> QED
            BY <2>2, <5>2
        <4> QED
          BY <4>1, <4>2
      <3>3. Max(QueuedFor(j)) = 1
        BY <1>7, <3>1, <3>2, MaxIs
      <3>4. Latest(j) = VisibleOf(queue[1][2])
        BY <3>1, <3>3 DEF Latest
      <3>5. Latest(j)' = safe'[j]
        BY <2>2 DEF Latest
      <3>6. safe'[j] = VisibleOf(e)
        BY <1>3, <2>2
      <3> QED
        BY <1>2, <3>4, <3>5, <3>6
    <2>3. CASE QueuedFor(j)' = {} /\ j # k
      <3>1. ASSUME NEW y \in QueuedFor(j) PROVE FALSE
        <4>1. y \in Nat /\ y >= 1 /\ y # 1
          BY <1>2, <1>4, <1>5, <2>3 DEF QueuedFor
        <4>2. PICK z \in Nat : z + 1 = y /\ z >= 1
          <5>1. y - 1 \in Nat /\ (y - 1) + 1 = y /\ y - 1 >= 1
            BY <4>1
          <5> QED
            BY <5>1
        <4> QED
          BY <1>6, <2>3, <4>2
      <3>2. safe'[j] = safe[j]
        BY <1>3, <2>3
      <3> QED
        BY <2>3, <3>1, <3>2 DEF Latest
    <2> QED
      BY <2>1, <2>2, <2>3
  <1>9. ASSUME NEW j \in Keys, j # k PROVE Admissible(j) \subseteq Admissible(j)'
    <2>1. safe'[j] = safe[j]
      BY <1>3, <1>9
    <2>2. ASSUME NEW y \in QueuedFor(j)
          PROVE  VisibleOf(queue[y][2]) \in Admissible(j)'
      <3>1. y \in Nat /\ y >= 1 /\ y # 1 /\ y <= n
        BY <1>2, <1>4, <1>5, <1>9 DEF QueuedFor
      <3>2. PICK z \in Nat : z + 1 = y /\ z >= 1 /\ z <= n - 1
        <4>1. y - 1 \in Nat /\ (y - 1) + 1 = y /\ y - 1 >= 1 /\ y - 1 <= n - 1
          BY <3>1
        <4> QED
          BY <4>1
      <3>3. z \in QueuedFor(j)' /\ queue'[z] = queue[y]
        BY <1>5, <1>6, <3>2
      <3> QED
        BY <3>3 DEF Admissible
    <2> QED
      BY <2>1, <2>2 DEF Admissible
  <1> QED
    BY <1>2, <1>3, <1>8, <1>9

-----------------------------------------------------------------------------
(* Reads.                                                                  *)

\* The entry a read of k ends with.
Top(k) == IF mem[k] # Absent THEN mem[k]
          ELSE IF parked[k] # Absent THEN parked[k] ELSE Resolve(readers, k)

LEMMA ViewIsTop == ASSUME NEW k \in Keys PROVE View[k] = VisibleOf(Top(k))
  BY DEF View, Top

\* Two directories with the same files resolve alike.
LEMMA SameFiles ==
    ASSUME NEW f, NEW g, Numbered(f), DOMAIN g = DOMAIN f,
           \A n \in DOMAIN f : g[n] = f[n], NEW k
    PROVE  Resolve(g, k) = Resolve(f, k)
  <1>1. Numbered(g)
    BY DEF Numbered
  <1>2. \A n : Hit(f, n, k) <=> Hit(g, n, k)
    BY DEF Hit
  <1>3. \A n : Hit(f, n, k) => f[n][k] = g[n][k]
    BY DEF Hit
  <1> QED
    BY <1>1, <1>2, <1>3, ResolveSame

\* What the list a flush publishes shows: the parked map over the old list.
LEMMA FlushResolves ==
    ASSUME TypeInv, FlushInv, DirInv, CompInv, CommitInv, FlushPublish,
           NEW k \in Keys
    PROVE  /\ Resolve(readers, k)' = Resolve(disk, k)
           /\ Resolve(disk, k) = IF parked[k] # Absent THEN parked[k]
                                 ELSE Resolve(readers, k)
  <1>0. /\ disk \in crashable /\ Numbered(disk) /\ Numbered(readers)
        /\ flush.at = "reload"
    BY Numbers DEF TypeInv, TypeOK, FlushPublish
  <1>1. Resolve(readers, k)' = Resolve(disk, k)
    <2>1. PICK g : g = readers'
      OBVIOUS
    <2>2. Resolve(g, k) = Resolve(disk, k)
      BY <1>0, <2>1, Published, SameFiles
    <2> QED
      BY <2>1, <2>2
  <1>2. CASE parked[k] # Absent
    <2>1. TopHit(disk, flush.num, k)
      BY <1>0, <1>2 DEF FlushInv, TopHit, Hit
    <2>2. Resolve(disk, k) = parked[k]
      BY <1>0, <2>1, ResolveTop DEF FlushInv
    <2> QED
      BY <1>1, <1>2, <2>2
  <1>3. CASE parked[k] = Absent
    <2>1. Extends(disk) /\ Cover[k] = Absent
      BY <1>0, <1>3 DEF DirInv, FlushInv, Cover
    <2>2. Resolve(disk, k) = Resolve(readers, k)
      BY <1>0, <2>1, ExtendsResolves
    <2> QED
      BY <1>1, <1>3, <2>2
  <1> QED
    BY <1>2, <1>3

LEMMA ReadsStep ==
    ASSUME TypeInv, FlushInv, DirInv, CompInv, CommitInv, ReadsLatest, [Next]_vars
    PROVE  ReadsLatest'
  <1>0. /\ Small /\ disk \in crashable /\ Numbered(disk) /\ Numbered(readers)
        /\ sst_counter \in Nat /\ TypeOK
        /\ \A d \in crashable : Numbered(d)
    BY TypeParts, Numbers DEF FilesOK, TypeInv
  <1>q. /\ queue \in Seq(Keys \X Entries)
        /\ safe \in [Keys -> Values \union {Absent}]
        /\ mem \in Layer /\ parked \in Layer
    BY <1>0 DEF Small
  <1>e. \A k \in Keys : Empty[k] = Absent
    BY EmptyType
  <1>v. \A k \in Keys : View'[k] = VisibleOf(Top(k)')
    BY DEF View, Top
  <1>w. \A k \in Keys : VisibleOf(Top(k)) = Latest(k)
    BY ViewIsTop DEF ReadsLatest
  \* A step that only moves entries between the layers.
  <1>1. ASSUME UNCHANGED <<queue, safe>>,
               \A k \in Keys : VisibleOf(Top(k)') = VisibleOf(Top(k))
        PROVE  ReadsLatest'
    <2>1. \A k \in Keys : Latest(k)' = Latest(k)
      BY <1>1 DEF Latest, QueuedFor
    <2> QED
      BY <1>1, <1>v, <1>w, <2>1 DEF ReadsLatest
  <1>2. ASSUME NEW k \in Keys, NEW e \in Entries, Apply(k, e) PROVE ReadsLatest'
    <2>1. e # Absent
      BY LayerAssumption DEF Entries
    <2>2. /\ mem' = [mem EXCEPT ![k] = e] /\ UNCHANGED <<parked, readers>>
      BY <1>2 DEF Apply, fileVars
    <2>3. Top(k)' = e /\ \A j \in Keys : j # k => Top(j)' = Top(j)
      BY <1>q, <2>1, <2>2 DEF Top, Layer
    <2>4. /\ Latest(k)' = VisibleOf(e)
          /\ \A j \in Keys : j # k => Latest(j)' = Latest(j)
      BY <1>q, <1>2, ApplyQueue
    <2>5. ASSUME NEW j \in Keys PROVE View'[j] = Latest(j)'
      <3>1. CASE j = k
        BY <1>v, <2>3, <2>4, <3>1
      <3>2. CASE j # k
        BY <1>v, <1>w, <2>3, <2>4, <3>2
      <3> QED
        BY <3>1, <3>2
    <2> QED
      BY <2>5 DEF ReadsLatest
  <1>3. CASE LogCommit
    <2>1. \A j \in Keys : Latest(j)' = Latest(j)
      BY <1>q, <1>3, LogQueue
    <2>2. \A j \in Keys : Top(j)' = Top(j)
      BY <1>3 DEF LogCommit, Top, fileVars
    <2> QED
      BY <1>v, <1>w, <2>1, <2>2 DEF ReadsLatest
  <1>4. ASSUME UNCHANGED <<mem, parked, readers, queue, safe>> PROVE ReadsLatest'
    <2>1. \A j \in Keys : Top(j)' = Top(j)
      BY <1>4 DEF Top
    <2> QED
      BY <1>1, <1>4, <2>1
  <1>5. CASE \/ RotateBegin \/ RotateNothingToFlush \/ RotateTruncate
             \/ FlushRename \/ FlushSyncDir
    <2>1. UNCHANGED <<mem, parked, readers, queue, safe>>
      BY <1>5 DEF RotateBegin, RotateNothingToFlush, RotateTruncate,
         FlushRename, FlushSyncDir, layerVars, fileVars, histVars
    <2> QED
      BY <1>4, <2>1
  <1>6. CASE \/ FullBegin \/ \E run \in SUBSET DOMAIN readers : PartialBegin(run)
             \/ CompactFault \/ UNCHANGED vars
    <2>1. UNCHANGED <<mem, parked, readers, queue, safe>>
      BY <1>6 DEF FullBegin, PartialBegin, CompactFault, vars, layerVars,
         fileVars, histVars
    <2> QED
      BY <1>4, <2>1
  <1>7. CASE \/ CompactMerge \/ CompactRename \/ CompactSyncRename
             \/ CompactUnlink \/ CompactSyncUnlinks
    <2>1. UNCHANGED <<mem, parked, readers, queue, safe>>
      BY <1>7 DEF CompactMerge, CompactRename, CompactSyncRename,
         CompactUnlink, CompactSyncUnlinks, layerVars, histVars
    <2> QED
      BY <1>4, <2>1
  <1>8. ASSUME NEW rotate \in BOOLEAN, FlushSwap(rotate) PROVE ReadsLatest'
    <2>1. /\ parked = Empty /\ parked' = mem /\ mem' = Empty
          /\ UNCHANGED <<readers, queue, safe>>
      BY <1>8 DEF FlushSwap, FlushLockFree, FlushInv, histVars
    <2>2. \A j \in Keys : Top(j)' = Top(j)
      BY <1>e, <2>1 DEF Top
    <2> QED
      BY <1>1, <2>1, <2>2
  <1>9. CASE FlushPublish
    <2>1. /\ parked' = Empty /\ mem' = mem /\ UNCHANGED <<queue, safe>>
      BY <1>9 DEF FlushPublish, histVars
    <2>2. \A j \in Keys : Resolve(readers, j)' = IF parked[j] # Absent THEN parked[j]
                                                 ELSE Resolve(readers, j)
      BY <1>9, FlushResolves
    <2>3. \A j \in Keys : Top(j)' = Top(j)
      BY <1>e, <2>1, <2>2 DEF Top
    <2> QED
      BY <1>1, <2>1, <2>3
  <1>10. CASE FlushFault
    <2>1. /\ parked' = Empty /\ mem' = Overlay(mem, parked)
          /\ UNCHANGED <<readers, queue, safe>>
      BY <1>10 DEF FlushFault, Reabsorb, histVars, fileVars
    <2>2. \A j \in Keys : mem'[j] = IF mem[j] # Absent THEN mem[j] ELSE parked[j]
      BY <2>1 DEF Overlay
    <2>3. \A j \in Keys : Top(j)' = Top(j)
      BY <1>e, <2>1, <2>2 DEF Top
    <2> QED
      BY <1>1, <2>1, <2>3
  <1>11. CASE CompactPublish
    <2>1. /\ comp.at = "publish" /\ comp.at \in CommitPcs /\ comp.left = {}
          /\ CommitDir(disk, {}) /\ Choice /\ MergeOf /\ Hidden
      BY <1>11 DEF CompactPublish, CommitInv, CompInv, CommitPcs
    <2>2. /\ UNCHANGED <<mem, parked, queue, safe>> /\ parked = Empty
      BY <1>11, <2>1 DEF CompactPublish, layerVars, histVars, FlushInv
    <2>3. ASSUME NEW j \in Keys, mem[j] = Absent
          PROVE  VisibleOf(Resolve(readers, j)') = VisibleOf(Resolve(readers, j))
      <3>1. PICK g : g = readers'
        OBVIOUS
      <3>2. Resolve(g, j) = Resolve(disk, j)
        BY <1>0, <1>11, <3>1, Published, SameFiles
      <3>3. ~ \E n : Stray(disk, n) /\ TopHit(disk, n, j)
        BY <2>1, <2>3 DEF CommitInv, Stray, TopHit, Hit
      <3>4. VisibleOf(Resolve(disk, j)) = VisibleOf(Resolve(readers, j))
        BY <1>0, <2>1, <3>3, CommitShows
      <3> QED
        BY <3>1, <3>2, <3>4
    <2>4. \A j \in Keys : VisibleOf(Top(j)') = VisibleOf(Top(j))
      BY <1>e, <2>2, <2>3 DEF Top
    <2> QED
      BY <1>1, <2>2, <2>4
  <1>12. ASSUME NEW d \in crashable, CrashAndOpen(d) PROVE ReadsLatest'
    <2>1. /\ mem' = wal /\ parked' = Empty /\ readers' = d /\ queue' = <<>>
          /\ safe' = Recovered(d) /\ wal' = wal
      BY <1>12 DEF CrashAndOpen
    <2>2. ASSUME NEW k \in Keys PROVE View'[k] = Latest(k)'
      <3>1. QueuedFor(k)' = {}
        BY <2>1 DEF QueuedFor
      <3>2. Latest(k)' = Recovered(d)[k]
        BY <2>1, <3>1 DEF Latest
      <3>3. Recovered(d)[k] = VisibleOf(IF wal[k] # Absent THEN wal[k]
                                        ELSE Resolve(d, k))
        BY DEF Recovered
      <3>4. Top(k)' = IF wal[k] # Absent THEN wal[k] ELSE Resolve(d, k)
        BY <1>e, <2>1 DEF Top
      <3> QED
        BY <1>v, <3>2, <3>3, <3>4
    <2> QED
      BY <2>2 DEF ReadsLatest
  <1> QED
    BY <1>2, <1>3, <1>5, <1>6, <1>7, <1>8, <1>9, <1>10, <1>11, <1>12 DEF Next

-----------------------------------------------------------------------------
(* Crashes.                                                                *)

\* A step that exposes no key, adds no directory and loses no admissible value.
LEMMA CrashKept ==
    ASSUME TypeInv, NEW k \in Keys, CrashAt(k),
           \A v : v \in Admissible(k) => v \in Admissible(k)',
           Exposed(k)' => Exposed(k),
           flush'.rotate => flush.rotate, UNCHANGED <<parked, readers>>,
           crashable' \subseteq crashable,
           wal'[k] # Absent => safe'[k] = VisibleOf(wal'[k])
    PROVE  CrashAt(k)'
  <1>1. Resolve(readers, k)' = Resolve(readers, k) /\ parked' = parked
    OBVIOUS
  <1>2. Exposed(k)' => \A d \in crashable' : VisibleOf(Resolve(d, k)) \in Admissible(k)'
    BY DEF CrashAt
  <1>3. Exposed(k)' => VisibleOf(Resolve(readers, k)') \in Admissible(k)'
    BY <1>1 DEF CrashAt
  <1>4. (Exposed(k)' \/ flush'.rotate) /\ parked'[k] # Absent =>
           VisibleOf(parked'[k]) \in Admissible(k)'
    BY <1>1 DEF CrashAt
  <1>5. flush'.rotate /\ parked'[k] = Absent =>
           VisibleOf(Resolve(readers, k)') \in Admissible(k)'
    BY <1>1 DEF CrashAt
  <1> QED
    BY <1>2, <1>3, <1>4, <1>5 DEF CrashAt

\* Compaction shows in directory D what the reader list shows, or a stray
\* that was newest in the directory before.
LEMMA CommitKeeps ==
    ASSUME TypeInv, Choice, MergeOf, Hidden, NEW k \in Keys, CrashAt(k), Exposed(k),
           NEW D, NEW left, CommitDir(D, left), DOMAIN D \subseteq Nat, Numbered(D),
           \A n : Stray(D, n) => n \in DOMAIN disk /\ D[n] = disk[n],
           \A n \in DOMAIN disk :
              n \in DOMAIN readers \/ (n \in DOMAIN D /\ D[n] = disk[n])
    PROVE  VisibleOf(Resolve(D, k)) \in Admissible(k)
  <1>0. /\ TypeOK /\ Numbered(readers) /\ Numbered(disk) /\ disk \in crashable
        /\ DOMAIN readers \subseteq Nat
    BY Numbers DEF TypeInv, TypeOK, Files
  <1>1. CASE VisibleOf(Resolve(D, k)) = VisibleOf(Resolve(readers, k))
    BY <1>1 DEF CrashAt
  <1>2. CASE \E n : Stray(D, n) /\ TopHit(D, n, k)
    <2>1. PICK n : Stray(D, n) /\ TopHit(D, n, k)
      BY <1>2
    <2>2. n \in DOMAIN disk /\ D[n] = disk[n] /\ n \in DOMAIN D /\ n \in Nat
      BY <2>1 DEF Stray
    <2>3. \A m \in DOMAIN readers : m < n
      BY <2>1 DEF Stray, CommitDir
    <2>4. ASSUME NEW m, Hit(disk, m, k) PROVE m <= n
      <3>1. CASE m \in DOMAIN readers
        BY <1>0, <2>2, <2>3, <3>1
      <3>2. CASE m \notin DOMAIN readers
        <4>1. Hit(D, m, k)
          BY <2>4, <3>2 DEF Hit
        <4> QED
          BY <2>1, <4>1 DEF TopHit
      <3> QED
        BY <3>1, <3>2
    <2>5. Hit(disk, n, k)
      BY <2>1, <2>2 DEF TopHit, Hit
    <2>6. TopHit(disk, n, k)
      BY <2>4, <2>5 DEF TopHit
    <2>7. Resolve(disk, k) = disk[n][k] /\ Resolve(D, k) = D[n][k]
      BY <1>0, <2>1, <2>6, ResolveTop
    <2> QED
      BY <1>0, <2>2, <2>7 DEF CrashAt
  <1> QED
    BY <1>0, <1>1, <1>2, CommitShows

LEMMA CrashStep ==
    ASSUME IInv, [Next]_vars
    PROVE  CrashInv'
  <1>a. TypeInv /\ FlushInv /\ DirInv /\ CompInv /\ CommitInv /\ ReadsLatest /\ CrashInv
    BY DEF IInv
  <1>0. /\ Small /\ disk \in crashable /\ Numbered(disk) /\ Numbered(readers)
        /\ sst_counter \in Nat /\ TypeOK
        /\ \A d \in crashable : Numbered(d)
    BY <1>a, TypeParts, Numbers DEF FilesOK, TypeInv
  <1>q. /\ queue \in Seq(Keys \X Entries)
        /\ safe \in [Keys -> Values \union {Absent}]
        /\ mem \in Layer /\ parked \in Layer /\ wal \in Layer
    BY <1>0 DEF Small
  <1>e. \A k \in Keys : Empty[k] = Absent
    BY EmptyType
  <1>w. \A k \in Keys : VisibleOf(Top(k)) \in Admissible(k)
    BY <1>a, <1>q, ViewIsTop, LatestAdmissible DEF ReadsLatest
  <1>c. \A k \in Keys : CrashAt(k)
    BY <1>a DEF CrashInv
  <1> USE <1>a
  <1> SUFFICES ASSUME NEW k \in Keys PROVE CrashAt(k)'
    BY DEF CrashInv
  <1>k. CrashAt(k)
    BY <1>c
  \* Steps that leave the history alone.
  <1>h. ASSUME UNCHANGED <<queue, safe>> PROVE Admissible(k)' = Admissible(k)
    BY <1>h DEF Admissible, QueuedFor
  <1>n. NoFlush.rotate = FALSE
    BY DEF NoFlush
  <1>1. ASSUME UNCHANGED <<queue, safe, parked, readers, wal>>,
               crashable' \subseteq crashable,
               rotation' = "truncate" => rotation = "truncate",
               flush'.rotate => flush.rotate
        PROVE  CrashAt(k)'
    <2>1. Exposed(k)' => Exposed(k)
      BY <1>1 DEF Exposed
    <2>2. wal'[k] # Absent => safe'[k] = VisibleOf(wal'[k])
      BY <1>1, <1>k DEF CrashAt
    <2> QED
      BY <1>1, <1>h, <1>k, <2>1, <2>2, CrashKept
  <1>2. ASSUME NEW j \in Keys, NEW e \in Entries, Apply(j, e) PROVE CrashAt(k)'
    <2>1. Admissible(k) \subseteq Admissible(k)'
      BY <1>q, <1>2, ApplyQueue
    <2>2. UNCHANGED <<parked, readers, wal, safe, crashable, flush, rotation>>
      BY <1>2 DEF Apply, fileVars
    <2>3. Exposed(k)' => Exposed(k)
      BY <2>2 DEF Exposed
    <2>4. wal'[k] # Absent => safe'[k] = VisibleOf(wal'[k])
      BY <2>2, <1>k DEF CrashAt
    <2> QED
      BY <1>k, <2>1, <2>2, <2>3, <2>4, CrashKept
  <1>3. CASE LogCommit
    <2>1. PICK j \in Keys, e \in Entries :
             /\ safe' = [safe EXCEPT ![j] = VisibleOf(e)]
             /\ wal' = [wal EXCEPT ![j] = e]
             /\ (k # j => Admissible(k) \subseteq Admissible(k)')
      BY <1>q, <1>3, LogQueue
    <2>2. /\ UNCHANGED <<parked, readers, crashable, flush, rotation>>
          /\ rotation = "no"
      BY <1>3 DEF LogCommit, fileVars
    <2>3. ~ flush.rotate /\ ~ flush'.rotate
      BY <2>2 DEF FlushInv
    <2>4. CASE k = j
      <3>1. e # Absent
        BY LayerAssumption DEF Entries
      <3>2. wal'[k] = e /\ safe'[k] = VisibleOf(e)
        BY <1>q, <2>1, <2>4 DEF Layer
      <3>3. ~ Exposed(k)'
        BY <2>2, <3>1, <3>2 DEF Exposed
      <3> QED
        BY <2>3, <3>2, <3>3 DEF CrashAt
    <2>5. CASE k # j
      <3>1. wal'[k] = wal[k] /\ safe'[k] = safe[k]
        BY <1>q, <2>1, <2>5 DEF Layer
      <3>2. Exposed(k)' => Exposed(k)
        BY <2>2, <3>1 DEF Exposed
      <3>3. wal'[k] # Absent => safe'[k] = VisibleOf(wal'[k])
        BY <1>k, <3>1 DEF CrashAt
      <3> QED
        BY <1>k, <2>1, <2>2, <2>5, <3>2, <3>3, CrashKept
    <2> QED
      BY <2>4, <2>5
  <1>4. CASE RotateBegin \/ FullBegin \/ CompactFault \/ UNCHANGED vars
    <2>1. /\ UNCHANGED <<queue, safe, parked, readers, wal, crashable, flush>>
          /\ rotation' = "truncate" => rotation = "truncate"
      BY <1>4 DEF RotateBegin, FullBegin, CompactFault, vars, layerVars,
         fileVars, histVars
    <2> QED
      BY <1>1, <2>1
  <1>5. ASSUME NEW run \in SUBSET DOMAIN readers, PartialBegin(run) PROVE CrashAt(k)'
    <2>1. UNCHANGED <<queue, safe, parked, readers, wal, crashable, flush, rotation>>
      BY <1>5 DEF PartialBegin, layerVars, fileVars, histVars
    <2> QED
      BY <1>1, <2>1
  <1>6. CASE \/ FlushSyncDir \/ CompactMerge \/ CompactSyncRename
             \/ CompactSyncUnlinks
    <2>1. /\ UNCHANGED <<queue, safe, parked, readers, wal, rotation>>
          /\ crashable' = {disk}
      BY <1>6 DEF FlushSyncDir, CompactMerge, CompactSyncRename,
         CompactSyncUnlinks, SyncDir, layerVars, histVars
    <2>2. flush'.rotate => flush.rotate
      BY <1>6, <1>0 DEF FlushSyncDir, CompactMerge, CompactSyncRename,
         CompactSyncUnlinks, Small
    <2> QED
      BY <1>0, <1>1, <2>1, <2>2
  <1>7. CASE RotateNothingToFlush
    <2>1. /\ UNCHANGED <<queue, safe, parked, readers, wal, crashable, flush>>
          /\ mem = Empty /\ parked = Empty /\ flush.at = "idle"
          /\ comp.at \notin CommitPcs /\ ~ flush.rotate
      BY <1>7 DEF RotateNothingToFlush, FlushLockFree, FlushInv, layerVars,
         fileVars, histVars
    <2>2. VisibleOf(Resolve(readers, k)) \in Admissible(k)
      BY <1>e, <1>w, <2>1 DEF Top
    <2>3. ASSUME NEW d \in crashable PROVE VisibleOf(Resolve(d, k)) \in Admissible(k)
      <3>1. Extends(d) /\ Cover[k] = Absent
        BY <1>e, <2>1 DEF DirInv, Cover
      <3>2. Resolve(d, k) = Resolve(readers, k)
        BY <1>0, <3>1, ExtendsResolves
      <3> QED
        BY <2>2, <3>2
    <2>4. wal'[k] # Absent => safe'[k] = VisibleOf(wal'[k])
      BY <1>k, <2>1 DEF CrashAt
    <2>5. parked'[k] = Absent /\ ~ flush'.rotate
      BY <1>e, <2>1
    <2> QED
      BY <1>h, <2>1, <2>2, <2>3, <2>4, <2>5 DEF CrashAt
  <1>8. CASE RotateTruncate
    <2>1. /\ UNCHANGED <<queue, safe, parked, readers, crashable, flush>>
          /\ wal' = Empty /\ rotation = "truncate"
      BY <1>8 DEF RotateTruncate, fileVars, histVars
    <2>2. wal'[k] = Absent /\ Exposed(k)
      BY <1>e, <2>1 DEF Exposed
    <2> QED
      BY <1>h, <1>k, <2>1, <2>2, CrashKept
  <1>9. ASSUME NEW rotate \in BOOLEAN, FlushSwap(rotate) PROVE CrashAt(k)'
    <2>1. /\ parked = Empty /\ parked' = mem
          /\ UNCHANGED <<queue, safe, readers, wal, crashable, rotation>>
      BY <1>9 DEF FlushSwap, FlushLockFree, FlushInv, histVars
    <2>2. Exposed(k)' <=> Exposed(k)
      BY <2>1 DEF Exposed
    <2>3. wal'[k] # Absent => safe'[k] = VisibleOf(wal'[k])
      BY <1>k, <2>1 DEF CrashAt
    <2>4. mem[k] # Absent => VisibleOf(mem[k]) \in Admissible(k)
      BY <1>w DEF Top
    <2>5. mem[k] = Absent => VisibleOf(Resolve(readers, k)) \in Admissible(k)
      BY <1>e, <1>w, <2>1 DEF Top
    <2>6. Exposed(k) => /\ \A d \in crashable : VisibleOf(Resolve(d, k)) \in Admissible(k)
                        /\ VisibleOf(Resolve(readers, k)) \in Admissible(k)
      BY <1>k DEF CrashAt
    <2> QED
      BY <1>h, <2>1, <2>2, <2>3, <2>4, <2>5, <2>6 DEF CrashAt
  <1>10. CASE FlushRename
    <2>1. /\ UNCHANGED <<queue, safe, parked, readers, wal, rotation>>
          /\ crashable' = crashable \union {With(disk, flush.num, parked)}
          /\ flush.at = "write" /\ flush.num \in Nat /\ flush'.rotate = flush.rotate
      BY <1>0, <1>10 DEF FlushRename, DirOp, layerVars, histVars, Small
    <2>2. Exposed(k)' <=> Exposed(k)
      BY <2>1 DEF Exposed
    <2>3. wal'[k] # Absent => safe'[k] = VisibleOf(wal'[k])
      BY <1>k, <2>1 DEF CrashAt
    <2>4. Resolve(With(disk, flush.num, parked), k)
             = IF parked[k] # Absent THEN parked[k] ELSE Resolve(disk, k)
      BY <1>0, <2>1, WithTop DEF FlushInv
    <2>5. Exposed(k) => VisibleOf(Resolve(With(disk, flush.num, parked), k)) \in Admissible(k)
      BY <1>0, <1>k, <2>4 DEF CrashAt
    <2>6. Exposed(k) => \A d \in crashable' : VisibleOf(Resolve(d, k)) \in Admissible(k)
      BY <1>k, <2>1, <2>5 DEF CrashAt
    <2>7. /\ Exposed(k) => VisibleOf(Resolve(readers, k)) \in Admissible(k)
          /\ (Exposed(k) \/ flush.rotate) /\ parked[k] # Absent =>
                VisibleOf(parked[k]) \in Admissible(k)
          /\ flush.rotate /\ parked[k] = Absent =>
                VisibleOf(Resolve(readers, k)) \in Admissible(k)
      BY <1>k DEF CrashAt
    <2> QED
      BY <1>h, <2>1, <2>2, <2>3, <2>6, <2>7 DEF CrashAt
  <1>11. CASE FlushPublish
    <2>1. /\ UNCHANGED <<queue, safe, wal>> /\ parked' = Empty /\ ~ flush'.rotate
          /\ rotation' = IF flush.rotate THEN "truncate" ELSE rotation
      BY <1>n, <1>11 DEF FlushPublish, histVars
    <2>2. crashable' = {disk}
      BY <1>0, <1>11, Published
    <2>3. /\ Resolve(readers, k)' = Resolve(disk, k)
          /\ Resolve(disk, k) = IF parked[k] # Absent THEN parked[k]
                                ELSE Resolve(readers, k)
      BY <1>11, FlushResolves
    <2>4. Exposed(k)' => Exposed(k) \/ flush.rotate
      BY <2>1 DEF Exposed
    <2>5. Exposed(k)' => VisibleOf(Resolve(disk, k)) \in Admissible(k)
      BY <1>k, <2>3, <2>4 DEF CrashAt
    <2>6. wal'[k] # Absent => safe'[k] = VisibleOf(wal'[k])
      BY <1>k, <2>1 DEF CrashAt
    <2>7. parked'[k] = Absent
      BY <1>e, <2>1
    <2> QED
      BY <1>h, <2>1, <2>2, <2>3, <2>5, <2>6, <2>7 DEF CrashAt
  <1>12. CASE FlushFault
    <2>1. /\ UNCHANGED <<queue, safe, wal, readers, crashable>> /\ parked' = Empty
          /\ ~ flush'.rotate
          /\ rotation' = "truncate" => rotation = "truncate"
      BY <1>n, <1>12 DEF FlushFault, Reabsorb, histVars, fileVars
    <2>2. Exposed(k)' => Exposed(k)
      BY <2>1 DEF Exposed
    <2>3. wal'[k] # Absent => safe'[k] = VisibleOf(wal'[k])
      BY <1>k, <2>1 DEF CrashAt
    <2>4. parked'[k] = Absent
      BY <1>e, <2>1
    <2>5. Exposed(k) => /\ \A d \in crashable : VisibleOf(Resolve(d, k)) \in Admissible(k)
                        /\ VisibleOf(Resolve(readers, k)) \in Admissible(k)
      BY <1>k DEF CrashAt
    <2> QED
      BY <1>h, <2>1, <2>2, <2>3, <2>4, <2>5 DEF CrashAt
  \* A step of the commit that leaves directory D.
  <1>13. ASSUME UNCHANGED <<queue, safe, parked, readers, wal, rotation, flush>>,
                NEW D, crashable' = crashable \union {D},
                Exposed(k) => VisibleOf(Resolve(D, k)) \in Admissible(k)
         PROVE  CrashAt(k)'
    <2>1. Exposed(k)' <=> Exposed(k)
      BY <1>13 DEF Exposed
    <2>2. wal'[k] # Absent => safe'[k] = VisibleOf(wal'[k])
      BY <1>k, <1>13 DEF CrashAt
    <2>3. Exposed(k) => \A d \in crashable' : VisibleOf(Resolve(d, k)) \in Admissible(k)
      BY <1>k, <1>13 DEF CrashAt
    <2>4. /\ Exposed(k) => VisibleOf(Resolve(readers, k)) \in Admissible(k)
          /\ (Exposed(k) \/ flush.rotate) /\ parked[k] # Absent =>
                VisibleOf(parked[k]) \in Admissible(k)
          /\ flush.rotate /\ parked[k] = Absent =>
                VisibleOf(Resolve(readers, k)) \in Admissible(k)
      BY <1>k DEF CrashAt
    <2> QED
      BY <1>h, <1>13, <2>1, <2>2, <2>3, <2>4 DEF CrashAt
  <1>14. CASE CompactRename
    <2>1. PICK D : D = disk'
      OBVIOUS
    <2>2. /\ UNCHANGED <<queue, safe, parked, readers, wal, rotation, flush>>
          /\ crashable' = crashable \union {D} /\ comp.at = "commit"
      BY <1>14, <2>1 DEF CompactRename, DirOp, layerVars, histVars
    <2>3. /\ CommitDir(D, comp.left) /\ DOMAIN D = DOMAIN disk \union {comp.num}
          /\ \A n \in DOMAIN disk : n # comp.num => D[n] = disk[n]
      BY <1>14, <2>1, RenameDir
    <2>4. /\ Choice /\ MergeOf /\ Hidden
          /\ comp.kind = "full" => comp.num \notin DOMAIN disk
          /\ comp.kind = "partial" => comp.num \in DOMAIN readers
      BY <1>0, <2>2 DEF CompInv, Choice
    <2>5. comp.kind \in {"full", "partial"} /\ comp.num \in Nat /\ comp.num <= sst_counter
      BY <1>0, <2>2 DEF Small, CompInv
    <2>6. DOMAIN disk \subseteq Nat /\ \A n \in DOMAIN disk : n <= sst_counter
      BY <1>0 DEF TypeOK, Files
    <2>7. DOMAIN D \subseteq Nat /\ Numbered(D)
      BY <1>0, <2>3, <2>5, <2>6 DEF Numbered
    <2>8. \A n : Stray(D, n) => n \in DOMAIN disk /\ D[n] = disk[n]
      BY <2>3 DEF Stray
    <2>9. \A n \in DOMAIN disk :
              n \in DOMAIN readers \/ (n \in DOMAIN D /\ D[n] = disk[n])
      BY <2>3, <2>4, <2>5
    <2>10. Exposed(k) => VisibleOf(Resolve(D, k)) \in Admissible(k)
      BY <1>k, <2>3, <2>4, <2>7, <2>8, <2>9, CommitKeeps
    <2> QED
      BY <1>13, <2>2, <2>10
  <1>15. CASE CompactUnlink
    <2>1. PICK D : D = disk'
      OBVIOUS
    <2>2. /\ UNCHANGED <<queue, safe, parked, readers, wal, rotation, flush>>
          /\ crashable' = crashable \union {D} /\ comp.at = "unlink"
      BY <1>15, <2>1 DEF CompactUnlink, DirOp, layerVars, histVars
    <2>3. /\ CommitDir(D, comp.left \ {NextUnlink}) /\ CommitDir(disk, comp.left)
          /\ NextUnlink \in comp.left /\ DOMAIN D = DOMAIN disk \ {NextUnlink}
          /\ \A n \in DOMAIN D : D[n] = disk[n]
      BY <1>15, <2>1, UnlinkDir
    <2>4. Choice /\ MergeOf /\ Hidden
      BY <2>2 DEF CompInv
    <2>5. NextUnlink \in DOMAIN readers
      BY <2>3, <2>4 DEF CommitDir, Choice
    <2>6. DOMAIN D \subseteq Nat /\ Numbered(D)
      BY <1>0, <2>3 DEF Numbered
    <2>7. \A n : Stray(D, n) => n \in DOMAIN disk /\ D[n] = disk[n]
      BY <2>3 DEF Stray
    <2>8. \A n \in DOMAIN disk :
              n \in DOMAIN readers \/ (n \in DOMAIN D /\ D[n] = disk[n])
      BY <2>3, <2>5
    <2>9. Exposed(k) => VisibleOf(Resolve(D, k)) \in Admissible(k)
      BY <1>k, <2>3, <2>4, <2>6, <2>7, <2>8, CommitKeeps
    <2> QED
      BY <1>13, <2>2, <2>9
  <1>16. CASE CompactPublish
    <2>1. /\ UNCHANGED <<queue, safe, parked, wal, rotation, flush>>
          /\ comp.at = "publish" /\ comp.at \in CommitPcs
      BY <1>16 DEF CompactPublish, layerVars, histVars, CommitPcs
    <2>2. parked'[k] = Absent /\ ~ flush'.rotate
      BY <1>e, <2>1 DEF FlushInv
    <2>3. crashable' = {disk}
      BY <1>0, <1>16, Published
    <2>4. Resolve(readers, k)' = Resolve(disk, k)
      <3>1. PICK g : g = readers'
        OBVIOUS
      <3>2. Resolve(g, k) = Resolve(disk, k)
        BY <1>0, <1>16, <3>1, Published, SameFiles
      <3> QED
        BY <3>1, <3>2
    <2>5. Exposed(k)' => Exposed(k)
      BY <2>1 DEF Exposed
    <2>6. Exposed(k) => VisibleOf(Resolve(disk, k)) \in Admissible(k)
      BY <1>0, <1>k DEF CrashAt
    <2>7. wal'[k] # Absent => safe'[k] = VisibleOf(wal'[k])
      BY <1>k, <2>1 DEF CrashAt
    <2> QED
      BY <1>h, <2>1, <2>2, <2>3, <2>4, <2>5, <2>6, <2>7 DEF CrashAt
  <1>17. ASSUME NEW d \in crashable, CrashAndOpen(d) PROVE CrashAt(k)'
    <2>1. /\ wal' = wal /\ parked' = Empty /\ crashable' = {d} /\ readers' = d
          /\ ~ flush'.rotate /\ rotation' = "no" /\ safe' = Recovered(d)
      BY <1>n, <1>17 DEF CrashAndOpen
    <2>2. safe'[k] = VisibleOf(IF wal[k] # Absent THEN wal[k] ELSE Resolve(d, k))
      BY <2>1 DEF Recovered
    <2>3. wal'[k] # Absent => safe'[k] = VisibleOf(wal'[k])
      BY <2>1, <2>2
    <2>4. Exposed(k)' => VisibleOf(Resolve(d, k)) = safe'[k]
      BY <2>1, <2>2 DEF Exposed
    <2>5. safe'[k] \in Admissible(k)'
      BY DEF Admissible
    <2>6. parked'[k] = Absent
      BY <1>e, <2>1
    <2> QED
      BY <2>1, <2>3, <2>4, <2>5, <2>6 DEF CrashAt
  <1> QED
    BY <1>2, <1>3, <1>4, <1>5, <1>6, <1>7, <1>8, <1>9, <1>10, <1>11, <1>12,
       <1>14, <1>15, <1>16, <1>17 DEF Next

-----------------------------------------------------------------------------
(* Theorems.                                                               *)

LEMMA InitInv == Init => IInv
  <1> SUFFICES ASSUME Init PROVE IInv
    OBVIOUS
  <1>0. /\ mem = Empty /\ parked = Empty /\ wal = Empty /\ safe = Empty
        /\ disk = <<>> /\ crashable = {<<>>} /\ readers = <<>>
        /\ sst_counter = 1 /\ flush = NoFlush /\ comp = NoComp
        /\ rotation = "no" /\ queue = <<>>
    BY DEF Init
  <1>1. /\ disk \in crashable /\ \A d \in crashable : d = disk
        /\ readers = disk /\ DOMAIN disk = {} /\ DOMAIN queue = {}
    BY <1>0
  <1>2. /\ flush.at = "idle" /\ flush.rotate = FALSE /\ comp.at = "idle"
        /\ comp.at \notin CommitPcs
    BY <1>0 DEF NoFlush, NoComp, CommitPcs
  <1>3. Empty \in Layer /\ \A k \in Keys : Empty[k] = Absent
    BY EmptyType
  <1>4. queue \in Seq(Keys \X Entries)
    BY <1>0
  <1>5. safe \in [Keys -> Values \union {Absent}]
    BY <1>0 DEF Empty
  <1>6. Small
    BY <1>0, <1>3, <1>4, <1>5, NoFlushType, NoCompType DEF Small
  <1>7. FilesOK
    BY <1>1 DEF FilesOK, Store, Below, Files
  <1>8. TypeInv
    BY <1>0, <1>6, <1>7, TypeParts
  <1>9. FlushInv /\ CompInv /\ CommitInv
    BY <1>0, <1>2 DEF FlushInv, CompInv, CommitInv
  <1>10. DirInv
    BY <1>1 DEF DirInv, Extends
  <1>11. ASSUME NEW k \in Keys
         PROVE  /\ Resolve(readers, k) = Absent /\ QueuedFor(k) = {}
                /\ mem[k] = Absent /\ parked[k] = Absent /\ wal[k] = Absent
                /\ safe[k] = Absent /\ VisibleOf(Absent) = Absent
    <2>1. \A n : ~ Hit(readers, n, k)
      BY <1>1 DEF Hit
    <2>2. Resolve(readers, k) = Absent
      BY <2>1, ResolveNone
    <2>3. VisibleOf(Absent) = Absent
      BY DEF VisibleOf
    <2> QED
      BY <1>0, <1>1, <1>3, <2>2, <2>3 DEF QueuedFor
  <1>12. ReadsLatest
    BY <1>11 DEF ReadsLatest, View, Latest
  <1>13. ASSUME NEW k \in Keys PROVE CrashAt(k)
    <2>1. VisibleOf(Resolve(readers, k)) \in Admissible(k)
      BY <1>11 DEF Admissible
    <2> QED
      BY <1>1, <1>2, <1>11, <2>1 DEF CrashAt
  <1> QED
    BY <1>8, <1>9, <1>10, <1>12, <1>13 DEF IInv, CrashInv

LEMMA Step == IInv /\ [Next]_vars => IInv'
  <1> SUFFICES ASSUME IInv, [Next]_vars PROVE IInv'
    OBVIOUS
  <1>1. TypeInv /\ FlushInv /\ DirInv /\ CompInv /\ CommitInv /\ ReadsLatest
    BY DEF IInv
  <1>2. TypeInv' /\ FlushInv'
    BY <1>1, TypeStep, FlushInvStep
  <1>3. DirInv' /\ CompInv'
    BY <1>1, DirStep, CompStep
  <1>4. CommitInv' /\ ReadsLatest'
    BY <1>1, CommitStep, ReadsStep
  <1>5. CrashInv'
    BY CrashStep
  <1> QED
    BY <1>2, <1>3, <1>4, <1>5 DEF IInv

\* The inductive invariant holds always: which files the directory, the
\* reader list and every directory a crash may leave hold, through every step
\* of flushes, rotations and compactions, and which layer covers them.
THEOREM Invariance == Spec => []IInv
  <1>1. Init => IInv
    BY InitInv
  <1>2. IInv /\ [Next]_vars => IInv'
    BY Step
  <1> QED
    BY <1>1, <1>2, PTL DEF Spec

\* Every layer, file, flush and compaction is well formed, and every file's
\* number is below the counter (flush_streaming, compact_ssts, open_with_fs).
THEOREM WellTyped == Spec => []TypeOK
  <1>1. IInv => TypeOK
    BY DEF IInv, TypeInv
  <1> QED
    BY <1>1, Invariance, PTL

\* A read returns the last write of its key at every moment of flushes, failed
\* flushes, rotations and compactions (get, flush_streaming, load_sst_readers).
THEOREM ReadsSeeLatest == Spec => []ReadsLatest
  <1>1. IInv => ReadsLatest
    BY DEF IInv
  <1> QED
    BY <1>1, Invariance, PTL

LEMMA InvCrashSafe == IInv => CrashSafe
  <1> SUFFICES ASSUME IInv, NEW d \in crashable, NEW k \in Keys
               PROVE  \/ Recovered(d)[k] = safe[k]
                      \/ \E i \in QueuedFor(k) :
                            Recovered(d)[k] = VisibleOf(queue[i][2])
    BY DEF CrashSafe
  <1>1. CrashAt(k)
    BY DEF IInv, CrashInv
  <1>2. Recovered(d)[k] = VisibleOf(IF wal[k] # Absent THEN wal[k] ELSE Resolve(d, k))
    BY DEF Recovered
  <1>3. CASE wal[k] # Absent
    BY <1>1, <1>2, <1>3 DEF CrashAt
  <1>4. CASE wal[k] = Absent
    <2>1. VisibleOf(Resolve(d, k)) \in Admissible(k)
      BY <1>1, <1>4 DEF CrashAt, Exposed
    <2> QED
      BY <1>2, <1>4, <2>1 DEF Admissible
  <1> QED
    BY <1>3, <1>4

\* Whatever moment a crash takes, and whichever directory operations not yet
\* fsynced it keeps, recovery finds for every key its last logged write or a
\* later one (flush, truncate, rename, sync_dir and unlink order).
THEOREM CrashesLoseNothing == Spec => []CrashSafe
  BY Invariance, InvCrashSafe, PTL

-----------------------------------------------------------------------------
(* The refinement.                                                         *)

\* The queue as KVStore sees it.
Shown(q) == [i \in DOMAIN q |-> <<q[i][1], VisibleOf(q[i][2])>>]

LEMMA ShownAppend ==
    ASSUME NEW q \in Seq(Keys \X Entries), NEW k \in Keys, NEW e \in Entries
    PROVE  Shown(Append(q, <<k, e>>)) = Append(Shown(q), <<k, VisibleOf(e)>>)
  <1>1. PICK n \in Nat : n = Len(q) /\ DOMAIN q = 1 .. n
    OBVIOUS
  <1>2. PICK a : a = Append(q, <<k, e>>)
    OBVIOUS
  <1>3. /\ DOMAIN a = 1 .. n + 1 /\ a[n + 1] = <<k, e>>
        /\ \A i \in 1 .. n : a[i] = q[i]
    BY <1>1, <1>2
  <1>4. PICK s : s = Shown(q)
    OBVIOUS
  <1>5. /\ DOMAIN s = 1 .. n /\ s \in Seq(Keys \X (Values \union {Absent}))
        /\ \A i \in 1 .. n : s[i] = <<q[i][1], VisibleOf(q[i][2])>>
    <2>1. \A i \in 1 .. n : q[i] \in Keys \X Entries
      BY <1>1
    <2>2. \A i \in 1 .. n : <<q[i][1], VisibleOf(q[i][2])>>
                               \in Keys \X (Values \union {Absent})
      BY <2>1, VisibleType
    <2> QED
      BY <1>1, <1>4, <2>2 DEF Shown
  <1>6. Len(s) = n
    BY <1>5
  <1>7. PICK b : b = Append(s, <<k, VisibleOf(e)>>)
    OBVIOUS
  <1>8. /\ DOMAIN b = 1 .. n + 1 /\ b[n + 1] = <<k, VisibleOf(e)>>
        /\ \A i \in 1 .. n : b[i] = s[i]
        /\ b = [i \in 1 .. n + 1 |-> b[i]]
    BY <1>5, <1>6, <1>7, VisibleType
  <1>9. ASSUME NEW i \in 1 .. n + 1 PROVE <<a[i][1], VisibleOf(a[i][2])>> = b[i]
    <2>1. CASE i = n + 1
      BY <1>3, <1>8, <2>1
    <2>2. CASE i \in 1 .. n
      BY <1>3, <1>5, <1>8, <2>2
    <2> QED
      BY <2>1, <2>2
  <1>10. Shown(a) = [i \in 1 .. n + 1 |-> <<a[i][1], VisibleOf(a[i][2])>>]
    BY <1>3 DEF Shown
  <1>11. Shown(a) = b
    BY <1>8, <1>9, <1>10
  <1> QED
    BY <1>2, <1>4, <1>7, <1>11

LEMMA ShownTail ==
    ASSUME NEW q \in Seq(Keys \X Entries), q # <<>>
    PROVE  /\ Shown(Tail(q)) = Tail(Shown(q)) /\ Shown(q) # <<>>
           /\ Shown(q)[1] = <<q[1][1], VisibleOf(q[1][2])>>
  <1>1. PICK n \in Nat : n = Len(q) /\ DOMAIN q = 1 .. n /\ n >= 1
    OBVIOUS
  <1>2. PICK a : a = Tail(q)
    OBVIOUS
  <1>3. DOMAIN a = 1 .. n - 1 /\ \A i \in 1 .. n - 1 : a[i] = q[i + 1]
    BY <1>1, <1>2
  <1>4. PICK s : s = Shown(q)
    OBVIOUS
  <1>5. /\ DOMAIN s = 1 .. n /\ s \in Seq(Keys \X (Values \union {Absent}))
        /\ \A i \in 1 .. n : s[i] = <<q[i][1], VisibleOf(q[i][2])>>
    <2>1. \A i \in 1 .. n : q[i] \in Keys \X Entries
      BY <1>1
    <2>2. \A i \in 1 .. n : <<q[i][1], VisibleOf(q[i][2])>>
                               \in Keys \X (Values \union {Absent})
      BY <2>1, VisibleType
    <2> QED
      BY <1>1, <1>4, <2>2 DEF Shown
  <1>6. Len(s) = n /\ s # <<>>
    BY <1>1, <1>5
  <1>7. PICK b : b = Tail(s)
    OBVIOUS
  <1>8. /\ DOMAIN b = 1 .. n - 1 /\ \A i \in 1 .. n - 1 : b[i] = s[i + 1]
        /\ b = [i \in 1 .. n - 1 |-> b[i]]
    <2>1. b \in Seq(Keys \X (Values \union {Absent})) /\ Len(b) = n - 1
      BY <1>1, <1>5, <1>6, <1>7
    <2>2. DOMAIN b = 1 .. n - 1 /\ b = [i \in 1 .. n - 1 |-> b[i]]
      BY <2>1
    <2>3. \A i \in 1 .. n - 1 : b[i] = s[i + 1]
      BY <1>1, <1>5, <1>6, <1>7
    <2> QED
      BY <2>2, <2>3
  <1>9. ASSUME NEW i \in 1 .. n - 1 PROVE <<a[i][1], VisibleOf(a[i][2])>> = b[i]
    <2>1. i + 1 \in 1 .. n
      BY <1>1
    <2> QED
      BY <1>3, <1>5, <1>8, <2>1
  <1>10. Shown(a) = [i \in 1 .. n - 1 |-> <<a[i][1], VisibleOf(a[i][2])>>]
    BY <1>3 DEF Shown
  <1>11. Shown(a) = b
    BY <1>8, <1>9, <1>10
  <1>12. s[1] = <<q[1][1], VisibleOf(q[1][2])>>
    BY <1>1, <1>5
  <1> QED
    BY <1>2, <1>4, <1>6, <1>7, <1>11, <1>12

LEMMA ViewType == View \in [Keys -> Values \union {Absent}]
  BY VisibleType DEF View

\* Functions over the keys that agree everywhere are equal.
LEMMA SameView ==
    ASSUME \A k \in Keys : View'[k] = View[k]
    PROVE  View' = View
  <1>1. View = [k \in Keys |-> View[k]]
    BY DEF View
  <1>2. View' = [k \in Keys |-> View'[k]]
    BY DEF View
  <1> QED
    BY <1>1, <1>2

\* Every step is a step of the plain store or changes nothing it shows.
LEMMA RefinedStep ==
    ASSUME IInv, [Next]_vars
    PROVE  [Abstract!Next]_(Abstract!vars)
  <1>a. /\ IInv' /\ ReadsLatest /\ ReadsLatest' /\ CrashSafe
        /\ queue \in Seq(Keys \X Entries)
        /\ safe \in [Keys -> Values \union {Absent}]
        /\ safe' \in [Keys -> Values \union {Absent}]
    BY Step, InvCrashSafe DEF IInv, TypeInv, TypeOK
  <1>v. \A k \in Keys : View[k] = Latest(k) /\ View'[k] = Latest(k)'
    BY <1>a DEF ReadsLatest
  <1>1. ASSUME UNCHANGED <<queue, safe>> PROVE UNCHANGED Abstract!vars
    <2>1. \A k \in Keys : Latest(k)' = Latest(k)
      BY <1>1 DEF Latest, QueuedFor
    <2>2. View' = View
      BY <1>v, <2>1, SameView
    <2> QED
      BY <1>1, <2>2 DEF Abstract!vars
  <1>2. ASSUME NEW k \in Keys, NEW e \in Entries, Apply(k, e) PROVE Abstract!Next
    <2>1. queue' = Append(queue, <<k, e>>) /\ safe' = safe
      BY <1>2 DEF Apply
    <2>2. Shown(queue') = Append(Shown(queue), <<k, VisibleOf(e)>>)
      BY <1>a, <2>1, ShownAppend
    <2>3. /\ Latest(k)' = VisibleOf(e)
          /\ \A j \in Keys : j # k => Latest(j)' = Latest(j)
      BY <1>a, <1>2, ApplyQueue
    <2>4. View' = [View EXCEPT ![k] = VisibleOf(e)]
      <3>1. View = [j \in Keys |-> View[j]] /\ View' = [j \in Keys |-> View'[j]]
        BY DEF View
      <3>2. \A j \in Keys : View'[j] = IF j = k THEN VisibleOf(e) ELSE View[j]
        BY <1>v, <2>3
      <3> QED
        BY <3>1, <3>2
    <2>5. VisibleOf(e) \in Abstract!Visible
      BY VisibleType DEF Abstract!Visible
    <2>6. Abstract!Write(k, VisibleOf(e))
      BY <2>1, <2>2, <2>4 DEF Abstract!Write, Shown
    <2> QED
      BY <2>5, <2>6 DEF Abstract!Next
  <1>3. CASE LogCommit
    <2>1. PICK k \in Keys, e \in Entries :
             /\ queue[1] = <<k, e>> /\ safe' = [safe EXCEPT ![k] = VisibleOf(e)]
             /\ \A j \in Keys : Latest(j)' = Latest(j)
      BY <1>a, <1>3, LogQueue
    <2>2. queue # <<>> /\ queue' = Tail(queue)
      BY <1>3 DEF LogCommit
    <2>3. /\ Shown(queue') = Tail(Shown(queue)) /\ Shown(queue) # <<>>
          /\ Shown(queue)[1] = <<k, VisibleOf(e)>>
      BY <1>a, <2>1, <2>2, ShownTail
    <2>4. View' = View
      BY <1>v, <2>1, SameView
    <2>5. Abstract!Log
      <3>1. PICK s : s = Shown(queue)
        OBVIOUS
      <3>2. s[1][1] = k /\ s[1][2] = VisibleOf(e)
        BY <2>3, <3>1
      <3>3. safe' = [safe EXCEPT ![s[1][1]] = s[1][2]]
        BY <2>1, <3>2
      <3>4. Shown(queue') = Tail(s) /\ s # <<>>
        BY <2>3, <3>1
      <3> QED
        BY <2>4, <3>1, <3>3, <3>4 DEF Abstract!Log, Shown
    <2> QED
      BY <2>5 DEF Abstract!Next
  <1>4. ASSUME NEW d \in crashable, CrashAndOpen(d) PROVE Abstract!Next
    <2>1. queue' = <<>> /\ safe' = Recovered(d)
      BY <1>4 DEF CrashAndOpen
    <2>2. Shown(queue') = <<>>
      BY <2>1 DEF Shown
    <2>3. ASSUME NEW k \in Keys
          PROVE  \/ safe'[k] = safe[k]
                 \/ \E i \in DOMAIN queue :
                       queue[i][1] = k /\ safe'[k] = VisibleOf(queue[i][2])
      BY <1>a, <2>1 DEF CrashSafe, QueuedFor
    <2>4. ASSUME NEW k \in Keys PROVE safe'[k] \in Abstract!Admissible(k)
      <3>1. PICK s : s = Shown(queue)
        OBVIOUS
      <3>2. /\ DOMAIN s = DOMAIN queue
            /\ \A i \in DOMAIN queue : /\ s[i][1] = queue[i][1]
                                       /\ s[i][2] = VisibleOf(queue[i][2])
        BY <3>1 DEF Shown
      <3>3. safe'[k] \in {safe[k]} \union
                {s[i][2] : i \in {j \in DOMAIN s : s[j][1] = k}}
        BY <2>3, <3>2
      <3> QED
        BY <3>1, <3>3 DEF Abstract!Admissible, Shown
    <2>5. View' = safe'
      <3>1. ASSUME NEW k \in Keys PROVE View'[k] = safe'[k]
        <4>1. QueuedFor(k)' = {}
          BY <2>1 DEF QueuedFor
        <4>2. Latest(k)' = safe'[k]
          BY <4>1 DEF Latest
        <4> QED
          BY <1>v, <4>2
      <3>2. View' = [k \in Keys |-> View'[k]] /\ safe' = [k \in Keys |-> safe'[k]]
        BY <1>a DEF View
      <3> QED
        BY <3>1, <3>2
    <2>6. safe' \in [Keys -> Abstract!Visible]
      BY <1>a DEF Abstract!Visible
    <2>7. Abstract!Crash
      BY <2>2, <2>4, <2>5, <2>6 DEF Abstract!Crash, Shown
    <2> QED
      BY <2>7 DEF Abstract!Next
  <1>5. CASE \/ RotateBegin \/ RotateNothingToFlush \/ RotateTruncate
             \/ FlushRename \/ FlushSyncDir \/ FlushPublish \/ FlushFault
             \/ UNCHANGED vars
    BY <1>1, <1>5 DEF RotateBegin, RotateNothingToFlush, RotateTruncate,
       FlushRename, FlushSyncDir, FlushPublish, FlushFault, vars, histVars
  <1>6. CASE \/ CompactMerge \/ CompactRename \/ CompactSyncRename
             \/ CompactUnlink \/ CompactSyncUnlinks \/ CompactPublish
             \/ CompactFault \/ FullBegin
    BY <1>1, <1>6 DEF CompactMerge, CompactRename, CompactSyncRename,
       CompactUnlink, CompactSyncUnlinks, CompactPublish, CompactFault,
       FullBegin, histVars
  <1>7. ASSUME NEW rotate \in BOOLEAN, FlushSwap(rotate)
        PROVE  UNCHANGED Abstract!vars
    BY <1>1, <1>7 DEF FlushSwap, histVars
  <1>8. ASSUME NEW run \in SUBSET DOMAIN readers, PartialBegin(run)
        PROVE  UNCHANGED Abstract!vars
    BY <1>1, <1>8 DEF PartialBegin, histVars
  <1> QED
    BY <1>2, <1>3, <1>4, <1>5, <1>6, <1>7, <1>8 DEF Next

\* Memtable, flush, compaction, WAL and recovery together implement a plain
\* key-value store whose crashes lose only writes that were not logged
\* (StorageEngine, src/src/storage/engine.rs).
THEOREM Refinement == Spec => ImplementsKVStore
  <1>1. Init => Abstract!Init
    <2> SUFFICES ASSUME Init PROVE Abstract!Init
      OBVIOUS
    <2>1. IInv
      BY InitInv
    <2>2. queue = <<>> /\ safe = Empty
      BY DEF Init
    <2>3. \A k \in Keys : View[k] = Absent
      BY <2>1, <2>2, EmptyType DEF IInv, ReadsLatest, Latest, QueuedFor
    <2>4. View = [k \in Keys |-> Absent]
      <3>1. View = [k \in Keys |-> View[k]]
        BY DEF View
      <3> QED
        BY <2>3, <3>1
    <2> QED
      BY <2>2, <2>4 DEF Abstract!Init, Empty
  <1>2. IInv /\ [Next]_vars => [Abstract!Next]_(Abstract!vars)
    BY RefinedStep
  <1> QED
    BY <1>1, <1>2, Invariance, PTL DEF Spec, ImplementsKVStore, Abstract!Spec
=============================================================================
