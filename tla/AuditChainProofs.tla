-------------------------- MODULE AuditChainProofs --------------------------
(***************************************************************************)
(* Proofs about AuditChain, for any appenders and archives and any number  *)
(* of appends, imports, prunes, faults and crashes: the cached head is the *)
(* stored one, no acknowledged event is lost, no event is there twice, and *)
(* as long as one chain key was minted the log verifies and a loss shows.  *)
(***************************************************************************)
EXTENDS AuditChain, FiniteSetTheorems, WellFoundedInduction, TLAPS

-----------------------------------------------------------------------------
(* The inductive invariant.  Its parts are stated of a log vs whose first  *)
(* version is numbered d, so that the lemmas speak of the log before and   *)
(* after a step alike.                                                     *)

IsSequence(s) == \E S : s \in Seq(S)

RealHead(h) ==
    /\ h = [anchor |-> h.anchor, last_hash |-> h.last_hash, seq |-> h.seq,
            count |-> h.count, key |-> h.key]
    /\ h.seq \in Nat /\ h.count \in Nat /\ h.count <= h.seq
AnyHead(h) == h = NoHead \/ RealHead(h)

Ids(events) == {e.id : e \in events}
Distinct(events) == \A d, e \in events : d.id = e.id => d = e

\* A version of the rows after n appends: no event twice, and ids of the two
\* kinds, appended and archived.
IsRow(v, n) ==
    /\ v = [key |-> v.key, head |-> v.head, events |-> v.events,
            anchored |-> v.anchored, pruned |-> v.pruned]
    /\ AnyHead(v.head) /\ IsFiniteSet(v.events)
    /\ Distinct(v.events)
    /\ \A e \in v.events : e.id \in Nat /\ (e.id <= n \/ e.id > MaxAppends)

\* The events that v holds or whose prune it records.
HeldBy(v) == Ids(v.events) \union v.pruned

StoreOK(vs, d, n) ==
    /\ IsSequence(vs) /\ Len(vs) \in Nat \ {0} /\ d \in Nat
    /\ n \in Nat /\ n <= MaxAppends
    /\ \A i \in 1 .. Len(vs) : IsRow(vs[i], n)

\* Version no has been written, and it and its successors hold ids.
Noted(vs, d, no, ids) ==
    /\ no \in Nat /\ no <= d + Len(vs) - 1
    /\ \A i \in 1 .. Len(vs) : d + i - 1 >= no => ids \subseteq HeldBy(vs[i])

Holding == {"mint", "minting", "chain"}

\* An appender: its id is no archive's, nowhere before its batch is written and
\* in every version from then on.
AppOK(vs, d, n, p) ==
    /\ p = [at |-> p.at, key |-> p.key, id |-> p.id, no |-> p.no]
    /\ p.at \in {"idle", "await"} \union Holding
    /\ p.at # "idle" => p.id \in 1 .. n
    /\ p.at \in Holding => \A i \in 1 .. Len(vs) : p.id \notin Ids(vs[i].events)
    /\ p.at = "await" => Noted(vs, d, p.no, {p.id})

\* The import: the ids it knows are held, those of the archive it has been
\* through are among them, and so is every archived id of the newest version.
ImpOK(vs, d, p) ==
    /\ p = [at |-> p.at, archive |-> p.archive, key |-> p.key, known |-> p.known,
            next |-> p.next, restamp |-> p.restamp, stamp |-> p.stamp,
            our_seq |-> p.our_seq, seq |-> p.seq, no |-> p.no]
    /\ p.at \in {"idle", "mint", "minting", "scan", "chunk", "await"}
    /\ p.at # "idle" => p.archive \in Archives
    /\ p.at # "idle" => p.next \in 0 .. Len(p.archive)
    /\ p.at \in {"mint", "minting", "scan"} => p.next = 0
    /\ p.at \in {"chunk", "await"} =>
          /\ p.known \subseteq HeldBy(vs[Len(vs)])
          /\ \A j \in 1 .. p.next : p.archive[j].id \in p.known
          /\ \A x \in Ids(vs[Len(vs)].events) : x > MaxAppends => x \in p.known
    /\ p.at = "await" => Noted(vs, d, p.no, p.known)

StoreInv ==
    /\ StoreOK(versions, durableNo, appends)
    /\ fenced \in BOOLEAN /\ now \in 0 .. MaxTime

LockInv ==
    /\ lock \in Appenders \union {"free", "prune"}
    /\ \A a \in Appenders : lock = a <=> app[a].at \in Holding
    /\ lock = "prune" <=> prune.at = "await"

\* Unless fenced, whoever may use the cached head finds the stored one, and the
\* prune that holds the lock will put the stored one there.
CacheInv ==
    /\ AnyHead(cached) /\ AnyHead(prune.head)
    /\ ~fenced /\ cached # NoHead /\ lock # "prune" => cached = Rows.head
    /\ ~fenced /\ prune.at = "await" => prune.head = Rows.head

AppInv ==
    /\ app = [a \in Appenders |-> app[a]]
    /\ \A a \in Appenders : AppOK(versions, durableNo, appends, app[a])

ImpInv == ImpOK(versions, durableNo, imp)

AckInv == Noted(versions, durableNo, 0, acked)

IInv == StoreInv /\ LockInv /\ CacheInv /\ AppInv /\ ImpInv /\ AckInv

-----------------------------------------------------------------------------
(* Sequences and numbers.                                                  *)

LEMMA SmallestOf ==
    ASSUME NEW S \in SUBSET Nat, S # {}
    PROVE  Min(S) \in S /\ \A y \in S : Min(S) <= y
  <1> DEFINE R == {ss \in Nat \X Nat : ss[1] < ss[2]}
  <1>1. IsWellFoundedOn(R, Nat)
    BY NatLessThanWellFounded DEF OpToRel
  <1> HIDE DEF R
  <1>2. PICK x \in S : \A y \in S : ~ (<<y, x>> \in R)
    BY <1>1, WFMin
  <1>3. ASSUME NEW y \in S PROVE x <= y
    <2>1. x \in Nat /\ y \in Nat /\ ~ (<<y, x>> \in R)
      BY <1>2
    <2>2. <<y, x>> \in Nat \X Nat
      BY <2>1
    <2>3. ~ (y < x)
      BY <2>1, <2>2 DEF R
    <2> QED
      BY <2>1, <2>3
  <1> QED
    BY <1>2, <1>3 DEF Min

LEMMA AppendedLog ==
    ASSUME NEW vs, NEW r, IsSequence(vs)
    PROVE  /\ IsSequence(Append(vs, r)) /\ Len(vs) \in Nat
           /\ Len(Append(vs, r)) = Len(vs) + 1
           /\ Append(vs, r)[Len(vs) + 1] = r
           /\ \A i \in 1 .. Len(vs) : Append(vs, r)[i] = vs[i]
  <1>1. PICK S : vs \in Seq(S)
    BY DEF IsSequence
  <1> DEFINE T == S \union {r}
  <1>2. vs \in Seq(T) /\ r \in T
    BY <1>1
  <1> HIDE DEF T
  <1>3. Append(vs, r) \in Seq(T)
    BY <1>2
  <1> QED
    BY <1>2, <1>3 DEF IsSequence

LEMMA TailLog ==
    ASSUME NEW vs, IsSequence(vs), Len(vs) > 1
    PROVE  /\ IsSequence(Tail(vs)) /\ Len(Tail(vs)) = Len(vs) - 1
           /\ Len(vs) \in Nat
           /\ \A i \in 1 .. Len(vs) - 1 : Tail(vs)[i] = vs[i + 1]
  <1>1. PICK S : vs \in Seq(S)
    BY DEF IsSequence
  <1>2. Tail(vs) \in Seq(S) /\ vs # <<>>
    BY <1>1
  <1> QED
    BY <1>1, <1>2 DEF IsSequence

LEMMA SingleLog ==
    ASSUME NEW r
    PROVE  IsSequence(<<r>>) /\ Len(<<r>>) = 1 /\ <<r>>[1] = r
  <1>1. <<r>> \in Seq({r})
    OBVIOUS
  <1> QED
    BY <1>1 DEF IsSequence

-----------------------------------------------------------------------------
(* The log: a batch written, a batch made durable, a crash.                *)

LEMMA NotedWrite ==
    ASSUME NEW vs, NEW d, NEW n, NEW no, NEW ids, NEW r,
           StoreOK(vs, d, n), Noted(vs, d, no, ids),
           HeldBy(vs[Len(vs)]) \subseteq HeldBy(r)
    PROVE  Noted(Append(vs, r), d, no, ids)
  <1> DEFINE ws == Append(vs, r)
  <1>1. /\ Len(vs) \in Nat \ {0} /\ d \in Nat /\ no \in Nat
        /\ Len(ws) = Len(vs) + 1 /\ ws[Len(vs) + 1] = r
        /\ \A i \in 1 .. Len(vs) : ws[i] = vs[i]
        /\ no <= d + Len(vs) - 1
    BY AppendedLog DEF StoreOK, Noted
  <1>2. ids \subseteq HeldBy(r)
    BY <1>1 DEF Noted
  <1> HIDE DEF ws
  <1>3. ASSUME NEW i \in 1 .. Len(ws), d + i - 1 >= no
        PROVE  ids \subseteq HeldBy(ws[i])
    <2>1. CASE i = Len(vs) + 1
      BY <1>1, <1>2, <2>1
    <2>2. CASE i \in 1 .. Len(vs)
      BY <1>1, <1>3, <2>2 DEF Noted
    <2> QED
      BY <1>1, <2>1, <2>2
  <1>4. no <= d + Len(ws) - 1
    BY <1>1
  <1>5. Noted(ws, d, no, ids)
    BY <1>1, <1>3, <1>4 DEF Noted
  <1> QED
    BY <1>5 DEF ws

LEMMA NotedNew ==
    ASSUME NEW vs, NEW d, NEW n, NEW ids, NEW r,
           StoreOK(vs, d, n), ids \subseteq HeldBy(r)
    PROVE  Noted(Append(vs, r), d, d + Len(vs), ids)
  <1> DEFINE ws == Append(vs, r)
  <1>1. /\ Len(vs) \in Nat \ {0} /\ d \in Nat
        /\ Len(ws) = Len(vs) + 1 /\ ws[Len(vs) + 1] = r
    BY AppendedLog DEF StoreOK
  <1> HIDE DEF ws
  <1>2. ASSUME NEW i \in 1 .. Len(ws), d + i - 1 >= d + Len(vs)
        PROVE  ids \subseteq HeldBy(ws[i])
    <2>1. i = Len(vs) + 1
      BY <1>1, <1>2
    <2> QED
      BY <1>1, <2>1
  <1>3. d + Len(vs) \in Nat /\ d + Len(vs) <= d + Len(ws) - 1
    BY <1>1
  <1>4. Noted(ws, d, d + Len(vs), ids)
    BY <1>2, <1>3 DEF Noted
  <1> QED
    BY <1>4 DEF ws

LEMMA NotedCommit ==
    ASSUME NEW vs, NEW d, NEW n, NEW no, NEW ids,
           StoreOK(vs, d, n), Noted(vs, d, no, ids), Len(vs) > 1
    PROVE  Noted(Tail(vs), d + 1, no, ids)
  <1> DEFINE ws == Tail(vs)
  <1>1. /\ Len(vs) \in Nat \ {0} /\ d \in Nat /\ no \in Nat
        /\ Len(ws) = Len(vs) - 1
        /\ \A i \in 1 .. Len(vs) - 1 : ws[i] = vs[i + 1]
        /\ no <= d + Len(vs) - 1
    BY TailLog DEF StoreOK, Noted
  <1> HIDE DEF ws
  <1>2. ASSUME NEW i \in 1 .. Len(ws), d + 1 + i - 1 >= no
        PROVE  ids \subseteq HeldBy(ws[i])
    <2>1. i + 1 \in 1 .. Len(vs) /\ d + (i + 1) - 1 >= no /\ ws[i] = vs[i + 1]
      BY <1>1, <1>2
    <2> QED
      BY <2>1 DEF Noted
  <1>3. no <= d + 1 + Len(ws) - 1
    BY <1>1
  <1>4. Noted(ws, d + 1, no, ids)
    BY <1>1, <1>2, <1>3 DEF Noted
  <1> QED
    BY <1>4 DEF ws

LEMMA StoreWrite ==
    ASSUME NEW vs, NEW d, NEW n, NEW r, StoreOK(vs, d, n), IsRow(r, n)
    PROVE  StoreOK(Append(vs, r), d, n)
  <1> DEFINE ws == Append(vs, r)
  <1>1. /\ Len(vs) \in Nat \ {0} /\ IsSequence(ws)
        /\ Len(ws) = Len(vs) + 1 /\ ws[Len(vs) + 1] = r
        /\ \A i \in 1 .. Len(vs) : ws[i] = vs[i]
    BY AppendedLog DEF StoreOK
  <1> HIDE DEF ws
  <1>2. ASSUME NEW i \in 1 .. Len(ws) PROVE IsRow(ws[i], n)
    <2>1. CASE i = Len(vs) + 1
      BY <1>1, <2>1
    <2>2. CASE i \in 1 .. Len(vs)
      BY <1>1, <2>2 DEF StoreOK
    <2> QED
      BY <1>1, <2>1, <2>2
  <1>3. StoreOK(ws, d, n)
    BY <1>1, <1>2 DEF StoreOK
  <1> QED
    BY <1>3 DEF ws

LEMMA StoreCommit ==
    ASSUME NEW vs, NEW d, NEW n, StoreOK(vs, d, n), Len(vs) > 1
    PROVE  /\ StoreOK(Tail(vs), d + 1, n)
           /\ Tail(vs)[Len(Tail(vs))] = vs[Len(vs)]
  <1> DEFINE ws == Tail(vs)
  <1>1. /\ Len(vs) \in Nat \ {0} /\ IsSequence(ws) /\ d \in Nat
        /\ Len(ws) = Len(vs) - 1
        /\ \A i \in 1 .. Len(vs) - 1 : ws[i] = vs[i + 1]
    BY TailLog DEF StoreOK
  <1> HIDE DEF ws
  <1>2. ASSUME NEW i \in 1 .. Len(ws) PROVE IsRow(ws[i], n)
    <2>1. i + 1 \in 1 .. Len(vs) /\ ws[i] = vs[i + 1]
      BY <1>1
    <2> QED
      BY <2>1 DEF StoreOK
  <1>3. Len(ws) \in Nat \ {0} /\ d + 1 \in Nat
    BY <1>1
  <1>4. StoreOK(ws, d + 1, n)
    BY <1>1, <1>2, <1>3 DEF StoreOK
  <1>5. ws[Len(ws)] = vs[Len(vs)]
    BY <1>1, <1>3
  <1> QED
    BY <1>4, <1>5 DEF ws

\* One more append was begun.
LEMMA StoreMore ==
    ASSUME NEW vs, NEW d, NEW n, StoreOK(vs, d, n), n < MaxAppends
    PROVE  StoreOK(vs, d, n + 1)
  <1>1. n + 1 \in Nat /\ n + 1 <= MaxAppends /\ n \in Nat
    BY AuditAssumption DEF StoreOK
  <1>2. ASSUME NEW i \in 1 .. Len(vs) PROVE IsRow(vs[i], n + 1)
    <2>1. IsRow(vs[i], n)
      BY DEF StoreOK
    <2>2. \A e \in vs[i].events :
            e.id \in Nat /\ (e.id <= n + 1 \/ e.id > MaxAppends)
      BY <1>1, <2>1 DEF IsRow
    <2> QED
      BY <2>1, <2>2 DEF IsRow
  <1> QED
    BY <1>1, <1>2 DEF StoreOK

LEMMA AppWrite ==
    ASSUME NEW vs, NEW d, NEW n, NEW p, NEW r,
           StoreOK(vs, d, n), AppOK(vs, d, n, p),
           HeldBy(vs[Len(vs)]) \subseteq HeldBy(r),
           p.at \in Holding => p.id \notin Ids(r.events)
    PROVE  AppOK(Append(vs, r), d, n, p)
  <1> DEFINE ws == Append(vs, r)
  <1>1. /\ Len(vs) \in Nat \ {0}
        /\ Len(ws) = Len(vs) + 1 /\ ws[Len(vs) + 1] = r
        /\ \A i \in 1 .. Len(vs) : ws[i] = vs[i]
    BY AppendedLog DEF StoreOK
  <1>2. p.at = "await" => Noted(ws, d, p.no, {p.id})
    BY NotedWrite DEF AppOK
  <1> HIDE DEF ws
  <1>3. ASSUME p.at \in Holding, NEW i \in 1 .. Len(ws)
        PROVE  p.id \notin Ids(ws[i].events)
    <2>1. CASE i = Len(vs) + 1
      BY <1>1, <1>3, <2>1
    <2>2. CASE i \in 1 .. Len(vs)
      BY <1>1, <1>3, <2>2 DEF AppOK
    <2> QED
      BY <1>1, <2>1, <2>2
  <1>4. AppOK(ws, d, n, p)
    BY <1>2, <1>3 DEF AppOK
  <1> QED
    BY <1>4 DEF ws

LEMMA AppCommit ==
    ASSUME NEW vs, NEW d, NEW n, NEW p,
           StoreOK(vs, d, n), AppOK(vs, d, n, p), Len(vs) > 1
    PROVE  AppOK(Tail(vs), d + 1, n, p)
  <1> DEFINE ws == Tail(vs)
  <1>1. /\ Len(vs) \in Nat \ {0} /\ Len(ws) = Len(vs) - 1
        /\ \A i \in 1 .. Len(vs) - 1 : ws[i] = vs[i + 1]
    BY TailLog DEF StoreOK
  <1>2. p.at = "await" => Noted(ws, d + 1, p.no, {p.id})
    BY NotedCommit DEF AppOK
  <1> HIDE DEF ws
  <1>3. ASSUME p.at \in Holding, NEW i \in 1 .. Len(ws)
        PROVE  p.id \notin Ids(ws[i].events)
    <2>1. i + 1 \in 1 .. Len(vs) /\ ws[i] = vs[i + 1]
      BY <1>1
    <2> QED
      BY <1>3, <2>1 DEF AppOK
  <1>4. AppOK(ws, d + 1, n, p)
    BY <1>2, <1>3 DEF AppOK
  <1> QED
    BY <1>4 DEF ws

LEMMA AppMore ==
    ASSUME NEW vs, NEW d, NEW n \in Nat, NEW p, AppOK(vs, d, n, p)
    PROVE  AppOK(vs, d, n + 1, p)
  <1>1. p.at # "idle" => p.id \in 1 .. n + 1
    BY DEF AppOK
  <1> QED
    BY <1>1 DEF AppOK

LEMMA AppIdle ==
    ASSUME NEW vs, NEW d, NEW n
    PROVE  AppOK(vs, d, n, IdleApp) /\ IdleApp.at = "idle"
  BY DEF AppOK, IdleApp, Holding

\* The new row has no archived id the old one had not.
LEMMA ImpWrite ==
    ASSUME NEW vs, NEW d, NEW n, NEW p, NEW r,
           StoreOK(vs, d, n), ImpOK(vs, d, p),
           HeldBy(vs[Len(vs)]) \subseteq HeldBy(r),
           \A x \in Ids(r.events) : x > MaxAppends => x \in Ids(vs[Len(vs)].events)
    PROVE  ImpOK(Append(vs, r), d, p)
  <1> DEFINE ws == Append(vs, r)
  <1>1. ws[Len(ws)] = r
    BY AppendedLog DEF StoreOK
  <1>2. p.at = "await" => Noted(ws, d, p.no, p.known)
    BY NotedWrite DEF ImpOK
  <1> HIDE DEF ws
  <1>3. ASSUME p.at \in {"chunk", "await"}
        PROVE  /\ p.known \subseteq HeldBy(r)
               /\ \A j \in 1 .. p.next : p.archive[j].id \in p.known
               /\ \A x \in Ids(r.events) : x > MaxAppends => x \in p.known
    BY <1>3 DEF ImpOK
  <1>4. ImpOK(ws, d, p)
    BY <1>1, <1>2, <1>3 DEF ImpOK
  <1> QED
    BY <1>4 DEF ws

LEMMA ImpCommit ==
    ASSUME NEW vs, NEW d, NEW n, NEW p,
           StoreOK(vs, d, n), ImpOK(vs, d, p), Len(vs) > 1
    PROVE  ImpOK(Tail(vs), d + 1, p)
  <1> DEFINE ws == Tail(vs)
  <1>1. ws[Len(ws)] = vs[Len(vs)]
    BY StoreCommit
  <1>2. p.at = "await" => Noted(ws, d + 1, p.no, p.known)
    BY NotedCommit DEF ImpOK
  <1> HIDE DEF ws
  <1>4. ImpOK(ws, d + 1, p)
    BY <1>1, <1>2 DEF ImpOK
  <1> QED
    BY <1>4 DEF ws

LEMMA ImpIdle ==
    ASSUME NEW vs, NEW d
    PROVE  ImpOK(vs, d, IdleImport) /\ IdleImport.at = "idle"
  BY DEF ImpOK, IdleImport

-----------------------------------------------------------------------------
(* Heads and rows.                                                         *)

LEMMA KeyOrderLog ==
    ASSUME NEW E, IsFiniteSet(E)
    PROVE  /\ IsSequence(InKeyOrder(E)) /\ Len(InKeyOrder(E)) = Cardinality(E)
           /\ Cardinality(E) \in Nat
  <1>1. Cardinality(E) \in Nat
    BY FS_CardinalityType
  <1> DEFINE s == InKeyOrder(E)
  <1> DEFINE at(i) == CHOOSE e \in E : Cardinality({d \in E : Before(d, e)}) = i - 1
  <1>4. s = [i \in 1 .. Cardinality(E) |-> at(i)]
    BY DEF InKeyOrder
  <1> HIDE DEF s, at
  <1>2. s = [i \in 1 .. Cardinality(E) |-> s[i]]
    BY <1>4
  <1>3. s \in Seq({s[i] : i \in 1 .. Cardinality(E)})
        /\ Len(s) = Cardinality(E)
    BY <1>1, <1>2
  <1> QED
    BY <1>1, <1>3 DEF IsSequence, s

LEMMA HeadIsReal ==
    ASSUME StoreInv, CacheInv, NEW k
    PROVE  RealHead(HeadFor(k))
  <1>1. RealHead(Refused)
    BY DEF Refused, RealHead, Genesis
  <1>2. IsRow(Rows, appends)
    BY DEF StoreInv, StoreOK, Rows
  <1>3. RealHead(LoadOrInit(k))
    <2>1. CASE Rows.head # NoHead
      BY <1>1, <1>2, <2>1 DEF LoadOrInit, IsRow, AnyHead
    <2>2. CASE Rows.head = NoHead
      <3> DEFINE s == InKeyOrder(Rows.events)
      <3> DEFINE last == IF s = <<>> THEN Genesis ELSE Last(s).hash
      <3>1. Len(s) \in Nat
        BY <1>2, KeyOrderLog DEF IsRow
      <3>2. LoadOrInit(k) = [Refused EXCEPT !.last_hash = last, !.seq = Len(s),
                                            !.count = Len(s), !.key = k]
        BY <2>2 DEF LoadOrInit
      <3> HIDE DEF s, last
      <3>3. LoadOrInit(k) = [anchor |-> Genesis, last_hash |-> last,
                             seq |-> Len(s), count |-> Len(s), key |-> k]
        BY <3>2 DEF Refused
      <3> QED
        BY <3>1, <3>3 DEF RealHead
    <2> QED
      BY <2>1, <2>2
  <1> QED
    BY <1>3 DEF HeadFor, CacheInv, AnyHead

LEMMA ChainedHead ==
    ASSUME NEW h, NEW k, NEW id, NEW ts, RealHead(h)
    PROVE  /\ RealHead(Chained(h, k, id, ts).head)
           /\ Chained(h, k, id, ts).event.id = id
  <1> DEFINE hash == HashOf(k, h.last_hash, id, ts)
  <1> DEFINE g == [h EXCEPT !.last_hash = hash, !.seq = @ + 1,
                            !.count = @ + 1, !.key = k]
  <1>1. /\ Chained(h, k, id, ts).head = g
        /\ Chained(h, k, id, ts).event.id = id
    BY DEF Chained
  <1> HIDE DEF hash
  <1>5. PICK seq, count : seq = h.seq + 1 /\ count = h.count + 1
    OBVIOUS
  <1>6. g = [h EXCEPT !.last_hash = hash, !.seq = seq, !.count = count, !.key = k]
    BY <1>5
  <1> HIDE DEF g
  <1>2. g = [anchor |-> h.anchor, last_hash |-> hash, seq |-> seq,
             count |-> count, key |-> k]
    BY <1>6 DEF RealHead
  <1>3. seq \in Nat /\ count \in Nat /\ count <= seq
    BY <1>5 DEF RealHead
  <1>4. RealHead(g)
    BY <1>2, <1>3 DEF RealHead
  <1> QED
    BY <1>1, <1>4

LEMMA ReanchoredHead ==
    ASSUME NEW h, NEW k, NEW gone, RealHead(h), Len(gone) \in Nat
    PROVE  RealHead([Reanchored(h, gone) EXCEPT !.key = k])
  <1> DEFINE anchor == Last(gone).hash
  <1> DEFINE count == IF h.count < Len(gone) THEN 0 ELSE h.count - Len(gone)
  <1> DEFINE last == IF count = 0 THEN anchor ELSE h.last_hash
  <1> DEFINE g == [Reanchored(h, gone) EXCEPT !.key = k]
  <1>1. g = [[h EXCEPT !.anchor = anchor, !.count = count, !.last_hash = last]
               EXCEPT !.key = k]
    BY DEF Reanchored
  <1>2. count \in Nat /\ count <= h.seq /\ h.seq \in Nat
    BY DEF RealHead
  <1> HIDE DEF anchor, count, last, g
  <1>3. g = [anchor |-> anchor, last_hash |-> last, seq |-> h.seq,
             count |-> count, key |-> k]
    BY <1>1 DEF RealHead
  <1>4. RealHead(g)
    BY <1>2, <1>3 DEF RealHead
  <1> QED
    BY <1>4 DEF g

\* The minted key and the anchor record change neither head nor events.
LEMMA MarkedRow ==
    ASSUME NEW v, NEW n, NEW m, NEW r, IsRow(v, n),
           r = [v EXCEPT !.key = m] \/ r = [v EXCEPT !.anchored = m]
    PROVE  /\ IsRow(r, n) /\ r.head = v.head /\ r.events = v.events
           /\ r.pruned = v.pruned
  <1>1. /\ r = [key |-> r.key, head |-> v.head, events |-> v.events,
                anchored |-> r.anchored, pruned |-> v.pruned]
    BY DEF IsRow
  <1> QED
    BY <1>1 DEF IsRow

\* Events are added behind a new head.
Grows(v, new, h, r) ==
    r = [v EXCEPT !.events = @ \union new, !.head = h]

LEMMA GrownRow ==
    ASSUME NEW v, NEW n \in Nat, NEW new, NEW h, IsRow(v, n), RealHead(h),
           IsFiniteSet(new), Distinct(new),
           \A e \in new : e.id \in Nat /\ (e.id <= n \/ e.id > MaxAppends),
           Ids(new) \cap Ids(v.events) = {},
           NEW r, Grows(v, new, h, r)
    PROVE  /\ IsRow(r, n) /\ r.head = h /\ r.events = v.events \union new
           /\ r.pruned = v.pruned
           /\ HeldBy(r) = HeldBy(v) \union Ids(new)
  <1>1. r = [key |-> v.key, head |-> h, events |-> v.events \union new,
             anchored |-> v.anchored, pruned |-> v.pruned]
    BY DEF IsRow, Grows
  <1>2. IsFiniteSet(v.events \union new)
    BY FS_Union DEF IsRow
  <1>3. Distinct(v.events \union new)
    BY DEF IsRow, Distinct, Ids
  <1>4. \A e \in v.events \union new :
            e.id \in Nat /\ (e.id <= n \/ e.id > MaxAppends)
    BY DEF IsRow
  <1>5. IsRow(r, n)
    BY <1>1, <1>2, <1>3, <1>4 DEF IsRow, AnyHead
  <1> QED
    BY <1>1, <1>5 DEF HeldBy, Ids

LEMMA RowFields ==
    ASSUME NEW k, NEW h, NEW events, NEW anchored, NEW pruned, NEW r,
           r = [key |-> k, head |-> h, events |-> events,
                anchored |-> anchored, pruned |-> pruned]
    PROVE  /\ r.head = h /\ r.events = events /\ r.pruned = pruned
           /\ r = [key |-> r.key, head |-> r.head, events |-> r.events,
                   anchored |-> r.anchored, pruned |-> r.pruned]
  OBVIOUS

\* Events are deleted and the head is re-anchored.
Prunes(v, ids, h, r) ==
    r = [v EXCEPT !.events = {e \in @ : e.id \notin ids},
                  !.pruned = @ \union ids, !.head = h]

LEMMA PrunedRow ==
    ASSUME NEW v, NEW n, NEW ids, NEW h, IsRow(v, n), RealHead(h),
           NEW r, Prunes(v, ids, h, r)
    PROVE  /\ IsRow(r, n) /\ r.head = h /\ Ids(r.events) \subseteq Ids(v.events)
           /\ HeldBy(v) \subseteq HeldBy(r)
  <1> DEFINE left == {e \in v.events : e.id \notin ids}
  <1>1. r = [key |-> v.key, head |-> h, events |-> left,
             anchored |-> v.anchored, pruned |-> v.pruned \union ids]
    BY DEF IsRow, Prunes
  <1>2. IsFiniteSet(left)
    BY FS_Subset DEF IsRow
  <1>3. Distinct(left)
    BY DEF IsRow, Distinct
  <1>4. \A e \in left : e.id \in Nat /\ (e.id <= n \/ e.id > MaxAppends)
    BY DEF IsRow
  <1>6. Ids(left) \subseteq Ids(v.events)
    BY DEF Ids
  <1>7. HeldBy(v) \subseteq Ids(left) \union (v.pruned \union ids)
    BY DEF HeldBy, Ids
  <1> HIDE DEF left
  <1>8. /\ r.head = h /\ r.events = left /\ r.pruned = v.pruned \union ids
        /\ r = [key |-> r.key, head |-> r.head, events |-> r.events,
                anchored |-> r.anchored, pruned |-> r.pruned]
    BY ONLY <1>1, RowFields
  <1>5. IsRow(r, n)
    BY <1>8, <1>2, <1>3, <1>4 DEF IsRow, AnyHead
  <1> QED
    BY <1>5, <1>6, <1>7, <1>8 DEF HeldBy

-----------------------------------------------------------------------------
(* The chunk of an import.  acc is what it has after the archive's i-th    *)
(* event: it knows that one and all before it, and what it chained is new. *)

IsAcc(acc) ==
    acc = [known |-> acc.known, head |-> acc.head, events |-> acc.events,
           restamp |-> acc.restamp, stamp |-> acc.stamp]

AccOK(acc, i) ==
    /\ IsAcc(acc)
    /\ RealHead(acc.head) /\ IsFiniteSet(acc.events) /\ Distinct(acc.events)
    /\ imp.known \subseteq acc.known
    /\ \A j \in imp.next + 1 .. i : imp.archive[j].id \in acc.known
    /\ acc.known = imp.known \union Ids(acc.events)
    /\ Ids(acc.events) \cap imp.known = {}
    /\ \A e \in acc.events : \E j \in 1 .. Len(imp.archive) : e.id = imp.archive[j].id

LEMMA ChunkBegins ==
    ASSUME StoreInv, CacheInv, imp.next \in Nat
    PROVE  AccOK(ChunkStart, imp.next)
  <1>1. PICK k, h, rs, st :
          /\ ChunkStart = [known |-> k, head |-> h, events |-> {},
                           restamp |-> rs, stamp |-> st]
          /\ k = imp.known /\ h = HeadFor(imp.key)
    BY DEF ChunkStart
  <1>2. /\ IsAcc(ChunkStart) /\ ChunkStart.known = k /\ ChunkStart.head = h
        /\ ChunkStart.events = {}
    BY ONLY <1>1 DEF IsAcc
  <1>3. RealHead(ChunkStart.head) /\ IsFiniteSet({})
    BY <1>1, <1>2, HeadIsReal, FS_EmptySet
  <1>4. imp.next + 1 .. imp.next = {}
    OBVIOUS
  <1> QED
    BY <1>1, <1>2, <1>3, <1>4 DEF AccOK, Distinct, Ids

LEMMA ChunkSteps ==
    ASSUME imp.next \in Nat, NEW i \in Nat, i > imp.next, i <= Len(imp.archive),
           NEW acc, AccOK(acc, i - 1)
    PROVE  AccOK(ImportOne(acc, imp.archive[i]), i)
  <1>1. PICK s, x : s = imp.archive[i] /\ x = s.id
    OBVIOUS
  <1>2. CASE x \in acc.known
    <2>1. ImportOne(acc, s) = acc
      BY <1>1, <1>2 DEF ImportOne
    <2>2. ASSUME NEW j \in imp.next + 1 .. i PROVE imp.archive[j].id \in acc.known
      <3>1. CASE j = i
        BY <1>1, <1>2, <3>1
      <3>2. CASE j # i
        <4>1. j \in imp.next + 1 .. i - 1
          BY <3>2
        <4> QED
          BY <4>1 DEF AccOK
      <3> QED
        BY <3>1, <3>2
    <2> QED
      BY <1>1, <2>1, <2>2 DEF AccOK
  <1>3. CASE x \notin acc.known
    <2>1. PICK ts, c : /\ c = Chained(acc.head, imp.key, x, ts)
                       /\ ImportOne(acc, s) = [acc EXCEPT !.known = @ \union {x},
                              !.head = c.head, !.events = @ \union {c.event}]
      BY <1>1, <1>3 DEF ImportOne
    <2>2. PICK h, e, known, events, r :
              /\ h = c.head /\ e = c.event /\ known = acc.known \union {x}
              /\ events = acc.events \union {e} /\ r = ImportOne(acc, s)
      OBVIOUS
    <2>3. r = [acc EXCEPT !.known = known, !.head = h, !.events = events]
      BY <2>1, <2>2
    <2>4. r = [known |-> known, head |-> h, events |-> events,
               restamp |-> acc.restamp, stamp |-> acc.stamp]
      BY <2>3 DEF AccOK, IsAcc
    <2>5. IsAcc(r) /\ r.known = known /\ r.head = h /\ r.events = events
      BY ONLY <2>4 DEF IsAcc
    <2>6. RealHead(h) /\ e.id = x
      BY <2>1, <2>2, ChainedHead DEF AccOK
    <2>7. IsFiniteSet(events)
      BY <2>2, FS_AddElement DEF AccOK
    <2>8. Ids(events) = Ids(acc.events) \union {x}
      BY <2>2, <2>6 DEF Ids
    <2>9. Distinct(events)
      <3>1. x \notin Ids(acc.events)
        BY <1>3 DEF AccOK
      <3> QED
        BY <2>2, <2>6, <3>1 DEF AccOK, Distinct, Ids
    <2>10. /\ imp.known \subseteq known
           /\ known = imp.known \union Ids(events)
           /\ Ids(events) \cap imp.known = {}
      BY <1>3, <2>2, <2>8 DEF AccOK
    <2>11. ASSUME NEW j \in imp.next + 1 .. i PROVE imp.archive[j].id \in known
      <3>1. CASE j = i
        BY <1>1, <2>2, <3>1
      <3>2. CASE j # i
        <4>1. j \in imp.next + 1 .. i - 1
          BY <3>2
        <4> QED
          BY <2>2, <4>1 DEF AccOK
      <3> QED
        BY <3>1, <3>2
    <2>12. ASSUME NEW f \in events
           PROVE  \E j \in 1 .. Len(imp.archive) : f.id = imp.archive[j].id
      <3>1. CASE f \in acc.events
        BY <3>1 DEF AccOK
      <3>2. CASE f = e
        <4>1. i \in 1 .. Len(imp.archive)
          OBVIOUS
        <4> QED
          BY <1>1, <2>6, <3>2, <4>1
      <3> QED
        BY <2>2, <3>1, <3>2
    <2>13. AccOK(r, i)
      BY <2>5, <2>6, <2>7, <2>9, <2>10, <2>11, <2>12 DEF AccOK
    <2> QED
      BY <1>1, <2>2, <2>13
  <1> QED
    BY <1>2, <1>3

\* The loop over the chunk is defined: by the shortest run that were not.
ChunkRun(f, n) ==
    f = [i \in imp.next .. n |->
            IF i = imp.next THEN ChunkStart
            ELSE ImportOne(f[i - 1], imp.archive[i])]

LEMMA ChunkRuns ==
    ASSUME imp.next \in Nat, NEW end \in Nat, imp.next <= end
    PROVE  \E f : ChunkRun(f, end)
  <1> DEFINE bad == {n \in imp.next .. end : ~ \E f : ChunkRun(f, n)}
  <1>1. SUFFICES ASSUME bad # {} PROVE FALSE
    OBVIOUS
  <1>2. PICK m : m = Min(bad)
    OBVIOUS
  <1>3. m \in bad /\ \A y \in bad : m <= y
    BY <1>1, <1>2, SmallestOf
  <1>4. CASE m = imp.next
    <2>1. PICK f : f = [i \in imp.next .. m |-> ChunkStart]
      OBVIOUS
    <2>2. ASSUME NEW i \in imp.next .. m PROVE i = imp.next
      BY <1>4
    <2>3. ChunkRun(f, m)
      BY <2>1, <2>2 DEF ChunkRun
    <2> QED
      BY <1>3, <2>3
  <1>5. CASE m # imp.next
    <2>1. m \in Nat /\ m - 1 \in imp.next .. end /\ m > imp.next
      BY <1>3, <1>5
    <2>2. m - 1 \notin bad
      BY <1>3, <2>1
    <2>3. PICK f : ChunkRun(f, m - 1)
      BY <2>1, <2>2
    <2>4. PICK x : x = ImportOne(f[m - 1], imp.archive[m])
      OBVIOUS
    <2>5. PICK g : g = [i \in imp.next .. m |-> IF i = m THEN x ELSE f[i]]
      OBVIOUS
    <2>6. ASSUME NEW i \in imp.next .. m
          PROVE  g[i] = IF i = imp.next THEN ChunkStart
                        ELSE ImportOne(g[i - 1], imp.archive[i])
      <3>1. CASE i = m
        <4>1. m - 1 \in imp.next .. m /\ m - 1 # m
          BY <2>1
        <4>2. g[m - 1] = f[m - 1] /\ g[m] = x
          BY <2>1, <2>5, <4>1
        <4> QED
          BY <1>5, <2>4, <3>1, <4>2
      <3>2. CASE i # m
        <4>1. i \in imp.next .. m - 1 /\ g[i] = f[i]
          BY <2>1, <2>5, <3>2
        <4>2. CASE i = imp.next
          BY <2>3, <4>1, <4>2 DEF ChunkRun
        <4>3. CASE i # imp.next
          <5>1. i - 1 \in imp.next .. m /\ i - 1 # m
            BY <2>1, <4>1, <4>3
          <5>2. g[i - 1] = f[i - 1]
            BY <2>5, <5>1
          <5>3. f[i] = ImportOne(f[i - 1], imp.archive[i])
            BY <2>3, <4>1, <4>3 DEF ChunkRun
          <5> QED
            BY <4>1, <4>3, <5>2, <5>3
        <4> QED
          BY <4>2, <4>3
      <3> QED
        BY <3>1, <3>2
    <2>7. ChunkRun(g, m)
      <3>1. g = [i \in imp.next .. m |-> g[i]]
        BY <2>5
      <3> QED
        BY <2>6, <3>1 DEF ChunkRun
    <2> QED
      BY <1>3, <2>7
  <1> QED
    BY <1>4, <1>5

\* What the chunk yields: every archived event up to its end is known, and the
\* ones it chained are those not known before.
LEMMA ChunkYields ==
    ASSUME StoreInv, CacheInv, ImpInv, imp.at = "chunk"
    PROVE  /\ ChunkEnd \in Nat /\ imp.next <= ChunkEnd
           /\ ChunkEnd <= Len(imp.archive)
           /\ AccOK(Chunk, ChunkEnd)
  <1>1. /\ imp.next \in Nat /\ Len(imp.archive) \in Nat
        /\ imp.next <= Len(imp.archive) /\ ImportChunk \in Nat
    BY AuditAssumption DEF ImpInv, ImpOK
  <1>2. PICK end : end = ChunkEnd
    OBVIOUS
  <1>3. end \in Nat /\ imp.next <= end /\ end <= Len(imp.archive)
    <2>1. PICK T : T = {imp.next + ImportChunk, Len(imp.archive)}
      OBVIOUS
    <2>2. T \in SUBSET Nat /\ T # {}
      BY <1>1, <2>1
    <2>3. end \in T /\ \A y \in T : end <= y
      BY <1>2, <2>1, <2>2, SmallestOf DEF ChunkEnd
    <2> QED
      BY <1>1, <2>1, <2>3
  <1>4. PICK run : run = CHOOSE f : ChunkRun(f, end)
    OBVIOUS
  <1>5. ChunkRun(run, end)
    BY <1>1, <1>3, <1>4, ChunkRuns
  <1>6. Chunk = run[end]
    BY <1>2, <1>4 DEF Chunk, ChunkRun
  <1> DEFINE bad == {n \in imp.next .. end : ~ AccOK(run[n], n)}
  <1>7. ASSUME bad # {} PROVE FALSE
    <2>1. PICK m : m = Min(bad)
      OBVIOUS
    <2>5. bad \in SUBSET Nat
      BY <1>1, <1>3
    <2>2. m \in bad /\ \A y \in bad : m <= y
      <3> HIDE DEF bad
      <3> QED
        BY <1>7, <2>1, <2>5, SmallestOf
    <2>3. CASE m = imp.next
      BY <1>1, <1>5, <2>2, <2>3, ChunkBegins DEF ChunkRun
    <2>4. CASE m # imp.next
      <3>1. /\ m \in Nat /\ m > imp.next /\ m <= Len(imp.archive)
            /\ m - 1 \in imp.next .. end
        BY <1>1, <1>3, <2>2, <2>4
      <3>2. AccOK(run[m - 1], m - 1)
        <4>1. m - 1 \notin bad
          BY <2>2, <3>1
        <4> QED
          BY <3>1, <4>1
      <3>3. run[m] = ImportOne(run[m - 1], imp.archive[m])
        BY <1>5, <2>2, <2>4 DEF ChunkRun
      <3>4. AccOK(run[m], m)
        BY <1>1, <3>1, <3>2, <3>3, ChunkSteps
      <3> QED
        BY <2>2, <3>4
    <2> QED
      BY <2>3, <2>4
  <1>8. AccOK(run[end], end)
    BY <1>3, <1>1, <1>7
  <1> QED
    BY <1>2, <1>3, <1>6, <1>8

-----------------------------------------------------------------------------
(* Most steps leave the log alone or rewrite rows that carry no event: the *)
(* chain key and the anchor record.                                        *)

Marks ==
    \/ versions' = versions
    \/ \E r : /\ versions' = Append(versions, r) /\ IsRow(r, appends)
              /\ r.head = Rows.head /\ r.events = Rows.events
              /\ r.pruned = Rows.pruned

LEMMA MarksKeep ==
    ASSUME IInv, Marks, UNCHANGED <<durableNo, appends>>
    PROVE  /\ StoreOK(versions', durableNo', appends')
           /\ Rows'.head = Rows.head /\ Rows'.events = Rows.events
           /\ \A p : AppOK(versions, durableNo, appends, p)
                        => AppOK(versions', durableNo', appends', p)
           /\ \A p : ImpOK(versions, durableNo, p) => ImpOK(versions', durableNo', p)
           /\ \A no, ids : Noted(versions, durableNo, no, ids)
                        => Noted(versions', durableNo', no, ids)
  <1> USE DEF IInv, StoreInv
  <1>1. CASE versions' = versions
    BY <1>1 DEF Rows
  <1>2. ASSUME NEW r, versions' = Append(versions, r), IsRow(r, appends),
               r.head = Rows.head, r.events = Rows.events,
               r.pruned = Rows.pruned
        PROVE  /\ StoreOK(versions', durableNo', appends')
               /\ Rows'.head = Rows.head /\ Rows'.events = Rows.events
               /\ \A p : AppOK(versions, durableNo, appends, p)
                            => AppOK(versions', durableNo', appends', p)
               /\ \A p : ImpOK(versions, durableNo, p)
                            => ImpOK(versions', durableNo', p)
               /\ \A no, ids : Noted(versions, durableNo, no, ids)
                            => Noted(versions', durableNo', no, ids)
    <2>1. HeldBy(versions[Len(versions)]) \subseteq HeldBy(r)
      BY <1>2 DEF HeldBy, Rows
    <2>2. Rows' = r
      BY <1>2, AppendedLog DEF Rows, StoreOK
    <2>3. StoreOK(versions', durableNo', appends')
      BY <1>2, StoreWrite
    <2>4. ASSUME NEW p, AppOK(versions, durableNo, appends, p)
          PROVE  AppOK(versions', durableNo', appends', p)
      <3>1. p.at \in Holding => p.id \notin Ids(r.events)
        BY <1>2, <2>4 DEF AppOK, Rows, StoreOK
      <3> QED
        BY <1>2, <2>1, <2>4, <3>1, AppWrite
    <2>5. ASSUME NEW p, ImpOK(versions, durableNo, p)
          PROVE  ImpOK(versions', durableNo', p)
      <3>1. \A x \in Ids(r.events) :
                x > MaxAppends => x \in Ids(versions[Len(versions)].events)
        BY <1>2 DEF Rows
      <3> QED
        BY <1>2, <2>1, <2>5, <3>1, ImpWrite
    <2>6. ASSUME NEW no, NEW ids, Noted(versions, durableNo, no, ids)
          PROVE  Noted(versions', durableNo', no, ids)
      BY <1>2, <2>1, <2>6, NotedWrite
    <2> QED
      BY <1>2, <2>2, <2>3, <2>4, <2>5, <2>6
  <1> QED
    BY <1>1, <1>2 DEF Marks

LEMMA NewestRow ==
    ASSUME IInv
    PROVE  /\ IsRow(Rows, appends) /\ Len(versions) \in Nat \ {0}
           /\ durableNo \in Nat /\ appends \in Nat /\ appends <= MaxAppends
           /\ IsSequence(versions)
  BY DEF IInv, StoreInv, StoreOK, Rows

LEMMA MintMarks ==
    ASSUME IInv, Mint
    PROVE  Marks
  <1>1. PICK v, m, r : v = Rows /\ m = minted' /\ r = [v EXCEPT !.key = m]
    OBVIOUS
  <1>2. versions' = Append(versions, r)
    BY <1>1 DEF Mint, Write
  <1>3. /\ IsRow(r, appends) /\ r.head = Rows.head /\ r.events = Rows.events
        /\ r.pruned = Rows.pruned
    <2>1. IsRow(v, appends)
      BY <1>1, NewestRow
    <2> QED
      BY <1>1, <2>1, MarkedRow
  <1> QED
    BY <1>2, <1>3 DEF Marks

LEMMA AnchorMarks ==
    ASSUME IInv, RecordAnchor
    PROVE  Marks
  <1>1. CASE versions' = versions
    BY <1>1 DEF Marks
  <1>2. CASE versions' # versions
    <2>1. PICK v, m, r : v = Rows /\ m = TRUE /\ r = [v EXCEPT !.anchored = m]
      OBVIOUS
    <2>2. versions' = Append(versions, r)
      BY <1>2, <2>1 DEF RecordAnchor, Write
    <2>3. /\ IsRow(r, appends) /\ r.head = Rows.head /\ r.events = Rows.events
          /\ r.pruned = Rows.pruned
      <3>1. IsRow(v, appends)
        BY <2>1, NewestRow
      <3> QED
        BY <2>1, <3>1, MarkedRow
    <2> QED
      BY <2>2, <2>3 DEF Marks
  <1> QED
    BY <1>1, <1>2

\* One appender moves to q; the others keep their places.
LEMMA AppMoves ==
    ASSUME IInv, NEW a \in Appenders, NEW q, app' = [app EXCEPT ![a] = q],
           AppOK(versions', durableNo', appends', q),
           \A b \in Appenders \ {a} :
               AppOK(versions', durableNo', appends', app[b])
    PROVE  /\ AppInv' /\ app'[a] = q
           /\ \A b \in Appenders \ {a} : app'[b] = app[b]
  <1>1. app = [b \in Appenders |-> app[b]]
    BY DEF IInv, AppInv
  <1>2. /\ app'[a] = q /\ \A b \in Appenders \ {a} : app'[b] = app[b]
        /\ app' = [b \in Appenders |-> app'[b]]
    BY <1>1
  <1>3. ASSUME NEW b \in Appenders
        PROVE  AppOK(versions', durableNo', appends', app'[b])
    BY <1>2
  <1> QED
    BY <1>2, <1>3 DEF AppInv

\* Once version no is durable every version holds ids.
LEMMA DurableNoted ==
    ASSUME IInv, NEW no, NEW ids, Noted(versions, durableNo, no, ids), Durable(no)
    PROVE  Noted(versions, durableNo, 0, acked \union ids)
  <1>1. ASSUME NEW i \in 1 .. Len(versions)
        PROVE  acked \union ids \subseteq HeldBy(versions[i])
    <2>1. durableNo + i - 1 >= no /\ durableNo + i - 1 >= 0
      BY NewestRow DEF Durable, Noted
    <2> QED
      BY <2>1 DEF IInv, AckInv, Noted
  <1> QED
    BY <1>1, NewestRow DEF Noted

-----------------------------------------------------------------------------
(* One lemma per action.                                                   *)

\* The parts of the invariant that a marking step with the same cache, lock,
\* import and acknowledgements keeps.
LEMMA QuietStep ==
    ASSUME IInv, Marks, UNCHANGED <<durableNo, appends, now>>,
           fenced' \in BOOLEAN, fenced => fenced'
    PROVE  /\ StoreInv'
           /\ cached' \in {cached, NoHead} /\ prune' = prune
              /\ (lock = "prune" <=> lock' = "prune") => CacheInv'
           /\ imp' = imp => ImpInv'
           /\ acked' = acked => AckInv'
  <1>1. /\ StoreOK(versions', durableNo', appends')
        /\ Rows'.head = Rows.head
        /\ ImpOK(versions', durableNo', imp)
        /\ Noted(versions', durableNo', 0, acked)
    BY MarksKeep DEF IInv, ImpInv, AckInv
  <1>2. StoreInv'
    BY <1>1 DEF IInv, StoreInv
  <1>3. ASSUME cached' \in {cached, NoHead}, prune' = prune,
               lock = "prune" <=> lock' = "prune"
        PROVE  CacheInv'
    <2>1. CASE cached' = cached
      BY <1>1, <1>3, <2>1 DEF IInv, CacheInv, AnyHead
    <2>2. CASE cached' = NoHead
      BY <1>1, <1>3, <2>2 DEF IInv, CacheInv, AnyHead
    <2> QED
      BY <1>3, <2>1, <2>2
  <1>4. imp' = imp => ImpInv'
    BY <1>1 DEF ImpInv
  <1>5. acked' = acked => AckInv'
    BY <1>1 DEF AckInv
  <1> QED
    BY <1>2, <1>3, <1>4, <1>5

\* A marking step of an appender that keeps, or gives up, the chain lock.
LEMMA AppenderStep ==
    ASSUME IInv, Marks, UNCHANGED <<durableNo, appends, now, fenced, imp, prune>>,
           NEW a \in Appenders, NEW q, app' = [app EXCEPT ![a] = q],
           AppOK(versions', durableNo', appends', q),
           \/ lock' = lock /\ (app[a].at \in Holding <=> q.at \in Holding)
           \/ lock = a /\ lock' = "free" /\ q.at \notin Holding,
           cached' \in {cached, NoHead}, AckInv'
    PROVE  IInv'
  <1>1. \A b \in Appenders \ {a} : AppOK(versions', durableNo', appends', app[b])
    BY MarksKeep DEF IInv, AppInv
  <1>2. /\ AppInv' /\ app'[a] = q
        /\ \A b \in Appenders \ {a} : app'[b] = app[b]
    BY <1>1, AppMoves
  <1>3. a # "free" /\ a # "prune" /\ \A b \in Appenders : b # "free"
    BY AuditAssumption
  <1>4. LockInv'
    <2>1. CASE lock' = lock /\ (app[a].at \in Holding <=> q.at \in Holding)
      BY <1>2, <2>1 DEF IInv, LockInv
    <2>2. CASE lock = a /\ lock' = "free" /\ q.at \notin Holding
      BY <1>2, <1>3, <2>2 DEF IInv, LockInv
    <2> QED
      BY <2>1, <2>2
  <1>5. lock = "prune" <=> lock' = "prune"
    BY <1>3
  <1>6. StoreInv' /\ CacheInv' /\ ImpInv'
    <2>1. fenced' \in BOOLEAN
      BY DEF IInv, StoreInv
    <2> QED
      BY <1>5, <2>1, QuietStep
  <1> QED
    BY <1>2, <1>4, <1>6 DEF IInv

LEMMA AppendLockKeeps ==
    ASSUME IInv, NEW a \in Appenders, AppendLock(a)
    PROVE  IInv'
  <1>1. /\ UNCHANGED <<versions, durableNo, fenced, now, cached, imp, prune, acked>>
        /\ app[a].at = "idle" /\ lock = "free" /\ appends < MaxAppends
        /\ appends' = appends + 1 /\ lock' = a
    BY DEF AppendLock, storeVars, histVars
  <1>2. PICK q : q = [at |-> KeyStep("chain"), key |-> KnownKey,
                      id |-> appends + 1, no |-> 0]
    OBVIOUS
  <1>3. app' = [app EXCEPT ![a] = q]
    BY <1>2 DEF AppendLock
  <1>4. /\ q = [at |-> q.at, key |-> q.key, id |-> q.id, no |-> q.no]
        /\ q.at \in Holding /\ q.id = appends + 1
        /\ q.at # "await"
    BY <1>2 DEF KeyStep, Holding
  <1>5. StoreOK(versions', durableNo', appends')
    BY <1>1, StoreMore DEF IInv, StoreInv
  <1>6. AppOK(versions', durableNo', appends', q)
    <2>1. ASSUME NEW i \in 1 .. Len(versions)
          PROVE  q.id \notin Ids(versions[i].events)
      <3>1. IsRow(versions[i], appends)
        BY DEF IInv, StoreInv, StoreOK
      <3>2. ASSUME NEW e \in versions[i].events PROVE e.id # appends + 1
        <4>1. e.id \in Nat /\ (e.id <= appends \/ e.id > MaxAppends)
          BY <3>1 DEF IsRow
        <4> QED
          BY <1>1, <4>1, NewestRow, AuditAssumption
      <3> QED
        BY <1>4, <3>2 DEF Ids
    <2>2. q.id \in 1 .. appends'
      BY <1>1, <1>4, NewestRow
    <2> QED
      BY <1>1, <1>4, <2>1, <2>2 DEF AppOK
  <1>7. \A b \in Appenders \ {a} : AppOK(versions', durableNo', appends', app[b])
    BY <1>1, NewestRow, AppMore DEF IInv, AppInv
  <1>8. /\ AppInv' /\ app'[a] = q
        /\ \A b \in Appenders \ {a} : app'[b] = app[b]
    BY <1>3, <1>6, <1>7, AppMoves
  <1>9. a # "free" /\ a # "prune" /\ \A b \in Appenders : b # "free"
    BY AuditAssumption
  <1>10. LockInv'
    BY <1>1, <1>4, <1>8, <1>9 DEF IInv, LockInv
  <1>11. StoreInv' /\ AckInv' /\ ImpInv'
    BY <1>1, <1>5 DEF IInv, StoreInv, AckInv, ImpInv
  <1>12. CacheInv'
    BY <1>1, <1>9 DEF IInv, CacheInv, Rows, LockInv
  <1> QED
    BY <1>8, <1>10, <1>11, <1>12 DEF IInv

\* A holder's record stays one as it goes from mint to chain.
LEMMA HolderMoves ==
    ASSUME NEW vs, NEW d, NEW n, NEW p, AppOK(vs, d, n, p), p.at \in Holding,
           NEW q, NEW at \in Holding, NEW k, NEW no,
           q = [at |-> at, key |-> k, id |-> p.id, no |-> no]
    PROVE  AppOK(vs, d, n, q) /\ q.at = at
  <1>1. /\ q = [at |-> q.at, key |-> q.key, id |-> p.id, no |-> q.no]
        /\ q.at = at /\ q.id = p.id
    OBVIOUS
  <1>2. at # "await" /\ at # "idle" /\ p.at # "idle"
    BY DEF Holding
  <1> QED
    BY <1>1, <1>2 DEF AppOK

LEMMA AppendMintKeeps ==
    ASSUME IInv, NEW a \in Appenders, AppendMint(a)
    PROVE  IInv'
  <1>1. /\ UNCHANGED <<durableNo, appends, now, fenced, imp, prune, lock, cached,
                       acked>>
        /\ app[a].at = "mint" /\ Mint
    BY DEF AppendMint, chainVars, boundVars
  <1>2. Marks
    BY <1>1, MintMarks
  <1>3. PICK p, q, k, no : /\ p = app[a] /\ k = minted' /\ no = RowsNo + 1
             /\ q = [p EXCEPT !.at = "minting", !.key = k, !.no = no]
    OBVIOUS
  <1>4. app' = [app EXCEPT ![a] = q]
    BY <1>3 DEF AppendMint
  <1>5. AppOK(versions', durableNo', appends', p)
    BY <1>1, <1>2, <1>3, MarksKeep DEF IInv, AppInv
  <1>6. p.at \in Holding /\ "minting" \in Holding
    BY <1>1, <1>3 DEF Holding
  <1>9. q = [at |-> "minting", key |-> k, id |-> p.id, no |-> no]
    BY <1>3, <1>5 DEF AppOK
  <1>7. AppOK(versions', durableNo', appends', q) /\ q.at \in Holding
    BY <1>5, <1>6, <1>9, HolderMoves
  <1>8. AckInv'
    BY <1>1, <1>2, MarksKeep DEF IInv, AckInv
  <1> QED
    BY <1>1, <1>2, <1>3, <1>4, <1>6, <1>7, <1>8, AppenderStep

LEMMA AppendMintedKeeps ==
    ASSUME IInv, NEW a \in Appenders, AppendMinted(a)
    PROVE  IInv'
  <1>1. /\ UNCHANGED <<durableNo, appends, now, fenced, imp, prune, lock, cached,
                       acked>>
        /\ app[a].at = "minting" /\ Marks
    BY DEF AppendMinted, boundVars, storeVars, histVars, Marks
  <1>3. PICK p, q : /\ p = app[a] /\ q = [p EXCEPT !.at = "chain"]
    OBVIOUS
  <1>4. app' = [app EXCEPT ![a] = q]
    BY <1>3 DEF AppendMinted
  <1>5. AppOK(versions', durableNo', appends', p)
    BY <1>1, <1>3, MarksKeep DEF IInv, AppInv
  <1>6. p.at \in Holding /\ "chain" \in Holding
    BY <1>1, <1>3 DEF Holding
  <1>9. q = [at |-> "chain", key |-> p.key, id |-> p.id, no |-> p.no]
    BY <1>3, <1>5 DEF AppOK
  <1>7. AppOK(versions', durableNo', appends', q) /\ q.at \in Holding
    BY <1>5, <1>6, <1>9, HolderMoves
  <1>8. AckInv'
    BY <1>1, MarksKeep DEF IInv, AckInv
  <1> QED
    BY <1>1, <1>3, <1>4, <1>6, <1>7, <1>8, AppenderStep

LEMMA AppendRefusedKeeps ==
    ASSUME IInv, NEW a \in Appenders, AppendRefused(a)
    PROVE  IInv'
  <1>1. /\ UNCHANGED <<durableNo, appends, now, fenced, imp, prune, acked>>
        /\ Marks /\ app' = [app EXCEPT ![a] = IdleApp] /\ lock' = "free"
        /\ app[a].at \in Holding /\ cached' \in {cached, NoHead}
    BY DEF AppendRefused, boundVars, storeVars, histVars, Marks, Holding
  <1>2. lock = a
    BY <1>1 DEF IInv, LockInv
  <1>3. AppOK(versions', durableNo', appends', IdleApp) /\ IdleApp.at \notin Holding
    BY AppIdle DEF Holding
  <1>4. AckInv'
    BY <1>1, MarksKeep DEF IInv, AckInv
  <1> QED
    BY <1>1, <1>2, <1>3, <1>4, AppenderStep

LEMMA AppendDurableKeeps ==
    ASSUME IInv, NEW a \in Appenders, AppendDurable(a)
    PROVE  IInv'
  <1>1. /\ UNCHANGED <<durableNo, appends, now, fenced, imp, prune, lock, cached>>
        /\ app' = [app EXCEPT ![a] = IdleApp] /\ RecordAnchor
        /\ app[a].at = "await" /\ Durable(app[a].no)
        /\ acked' = acked \union {app[a].id}
    BY DEF AppendDurable, boundVars, chainVars
  <1>2. Marks
    BY <1>1, AnchorMarks
  <1>3. AppOK(versions', durableNo', appends', IdleApp) /\ IdleApp.at \notin Holding
    BY AppIdle DEF Holding
  <1>4. app[a].at \notin Holding
    BY <1>1 DEF Holding
  <1>5. Noted(versions, durableNo, 0, acked')
    BY <1>1, DurableNoted DEF IInv, AppInv, AppOK
  <1>6. AckInv'
    BY <1>1, <1>2, <1>5, MarksKeep DEF AckInv
  <1> QED
    BY <1>1, <1>2, <1>3, <1>4, <1>6, AppenderStep

LEMMA AppendFailedKeeps ==
    ASSUME IInv, NEW a \in Appenders, AppendFailed(a)
    PROVE  IInv'
  <1>1. /\ UNCHANGED <<durableNo, appends, now, fenced, imp, prune, lock, acked>>
        /\ Marks /\ app' = [app EXCEPT ![a] = IdleApp]
        /\ app[a].at = "await" /\ cached' = NoHead
    BY DEF AppendFailed, boundVars, storeVars, histVars, Marks
  <1>2. AppOK(versions', durableNo', appends', IdleApp) /\ IdleApp.at \notin Holding
    BY AppIdle DEF Holding
  <1>3. app[a].at \notin Holding
    BY <1>1 DEF Holding
  <1>4. AckInv'
    BY <1>1, MarksKeep DEF IInv, AckInv
  <1> QED
    BY <1>1, <1>2, <1>3, <1>4, AppenderStep

LEMMA AppendChainKeeps ==
    ASSUME IInv, NEW a \in Appenders, AppendChain(a)
    PROVE  IInv'
  <1>1. /\ UNCHANGED <<durableNo, appends, now, fenced, imp, prune, acked>>
        /\ app[a].at = "chain" /\ lock' = "free" /\ ~fenced
    BY DEF AppendChain, boundVars, histVars
  <1>2. PICK v, p, h, c, e, g, new, r :
          /\ v = Rows /\ p = app[a] /\ h = HeadFor(p.key)
          /\ c = Chained(h, p.key, p.id, now) /\ e = c.event /\ g = c.head
          /\ new = {e} /\ Grows(v, new, g, r)
    BY DEF Grows
  <1>3. versions' = Append(versions, r) /\ cached' = g
    BY <1>2 DEF AppendChain, Write, Grows
  <1>4. PICK q : q = [p EXCEPT !.at = "await", !.no = RowsNo + 1]
    OBVIOUS
  <1>5. app' = [app EXCEPT ![a] = q]
    BY <1>2, <1>4 DEF AppendChain
  <1>6. RealHead(g) /\ e.id = p.id
    <2>1. RealHead(h)
      BY <1>2, HeadIsReal DEF IInv
    <2> QED
      BY <1>2, <2>1, ChainedHead
  <1>7. /\ AppOK(versions, durableNo, appends, p)
        /\ p.at = "chain" /\ p.at \in Holding
        /\ p.id \in 1 .. appends
        /\ p.id \notin Ids(v.events)
    <2>1. AppOK(versions, durableNo, appends, p)
      BY <1>2 DEF IInv, AppInv
    <2>2. p.at = "chain" /\ p.at \in Holding /\ p.at # "idle"
      BY <1>1, <1>2 DEF Holding
    <2>3. Len(versions) \in 1 .. Len(versions) /\ v = versions[Len(versions)]
      BY <1>2, NewestRow DEF Rows
    <2> QED
      BY ONLY <2>1, <2>2, <2>3 DEF AppOK
  <1>8. /\ IsRow(v, appends) /\ appends \in Nat /\ appends <= MaxAppends
        /\ Len(versions) \in Nat \ {0} /\ durableNo \in Nat /\ MaxAppends \in Nat
    BY <1>2, NewestRow, AuditAssumption
  <1>9. /\ IsFiniteSet(new) /\ Distinct(new) /\ Ids(new) = {p.id}
        /\ \A f \in new : f.id \in Nat /\ (f.id <= appends \/ f.id > MaxAppends)
        /\ Ids(new) \cap Ids(v.events) = {}
    <2>1. IsFiniteSet(new)
      BY <1>2, FS_Singleton
    <2>2. Ids(new) = {p.id} /\ Distinct(new)
      BY <1>2, <1>6 DEF Ids, Distinct
    <2>3. p.id \in Nat /\ p.id <= appends
      BY <1>7, <1>8
    <2> QED
      BY <1>2, <1>6, <1>7, <2>1, <2>2, <2>3
  <1>10. /\ IsRow(r, appends) /\ r.head = g /\ r.events = v.events \union new
         /\ HeldBy(r) = HeldBy(v) \union {p.id}
    <2>1. Grows(v, new, g, r)
      BY <1>2
    <2> QED
      BY ONLY <1>6, <1>8, <1>9, <2>1, GrownRow
  <1>11. Ids(r.events) = Ids(v.events) \union {p.id}
    BY <1>2, <1>6, <1>10 DEF Ids
  <1>12. HeldBy(versions[Len(versions)]) \subseteq HeldBy(r)
    BY <1>2, <1>10 DEF Rows
  <1>13. StoreOK(versions', durableNo', appends')
    BY <1>1, <1>3, <1>10, StoreWrite DEF IInv, StoreInv
  <1>14. Rows' = r
    BY <1>3, NewestRow, AppendedLog DEF Rows
  <1>15. AckInv'
    BY <1>1, <1>3, <1>12, NotedWrite DEF IInv, AckInv, StoreInv
  <1>16. AppOK(versions', durableNo', appends', q) /\ q.at = "await"
    <2>1. q = [at |-> "await", key |-> p.key, id |-> p.id, no |-> RowsNo + 1]
      BY <1>4, <1>7 DEF AppOK
    <2>2. RowsNo + 1 = durableNo + Len(versions)
      BY <1>8 DEF RowsNo
    <2>3. {p.id} \subseteq HeldBy(r)
      BY <1>10
    <2>4. Noted(versions', durableNo', RowsNo + 1, {p.id})
      BY <1>1, <1>3, <2>2, <2>3, NotedNew DEF IInv, StoreInv
    <2> QED
      BY <1>1, <1>7, <2>1, <2>4 DEF AppOK, Holding
  <1>17. \A b \in Appenders \ {a} : b # a /\ app[b].at \notin Holding
    BY <1>1, <1>2, <1>7 DEF IInv, LockInv
  <1>18. \A b \in Appenders \ {a} :
             AppOK(versions', durableNo', appends', app[b])
    BY <1>1, <1>3, <1>12, <1>17, AppWrite DEF IInv, AppInv, StoreInv
  <1>19. /\ AppInv' /\ app'[a] = q
         /\ \A b \in Appenders \ {a} : app'[b] = app[b]
    BY <1>5, <1>16, <1>18, AppMoves
  <1>20. ImpInv'
    <2>1. \A x \in Ids(r.events) :
              x > MaxAppends => x \in Ids(versions[Len(versions)].events)
      BY <1>2, <1>7, <1>8, <1>11 DEF Rows
    <2>2. ImpOK(versions', durableNo', imp)
      BY <1>1, <1>3, <1>12, <2>1, ImpWrite DEF IInv, ImpInv, StoreInv
    <2> QED
      BY <1>1, <2>2 DEF ImpInv
  <1>21. /\ lock = a /\ a # "free" /\ a # "prune"
         /\ \A b \in Appenders : b # "free"
    BY <1>2, <1>7, AuditAssumption DEF IInv, LockInv
  <1>22. LockInv'
    BY <1>1, <1>16, <1>17, <1>19, <1>21 DEF IInv, LockInv, Holding
  <1>23. CacheInv'
    BY <1>1, <1>3, <1>6, <1>10, <1>14, <1>21 DEF IInv, CacheInv, LockInv, AnyHead
  <1>24. StoreInv'
    BY <1>1, <1>13 DEF IInv, StoreInv
  <1> QED
    BY <1>15, <1>19, <1>20, <1>22, <1>23, <1>24 DEF IInv

LEMMA PruneWriteKeeps ==
    ASSUME IInv, NEW cutoff, NEW max \in Nat, PruneWrite(cutoff, max)
    PROVE  IInv'
  <1>1. /\ UNCHANGED <<durableNo, appends, now, fenced, imp, app, acked, cached>>
        /\ lock = "free" /\ lock' = "prune" /\ ~fenced
    BY DEF PruneWrite, histVars
  <1>2. PICK v, old, gone, ids, h, g, r :
          /\ v = Rows
          /\ old = InKeyOrder({e \in v.events : e.ts < cutoff})
          /\ gone = SubSeq(old, 1, Min({Len(old), max}))
          /\ ids = {gone[i].id : i \in DOMAIN gone}
          /\ h = HeadFor(KnownKey)
          /\ g = [Reanchored(h, gone) EXCEPT !.key = KnownKey]
          /\ Prunes(v, ids, g, r)
    BY DEF Prunes
  <1>3. /\ versions' = Append(versions, r)
        /\ prune' = [at |-> "await", head |-> g, no |-> RowsNo + 1]
    BY <1>2 DEF PruneWrite, Write, Prunes
  <1>4. IsRow(v, appends)
    BY <1>2, NewestRow
  <1>5. Len(gone) \in Nat
    <2>1. PICK E : E = {e \in v.events : e.ts < cutoff}
      OBVIOUS
    <2>2. IsFiniteSet(E)
      BY <1>4, <2>1, FS_Subset DEF IsRow
    <2>3. IsSequence(old) /\ Len(old) \in Nat
      BY <1>2, <2>1, <2>2, KeyOrderLog
    <2>4. PICK T : T = {Len(old), max}
      OBVIOUS
    <2>5. T \in SUBSET Nat /\ T # {}
      BY <2>3, <2>4
    <2>6. PICK m : m = Min(T)
      OBVIOUS
    <2>7. m \in Nat /\ m <= Len(old)
      BY <2>3, <2>4, <2>5, <2>6, SmallestOf
    <2>8. gone = SubSeq(old, 1, m)
      BY <1>2, <2>4, <2>6
    <2>9. PICK S : old \in Seq(S)
      BY <2>3 DEF IsSequence
    <2> QED
      BY ONLY <2>7, <2>8, <2>9
  <1>6. RealHead(g)
    <2>1. RealHead(h)
      BY <1>2, HeadIsReal DEF IInv
    <2> QED
      BY <1>2, <1>5, <2>1, ReanchoredHead
  <1>7. /\ IsRow(r, appends) /\ r.head = g /\ Ids(r.events) \subseteq Ids(v.events)
        /\ HeldBy(v) \subseteq HeldBy(r)
    <2>1. Prunes(v, ids, g, r)
      BY <1>2
    <2> QED
      BY ONLY <1>4, <1>6, <2>1, PrunedRow
  <1>8. HeldBy(versions[Len(versions)]) \subseteq HeldBy(r)
    BY <1>2, <1>7 DEF Rows
  <1>9. StoreOK(versions', durableNo', appends')
    BY <1>1, <1>3, <1>7, StoreWrite DEF IInv, StoreInv
  <1>10. Rows' = r
    BY <1>3, NewestRow, AppendedLog DEF Rows
  <1>11. AckInv'
    BY <1>1, <1>3, <1>8, NotedWrite DEF IInv, AckInv, StoreInv
  <1>12. AppInv'
    <2>1. ASSUME NEW b \in Appenders
          PROVE  AppOK(versions', durableNo', appends', app[b])
      <3>1. AppOK(versions, durableNo, appends, app[b])
        BY DEF IInv, AppInv
      <3>2. app[b].at \in Holding => app[b].id \notin Ids(r.events)
        <4>1. Len(versions) \in 1 .. Len(versions) /\ v = versions[Len(versions)]
          BY <1>2, NewestRow DEF Rows
        <4> QED
          BY ONLY <1>7, <3>1, <4>1 DEF AppOK
      <3> QED
        BY <1>1, <1>3, <1>8, <3>1, <3>2, AppWrite DEF IInv, StoreInv
    <2> QED
      BY <1>1, <2>1 DEF IInv, AppInv
  <1>13. ImpInv'
    <2>1. \A x \in Ids(r.events) :
              x > MaxAppends => x \in Ids(versions[Len(versions)].events)
      BY <1>2, <1>7 DEF Rows
    <2>2. ImpOK(versions', durableNo', imp)
      BY <1>1, <1>3, <1>8, <2>1, ImpWrite DEF IInv, ImpInv, StoreInv
    <2> QED
      BY <1>1, <2>2 DEF ImpInv
  <1>14. prune'.at = "await" /\ prune'.head = g
    BY ONLY <1>3
  <1>15. LockInv'
    BY <1>1, <1>14, AuditAssumption DEF IInv, LockInv
  <1>16. CacheInv'
    BY <1>1, <1>6, <1>7, <1>10, <1>14 DEF IInv, CacheInv, AnyHead
  <1>17. StoreInv'
    BY <1>1, <1>9 DEF IInv, StoreInv
  <1> QED
    BY <1>11, <1>12, <1>13, <1>15, <1>16, <1>17 DEF IInv

\* The prune ends: the lock is free and its head, or the old one, is cached.
LEMMA PruneEnds ==
    ASSUME IInv, PruneDurable \/ PruneFailed
    PROVE  IInv'
  <1>1. /\ UNCHANGED <<versions, durableNo, appends, now, fenced, imp, app, acked>>
        /\ prune.at = "await" /\ lock' = "free" /\ prune' = IdlePrune
        /\ cached' = prune.head \/ (cached' = cached /\ fenced)
    BY DEF PruneDurable, PruneFailed, Failed, storeVars, histVars, boundVars
  <1>2. prune'.at = "idle" /\ prune'.head = NoHead
    BY <1>1 DEF IdlePrune
  <1>3. lock = "prune" /\ \A b \in Appenders : b # "free" /\ b # "prune"
    BY <1>1, AuditAssumption DEF IInv, LockInv
  <1>4. LockInv'
    BY <1>1, <1>2, <1>3 DEF IInv, LockInv
  <1>5. CacheInv'
    BY <1>1, <1>2 DEF IInv, CacheInv, AnyHead, Rows
  <1>6. StoreInv' /\ AppInv' /\ ImpInv' /\ AckInv'
    BY <1>1 DEF IInv, StoreInv, AppInv, ImpInv, AckInv
  <1> QED
    BY <1>4, <1>5, <1>6 DEF IInv

\* A marking step of the import.
LEMMA ImporterStep ==
    ASSUME IInv, Marks, UNCHANGED <<durableNo, appends, now, fenced, app, prune, lock>>,
           ImpInv', cached' \in {cached, NoHead}, AckInv'
    PROVE  IInv'
  <1>1. fenced' \in BOOLEAN
    BY DEF IInv, StoreInv
  <1>2. StoreInv' /\ CacheInv'
    BY <1>1, QuietStep
  <1>3. LockInv'
    BY DEF IInv, LockInv
  <1>4. AppInv'
    <2>1. ASSUME NEW b \in Appenders
          PROVE  AppOK(versions', durableNo', appends', app'[b])
      BY MarksKeep DEF IInv, AppInv
    <2> QED
      BY <2>1 DEF IInv, AppInv
  <1> QED
    BY <1>2, <1>3, <1>4 DEF IInv

\* An import that has not scanned yet.
LEMMA EarlyImport ==
    ASSUME NEW vs, NEW d, NEW p, NEW at \in {"mint", "minting", "scan"},
           p = [at |-> at, archive |-> p.archive, key |-> p.key,
                known |-> p.known, next |-> 0, restamp |-> p.restamp,
                stamp |-> p.stamp, our_seq |-> p.our_seq, seq |-> p.seq,
                no |-> p.no],
           p.archive \in Archives
    PROVE  ImpOK(vs, d, p)
  <1>1. p.at = at /\ p.next = 0
    OBVIOUS
  <1>2. Len(p.archive) \in Nat
    BY AuditAssumption
  <1>3. p = [at |-> p.at, archive |-> p.archive, key |-> p.key,
             known |-> p.known, next |-> p.next, restamp |-> p.restamp,
             stamp |-> p.stamp, our_seq |-> p.our_seq, seq |-> p.seq,
             no |-> p.no]
    BY <1>1
  <1>4. p.next \in 0 .. Len(p.archive)
    BY <1>1, <1>2
  <1> QED
    BY <1>1, <1>3, <1>4 DEF ImpOK

LEMMA ImportBeginKeeps ==
    ASSUME IInv, NEW archive \in Archives, ImportBegin(archive)
    PROVE  IInv'
  <1>1. /\ UNCHANGED <<durableNo, appends, now, fenced, app, prune, lock, acked,
                       cached>>
        /\ Marks
    BY DEF ImportBegin, storeVars, histVars, Marks
  <1>2. PICK at, k : at = KeyStep("scan") /\ k = KnownKey
    OBVIOUS
  <1>3. imp' = [IdleImport EXCEPT !.at = at, !.archive = archive, !.key = k]
    BY <1>2 DEF ImportBegin
  <1>4. at \in {"mint", "minting", "scan"}
    BY <1>2 DEF KeyStep
  <1>5. /\ imp' = [at |-> at, archive |-> imp'.archive, key |-> imp'.key,
                   known |-> imp'.known, next |-> 0, restamp |-> imp'.restamp,
                   stamp |-> imp'.stamp, our_seq |-> imp'.our_seq,
                   seq |-> imp'.seq, no |-> imp'.no]
        /\ imp'.archive = archive
    BY <1>3 DEF IdleImport
  <1>6. ImpInv'
    BY <1>4, <1>5, EarlyImport DEF ImpInv
  <1>7. AckInv'
    BY <1>1, MarksKeep DEF IInv, AckInv
  <1> QED
    BY <1>1, <1>6, <1>7, ImporterStep

LEMMA ImportMintKeeps ==
    ASSUME IInv, ImportMint \/ ImportMinted
    PROVE  IInv'
  <1>1. /\ UNCHANGED <<durableNo, appends, now, fenced, app, prune, lock, acked,
                       cached>>
        /\ imp.at \in {"mint", "minting"}
    BY DEF ImportMint, ImportMinted, storeVars, histVars, boundVars, chainVars
  <1>2. Marks
    <2>1. CASE ImportMint
      BY <2>1, MintMarks DEF ImportMint
    <2>2. CASE ImportMinted
      BY <2>2 DEF ImportMinted, storeVars, Marks
    <2> QED
      BY <2>1, <2>2
  <1>3. PICK p, at, k, no :
          /\ p = imp /\ at \in {"mint", "minting", "scan"}
          /\ imp' = [p EXCEPT !.at = at, !.key = k, !.no = no]
    <2>1. CASE ImportMint
      BY <2>1 DEF ImportMint
    <2>2. CASE ImportMinted
      <3>1. imp' = [imp EXCEPT !.at = "scan", !.key = imp.key, !.no = imp.no]
        BY <2>2 DEF ImportMinted, IInv, ImpInv, ImpOK
      <3> QED
        BY <3>1
    <2> QED
      BY <2>1, <2>2
  <1>4. p.next = 0 /\ p.archive \in Archives
    BY <1>1, <1>3 DEF IInv, ImpInv, ImpOK
  <1>5. /\ imp' = [at |-> at, archive |-> imp'.archive, key |-> imp'.key,
                   known |-> imp'.known, next |-> 0, restamp |-> imp'.restamp,
                   stamp |-> imp'.stamp, our_seq |-> imp'.our_seq,
                   seq |-> imp'.seq, no |-> imp'.no]
        /\ imp'.archive = p.archive
    BY <1>3, <1>4 DEF IInv, ImpInv, ImpOK
  <1>6. ImpInv'
    BY <1>3, <1>4, <1>5, EarlyImport DEF ImpInv
  <1>7. AckInv'
    BY <1>1, <1>2, MarksKeep DEF IInv, AckInv
  <1> QED
    BY <1>1, <1>2, <1>6, <1>7, ImporterStep

\* An import between two chunks.
LEMMA ChunkImport ==
    ASSUME NEW vs, NEW d, NEW p, NEW known, NEW next,
           p = [at |-> "chunk", archive |-> p.archive, key |-> p.key,
                known |-> known, next |-> next, restamp |-> p.restamp,
                stamp |-> p.stamp, our_seq |-> p.our_seq, seq |-> p.seq,
                no |-> p.no],
           p.archive \in Archives, next \in 0 .. Len(p.archive),
           known \subseteq HeldBy(vs[Len(vs)]),
           \A j \in 1 .. next : p.archive[j].id \in known,
           \A x \in Ids(vs[Len(vs)].events) : x > MaxAppends => x \in known
    PROVE  ImpOK(vs, d, p)
  <1>1. p.at = "chunk" /\ p.next = next /\ p.known = known
    OBVIOUS
  <1>2. p = [at |-> p.at, archive |-> p.archive, key |-> p.key,
             known |-> p.known, next |-> p.next, restamp |-> p.restamp,
             stamp |-> p.stamp, our_seq |-> p.our_seq, seq |-> p.seq,
             no |-> p.no]
    BY <1>1
  <1> QED
    BY <1>1, <1>2 DEF ImpOK

LEMMA ImportScanKeeps ==
    ASSUME IInv, ImportScan
    PROVE  IInv'
  <1>1. /\ UNCHANGED <<versions, durableNo, appends, now, fenced, app, prune, lock,
                       acked, cached>>
        /\ Marks /\ imp.at = "scan"
    BY DEF ImportScan, storeVars, histVars, boundVars, chainVars, Marks
  <1>2. PICK p, known, rs, st :
          /\ p = imp /\ known = HeldIds
          /\ imp' = [p EXCEPT !.at = "chunk", !.known = known, !.restamp = rs,
                              !.stamp = st]
    BY DEF ImportScan
  <1>3. p.next = 0 /\ p.archive \in Archives /\ Len(p.archive) \in Nat
    BY <1>1, <1>2, AuditAssumption DEF IInv, ImpInv, ImpOK
  <1>4. /\ imp' = [at |-> "chunk", archive |-> imp'.archive, key |-> imp'.key,
                   known |-> known, next |-> 0, restamp |-> imp'.restamp,
                   stamp |-> imp'.stamp, our_seq |-> imp'.our_seq,
                   seq |-> imp'.seq, no |-> imp'.no]
        /\ imp'.archive = p.archive
    BY <1>2, <1>3 DEF IInv, ImpInv, ImpOK
  <1>5. known = Ids(versions[Len(versions)].events)
    BY <1>2 DEF HeldIds, Ids, Rows
  <1>6. /\ known \subseteq HeldBy(versions[Len(versions)])
        /\ \A x \in Ids(versions[Len(versions)].events) :
              x > MaxAppends => x \in known
    BY <1>5 DEF HeldBy
  <1>7. ImpInv'
    <2>1. 0 \in 0 .. Len(p.archive) /\ \A j \in 1 .. 0 : p.archive[j].id \in known
      BY <1>3
    <2> QED
      BY <1>1, <1>3, <1>4, <1>6, <2>1, ChunkImport DEF ImpInv
  <1>8. AckInv'
    BY <1>1, MarksKeep DEF IInv, AckInv
  <1> QED
    BY <1>1, <1>7, <1>8, ImporterStep

LEMMA ImportDurableKeeps ==
    ASSUME IInv, ImportDurable
    PROVE  IInv'
  <1>1. /\ UNCHANGED <<durableNo, appends, now, fenced, app, prune, lock, cached>>
        /\ RecordAnchor /\ imp.at = "await" /\ Durable(imp.no)
        /\ acked' = acked \union {imp.archive[i].id : i \in 1 .. imp.next}
    BY DEF ImportDurable, boundVars, chainVars
  <1>2. Marks
    BY <1>1, AnchorMarks
  <1>3. PICK p, q : /\ p = imp /\ q = [p EXCEPT !.at = "chunk", !.our_seq = p.seq]
    OBVIOUS
  <1>4. imp' = q
    BY <1>3 DEF ImportDurable
  <1>5. ImpOK(versions', durableNo', p)
    BY <1>1, <1>2, <1>3, MarksKeep DEF IInv, ImpInv
  <1>6. /\ q = [at |-> "chunk", archive |-> q.archive, key |-> q.key,
                known |-> p.known, next |-> p.next, restamp |-> q.restamp,
                stamp |-> q.stamp, our_seq |-> q.our_seq, seq |-> q.seq,
                no |-> q.no]
        /\ q.archive = p.archive
    BY <1>3, <1>5 DEF ImpOK
  <1>7. /\ p.archive \in Archives /\ p.next \in 0 .. Len(p.archive)
        /\ p.known \subseteq HeldBy(versions'[Len(versions')])
        /\ \A j \in 1 .. p.next : p.archive[j].id \in p.known
        /\ \A x \in Ids(versions'[Len(versions')].events) :
              x > MaxAppends => x \in p.known
    BY <1>1, <1>3, <1>5 DEF ImpOK
  <1>8. ImpInv'
    BY <1>4, <1>6, <1>7, ChunkImport DEF ImpInv
  <1>9. Noted(versions, durableNo, 0, acked \union p.known)
    BY <1>1, <1>3, DurableNoted DEF IInv, ImpInv, ImpOK
  <1>10. acked' \subseteq acked \union p.known
    BY <1>1, <1>3, <1>7
  <1>11. Noted(versions, durableNo, 0, acked')
    BY <1>9, <1>10 DEF Noted
  <1>12. AckInv'
    BY <1>1, <1>2, <1>11, MarksKeep DEF AckInv
  <1> QED
    BY <1>1, <1>2, <1>8, <1>12, ImporterStep

LEMMA ImportEnds ==
    ASSUME IInv, ImportDone \/ ImportFailed
    PROVE  IInv'
  <1>1. /\ UNCHANGED <<durableNo, appends, now, fenced, app, prune, lock, acked>>
        /\ Marks /\ imp' = IdleImport /\ cached' \in {cached, NoHead}
    BY DEF ImportDone, ImportFailed, storeVars, histVars, boundVars, chainVars,
           Marks
  <1>2. ImpInv'
    BY <1>1, ImpIdle DEF ImpInv
  <1>3. AckInv'
    BY <1>1, MarksKeep DEF IInv, AckInv
  <1> QED
    BY <1>1, <1>2, <1>3, ImporterStep

\* What the chunk's events are to the newest row and to the appenders.
LEMMA ChunkIsNew ==
    ASSUME IInv, imp.at = "chunk", NEW c, c = Chunk
    PROVE  /\ IsFiniteSet(c.events) /\ Distinct(c.events) /\ RealHead(c.head)
           /\ c.known = imp.known \union Ids(c.events)
           /\ \A e \in c.events : e.id \in Nat /\ e.id > MaxAppends
           /\ Ids(c.events) \cap Ids(Rows.events) = {}
           /\ ChunkEnd \in 0 .. Len(imp.archive)
           /\ \A j \in 1 .. ChunkEnd : imp.archive[j].id \in c.known
  <1>1. /\ ChunkEnd \in Nat /\ imp.next <= ChunkEnd
        /\ ChunkEnd <= Len(imp.archive) /\ AccOK(c, ChunkEnd)
    BY ChunkYields DEF IInv
  <1>2. ImpOK(versions, durableNo, imp) /\ imp.archive \in Archives
    BY DEF IInv, ImpInv, ImpOK
  <1>3. Len(imp.archive) \in Nat /\ imp.next \in Nat
    BY <1>2, AuditAssumption DEF ImpOK
  <1>4. ASSUME NEW e \in c.events PROVE e.id \in Nat /\ e.id > MaxAppends
    <2>1. PICK j \in 1 .. Len(imp.archive) : e.id = imp.archive[j].id
      BY <1>1 DEF AccOK
    <2>2. /\ imp.archive \in Seq([id : Nat, ts : Nat])
          /\ \A i \in DOMAIN imp.archive : imp.archive[i].id > MaxAppends
      BY <1>2, AuditAssumption
    <2>3. j \in DOMAIN imp.archive /\ imp.archive[j] \in [id : Nat, ts : Nat]
      <3>1. PICK s, R : s = imp.archive /\ R = [id : Nat, ts : Nat]
        OBVIOUS
      <3>2. s \in Seq(R) /\ j \in 1 .. Len(s)
        BY <2>2, <3>1
      <3>3. j \in DOMAIN s /\ s[j] \in R
        BY ONLY <3>2
      <3> QED
        BY <3>1, <3>3
    <2> QED
      BY <2>1, <2>2, <2>3
  <1>5. Ids(c.events) \cap Ids(Rows.events) = {}
    <2>1. ASSUME NEW x \in Ids(c.events), x \in Ids(Rows.events) PROVE FALSE
      <3>1. x > MaxAppends
        BY <1>4 DEF Ids
      <3>2. x \in imp.known
        BY <1>2, <2>1, <3>1 DEF ImpOK, Rows
      <3> QED
        BY <1>1, <3>2 DEF AccOK
    <2> QED
      BY <2>1
  <1>6. ASSUME NEW j \in 1 .. ChunkEnd PROVE imp.archive[j].id \in c.known
    <2>1. CASE j <= imp.next
      <3>1. imp.archive[j].id \in imp.known
        BY <1>2, <1>3, <2>1 DEF ImpOK
      <3> QED
        BY <1>1, <3>1 DEF AccOK
    <2>2. CASE j > imp.next
      <3>1. j \in imp.next + 1 .. ChunkEnd
        BY <1>1, <1>3, <2>2
      <3> QED
        BY <1>1, <3>1 DEF AccOK
    <2> QED
      BY <1>1, <1>3, <2>1, <2>2
  <1>7. ChunkEnd \in 0 .. Len(imp.archive)
    BY <1>1, <1>3
  <1> QED
    BY <1>1, <1>4, <1>5, <1>6, <1>7 DEF AccOK

LEMMA ImportWriteKeeps ==
    ASSUME IInv, ImportWrite
    PROVE  IInv'
  <1>1. /\ UNCHANGED <<durableNo, appends, now, fenced, app, prune, lock, acked>>
        /\ imp.at = "chunk" /\ lock = "free"
    BY DEF ImportWrite, histVars, boundVars
  <1>2. PICK p, c, end : p = imp /\ c = Chunk /\ end = ChunkEnd
    OBVIOUS
  <1>3. /\ IsFiniteSet(c.events) /\ Distinct(c.events) /\ RealHead(c.head)
        /\ c.known = p.known \union Ids(c.events)
        /\ \A e \in c.events : e.id \in Nat /\ e.id > MaxAppends
        /\ Ids(c.events) \cap Ids(Rows.events) = {}
        /\ end \in 0 .. Len(p.archive)
        /\ \A j \in 1 .. end : p.archive[j].id \in c.known
    BY <1>1, <1>2, ChunkIsNew
  <1>4. PICK step : step = [p EXCEPT !.known = c.known, !.restamp = c.restamp,
                                     !.stamp = c.stamp, !.next = end]
    OBVIOUS
  <1>5. /\ ImpOK(versions, durableNo, p) /\ p.archive \in Archives
        /\ p.known \subseteq HeldBy(versions[Len(versions)])
        /\ \A x \in Ids(versions[Len(versions)].events) :
              x > MaxAppends => x \in p.known
    BY <1>1, <1>2 DEF IInv, ImpInv, ImpOK
  <1>6. /\ step = [at |-> "chunk", archive |-> step.archive, key |-> step.key,
                   known |-> c.known, next |-> end, restamp |-> step.restamp,
                   stamp |-> step.stamp, our_seq |-> step.our_seq,
                   seq |-> step.seq, no |-> step.no]
        /\ step.archive = p.archive
    <2>1. p.at = "chunk"
      BY <1>1, <1>2
    <2> QED
      BY ONLY <1>4, <1>5, <2>1 DEF ImpOK
  <1>7. CASE c.events = {} /\ imp' = step /\ UNCHANGED <<versions, cached>>
    <2>1. Marks
      BY <1>7 DEF Marks
    <2>2. c.known = p.known
      BY <1>3, <1>7 DEF Ids
    <2>3. ImpInv'
      BY <1>1, <1>3, <1>5, <1>6, <1>7, <2>2, ChunkImport DEF ImpInv
    <2>4. AckInv'
      BY <1>1, <2>1, MarksKeep DEF IInv, AckInv
    <2> QED
      BY <1>1, <1>7, <2>1, <2>3, <2>4, ImporterStep
  <1>8. CASE fenced /\ cached' = NoHead /\ imp' = IdleImport /\ UNCHANGED versions
    <2>1. Marks
      BY <1>8 DEF Marks
    <2>2. ImpInv'
      BY <1>8, ImpIdle DEF ImpInv
    <2>3. AckInv'
      BY <1>1, <2>1, MarksKeep DEF IInv, AckInv
    <2> QED
      BY <1>1, <1>8, <2>1, <2>2, <2>3, ImporterStep
  <1>9. ASSUME NEW v, NEW g, NEW new, NEW r, v = Rows, g = c.head, new = c.events,
               Grows(v, new, g, r), versions' = Append(versions, r), cached' = g,
               imp' = [step EXCEPT !.at = "await", !.no = RowsNo + 1,
                                   !.seq = c.head.seq]
        PROVE  IInv'
    <2>1. /\ IsRow(v, appends) /\ appends \in Nat /\ appends <= MaxAppends
          /\ Len(versions) \in Nat \ {0} /\ durableNo \in Nat
          /\ MaxAppends \in Nat
      BY <1>9, NewestRow, AuditAssumption
    <2>2. /\ IsFiniteSet(new) /\ Distinct(new) /\ RealHead(g)
          /\ \A f \in new : f.id \in Nat /\ (f.id <= appends \/ f.id > MaxAppends)
          /\ Ids(new) \cap Ids(v.events) = {}
      BY <1>3, <1>9
    <2>3. Grows(v, new, g, r)
      BY <1>9
    <2>4. /\ IsRow(r, appends) /\ r.head = g /\ r.events = v.events \union new
          /\ HeldBy(r) = HeldBy(v) \union Ids(new)
      BY ONLY <2>1, <2>2, <2>3, GrownRow
    <2>5. Ids(r.events) = Ids(v.events) \union Ids(new)
      BY <2>4 DEF Ids
    <2>6. HeldBy(versions[Len(versions)]) \subseteq HeldBy(r)
      BY <1>9, <2>4 DEF Rows
    <2>7. StoreInv' /\ StoreOK(versions, durableNo, appends)
      <3>1. StoreOK(versions', durableNo', appends')
        BY <1>1, <1>9, <2>4, StoreWrite DEF IInv, StoreInv
      <3> QED
        BY <1>1, <3>1 DEF IInv, StoreInv
    <2>8. Rows' = r
      BY <1>9, NewestRow, AppendedLog DEF Rows
    <2>9. AckInv'
      BY <1>1, <1>9, <2>6, <2>7, NotedWrite DEF IInv, AckInv
    <2>10. AppInv'
      <3>1. ASSUME NEW b \in Appenders
            PROVE  AppOK(versions', durableNo', appends', app[b])
        <4>1. AppOK(versions, durableNo, appends, app[b])
          BY DEF IInv, AppInv
        <4>2. ASSUME app[b].at \in Holding PROVE app[b].id \notin Ids(r.events)
          <5>1. Len(versions) \in 1 .. Len(versions) /\ v = versions[Len(versions)]
            BY <1>9, <2>1 DEF Rows
          <5>2. app[b].id \notin Ids(v.events) /\ app[b].id \in 1 .. appends
            BY <4>1, <4>2, <5>1 DEF AppOK, Holding
          <5>3. app[b].id \notin Ids(new)
            BY <1>3, <1>9, <2>1, <5>2 DEF Ids
          <5> QED
            BY <2>5, <5>2, <5>3
        <4> QED
          BY <1>1, <1>9, <2>6, <2>7, <4>1, <4>2, AppWrite
      <3> QED
        BY <1>1, <3>1 DEF IInv, AppInv
    <2>11. ImpInv'
      <3>1. PICK q, no, seq : q = imp' /\ no = RowsNo + 1 /\ seq = c.head.seq
        OBVIOUS
      <3>2. q = [step EXCEPT !.at = "await", !.no = no, !.seq = seq]
        BY <1>9, <3>1
      <3>3. /\ q = [at |-> "await", archive |-> p.archive, key |-> q.key,
                    known |-> c.known, next |-> end, restamp |-> q.restamp,
                    stamp |-> q.stamp, our_seq |-> q.our_seq,
                    seq |-> q.seq, no |-> no]
        <4>1. PICK key, known, rs, st, our, sq, n :
                step = [at |-> "chunk", archive |-> p.archive, key |-> key,
                        known |-> known, next |-> end, restamp |-> rs,
                        stamp |-> st, our_seq |-> our, seq |-> sq, no |-> n]
                /\ known = c.known
          BY <1>6
        <4>2. q = [at |-> "await", archive |-> p.archive, key |-> key,
                   known |-> known, next |-> end, restamp |-> rs,
                   stamp |-> st, our_seq |-> our, seq |-> seq, no |-> no]
          BY ONLY <3>2, <4>1
        <4> QED
          BY ONLY <4>1, <4>2
      <3>4. /\ q.at = "await" /\ q.archive = p.archive /\ q.known = c.known
            /\ q.next = end /\ q.no = no
            /\ q = [at |-> q.at, archive |-> q.archive, key |-> q.key,
                    known |-> q.known, next |-> q.next, restamp |-> q.restamp,
                    stamp |-> q.stamp, our_seq |-> q.our_seq,
                    seq |-> q.seq, no |-> q.no]
        BY ONLY <3>3
      <3>5. c.known \subseteq HeldBy(r)
        BY <1>3, <1>5, <1>9, <2>4 DEF Rows
      <3>6. Noted(versions', durableNo', no, c.known)
        <4>1. no = durableNo + Len(versions)
          BY <2>1, <3>1 DEF RowsNo
        <4> QED
          BY <1>1, <1>9, <2>7, <3>5, <4>1, NotedNew
      <3>7. ASSUME NEW x \in Ids(r.events), x > MaxAppends PROVE x \in c.known
        <4>1. CASE x \in Ids(new)
          BY <1>3, <1>9, <4>1
        <4>2. CASE x \in Ids(v.events)
          BY <1>3, <1>5, <1>9, <3>7, <4>2 DEF Rows
        <4> QED
          BY <2>5, <4>1, <4>2
      <3>8. versions'[Len(versions')] = r
        BY <2>8 DEF Rows
      <3>9. ImpOK(versions', durableNo', q)
        BY <1>3, <1>5, <3>4, <3>5, <3>6, <3>7, <3>8 DEF ImpOK
      <3> QED
        BY <3>1, <3>9 DEF ImpInv
    <2>12. LockInv'
      BY <1>1 DEF IInv, LockInv
    <2>13. CacheInv'
      BY <1>1, <1>9, <2>2, <2>4, <2>8 DEF IInv, CacheInv, LockInv, AnyHead
    <2> QED
      BY <2>7, <2>9, <2>10, <2>11, <2>12, <2>13 DEF IInv
  <1>10. CASE /\ versions' = Append(versions, [Rows EXCEPT
                                 !.events = @ \union c.events, !.head = c.head])
              /\ cached' = c.head
              /\ imp' = [step EXCEPT !.at = "await", !.no = RowsNo + 1,
                                     !.seq = c.head.seq]
    <2>1. PICK v, g, new, r : /\ v = Rows /\ g = c.head /\ new = c.events
                              /\ Grows(v, new, g, r)
      BY DEF Grows
    <2>2. versions' = Append(versions, r)
      BY <1>10, <2>1 DEF Grows
    <2> QED
      BY <1>9, <1>10, <2>1, <2>2
  <1>11. imp.next < Len(imp.archive) /\ step =
           [imp EXCEPT !.known = Chunk.known, !.restamp = Chunk.restamp,
                       !.stamp = Chunk.stamp, !.next = ChunkEnd]
    BY <1>2, <1>4 DEF ImportWrite
  <1> QED
    BY <1>2, <1>7, <1>8, <1>10, <1>11 DEF ImportWrite, Write

LEMMA CommitKeeps ==
    ASSUME IInv, Commit
    PROVE  IInv'
  <1>1. /\ UNCHANGED <<appends, now, fenced, app, imp, prune, lock, cached, acked>>
        /\ versions' = Tail(versions) /\ durableNo' = durableNo + 1
        /\ Len(versions) > 1
    BY DEF Commit, chainVars, histVars, boundVars
  <1>2. StoreOK(versions, durableNo, appends)
    BY DEF IInv, StoreInv
  <1>3. StoreOK(versions', durableNo', appends') /\ Rows' = Rows
    BY <1>1, <1>2, StoreCommit DEF Rows
  <1>4. StoreInv' /\ LockInv' /\ CacheInv'
    BY <1>1, <1>3 DEF IInv, StoreInv, LockInv, CacheInv
  <1>5. AppInv'
    <2>1. ASSUME NEW b \in Appenders
          PROVE  AppOK(versions', durableNo', appends', app[b])
      BY <1>1, <1>2, AppCommit DEF IInv, AppInv
    <2> QED
      BY <1>1, <2>1 DEF IInv, AppInv
  <1>6. ImpInv'
    BY <1>1, <1>2, ImpCommit DEF IInv, ImpInv
  <1>7. AckInv'
    BY <1>1, <1>2, NotedCommit DEF IInv, AckInv
  <1> QED
    BY <1>4, <1>5, <1>6, <1>7 DEF IInv

LEMMA FaultKeeps ==
    ASSUME IInv, Fault
    PROVE  IInv'
  <1>1. /\ UNCHANGED <<versions, durableNo, appends, now, app, imp, prune, lock,
                       cached, acked>>
        /\ fenced' = TRUE
    BY DEF Fault, chainVars, histVars
  <1> QED
    BY <1>1 DEF IInv, StoreInv, LockInv, CacheInv, AppInv, ImpInv, AckInv, Rows

LEMMA TickKeeps ==
    ASSUME IInv, Tick
    PROVE  IInv'
  <1>1. /\ UNCHANGED <<versions, durableNo, fenced, appends, app, imp, prune, lock,
                       cached, acked>>
        /\ now' = now + 1 /\ now < MaxTime
    BY DEF Tick, storeVars, chainVars, histVars, boundVars
  <1>2. now' \in 0 .. MaxTime
    BY <1>1, AuditAssumption DEF IInv, StoreInv
  <1> QED
    BY <1>1, <1>2 DEF IInv, StoreInv, LockInv, CacheInv, AppInv, ImpInv, AckInv, Rows

LEMMA CrashKeeps ==
    ASSUME IInv, CrashAndRestart
    PROVE  IInv'
  <1>1. /\ UNCHANGED <<appends, now, acked>> /\ fenced' = FALSE
        /\ lock' = "free" /\ cached' = NoHead
        /\ app' = [a \in Appenders |-> IdleApp]
        /\ imp' = IdleImport /\ prune' = IdlePrune
    BY DEF CrashAndRestart, histVars
  <1>2. PICK i \in DOMAIN versions :
            versions' = <<versions[i]>> /\ durableNo' = durableNo + i - 1
    BY DEF CrashAndRestart
  <1>3. i \in 1 .. Len(versions) /\ i \in Nat \ {0}
    <2>1. PICK S : versions \in Seq(S)
      BY NewestRow DEF IsSequence
    <2> QED
      BY <2>1
  <1>4. PICK v : v = versions[i]
    OBVIOUS
  <1>5. IsRow(v, appends) /\ acked \subseteq HeldBy(v)
    <2>1. durableNo + i - 1 >= 0
      BY <1>3, NewestRow
    <2> QED
      BY <1>3, <1>4, <2>1 DEF IInv, StoreInv, StoreOK, AckInv, Noted
  <1>6. versions' = <<v>> /\ durableNo' \in Nat
    BY <1>2, <1>3, <1>4, NewestRow
  <1>7. IsSequence(versions') /\ Len(versions') = 1 /\ versions'[1] = v
    BY <1>6, SingleLog
  <1>8. StoreInv'
    <2>1. \A j \in 1 .. Len(versions') : IsRow(versions'[j], appends')
      BY <1>1, <1>5, <1>7
    <2>2. StoreOK(versions', durableNo', appends')
      BY <1>1, <1>6, <1>7, <2>1, NewestRow DEF StoreOK
    <2> QED
      BY <1>1, <2>2 DEF IInv, StoreInv
  <1>9. AckInv'
    <2>1. \A j \in 1 .. Len(versions') : acked' \subseteq HeldBy(versions'[j])
      BY <1>1, <1>5, <1>7
    <2>2. ASSUME NEW d \in Nat PROVE 0 <= d + 1 - 1
      OBVIOUS
    <2>3. 0 <= durableNo' + 1 - 1
      BY ONLY <1>6, <2>2
    <2> QED
      BY <1>7, <2>1, <2>3 DEF AckInv, Noted
  <1>10. AppInv'
    BY <1>1, AppIdle DEF AppInv
  <1>11. ImpInv'
    BY <1>1, ImpIdle DEF ImpInv
  <1>12. prune'.at = "idle" /\ prune'.head = NoHead
    BY <1>1 DEF IdlePrune
  <1>13. \A b \in Appenders : b # "free" /\ app'[b].at \notin Holding
    BY <1>1, AppIdle, AuditAssumption DEF Holding
  <1>14. LockInv'
    BY <1>1, <1>12, <1>13 DEF LockInv
  <1>15. CacheInv'
    BY <1>1, <1>12 DEF CacheInv, AnyHead
  <1> QED
    BY <1>8, <1>9, <1>10, <1>11, <1>14, <1>15 DEF IInv

LEMMA InitHolds ==
    ASSUME Init
    PROVE  IInv
  <1>1. PICK v : v = [key |-> 0, head |-> NoHead, events |-> {},
                      anchored |-> FALSE, pruned |-> {}]
    OBVIOUS
  <1>2. /\ versions = <<v>> /\ durableNo = 0 /\ fenced = FALSE /\ now = 0
        /\ lock = "free" /\ cached = NoHead /\ appends = 0 /\ acked = {}
        /\ app = [a \in Appenders |-> IdleApp] /\ imp = IdleImport
        /\ prune = IdlePrune
    BY <1>1 DEF Init
  <1>3. IsRow(v, 0)
    BY <1>1, FS_EmptySet DEF IsRow, AnyHead, Distinct
  <1>4. IsSequence(versions) /\ Len(versions) = 1 /\ versions[1] = v
    BY <1>2, SingleLog
  <1>5. StoreInv
    <2>1. \A j \in 1 .. Len(versions) : IsRow(versions[j], appends)
      BY <1>2, <1>3, <1>4
    <2>2. StoreOK(versions, durableNo, appends)
      BY <1>2, <1>4, <2>1, AuditAssumption DEF StoreOK
    <2>3. 0 \in 0 .. MaxTime
      BY AuditAssumption
    <2> QED
      BY <1>2, <2>2, <2>3 DEF StoreInv
  <1>6. AckInv
    <2>1. \A j \in 1 .. Len(versions) : acked \subseteq HeldBy(versions[j])
      BY <1>2
    <2>2. 0 \in Nat /\ 0 <= durableNo + Len(versions) - 1
      BY <1>2, <1>4
    <2> QED
      BY <2>1, <2>2 DEF AckInv, Noted
  <1>7. AppInv
    BY <1>2, AppIdle DEF AppInv
  <1>8. ImpInv
    BY <1>2, ImpIdle DEF ImpInv
  <1>9. prune.at = "idle" /\ prune.head = NoHead
    BY <1>2 DEF IdlePrune
  <1>10. \A b \in Appenders : b # "free" /\ app[b].at \notin Holding
    BY <1>2, AppIdle, AuditAssumption DEF Holding
  <1>11. LockInv
    BY <1>2, <1>9, <1>10 DEF LockInv
  <1>12. CacheInv
    BY <1>2, <1>9 DEF CacheInv, AnyHead
  <1> QED
    BY <1>5, <1>6, <1>7, <1>8, <1>11, <1>12 DEF IInv

-----------------------------------------------------------------------------
(* The theorems.                                                           *)

\* The invariant holds initially and every step of the audit engine, the
\* storage engine and the clock keeps it.
THEOREM Invariance == Spec => []IInv
  <1>1. Init => IInv
    BY InitHolds
  <1>2. IInv /\ [Next]_vars => IInv'
    <2> SUFFICES ASSUME IInv, [Next]_vars PROVE IInv'
      OBVIOUS
    <2>1. CASE UNCHANGED vars
      BY <2>1 DEF vars, storeVars, chainVars, histVars, boundVars, IInv,
         StoreInv, LockInv, CacheInv, AppInv, ImpInv, AckInv, Rows
    <2>2. ASSUME NEW a \in Appenders,
                 \/ AppendLock(a) \/ AppendMint(a) \/ AppendMinted(a)
                 \/ AppendChain(a) \/ AppendRefused(a) \/ AppendDurable(a)
                 \/ AppendFailed(a)
          PROVE  IInv'
      BY <2>2, AppendLockKeeps, AppendMintKeeps, AppendMintedKeeps,
         AppendChainKeeps, AppendRefusedKeeps, AppendDurableKeeps,
         AppendFailedKeeps
    <2>3. ASSUME NEW cutoff \in 1 .. MaxTime + 1, NEW max \in 1 .. PruneBatch,
                 PruneWrite(cutoff, max)
          PROVE  IInv'
      <3>1. max \in Nat
        BY AuditAssumption
      <3> QED
        BY <2>3, <3>1, PruneWriteKeeps
    <2>4. ASSUME NEW archive \in Archives, ImportBegin(archive) PROVE IInv'
      BY <2>4, ImportBeginKeeps
    <2>5. CASE \/ PruneDurable \/ PruneFailed \/ ImportMint \/ ImportMinted
               \/ ImportScan \/ ImportWrite \/ ImportDurable \/ ImportDone
               \/ ImportFailed \/ Commit \/ Fault \/ Tick \/ CrashAndRestart
      BY <2>5, PruneEnds, ImportMintKeeps, ImportScanKeeps, ImportWriteKeeps,
         ImportDurableKeeps, ImportEnds, CommitKeeps, FaultKeeps, TickKeeps,
         CrashKeeps
    <2> QED
      BY <2>1, <2>2, <2>3, <2>4, <2>5 DEF Next
  <1> QED
    BY <1>1, <1>2, PTL DEF Spec

\* A head never counts more live events than were chained, through appends,
\* chunked imports and prunes, and the chain lock has one of its takers
\* (ChainHead: seq and count).
THEOREM WellTyped == Spec => []TypeOK
  <1>1. IInv => TypeOK
    <2> SUFFICES ASSUME IInv PROVE TypeOK
      OBVIOUS
    <2>1. ASSUME NEW h, AnyHead(h) PROVE IsHead(h)
      BY <2>1 DEF AnyHead, RealHead, IsHead
    <2>2. DOMAIN versions = 1 .. Len(versions)
      <3>1. PICK S : versions \in Seq(S)
        BY NewestRow DEF IsSequence
      <3> QED
        BY <3>1
    <2>3. ASSUME NEW i \in DOMAIN versions PROVE IsHead(versions[i].head)
      BY <2>1, <2>2 DEF IInv, StoreInv, StoreOK, IsRow
    <2> QED
      BY <2>1, <2>3 DEF TypeOK, IInv, StoreInv, LockInv, CacheInv
  <1> QED
    BY <1>1, Invariance, PTL

\* With the chain lock free and the WAL not fenced, a cached head is the stored
\* one, whatever appends, chunks, prunes and failures came before
\* (with_pending_append chains off `*cached`).
THEOREM HeadIsCurrent == Spec => []CacheCurrent
  <1>1. IInv => CacheCurrent
    BY DEF IInv, CacheInv, CacheCurrent
  <1> QED
    BY <1>1, Invariance, PTL

\* An append or import that reported success is in every version a crash may
\* restore, or its prune is recorded there (await_batch_durable before Ok).
THEOREM AcknowledgedIsKept == Spec => []AckedKept
  <1>1. IInv => AckedKept
    <2> SUFFICES ASSUME IInv, NEW i \in DOMAIN versions
                 PROVE  acked \subseteq HeldBy(versions[i])
      BY DEF AckedKept, HeldBy, Ids
    <2>1. PICK S : versions \in Seq(S)
      BY NewestRow DEF IsSequence
    <2>2. i \in 1 .. Len(versions) /\ i \in Nat
      BY <2>1
    <2>3. durableNo + i - 1 >= 0
      BY <2>2, NewestRow
    <2> QED
      BY <2>2, <2>3 DEF IInv, AckInv, Noted
  <1> QED
    BY <1>1, Invariance, PTL

\* No event is in the log twice, however often its archive was imported, failed
\* half way or was imported again (import_events: held_event_ids).
THEOREM NothingTwice == Spec => []NoDuplicates
  <1>1. IInv => NoDuplicates
    <2> SUFFICES ASSUME IInv PROVE NoDuplicates
      OBVIOUS
    <2>1. Distinct(Rows.events)
      BY NewestRow DEF IsRow
    <2> QED
      BY <2>1 DEF NoDuplicates, Distinct
  <1> QED
    BY <1>1, Invariance, PTL

-----------------------------------------------------------------------------
(* The chain.  Its invariant is about logs for which one key was minted.   *)

\* Events as the audit engine writes them.
Event == [ts : Nat, seq : Nat, id : Nat, hash : Hash]

\* t lists the events E in key order.
Sorted(t, E) ==
    /\ t \in Seq(E)
    /\ \A e \in E : \E i \in 1 .. Len(t) : t[i] = e
    /\ \A i, j \in 1 .. Len(t) : i < j => Before(t[i], t[j])

\* The hash before the i-th of the events t behind the anchor.
HashBefore(t, anchor, i) == IF i = 1 THEN anchor ELSE t[i - 1].hash

\* t is a chain under key 1 from the anchor of h to its end.
Linked(t, h) ==
    /\ \A i \in 1 .. Len(t) :
          t[i].hash = HashOf(1, HashBefore(t, h.anchor, i), t[i].id, t[i].ts)
    /\ h.count = Len(t)
    /\ h.last_hash = HashBefore(t, h.anchor, Len(t) + 1)

\* At time n the events E are a chain with head h.
Chain(E, h, n) ==
    /\ E \subseteq Event /\ h \in Heads /\ h.key = 1
    /\ \A e \in E : e.ts <= n /\ e.seq <= h.seq
    /\ \E t : Sorted(t, E) /\ Linked(t, h)

\* A version without a head holds and held nothing; the others are chains.
LinkedRow(v, n) ==
    /\ v.key \in {0, 1}
    /\ \/ v.head = NoHead /\ v.events = {} /\ v.anchored = FALSE
       \/ v.key = 1 /\ Chain(v.events, v.head, n)

\* So is every version a crash could restore, when m keys were minted.
RowsLinked(vs, m, n) ==
    \A i \in 1 .. Len(vs) : LinkedRow(vs[i], n) /\ vs[i].key <= m

\* Whoever has a key has the stored one, and whoever waits for its events to be
\* durable finds a head: of an appender, and of the import, which has ended the
\* chain nowhere before its first chunk.
AppKeyed(p, v) ==
    /\ p.at \in {"minting", "chain"} => p.key = 1 /\ v.key = 1
    /\ p.at = "await" => v.head # NoHead
ImpKeyed(p, v) ==
    /\ p.at \in {"mint", "minting", "scan"} => p.our_seq = 0 /\ p.seq = 0
    /\ p.at \in {"minting", "scan", "chunk", "await"} => p.key = 1 /\ v.key = 1
    /\ p.at = "await" => v.head # NoHead

\* Where the import's last chunk ended the chain.
EndSeq(p) == IF p.at = "await" THEN p.seq ELSE p.our_seq

\* No event of E is later than what the import p chains next.
InTime(p, E) ==
    IF p.restamp THEN \A e \in E : e.ts <= p.stamp
    ELSE \A e \in E : \A j \in p.next + 1 .. Len(p.archive) : e.ts <= p.archive[j].ts

\* The archive a is in the order of its times, and none is after n.
InOrder(a, n) ==
    /\ \A i, j \in 1 .. Len(a) : i <= j => a[i].ts <= a[j].ts
    /\ \A i \in 1 .. Len(a) : a[i].ts <= n

\* At time n, with v the newest version: the import chains nothing in the future,
\* and while its last chunk is the end of the chain nothing before what is there.
TimesOK(p, v, n) ==
    p.at \in {"chunk", "await"} =>
        /\ p.restamp \in BOOLEAN /\ p.stamp \in Nat /\ p.stamp <= n
        /\ p.our_seq \in Nat /\ p.seq \in Nat
        /\ ~p.restamp => InOrder(p.archive, n)
        /\ EndSeq(p) # 0 =>
              /\ v.head # NoHead /\ EndSeq(p) <= v.head.seq
              /\ v.head.seq = EndSeq(p) => InTime(p, v.events)

LinkInv ==
    /\ minted \in {0, 1} /\ key_cache \in {0, 1}
    /\ RowsLinked(versions, minted, now)
    /\ key_cache = 1 => Rows.key = 1
    /\ \A a \in Appenders : AppKeyed(app[a], Rows)
    /\ ImpKeyed(imp, Rows)
    /\ TimesOK(imp, Rows, now)

\* It holds as long as no second key was minted.
ChainInv == minted \in Nat /\ (minted <= 1 => LinkInv)

-----------------------------------------------------------------------------
(* Key order.                                                              *)

LEMMA BeforeIsStrict ==
    ASSUME NEW d \in Event, NEW e \in Event, Before(d, e)
    PROVE  ~ Before(e, d) /\ d # e
  <1>1. /\ d.ts \in Nat /\ d.seq \in Nat /\ d.id \in Nat
        /\ e.ts \in Nat /\ e.seq \in Nat /\ e.id \in Nat
    BY DEF Event
  <1> QED
    BY <1>1 DEF Before

\* A sorted sequence has its i-th element at rank i - 1.
LEMMA SortedRank ==
    ASSUME NEW E, E \subseteq Event, NEW t, Sorted(t, E), NEW i \in 1 .. Len(t)
    PROVE  /\ IsFiniteSet({d \in E : Before(d, t[i])})
           /\ Cardinality({d \in E : Before(d, t[i])}) = i - 1
  <1> DEFINE P == {d \in E : Before(d, t[i])}
  <1> DEFINE f == [j \in 1 .. i - 1 |-> t[j]]
  <1>1. /\ t \in Seq(E) /\ Len(t) \in Nat /\ i \in Nat /\ i - 1 \in Nat
        /\ \A j \in 1 .. Len(t) : t[j] \in E /\ t[j] \in Event
    BY DEF Sorted
  <1>2. \A j \in 1 .. i - 1 : j \in 1 .. Len(t) /\ j < i
    BY <1>1
  <1>3. \A j \in 1 .. i - 1 : t[j] \in P
    BY <1>1, <1>2 DEF Sorted
  <1>4. ASSUME NEW d \in P PROVE \E j \in 1 .. i - 1 : t[j] = d
    <2>1. PICK j \in 1 .. Len(t) : t[j] = d
      BY DEF Sorted
    <2>2. CASE j < i
      <3>1. j \in 1 .. i - 1
        BY <1>1, <2>2
      <3> QED
        BY <2>1, <3>1
    <2>3. CASE j = i
      BY <1>1, <2>1, <2>3, BeforeIsStrict
    <2>4. CASE i < j
      BY <1>1, <2>1, <2>4, BeforeIsStrict DEF Sorted
    <2> QED
      BY <1>1, <2>2, <2>3, <2>4
  <1>5. ASSUME NEW j \in 1 .. i - 1, NEW k \in 1 .. i - 1, t[j] = t[k]
        PROVE  j = k
    <2>1. j \in 1 .. Len(t) /\ k \in 1 .. Len(t)
      BY <1>2
    <2>2. CASE j < k
      BY <1>1, <1>5, <2>1, <2>2, BeforeIsStrict DEF Sorted
    <2>3. CASE k < j
      BY <1>1, <1>5, <2>1, <2>3, BeforeIsStrict DEF Sorted
    <2> QED
      BY <2>1, <2>2, <2>3
  <1>6. f \in Bijection(1 .. i - 1, P)
    <2>1. f \in [1 .. i - 1 -> P]
      BY <1>3
    <2>2. \A j, k \in 1 .. i - 1 : f[j] = f[k] => j = k
      BY <1>5
    <2>3. \A d \in P : \E j \in 1 .. i - 1 : f[j] = d
      BY <1>4
    <2> HIDE DEF f, P
    <2> QED
      BY <2>1, <2>2, <2>3 DEF Bijection, Injection, Surjection, IsInjective
  <1>7. ExistsBijection(1 .. i - 1, P)
    BY <1>6 DEF ExistsBijection
  <1>8. IsFiniteSet(1 .. i - 1) /\ Cardinality(1 .. i - 1) = i - 1
    <2>1. 1 \in Int /\ i - 1 \in Int
      BY <1>1
    <2>2. IsFiniteSet(1 .. i - 1) /\
          Cardinality(1 .. i - 1) = IF 1 > i - 1 THEN 0 ELSE (i - 1) - 1 + 1
      BY ONLY <2>1, FS_Interval
    <2> QED
      BY <1>1, <2>2
  <1> HIDE DEF P
  <1>9. IsFiniteSet(P) /\ Cardinality(P) = i - 1
    BY <1>7, <1>8, FS_Bijection
  <1> QED
    BY <1>9 DEF P

LEMMA SortedIsKeyOrder ==
    ASSUME NEW E, E \subseteq Event, NEW t, Sorted(t, E)
    PROVE  /\ InKeyOrder(E) = t
           /\ IsFiniteSet(E) /\ Cardinality(E) = Len(t)
  <1>1. /\ t \in Seq(E) /\ Len(t) \in Nat
        /\ \A j \in 1 .. Len(t) : t[j] \in E /\ t[j] \in Event
    BY DEF Sorted
  <1>2. IsFiniteSet(E) /\ Cardinality(E) = Len(t)
    <2>1. ASSUME NEW j \in 1 .. Len(t), NEW k \in 1 .. Len(t), t[j] = t[k]
          PROVE  j = k
      <3>1. CASE j < k
        BY <1>1, <2>1, <3>1, BeforeIsStrict DEF Sorted
      <3>2. CASE k < j
        BY <1>1, <2>1, <3>2, BeforeIsStrict DEF Sorted
      <3> QED
        BY <3>1, <3>2
    <2>2. t \in [1 .. Len(t) -> E]
      BY <1>1
    <2>3. t \in Bijection(1 .. Len(t), E)
      BY <2>1, <2>2 DEF Sorted, Bijection, Injection, Surjection, IsInjective
    <2>4. ExistsBijection(1 .. Len(t), E)
      BY <2>3 DEF ExistsBijection
    <2>5. IsFiniteSet(1 .. Len(t)) /\ Cardinality(1 .. Len(t)) = Len(t)
      <3>1. 1 \in Int /\ Len(t) \in Int
        BY <1>1
      <3>2. IsFiniteSet(1 .. Len(t)) /\
            Cardinality(1 .. Len(t)) = IF 1 > Len(t) THEN 0 ELSE Len(t) - 1 + 1
        BY ONLY <3>1, FS_Interval
      <3> QED
        BY <1>1, <3>2
    <2> QED
      BY <2>4, <2>5, FS_Bijection
  <1> DEFINE at(i) == CHOOSE e \in E : Cardinality({d \in E : Before(d, e)}) = i - 1
  <1>3. ASSUME NEW i \in 1 .. Len(t) PROVE at(i) = t[i]
    <2>1. \E e \in E : Cardinality({d \in E : Before(d, e)}) = i - 1
      <3>1. Cardinality({d \in E : Before(d, t[i])}) = i - 1
        BY SortedRank
      <3> QED
        BY <1>1, <3>1
    <2>2. at(i) \in E /\ Cardinality({d \in E : Before(d, at(i))}) = i - 1
      BY <2>1
    <2>3. PICK k \in 1 .. Len(t) : t[k] = at(i)
      BY <2>2 DEF Sorted
    <2>4. Cardinality({d \in E : Before(d, t[k])}) = k - 1
      BY SortedRank
    <2>5. k - 1 = i - 1
      BY <2>2, <2>3, <2>4
    <2>6. k = i
      BY ONLY <1>1, <2>5, k \in 1 .. Len(t), i \in 1 .. Len(t)
    <2> QED
      BY <2>3, <2>6
  <1>4. InKeyOrder(E) = [i \in 1 .. Len(t) |-> at(i)]
    BY <1>2 DEF InKeyOrder
  <1> HIDE DEF at
  <1>5. t = [i \in 1 .. Len(t) |-> t[i]]
    BY <1>1
  <1> QED
    BY <1>2, <1>3, <1>4, <1>5

-----------------------------------------------------------------------------
(* A chain grows at its end and shrinks at its anchor.                     *)

LEMMA SubSeqOf ==
    ASSUME NEW E, NEW t \in Seq(E), NEW a \in Nat \ {0}, NEW b \in Nat,
           a <= b + 1, b <= Len(t)
    PROVE  /\ SubSeq(t, a, b) \in Seq(E) /\ Len(SubSeq(t, a, b)) = b - a + 1
           /\ \A i \in 1 .. b - a + 1 : SubSeq(t, a, b)[i] = t[a + i - 1]
  OBVIOUS

\* A step along the chain in terms of the typed fields.
LEMMA ChainedFields ==
    ASSUME NEW h \in Heads, NEW id \in Nat, NEW ts \in Nat,
           NEW c, c = Chained(h, 1, id, ts)
    PROVE  /\ c.event \in Event /\ c.head \in Heads
           /\ c.event.ts = ts /\ c.event.id = id /\ c.event.seq = h.seq + 1
           /\ c.event.hash = HashOf(1, h.last_hash, id, ts)
           /\ c.head.anchor = h.anchor /\ c.head.last_hash = c.event.hash
           /\ c.head.seq = h.seq + 1 /\ c.head.count = h.count + 1
           /\ c.head.key = 1
  <1>1. PICK x, seq, count, hash :
          /\ x = <<1, id, ts>> /\ seq = h.seq + 1 /\ count = h.count + 1
          /\ hash = HashOf(1, h.last_hash, id, ts)
    OBVIOUS
  <1>2. /\ h.anchor \in Hash /\ h.last_hash \in Hash /\ h.seq \in Nat
        /\ h.count \in Nat
    BY DEF Heads
  <1>3. hash \in Hash
    <2>1. x \in Nat \X Nat \X Nat
      BY <1>1
    <2>2. hash = Append(h.last_hash, x)
      BY <1>1 DEF HashOf
    <2> QED
      BY ONLY <1>2, <2>1, <2>2 DEF Hash
  <1>4. seq \in Nat /\ count \in Nat
    BY <1>1, <1>2
  <1>5. /\ c.event = [ts |-> ts, seq |-> seq, id |-> id, hash |-> hash]
        /\ c.head = [h EXCEPT !.last_hash = hash, !.seq = seq,
                              !.count = count, !.key = 1]
    BY <1>1 DEF Chained
  <1>6. c.head = [anchor |-> h.anchor, last_hash |-> hash, seq |-> seq,
                  count |-> count, key |-> 1]
    BY <1>5 DEF Heads
  <1> QED
    BY <1>1, <1>2, <1>3, <1>4, <1>5, <1>6 DEF Event, Heads

LEMMA ChainGrows ==
    ASSUME NEW E, NEW h, NEW n \in Nat, Chain(E, h, n),
           NEW id \in Nat, NEW ts \in Nat, ts <= n, \A d \in E : d.ts <= ts,
           NEW c, c = Chained(h, 1, id, ts)
    PROVE  Chain(E \union {c.event}, c.head, n)
  <1>1. PICK t : Sorted(t, E) /\ Linked(t, h)
    BY DEF Chain
  <1>2. PICK e, g : e = c.event /\ g = c.head
    OBVIOUS
  <1>3. h \in Heads /\ E \subseteq Event /\ h.seq \in Nat /\ h.count \in Nat
    BY DEF Chain, Heads
  <1>4. /\ e \in Event /\ g \in Heads /\ e.ts = ts /\ e.id = id
        /\ e.seq = h.seq + 1 /\ e.hash = HashOf(1, h.last_hash, id, ts)
        /\ g.anchor = h.anchor /\ g.last_hash = e.hash /\ g.seq = h.seq + 1
        /\ g.count = h.count + 1 /\ g.key = 1
    BY <1>2, <1>3, ChainedFields
  <1> DEFINE F == E \union {e}
  <1> DEFINE u == Append(t, e)
  <1>5. t \in Seq(E) /\ t \in Seq(F) /\ e \in F
    BY <1>1 DEF Sorted
  <1>6. /\ u \in Seq(F) /\ Len(u) = Len(t) + 1 /\ u[Len(t) + 1] = e
        /\ Len(t) \in Nat
        /\ \A i \in 1 .. Len(t) : u[i] = t[i] /\ t[i] \in E
    BY <1>5
  <1> HIDE DEF u
  <1>7. ASSUME NEW d \in E PROVE Before(d, e)
    <2>1. d \in Event /\ d.ts <= ts /\ d.seq <= h.seq
      BY <1>3 DEF Chain
    <2>2. d.ts \in Nat /\ d.seq \in Nat
      BY <2>1 DEF Event
    <2> QED
      BY <1>3, <1>4, <2>1, <2>2 DEF Before
  <1>8. Sorted(u, F)
    <2>1. ASSUME NEW d \in F PROVE \E i \in 1 .. Len(u) : u[i] = d
      <3>1. CASE d = e
        <4>1. Len(t) + 1 \in 1 .. Len(u)
          BY <1>6
        <4> QED
          BY <1>6, <3>1, <4>1
      <3>2. CASE d \in E
        <4>1. PICK i \in 1 .. Len(t) : t[i] = d
          BY <1>1, <3>2 DEF Sorted
        <4>2. i \in 1 .. Len(u) /\ u[i] = d
          BY <1>6, <4>1
        <4> QED
          BY <4>2
      <3> QED
        BY <3>1, <3>2
    <2>2. ASSUME NEW i \in 1 .. Len(u), NEW j \in 1 .. Len(u), i < j
          PROVE  Before(u[i], u[j])
      <3>1. i \in 1 .. Len(t)
        BY <1>6, <2>2
      <3>2. CASE j = Len(t) + 1
        BY <1>6, <1>7, <3>1, <3>2
      <3>3. CASE j \in 1 .. Len(t)
        BY <1>1, <1>6, <2>2, <3>1, <3>3 DEF Sorted
      <3> QED
        BY <1>6, <3>2, <3>3
    <2> HIDE DEF F
    <2> QED
      BY <1>6, <2>1, <2>2 DEF Sorted
  <1>9. Linked(u, g)
    <2>1. ASSUME NEW i \in 1 .. Len(t) + 1
          PROVE  HashBefore(u, g.anchor, i) = HashBefore(t, h.anchor, i)
      <3>1. CASE i = 1
        BY <1>4, <3>1 DEF HashBefore
      <3>2. CASE i # 1
        <4>1. i - 1 \in 1 .. Len(t)
          BY <1>6, <3>2
        <4> QED
          BY <1>6, <3>2, <4>1 DEF HashBefore
      <3> QED
        BY <3>1, <3>2
    <2>2. h.last_hash = HashBefore(u, g.anchor, Len(t) + 1)
      <3>1. Len(t) + 1 \in 1 .. Len(t) + 1
        BY <1>6
      <3> QED
        BY <1>1, <2>1, <3>1 DEF Linked
    <2>3. ASSUME NEW i \in 1 .. Len(u)
          PROVE  u[i].hash = HashOf(1, HashBefore(u, g.anchor, i), u[i].id, u[i].ts)
      <3>1. CASE i = Len(t) + 1
        BY <1>4, <1>6, <2>2, <3>1
      <3>2. CASE i \in 1 .. Len(t)
        <4>1. t[i].hash = HashOf(1, HashBefore(t, h.anchor, i), t[i].id, t[i].ts)
          BY <1>1, <3>2 DEF Linked
        <4>2. HashBefore(u, g.anchor, i) = HashBefore(t, h.anchor, i)
          BY <1>6, <2>1, <3>2
        <4> QED
          BY <1>6, <3>2, <4>1, <4>2
      <3> QED
        BY <1>6, <3>1, <3>2
    <2>4. g.count = Len(u)
      BY <1>1, <1>4, <1>6 DEF Linked
    <2>5. g.last_hash = HashBefore(u, g.anchor, Len(u) + 1)
      <3>1. Len(u) + 1 # 1 /\ Len(u) + 1 - 1 = Len(t) + 1
        BY <1>6
      <3> QED
        BY <1>4, <1>6, <3>1 DEF HashBefore
    <2> QED
      BY <2>3, <2>4, <2>5 DEF Linked
  <1>10. \A d \in F : d.ts <= n /\ d.seq <= g.seq
    <2>1. ASSUME NEW d \in E PROVE d.ts <= n /\ d.seq <= g.seq
      <3>1. d.ts <= n /\ d.seq <= h.seq /\ d.seq \in Nat
        BY <1>3 DEF Chain, Event
      <3> QED
        BY <1>3, <1>4, <3>1
    <2>2. e.ts <= n /\ e.seq <= g.seq
      BY <1>3, <1>4
    <2> QED
      BY <2>1, <2>2
  <1>11. F \subseteq Event
    BY <1>3, <1>4
  <1> HIDE DEF F
  <1>12. Chain(F, g, n)
    BY <1>4, <1>8, <1>9, <1>10, <1>11 DEF Chain
  <1> QED
    BY <1>2, <1>12 DEF F

\* The events before a cutoff are the first ones.
LEMMA CutoffPrefix ==
    ASSUME NEW E, E \subseteq Event, NEW t, Sorted(t, E), NEW cutoff \in Nat
    PROVE  \E m \in 0 .. Len(t) : \A i \in 1 .. Len(t) : t[i].ts < cutoff <=> i <= m
  <1>1. /\ Len(t) \in Nat
        /\ \A j \in 1 .. Len(t) : t[j] \in Event
    BY DEF Sorted
  <1>2. \A j \in 1 .. Len(t) : t[j].ts \in Nat
    BY <1>1 DEF Event
  <1> DEFINE late == {i \in 1 .. Len(t) : ~ (t[i].ts < cutoff)}
  <1>3. CASE late = {}
    <2>1. Len(t) \in 0 .. Len(t) /\ \A i \in 1 .. Len(t) : t[i].ts < cutoff /\ i <= Len(t)
      BY <1>1, <1>3
    <2> QED
      BY <2>1
  <1>4. CASE late # {}
    <2>1. PICK k : k = Min(late)
      OBVIOUS
    <2>2. late \in SUBSET Nat
      BY <1>1
    <2>3. k \in late /\ \A y \in late : k <= y
      <3> HIDE DEF late
      <3> QED
        BY <1>4, <2>1, <2>2, SmallestOf
    <2>4. k \in 1 .. Len(t) /\ k - 1 \in 0 .. Len(t) /\ ~ (t[k].ts < cutoff)
      BY <1>1, <2>3
    <2>5. ASSUME NEW i \in 1 .. Len(t) PROVE t[i].ts < cutoff <=> i <= k - 1
      <3>1. CASE i < k
        <4>1. i \notin late
          BY <2>3, <2>4, <3>1
        <4> QED
          BY <2>4, <3>1, <4>1
      <3>2. CASE i = k
        BY <2>4, <3>2
      <3>3. CASE i > k
        <4>1. Before(t[k], t[i])
          BY <2>4, <3>3 DEF Sorted
        <4>2. t[k].ts <= t[i].ts
          BY <1>2, <2>4, <4>1 DEF Before
        <4> QED
          BY <1>2, <2>4, <3>3, <4>2
      <3> QED
        BY <2>4, <3>1, <3>2, <3>3
    <2> QED
      BY <2>4, <2>5
  <1> QED
    BY <1>3, <1>4

LEMMA SortedPrefix ==
    ASSUME NEW E, NEW t, Sorted(t, E), NEW m \in 0 .. Len(t), NEW F \in SUBSET E,
           \A i \in 1 .. Len(t) : t[i] \in F <=> i <= m
    PROVE  Sorted(SubSeq(t, 1, m), F)
  <1>1. t \in Seq(E) /\ Len(t) \in Nat /\ m \in Nat /\ m <= Len(t)
    BY DEF Sorted
  <1> DEFINE s == SubSeq(t, 1, m)
  <1>2. /\ Len(s) = m /\ s \in Seq(E)
        /\ \A i \in 1 .. m : s[i] = t[i] /\ i \in 1 .. Len(t)
    <2>1. 1 <= m + 1 /\ m - 1 + 1 = m /\ \A i \in 1 .. m : 1 + i - 1 = i
      BY <1>1
    <2> QED
      BY <1>1, <2>1, SubSeqOf
  <1> HIDE DEF s
  <1>3. \A i \in 1 .. m : s[i] \in F
    BY <1>1, <1>2
  <1>4. s \in Seq(F)
    BY <1>1, <1>2, <1>3
  <1>5. ASSUME NEW e \in F PROVE \E i \in 1 .. Len(s) : s[i] = e
    <2>1. PICK i \in 1 .. Len(t) : t[i] = e
      BY DEF Sorted
    <2>2. i \in 1 .. m
      BY <1>1, <2>1
    <2> QED
      BY <1>2, <2>1, <2>2
  <1>6. \A i, j \in 1 .. Len(s) : i < j => Before(s[i], s[j])
    BY <1>2 DEF Sorted
  <1>7. Sorted(s, F)
    BY <1>4, <1>5, <1>6 DEF Sorted
  <1> QED
    BY <1>7 DEF s

LEMMA SortedSuffix ==
    ASSUME NEW E, NEW t, Sorted(t, E), NEW k \in 0 .. Len(t), NEW F \in SUBSET E,
           \A i \in 1 .. Len(t) : t[i] \in F <=> i > k
    PROVE  /\ Sorted(SubSeq(t, k + 1, Len(t)), F)
           /\ Len(SubSeq(t, k + 1, Len(t))) = Len(t) - k
           /\ \A i \in 1 .. Len(t) - k :
                 SubSeq(t, k + 1, Len(t))[i] = t[k + i] /\ k + i \in 1 .. Len(t)
  <1>1. t \in Seq(E) /\ Len(t) \in Nat /\ k \in Nat /\ k <= Len(t)
    BY DEF Sorted
  <1> DEFINE s == SubSeq(t, k + 1, Len(t))
  <1>2. /\ Len(s) = Len(t) - k /\ s \in Seq(E)
        /\ \A i \in 1 .. Len(t) - k : s[i] = t[k + i] /\ k + i \in 1 .. Len(t)
    <2>1. PICK a, b : a = k + 1 /\ b = Len(t)
      OBVIOUS
    <2>2. /\ a \in Nat \ {0} /\ b \in Nat /\ a <= b + 1 /\ b <= Len(t)
          /\ b - a + 1 = Len(t) - k
          /\ \A i \in 1 .. Len(t) - k : a + i - 1 = k + i /\ k + i \in 1 .. Len(t)
      BY <1>1, <2>1
    <2>3. /\ SubSeq(t, a, b) \in Seq(E) /\ Len(SubSeq(t, a, b)) = b - a + 1
          /\ \A i \in 1 .. b - a + 1 : SubSeq(t, a, b)[i] = t[a + i - 1]
      BY ONLY <1>1, <2>2, SubSeqOf
    <2>4. s = SubSeq(t, a, b)
      BY <2>1
    <2> HIDE DEF s
    <2> QED
      BY <2>2, <2>3, <2>4
  <1> HIDE DEF s
  <1>3. \A i \in 1 .. Len(t) - k : s[i] \in F
    <2> SUFFICES ASSUME NEW i \in 1 .. Len(t) - k PROVE s[i] \in F
      OBVIOUS
    <2>1. k + i \in 1 .. Len(t) /\ k + i > k /\ s[i] = t[k + i]
      BY <1>1, <1>2
    <2> QED
      BY <2>1
  <1>4. s \in Seq(F)
    BY <1>1, <1>2, <1>3
  <1>5. ASSUME NEW e \in F PROVE \E i \in 1 .. Len(s) : s[i] = e
    <2>1. PICK i \in 1 .. Len(t) : t[i] = e
      BY DEF Sorted
    <2>2. i > k
      BY <1>1, <2>1
    <2>3. i - k \in 1 .. Len(t) - k /\ k + (i - k) = i
      BY <1>1, <2>2
    <2> QED
      BY <1>2, <2>1, <2>3
  <1>6. ASSUME NEW i \in 1 .. Len(s), NEW j \in 1 .. Len(s), i < j
        PROVE  Before(s[i], s[j])
    <2>1. /\ k + i \in 1 .. Len(t) /\ k + j \in 1 .. Len(t) /\ k + i < k + j
          /\ s[i] = t[k + i] /\ s[j] = t[k + j]
      BY <1>1, <1>2, <1>6
    <2> QED
      BY <2>1 DEF Sorted
  <1>7. Sorted(s, F)
    BY <1>4, <1>5, <1>6 DEF Sorted
  <1> QED
    BY <1>2, <1>7 DEF s

\* What plan_prune takes from the events E with head h, and the head it leaves.
PrunePlan(E, h, cutoff, max, gone, ids, g) ==
    LET old == InKeyOrder({e \in E : e.ts < cutoff})
    IN  /\ gone = SubSeq(old, 1, Min({Len(old), max})) /\ gone # <<>>
        /\ ids = {gone[i].id : i \in DOMAIN gone}
        /\ g = [Reanchored(h, gone) EXCEPT !.key = 1]

\* Re-anchoring on the k-th event drops the first k.
LEMMA ChainShrinks ==
    ASSUME NEW E, NEW h, NEW n \in Nat, Chain(E, h, n), Distinct(E),
           NEW cutoff \in Nat, NEW max \in Nat \ {0}, NEW gone, NEW ids, NEW g,
           PrunePlan(E, h, cutoff, max, gone, ids, g)
    PROVE  Chain({e \in E : e.id \notin ids}, g, n) /\ g.seq = h.seq
  <1>0. PICK old : /\ old = InKeyOrder({e \in E : e.ts < cutoff})
                   /\ gone = SubSeq(old, 1, Min({Len(old), max})) /\ gone # <<>>
                   /\ ids = {gone[i].id : i \in DOMAIN gone}
                   /\ g = [Reanchored(h, gone) EXCEPT !.key = 1]
    BY DEF PrunePlan
  <1> USE <1>0
  <1>1. PICK t : Sorted(t, E) /\ Linked(t, h)
    BY DEF Chain
  <1>2. /\ h \in Heads /\ E \subseteq Event /\ t \in Seq(E) /\ Len(t) \in Nat
        /\ \A i \in 1 .. Len(t) : t[i] \in E /\ t[i] \in Event
    BY <1>1 DEF Chain, Sorted
  <1>3. PICK m \in 0 .. Len(t) : \A i \in 1 .. Len(t) : t[i].ts < cutoff <=> i <= m
    BY <1>1, <1>2, CutoffPrefix
  <1>4. old = SubSeq(t, 1, m) /\ Len(old) = m
        /\ \A i \in 1 .. m : old[i] = t[i]
    <2>1. PICK F : F = {e \in E : e.ts < cutoff}
      OBVIOUS
    <2>2. F \in SUBSET E /\ \A i \in 1 .. Len(t) : t[i] \in F <=> i <= m
      BY <1>2, <1>3, <2>1
    <2>3. Sorted(SubSeq(t, 1, m), F)
      BY <1>1, <2>2, SortedPrefix
    <2>4. F \subseteq Event
      BY <1>2, <2>1
    <2>5. InKeyOrder(F) = SubSeq(t, 1, m)
      BY ONLY <2>3, <2>4, SortedIsKeyOrder
    <2>6. old = SubSeq(t, 1, m)
      BY <2>1, <2>5
    <2>7. m \in Nat /\ m <= Len(t)
      BY <1>2
    <2>8. 1 <= m + 1 /\ m - 1 + 1 = m /\ \A i \in 1 .. m : 1 + i - 1 = i
      BY <2>7
    <2>9. Len(SubSeq(t, 1, m)) = m /\ \A i \in 1 .. m : SubSeq(t, 1, m)[i] = t[i]
      BY ONLY <1>2, <2>7, <2>8, SubSeqOf
    <2> QED
      BY ONLY <2>6, <2>9
  <1>5. PICK k : k = Min({Len(old), max})
    OBVIOUS
  <1>6. k \in Nat /\ k <= m /\ k <= Len(t) /\ m \in Nat
    <2>1. PICK T : T = {m, max}
      OBVIOUS
    <2>2. T \in SUBSET Nat /\ T # {} /\ m \in Nat /\ m <= Len(t) /\ m \in T
      BY <1>2, <2>1
    <2>3. k = Min(T)
      BY <1>4, <1>5, <2>1
    <2>4. k \in T /\ \A y \in T : k <= y
      BY ONLY <2>2, <2>3, SmallestOf
    <2> QED
      BY ONLY <1>2, <2>2, <2>4
  <1>7. /\ gone \in Seq(E) /\ Len(gone) = k
        /\ \A i \in 1 .. k : gone[i] = t[i] /\ i \in 1 .. Len(t)
    <2>1. PICK s : s = SubSeq(t, 1, m)
      OBVIOUS
    <2>2. s \in Seq(E) /\ Len(s) = m
      BY <1>2, <1>4, <1>6, <2>1
    <2>3. gone = SubSeq(s, 1, k)
      BY <1>4, <1>5, <2>1
    <2>4. 1 <= k + 1 /\ k - 1 + 1 = k /\ \A i \in 1 .. k : 1 + i - 1 = i
      BY <1>6
    <2>5. SubSeq(s, 1, k) \in Seq(E) /\ Len(SubSeq(s, 1, k)) = k
          /\ \A i \in 1 .. k : SubSeq(s, 1, k)[i] = s[i]
      BY ONLY <1>6, <2>2, <2>4, SubSeqOf
    <2>6. \A i \in 1 .. k : i \in 1 .. m /\ i \in 1 .. Len(t)
      BY <1>2, <1>6
    <2> QED
      BY ONLY <1>4, <2>1, <2>3, <2>5, <2>6
  <1>8. k \in 1 .. Len(t) /\ DOMAIN gone = 1 .. k /\ Last(gone) = t[k]
    <2>1. k # 0
      BY ONLY <1>7, gone # <<>>
    <2> QED
      BY ONLY <1>2, <1>6, <1>7, <2>1 DEF Last
  <1>9. PICK F : F = {e \in E : e.id \notin ids}
    OBVIOUS
  <1>10. ASSUME NEW i \in 1 .. Len(t) PROVE t[i] \in F <=> i > k
    <2>1. CASE i <= k
      <3>1. i \in DOMAIN gone /\ gone[i] = t[i]
        BY ONLY <1>6, <1>7, <1>8, <2>1, i \in 1 .. Len(t)
      <3>2. t[i].id \in ids
        BY <3>1
      <3> QED
        BY ONLY <1>2, <1>6, <1>9, <2>1, <3>2, i \in 1 .. Len(t)
    <2>2. CASE i > k
      <3>1. ASSUME t[i].id \in ids PROVE FALSE
        <4>1. PICK j \in DOMAIN gone : gone[j].id = t[i].id
          BY <3>1
        <4>2. j \in 1 .. Len(t) /\ j < i /\ t[j].id = t[i].id
          BY ONLY <1>2, <1>6, <1>7, <1>8, <2>2, <4>1, i \in 1 .. Len(t)
        <4>3. t[j] = t[i]
          BY <1>2, <4>2 DEF Distinct
        <4>4. Before(t[j], t[i])
          BY <1>1, <4>2 DEF Sorted
        <4> QED
          BY <1>2, <4>2, <4>3, <4>4, BeforeIsStrict
      <3> QED
        BY <1>2, <1>9, <2>2, <3>1
    <2> QED
      BY <1>6, <2>1, <2>2
  <1>11. k \in 0 .. Len(t) /\ F \in SUBSET E
    BY <1>8, <1>9
  <1>12. PICK s : s = SubSeq(t, k + 1, Len(t))
    OBVIOUS
  <1>13. /\ Sorted(s, F) /\ Len(s) = Len(t) - k
         /\ \A i \in 1 .. Len(t) - k : s[i] = t[k + i] /\ k + i \in 1 .. Len(t)
    BY ONLY <1>1, <1>10, <1>11, <1>12, SortedSuffix
  <1>14. PICK anchor, count, last :
           /\ anchor = t[k].hash /\ count = Len(t) - k
           /\ last = IF count = 0 THEN anchor ELSE h.last_hash
    OBVIOUS
  <1>15. h.count = Len(t) /\ h.seq \in Nat /\ h.last_hash \in Hash /\ h.anchor \in Hash
    BY <1>1, <1>2 DEF Linked, Heads
  <1>16. g = [[h EXCEPT !.anchor = anchor, !.count = count, !.last_hash = last]
                EXCEPT !.key = 1]
    <2>1. ~ (h.count < Len(gone)) /\ h.count - Len(gone) = count
      BY <1>2, <1>6, <1>7, <1>14, <1>15
    <2> QED
      BY <1>8, <1>14, <2>1 DEF Reanchored
  <1>17. g = [anchor |-> anchor, last_hash |-> last, seq |-> h.seq,
              count |-> count, key |-> 1]
    BY ONLY <1>2, <1>16 DEF Heads
  <1>18. /\ g.anchor = anchor /\ g.last_hash = last /\ g.seq = h.seq
         /\ g.count = count /\ g.key = 1
    BY ONLY <1>17
  <1>19. anchor \in Hash /\ count \in Nat /\ last \in Hash
    <2>1. t[k] \in Event
      BY <1>2, <1>8
    <2>2. t[k].hash \in Hash
      BY ONLY <2>1 DEF Event
    <2>3. count \in Nat
      BY ONLY <1>2, <1>6, <1>14
    <2> QED
      BY ONLY <1>14, <1>15, <2>2, <2>3
  <1>20. g \in Heads
    BY ONLY <1>15, <1>17, <1>19 DEF Heads
  <1>21. Linked(s, g)
    <2>1. ASSUME NEW i \in 1 .. Len(s) + 1
          PROVE  /\ HashBefore(s, anchor, i) = HashBefore(t, h.anchor, k + i)
                 /\ k + i \in 1 .. Len(t) + 1
      <3>1. k + i \in 1 .. Len(t) + 1 /\ k + i # 1 /\ k + i - 1 = k + (i - 1)
        BY <1>2, <1>8, <1>13
      <3>2. CASE i = 1
        BY <1>8, <1>14, <3>1, <3>2 DEF HashBefore
      <3>3. CASE i # 1
        <4>1. i - 1 \in 1 .. Len(t) - k
          BY <1>2, <1>6, <1>13, <3>3
        <4>2. s[i - 1] = t[k + (i - 1)]
          BY <1>13, <4>1
        <4>3. PICK j : j = k + i
          OBVIOUS
        <4>4. t[j - 1] = s[i - 1] /\ j # 1
          <5>1. i \in Nat /\ k \in Nat
            BY <1>2, <1>6, <1>13
          <5> QED
            BY ONLY <3>1, <4>2, <4>3, <5>1
        <4>5. HashBefore(s, anchor, i) = HashBefore(t, h.anchor, j)
          BY ONLY <3>3, <4>4 DEF HashBefore
        <4> QED
          BY ONLY <3>1, <4>3, <4>5
      <3> QED
        BY <3>1, <3>2, <3>3
    <2>2. ASSUME NEW i \in 1 .. Len(s)
          PROVE  s[i].hash = HashOf(1, HashBefore(s, anchor, i), s[i].id, s[i].ts)
      <3>1. i \in 1 .. Len(s) + 1 /\ i \in 1 .. Len(t) - k
        BY <1>2, <1>6, <1>13
      <3>2. s[i] = t[k + i] /\ k + i \in 1 .. Len(t)
        BY <1>13, <3>1
      <3>3. t[k + i].hash = HashOf(1, HashBefore(t, h.anchor, k + i),
                                   t[k + i].id, t[k + i].ts)
        BY <1>1, <3>2 DEF Linked
      <3> QED
        BY <2>1, <3>1, <3>2, <3>3
    <2>3. last = HashBefore(s, anchor, Len(s) + 1)
      <3>1. Len(s) + 1 \in 1 .. Len(s) + 1 /\ k + (Len(s) + 1) = Len(t) + 1
        BY <1>2, <1>6, <1>13
      <3>2. HashBefore(s, anchor, Len(s) + 1) = HashBefore(t, h.anchor, Len(t) + 1)
        BY <2>1, <3>1
      <3>3. HashBefore(t, h.anchor, Len(t) + 1) = h.last_hash
        BY <1>1 DEF Linked
      <3>4. CASE count = 0
        BY <1>13, <1>14, <3>4 DEF HashBefore
      <3>5. CASE count # 0
        BY <1>14, <3>2, <3>3, <3>5
      <3> QED
        BY <3>4, <3>5
    <2> QED
      BY <1>13, <1>14, <1>18, <2>2, <2>3 DEF Linked
  <1>22. \A e \in F : e.ts <= n /\ e.seq <= g.seq
    BY <1>9, <1>18 DEF Chain
  <1>23. F \subseteq Event
    BY <1>2, <1>9
  <1>24. Chain(F, g, n)
    BY <1>13, <1>18, <1>20, <1>21, <1>22, <1>23 DEF Chain
  <1> QED
    BY <1>9, <1>18, <1>24

-----------------------------------------------------------------------------
(* The linked versions.                                                    *)

LEMMA LinkedLater ==
    ASSUME NEW vs, NEW m \in Nat, NEW n \in Nat, NEW k \in Nat, NEW o \in Nat,
           m <= k, n <= o, RowsLinked(vs, m, n)
    PROVE  RowsLinked(vs, k, o)
  <1>1. ASSUME NEW E, NEW h, Chain(E, h, n) PROVE Chain(E, h, o)
    <2>1. ASSUME NEW e \in E PROVE e.ts <= o
      <3>1. e.ts \in Nat /\ e.ts <= n
        BY <1>1 DEF Chain, Event
      <3> QED
        BY <3>1
    <2> QED
      BY <1>1, <2>1 DEF Chain
  <1>2. ASSUME NEW i \in 1 .. Len(vs) PROVE LinkedRow(vs[i], o) /\ vs[i].key <= k
    <2>1. LinkedRow(vs[i], n) /\ vs[i].key <= m
      BY DEF RowsLinked
    <2>2. LinkedRow(vs[i], o)
      BY <1>1, <2>1 DEF LinkedRow
    <2>3. vs[i].key \in Nat
      BY <2>1 DEF LinkedRow
    <2> QED
      BY <2>1, <2>2, <2>3
  <1> QED
    BY <1>2 DEF RowsLinked

LEMMA LinkedWrite ==
    ASSUME NEW vs, NEW m, NEW n, NEW r, IsSequence(vs), RowsLinked(vs, m, n),
           LinkedRow(r, n), r.key <= m
    PROVE  RowsLinked(Append(vs, r), m, n)
  <1> DEFINE ws == Append(vs, r)
  <1>1. /\ Len(vs) \in Nat /\ Len(ws) = Len(vs) + 1 /\ ws[Len(vs) + 1] = r
        /\ \A i \in 1 .. Len(vs) : ws[i] = vs[i]
    BY AppendedLog
  <1> HIDE DEF ws
  <1>2. ASSUME NEW i \in 1 .. Len(ws) PROVE LinkedRow(ws[i], n) /\ ws[i].key <= m
    <2>1. CASE i = Len(vs) + 1
      BY <1>1, <2>1
    <2>2. CASE i \in 1 .. Len(vs)
      BY <1>1, <2>2 DEF RowsLinked
    <2> QED
      BY <1>1, <2>1, <2>2
  <1>3. RowsLinked(ws, m, n)
    BY <1>2 DEF RowsLinked
  <1> QED
    BY <1>3 DEF ws

LEMMA LinkedCommit ==
    ASSUME NEW vs, NEW m, NEW n, IsSequence(vs), Len(vs) > 1, RowsLinked(vs, m, n)
    PROVE  RowsLinked(Tail(vs), m, n)
  <1> DEFINE ws == Tail(vs)
  <1>1. /\ Len(vs) \in Nat /\ Len(ws) = Len(vs) - 1
        /\ \A i \in 1 .. Len(vs) - 1 : ws[i] = vs[i + 1]
    BY TailLog
  <1> HIDE DEF ws
  <1>2. ASSUME NEW i \in 1 .. Len(ws) PROVE LinkedRow(ws[i], n) /\ ws[i].key <= m
    <2>1. i + 1 \in 1 .. Len(vs) /\ ws[i] = vs[i + 1]
      BY <1>1
    <2> QED
      BY <2>1 DEF RowsLinked
  <1>3. RowsLinked(ws, m, n)
    BY <1>2 DEF RowsLinked
  <1> QED
    BY <1>3 DEF ws

\* The newest version.
LEMMA NewestLinked ==
    ASSUME IInv, LinkInv
    PROVE  /\ LinkedRow(Rows, now) /\ Rows.key <= minted /\ Rows.key \in {0, 1}
           /\ KnownKey = Rows.key /\ now \in Nat
           /\ minted \in {0, 1} /\ minted \in Nat
           /\ Rows.head # NoHead =>
                 /\ Rows.key = 1 /\ Chain(Rows.events, Rows.head, now)
           /\ Rows.head = NoHead => Rows.events = {} /\ Rows.anchored = FALSE
  <1>1. Len(versions) \in 1 .. Len(versions) /\ now \in Nat
    BY NewestRow DEF IInv, StoreInv
  <1>2. LinkedRow(Rows, now) /\ Rows.key <= minted
    BY <1>1 DEF LinkInv, RowsLinked, Rows
  <1>3. Rows.key \in {0, 1}
    BY <1>2 DEF LinkedRow
  <1>4. KnownKey = Rows.key
    BY <1>3 DEF KnownKey, LinkInv
  <1>5. \A E, n : ~ Chain(E, NoHead, n)
    BY AuditAssumption DEF Chain
  <1>6. minted \in {0, 1} /\ minted \in Nat
    <2>1. minted \in {0, 1}
      BY DEF LinkInv
    <2> QED
      BY <2>1
  <1> QED
    BY <1>1, <1>2, <1>3, <1>4, <1>5, <1>6 DEF LinkedRow

\* An empty log is a chain from any anchor.
LEMMA EmptyChain ==
    ASSUME NEW h \in Heads, h.key = 1, h.count = 0, h.last_hash = h.anchor, NEW n
    PROVE  Chain({}, h, n)
  <1>1. Sorted(<<>>, {}) /\ Len(<<>>) = 0
    BY DEF Sorted
  <1>2. Linked(<<>>, h)
    <2>1. HashBefore(<<>>, h.anchor, 1) = h.anchor
      BY DEF HashBefore
    <2>2. Len(<<>>) + 1 = 1
      OBVIOUS
    <2> QED
      BY <2>1, <2>2 DEF Linked
  <1> QED
    BY <1>1, <1>2 DEF Chain

LEMMA NothingCounted ==
    ASSUME NEW E, NEW h, NEW n, Chain(E, h, n)
    PROVE  h.count \in Nat /\ (h.count = 0 => E = {})
  <1>1. PICK t : Sorted(t, E) /\ Linked(t, h)
    BY DEF Chain
  <1>2. Len(t) = h.count /\ Len(t) \in Nat
    BY <1>1 DEF Linked, Sorted
  <1> QED
    BY <1>1, <1>2 DEF Sorted

\* Unless the WAL is fenced, whoever has the chain lock chains behind the end of
\* the newest version.
LEMMA HeadEndsChain ==
    ASSUME IInv, LinkInv, ~fenced, lock # "prune", Rows.key = 1
    PROVE  /\ Chain(Rows.events, HeadFor(1), now)
           /\ Rows.head # NoHead => HeadFor(1) = Rows.head
  <1>1. CASE Rows.head # NoHead
    <2>1. Chain(Rows.events, Rows.head, now) /\ Rows.head.key = 1
      BY <1>1, NewestLinked DEF Chain
    <2>2. HeadFor(1) = Rows.head
      BY <1>1, <2>1 DEF HeadFor, LoadOrInit, IInv, CacheInv
    <2> QED
      BY <2>1, <2>2
  <1>2. CASE Rows.head = NoHead
    <2>1. Rows.events = {}
      BY <1>2, NewestLinked
    <2>2. InKeyOrder({}) = <<>>
      <3>1. Sorted(<<>>, {}) /\ {} \subseteq Event
        BY DEF Sorted
      <3> QED
        BY ONLY <3>1, SortedIsKeyOrder
    <2>3. cached = NoHead
      BY <1>2 DEF IInv, CacheInv
    <2>4. PICK z : z = Len(InKeyOrder(Rows.events))
      OBVIOUS
    <2>5. z = 0
      BY <2>1, <2>2, <2>4
    <2>6. HeadFor(1) = [Refused EXCEPT !.last_hash = Genesis, !.seq = z,
                                       !.count = z, !.key = 1]
      BY <1>2, <2>1, <2>2, <2>3, <2>4 DEF HeadFor, LoadOrInit
    <2>7. HeadFor(1) = [anchor |-> Genesis, last_hash |-> Genesis, seq |-> 0,
                        count |-> 0, key |-> 1]
      BY ONLY <2>5, <2>6 DEF Refused
    <2>8. Genesis \in Hash
      BY DEF Genesis, Hash
    <2>9. /\ HeadFor(1) \in Heads /\ HeadFor(1).key = 1 /\ HeadFor(1).count = 0
          /\ HeadFor(1).last_hash = HeadFor(1).anchor
      BY ONLY <2>7, <2>8 DEF Heads
    <2> QED
      BY <1>2, <2>1, <2>9, EmptyChain
  <1> QED
    BY <1>1, <1>2

LEMMA MaxIs ==
    ASSUME NEW S \in SUBSET Nat, NEW m \in S, \A y \in S : y <= m
    PROVE  Max(S) = m
  <1>1. m \in S /\ \A y \in S : m >= y
    OBVIOUS
  <1>2. PICK x : x = Max(S)
    OBVIOUS
  <1>3. x \in S /\ \A y \in S : x >= y
    BY <1>1, <1>2 DEF Max
  <1>4. x \in Nat /\ m \in Nat /\ x >= m /\ x <= m
    BY <1>1, <1>3
  <1> QED
    BY ONLY <1>2, <1>4

-----------------------------------------------------------------------------
(* What a step does to the chain's invariant: to the keys, to the times.   *)

\* The newest version loses neither its key nor its head.
Ahead(v, r) ==
    /\ v.key = 1 => r.key = 1
    /\ v.head # NoHead => r.head # NoHead

LEMMA KeyedAhead ==
    ASSUME NEW v, NEW r, Ahead(v, r), NEW p
    PROVE  /\ AppKeyed(p, v) => AppKeyed(p, r)
           /\ ImpKeyed(p, v) => ImpKeyed(p, r)
  BY DEF Ahead, AppKeyed, ImpKeyed

LEMMA LinkStep ==
    ASSUME IInv, LinkInv, minted' \in {0, 1}, RowsLinked(versions', minted', now'),
           Ahead(Rows, Rows'), key_cache' \in {key_cache, Rows.key},
           \A a \in Appenders : app'[a] = app[a] \/ AppKeyed(app'[a], Rows'),
           imp' = imp \/ ImpKeyed(imp', Rows'),
           TimesOK(imp', Rows', now')
    PROVE  LinkInv'
  <1>1. Rows.key \in {0, 1}
    BY NewestLinked
  <1>2. key_cache' \in {0, 1} /\ (key_cache' = 1 => Rows'.key = 1)
    BY <1>1 DEF LinkInv, Ahead
  <1>3. ASSUME NEW a \in Appenders PROVE AppKeyed(app'[a], Rows')
    <2>1. CASE app'[a] = app[a]
      <3>1. AppKeyed(app[a], Rows)
        BY DEF LinkInv
      <3> QED
        BY <2>1, <3>1, KeyedAhead
    <2> QED
      BY <2>1
  <1>4. ImpKeyed(imp', Rows')
    <2>1. ImpKeyed(imp, Rows)
      BY DEF LinkInv
    <2> QED
      BY <2>1, KeyedAhead
  <1> QED
    BY <1>2, <1>3, <1>4 DEF LinkInv

LEMMA ArchivedTime ==
    ASSUME NEW s \in Archives, NEW i \in 1 .. Len(s)
    PROVE  s[i].ts \in Nat /\ s[i].id \in Nat /\ Len(s) \in Nat
  <1>1. PICK R : R = [id : Nat, ts : Nat]
    OBVIOUS
  <1>2. s \in Seq(R)
    BY <1>1, AuditAssumption
  <1>3. s[i] \in R /\ Len(s) \in Nat
    BY ONLY <1>2, i \in 1 .. Len(s)
  <1> QED
    BY <1>1, <1>3

\* Time passes, and rows change neither head nor events.
LEMMA TimesStay ==
    ASSUME NEW p, NEW v, NEW n \in Nat, NEW r, NEW o \in Nat, n <= o,
           r.head = v.head, r.events = v.events, TimesOK(p, v, n),
           p.at \in {"chunk", "await"} => p.archive \in Archives
    PROVE  TimesOK(p, r, o)
  <1> SUFFICES ASSUME p.at \in {"chunk", "await"} PROVE TimesOK(p, r, o)
    BY DEF TimesOK
  <1>1. InOrder(p.archive, n) => InOrder(p.archive, o)
    <2> SUFFICES ASSUME InOrder(p.archive, n) PROVE InOrder(p.archive, o)
      OBVIOUS
    <2>1. ASSUME NEW i \in 1 .. Len(p.archive) PROVE p.archive[i].ts <= o
      <3>1. PICK s : s = p.archive
        OBVIOUS
      <3>2. s \in Archives /\ i \in 1 .. Len(s)
        BY <3>1
      <3>3. s[i].ts \in Nat
        BY <3>2, ArchivedTime
      <3>4. s[i].ts <= n
        BY <3>1 DEF InOrder
      <3>5. s[i].ts <= o
        BY <3>3, <3>4
      <3> QED
        BY <3>1, <3>5
    <2> QED
      BY <2>1 DEF InOrder
  <1>2. p.stamp \in Nat /\ p.stamp <= n
    BY DEF TimesOK
  <1>3. p.stamp <= o
    BY <1>2
  <1> QED
    BY <1>1, <1>2, <1>3 DEF TimesOK

\* Another operation chains behind the newest version.
LEMMA TimesPass ==
    ASSUME NEW p, NEW v, NEW n, NEW r, TimesOK(p, v, n),
           r.head # NoHead, r.head.seq \in Nat,
           v.head # NoHead => v.head.seq \in Nat /\ v.head.seq < r.head.seq
    PROVE  TimesOK(p, r, n)
  <1> SUFFICES ASSUME p.at \in {"chunk", "await"} PROVE TimesOK(p, r, n)
    BY DEF TimesOK
  <1>1. EndSeq(p) \in Nat
    BY DEF TimesOK, EndSeq
  <1>2. EndSeq(p) # 0 => EndSeq(p) <= r.head.seq /\ EndSeq(p) # r.head.seq
    <2> SUFFICES ASSUME EndSeq(p) # 0
                 PROVE  EndSeq(p) <= r.head.seq /\ EndSeq(p) # r.head.seq
      OBVIOUS
    <2>1. v.head # NoHead /\ EndSeq(p) <= v.head.seq
      BY DEF TimesOK
    <2> QED
      BY <1>1, <2>1
  <1> QED
    BY <1>2 DEF TimesOK

\* A prune keeps the sequence number and adds no event.
LEMMA TimesPrune ==
    ASSUME NEW p, NEW v, NEW n, NEW r, TimesOK(p, v, n), r.head # NoHead,
           v.head # NoHead => r.head.seq = v.head.seq, r.events \subseteq v.events
    PROVE  TimesOK(p, r, n)
  <1>1. InTime(p, v.events) => InTime(p, r.events)
    BY DEF InTime
  <1> QED
    BY <1>1 DEF TimesOK

\* A step that leaves the log alone.
LEMMA NoWrite ==
    ASSUME IInv, LinkInv, versions' = versions, now' \in Nat, now <= now',
           minted' = minted
    PROVE  /\ RowsLinked(versions', minted', now') /\ Ahead(Rows, Rows')
           /\ Rows' = Rows /\ minted' \in {0, 1}
           /\ imp' = imp => TimesOK(imp', Rows', now')
  <1>1. now \in Nat /\ minted \in Nat /\ minted \in {0, 1}
    BY NewestLinked
  <1>2. RowsLinked(versions, minted, now)
    BY DEF LinkInv
  <1>3. RowsLinked(versions', minted', now')
    BY <1>1, <1>2, LinkedLater
  <1>4. Rows' = Rows
    BY DEF Rows
  <1>5. imp.at \in {"chunk", "await"} => imp.archive \in Archives
    BY DEF IInv, ImpInv, ImpOK
  <1>6. imp' = imp => TimesOK(imp', Rows', now')
    BY <1>1, <1>4, <1>5, TimesStay DEF LinkInv
  <1> QED
    BY <1>1, <1>3, <1>4, <1>6 DEF Ahead

\* A step that writes one row.
LEMMA OneWrite ==
    ASSUME IInv, LinkInv, NEW r, versions' = Append(versions, r),
           LinkedRow(r, now), r.key <= minted', now' = now,
           minted' \in {0, 1}, minted <= minted'
    PROVE  RowsLinked(versions', minted', now') /\ Rows' = r
  <1>1. now \in Nat /\ minted \in Nat /\ minted' \in Nat
    BY NewestLinked
  <1>2. RowsLinked(versions, minted', now)
    <2>1. now <= now
      BY <1>1
    <2> QED
      BY <1>1, <2>1, LinkedLater DEF LinkInv
  <1>3. RowsLinked(versions', minted', now')
    BY <1>2, NewestRow, LinkedWrite
  <1>4. Rows' = r
    BY NewestRow, AppendedLog DEF Rows
  <1> QED
    BY <1>3, <1>4

LEMMA MintLinks ==
    ASSUME IInv, LinkInv, Mint, minted' <= 1, now' = now
    PROVE  /\ RowsLinked(versions', minted', now') /\ Ahead(Rows, Rows')
           /\ minted' = 1 /\ Rows'.key = 1
           /\ imp.at \notin {"chunk", "await"}
  <1>1. minted = 0 /\ minted' = 1
    BY DEF LinkInv, Mint
  <1>2. PICK v, r : v = Rows /\ r = [v EXCEPT !.key = 1]
    OBVIOUS
  <1>3. versions' = Append(versions, r)
    BY <1>1, <1>2 DEF Mint, Write
  <1>4. Rows.key = 0 /\ Rows.head = NoHead /\ Rows.events = {} /\ Rows.anchored = FALSE
    <2>1. Rows.key <= 0 /\ Rows.key \in {0, 1}
      BY <1>1, NewestLinked
    <2>2. Rows.key = 0
      BY <2>1
    <2>3. Rows.head # NoHead => Rows.key = 1
      BY NewestLinked
    <2>4. Rows.head = NoHead
      BY <2>2, <2>3
    <2> QED
      BY <2>2, <2>4, NewestLinked
  <1>5. IsRow(v, appends)
    BY <1>2, NewestRow
  <1>6. r = [key |-> 1, head |-> v.head, events |-> v.events,
             anchored |-> v.anchored, pruned |-> v.pruned]
    BY <1>2, <1>5 DEF IsRow
  <1>7. r.key = 1 /\ r.head = v.head /\ r.events = v.events /\ r.anchored = v.anchored
    BY ONLY <1>6
  <1>8. LinkedRow(r, now) /\ r.key <= 1
    BY <1>2, <1>4, <1>7 DEF LinkedRow
  <1>9. RowsLinked(versions', minted', now') /\ Rows' = r
    BY <1>1, <1>3, <1>8, OneWrite
  <1>10. imp.at \notin {"chunk", "await"}
    BY <1>4 DEF LinkInv, ImpKeyed
  <1> QED
    BY <1>1, <1>2, <1>7, <1>9, <1>10 DEF Ahead

LEMMA AnchorLinks ==
    ASSUME IInv, LinkInv, RecordAnchor, Rows.head # NoHead, now' = now,
           minted' = minted
    PROVE  /\ RowsLinked(versions', minted', now') /\ Ahead(Rows, Rows')
           /\ Rows'.head = Rows.head /\ Rows'.events = Rows.events
           /\ minted' \in {0, 1}
  <1>1. now \in Nat /\ minted' \in {0, 1}
    BY NewestLinked DEF LinkInv
  <1>2. CASE versions' = versions
    <2>1. now' \in Nat /\ now <= now'
      BY <1>1
    <2> QED
      BY <1>1, <1>2, <2>1, NoWrite
  <1>3. CASE versions' # versions
    <2>1. PICK v, r : v = Rows /\ r = [v EXCEPT !.anchored = TRUE]
      OBVIOUS
    <2>2. versions' = Append(versions, r)
      BY <1>3, <2>1 DEF RecordAnchor, Write
    <2>3. IsRow(v, appends)
      BY <2>1, NewestRow
    <2>4. r = [key |-> v.key, head |-> v.head, events |-> v.events,
               anchored |-> TRUE, pruned |-> v.pruned]
      BY <2>1, <2>3 DEF IsRow
    <2>5. r.key = v.key /\ r.head = v.head /\ r.events = v.events
      BY ONLY <2>4
    <2>6. LinkedRow(r, now) /\ r.key <= minted'
      BY <2>1, <2>5, NewestLinked DEF LinkedRow
    <2>7. minted <= minted'
      BY <1>1
    <2>8. RowsLinked(versions', minted', now') /\ Rows' = r
      BY <1>1, <2>2, <2>6, <2>7, OneWrite
    <2> QED
      BY <1>1, <2>1, <2>5, <2>8 DEF Ahead
  <1> QED
    BY <1>2, <1>3

-----------------------------------------------------------------------------
(* One lemma per action, again.                                            *)

\* A step of one appender that leaves the log alone.
LEMMA AppendLockLinks ==
    ASSUME IInv, LinkInv, NEW a \in Appenders, AppendLock(a)
    PROVE  LinkInv'
  <1>1. /\ UNCHANGED <<versions, now, imp, minted>> /\ key_cache' = KnownKey
    BY DEF AppendLock, storeVars, histVars
  <1>2. now' \in Nat /\ now <= now' /\ key_cache' = Rows.key
    BY <1>1, NewestLinked
  <1>3. PICK q : q = [at |-> KeyStep("chain"), key |-> KnownKey,
                      id |-> appends + 1, no |-> 0]
    OBVIOUS
  <1>4. app' = [app EXCEPT ![a] = q]
    BY <1>3 DEF AppendLock
  <1>5. q.at = KeyStep("chain") /\ q.key = Rows.key
    BY <1>3, NewestLinked
  <1>6. AppKeyed(q, Rows)
    BY <1>5, NewestLinked DEF AppKeyed, KeyStep
  <1>7. \A b \in Appenders : app'[b] = app[b] \/ app'[b] = q
    BY <1>4 DEF IInv, AppInv
  <1> QED
    BY <1>1, <1>2, <1>6, <1>7, NoWrite, LinkStep

LEMMA AppendMintLinks ==
    ASSUME IInv, LinkInv, minted' <= 1, NEW a \in Appenders, AppendMint(a)
    PROVE  LinkInv'
  <1>1. UNCHANGED <<now, imp, key_cache>> /\ Mint
    BY DEF AppendMint, chainVars
  <1>2. /\ RowsLinked(versions', minted', now') /\ Ahead(Rows, Rows')
        /\ minted' = 1 /\ Rows'.key = 1 /\ imp.at \notin {"chunk", "await"}
    BY <1>1, MintLinks
  <1>3. PICK p, q, no : /\ p = app[a] /\ no = RowsNo + 1
             /\ q = [p EXCEPT !.at = "minting", !.key = 1, !.no = no]
    OBVIOUS
  <1>4. app' = [app EXCEPT ![a] = q]
    BY <1>2, <1>3 DEF AppendMint
  <1>5. AppOK(versions, durableNo, appends, p)
    BY <1>3 DEF IInv, AppInv
  <1>6. q = [at |-> "minting", key |-> 1, id |-> p.id, no |-> no]
    BY <1>3, <1>5 DEF AppOK
  <1>7. q.at = "minting" /\ q.key = 1
    BY ONLY <1>6
  <1>8. AppKeyed(q, Rows')
    BY <1>2, <1>7 DEF AppKeyed
  <1>9. \A b \in Appenders : app'[b] = app[b] \/ app'[b] = q
    BY <1>4 DEF IInv, AppInv
  <1>10. TimesOK(imp', Rows', now')
    BY <1>1, <1>2 DEF TimesOK
  <1> QED
    BY <1>1, <1>2, <1>8, <1>9, <1>10, LinkStep

LEMMA AppendMintedLinks ==
    ASSUME IInv, LinkInv, NEW a \in Appenders, AppendMinted(a)
    PROVE  LinkInv'
  <1>1. /\ UNCHANGED <<versions, now, imp, minted>> /\ key_cache' = app[a].key
        /\ app[a].at = "minting"
    BY DEF AppendMinted, storeVars, histVars
  <1>2. app[a].key = 1 /\ Rows.key = 1
    BY <1>1 DEF LinkInv, AppKeyed
  <1>3. now' \in Nat /\ now <= now' /\ key_cache' = Rows.key
    BY <1>1, <1>2, NewestLinked
  <1>4. PICK p, q : /\ p = app[a] /\ q = [p EXCEPT !.at = "chain"]
    OBVIOUS
  <1>5. app' = [app EXCEPT ![a] = q]
    BY <1>4 DEF AppendMinted
  <1>6. AppOK(versions, durableNo, appends, p)
    BY <1>4 DEF IInv, AppInv
  <1>7. q = [at |-> "chain", key |-> p.key, id |-> p.id, no |-> p.no]
    BY <1>4, <1>6 DEF AppOK
  <1>8. q.at = "chain" /\ q.key = p.key
    BY ONLY <1>7
  <1>9. AppKeyed(q, Rows)
    BY <1>2, <1>4, <1>8 DEF AppKeyed
  <1>10. \A b \in Appenders : app'[b] = app[b] \/ app'[b] = q
    BY <1>5 DEF IInv, AppInv
  <1> QED
    BY <1>1, <1>3, <1>9, <1>10, NoWrite, LinkStep

\* An append is over.
LEMMA AppendEndsLinks ==
    ASSUME IInv, LinkInv, NEW a \in Appenders,
           AppendRefused(a) \/ AppendDurable(a) \/ AppendFailed(a)
    PROVE  LinkInv'
  <1>1. /\ UNCHANGED <<now, imp, minted, key_cache>>
        /\ app' = [app EXCEPT ![a] = IdleApp]
        /\ versions' = versions \/ (app[a].at = "await" /\ RecordAnchor)
    BY DEF AppendRefused, AppendDurable, AppendFailed, storeVars, histVars, chainVars
  <1>2. now' \in Nat /\ now <= now'
    BY <1>1, NewestLinked
  <1>3. \A v : AppKeyed(IdleApp, v)
    BY DEF AppKeyed, IdleApp
  <1>4. \A b \in Appenders : app'[b] = app[b] \/ app'[b] = IdleApp
    BY <1>1 DEF IInv, AppInv
  <1>5. CASE versions' = versions
    BY <1>1, <1>2, <1>3, <1>4, <1>5, NoWrite, LinkStep
  <1>6. CASE app[a].at = "await" /\ RecordAnchor
    <2>1. Rows.head # NoHead
      BY <1>6 DEF LinkInv, AppKeyed
    <2>2. /\ RowsLinked(versions', minted', now') /\ Ahead(Rows, Rows')
          /\ Rows'.head = Rows.head /\ Rows'.events = Rows.events
          /\ minted' \in {0, 1}
      BY <1>1, <1>6, <2>1, AnchorLinks
    <2>3. TimesOK(imp', Rows', now')
      <3>1. imp.at \in {"chunk", "await"} => imp.archive \in Archives
        BY DEF IInv, ImpInv, ImpOK
      <3>2. now \in Nat /\ TimesOK(imp, Rows, now)
        BY NewestLinked DEF LinkInv
      <3> QED
        BY <1>1, <1>2, <2>2, <3>1, <3>2, TimesStay
    <2> QED
      BY <1>1, <1>3, <1>4, <2>2, <2>3, LinkStep
  <1> QED
    BY <1>1, <1>5, <1>6

LEMMA AppendChainLinks ==
    ASSUME IInv, LinkInv, NEW a \in Appenders, AppendChain(a)
    PROVE  LinkInv'
  <1>1. /\ UNCHANGED <<now, imp, minted, key_cache>>
        /\ app[a].at = "chain" /\ ~fenced
    BY DEF AppendChain, histVars
  <1>2. app[a].key = 1 /\ Rows.key = 1
    BY <1>1 DEF LinkInv, AppKeyed
  <1>3. lock # "prune"
    <2>1. lock = a
      BY <1>1 DEF IInv, LockInv, Holding
    <2> QED
      BY <2>1, AuditAssumption
  <1>4. PICK v, p, h, c, e, g, new, r :
          /\ v = Rows /\ p = app[a] /\ h = HeadFor(1)
          /\ c = Chained(h, 1, p.id, now) /\ e = c.event /\ g = c.head
          /\ new = {e} /\ Grows(v, new, g, r)
    BY DEF Grows
  <1>5. versions' = Append(versions, r)
    BY <1>2, <1>4 DEF AppendChain, Write, Grows
  <1>6. PICK q : q = [p EXCEPT !.at = "await", !.no = RowsNo + 1]
    OBVIOUS
  <1>7. app' = [app EXCEPT ![a] = q]
    BY <1>4, <1>6 DEF AppendChain
  <1>8. /\ Chain(v.events, h, now) /\ (v.head # NoHead => h = v.head)
        /\ now \in Nat /\ h \in Heads
    BY <1>1, <1>2, <1>3, <1>4, HeadEndsChain, NewestLinked DEF Chain
  <1>9. /\ AppOK(versions, durableNo, appends, p) /\ p.id \in Nat
    <2>1. AppOK(versions, durableNo, appends, p)
      BY <1>4 DEF IInv, AppInv
    <2>2. p.id \in 1 .. appends
      BY <1>1, <1>4, <2>1 DEF AppOK
    <2> QED
      BY <2>1, <2>2
  <1>10. Chain(v.events \union new, g, now)
    <2>1. \A d \in v.events : d.ts <= now
      BY <1>8 DEF Chain
    <2>2. now <= now
      BY <1>8
    <2> QED
      BY <1>4, <1>8, <1>9, <2>1, <2>2, ChainGrows
  <1>11. g \in Heads /\ g.seq = h.seq + 1
    BY <1>4, <1>8, <1>9, ChainedFields
  <1>12. IsRow(v, appends)
    BY <1>4, NewestRow
  <1>13. r = [key |-> v.key, head |-> g, events |-> v.events \union new,
              anchored |-> v.anchored, pruned |-> v.pruned]
    <2>1. Grows(v, new, g, r)
      BY <1>4
    <2> QED
      BY ONLY <1>12, <2>1 DEF IsRow, Grows
  <1>14. r.key = v.key /\ r.head = g /\ r.events = v.events \union new
    BY ONLY <1>13
  <1>15. v.key = 1 /\ v.key <= minted
    BY <1>2, <1>4, NewestLinked
  <1>16. LinkedRow(r, now) /\ r.key <= minted'
    BY <1>1, <1>10, <1>14, <1>15 DEF LinkedRow
  <1>17. minted' \in {0, 1} /\ minted <= minted'
    BY <1>1, NewestLinked
  <1>18. RowsLinked(versions', minted', now') /\ Rows' = r
    BY <1>1, <1>5, <1>16, <1>17, OneWrite
  <1>19. g # NoHead
    BY <1>11, AuditAssumption
  <1>20. Ahead(Rows, Rows')
    BY <1>14, <1>15, <1>18, <1>19 DEF Ahead
  <1>21. TimesOK(imp', Rows', now')
    <2>1. h.seq \in Nat /\ g.seq \in Nat /\ h.seq < g.seq
      <3>1. h.seq \in Nat
        BY <1>8 DEF Heads
      <3> QED
        BY <1>11, <3>1
    <2>2. TimesOK(imp, v, now)
      BY <1>4 DEF LinkInv
    <2>3. v.head # NoHead => v.head.seq \in Nat /\ v.head.seq < r.head.seq
      BY <1>8, <1>14, <2>1
    <2> QED
      BY <1>1, <1>14, <1>18, <1>19, <2>1, <2>2, <2>3, TimesPass
  <1>22. AppKeyed(q, Rows')
    <2>1. q = [at |-> "await", key |-> p.key, id |-> p.id, no |-> RowsNo + 1]
      BY <1>6, <1>9 DEF AppOK
    <2>2. q.at = "await"
      BY ONLY <2>1
    <2> QED
      BY <1>14, <1>18, <1>19, <2>2 DEF AppKeyed
  <1>23. \A b \in Appenders : app'[b] = app[b] \/ app'[b] = q
    BY <1>7 DEF IInv, AppInv
  <1> QED
    BY <1>1, <1>17, <1>18, <1>20, <1>21, <1>22, <1>23, LinkStep

LEMMA PruneWriteLinks ==
    ASSUME IInv, LinkInv, NEW cutoff \in Nat, NEW max \in Nat \ {0},
           PruneWrite(cutoff, max)
    PROVE  LinkInv'
  <1>1. /\ UNCHANGED <<now, imp, app, minted>> /\ key_cache' = KnownKey
        /\ lock = "free" /\ ~fenced
    BY DEF PruneWrite, histVars
  <1>2. PICK v, old, gone, ids, h, g, r :
          /\ v = Rows
          /\ old = InKeyOrder({e \in v.events : e.ts < cutoff})
          /\ gone = SubSeq(old, 1, Min({Len(old), max}))
          /\ ids = {gone[i].id : i \in DOMAIN gone}
          /\ h = HeadFor(KnownKey)
          /\ g = [Reanchored(h, gone) EXCEPT !.key = KnownKey]
          /\ Prunes(v, ids, g, r)
    BY DEF Prunes
  <1>3. versions' = Append(versions, r) /\ gone # <<>>
    BY <1>2 DEF PruneWrite, Write, Prunes
  <1>4. IsRow(v, appends)
    BY <1>2, NewestRow
  <1>5. v.events # {}
    <2> SUFFICES ASSUME v.events = {} PROVE FALSE
      OBVIOUS
    <2>1. Sorted(<<>>, {}) /\ {} \subseteq Event
      BY DEF Sorted
    <2>2. {e \in v.events : e.ts < cutoff} = {}
      OBVIOUS
    <2>3. old = <<>>
      <3>1. InKeyOrder({}) = <<>>
        BY ONLY <2>1, SortedIsKeyOrder
      <3> QED
        BY <1>2, <2>2, <3>1
    <2>4. PICK T, m : T = {Len(old), max} /\ m = Min(T)
      OBVIOUS
    <2>5. T \in SUBSET Nat /\ T # {} /\ 0 \in T
      BY <2>3, <2>4
    <2>6. m \in Nat /\ m <= 0
      BY <2>4, <2>5, SmallestOf
    <2>7. gone = SubSeq(<<>>, 1, m) /\ m = 0
      <3>1. gone = SubSeq(old, 1, m)
        BY <1>2, <2>4
      <3>2. m = 0
        BY ONLY <2>6
      <3> QED
        BY <2>3, <3>1, <3>2
    <2>8. gone = <<>>
      BY ONLY <2>7
    <2> QED
      BY <1>3, <2>8
  <1>6. /\ v.head # NoHead /\ v.key = 1 /\ v.key <= minted /\ KnownKey = 1
        /\ now \in Nat
    BY <1>2, <1>5, NewestLinked
  <1>7. Chain(v.events, h, now) /\ h = v.head
    <2>1. lock # "prune"
      BY <1>1
    <2> QED
      BY <1>1, <1>2, <1>6, <2>1, HeadEndsChain
  <1>8. Chain({e \in v.events : e.id \notin ids}, g, now) /\ g.seq = h.seq
    <2>1. Distinct(v.events)
      BY <1>4 DEF IsRow
    <2>2. g = [Reanchored(h, gone) EXCEPT !.key = 1]
      BY <1>2, <1>6
    <2>3. /\ old = InKeyOrder({e \in v.events : e.ts < cutoff})
          /\ gone = SubSeq(old, 1, Min({Len(old), max})) /\ gone # <<>>
          /\ ids = {gone[i].id : i \in DOMAIN gone}
      BY <1>2, <1>3
    <2>4. PrunePlan(v.events, h, cutoff, max, gone, ids, g)
      BY ONLY <2>2, <2>3 DEF PrunePlan
    <2> QED
      BY <1>6, <1>7, <2>1, <2>4, ChainShrinks
  <1>9. PICK left : left = {e \in v.events : e.id \notin ids}
    OBVIOUS
  <1>10. r = [key |-> v.key, head |-> g, events |-> left,
              anchored |-> v.anchored, pruned |-> v.pruned \union ids]
    <2>1. Prunes(v, ids, g, r)
      BY <1>2
    <2> QED
      BY ONLY <1>4, <1>9, <2>1 DEF IsRow, Prunes
  <1>11. r.key = v.key /\ r.head = g /\ r.events = left
    BY ONLY <1>10
  <1>12. g # NoHead /\ left \subseteq v.events
    BY <1>8, <1>9, AuditAssumption DEF Chain
  <1>13. LinkedRow(r, now) /\ r.key <= minted'
    BY <1>1, <1>6, <1>8, <1>9, <1>11 DEF LinkedRow
  <1>14. minted' \in {0, 1} /\ minted <= minted'
    BY <1>1, NewestLinked
  <1>15. RowsLinked(versions', minted', now') /\ Rows' = r
    BY <1>1, <1>3, <1>13, <1>14, OneWrite
  <1>16. Ahead(Rows, Rows')
    BY <1>6, <1>11, <1>12, <1>15 DEF Ahead
  <1>17. TimesOK(imp', Rows', now')
    <2>1. TimesOK(imp, v, now)
      BY <1>2 DEF LinkInv
    <2> QED
      BY <1>1, <1>7, <1>8, <1>11, <1>12, <1>15, <2>1, TimesPrune
  <1>18. key_cache' = Rows.key
    BY <1>1, NewestLinked
  <1> QED
    BY <1>1, <1>14, <1>15, <1>16, <1>17, <1>18, LinkStep

\* Steps that change nothing the chain's invariant speaks of, but the clock.
LEMMA RestLinks ==
    ASSUME IInv, LinkInv, PruneDurable \/ PruneFailed \/ Fault \/ Tick
    PROVE  LinkInv'
  <1>1. /\ UNCHANGED <<versions, imp, app, minted, key_cache>>
        /\ now' = now \/ now' = now + 1
    BY DEF PruneDurable, PruneFailed, Fault, Tick, storeVars, histVars, chainVars
  <1>2. now' \in Nat /\ now <= now'
    BY <1>1, NewestLinked
  <1> QED
    BY <1>1, <1>2, NoWrite, LinkStep

LEMMA CommitLinks ==
    ASSUME IInv, LinkInv, Commit
    PROVE  LinkInv'
  <1>1. /\ UNCHANGED <<now, imp, app, minted, key_cache>>
        /\ versions' = Tail(versions) /\ Len(versions) > 1
    BY DEF Commit, histVars, chainVars
  <1>2. Rows' = Rows
    BY <1>1, StoreCommit DEF IInv, StoreInv, Rows
  <1>3. RowsLinked(versions', minted', now')
    BY <1>1, NewestRow, LinkedCommit DEF LinkInv
  <1>4. Ahead(Rows, Rows') /\ minted' \in {0, 1} /\ TimesOK(imp', Rows', now')
    BY <1>1, <1>2 DEF Ahead, LinkInv
  <1> QED
    BY <1>1, <1>3, <1>4, LinkStep

LEMMA CrashLinks ==
    ASSUME IInv, LinkInv, CrashAndRestart
    PROVE  LinkInv'
  <1>1. /\ UNCHANGED <<now, minted>> /\ key_cache' = 0
        /\ app' = [a \in Appenders |-> IdleApp] /\ imp' = IdleImport
    BY DEF CrashAndRestart, histVars
  <1>2. PICK i \in DOMAIN versions : versions' = <<versions[i]>>
    BY DEF CrashAndRestart
  <1>3. i \in 1 .. Len(versions)
    <2>1. PICK S : versions \in Seq(S)
      BY NewestRow DEF IsSequence
    <2> QED
      BY <2>1
  <1>4. PICK v : v = versions[i]
    OBVIOUS
  <1>5. Len(versions') = 1 /\ versions'[1] = v
    BY <1>2, <1>4, SingleLog
  <1>6. LinkedRow(v, now) /\ v.key <= minted /\ minted \in {0, 1}
    BY <1>3, <1>4 DEF LinkInv, RowsLinked
  <1>7. RowsLinked(versions', minted', now')
    BY <1>1, <1>5, <1>6 DEF RowsLinked
  <1>8. \A w : AppKeyed(IdleApp, w) /\ ImpKeyed(IdleImport, w)
    BY DEF AppKeyed, ImpKeyed, IdleApp, IdleImport
  <1>9. \A a \in Appenders : AppKeyed(app'[a], Rows')
    BY <1>1, <1>8
  <1>10. TimesOK(imp', Rows', now')
    BY <1>1 DEF TimesOK, IdleImport
  <1> QED
    BY <1>1, <1>6, <1>7, <1>8, <1>9, <1>10 DEF LinkInv

-----------------------------------------------------------------------------
(* The import.                                                             *)

LEMMA ImportBeginLinks ==
    ASSUME IInv, LinkInv, NEW archive \in Archives, ImportBegin(archive)
    PROVE  LinkInv'
  <1>1. UNCHANGED <<versions, now, app, minted>> /\ key_cache' = KnownKey
    BY DEF ImportBegin, storeVars, histVars
  <1>2. now' \in Nat /\ now <= now' /\ key_cache' = Rows.key
    BY <1>1, NewestLinked
  <1>3. PICK at, k : at = KeyStep("scan") /\ k = KnownKey
    OBVIOUS
  <1>4. imp' = [IdleImport EXCEPT !.at = at, !.archive = archive, !.key = k]
    BY <1>3 DEF ImportBegin
  <1>5. imp'.at = at /\ imp'.key = k /\ imp'.our_seq = 0 /\ imp'.seq = 0
    BY <1>4 DEF IdleImport
  <1>6. at \in {"mint", "scan"} /\ (at = "scan" => k = 1 /\ Rows.key = 1)
    BY <1>3, NewestLinked DEF KeyStep
  <1>7. ImpKeyed(imp', Rows)
    BY <1>5, <1>6 DEF ImpKeyed
  <1>8. TimesOK(imp', Rows, now)
    BY <1>5, <1>6 DEF TimesOK
  <1> QED
    BY <1>1, <1>2, <1>7, <1>8, NoWrite, LinkStep

LEMMA ImportMintLinks ==
    ASSUME IInv, LinkInv, minted' <= 1, ImportMint
    PROVE  LinkInv'
  <1>1. UNCHANGED <<now, app, key_cache>> /\ Mint
    BY DEF ImportMint, chainVars
  <1>2. /\ RowsLinked(versions', minted', now') /\ Ahead(Rows, Rows')
        /\ minted' = 1 /\ Rows'.key = 1
    BY <1>1, MintLinks
  <1>3. PICK p, no : p = imp /\ no = RowsNo + 1
    OBVIOUS
  <1>4. imp' = [p EXCEPT !.at = "minting", !.key = 1, !.no = no]
    BY <1>2, <1>3 DEF ImportMint
  <1>7. ImpOK(versions, durableNo, p)
    BY <1>3 DEF IInv, ImpInv
  <1>8. /\ imp'.at = "minting" /\ imp'.key = 1
        /\ imp'.our_seq = p.our_seq /\ imp'.seq = p.seq
    BY ONLY <1>4, <1>7 DEF ImpOK
  <1>5. /\ imp'.at = "minting" /\ imp'.key = 1 /\ imp'.our_seq = 0 /\ imp'.seq = 0
    BY <1>3, <1>8 DEF ImportMint, LinkInv, ImpKeyed
  <1>6. ImpKeyed(imp', Rows') /\ TimesOK(imp', Rows', now')
    BY <1>2, <1>5 DEF ImpKeyed, TimesOK
  <1> QED
    BY <1>1, <1>2, <1>6, LinkStep

LEMMA ImportMintedLinks ==
    ASSUME IInv, LinkInv, ImportMinted
    PROVE  LinkInv'
  <1>1. /\ UNCHANGED <<versions, now, app, minted>> /\ key_cache' = imp.key
        /\ imp.at = "minting"
    BY DEF ImportMinted, storeVars, histVars
  <1>2. imp.key = 1 /\ Rows.key = 1
    BY <1>1 DEF LinkInv, ImpKeyed
  <1>3. now' \in Nat /\ now <= now' /\ key_cache' = Rows.key
    BY <1>1, <1>2, NewestLinked
  <1>4. PICK p : p = imp
    OBVIOUS
  <1>5. imp' = [p EXCEPT !.at = "scan"]
    BY <1>4 DEF ImportMinted
  <1>8. ImpOK(versions, durableNo, p)
    BY <1>4 DEF IInv, ImpInv
  <1>9. /\ imp'.at = "scan" /\ imp'.key = p.key
        /\ imp'.our_seq = p.our_seq /\ imp'.seq = p.seq
    BY ONLY <1>5, <1>8 DEF ImpOK
  <1>6. imp'.at = "scan" /\ imp'.key = p.key /\ imp'.our_seq = 0 /\ imp'.seq = 0
    BY <1>1, <1>4, <1>9 DEF LinkInv, ImpKeyed
  <1>7. ImpKeyed(imp', Rows) /\ TimesOK(imp', Rows, now)
    BY <1>2, <1>4, <1>6 DEF ImpKeyed, TimesOK
  <1> QED
    BY <1>1, <1>3, <1>7, NoWrite, LinkStep

LEMMA ImportEndsLinks ==
    ASSUME IInv, LinkInv, ImportDone \/ ImportFailed
    PROVE  LinkInv'
  <1>1. UNCHANGED <<versions, now, app, minted, key_cache>> /\ imp' = IdleImport
    BY DEF ImportDone, ImportFailed, storeVars, histVars, chainVars
  <1>2. now' \in Nat /\ now <= now'
    BY <1>1, NewestLinked
  <1>3. ImpKeyed(imp', Rows) /\ TimesOK(imp', Rows, now)
    BY <1>1 DEF ImpKeyed, TimesOK, IdleImport
  <1> QED
    BY <1>1, <1>2, <1>3, NoWrite, LinkStep

\* Neighbours in order are in order: by the first out of it.
LEMMA NeighboursInOrder ==
    ASSUME NEW s \in Archives, NEW n \in Nat,
           ~ \E i \in 1 .. Len(s) - 1 : s[i].ts > s[i + 1].ts,
           ~ \E i \in DOMAIN s : s[i].ts > n
    PROVE  InOrder(s, n)
  <1>1. /\ Len(s) \in Nat
        /\ \A i \in 1 .. Len(s) : s[i].ts \in Nat /\ i \in DOMAIN s
    <2>1. PICK R : s \in Seq(R)
      BY AuditAssumption
    <2>2. Len(s) \in Nat /\ \A i \in 1 .. Len(s) : i \in DOMAIN s
      BY <2>1
    <2> QED
      BY <2>2, ArchivedTime
  <1>2. ASSUME NEW i \in 1 .. Len(s) PROVE s[i].ts <= n
    BY <1>1
  <1>3. ASSUME NEW i \in 1 .. Len(s), NEW j \in 1 .. Len(s), i <= j
        PROVE  s[i].ts <= s[j].ts
    <2> DEFINE bad == {k \in i .. Len(s) : ~ (s[i].ts <= s[k].ts)}
    <2>1. ASSUME bad # {} PROVE FALSE
      <3>1. PICK m : m = Min(bad)
        OBVIOUS
      <3>2. bad \in SUBSET Nat
        BY <1>1
      <3>3. m \in bad /\ \A y \in bad : m <= y
        <4> HIDE DEF bad
        <4> QED
          BY <2>1, <3>1, <3>2, SmallestOf
      <3>4. m # i
        BY <1>1, <3>3
      <3>5. PICK l : l = m - 1
        OBVIOUS
      <3>6. /\ l \in i .. Len(s) /\ l \in 1 .. Len(s) - 1 /\ l < m /\ l + 1 = m
            /\ l \in 1 .. Len(s) /\ m \in 1 .. Len(s)
        BY <1>1, <3>3, <3>4, <3>5
      <3>7. l \notin bad
        BY <3>3, <3>6
      <3>8. s[i].ts <= s[l].ts
        BY <3>6, <3>7
      <3>9. ~ (s[l].ts > s[m].ts)
        BY <3>6
      <3>10. s[l].ts \in Nat /\ s[m].ts \in Nat /\ s[i].ts \in Nat
        BY <1>1, <3>6
      <3>11. s[i].ts <= s[m].ts
        BY ONLY <3>8, <3>9, <3>10
      <3> QED
        BY <3>3, <3>11
    <2>2. j \in i .. Len(s)
      BY <1>1, <1>3
    <2> QED
      BY <2>1, <2>2
  <1> QED
    BY <1>2, <1>3 DEF InOrder

LEMMA ImportScanLinks ==
    ASSUME IInv, LinkInv, ImportScan
    PROVE  LinkInv'
  <1>1. UNCHANGED <<versions, now, app, minted, key_cache>> /\ imp.at = "scan"
    BY DEF ImportScan, storeVars, histVars, chainVars
  <1>2. now' \in Nat /\ now <= now' /\ now \in Nat
    BY <1>1, NewestLinked
  <1>3. imp.key = 1 /\ Rows.key = 1
    BY <1>1 DEF LinkInv, ImpKeyed
  <1>4. PICK p, a, known, rs, st :
          /\ p = imp /\ a = imp.archive /\ known = HeldIds
          /\ rs = (\/ \E i \in 1 .. Len(a) - 1 : a[i].ts > a[i + 1].ts
                   \/ \E i \in DOMAIN a : a[i].ts > now)
          /\ st = Max({now} \union {e.ts : e \in Rows.events})
    OBVIOUS
  <1>5. imp' = [p EXCEPT !.at = "chunk", !.known = known, !.restamp = rs,
                         !.stamp = st]
    BY <1>4 DEF ImportScan
  <1>6. ImpOK(versions, durableNo, p) /\ a \in Archives
    BY <1>1, <1>4 DEF IInv, ImpInv, ImpOK
  <1>7. /\ imp'.at = "chunk" /\ imp'.key = p.key /\ imp'.archive = p.archive
        /\ imp'.restamp = rs /\ imp'.stamp = st /\ imp'.our_seq = p.our_seq
        /\ imp'.seq = p.seq
    BY ONLY <1>5, <1>6 DEF ImpOK
  <1>8. st = now
    <2>1. PICK S : S = {now} \union {e.ts : e \in Rows.events}
      OBVIOUS
    <2>2. \A e \in Rows.events : e.ts \in Nat /\ e.ts <= now
      BY NewestLinked DEF Chain, Event
    <2>3. S \in SUBSET Nat /\ now \in S /\ \A y \in S : y <= now
      BY <1>2, <2>1, <2>2
    <2> QED
      BY <1>4, <2>1, <2>3, MaxIs
  <1>9. rs \in BOOLEAN
    BY <1>4
  <1>10. ~rs => InOrder(p.archive, now)
    BY <1>2, <1>4, <1>6, NeighboursInOrder
  <1>11. p.our_seq = 0 /\ p.seq = 0
    BY <1>1, <1>4 DEF LinkInv, ImpKeyed
  <1>12. TimesOK(imp', Rows, now)
    BY <1>2, <1>7, <1>8, <1>9, <1>10, <1>11 DEF TimesOK, EndSeq
  <1>13. ImpKeyed(imp', Rows)
    BY <1>3, <1>4, <1>7 DEF ImpKeyed
  <1> QED
    BY <1>1, <1>2, <1>12, <1>13, NoWrite, LinkStep

\* The events a chunk has chained after the archive's i-th one are a chain with
\* those of the newest version, and none is later than what it chains next.
LinkAcc(acc, i) ==
    /\ acc.restamp = ChunkStart.restamp /\ acc.stamp = ChunkStart.stamp
    /\ Chain(Rows.events \union acc.events, acc.head, now)
    /\ IF acc.restamp
       THEN \A e \in Rows.events \union acc.events : e.ts <= acc.stamp
       ELSE \A e \in Rows.events \union acc.events :
                \A j \in i + 1 .. Len(imp.archive) : e.ts <= imp.archive[j].ts

\* What the chunk starts from: a chain something else was added to is restamped
\* at the present.
LEMMA StartTimes ==
    ASSUME IInv, LinkInv, imp.at = "chunk", NEW s, s = ChunkStart
    PROVE  /\ s.restamp \in BOOLEAN /\ s.stamp \in Nat /\ s.stamp <= now
           /\ ~s.restamp => ~imp.restamp /\ InOrder(imp.archive, now)
           /\ s.events = {} /\ s.head = HeadFor(imp.key)
           /\ \/ s.restamp = TRUE /\ s.stamp = now
              \/ /\ ~ Interleaved(HeadFor(imp.key))
                 /\ s.restamp = imp.restamp /\ s.stamp = imp.stamp
  <1>1. PICK p, k, h, rs, st :
          /\ p = imp /\ k = imp.known /\ h = HeadFor(imp.key)
          /\ rs = (imp.restamp \/ Interleaved(h))
          /\ st = IF Interleaved(h) THEN Max({imp.stamp, now}) ELSE imp.stamp
    OBVIOUS
  <1>2. s = [known |-> k, head |-> h, events |-> {}, restamp |-> rs, stamp |-> st]
    BY <1>1 DEF ChunkStart
  <1>3. s.head = h /\ s.events = {} /\ s.restamp = rs /\ s.stamp = st
    BY ONLY <1>2
  <1>4. /\ p.restamp \in BOOLEAN /\ p.stamp \in Nat /\ p.stamp <= now
        /\ ~p.restamp => InOrder(p.archive, now)
    BY <1>1 DEF LinkInv, TimesOK
  <1>5. now \in Nat /\ now <= now
    BY NewestLinked
  <1>6. Max({p.stamp, now}) = now
    <2>1. PICK S : S = {p.stamp, now}
      OBVIOUS
    <2>2. S \in SUBSET Nat /\ now \in S /\ \A y \in S : y <= now
      BY <1>1, <1>4, <1>5, <2>1
    <2>3. Max(S) = now
      BY ONLY <2>2, MaxIs
    <2> QED
      BY <2>1, <2>3
  <1>7. CASE Interleaved(h)
    <2>1. rs = TRUE
      BY ONLY <1>1, <1>7
    <2>2. st = now
      BY <1>1, <1>6, <1>7
    <2> QED
      BY <1>1, <1>3, <1>5, <2>1, <2>2
  <1>8. CASE ~ Interleaved(h)
    <2>1. rs = p.restamp /\ st = p.stamp
      BY <1>1, <1>4, <1>8
    <2> QED
      BY <1>1, <1>3, <1>4, <1>8, <2>1
  <1> QED
    BY <1>7, <1>8

LEMMA LinkBegins ==
    ASSUME IInv, LinkInv, imp.at = "chunk", ~fenced, lock = "free"
    PROVE  LinkAcc(ChunkStart, imp.next)
  <1>1. PICK s, h, E : s = ChunkStart /\ h = HeadFor(imp.key) /\ E = Rows.events
    OBVIOUS
  <1>2. imp.key = 1 /\ Rows.key = 1
    BY DEF LinkInv, ImpKeyed
  <1>3. Chain(E, h, now) /\ (Rows.head # NoHead => h = Rows.head)
    <2>1. lock # "prune"
      OBVIOUS
    <2> QED
      BY <1>1, <1>2, <2>1, HeadEndsChain
  <1>4. /\ s.events = {} /\ s.head = h /\ s.restamp \in BOOLEAN
        /\ \/ s.restamp = TRUE /\ s.stamp = now
           \/ ~ Interleaved(h) /\ s.restamp = imp.restamp /\ s.stamp = imp.stamp
    BY <1>1, StartTimes
  <1>5. E \union s.events = E
    BY <1>4
  <1>6. \A e \in E : e.ts <= now
    BY <1>3 DEF Chain
  <1>7. IF s.restamp THEN \A e \in E : e.ts <= s.stamp
        ELSE \A e \in E : \A j \in imp.next + 1 .. Len(imp.archive) :
                 e.ts <= imp.archive[j].ts
    <2>1. CASE s.restamp = TRUE /\ s.stamp = now
      BY <1>6, <2>1
    <2>2. CASE ~ Interleaved(h) /\ s.restamp = imp.restamp /\ s.stamp = imp.stamp
      <3>1. CASE imp.our_seq = 0
        <4>1. h.count = 0
          <5>1. h.count \in Nat /\ ~ (h.count > 0)
            BY <1>3, <2>2, <3>1, NothingCounted DEF Interleaved
          <5> QED
            BY <5>1
        <4>2. E = {}
          BY <1>3, <4>1, NothingCounted
        <4> QED
          BY <1>4, <4>2
      <3>2. CASE imp.our_seq # 0
        <4>1. h.seq = imp.our_seq
          BY <2>2, <3>2 DEF Interleaved
        <4>2. EndSeq(imp) = imp.our_seq
          BY DEF EndSeq
        <4>3. Rows.head # NoHead /\ (Rows.head.seq = imp.our_seq => InTime(imp, E))
          BY <1>1, <3>2, <4>2 DEF LinkInv, TimesOK
        <4>4. InTime(imp, E)
          BY <1>3, <4>1, <4>3
        <4> QED
          BY <2>2, <4>4 DEF InTime
      <3> QED
        BY <3>1, <3>2
    <2> QED
      BY <1>4, <2>1, <2>2
  <1>8. LinkAcc(s, imp.next)
    BY <1>1, <1>3, <1>4, <1>5, <1>7 DEF LinkAcc
  <1> QED
    BY <1>1, <1>8

LEMMA LinkSteps ==
    ASSUME IInv, LinkInv, imp.at = "chunk",
           NEW i \in Nat, i > imp.next, i <= Len(imp.archive),
           NEW acc, IsAcc(acc), LinkAcc(acc, i - 1)
    PROVE  LinkAcc(ImportOne(acc, imp.archive[i]), i)
  <1>1. PICK s, x, a : a = imp.archive /\ s = a[i] /\ x = s.id
    OBVIOUS
  <1>2. imp.key = 1 /\ a \in Archives /\ imp.next \in Nat /\ Len(a) \in Nat
    <2>1. imp.key = 1 /\ a \in Archives
      BY <1>1 DEF LinkInv, ImpKeyed, IInv, ImpInv, ImpOK
    <2>2. imp.next \in 0 .. Len(a)
      BY <1>1 DEF IInv, ImpInv, ImpOK
    <2>3. Len(a) \in Nat
      BY <2>1, AuditAssumption
    <2> QED
      BY <2>1, <2>2, <2>3
  <1>3. i \in 1 .. Len(a) /\ s.ts \in Nat /\ x \in Nat
    <2>1. i \in 1 .. Len(a)
      BY <1>1, <1>2
    <2> QED
      BY <1>1, <1>2, <2>1, ArchivedTime
  <1>4. /\ acc.restamp \in BOOLEAN /\ acc.stamp \in Nat /\ acc.stamp <= now
        /\ ~acc.restamp => InOrder(a, now)
    BY <1>1, StartTimes DEF LinkAcc
  <1>5. \A j \in i + 1 .. Len(a) : j \in (i - 1) + 1 .. Len(a) /\ j \in 1 .. Len(a) /\ i <= j
    BY <1>2, <1>3
  <1>6. CASE x \in acc.known
    <2>1. ImportOne(acc, s) = acc
      BY <1>6, <1>1 DEF ImportOne
    <2>2. LinkAcc(acc, i)
      <3>1. CASE acc.restamp
        BY <3>1 DEF LinkAcc
      <3>2. CASE ~acc.restamp
        BY <1>1, <1>5, <3>2 DEF LinkAcc
      <3> QED
        BY <3>1, <3>2
    <2> QED
      BY <1>1, <2>1, <2>2
  <1>7. CASE x \notin acc.known
    <2>1. PICK ts, c : /\ ts = IF acc.restamp THEN acc.stamp ELSE s.ts
                       /\ c = Chained(acc.head, 1, x, ts)
      OBVIOUS
    <2>2. PICK h, e, known, events, r :
              /\ h = c.head /\ e = c.event /\ known = acc.known \union {x}
              /\ events = acc.events \union {e} /\ r = ImportOne(acc, s)
      OBVIOUS
    <2>3. r = [acc EXCEPT !.known = known, !.head = h, !.events = events]
      BY <1>1, <1>2, <1>7, <2>1, <2>2 DEF ImportOne
    <2>4. r = [known |-> known, head |-> h, events |-> events,
               restamp |-> acc.restamp, stamp |-> acc.stamp]
      BY <2>3 DEF IsAcc
    <2>5. r.head = h /\ r.events = events /\ r.restamp = acc.restamp /\ r.stamp = acc.stamp
      BY ONLY <2>4
    <2>6. PICK E, F : E = Rows.events \union acc.events /\ F = Rows.events \union events
      OBVIOUS
    <2>7. F = E \union {e}
      BY <2>2, <2>6
    <2>8. Chain(E, acc.head, now) /\ now \in Nat
      BY <2>6, NewestLinked DEF LinkAcc
    <2>9. ts \in Nat /\ ts <= now /\ \A d \in E : d.ts <= ts
      <3>1. CASE acc.restamp
        BY <1>4, <2>1, <2>6, <3>1 DEF LinkAcc
      <3>2. CASE ~acc.restamp
        <4>1. i \in (i - 1) + 1 .. Len(a)
          BY <1>3
        <4>2. \A d \in E : d.ts <= a[i].ts
          BY <1>1, <2>6, <3>2, <4>1 DEF LinkAcc
        <4>3. a[i].ts <= now
          BY <1>3, <1>4, <3>2 DEF InOrder
        <4> QED
          BY <1>1, <1>3, <2>1, <3>2, <4>2, <4>3
      <3> QED
        BY <3>1, <3>2
    <2>10. Chain(F, h, now)
      BY <1>3, <2>1, <2>2, <2>7, <2>8, <2>9, ChainGrows
    <2>11. e.ts = ts
      BY <1>3, <2>1, <2>2, <2>8, <2>9, ChainedFields DEF Chain
    <2>12. IF r.restamp THEN \A d \in F : d.ts <= r.stamp
           ELSE \A d \in F : \A j \in i + 1 .. Len(a) : d.ts <= a[j].ts
      <3>1. CASE acc.restamp
        <4>1. ts = acc.stamp /\ acc.stamp <= acc.stamp
          BY <1>4, <2>1, <3>1
        <4> QED
          BY <2>5, <2>7, <2>9, <2>11, <3>1, <4>1
      <3>2. CASE ~acc.restamp
        <4>1. ASSUME NEW d \in F, NEW j \in i + 1 .. Len(a) PROVE d.ts <= a[j].ts
          <5>1. CASE d \in E
            BY <1>1, <1>5, <2>6, <3>2, <5>1 DEF LinkAcc
          <5>2. CASE d = e
            <6>1. a[i].ts <= a[j].ts
              BY <1>3, <1>4, <1>5, <3>2 DEF InOrder
            <6> QED
              BY <1>1, <2>1, <2>11, <3>2, <5>2, <6>1
          <5> QED
            BY <2>7, <5>1, <5>2
        <4> QED
          BY <2>5, <3>2, <4>1
      <3> QED
        BY <3>1, <3>2
    <2>13. r.restamp = ChunkStart.restamp /\ r.stamp = ChunkStart.stamp
      BY <2>5 DEF LinkAcc
    <2>14. LinkAcc(r, i)
      BY <1>1, <2>5, <2>6, <2>10, <2>12, <2>13 DEF LinkAcc
    <2> QED
      BY <1>1, <2>2, <2>14
  <1> QED
    BY <1>6, <1>7

\* The whole chunk, from a chain at the end of the newest version.
LEMMA ChunkLinks ==
    ASSUME IInv, LinkInv, imp.at = "chunk"
    PROVE  /\ Chunk.restamp = ChunkStart.restamp /\ Chunk.stamp = ChunkStart.stamp
           /\ ~fenced /\ lock = "free" => LinkAcc(Chunk, ChunkEnd)
  <1>1. /\ imp.next \in Nat /\ Len(imp.archive) \in Nat
        /\ imp.next <= Len(imp.archive)
    BY AuditAssumption DEF IInv, ImpInv, ImpOK
  <1>2. PICK end : end = ChunkEnd
    OBVIOUS
  <1>3. end \in Nat /\ imp.next <= end /\ end <= Len(imp.archive)
    BY <1>2, ChunkYields DEF IInv
  <1>4. PICK run : run = CHOOSE f : ChunkRun(f, end)
    OBVIOUS
  <1>5. ChunkRun(run, end)
    BY <1>1, <1>3, <1>4, ChunkRuns
  <1>6. Chunk = run[end]
    BY <1>2, <1>4 DEF Chunk, ChunkRun
  <1> DEFINE Same(acc) == /\ IsAcc(acc) /\ acc.restamp = ChunkStart.restamp
                          /\ acc.stamp = ChunkStart.stamp
  <1> DEFINE Good(n) == Same(run[n]) /\ (~fenced /\ lock = "free" => LinkAcc(run[n], n))
  <1>7. ASSUME NEW acc, NEW src, Same(acc) PROVE Same(ImportOne(acc, src))
    <2>1. CASE src.id \in acc.known
      BY <1>7, <2>1 DEF ImportOne
    <2>2. CASE src.id \notin acc.known
      <3>1. PICK k, h, e, r :
              r = [acc EXCEPT !.known = k, !.head = h, !.events = e]
              /\ r = ImportOne(acc, src)
        BY <2>2 DEF ImportOne
      <3>2. r = [known |-> k, head |-> h, events |-> e, restamp |-> acc.restamp,
                 stamp |-> acc.stamp]
        BY <1>7, <3>1 DEF IsAcc
      <3>3. IsAcc(r) /\ r.restamp = acc.restamp /\ r.stamp = acc.stamp
        BY ONLY <3>2 DEF IsAcc
      <3> QED
        BY <1>7, <3>1, <3>3
    <2> QED
      BY <2>1, <2>2
  <1>8. Good(imp.next)
    <2>1. run[imp.next] = ChunkStart
      BY <1>1, <1>3, <1>5 DEF ChunkRun
    <2>2. IsAcc(ChunkStart)
      BY <1>1, ChunkBegins DEF IInv, AccOK
    <2> QED
      BY <2>1, <2>2, LinkBegins
  <1> DEFINE bad == {n \in imp.next .. end : ~ Good(n)}
  <1>9. ASSUME bad # {} PROVE FALSE
    <2>1. PICK m : m = Min(bad)
      OBVIOUS
    <2>2. bad \in SUBSET Nat
      BY <1>1, <1>3
    <2>3. m \in bad /\ \A y \in bad : m <= y
      <3> HIDE DEF bad
      <3> QED
        BY <1>9, <2>1, <2>2, SmallestOf
    <2>4. CASE m = imp.next
      BY <1>8, <2>3, <2>4
    <2>5. CASE m # imp.next
      <3>1. /\ m \in Nat /\ m > imp.next /\ m <= Len(imp.archive)
            /\ m - 1 \in imp.next .. end /\ m \in imp.next .. end
        BY <1>1, <1>3, <2>3, <2>5
      <3>2. Good(m - 1)
        <4>1. m - 1 \notin bad
          BY <2>3, <3>1
        <4> QED
          BY <3>1, <4>1
      <3>3. run[m] = ImportOne(run[m - 1], imp.archive[m])
        BY <1>5, <2>5, <3>1 DEF ChunkRun
      <3>4. Same(run[m])
        BY <1>7, <3>2, <3>3
      <3>5. ~fenced /\ lock = "free" => LinkAcc(run[m], m)
        BY <3>1, <3>2, <3>3, LinkSteps
      <3> QED
        BY <2>3, <3>4, <3>5
    <2> QED
      BY <2>4, <2>5
  <1>10. Good(end)
    BY <1>1, <1>3, <1>9
  <1> QED
    BY <1>2, <1>6, <1>10

LEMMA ImportWriteLinks ==
    ASSUME IInv, LinkInv, ImportWrite
    PROVE  LinkInv'
  <1>1. /\ UNCHANGED <<now, app, minted, key_cache>>
        /\ imp.at = "chunk" /\ lock = "free"
    BY DEF ImportWrite, histVars
  <1>2. PICK p, v, c, s, end, k, rs, st :
          /\ p = imp /\ v = Rows /\ c = Chunk /\ s = ChunkStart /\ end = ChunkEnd
          /\ k = c.known /\ rs = c.restamp /\ st = c.stamp
    OBVIOUS
  <1>3. /\ rs \in BOOLEAN /\ st \in Nat /\ st <= now
        /\ ~rs => ~p.restamp /\ InOrder(p.archive, now)
        /\ \/ rs = TRUE /\ st = now
           \/ rs = p.restamp /\ st = p.stamp
    <2>1. rs = s.restamp /\ st = s.stamp
      BY <1>1, <1>2, ChunkLinks
    <2> QED
      BY <1>1, <1>2, <2>1, StartTimes
  <1>4. /\ end \in Nat /\ p.next <= end /\ end <= Len(p.archive)
        /\ p.next \in Nat /\ Len(p.archive) \in Nat
    <2>1. p.archive \in Archives /\ p.next \in 0 .. Len(p.archive)
      BY <1>1, <1>2 DEF IInv, ImpInv, ImpOK
    <2>2. Len(p.archive) \in Nat
      BY <2>1, AuditAssumption
    <2>3. end \in Nat /\ p.next <= end /\ end <= Len(p.archive)
      BY <1>1, <1>2, ChunkYields DEF IInv
    <2> QED
      BY <2>1, <2>2, <2>3
  <1>5. PICK step : step = [p EXCEPT !.known = k, !.restamp = rs,
                                     !.stamp = st, !.next = end]
    OBVIOUS
  <1>6. ImpOK(versions, durableNo, p) /\ p.at = "chunk"
    BY <1>1, <1>2 DEF IInv, ImpInv
  <1>7. step = [at |-> "chunk", archive |-> p.archive, key |-> p.key, known |-> k,
                next |-> end, restamp |-> rs, stamp |-> st, our_seq |-> p.our_seq,
                seq |-> p.seq, no |-> p.no]
    BY ONLY <1>5, <1>6 DEF ImpOK
  <1>8. p.key = 1 /\ v.key = 1
    BY <1>1, <1>2 DEF LinkInv, ImpKeyed
  <1>9. p.our_seq \in Nat /\ p.seq \in Nat /\ TimesOK(p, v, now)
    BY <1>1, <1>2 DEF LinkInv, TimesOK
  <1>10. now \in Nat /\ now' \in Nat /\ now <= now' /\ minted' \in {0, 1}
         /\ minted <= minted' /\ v.key <= minted'
    BY <1>1, <1>2, NewestLinked
  <1>11. CASE imp' = step /\ UNCHANGED versions
    <2>1. /\ step.at = "chunk" /\ step.archive = p.archive /\ step.key = p.key
          /\ step.next = end /\ step.restamp = rs /\ step.stamp = st
          /\ step.our_seq = p.our_seq /\ step.seq = p.seq
      BY ONLY <1>7
    <2>2. ImpKeyed(step, v)
      BY <1>8, <2>1 DEF ImpKeyed
    <2>3. EndSeq(step) = p.our_seq /\ EndSeq(p) = p.our_seq
      BY <1>6, <2>1 DEF EndSeq
    <2>4. ASSUME v.head # NoHead, InTime(p, v.events) PROVE InTime(step, v.events)
      <3>1. \A e \in v.events : e.ts <= now
        BY <1>2, <2>4, NewestLinked DEF Chain
      <3>2. CASE rs = TRUE /\ st = now
        BY <2>1, <3>1, <3>2 DEF InTime
      <3>3. CASE rs = p.restamp /\ st = p.stamp
        <4>1. \A j \in end + 1 .. Len(p.archive) : j \in p.next + 1 .. Len(p.archive)
          BY <1>4
        <4> QED
          BY <1>3, <2>1, <2>4, <3>3, <4>1 DEF InTime
      <3> QED
        BY <1>3, <3>2, <3>3
    <2>5. TimesOK(step, v, now)
      <3>1. p.our_seq # 0 =>
              /\ v.head # NoHead /\ p.our_seq <= v.head.seq
              /\ v.head.seq = p.our_seq => InTime(step, v.events)
        BY <1>6, <1>9, <2>3, <2>4 DEF TimesOK
      <3> QED
        BY <1>3, <1>9, <2>1, <2>3, <3>1 DEF TimesOK
    <2> QED
      BY <1>1, <1>2, <1>10, <1>11, <2>2, <2>5, NoWrite, LinkStep
  <1>12. CASE imp' = IdleImport /\ UNCHANGED versions
    <2>1. ImpKeyed(imp', v) /\ TimesOK(imp', v, now)
      BY <1>12 DEF ImpKeyed, TimesOK, IdleImport
    <2> QED
      BY <1>1, <1>2, <1>10, <1>12, <2>1, NoWrite, LinkStep
  <1>13. ASSUME NEW g, NEW new, NEW r, g = c.head, new = c.events, ~fenced,
                Grows(v, new, g, r), versions' = Append(versions, r),
                NEW no, NEW seq, seq = g.seq,
                imp' = [step EXCEPT !.at = "await", !.no = no, !.seq = seq]
         PROVE  LinkInv'
    <2>1. LinkAcc(c, end)
      BY <1>1, <1>2, <1>13, ChunkLinks
    <2>2. PICK F : F = v.events \union new
      OBVIOUS
    <2>3. /\ Chain(F, g, now)
          /\ IF rs THEN \A e \in F : e.ts <= st
             ELSE \A e \in F : \A j \in end + 1 .. Len(p.archive) :
                      e.ts <= p.archive[j].ts
      BY <1>2, <1>13, <2>1, <2>2 DEF LinkAcc
    <2>4. IsRow(v, appends)
      BY <1>2, NewestRow
    <2>5. r = [key |-> v.key, head |-> g, events |-> F,
               anchored |-> v.anchored, pruned |-> v.pruned]
      <3>1. Grows(v, new, g, r)
        BY <1>13
      <3> QED
        BY ONLY <2>2, <2>4, <3>1 DEF IsRow, Grows
    <2>6. r.key = v.key /\ r.head = g /\ r.events = F
      BY ONLY <2>5
    <2>7. LinkedRow(r, now) /\ r.key <= minted'
      BY <1>8, <1>10, <2>3, <2>6 DEF LinkedRow
    <2>8. RowsLinked(versions', minted', now') /\ Rows' = r
      BY <1>1, <1>10, <1>13, <2>7, OneWrite
    <2>9. g # NoHead /\ g.seq \in Nat /\ g.seq <= g.seq
      <3>1. g \in Heads
        BY <2>3 DEF Chain
      <3>2. g # NoHead /\ g.seq \in Nat
        BY <3>1, AuditAssumption DEF Heads
      <3> QED
        BY <3>2
    <2>10. Ahead(Rows, Rows')
      BY <1>8, <2>6, <2>8, <2>9 DEF Ahead
    <2>11. PICK q : q = imp'
      OBVIOUS
    <2>12. q = [step EXCEPT !.at = "await", !.no = no, !.seq = seq]
      BY <1>13, <2>11
    <2>13. q = [at |-> "await", archive |-> p.archive, key |-> p.key, known |-> k,
                next |-> end, restamp |-> rs, stamp |-> st, our_seq |-> p.our_seq,
                seq |-> seq, no |-> no]
      BY ONLY <1>7, <2>12
    <2>14. /\ q.at = "await" /\ q.archive = p.archive /\ q.key = p.key
           /\ q.next = end /\ q.restamp = rs /\ q.stamp = st
           /\ q.our_seq = p.our_seq /\ q.seq = seq
      BY ONLY <2>13
    <2>15. ImpKeyed(q, r)
      BY <1>8, <2>6, <2>9, <2>14 DEF ImpKeyed
    <2>16. InTime(q, r.events)
      BY <1>3, <2>3, <2>6, <2>14 DEF InTime
    <2>17. EndSeq(q) = g.seq
      BY <1>13, <2>14 DEF EndSeq
    <2>18. TimesOK(q, r, now)
      BY <1>3, <1>9, <1>13, <2>6, <2>9, <2>14, <2>16, <2>17 DEF TimesOK
    <2> QED
      BY <1>1, <1>10, <2>8, <2>10, <2>11, <2>15, <2>18, LinkStep
  <1>14. CASE /\ ~fenced
              /\ versions' = Append(versions, [Rows EXCEPT
                                 !.events = @ \union c.events, !.head = c.head])
              /\ imp' = [step EXCEPT !.at = "await", !.no = RowsNo + 1,
                                     !.seq = c.head.seq]
    <2>1. PICK g, new, r, no, seq :
            /\ g = c.head /\ new = c.events /\ Grows(v, new, g, r)
            /\ no = RowsNo + 1 /\ seq = g.seq
      BY DEF Grows
    <2>2. versions' = Append(versions, r)
      BY <1>2, <1>14, <2>1 DEF Grows
    <2> QED
      BY <1>13, <1>14, <2>1, <2>2
  <1>15. step = [imp EXCEPT !.known = Chunk.known, !.restamp = Chunk.restamp,
                            !.stamp = Chunk.stamp, !.next = ChunkEnd]
    BY <1>2, <1>5
  <1> QED
    BY <1>2, <1>11, <1>12, <1>14, <1>15 DEF ImportWrite, Write

LEMMA ImportDurableLinks ==
    ASSUME IInv, LinkInv, ImportDurable
    PROVE  LinkInv'
  <1>1. /\ UNCHANGED <<now, app, minted, key_cache>>
        /\ RecordAnchor /\ imp.at = "await"
    BY DEF ImportDurable, chainVars
  <1>2. Rows.head # NoHead /\ imp.key = 1 /\ Rows.key = 1
    BY <1>1 DEF LinkInv, ImpKeyed
  <1>3. /\ RowsLinked(versions', minted', now') /\ Ahead(Rows, Rows')
        /\ Rows'.head = Rows.head /\ Rows'.events = Rows.events
        /\ minted' \in {0, 1}
    BY <1>1, <1>2, AnchorLinks
  <1>4. PICK p, q : p = imp /\ q = [p EXCEPT !.at = "chunk", !.our_seq = p.seq]
    OBVIOUS
  <1>5. imp' = q /\ ImpOK(versions, durableNo, p)
    BY <1>4 DEF ImportDurable, IInv, ImpInv
  <1>6. /\ q.at = "chunk" /\ q.archive = p.archive /\ q.key = p.key
        /\ q.next = p.next /\ q.restamp = p.restamp /\ q.stamp = p.stamp
        /\ q.our_seq = p.seq /\ q.seq = p.seq
    <2>1. q = [at |-> "chunk", archive |-> p.archive, key |-> p.key,
               known |-> p.known, next |-> p.next, restamp |-> p.restamp,
               stamp |-> p.stamp, our_seq |-> p.seq, seq |-> p.seq, no |-> p.no]
      BY <1>4, <1>5 DEF ImpOK
    <2> QED
      BY ONLY <2>1
  <1>7. ImpKeyed(q, Rows')
    BY <1>2, <1>3, <1>4, <1>6 DEF ImpKeyed, Ahead
  <1>8. TimesOK(q, Rows', now')
    <2>1. TimesOK(p, Rows, now) /\ p.at = "await"
      BY <1>1, <1>4 DEF LinkInv
    <2>2. EndSeq(q) = EndSeq(p)
      BY <1>6, <2>1 DEF EndSeq
    <2>3. \A E : InTime(p, E) => InTime(q, E)
      BY <1>6 DEF InTime
    <2> QED
      BY <1>1, <1>3, <1>6, <2>1, <2>2, <2>3 DEF TimesOK
  <1> QED
    BY <1>1, <1>3, <1>5, <1>7, <1>8, LinkStep

LEMMA InitLinks ==
    ASSUME Init
    PROVE  ChainInv
  <1>1. PICK v : v = [key |-> 0, head |-> NoHead, events |-> {},
                      anchored |-> FALSE, pruned |-> {}]
    OBVIOUS
  <1>2. /\ versions = <<v>> /\ now = 0 /\ minted = 0 /\ key_cache = 0
        /\ app = [a \in Appenders |-> IdleApp] /\ imp = IdleImport
    BY <1>1 DEF Init
  <1>3. v.key = 0 /\ v.head = NoHead /\ v.events = {} /\ v.anchored = FALSE
    BY ONLY <1>1
  <1>4. Len(versions) = 1 /\ versions[1] = v
    BY <1>2, SingleLog
  <1>5. RowsLinked(versions, minted, now)
    BY <1>2, <1>3, <1>4 DEF RowsLinked, LinkedRow
  <1>6. \A w : AppKeyed(IdleApp, w) /\ ImpKeyed(IdleImport, w)
    BY DEF AppKeyed, ImpKeyed, IdleApp, IdleImport
  <1>7. TimesOK(imp, Rows, now)
    BY <1>2 DEF TimesOK, IdleImport
  <1> QED
    BY <1>2, <1>5, <1>6, <1>7 DEF LinkInv, ChainInv

-----------------------------------------------------------------------------
(* The theorems about the chain.                                           *)

\* As long as one chain key was minted, every version a crash could restore is a
\* chain from its anchor to its head, whatever the order of appends, import
\* chunks, prunes, faults and restarts.
THEOREM ChainInvariance == Spec => []ChainInv
  <1>1. Init => ChainInv
    BY InitLinks
  <1>2. IInv /\ ChainInv /\ [Next]_vars => ChainInv'
    <2> SUFFICES ASSUME IInv, ChainInv, [Next]_vars PROVE ChainInv'
      OBVIOUS
    <2>1. minted' = minted \/ minted' = minted + 1
      BY DEF Next, vars, histVars, AppendLock, AppendMint, AppendMinted,
         AppendChain, AppendRefused, AppendDurable, AppendFailed, PruneWrite,
         PruneDurable, PruneFailed, ImportBegin, ImportMint, ImportMinted,
         ImportScan, ImportWrite, ImportDurable, ImportDone, ImportFailed,
         Commit, Fault, Tick, CrashAndRestart, Mint
    <2>2. minted' \in Nat /\ (minted' <= 1 => minted <= 1)
      BY <2>1 DEF ChainInv
    <2>3. SUFFICES ASSUME minted' <= 1, LinkInv PROVE LinkInv'
      BY <2>2 DEF ChainInv
    <2>4. CASE UNCHANGED vars
      BY <2>3, <2>4 DEF vars, storeVars, chainVars, histVars, LinkInv, Rows
    <2>5. ASSUME NEW a \in Appenders,
                 \/ AppendLock(a) \/ AppendMint(a) \/ AppendMinted(a)
                 \/ AppendChain(a) \/ AppendRefused(a) \/ AppendDurable(a)
                 \/ AppendFailed(a)
          PROVE  LinkInv'
      BY <2>3, <2>5, AppendLockLinks, AppendMintLinks, AppendMintedLinks,
         AppendChainLinks, AppendEndsLinks
    <2>6. ASSUME NEW cutoff \in 1 .. MaxTime + 1, NEW max \in 1 .. PruneBatch,
                 PruneWrite(cutoff, max)
          PROVE  LinkInv'
      <3>1. max \in Nat \ {0} /\ cutoff \in Nat
        BY AuditAssumption
      <3> QED
        BY <2>3, <2>6, <3>1, PruneWriteLinks
    <2>7. ASSUME NEW archive \in Archives, ImportBegin(archive) PROVE LinkInv'
      BY <2>3, <2>7, ImportBeginLinks
    <2>8. CASE \/ PruneDurable \/ PruneFailed \/ ImportMint \/ ImportMinted
               \/ ImportScan \/ ImportWrite \/ ImportDurable \/ ImportDone
               \/ ImportFailed \/ Commit \/ Fault \/ Tick \/ CrashAndRestart
      BY <2>3, <2>8, RestLinks, ImportMintLinks, ImportMintedLinks,
         ImportScanLinks, ImportWriteLinks, ImportDurableLinks, ImportEndsLinks,
         CommitLinks, CrashLinks
    <2> QED
      BY <2>4, <2>5, <2>6, <2>7, <2>8 DEF Next
  <1> QED
    BY <1>1, <1>2, Invariance, PTL DEF Spec

\* The log verifies: the MAC, every link, the count and the end agree, for every
\* number of appends, imports, prunes, faults and crashes (verify_integrity).
THEOREM LogVerifies == Spec => []ChainVerifies
  <1>1. IInv /\ ChainInv => ChainVerifies
    <2> SUFFICES ASSUME IInv, ChainInv, minted <= 1
                 PROVE  Answer(Rows.events, Rows.key, Rows)
      BY DEF ChainVerifies
    <2>1. LinkInv
      BY DEF ChainInv
    <2>2. CASE Rows.head = NoHead
      BY <2>1, <2>2, NewestLinked DEF Answer
    <2>3. CASE Rows.head # NoHead
      <3>1. PICK E, h : E = Rows.events /\ h = Rows.head
        OBVIOUS
      <3>2. Rows.key = 1 /\ Chain(E, h, now)
        BY <2>1, <2>3, <3>1, NewestLinked
      <3>3. PICK t : Sorted(t, E) /\ Linked(t, h)
        BY <3>2 DEF Chain
      <3>4. E \subseteq Event /\ h.key = 1
        BY <3>2 DEF Chain
      <3>5. InKeyOrder(E) = t
        BY ONLY <3>3, <3>4, SortedIsKeyOrder
      <3>6. DOMAIN t = 1 .. Len(t)
        BY <3>3 DEF Sorted
      <3>7. Walks(E, 1, h)
        BY ONLY <3>3, <3>4, <3>5, <3>6 DEF Walks, Linked, HashBefore
      <3> QED
        BY <2>3, <3>1, <3>2, <3>7 DEF Answer
    <2> QED
      BY <2>2, <2>3
  <1> QED
    BY <1>1, Invariance, ChainInvariance, PTL

\* Whichever single event is taken from the log, its head still counts it, so
\* the walk ends short of it (ChainHead: count).
THEOREM LossShows == Spec => []LossDetected
  <1>1. IInv /\ ChainInv => LossDetected
    <2> SUFFICES ASSUME IInv, ChainInv, minted <= 1, NEW e \in Rows.events
                 PROVE  ~ Walks(Rows.events \ {e}, Rows.key, Rows.head)
      BY DEF LossDetected
    <2>1. LinkInv
      BY DEF ChainInv
    <2>2. PICK E, h : E = Rows.events /\ h = Rows.head
      OBVIOUS
    <2>3. Chain(E, h, now)
      BY <2>1, <2>2, NewestLinked
    <2>4. PICK t : Sorted(t, E) /\ Linked(t, h)
      BY <2>3 DEF Chain
    <2>5. E \subseteq Event
      BY <2>3 DEF Chain
    <2>6. IsFiniteSet(E) /\ Cardinality(E) = Len(t)
      BY ONLY <2>4, <2>5, SortedIsKeyOrder
    <2>7. /\ IsFiniteSet(E \ {e}) /\ Cardinality(E \ {e}) = Cardinality(E) - 1
          /\ Cardinality(E) \in Nat
      BY <2>2, <2>6, FS_RemoveElement, FS_CardinalityType
    <2>8. Len(InKeyOrder(E \ {e})) = Cardinality(E) - 1
      BY <2>7, KeyOrderLog
    <2>9. h.count = Cardinality(E)
      BY <2>4, <2>6 DEF Linked
    <2>10. Len(InKeyOrder(E \ {e})) # h.count
      BY <2>7, <2>8, <2>9
    <2>11. ~ Walks(E \ {e}, Rows.key, h)
      BY ONLY <2>10 DEF Walks
    <2> QED
      BY <2>2, <2>11
  <1> QED
    BY <1>1, Invariance, ChainInvariance, PTL

=============================================================================
