-------------------------- MODULE EpochCellProofs --------------------------
(***************************************************************************)
(* Proofs about EpochCell, for any finite set of threads, any addresses    *)
(* and any number of writes.                                               *)
(***************************************************************************)
EXTENDS EpochCell, TLAPS, FiniteSetTheorems

-----------------------------------------------------------------------------
(* The inductive invariant.                                                *)

Pointer == Addr \union {None}

Guard == [pc : {"none", "pinned", "loaded"}, ptr : Pointer, seen : SUBSET Nat]

Call == [op : {"none", "store", "rcu", "reclaim"},
         pc : {"idle", "load", "compute", "exchange", "defer", "push", "release"},
         id : Nat, ptr : Pointer, next : Pointer]

Callback == [addr : Addr, waits : SUBSET Thread]

TypeInv ==
    /\ current \in Pointer
    /\ strong \in [Addr -> Nat]
    /\ value \in [Addr -> SUBSET Nat]
    /\ guard \in [Thread -> Guard]
    /\ kept \in [Thread -> Pointer]
    /\ call \in [Thread -> Call]
    /\ retired \subseteq Addr
    /\ deferred \subseteq Callback
    /\ elapsed \subseteq Addr
    /\ done \subseteq Nat
    /\ writes \in Nat

\* t is about to retire the pointer it exchanged.
Retiring(t) == call[t].pc \in {"defer", "push"}

\* t is in an rcu between the load and the exchange.
Comparing(t) ==
    \/ call[t].pc = "compute"
    \/ call[t].pc = "exchange" /\ call[t].op = "rcu"

\* Which pointers a call has at which of its steps.
CallInv ==
    \A t \in Thread :
        /\ call[t].pc = "idle" => call[t] = NoCall
        /\ call[t].pc \in {"load", "compute"} => call[t].op = "rcu"
        /\ call[t].pc = "exchange" => call[t].op \in {"store", "rcu"}
        /\ call[t].pc = "exchange" <=> call[t].next # None
        /\ Comparing(t) \/ Retiring(t) => call[t].ptr # None
        /\ guard[t].pc = "loaded" => guard[t].ptr # None

\* Nobody is inside a cell that has been dropped.
DropInv ==
    current = None =>
        /\ \A t \in Thread : guard[t].pc = "none" /\ call[t].pc = "idle"
        /\ retired = {}

\* The cell, the retired list, a write that will publish and a write that
\* will retire never own one address together.
OwnerInv ==
    /\ current \notin retired
    /\ \A t, u \in Thread :
          /\ call[t].next # None /\ call[t].next = call[u].next => t = u
          /\ Retiring(t) /\ Retiring(u) /\ call[t].ptr = call[u].ptr => t = u
          /\ call[t].next # None /\ Retiring(u) => call[t].next # call[u].ptr
    /\ \A t \in Thread :
          /\ call[t].next # None => call[t].next # current /\ call[t].next \notin retired
          /\ Retiring(t) => call[t].ptr # current /\ call[t].ptr \notin retired

\* The callback for a has been registered and a is still owned.
Handed(a) == a \in retired \/ \E u \in Thread : call[u].pc = "push" /\ call[u].ptr = a

\* A pending callback and a raised flag belong to one retired value each.
CallbackInv ==
    current # None =>
        /\ \A d \in deferred : Handed(d.addr) /\ d.addr \notin elapsed
        /\ \A d, e \in deferred : d.addr = e.addr => d = e
        /\ \A a \in elapsed : Handed(a)

\* What keeps a allocated while t can reach it: it is the current value, it is
\* not yet handed to the collector, or its callback still waits for t.
Guarded(t, a) ==
    \/ current = a
    \/ \E u \in Thread : call[u].pc = "defer" /\ call[u].ptr = a
    \/ \E d \in deferred : d.addr = a /\ t \in d.waits

ReachInv ==
    \A t \in Thread :
        /\ guard[t].pc = "loaded" => Guarded(t, guard[t].ptr)
        /\ Comparing(t) => Guarded(t, call[t].ptr)

\* What was read through a pointer is what is still there.
ValueInv ==
    /\ \A t \in Thread :
          /\ guard[t].pc = "loaded" => value[guard[t].ptr] = guard[t].seen
          /\ call[t].op = "rcu" /\ call[t].pc = "exchange" =>
                value[call[t].next] = value[call[t].ptr] \union {call[t].id}
    /\ NoUpdateLost

IInv ==
    /\ TypeInv /\ CallInv /\ DropInv /\ OwnerInv /\ HeapAccounted
    /\ CallbackInv /\ ReachInv /\ ValueInv

-----------------------------------------------------------------------------
(* The callbacks after some threads have unpinned.                         *)

Trimmed(D, S) == {[d EXCEPT !.waits = @ \ S] : d \in D}

\* Unpinning changes nothing but who is waited for.
LEMMA TrimmedCallbacks ==
    ASSUME NEW D \in SUBSET Callback, NEW S
    PROVE  /\ Trimmed(D, S) \subseteq Callback
           /\ \A e \in Trimmed(D, S) :
                 \E d \in D : e.addr = d.addr /\ e.waits = d.waits \ S
           /\ \A d \in D :
                 \E e \in Trimmed(D, S) : e.addr = d.addr /\ e.waits = d.waits \ S
           /\ (\A d, e \in D : d.addr = e.addr => d = e) =>
                 \A d, e \in Trimmed(D, S) : d.addr = e.addr => d = e
<1> DEFINE F(d) == [d EXCEPT !.waits = @ \ S]
<1>1. \A d \in D : /\ F(d) \in Callback
                   /\ F(d).addr = d.addr /\ F(d).waits = d.waits \ S
  BY DEF Callback
<1>2. Trimmed(D, S) = {F(d) : d \in D}
  BY DEF Trimmed
<1> HIDE DEF F
<1>3. Trimmed(D, S) \subseteq Callback
  BY <1>1, <1>2
<1>4. \A e \in Trimmed(D, S) :
        \E d \in D : e = F(d) /\ e.addr = d.addr /\ e.waits = d.waits \ S
  BY <1>1, <1>2
<1>5. \A d \in D :
        \E e \in Trimmed(D, S) : e.addr = d.addr /\ e.waits = d.waits \ S
  BY <1>1, <1>2
<1>6. ASSUME \A d, e \in D : d.addr = e.addr => d = e
      PROVE  \A d, e \in Trimmed(D, S) : d.addr = e.addr => d = e
  BY <1>4, <1>6
<1> QED
  BY <1>3, <1>4, <1>5, <1>6

\* The two ways the model unpins.
LEMMA UnpinTrims ==
    ASSUME NEW t \in Thread
    PROVE  Unpinned(t) = Trimmed(deferred, {t})
BY DEF Unpinned, Trimmed

-----------------------------------------------------------------------------
(* Counting owners.                                                        *)

Keepers(a)    == {t \in Thread : kept[t] = a}
Publishers(a) == {t \in Thread : call[t].next = a}
Retirers(a)   == {t \in Thread : call[t].pc \in {"defer", "push"} /\ call[t].ptr = a}

Owned(a) ==
    \/ current = a \/ a \in retired
    \/ \E t \in Thread : \/ kept[t] = a \/ call[t].next = a
                         \/ Retiring(t) /\ call[t].ptr = a

\* Sets of threads are finite, and one thread more or less counts for one.
LEMMA CountThreads ==
    ASSUME NEW S \in SUBSET Thread
    PROVE  /\ Cardinality(S) \in Nat
           /\ Cardinality(S) = 0 <=> S = {}
           /\ \A t \in Thread :
                 /\ t \notin S => Cardinality(S \union {t}) = Cardinality(S) + 1
                 /\ t \in S => Cardinality(S \ {t}) = Cardinality(S) - 1
<1>1. IsFiniteSet(S)
  BY EpochCellAssumption, FS_Subset
<1> QED
  BY <1>1, FS_CardinalityType, FS_EmptySet, FS_AddElement, FS_RemoveElement

\* An address has a positive count exactly when somebody owns it.
LEMMA OwnedCounted ==
    ASSUME HeapAccounted, NEW a \in Addr
    PROVE  strong[a] > 0 <=> Owned(a)
<1>1. strong[a] = Cardinality(Keepers(a)) + Cardinality(Publishers(a))
                + Cardinality(Retirers(a)) + (IF current = a THEN 1 ELSE 0)
                + (IF a \in retired THEN 1 ELSE 0)
  BY DEF HeapAccounted, Keepers, Publishers, Retirers
<1>2. /\ Cardinality(Keepers(a)) \in Nat
      /\ Cardinality(Keepers(a)) = 0 <=> Keepers(a) = {}
  BY CountThreads DEF Keepers
<1>3. /\ Cardinality(Publishers(a)) \in Nat
      /\ Cardinality(Publishers(a)) = 0 <=> Publishers(a) = {}
  BY CountThreads DEF Publishers
<1>4. /\ Cardinality(Retirers(a)) \in Nat
      /\ Cardinality(Retirers(a)) = 0 <=> Retirers(a) = {}
  BY CountThreads DEF Retirers
<1>5. Owned(a) <=> \/ current = a \/ a \in retired \/ Keepers(a) # {}
                   \/ Publishers(a) # {} \/ Retirers(a) # {}
  BY DEF Owned, Keepers, Publishers, Retirers, Retiring
<1> QED
  BY <1>1, <1>2, <1>3, <1>4, <1>5

-----------------------------------------------------------------------------
(* What each action does to the write in progress, as one whole record.    *)

CallBecomes(t, o, p, i, x, n) ==
    /\ call' \in [Thread -> Call]
    /\ call'[t] = [op |-> o, pc |-> p, id |-> i, ptr |-> x, next |-> n]
    /\ \A u \in Thread : u # t => call'[u] = call[u]

\* Replacing the record of t changes no other call.
LEMMA CallReplaced ==
    ASSUME call \in [Thread -> Call], NEW t \in Thread, NEW r \in Call,
           call' = [call EXCEPT ![t] = r]
    PROVE  CallBecomes(t, r.op, r.pc, r.id, r.ptr, r.next)
<1>1. call' \in [Thread -> Call] /\ call'[t] = r
  OBVIOUS
<1>2. \A u \in Thread : u # t => call'[u] = call[u]
  OBVIOUS
<1>3. r = [op |-> r.op, pc |-> r.pc, id |-> r.id, ptr |-> r.ptr, next |-> r.next]
  BY DEF Call
<1> QED
  BY <1>1, <1>2, <1>3 DEF CallBecomes

\* The steps that update some of the record's fields.
LEMMA CallUpdated ==
    ASSUME call \in [Thread -> Call], NEW t \in Thread,
           NEW p \in {"idle", "load", "compute", "exchange", "defer", "push",
                      "release"},
           NEW x \in Pointer, NEW n \in Pointer
    PROVE  /\ call' = [call EXCEPT ![t].pc = p] =>
                 CallBecomes(t, call[t].op, p, call[t].id, call[t].ptr, call[t].next)
           /\ call' = [call EXCEPT ![t].pc = p, ![t].ptr = x] =>
                 CallBecomes(t, call[t].op, p, call[t].id, x, call[t].next)
           /\ call' = [call EXCEPT ![t].pc = p, ![t].next = n] =>
                 CallBecomes(t, call[t].op, p, call[t].id, call[t].ptr, n)
           /\ call' = [call EXCEPT ![t].pc = p, ![t].ptr = x, ![t].next = n] =>
                 CallBecomes(t, call[t].op, p, call[t].id, x, n)
<1>1. call[t] \in Call
  OBVIOUS
<1>2. ASSUME call' = [call EXCEPT ![t].pc = p]
      PROVE  CallBecomes(t, call[t].op, p, call[t].id, call[t].ptr, call[t].next)
  <2>1. call'[t] = [op |-> call[t].op, pc |-> p, id |-> call[t].id,
                    ptr |-> call[t].ptr, next |-> call[t].next]
    BY <1>1, <1>2 DEF Call
  <2>2. call'[t] \in Call
    BY <1>1, <2>1 DEF Call
  <2>3. \A u \in Thread : u # t => call'[u] = call[u]
    BY <1>2
  <2>4. call' \in [Thread -> Call]
    BY <1>2, <2>2, <2>3
  <2> QED
    BY <2>1, <2>3, <2>4 DEF CallBecomes
<1>3. ASSUME call' = [call EXCEPT ![t].pc = p, ![t].ptr = x]
      PROVE  CallBecomes(t, call[t].op, p, call[t].id, x, call[t].next)
  <2>1. call'[t] = [op |-> call[t].op, pc |-> p, id |-> call[t].id,
                    ptr |-> x, next |-> call[t].next]
    BY <1>1, <1>3 DEF Call
  <2>2. call'[t] \in Call
    BY <1>1, <2>1 DEF Call
  <2>3. \A u \in Thread : u # t => call'[u] = call[u]
    BY <1>3
  <2>4. call' \in [Thread -> Call]
    BY <1>3, <2>2, <2>3
  <2> QED
    BY <2>1, <2>3, <2>4 DEF CallBecomes
<1>4. ASSUME call' = [call EXCEPT ![t].pc = p, ![t].next = n]
      PROVE  CallBecomes(t, call[t].op, p, call[t].id, call[t].ptr, n)
  <2>1. call'[t] = [op |-> call[t].op, pc |-> p, id |-> call[t].id,
                    ptr |-> call[t].ptr, next |-> n]
    BY <1>1, <1>4 DEF Call
  <2>2. call'[t] \in Call
    BY <1>1, <2>1 DEF Call
  <2>3. \A u \in Thread : u # t => call'[u] = call[u]
    BY <1>4
  <2>4. call' \in [Thread -> Call]
    BY <1>4, <2>2, <2>3
  <2> QED
    BY <2>1, <2>3, <2>4 DEF CallBecomes
<1>5. ASSUME call' = [call EXCEPT ![t].pc = p, ![t].ptr = x, ![t].next = n]
      PROVE  CallBecomes(t, call[t].op, p, call[t].id, x, n)
  <2>1. call'[t] = [op |-> call[t].op, pc |-> p, id |-> call[t].id,
                    ptr |-> x, next |-> n]
    BY <1>1, <1>5 DEF Call
  <2>2. call'[t] \in Call
    BY <1>1, <2>1 DEF Call
  <2>3. \A u \in Thread : u # t => call'[u] = call[u]
    BY <1>5
  <2>4. call' \in [Thread -> Call]
    BY <1>5, <2>2, <2>3
  <2> QED
    BY <2>1, <2>3, <2>4 DEF CallBecomes
<1> QED
  BY <1>2, <1>3, <1>4, <1>5

\* The steps of a write.
LEMMA CallEffects ==
    ASSUME TypeInv, NEW t \in Thread
    PROVE  /\ Store(t) => \E a \in Addr :
                 /\ strong[a] = 0
                 /\ strong' = [strong EXCEPT ![a] = 1]
                 /\ value' = [value EXCEPT ![a] = {}]
                 /\ CallBecomes(t, "store", "exchange", writes + 1, None, a)
           /\ StoreSwap(t) =>
                 CallBecomes(t, "store", "defer", call[t].id, current, None)
           /\ Rcu(t) => CallBecomes(t, "rcu", "load", writes + 1, None, None)
           /\ RcuLoad(t) =>
                 CallBecomes(t, call[t].op, "compute", call[t].id, current, call[t].next)
           /\ RcuCompute(t) => \E a \in Addr :
                 /\ strong[a] = 0
                 /\ strong' = [strong EXCEPT ![a] = 1]
                 /\ value' = [value EXCEPT ![a] = value[call[t].ptr] \union {call[t].id}]
                 /\ CallBecomes(t, call[t].op, "exchange", call[t].id, call[t].ptr, a)
           /\ RcuExchange(t) =>
                 IF current = call[t].ptr
                 THEN CallBecomes(t, "rcu", "defer", call[t].id, call[t].ptr, None)
                 ELSE CallBecomes(t, "rcu", "compute", call[t].id, current, None)
           /\ RetireDefer(t) =>
                 CallBecomes(t, call[t].op, "push", call[t].id, call[t].ptr, call[t].next)
           /\ RetirePush(t) =>
                 CallBecomes(t, call[t].op, "release", call[t].id, None, call[t].next)
           /\ Reclaim(t) => CallBecomes(t, "reclaim", "release", writes + 1, None, None)
           /\ ReleaseElapsed(t) => CallBecomes(t, "none", "idle", 0, None, None)
<1>0. /\ Addr \subseteq Pointer /\ None \in Pointer /\ current \in Pointer
      /\ call \in [Thread -> Call] /\ writes \in Nat
  BY DEF Pointer, TypeInv
<1>1. \A o \in {"none", "store", "rcu", "reclaim"},
         p \in {"idle", "load", "compute", "exchange", "defer", "push", "release"},
         i \in Nat, x \in Pointer, n \in Pointer :
        call' = [call EXCEPT ![t] =
                    [op |-> o, pc |-> p, id |-> i, ptr |-> x, next |-> n]] =>
            CallBecomes(t, o, p, i, x, n)
  <2> SUFFICES ASSUME
          NEW o \in {"none", "store", "rcu", "reclaim"},
          NEW p \in {"idle", "load", "compute", "exchange", "defer", "push", "release"},
          NEW i \in Nat, NEW x \in Pointer, NEW n \in Pointer,
          call' = [call EXCEPT ![t] =
                      [op |-> o, pc |-> p, id |-> i, ptr |-> x, next |-> n]]
      PROVE CallBecomes(t, o, p, i, x, n)
    OBVIOUS
  <2>1. [op |-> o, pc |-> p, id |-> i, ptr |-> x, next |-> n] \in Call
    BY DEF Call
  <2> QED
    BY <1>0, <2>1, CallReplaced
<1>2. Store(t) => \E a \in Addr :
        /\ strong[a] = 0
        /\ strong' = [strong EXCEPT ![a] = 1]
        /\ value' = [value EXCEPT ![a] = {}]
        /\ CallBecomes(t, "store", "exchange", writes + 1, None, a)
  <2> SUFFICES ASSUME Store(t)
               PROVE  \E a \in Addr :
                        /\ strong[a] = 0
                        /\ strong' = [strong EXCEPT ![a] = 1]
                        /\ value' = [value EXCEPT ![a] = {}]
                        /\ CallBecomes(t, "store", "exchange", writes + 1, None, a)
    OBVIOUS
  <2>1. writes' = writes + 1 /\ writes + 1 \in Nat
    BY <1>0 DEF Store, MayCall
  <2>2. PICK a \in Addr :
          /\ strong[a] = 0
          /\ strong' = [strong EXCEPT ![a] = 1]
          /\ value' = [value EXCEPT ![a] = {}]
          /\ call' = [call EXCEPT ![t] =
                [op |-> "store", pc |-> "exchange", id |-> writes + 1,
                 ptr |-> None, next |-> a]]
    BY <2>1 DEF Store
  <2>3. CallBecomes(t, "store", "exchange", writes + 1, None, a)
    BY <1>0, <1>1, <2>1, <2>2
  <2> QED
    BY <2>2, <2>3
<1>3. StoreSwap(t) => CallBecomes(t, "store", "defer", call[t].id, current, None)
  <2>1. StoreSwap(t) => /\ call[t].op = "store"
                        /\ CallBecomes(t, call[t].op, "defer", call[t].id, current, None)
    BY <1>0, CallUpdated DEF StoreSwap
  <2> QED
    BY <2>1
<1>4. Rcu(t) => CallBecomes(t, "rcu", "load", writes + 1, None, None)
  <2>1. Rcu(t) => /\ writes' = writes + 1
                  /\ call' = [call EXCEPT ![t] =
                        [op |-> "rcu", pc |-> "load", id |-> writes',
                         ptr |-> None, next |-> None]]
    BY DEF Rcu, MayCall
  <2>2. writes + 1 \in Nat
    BY <1>0
  <2> QED
    BY <1>0, <1>1, <2>1, <2>2
<1>5. RcuLoad(t) =>
        CallBecomes(t, call[t].op, "compute", call[t].id, current, call[t].next)
  BY <1>0, CallUpdated DEF RcuLoad
<1>6. RcuCompute(t) => \E a \in Addr :
        /\ strong[a] = 0
        /\ strong' = [strong EXCEPT ![a] = 1]
        /\ value' = [value EXCEPT ![a] = value[call[t].ptr] \union {call[t].id}]
        /\ CallBecomes(t, call[t].op, "exchange", call[t].id, call[t].ptr, a)
  BY <1>0, CallUpdated DEF RcuCompute
<1>7. RcuExchange(t) =>
        IF current = call[t].ptr
        THEN CallBecomes(t, "rcu", "defer", call[t].id, call[t].ptr, None)
        ELSE CallBecomes(t, "rcu", "compute", call[t].id, current, None)
  <2> SUFFICES ASSUME RcuExchange(t)
               PROVE  IF current = call[t].ptr
                      THEN CallBecomes(t, "rcu", "defer", call[t].id, call[t].ptr, None)
                      ELSE CallBecomes(t, "rcu", "compute", call[t].id, current, None)
    OBVIOUS
  <2>1. call[t].op = "rcu"
    BY DEF RcuExchange
  <2>2. CASE current = call[t].ptr
    <3>1. call' = [call EXCEPT ![t].pc = "defer", ![t].next = None]
      BY <2>2 DEF RcuExchange
    <3> QED
      BY <1>0, <2>1, <2>2, <3>1, CallUpdated
  <2>3. CASE current # call[t].ptr
    <3>1. call' = [call EXCEPT ![t].pc = "compute", ![t].ptr = current,
                               ![t].next = None]
      BY <2>3 DEF RcuExchange
    <3> QED
      BY <1>0, <2>1, <2>3, <3>1, CallUpdated
  <2> QED
    BY <2>2, <2>3
<1>8. RetireDefer(t) =>
        CallBecomes(t, call[t].op, "push", call[t].id, call[t].ptr, call[t].next)
  BY <1>0, CallUpdated DEF RetireDefer
<1>9. RetirePush(t) =>
        CallBecomes(t, call[t].op, "release", call[t].id, None, call[t].next)
  BY <1>0, CallUpdated DEF RetirePush
<1>10. Reclaim(t) => CallBecomes(t, "reclaim", "release", writes + 1, None, None)
  <2>1. Reclaim(t) => /\ writes' = writes + 1
                      /\ call' = [call EXCEPT ![t] =
                            [op |-> "reclaim", pc |-> "release", id |-> writes',
                             ptr |-> None, next |-> None]]
    BY DEF Reclaim, MayCall
  <2>2. writes + 1 \in Nat
    BY <1>0
  <2> QED
    BY <1>0, <1>1, <2>1, <2>2
<1>11. ReleaseElapsed(t) => CallBecomes(t, "none", "idle", 0, None, None)
  BY <1>0, <1>1 DEF ReleaseElapsed, NoCall
<1> QED
  BY <1>2, <1>3, <1>4, <1>5, <1>6, <1>7, <1>8, <1>9, <1>10, <1>11

-----------------------------------------------------------------------------
(* Types and control.                                                      *)

LEMMA TypeStep ==
    ASSUME TypeInv, CallInv, DropInv, HeapAccounted, Next
    PROVE  TypeInv'
<1> USE DEF TypeInv, Guard, heap, MayCall
<1>0. Addr \subseteq Pointer /\ None \in Pointer /\ Pointer \ {None} \subseteq Addr
  BY DEF Pointer
<1>1. ASSUME NEW t \in Thread, Load(t) PROVE TypeInv'
  BY <1>0, <1>1 DEF Load
<1>2. ASSUME NEW t \in Thread, LoadPointer(t) PROVE TypeInv'
  <2>1. current \in Addr
    BY <1>0, <1>2 DEF LoadPointer, DropInv
  <2> QED
    BY <1>0, <1>2, <2>1 DEF LoadPointer
<1>3. ASSUME NEW t \in Thread, LoadFull(t) PROVE TypeInv'
  <2>1. guard[t].ptr \in Addr /\ NoGuard \in Guard
    BY <1>0, <1>3 DEF LoadFull, CallInv, NoGuard
  <2>2. deferred' \subseteq Callback
    <3>1. deferred' = Trimmed(deferred, {t})
      BY <1>3, UnpinTrims DEF LoadFull
    <3> QED
      BY <3>1, TrimmedCallbacks
  <2> QED
    BY <1>0, <1>3, <2>1, <2>2 DEF LoadFull
<1>4. ASSUME NEW t \in Thread, DropGuard(t) PROVE TypeInv'
  <2>1. NoGuard \in Guard
    BY <1>0 DEF NoGuard
  <2>2. deferred' \subseteq Callback
    <3>1. deferred' = Trimmed(deferred, {t})
      BY <1>4, UnpinTrims DEF DropGuard
    <3> QED
      BY <3>1, TrimmedCallbacks
  <2> QED
    BY <1>0, <1>4, <2>1, <2>2 DEF DropGuard
<1>5. ASSUME NEW t \in Thread, DropKept(t) PROVE TypeInv'
  <2>1. kept[t] \in Addr /\ strong[kept[t]] > 0
    BY <1>0, <1>5, OwnedCounted DEF DropKept, Owned
  <2> QED
    BY <1>0, <1>5, <2>1 DEF DropKept, Released
<1>6. ASSUME NEW t \in Thread, Store(t) PROVE TypeInv'
  BY <1>0, <1>6 DEF Store, Call
<1>7. ASSUME NEW t \in Thread, StoreSwap(t) PROVE TypeInv'
  <2>1. call' \in [Thread -> Call]
    BY <1>7, CallEffects DEF CallBecomes
  <2> QED
    BY <1>0, <1>7, <2>1 DEF StoreSwap, Call
<1>8. ASSUME NEW t \in Thread, Rcu(t) PROVE TypeInv'
  BY <1>0, <1>8 DEF Rcu, Call
<1>9. ASSUME NEW t \in Thread, RcuLoad(t) PROVE TypeInv'
  <2>1. call' \in [Thread -> Call]
    BY <1>9, CallEffects DEF CallBecomes
  <2> QED
    BY <1>0, <1>9, <2>1 DEF RcuLoad
<1>10. ASSUME NEW t \in Thread, RcuCompute(t) PROVE TypeInv'
  <2>1. call[t].ptr \in Addr
    BY <1>0, <1>10 DEF RcuCompute, CallInv, Comparing, Call
  <2>2. PICK a \in Addr :
          /\ strong' = [strong EXCEPT ![a] = 1]
          /\ value' = [value EXCEPT ![a] = value[call[t].ptr] \union {call[t].id}]
          /\ call' = [call EXCEPT ![t].pc = "exchange", ![t].next = a]
    BY <1>0, <1>10 DEF RcuCompute
  <2>3. call' \in [Thread -> Call]
    BY <1>10, CallEffects DEF CallBecomes
  <2>4. strong' \in [Addr -> Nat] /\ value' \in [Addr -> SUBSET Nat]
    BY <2>1, <2>2 DEF Call
  <2> QED
    BY <1>0, <1>10, <2>3, <2>4 DEF RcuCompute
<1>11. ASSUME NEW t \in Thread, RcuExchange(t) PROVE TypeInv'
  <2>1. call[t].next \in Addr /\ strong[call[t].next] > 0
    BY <1>0, <1>11, OwnedCounted DEF RcuExchange, CallInv, Call, Owned
  <2>2. call' \in [Thread -> Call]
    BY <1>11, CallEffects DEF CallBecomes
  <2>3. done' \subseteq Nat
    BY <1>11 DEF RcuExchange, Call
  <2>4. strong' \in [Addr -> Nat]
    BY <1>11, <2>1 DEF RcuExchange, Released
  <2> QED
    BY <1>0, <1>11, <2>1, <2>2, <2>3, <2>4 DEF RcuExchange
<1>12. ASSUME NEW t \in Thread, RetireDefer(t) PROVE TypeInv'
  <2> DEFINE pinned == {u \in Thread : Pinned(u)}
             still == IF guard[t].pc = "none" THEN {t} ELSE {}
             added == deferred \union {[addr |-> call[t].ptr, waits |-> pinned]}
  <2>1. call[t].ptr \in Addr
    BY <1>0, <1>12 DEF RetireDefer, CallInv, Retiring, Call
  <2>2. added \subseteq Callback
    BY <2>1 DEF Callback
  <2>3. deferred' = Trimmed(added, still)
    BY <1>0, <1>12 DEF RetireDefer, Trimmed
  <2> HIDE DEF added, still
  <2>4. deferred' \subseteq Callback
    BY <2>2, <2>3, TrimmedCallbacks
  <2> QED
    BY <1>0, <1>12, <2>4, ZenonT(60) DEF RetireDefer, Call
<1>13. ASSUME NEW t \in Thread, RetirePush(t) PROVE TypeInv'
  <2>1. call[t].ptr \in Addr
    BY <1>0, <1>13 DEF RetirePush, CallInv, Retiring, Call
  <2>2. call' \in [Thread -> Call]
    BY <1>13, CallEffects DEF CallBecomes
  <2> QED
    BY <1>0, <1>13, <2>1, <2>2 DEF RetirePush
<1>14. ASSUME NEW t \in Thread, Reclaim(t) PROVE TypeInv'
  <2>1. call' \in [Thread -> Call]
    BY <1>14, CallEffects DEF CallBecomes
  <2> QED
    BY <1>0, <1>14, <2>1 DEF Reclaim
<1>15. ASSUME NEW t \in Thread, ReleaseElapsed(t) PROVE TypeInv'
  <2>1. \A a \in retired : strong[a] > 0
    BY OwnedCounted DEF Owned
  <2>2. strong' \in [Addr -> Nat]
    BY <1>0, <1>15, <2>1 DEF ReleaseElapsed
  <2> QED
    BY <1>0, <1>15, <2>2 DEF ReleaseElapsed, Call, NoCall
<1>16. CASE RunCallback
  BY <1>0, <1>16 DEF RunCallback, Callback
<1>17. CASE DropCell
  <2>1. \A a \in retired \union {current} : a \in Addr => strong[a] > 0
    BY OwnedCounted DEF Owned
  <2>2. strong' \in [Addr -> Nat]
    BY <1>0, <1>17, <2>1 DEF DropCell
  <2> QED
    BY <1>0, <1>17, <2>2 DEF DropCell
<1> QED
  BY <1>1, <1>2, <1>3, <1>4, <1>5, <1>6, <1>7, <1>8, <1>9, <1>10, <1>11,
     <1>12, <1>13, <1>14, <1>15, <1>16, <1>17 DEF Next

\* Every step leaves the call with the pointers its next step needs.
LEMMA CallStep ==
    ASSUME TypeInv, CallInv, DropInv, Next
    PROVE  CallInv'
<1>1. ASSUME NEW t \in Thread, Load(t) PROVE CallInv'
  BY <1>1 DEF Load, CallInv, Comparing, Retiring, DropInv, TypeInv, Guard, NoGuard
<1>2. ASSUME NEW t \in Thread, LoadPointer(t) PROVE CallInv'
  BY <1>2 DEF LoadPointer, CallInv, Comparing, Retiring, DropInv, TypeInv, Guard, NoGuard
<1>3. ASSUME NEW t \in Thread, LoadFull(t) PROVE CallInv'
  BY <1>3 DEF LoadFull, CallInv, Comparing, Retiring, DropInv, TypeInv, Guard, NoGuard
<1>4. ASSUME NEW t \in Thread, DropGuard(t) PROVE CallInv'
  BY <1>4 DEF DropGuard, CallInv, Comparing, Retiring, DropInv, TypeInv, Guard, NoGuard
<1>5. ASSUME NEW t \in Thread, DropKept(t) PROVE CallInv'
  BY <1>5 DEF DropKept, CallInv, Comparing, Retiring
<1>6. ASSUME NEW t \in Thread, Store(t) PROVE CallInv'
  <2>1. PICK a \in Addr :
          CallBecomes(t, "store", "exchange", writes + 1, None, a)
    BY <1>6, CallEffects
  <2>2. guard' = guard /\ a # None
    BY <1>6, EpochCellAssumption DEF Store
  <2> QED
    BY <2>1, <2>2 DEF CallBecomes, CallInv, Comparing, Retiring
<1>7. ASSUME NEW t \in Thread, StoreSwap(t) PROVE CallInv'
  <2>1. CallBecomes(t, "store", "defer", call[t].id, current, None)
    BY <1>7, CallEffects
  <2>2. guard' = guard /\ current # None
    BY <1>7 DEF StoreSwap, DropInv
  <2> QED
    BY <2>1, <2>2 DEF CallBecomes, CallInv, Comparing, Retiring
<1>8. ASSUME NEW t \in Thread, Rcu(t) PROVE CallInv'
  <2>1. CallBecomes(t, "rcu", "load", writes + 1, None, None)
    BY <1>8, CallEffects
  <2>2. guard' = guard
    BY <1>8 DEF Rcu
  <2> QED
    BY <2>1, <2>2 DEF CallBecomes, CallInv, Comparing, Retiring, NoCall
<1>9. ASSUME NEW t \in Thread, RcuLoad(t) PROVE CallInv'
  <2>1. CallBecomes(t, call[t].op, "compute", call[t].id, current, call[t].next)
    BY <1>9, CallEffects
  <2>2. guard' = guard /\ current # None /\ call[t].pc = "load"
    BY <1>9 DEF RcuLoad, DropInv
  <2> QED
    BY <2>1, <2>2 DEF CallBecomes, CallInv, Comparing, Retiring
<1>10. ASSUME NEW t \in Thread, RcuCompute(t) PROVE CallInv'
  <2>1. PICK a \in Addr :
          CallBecomes(t, call[t].op, "exchange", call[t].id, call[t].ptr, a)
    BY <1>10, CallEffects
  <2>2. guard' = guard /\ a # None /\ call[t].pc = "compute"
    BY <1>10, EpochCellAssumption DEF RcuCompute
  <2> QED
    BY <2>1, <2>2 DEF CallBecomes, CallInv, Comparing, Retiring
<1>11. ASSUME NEW t \in Thread, RcuExchange(t) PROVE CallInv'
  <2>1. IF current = call[t].ptr
        THEN CallBecomes(t, "rcu", "defer", call[t].id, call[t].ptr, None)
        ELSE CallBecomes(t, "rcu", "compute", call[t].id, current, None)
    BY <1>11, CallEffects
  <2>2. guard' = guard /\ current # None /\ Comparing(t)
    BY <1>11 DEF RcuExchange, DropInv, Comparing
  <2> QED
    BY <2>1, <2>2 DEF CallBecomes, CallInv, Comparing, Retiring
<1>12. ASSUME NEW t \in Thread, RetireDefer(t) PROVE CallInv'
  <2>1. CallBecomes(t, call[t].op, "push", call[t].id, call[t].ptr, call[t].next)
    BY <1>12, CallEffects
  <2>2. guard' = guard /\ call[t].pc = "defer"
    BY <1>12 DEF RetireDefer
  <2> QED
    BY <2>1, <2>2 DEF CallBecomes, CallInv, Comparing, Retiring
<1>13. ASSUME NEW t \in Thread, RetirePush(t) PROVE CallInv'
  <2>1. CallBecomes(t, call[t].op, "release", call[t].id, None, call[t].next)
    BY <1>13, CallEffects
  <2>2. guard' = guard /\ call[t].pc = "push"
    BY <1>13 DEF RetirePush
  <2> QED
    BY <2>1, <2>2 DEF CallBecomes, CallInv, Comparing, Retiring
<1>14. ASSUME NEW t \in Thread, Reclaim(t) PROVE CallInv'
  <2>1. CallBecomes(t, "reclaim", "release", writes + 1, None, None)
    BY <1>14, CallEffects
  <2>2. guard' = guard
    BY <1>14 DEF Reclaim
  <2> QED
    BY <2>1, <2>2 DEF CallBecomes, CallInv, Comparing, Retiring, NoCall
<1>15. ASSUME NEW t \in Thread, ReleaseElapsed(t) PROVE CallInv'
  <2>1. CallBecomes(t, "none", "idle", 0, None, None)
    BY <1>15, CallEffects
  <2>2. guard' = guard
    BY <1>15 DEF ReleaseElapsed
  <2> QED
    BY <2>1, <2>2 DEF CallBecomes, CallInv, Comparing, Retiring, NoCall
<1>16. CASE RunCallback
  BY <1>16 DEF RunCallback, CallInv, Comparing, Retiring
<1>17. CASE DropCell
  BY <1>17 DEF DropCell, CallInv, Comparing, Retiring
<1> QED
  BY <1>1, <1>2, <1>3, <1>4, <1>5, <1>6, <1>7, <1>8, <1>9, <1>10,
     <1>11, <1>12, <1>13, <1>14, <1>15, <1>16, <1>17 DEF Next

\* A dropped cell is never entered again.
LEMMA DropStep ==
    ASSUME CallInv, DropInv, Next
    PROVE  DropInv'
<1>1. ASSUME NEW t \in Thread, Load(t) PROVE DropInv'
  BY <1>1 DEF Load, DropInv
<1>2. ASSUME NEW t \in Thread, LoadPointer(t) PROVE DropInv'
  BY <1>2 DEF LoadPointer, DropInv
<1>3. ASSUME NEW t \in Thread, LoadFull(t) PROVE DropInv'
  BY <1>3 DEF LoadFull, DropInv
<1>4. ASSUME NEW t \in Thread, DropGuard(t) PROVE DropInv'
  BY <1>4 DEF DropGuard, DropInv
<1>5. ASSUME NEW t \in Thread, DropKept(t) PROVE DropInv'
  BY <1>5 DEF DropKept, DropInv
<1>6. ASSUME NEW t \in Thread, Store(t) PROVE DropInv'
  BY <1>6 DEF Store, MayCall, DropInv
<1>7. ASSUME NEW t \in Thread, StoreSwap(t) PROVE DropInv'
  <2>1. call[t].next # None /\ current # None
    BY <1>7 DEF StoreSwap, CallInv, DropInv
  <2> QED
    BY <1>7, <2>1 DEF StoreSwap, DropInv
<1>8. ASSUME NEW t \in Thread, Rcu(t) PROVE DropInv'
  BY <1>8 DEF Rcu, MayCall, DropInv
<1>9. ASSUME NEW t \in Thread, RcuLoad(t) PROVE DropInv'
  BY <1>9 DEF RcuLoad, DropInv
<1>10. ASSUME NEW t \in Thread, RcuCompute(t) PROVE DropInv'
  BY <1>10 DEF RcuCompute, DropInv
<1>11. ASSUME NEW t \in Thread, RcuExchange(t) PROVE DropInv'
  <2>1. call[t].next # None /\ current # None
    BY <1>11 DEF RcuExchange, CallInv, DropInv
  <2> QED
    BY <1>11, <2>1 DEF RcuExchange, DropInv
<1>12. ASSUME NEW t \in Thread, RetireDefer(t) PROVE DropInv'
  BY <1>12 DEF RetireDefer, DropInv
<1>13. ASSUME NEW t \in Thread, RetirePush(t) PROVE DropInv'
  BY <1>13 DEF RetirePush, DropInv
<1>14. ASSUME NEW t \in Thread, Reclaim(t) PROVE DropInv'
  BY <1>14 DEF Reclaim, MayCall, DropInv
<1>15. ASSUME NEW t \in Thread, ReleaseElapsed(t) PROVE DropInv'
  BY <1>15 DEF ReleaseElapsed, DropInv
<1>16. CASE RunCallback
  BY <1>16 DEF RunCallback, DropInv
<1>17. CASE DropCell
  BY <1>17 DEF DropCell, DropInv, NoCall
<1> QED
  BY <1>1, <1>2, <1>3, <1>4, <1>5, <1>6, <1>7, <1>8, <1>9, <1>10,
     <1>11, <1>12, <1>13, <1>14, <1>15, <1>16, <1>17 DEF Next


-----------------------------------------------------------------------------
(* The strong counts.                                                      *)

\* Two sets of threads that differ in t at most.
LEMMA CountDiffers ==
    ASSUME NEW S \in SUBSET Thread, NEW R \in SUBSET Thread, NEW t \in Thread,
           \A u \in Thread : u # t => (u \in R <=> u \in S)
    PROVE  /\ Cardinality(S) \in Nat /\ Cardinality(R) \in Nat
           /\ Cardinality(R) = Cardinality(S) + (IF t \in R THEN 1 ELSE 0)
                                              - (IF t \in S THEN 1 ELSE 0)
<1>1. Cardinality(S) \in Nat /\ Cardinality(R) \in Nat
  BY CountThreads
<1>2. CASE t \in R /\ t \notin S
  <2>1. R = S \union {t}
    BY <1>2
  <2> QED
    BY <1>1, <1>2, <2>1, CountThreads
<1>3. CASE t \in S /\ t \notin R
  <2>1. R = S \ {t}
    BY <1>3
  <2> QED
    BY <1>1, <1>3, <2>1, CountThreads
<1>4. CASE t \in S <=> t \in R
  <2>1. R = S
    BY <1>4
  <2> QED
    BY <1>1, <1>4, <2>1
<1> QED
  BY <1>2, <1>3, <1>4

\* A new record for the call of t moves t in and out of two sets.
LEMMA CallCounts ==
    ASSUME NEW t \in Thread, NEW a \in Addr, NEW o, NEW p, NEW i, NEW x, NEW n,
           CallBecomes(t, o, p, i, x, n)
    PROVE  /\ Cardinality(Publishers(a)) \in Nat
           /\ Cardinality(Publishers(a)') =
                 Cardinality(Publishers(a)) + (IF n = a THEN 1 ELSE 0)
                                            - (IF call[t].next = a THEN 1 ELSE 0)
           /\ Cardinality(Retirers(a)) \in Nat
           /\ Cardinality(Retirers(a)') =
                 Cardinality(Retirers(a))
                 + (IF p \in {"defer", "push"} /\ x = a THEN 1 ELSE 0)
                 - (IF Retiring(t) /\ call[t].ptr = a THEN 1 ELSE 0)
<1>1. /\ Publishers(a) \in SUBSET Thread /\ Publishers(a)' \in SUBSET Thread
      /\ Retirers(a) \in SUBSET Thread /\ Retirers(a)' \in SUBSET Thread
  BY DEF Publishers, Retirers
<1>2. \A u \in Thread : u # t => /\ u \in Publishers(a)' <=> u \in Publishers(a)
                                 /\ u \in Retirers(a)' <=> u \in Retirers(a)
  BY DEF CallBecomes, Publishers, Retirers
<1>3. /\ t \in Publishers(a)' <=> n = a
      /\ t \in Publishers(a) <=> call[t].next = a
      /\ t \in Retirers(a)' <=> p \in {"defer", "push"} /\ x = a
      /\ t \in Retirers(a) <=> Retiring(t) /\ call[t].ptr = a
  BY DEF CallBecomes, Publishers, Retirers, Retiring
<1>4. /\ Cardinality(Publishers(a)) \in Nat
      /\ Cardinality(Publishers(a)') =
            Cardinality(Publishers(a)) + (IF n = a THEN 1 ELSE 0)
                                       - (IF call[t].next = a THEN 1 ELSE 0)
  BY <1>1, <1>2, <1>3, CountDiffers
<1>5. /\ Cardinality(Retirers(a)) \in Nat
      /\ Cardinality(Retirers(a)') =
            Cardinality(Retirers(a))
            + (IF p \in {"defer", "push"} /\ x = a THEN 1 ELSE 0)
            - (IF Retiring(t) /\ call[t].ptr = a THEN 1 ELSE 0)
  BY <1>1, <1>2, <1>3, CountDiffers
<1> QED
  BY <1>4, <1>5

\* The Arc that load_full hands out, and its end.
LEMMA KeptCounts ==
    ASSUME kept \in [Thread -> Pointer], NEW t \in Thread, NEW a \in Addr, NEW k,
           kept' = [kept EXCEPT ![t] = k]
    PROVE  /\ Cardinality(Keepers(a)) \in Nat
           /\ Cardinality(Keepers(a)') =
                 Cardinality(Keepers(a)) + (IF k = a THEN 1 ELSE 0)
                                         - (IF kept[t] = a THEN 1 ELSE 0)
<1>1. Keepers(a) \in SUBSET Thread /\ Keepers(a)' \in SUBSET Thread
  BY DEF Keepers
<1>2. \A u \in Thread : u # t => (u \in Keepers(a)' <=> u \in Keepers(a))
  BY DEF Keepers
<1>3. (t \in Keepers(a)' <=> k = a) /\ (t \in Keepers(a) <=> kept[t] = a)
  BY DEF Keepers
<1> QED
  BY <1>1, <1>2, <1>3, CountDiffers

\* HeapAccounted for one address, in named sets.
Accounted(a) ==
    strong[a] = Cardinality(Keepers(a)) + Cardinality(Publishers(a))
              + Cardinality(Retirers(a)) + (IF current = a THEN 1 ELSE 0)
              + (IF a \in retired THEN 1 ELSE 0)

LEMMA AccountedByName ==
    HeapAccounted <=> \A a \in Addr : Accounted(a)
BY DEF HeapAccounted, Accounted, Keepers, Publishers, Retirers

\* The sets of owners only depend on what they are read from.
LEMMA CountsUnchanged ==
    ASSUME NEW a \in Addr
    PROVE  /\ /\ Cardinality(Keepers(a)) \in Nat
              /\ Cardinality(Publishers(a)) \in Nat
              /\ Cardinality(Retirers(a)) \in Nat
           /\ UNCHANGED kept => Cardinality(Keepers(a)') = Cardinality(Keepers(a))
           /\ UNCHANGED call =>
                 /\ Cardinality(Publishers(a)') = Cardinality(Publishers(a))
                 /\ Cardinality(Retirers(a)') = Cardinality(Retirers(a))
<1>1. /\ Keepers(a) \in SUBSET Thread /\ Publishers(a) \in SUBSET Thread
      /\ Retirers(a) \in SUBSET Thread
  BY DEF Keepers, Publishers, Retirers
<1> QED
  BY <1>1, CountThreads DEF Keepers, Publishers, Retirers

\* Every count that is taken or dropped belongs to an owner that comes or goes.
LEMMA HeapStep ==
    ASSUME TypeInv, CallInv, OwnerInv, HeapAccounted, Next
    PROVE  HeapAccounted'
<1>0. (\A a \in Addr : Accounted(a)') => HeapAccounted'
  BY DEF HeapAccounted, Accounted, Keepers, Publishers, Retirers
<1>1. ASSUME NEW t \in Thread, Load(t) PROVE HeapAccounted'
  <2> SUFFICES ASSUME NEW a \in Addr PROVE Accounted(a)'
    BY <1>0
  <2>1. UNCHANGED <<strong, kept, call, current, retired>>
    BY <1>1 DEF Load, heap
  <2>2. Accounted(a) /\ strong[a] \in Nat
    BY AccountedByName DEF TypeInv
  <2> QED
    BY <2>1, <2>2, CountsUnchanged DEF Accounted
<1>2. ASSUME NEW t \in Thread, LoadPointer(t) PROVE HeapAccounted'
  <2> SUFFICES ASSUME NEW a \in Addr PROVE Accounted(a)'
    BY <1>0
  <2>1. UNCHANGED <<strong, kept, call, current, retired>>
    BY <1>2 DEF LoadPointer, heap
  <2>2. Accounted(a) /\ strong[a] \in Nat
    BY AccountedByName DEF TypeInv
  <2> QED
    BY <2>1, <2>2, CountsUnchanged DEF Accounted
<1>3. ASSUME NEW t \in Thread, LoadFull(t) PROVE HeapAccounted'
  <2> SUFFICES ASSUME NEW a \in Addr PROVE Accounted(a)'
    BY <1>0
  <2>1. /\ UNCHANGED <<call, current, retired>>
        /\ kept \in [Thread -> Pointer]
        /\ kept' = [kept EXCEPT ![t] = guard[t].ptr] /\ kept[t] = None
        /\ None # a /\ strong'[a] = strong[a] + IF guard[t].ptr = a THEN 1 ELSE 0
    BY <1>3, EpochCellAssumption DEF LoadFull, TypeInv
  <2>2. Accounted(a) /\ strong[a] \in Nat
    BY AccountedByName DEF TypeInv
  <2>4. /\ Cardinality(Keepers(a)) \in Nat
        /\ Cardinality(Keepers(a)') =
              Cardinality(Keepers(a)) + (IF guard[t].ptr = a THEN 1 ELSE 0)
                                      - (IF kept[t] = a THEN 1 ELSE 0)
    BY <2>1, KeptCounts
  <2> QED
    BY <2>1, <2>2, CountsUnchanged, <2>4 DEF Accounted
<1>4. ASSUME NEW t \in Thread, DropGuard(t) PROVE HeapAccounted'
  <2> SUFFICES ASSUME NEW a \in Addr PROVE Accounted(a)'
    BY <1>0
  <2>1. UNCHANGED <<strong, kept, call, current, retired>>
    BY <1>4 DEF DropGuard, heap
  <2>2. Accounted(a) /\ strong[a] \in Nat
    BY AccountedByName DEF TypeInv
  <2> QED
    BY <2>1, <2>2, CountsUnchanged DEF Accounted
<1>5. ASSUME NEW t \in Thread, DropKept(t) PROVE HeapAccounted'
  <2> SUFFICES ASSUME NEW a \in Addr PROVE Accounted(a)'
    BY <1>0
  <2>1. /\ UNCHANGED <<call, current, retired>>
        /\ kept \in [Thread -> Pointer]
        /\ kept' = [kept EXCEPT ![t] = None] /\ None # a
        /\ strong'[a] = strong[a] - IF kept[t] = a THEN 1 ELSE 0
    BY <1>5, EpochCellAssumption DEF DropKept, Released, TypeInv
  <2>2. Accounted(a) /\ strong[a] \in Nat
    BY AccountedByName DEF TypeInv
  <2>4. /\ Cardinality(Keepers(a)) \in Nat
        /\ Cardinality(Keepers(a)') =
              Cardinality(Keepers(a)) + (IF None = a THEN 1 ELSE 0)
                                      - (IF kept[t] = a THEN 1 ELSE 0)
    BY <2>1, KeptCounts
  <2> QED
    BY <2>1, <2>2, CountsUnchanged, <2>4 DEF Accounted
<1>6. ASSUME NEW t \in Thread, Store(t) PROVE HeapAccounted'
  <2> SUFFICES ASSUME NEW a \in Addr PROVE Accounted(a)'
    BY <1>0
  <2>3. PICK b \in Addr :
          /\ strong[b] = 0 /\ strong' = [strong EXCEPT ![b] = 1]
          /\ CallBecomes(t, "store", "exchange", writes + 1, None, b)
    BY <1>6, CallEffects
  <2>1. /\ UNCHANGED <<kept, current, retired>> /\ None # a
        /\ call[t].next = None /\ ~Retiring(t)
        /\ strong'[a] = strong[a] + IF b = a THEN 1 ELSE 0
    BY <1>6, <2>3, EpochCellAssumption DEF Store, MayCall, NoCall, Retiring, TypeInv
  <2>2. Accounted(a) /\ strong[a] \in Nat
    BY AccountedByName DEF TypeInv
  <2> QED
    BY <2>1, <2>2, <2>3, CountsUnchanged, CallCounts DEF Accounted
<1>7. ASSUME NEW t \in Thread, StoreSwap(t) PROVE HeapAccounted'
  <2> SUFFICES ASSUME NEW a \in Addr PROVE Accounted(a)'
    BY <1>0
  <2>3. CallBecomes(t, "store", "defer", call[t].id, current, None)
    BY <1>7, CallEffects
  <2>1. /\ UNCHANGED <<strong, kept, retired>> /\ None # a
        /\ current' = call[t].next /\ call[t].pc = "exchange"
    BY <1>7, EpochCellAssumption DEF StoreSwap, heap
  <2>2. Accounted(a) /\ strong[a] \in Nat
    BY AccountedByName DEF TypeInv
  <2> QED
    BY <2>1, <2>2, CountsUnchanged, <2>3, CallCounts DEF Accounted, Retiring
<1>8. ASSUME NEW t \in Thread, Rcu(t) PROVE HeapAccounted'
  <2> SUFFICES ASSUME NEW a \in Addr PROVE Accounted(a)'
    BY <1>0
  <2>3. CallBecomes(t, "rcu", "load", writes + 1, None, None)
    BY <1>8, CallEffects
  <2>1. /\ UNCHANGED <<strong, kept, current, retired>> /\ None # a
        /\ call[t].next = None /\ ~Retiring(t)
    BY <1>8, EpochCellAssumption DEF Rcu, MayCall, NoCall, Retiring, heap
  <2>2. Accounted(a) /\ strong[a] \in Nat
    BY AccountedByName DEF TypeInv
  <2> QED
    BY <2>1, <2>2, CountsUnchanged, <2>3, CallCounts DEF Accounted
<1>9. ASSUME NEW t \in Thread, RcuLoad(t) PROVE HeapAccounted'
  <2> SUFFICES ASSUME NEW a \in Addr PROVE Accounted(a)'
    BY <1>0
  <2>3. CallBecomes(t, call[t].op, "compute", call[t].id, current, call[t].next)
    BY <1>9, CallEffects
  <2>1. /\ UNCHANGED <<strong, kept, current, retired>> /\ None # a
        /\ ~Retiring(t)
    BY <1>9, EpochCellAssumption DEF RcuLoad, Retiring, heap
  <2>2. Accounted(a) /\ strong[a] \in Nat
    BY AccountedByName DEF TypeInv
  <2> QED
    BY <2>1, <2>2, CountsUnchanged, <2>3, CallCounts DEF Accounted
<1>10. ASSUME NEW t \in Thread, RcuCompute(t) PROVE HeapAccounted'
  <2> SUFFICES ASSUME NEW a \in Addr PROVE Accounted(a)'
    BY <1>0
  <2>3. PICK b \in Addr :
          /\ strong[b] = 0 /\ strong' = [strong EXCEPT ![b] = 1]
          /\ CallBecomes(t, call[t].op, "exchange", call[t].id, call[t].ptr, b)
    BY <1>10, CallEffects
  <2>1. /\ UNCHANGED <<kept, current, retired>> /\ None # a
        /\ call[t].next = None /\ ~Retiring(t)
        /\ strong'[a] = strong[a] + IF b = a THEN 1 ELSE 0
    BY <1>10, <2>3, EpochCellAssumption DEF RcuCompute, CallInv, Retiring, TypeInv
  <2>2. Accounted(a) /\ strong[a] \in Nat
    BY AccountedByName DEF TypeInv
  <2> QED
    BY <2>1, <2>2, <2>3, CountsUnchanged, CallCounts DEF Accounted
<1>11. ASSUME NEW t \in Thread, RcuExchange(t) PROVE HeapAccounted'
  <2>1. CASE current = call[t].ptr
    <3> SUFFICES ASSUME NEW a \in Addr PROVE Accounted(a)'
      BY <1>0
    <3>1. CallBecomes(t, "rcu", "defer", call[t].id, call[t].ptr, None)
      BY <1>11, <2>1, CallEffects
    <3>2. /\ UNCHANGED <<strong, kept, retired>> /\ None # a
          /\ current' = call[t].next /\ ~Retiring(t)
      BY <1>11, <2>1, EpochCellAssumption DEF RcuExchange, Retiring
    <3>3. Accounted(a) /\ strong[a] \in Nat
      BY AccountedByName DEF TypeInv
    <3> QED
      BY <2>1, <3>1, <3>2, <3>3, CountsUnchanged, CallCounts DEF Accounted
  <2>2. CASE current # call[t].ptr
    <3> SUFFICES ASSUME NEW a \in Addr PROVE Accounted(a)'
      BY <1>0
    <3>1. CallBecomes(t, "rcu", "compute", call[t].id, current, None)
      BY <1>11, <2>2, CallEffects
    <3>2. /\ UNCHANGED <<current, kept, retired>> /\ None # a /\ ~Retiring(t)
          /\ strong'[a] = strong[a] - IF call[t].next = a THEN 1 ELSE 0
      BY <1>11, <2>2, EpochCellAssumption DEF RcuExchange, Retiring, Released, TypeInv
    <3>3. Accounted(a) /\ strong[a] \in Nat
      BY AccountedByName DEF TypeInv
    <3> QED
      BY <3>1, <3>2, <3>3, CountsUnchanged, CallCounts DEF Accounted
  <2> QED
    BY <2>1, <2>2
<1>12. ASSUME NEW t \in Thread, RetireDefer(t) PROVE HeapAccounted'
  <2> SUFFICES ASSUME NEW a \in Addr PROVE Accounted(a)'
    BY <1>0
  <2>3. CallBecomes(t, call[t].op, "push", call[t].id, call[t].ptr, call[t].next)
    BY <1>12, CallEffects
  <2>1. /\ UNCHANGED <<strong, kept, current, retired>> /\ None # a
        /\ Retiring(t)
    BY <1>12, EpochCellAssumption DEF RetireDefer, Retiring, heap
  <2>2. Accounted(a) /\ strong[a] \in Nat
    BY AccountedByName DEF TypeInv
  <2> QED
    BY <2>1, <2>2, CountsUnchanged, <2>3, CallCounts DEF Accounted
<1>13. ASSUME NEW t \in Thread, RetirePush(t) PROVE HeapAccounted'
  <2> SUFFICES ASSUME NEW a \in Addr PROVE Accounted(a)'
    BY <1>0
  <2>3. CallBecomes(t, call[t].op, "release", call[t].id, None, call[t].next)
    BY <1>13, CallEffects
  <2>1. /\ UNCHANGED <<strong, kept, current>>
        /\ Retiring(t) /\ call[t].ptr \notin retired
        /\ retired' = retired \union {call[t].ptr}
    BY <1>13 DEF RetirePush, Retiring, OwnerInv, heap
  <2>2. Accounted(a) /\ strong[a] \in Nat
    BY AccountedByName DEF TypeInv
  <2> QED
    BY <2>1, <2>2, CountsUnchanged, <2>3, CallCounts DEF Accounted
<1>14. ASSUME NEW t \in Thread, Reclaim(t) PROVE HeapAccounted'
  <2> SUFFICES ASSUME NEW a \in Addr PROVE Accounted(a)'
    BY <1>0
  <2>3. CallBecomes(t, "reclaim", "release", writes + 1, None, None)
    BY <1>14, CallEffects
  <2>1. /\ UNCHANGED <<strong, kept, current, retired>> /\ None # a
        /\ call[t].next = None /\ ~Retiring(t)
    BY <1>14, EpochCellAssumption DEF Reclaim, MayCall, NoCall, Retiring, heap
  <2>2. Accounted(a) /\ strong[a] \in Nat
    BY AccountedByName DEF TypeInv
  <2> QED
    BY <2>1, <2>2, CountsUnchanged, <2>3, CallCounts DEF Accounted
<1>15. ASSUME NEW t \in Thread, ReleaseElapsed(t) PROVE HeapAccounted'
  <2> SUFFICES ASSUME NEW a \in Addr PROVE Accounted(a)'
    BY <1>0
  <2>3. CallBecomes(t, "none", "idle", 0, None, None)
    BY <1>15, CallEffects
  <2>1. /\ UNCHANGED <<kept, current>> /\ None # a
        /\ ~Retiring(t) /\ call[t].next = None
        /\ retired' = retired \ (retired \intersect elapsed)
        /\ strong'[a] = strong[a] - IF a \in retired \intersect elapsed THEN 1 ELSE 0
    BY <1>15, EpochCellAssumption DEF ReleaseElapsed, Retiring, CallInv
  <2>2. Accounted(a) /\ strong[a] \in Nat
    BY AccountedByName DEF TypeInv
  <2> QED
    BY <2>1, <2>2, CountsUnchanged, <2>3, CallCounts DEF Accounted
<1>16. CASE RunCallback
  <2> SUFFICES ASSUME NEW a \in Addr PROVE Accounted(a)'
    BY <1>0
  <2>1. UNCHANGED <<strong, kept, call, current, retired>>
    BY <1>16 DEF RunCallback, heap
  <2>2. Accounted(a) /\ strong[a] \in Nat
    BY AccountedByName DEF TypeInv
  <2> QED
    BY <2>1, <2>2, CountsUnchanged DEF Accounted
<1>17. CASE DropCell
  <2> SUFFICES ASSUME NEW a \in Addr PROVE Accounted(a)'
    BY <1>0
  <2>1. /\ UNCHANGED <<kept, call>> /\ None # a /\ current \notin retired
        /\ current' = None /\ retired' = {}
        /\ strong'[a] = strong[a] - IF a \in retired \union {current} THEN 1 ELSE 0
    BY <1>17, EpochCellAssumption DEF DropCell, OwnerInv
  <2>2. Accounted(a) /\ strong[a] \in Nat
    BY AccountedByName DEF TypeInv
  <2> QED
    BY <2>1, <2>2, CountsUnchanged DEF Accounted
<1> QED
  BY <1>1, <1>2, <1>3, <1>4, <1>5, <1>6, <1>7, <1>8, <1>9, <1>10,
     <1>11, <1>12, <1>13, <1>14, <1>15, <1>16, <1>17 DEF Next

-----------------------------------------------------------------------------
(* Owners.                                                                 *)

\* An address changes owner and is never given to two; only a free one is allocated.
LEMMA OwnerStep ==
    ASSUME TypeInv, CallInv, OwnerInv, HeapAccounted, Next
    PROVE  OwnerInv'
<1>1. ASSUME NEW t \in Thread, Load(t) PROVE OwnerInv'
  BY <1>1 DEF Load, OwnerInv, Retiring
<1>2. ASSUME NEW t \in Thread, LoadPointer(t) PROVE OwnerInv'
  BY <1>2 DEF LoadPointer, OwnerInv, Retiring
<1>3. ASSUME NEW t \in Thread, LoadFull(t) PROVE OwnerInv'
  BY <1>3 DEF LoadFull, OwnerInv, Retiring
<1>4. ASSUME NEW t \in Thread, DropGuard(t) PROVE OwnerInv'
  BY <1>4 DEF DropGuard, OwnerInv, Retiring
<1>5. ASSUME NEW t \in Thread, DropKept(t) PROVE OwnerInv'
  BY <1>5 DEF DropKept, OwnerInv, Retiring
<1>6. ASSUME NEW t \in Thread, Store(t) PROVE OwnerInv'
  <2>1. PICK a \in Addr : /\ strong[a] = 0
                         /\ CallBecomes(t, "store", "exchange", writes + 1, None, a)
    BY <1>6, CallEffects
  <2>2. UNCHANGED <<current, retired>> /\ call[t].pc = "idle"
    BY <1>6 DEF Store, MayCall, NoCall
  <2>3. ~Owned(a)
    BY <2>1, OwnedCounted
  <2> QED
    BY <2>1, <2>2, <2>3 DEF CallBecomes, Owned, OwnerInv, Retiring
<1>7. ASSUME NEW t \in Thread, StoreSwap(t) PROVE OwnerInv'
  <2>1. CallBecomes(t, "store", "defer", call[t].id, current, None)
    BY <1>7, CallEffects
  <2>2. /\ current' = call[t].next /\ UNCHANGED retired
        /\ call[t].pc = "exchange" /\ call[t].next # None
    BY <1>7 DEF StoreSwap, CallInv
  <2> QED
    BY <2>1, <2>2 DEF CallBecomes, OwnerInv, Retiring
<1>8. ASSUME NEW t \in Thread, Rcu(t) PROVE OwnerInv'
  <2>1. CallBecomes(t, "rcu", "load", writes + 1, None, None)
    BY <1>8, CallEffects
  <2>2. UNCHANGED <<current, retired>>
    BY <1>8 DEF Rcu
  <2> QED
    BY <2>1, <2>2 DEF CallBecomes, OwnerInv, Retiring
<1>9. ASSUME NEW t \in Thread, RcuLoad(t) PROVE OwnerInv'
  <2>1. CallBecomes(t, call[t].op, "compute", call[t].id, current, call[t].next)
    BY <1>9, CallEffects
  <2>2. UNCHANGED <<current, retired>> /\ call[t].next = None
    BY <1>9 DEF RcuLoad, CallInv
  <2> QED
    BY <2>1, <2>2 DEF CallBecomes, OwnerInv, Retiring
<1>10. ASSUME NEW t \in Thread, RcuCompute(t) PROVE OwnerInv'
  <2>1. PICK a \in Addr : /\ strong[a] = 0
                         /\ CallBecomes(t, call[t].op, "exchange", call[t].id, call[t].ptr, a)
    BY <1>10, CallEffects
  <2>2. UNCHANGED <<current, retired>> /\ call[t].pc = "compute"
    BY <1>10 DEF RcuCompute
  <2>3. ~Owned(a)
    BY <2>1, OwnedCounted
  <2> QED
    BY <2>1, <2>2, <2>3 DEF CallBecomes, Owned, OwnerInv, Retiring
<1>11. ASSUME NEW t \in Thread, RcuExchange(t) PROVE OwnerInv'
  <2>1. call[t].next # None /\ UNCHANGED retired /\ call[t].pc = "exchange"
    BY <1>11 DEF RcuExchange, CallInv
  <2>2. CASE current = call[t].ptr
    <3>1. CallBecomes(t, "rcu", "defer", call[t].id, call[t].ptr, None)
      BY <1>11, <2>2, CallEffects
    <3>2. current' = call[t].next
      BY <1>11, <2>2 DEF RcuExchange
    <3> QED
      BY <2>1, <2>2, <3>1, <3>2 DEF CallBecomes, OwnerInv, Retiring
  <2>3. CASE current # call[t].ptr
    <3>1. CallBecomes(t, "rcu", "compute", call[t].id, current, None)
      BY <1>11, <2>3, CallEffects
    <3>2. UNCHANGED current
      BY <1>11, <2>3 DEF RcuExchange
    <3> QED
      BY <2>1, <3>1, <3>2 DEF CallBecomes, OwnerInv, Retiring
  <2> QED
    BY <2>2, <2>3
<1>12. ASSUME NEW t \in Thread, RetireDefer(t) PROVE OwnerInv'
  <2>1. CallBecomes(t, call[t].op, "push", call[t].id, call[t].ptr, call[t].next)
    BY <1>12, CallEffects
  <2>2. UNCHANGED <<current, retired>> /\ call[t].pc = "defer"
    BY <1>12 DEF RetireDefer
  <2> QED
    BY <2>1, <2>2 DEF CallBecomes, OwnerInv, Retiring
<1>13. ASSUME NEW t \in Thread, RetirePush(t) PROVE OwnerInv'
  <2>1. CallBecomes(t, call[t].op, "release", call[t].id, None, call[t].next)
    BY <1>13, CallEffects
  <2>2. /\ UNCHANGED current /\ retired' = retired \union {call[t].ptr}
        /\ call[t].pc = "push" /\ call[t].next = None
    BY <1>13 DEF RetirePush, CallInv
  <2> QED
    BY <2>1, <2>2 DEF CallBecomes, OwnerInv, Retiring
<1>14. ASSUME NEW t \in Thread, Reclaim(t) PROVE OwnerInv'
  <2>1. CallBecomes(t, "reclaim", "release", writes + 1, None, None)
    BY <1>14, CallEffects
  <2>2. UNCHANGED <<current, retired>>
    BY <1>14 DEF Reclaim
  <2> QED
    BY <2>1, <2>2 DEF CallBecomes, OwnerInv, Retiring
<1>15. ASSUME NEW t \in Thread, ReleaseElapsed(t) PROVE OwnerInv'
  <2>1. CallBecomes(t, "none", "idle", 0, None, None)
    BY <1>15, CallEffects
  <2>2. UNCHANGED current /\ retired' \subseteq retired
    BY <1>15 DEF ReleaseElapsed
  <2> QED
    BY <2>1, <2>2 DEF CallBecomes, OwnerInv, Retiring
<1>16. CASE RunCallback
  BY <1>16 DEF RunCallback, OwnerInv, Retiring
<1>17. CASE DropCell
  BY <1>17 DEF DropCell, NoCall, OwnerInv, Retiring
<1> QED
  BY <1>1, <1>2, <1>3, <1>4, <1>5, <1>6, <1>7, <1>8, <1>9, <1>10,
     <1>11, <1>12, <1>13, <1>14, <1>15, <1>16, <1>17 DEF Next

-----------------------------------------------------------------------------
(* Callbacks.                                                              *)

\* A callback is registered for a value nobody has registered yet, and its flag
\* goes up once.
LEMMA CallbackStep ==
    ASSUME TypeInv, CallInv, DropInv, OwnerInv, CallbackInv, Next
    PROVE  CallbackInv'
<1>1. ASSUME NEW t \in Thread, Load(t) PROVE CallbackInv'
  BY <1>1 DEF Load, CallbackInv, Handed
<1>2. ASSUME NEW t \in Thread, LoadPointer(t) PROVE CallbackInv'
  BY <1>2 DEF LoadPointer, CallbackInv, Handed
<1>3. ASSUME NEW t \in Thread, LoadFull(t) PROVE CallbackInv'
  <2>1. deferred' = Trimmed(deferred, {t}) /\ deferred \subseteq Callback
    BY <1>3, UnpinTrims DEF LoadFull, TypeInv
  <2>2. UNCHANGED <<current, call, retired, elapsed>>
    BY <1>3 DEF LoadFull
  <2> QED
    BY <2>1, <2>2, TrimmedCallbacks, SMTT(30) DEF CallbackInv, Handed
<1>4. ASSUME NEW t \in Thread, DropGuard(t) PROVE CallbackInv'
  <2>1. deferred' = Trimmed(deferred, {t}) /\ deferred \subseteq Callback
    BY <1>4, UnpinTrims DEF DropGuard, TypeInv
  <2>2. UNCHANGED <<current, call, retired, elapsed>>
    BY <1>4 DEF DropGuard
  <2> QED
    BY <2>1, <2>2, TrimmedCallbacks, SMTT(30) DEF CallbackInv, Handed
<1>5. ASSUME NEW t \in Thread, DropKept(t) PROVE CallbackInv'
  BY <1>5 DEF DropKept, CallbackInv, Handed
<1>6. ASSUME NEW t \in Thread, Store(t) PROVE CallbackInv'
  <2>1. PICK a \in Addr :
          CallBecomes(t, "store", "exchange", writes + 1, None, a)
    BY <1>6, CallEffects
  <2>2. /\ UNCHANGED <<retired, deferred, elapsed>> /\ current # None
        /\ call[t].pc = "idle"
    BY <1>6 DEF Store, DropInv, MayCall, NoCall
  <2>3. \A b : Handed(b) => Handed(b)'
    BY <2>1, <2>2 DEF CallBecomes, Handed
  <2> QED
    BY <2>2, <2>3 DEF CallbackInv
<1>7. ASSUME NEW t \in Thread, StoreSwap(t) PROVE CallbackInv'
  <2>1. CallBecomes(t, "store", "defer", call[t].id, current, None)
    BY <1>7, CallEffects
  <2>2. /\ UNCHANGED <<retired, deferred, elapsed>> /\ current # None
        /\ call[t].pc = "exchange"
    BY <1>7 DEF StoreSwap, DropInv
  <2>3. \A b : Handed(b) => Handed(b)'
    BY <2>1, <2>2 DEF CallBecomes, Handed
  <2> QED
    BY <2>2, <2>3 DEF CallbackInv
<1>8. ASSUME NEW t \in Thread, Rcu(t) PROVE CallbackInv'
  <2>1. CallBecomes(t, "rcu", "load", writes + 1, None, None)
    BY <1>8, CallEffects
  <2>2. /\ UNCHANGED <<retired, deferred, elapsed>> /\ current # None
        /\ call[t].pc = "idle"
    BY <1>8 DEF Rcu, DropInv, MayCall, NoCall
  <2>3. \A b : Handed(b) => Handed(b)'
    BY <2>1, <2>2 DEF CallBecomes, Handed
  <2> QED
    BY <2>2, <2>3 DEF CallbackInv
<1>9. ASSUME NEW t \in Thread, RcuLoad(t) PROVE CallbackInv'
  <2>1. CallBecomes(t, call[t].op, "compute", call[t].id, current, call[t].next)
    BY <1>9, CallEffects
  <2>2. /\ UNCHANGED <<retired, deferred, elapsed>> /\ current # None
        /\ call[t].pc = "load"
    BY <1>9 DEF RcuLoad, DropInv
  <2>3. \A b : Handed(b) => Handed(b)'
    BY <2>1, <2>2 DEF CallBecomes, Handed
  <2> QED
    BY <2>2, <2>3 DEF CallbackInv
<1>10. ASSUME NEW t \in Thread, RcuCompute(t) PROVE CallbackInv'
  <2>1. PICK a \in Addr :
          CallBecomes(t, call[t].op, "exchange", call[t].id, call[t].ptr, a)
    BY <1>10, CallEffects
  <2>2. /\ UNCHANGED <<retired, deferred, elapsed>> /\ current # None
        /\ call[t].pc = "compute"
    BY <1>10 DEF RcuCompute, DropInv
  <2>3. \A b : Handed(b) => Handed(b)'
    BY <2>1, <2>2 DEF CallBecomes, Handed
  <2> QED
    BY <2>2, <2>3 DEF CallbackInv
<1>11. ASSUME NEW t \in Thread, RcuExchange(t) PROVE CallbackInv'
  <2>1. IF current = call[t].ptr
        THEN CallBecomes(t, "rcu", "defer", call[t].id, call[t].ptr, None)
        ELSE CallBecomes(t, "rcu", "compute", call[t].id, current, None)
    BY <1>11, CallEffects
  <2>2. /\ UNCHANGED <<retired, deferred, elapsed>> /\ current # None
        /\ call[t].pc = "exchange"
    BY <1>11 DEF RcuExchange, DropInv
  <2>3. \A b : Handed(b) => Handed(b)'
    BY <2>1, <2>2 DEF CallBecomes, Handed
  <2> QED
    BY <2>2, <2>3 DEF CallbackInv
<1>12. ASSUME NEW t \in Thread, RetireDefer(t) PROVE CallbackInv'
  <2> DEFINE still == IF guard[t].pc = "none" THEN {t} ELSE {}
  <2>1. CallBecomes(t, call[t].op, "push", call[t].id, call[t].ptr, call[t].next)
    BY <1>12, CallEffects
  <2>2. /\ UNCHANGED <<current, retired, elapsed>> /\ current # None
        /\ call[t].pc = "defer" /\ deferred \subseteq Callback
    BY <1>12 DEF RetireDefer, DropInv, TypeInv
  <2>3. PICK a \in Addr : a = call[t].ptr
    BY <1>12 DEF RetireDefer, CallInv, Retiring, TypeInv, Call, Pointer
  <2>4. PICK mine \in Callback :
          mine.addr = a /\ mine = [addr |-> call[t].ptr, waits |-> {u \in Thread : Pinned(u)}]
    BY <2>3 DEF Callback
  <2>5. PICK added \in SUBSET Callback : added = deferred \union {mine}
    BY <2>2
  <2>6. PICK out : out = still
    OBVIOUS
  <2>7. deferred' = Trimmed(added, out)
    BY <1>12, <2>4, <2>5, <2>6 DEF RetireDefer, Trimmed
  <2>8. /\ \A b : Handed(b) => Handed(b)'
        /\ Handed(a)' /\ ~Handed(a)
    BY <2>1, <2>2, <2>3 DEF CallBecomes, Handed, OwnerInv, Retiring
  <2>9. \A d \in deferred : Handed(d.addr)' /\ d.addr \notin elapsed /\ d.addr # a
    BY <2>2, <2>8 DEF CallbackInv
  <2>10. a \notin elapsed
    BY <2>2, <2>8 DEF CallbackInv
  <2>11. \A d \in added : Handed(d.addr)' /\ d.addr \notin elapsed
    BY <2>4, <2>5, <2>8, <2>9, <2>10
  <2>12. \A d, e \in added : d.addr = e.addr => d = e
    BY <2>2, <2>4, <2>5, <2>9 DEF CallbackInv
  <2>13. /\ \A e \in Trimmed(added, out) : \E d \in added : e.addr = d.addr
         /\ \A d, e \in Trimmed(added, out) : d.addr = e.addr => d = e
    <3>1. \A e \in Trimmed(added, out) :
            \E d \in added : e.addr = d.addr /\ e.waits = d.waits \ out
      BY TrimmedCallbacks
    <3>2. (\A d, e \in added : d.addr = e.addr => d = e) =>
            \A d, e \in Trimmed(added, out) : d.addr = e.addr => d = e
      BY TrimmedCallbacks
    <3> QED
      BY <2>12, <3>1, <3>2
  <2>14. \A b \in elapsed : Handed(b)'
    BY <2>2, <2>8 DEF CallbackInv
  <2> QED
    BY <2>2, <2>7, <2>11, <2>13, <2>14 DEF CallbackInv
<1>13. ASSUME NEW t \in Thread, RetirePush(t) PROVE CallbackInv'
  <2>1. CallBecomes(t, call[t].op, "release", call[t].id, None, call[t].next)
    BY <1>13, CallEffects
  <2>2. /\ UNCHANGED <<deferred, elapsed>> /\ current # None
        /\ retired' = retired \union {call[t].ptr}
    BY <1>13 DEF RetirePush, DropInv
  <2>3. \A b : Handed(b) => Handed(b)'
    BY <2>1, <2>2 DEF CallBecomes, Handed
  <2> QED
    BY <2>2, <2>3 DEF CallbackInv
<1>14. ASSUME NEW t \in Thread, Reclaim(t) PROVE CallbackInv'
  <2>1. CallBecomes(t, "reclaim", "release", writes + 1, None, None)
    BY <1>14, CallEffects
  <2>2. /\ UNCHANGED <<retired, deferred, elapsed>> /\ current # None
        /\ call[t].pc = "idle"
    BY <1>14 DEF Reclaim, DropInv, MayCall, NoCall
  <2>3. \A b : Handed(b) => Handed(b)'
    BY <2>1, <2>2 DEF CallBecomes, Handed
  <2> QED
    BY <2>2, <2>3 DEF CallbackInv
<1>15. ASSUME NEW t \in Thread, ReleaseElapsed(t) PROVE CallbackInv'
  <2>1. CallBecomes(t, "none", "idle", 0, None, None)
    BY <1>15, CallEffects
  <2>2. /\ UNCHANGED deferred /\ current # None /\ call[t].pc = "release"
        /\ retired' = retired \ elapsed
        /\ elapsed' = elapsed \ retired
    BY <1>15 DEF ReleaseElapsed, DropInv
  <2>3. \A b : Handed(b) => Handed(b)' \/ b \in retired \intersect elapsed
    BY <2>1, <2>2 DEF CallBecomes, Handed
  <2> QED
    BY <2>2, <2>3 DEF CallbackInv
<1>16. CASE RunCallback
  <2>1. PICK d \in deferred : /\ deferred' = deferred \ {d}
                              /\ elapsed' = elapsed \union {d.addr}
                              /\ UNCHANGED <<current, call, retired>>
    BY <1>16 DEF RunCallback
  <2>2. \A b : Handed(b)' <=> Handed(b)
    BY <2>1 DEF Handed
  <2> QED
    BY <2>1, <2>2 DEF CallbackInv
<1>17. CASE DropCell
  BY <1>17 DEF DropCell, CallbackInv
<1> QED
  BY <1>1, <1>2, <1>3, <1>4, <1>5, <1>6, <1>7, <1>8, <1>9, <1>10,
     <1>11, <1>12, <1>13, <1>14, <1>15, <1>16, <1>17 DEF Next

-----------------------------------------------------------------------------
(* What a thread can reach.                                                *)

\* The pointers t may follow.
Held(t, a) ==
    \/ guard[t].pc = "loaded" /\ guard[t].ptr = a
    \/ Comparing(t) /\ call[t].ptr = a

LEMMA ReachByName ==
    ReachInv <=> \A t \in Thread : \A a : Held(t, a) => Guarded(t, a)
BY DEF ReachInv, Held

\* A pointer stays guarded from its load to the unpin: exchanging it starts a
\* retirement, and the callback is registered while every holder is pinned.
LEMMA ReachStep ==
    ASSUME TypeInv, CallInv, ReachInv, Next
    PROVE  ReachInv'
<1>0. ASSUME \A u \in Thread : \A a : Held(u, a)' => Guarded(u, a)'
      PROVE  ReachInv'
  <2>1. ASSUME NEW u \in Thread, guard'[u].pc = "loaded"
        PROVE  Guarded(u, guard[u].ptr)'
    <3>1. PICK a : a = guard'[u].ptr
      OBVIOUS
    <3>2. Held(u, a)'
      BY <2>1, <3>1 DEF Held
    <3>3. Guarded(u, a)'
      BY <1>0, <3>2
    <3> QED
      BY <3>1, <3>3 DEF Guarded
  <2>2. ASSUME NEW u \in Thread, Comparing(u)'
        PROVE  Guarded(u, call[u].ptr)'
    <3>1. PICK a : a = call'[u].ptr
      OBVIOUS
    <3>2. Held(u, a)'
      BY <2>2, <3>1 DEF Held
    <3>3. Guarded(u, a)'
      BY <1>0, <3>2
    <3> QED
      BY <3>1, <3>3 DEF Guarded
  <2> QED
    BY <2>1, <2>2 DEF ReachInv
<1>1. ASSUME NEW t \in Thread, Load(t) PROVE ReachInv'
  <2>1. \A u \in Thread : \A a : Held(u, a)' => Held(u, a)
    BY <1>1 DEF Load, Held, Comparing, TypeInv, Guard
  <2>2. \A u \in Thread : \A a : Guarded(u, a) => Guarded(u, a)'
    BY <1>1 DEF Load, Guarded
  <2> QED
    BY <1>0, <2>1, <2>2, ReachByName
<1>2. ASSUME NEW t \in Thread, LoadPointer(t) PROVE ReachInv'
  <2>1. \A u \in Thread : \A a : Held(u, a)' => Held(u, a) \/ a = current
    BY <1>2 DEF LoadPointer, Held, Comparing, TypeInv, Guard
  <2>2. \A u \in Thread : \A a : Guarded(u, a) \/ a = current => Guarded(u, a)'
    BY <1>2 DEF LoadPointer, Guarded
  <2> QED
    BY <1>0, <2>1, <2>2, ReachByName
<1>3. ASSUME NEW t \in Thread, LoadFull(t) PROVE ReachInv'
  <2>1. \A u \in Thread : \A a : Held(u, a)' => u # t /\ Held(u, a)
    BY <1>3 DEF LoadFull, Held, Comparing, TypeInv, NoGuard, NoCall
  <2>2. deferred' = Trimmed(deferred, {t}) /\ deferred \subseteq Callback
    BY <1>3, UnpinTrims DEF LoadFull, TypeInv
  <2>3. UNCHANGED <<current, call>>
    BY <1>3 DEF LoadFull
  <2>4. \A u \in Thread : \A a : u # t /\ Guarded(u, a) => Guarded(u, a)'
    <3>1. \A d \in deferred : \E e \in Trimmed(deferred, {t}) :
            e.addr = d.addr /\ e.waits = d.waits \ {t}
      BY <2>2, TrimmedCallbacks
    <3> QED
      BY <2>2, <2>3, <3>1 DEF Guarded
  <2> QED
    BY <1>0, <2>1, <2>4, ReachByName
<1>4. ASSUME NEW t \in Thread, DropGuard(t) PROVE ReachInv'
  <2>1. \A u \in Thread : \A a : Held(u, a)' => u # t /\ Held(u, a)
    BY <1>4 DEF DropGuard, Held, Comparing, TypeInv, NoGuard, NoCall
  <2>2. deferred' = Trimmed(deferred, {t}) /\ deferred \subseteq Callback
    BY <1>4, UnpinTrims DEF DropGuard, TypeInv
  <2>3. UNCHANGED <<current, call>>
    BY <1>4 DEF DropGuard
  <2>4. \A u \in Thread : \A a : u # t /\ Guarded(u, a) => Guarded(u, a)'
    <3>1. \A d \in deferred : \E e \in Trimmed(deferred, {t}) :
            e.addr = d.addr /\ e.waits = d.waits \ {t}
      BY <2>2, TrimmedCallbacks
    <3> QED
      BY <2>2, <2>3, <3>1 DEF Guarded
  <2> QED
    BY <1>0, <2>1, <2>4, ReachByName
<1>5. ASSUME NEW t \in Thread, DropKept(t) PROVE ReachInv'
  <2>1. \A u \in Thread : \A a : Held(u, a)' => Held(u, a)
    BY <1>5 DEF DropKept, Held, Comparing
  <2>2. \A u \in Thread : \A a : Guarded(u, a) => Guarded(u, a)'
    BY <1>5 DEF DropKept, Guarded
  <2> QED
    BY <1>0, <2>1, <2>2, ReachByName
<1>6. ASSUME NEW t \in Thread, Store(t) PROVE ReachInv'
  <2>1. PICK a \in Addr :
          CallBecomes(t, "store", "exchange", writes + 1, None, a)
    BY <1>6, CallEffects
  <2>2. UNCHANGED <<current, guard, deferred>> /\ call[t].pc = "idle"
    BY <1>6 DEF Store, MayCall, NoCall
  <2>3. \A u \in Thread : \A b : Held(u, b)' => Held(u, b)
    BY <2>1, <2>2 DEF CallBecomes, Held, Comparing
  <2>4. \A u \in Thread : \A b : Guarded(u, b) => Guarded(u, b)'
    BY <2>1, <2>2 DEF CallBecomes, Guarded
  <2> QED
    BY <1>0, <2>3, <2>4, ReachByName
<1>7. ASSUME NEW t \in Thread, StoreSwap(t) PROVE ReachInv'
  <2>1. CallBecomes(t, "store", "defer", call[t].id, current, None)
    BY <1>7, CallEffects
  <2>2. UNCHANGED <<guard, deferred>> /\ call[t].pc = "exchange"
    BY <1>7 DEF StoreSwap
  <2>3. \A u \in Thread : \A b : Held(u, b)' => Held(u, b)
    BY <2>1, <2>2 DEF CallBecomes, Held, Comparing
  <2>4. \A u \in Thread : \A b : Guarded(u, b) => Guarded(u, b)'
    BY <2>1, <2>2 DEF CallBecomes, Guarded
  <2> QED
    BY <1>0, <2>3, <2>4, ReachByName
<1>8. ASSUME NEW t \in Thread, Rcu(t) PROVE ReachInv'
  <2>1. CallBecomes(t, "rcu", "load", writes + 1, None, None)
    BY <1>8, CallEffects
  <2>2. UNCHANGED <<current, guard, deferred>> /\ call[t].pc = "idle"
    BY <1>8 DEF Rcu, MayCall, NoCall
  <2>3. \A u \in Thread : \A b : Held(u, b)' => Held(u, b)
    BY <2>1, <2>2 DEF CallBecomes, Held, Comparing
  <2>4. \A u \in Thread : \A b : Guarded(u, b) => Guarded(u, b)'
    BY <2>1, <2>2 DEF CallBecomes, Guarded
  <2> QED
    BY <1>0, <2>3, <2>4, ReachByName
<1>9. ASSUME NEW t \in Thread, RcuLoad(t) PROVE ReachInv'
  <2>1. CallBecomes(t, call[t].op, "compute", call[t].id, current, call[t].next)
    BY <1>9, CallEffects
  <2>2. UNCHANGED <<current, guard, deferred>> /\ call[t].pc = "load"
    BY <1>9 DEF RcuLoad
  <2>3. \A u \in Thread : \A b : Held(u, b)' => Held(u, b) \/ b = current
    BY <2>1, <2>2 DEF CallBecomes, Held, Comparing
  <2>4. \A u \in Thread : \A b : Guarded(u, b) \/ b = current => Guarded(u, b)'
    BY <2>1, <2>2 DEF CallBecomes, Guarded
  <2> QED
    BY <1>0, <2>3, <2>4, ReachByName
<1>10. ASSUME NEW t \in Thread, RcuCompute(t) PROVE ReachInv'
  <2>1. PICK a \in Addr :
          CallBecomes(t, call[t].op, "exchange", call[t].id, call[t].ptr, a)
    BY <1>10, CallEffects
  <2>2. UNCHANGED <<current, guard, deferred>> /\ call[t].pc = "compute"
    BY <1>10 DEF RcuCompute
  <2>3. \A u \in Thread : \A b : Held(u, b)' => Held(u, b)
    BY <2>1, <2>2 DEF CallBecomes, Held, Comparing
  <2>4. \A u \in Thread : \A b : Guarded(u, b) => Guarded(u, b)'
    BY <2>1, <2>2 DEF CallBecomes, Guarded
  <2> QED
    BY <1>0, <2>3, <2>4, ReachByName
<1>11. ASSUME NEW t \in Thread, RcuExchange(t) PROVE ReachInv'
  <2>1. UNCHANGED <<guard, deferred>> /\ call[t].pc = "exchange"
    BY <1>11 DEF RcuExchange
  <2>2. CASE current = call[t].ptr
    <3>1. CallBecomes(t, "rcu", "defer", call[t].id, call[t].ptr, None)
      BY <1>11, <2>2, CallEffects
    <3>2. \A u \in Thread : \A b : Held(u, b)' => Held(u, b)
      BY <2>1, <3>1 DEF CallBecomes, Held, Comparing
    <3>3. \A u \in Thread : \A b : Guarded(u, b) => Guarded(u, b)'
      BY <2>1, <2>2, <3>1 DEF CallBecomes, Guarded
    <3> QED
      BY <1>0, <3>2, <3>3, ReachByName
  <2>3. CASE current # call[t].ptr
    <3>1. CallBecomes(t, "rcu", "compute", call[t].id, current, None)
      BY <1>11, <2>3, CallEffects
    <3>2. UNCHANGED current
      BY <1>11, <2>3 DEF RcuExchange
    <3>3. \A u \in Thread : \A b : Held(u, b)' => Held(u, b) \/ b = current
      BY <2>1, <3>1 DEF CallBecomes, Held, Comparing
    <3>4. \A u \in Thread : \A b : Guarded(u, b) \/ b = current => Guarded(u, b)'
      BY <2>1, <3>1, <3>2 DEF CallBecomes, Guarded
    <3> QED
      BY <1>0, <3>3, <3>4, ReachByName
  <2> QED
    BY <2>2, <2>3
<1>12. ASSUME NEW t \in Thread, RetireDefer(t) PROVE ReachInv'
  <2>1. CallBecomes(t, call[t].op, "push", call[t].id, call[t].ptr, call[t].next)
    BY <1>12, CallEffects
  <2>2. /\ UNCHANGED <<current, guard>> /\ call[t].pc = "defer"
        /\ deferred \subseteq Callback
    BY <1>12 DEF RetireDefer, TypeInv
  <2>3. PICK mine \in Callback : mine = [addr |-> call[t].ptr, waits |-> {u \in Thread : Pinned(u)}]
    BY <1>12 DEF RetireDefer, CallInv, Retiring, TypeInv, Call, Pointer, Callback
  <2>4. PICK added \in SUBSET Callback : added = deferred \union {mine}
    BY <2>2
  <2>5. PICK out : out = IF guard[t].pc = "none" THEN {t} ELSE {}
    OBVIOUS
  <2>6. deferred' = Trimmed(added, out)
    BY <1>12, <2>3, <2>4, <2>5 DEF RetireDefer, Trimmed
  <2> SUFFICES ASSUME NEW u \in Thread, NEW b, Held(u, b)' PROVE Guarded(u, b)'
    BY <1>0
  <2>7. Held(u, b) /\ (u = t => guard[t].pc = "loaded")
    BY <2>1, <2>2 DEF CallBecomes, Held, Comparing
  <2>8. Pinned(u) /\ u \notin out
    BY <2>5, <2>7 DEF Held, Comparing, Pinned, WritePinned
  <2>9. mine.addr = call[t].ptr /\ u \in mine.waits
    BY <2>3, <2>8
  <2>10. \/ current = b
         \/ \E v \in Thread : v # t /\ call[v].pc = "defer" /\ call[v].ptr = b
         \/ \E d \in added : d.addr = b /\ u \in d.waits
    BY <2>4, <2>7, <2>9, ReachByName DEF Guarded
  <2>11. (\E d \in added : d.addr = b /\ u \in d.waits) =>
           \E d \in deferred' : d.addr = b /\ u \in d.waits
    <3>1. \A d \in added : \E e \in Trimmed(added, out) :
            e.addr = d.addr /\ e.waits = d.waits \ out
      BY TrimmedCallbacks
    <3> QED
      BY <2>6, <2>8, <3>1
  <2> QED
    BY <2>1, <2>2, <2>10, <2>11 DEF CallBecomes, Guarded
<1>13. ASSUME NEW t \in Thread, RetirePush(t) PROVE ReachInv'
  <2>1. CallBecomes(t, call[t].op, "release", call[t].id, None, call[t].next)
    BY <1>13, CallEffects
  <2>2. UNCHANGED <<current, guard, deferred>> /\ call[t].pc = "push"
    BY <1>13 DEF RetirePush
  <2>3. \A u \in Thread : \A b : Held(u, b)' => Held(u, b)
    BY <2>1, <2>2 DEF CallBecomes, Held, Comparing
  <2>4. \A u \in Thread : \A b : Guarded(u, b) => Guarded(u, b)'
    BY <2>1, <2>2 DEF CallBecomes, Guarded
  <2> QED
    BY <1>0, <2>3, <2>4, ReachByName
<1>14. ASSUME NEW t \in Thread, Reclaim(t) PROVE ReachInv'
  <2>1. CallBecomes(t, "reclaim", "release", writes + 1, None, None)
    BY <1>14, CallEffects
  <2>2. UNCHANGED <<current, guard, deferred>> /\ call[t].pc = "idle"
    BY <1>14 DEF Reclaim, MayCall, NoCall
  <2>3. \A u \in Thread : \A b : Held(u, b)' => Held(u, b)
    BY <2>1, <2>2 DEF CallBecomes, Held, Comparing
  <2>4. \A u \in Thread : \A b : Guarded(u, b) => Guarded(u, b)'
    BY <2>1, <2>2 DEF CallBecomes, Guarded
  <2> QED
    BY <1>0, <2>3, <2>4, ReachByName
<1>15. ASSUME NEW t \in Thread, ReleaseElapsed(t) PROVE ReachInv'
  <2>1. CallBecomes(t, "none", "idle", 0, None, None)
    BY <1>15, CallEffects
  <2>2. UNCHANGED <<current, guard, deferred>> /\ call[t].pc = "release"
    BY <1>15 DEF ReleaseElapsed
  <2>3. \A u \in Thread : \A b : Held(u, b)' => Held(u, b)
    BY <2>1, <2>2 DEF CallBecomes, Held, Comparing
  <2>4. \A u \in Thread : \A b : Guarded(u, b) => Guarded(u, b)'
    BY <2>1, <2>2 DEF CallBecomes, Guarded
  <2> QED
    BY <1>0, <2>3, <2>4, ReachByName
<1>16. CASE RunCallback
  <2>1. PICK d \in deferred : d.waits = {} /\ deferred' = deferred \ {d}
    BY <1>16 DEF RunCallback
  <2>2. UNCHANGED <<current, guard, call>>
    BY <1>16 DEF RunCallback
  <2>3. \A u \in Thread : \A a : Held(u, a)' => Held(u, a)
    BY <2>2 DEF Held, Comparing
  <2>4. \A u \in Thread : \A a : Guarded(u, a) => Guarded(u, a)'
    BY <2>1, <2>2 DEF Guarded
  <2> QED
    BY <1>0, <2>3, <2>4, ReachByName
<1>17. CASE DropCell
  <2>1. \A u \in Thread : \A a : ~Held(u, a)'
    BY <1>17 DEF DropCell, Held, Comparing, NoCall
  <2> QED
    BY <1>0, <2>1
<1> QED
  BY <1>1, <1>2, <1>3, <1>4, <1>5, <1>6, <1>7, <1>8, <1>9, <1>10,
     <1>11, <1>12, <1>13, <1>14, <1>15, <1>16, <1>17 DEF Next

-----------------------------------------------------------------------------
(* Values.                                                                 *)

\* A pointer that a thread may follow has an owner, so it is not reallocated.
LEMMA HeldOwned ==
    ASSUME TypeInv, CallInv, DropInv, CallbackInv, ReachInv,
           NEW t \in Thread, NEW a, Held(t, a)
    PROVE  a \in Addr /\ Owned(a)
<1>1. a \in Addr
  BY DEF Held, CallInv, TypeInv, Guard, Call, Pointer
<1>2. current # None
  BY DEF Held, Comparing, DropInv
<1>3. Guarded(t, a)
  BY ReachByName
<1> QED
  BY <1>1, <1>2, <1>3 DEF Guarded, CallbackInv, Handed, Owned, Retiring

\* ValueInv, in terms of what is held.
LEMMA ValueFrame ==
    ASSUME TypeInv, CallInv, DropInv, CallbackInv, ReachInv, HeapAccounted, NEW b \in Addr,
           strong[b] = 0
    PROVE  /\ b # current
           /\ \A t \in Thread :
                 /\ guard[t].pc = "loaded" => guard[t].ptr # b
                 /\ Comparing(t) => call[t].ptr # b
                 /\ call[t].next # b
<1>1. ~Owned(b)
  BY OwnedCounted
<1> QED
  BY <1>1, HeldOwned DEF Held, Owned

\* A value is written only into a free address, and an exchange that succeeds
\* publishes a successor of the current value.
LEMMA ValueStep ==
    ASSUME TypeInv, CallInv, DropInv, HeapAccounted, CallbackInv, ReachInv, ValueInv, Next
    PROVE  ValueInv'
<1>1. ASSUME NEW t \in Thread, Load(t) PROVE ValueInv'
  BY <1>1 DEF Load, heap, TypeInv, Guard, ValueInv, NoUpdateLost
<1>2. ASSUME NEW t \in Thread, LoadPointer(t) PROVE ValueInv'
  BY <1>2 DEF LoadPointer, heap, TypeInv, ValueInv, NoUpdateLost
<1>3. ASSUME NEW t \in Thread, LoadFull(t) PROVE ValueInv'
  BY <1>3 DEF LoadFull, heap, TypeInv, NoGuard, ValueInv, NoUpdateLost
<1>4. ASSUME NEW t \in Thread, DropGuard(t) PROVE ValueInv'
  BY <1>4 DEF DropGuard, heap, TypeInv, NoGuard, ValueInv, NoUpdateLost
<1>5. ASSUME NEW t \in Thread, DropKept(t) PROVE ValueInv'
  BY <1>5 DEF DropKept, ValueInv, NoUpdateLost
<1>6. ASSUME NEW t \in Thread, Store(t) PROVE ValueInv'
  <2>1. PICK b \in Addr : /\ strong[b] = 0
                         /\ value' = [value EXCEPT ![b] = {}]
                         /\ CallBecomes(t, "store", "exchange", writes + 1, None, b)
    BY <1>6, CallEffects
  <2>2. UNCHANGED <<current, guard, done>> /\ TRUE
    BY <1>6 DEF Store, CallInv
  <2>3. /\ b # current
        /\ \A u \in Thread : /\ guard[u].pc = "loaded" => guard[u].ptr # b
                             /\ Comparing(u) => call[u].ptr # b
                             /\ call[u].next # b
    BY <2>1, ValueFrame
  <2>4. value'[b] = {} /\ \A c : c # b => value'[c] = value[c]
    BY <2>1 DEF TypeInv
  <2>5. \A u \in Thread : guard[u].pc = "loaded" => value'[guard[u].ptr] = guard[u].seen
    BY <2>3, <2>4 DEF ValueInv
  <2>6. NoUpdateLost'
    BY <2>2, <2>3, <2>4 DEF ValueInv, NoUpdateLost
  <2>7. ASSUME NEW u \in Thread, call'[u].op = "rcu", call'[u].pc = "exchange"
        PROVE  value'[call'[u].next] = value'[call'[u].ptr] \union {call'[u].id}
    <3>1. CASE u # t
      <4>1. call'[u] = call[u]
        BY <2>1, <3>1 DEF CallBecomes
      <4>2. /\ call[u].ptr # b /\ call[u].next # b
            /\ value[call[u].next] = value[call[u].ptr] \union {call[u].id}
        BY <2>3, <2>7, <4>1 DEF Comparing, ValueInv
      <4> QED
        BY <2>4, <4>1, <4>2
    <3>2. CASE u = t
      BY <2>1, <2>2, <2>3, <2>4, <2>7, <3>2 DEF CallBecomes, Comparing
    <3> QED
      BY <3>1, <3>2
  <2> QED
    BY <2>2, <2>5, <2>6, <2>7 DEF ValueInv
<1>7. ASSUME NEW t \in Thread, StoreSwap(t) PROVE ValueInv'
  <2>1. CallBecomes(t, "store", "defer", call[t].id, current, None)
    BY <1>7, CallEffects
  <2>2. UNCHANGED <<value, guard>> /\ done' = {}
    BY <1>7 DEF StoreSwap, heap
  <2> QED
    BY <2>1, <2>2 DEF CallBecomes, ValueInv, NoUpdateLost
<1>8. ASSUME NEW t \in Thread, Rcu(t) PROVE ValueInv'
  <2>1. CallBecomes(t, "rcu", "load", writes + 1, None, None)
    BY <1>8, CallEffects
  <2>2. UNCHANGED <<current, value, guard, done>>
    BY <1>8 DEF Rcu, heap
  <2> QED
    BY <2>1, <2>2 DEF CallBecomes, ValueInv, NoUpdateLost
<1>9. ASSUME NEW t \in Thread, RcuLoad(t) PROVE ValueInv'
  <2>1. CallBecomes(t, call[t].op, "compute", call[t].id, current, call[t].next)
    BY <1>9, CallEffects
  <2>2. UNCHANGED <<current, value, guard, done>>
    BY <1>9 DEF RcuLoad, heap
  <2> QED
    BY <2>1, <2>2 DEF CallBecomes, ValueInv, NoUpdateLost
<1>10. ASSUME NEW t \in Thread, RcuCompute(t) PROVE ValueInv'
  <2>1. PICK b \in Addr : /\ strong[b] = 0
                         /\ value' = [value EXCEPT ![b] = value[call[t].ptr] \union {call[t].id}]
                         /\ CallBecomes(t, call[t].op, "exchange", call[t].id, call[t].ptr, b)
    BY <1>10, CallEffects
  <2>2. UNCHANGED <<current, guard, done>> /\ call[t].pc = "compute"
    BY <1>10 DEF RcuCompute, CallInv
  <2>3. /\ b # current
        /\ \A u \in Thread : /\ guard[u].pc = "loaded" => guard[u].ptr # b
                             /\ Comparing(u) => call[u].ptr # b
                             /\ call[u].next # b
    BY <2>1, ValueFrame
  <2>4. value'[b] = value[call[t].ptr] \union {call[t].id} /\ \A c : c # b => value'[c] = value[c]
    BY <2>1 DEF TypeInv
  <2>5. \A u \in Thread : guard[u].pc = "loaded" => value'[guard[u].ptr] = guard[u].seen
    BY <2>3, <2>4 DEF ValueInv
  <2>6. NoUpdateLost'
    BY <2>2, <2>3, <2>4 DEF ValueInv, NoUpdateLost
  <2>7. ASSUME NEW u \in Thread, call'[u].op = "rcu", call'[u].pc = "exchange"
        PROVE  value'[call'[u].next] = value'[call'[u].ptr] \union {call'[u].id}
    <3>1. CASE u # t
      <4>1. call'[u] = call[u]
        BY <2>1, <3>1 DEF CallBecomes
      <4>2. /\ call[u].ptr # b /\ call[u].next # b
            /\ value[call[u].next] = value[call[u].ptr] \union {call[u].id}
        BY <2>3, <2>7, <4>1 DEF Comparing, ValueInv
      <4> QED
        BY <2>4, <4>1, <4>2
    <3>2. CASE u = t
      BY <2>1, <2>2, <2>3, <2>4, <2>7, <3>2 DEF CallBecomes, Comparing
    <3> QED
      BY <3>1, <3>2
  <2> QED
    BY <2>2, <2>5, <2>6, <2>7 DEF ValueInv
<1>11. ASSUME NEW t \in Thread, RcuExchange(t) PROVE ValueInv'
  <2>1. UNCHANGED <<value, guard>> /\ call[t].op = "rcu" /\ call[t].pc = "exchange"
    BY <1>11 DEF RcuExchange
  <2>2. CASE current = call[t].ptr
    <3>1. CallBecomes(t, "rcu", "defer", call[t].id, call[t].ptr, None)
      BY <1>11, <2>2, CallEffects
    <3>2. /\ current' = call[t].next /\ done' = done \union {call[t].id}
          /\ current # None
      BY <1>11, <2>2 DEF RcuExchange, CallInv, Comparing
    <3>3. done' \subseteq value[call[t].next]
      BY <2>1, <2>2, <3>2 DEF ValueInv, NoUpdateLost
    <3>4. NoUpdateLost'
      BY <2>1, <3>2, <3>3 DEF NoUpdateLost
    <3> QED
      BY <2>1, <3>1, <3>4, SMTT(30) DEF CallBecomes, ValueInv
  <2>3. CASE current # call[t].ptr
    <3>1. CallBecomes(t, "rcu", "compute", call[t].id, current, None)
      BY <1>11, <2>3, CallEffects
    <3>2. UNCHANGED <<current, done>>
      BY <1>11, <2>3 DEF RcuExchange
    <3> QED
      BY <2>1, <3>1, <3>2 DEF CallBecomes, ValueInv, NoUpdateLost
  <2> QED
    BY <2>2, <2>3
<1>12. ASSUME NEW t \in Thread, RetireDefer(t) PROVE ValueInv'
  <2>1. CallBecomes(t, call[t].op, "push", call[t].id, call[t].ptr, call[t].next)
    BY <1>12, CallEffects
  <2>2. UNCHANGED <<current, value, guard, done>>
    BY <1>12 DEF RetireDefer, heap
  <2> QED
    BY <2>1, <2>2 DEF CallBecomes, ValueInv, NoUpdateLost
<1>13. ASSUME NEW t \in Thread, RetirePush(t) PROVE ValueInv'
  <2>1. CallBecomes(t, call[t].op, "release", call[t].id, None, call[t].next)
    BY <1>13, CallEffects
  <2>2. UNCHANGED <<current, value, guard, done>>
    BY <1>13 DEF RetirePush, heap
  <2> QED
    BY <2>1, <2>2 DEF CallBecomes, ValueInv, NoUpdateLost
<1>14. ASSUME NEW t \in Thread, Reclaim(t) PROVE ValueInv'
  <2>1. CallBecomes(t, "reclaim", "release", writes + 1, None, None)
    BY <1>14, CallEffects
  <2>2. UNCHANGED <<current, value, guard, done>>
    BY <1>14 DEF Reclaim, heap
  <2> QED
    BY <2>1, <2>2 DEF CallBecomes, ValueInv, NoUpdateLost
<1>15. ASSUME NEW t \in Thread, ReleaseElapsed(t) PROVE ValueInv'
  <2>1. CallBecomes(t, "none", "idle", 0, None, None)
    BY <1>15, CallEffects
  <2>2. UNCHANGED <<current, value, guard, done>>
    BY <1>15 DEF ReleaseElapsed, heap
  <2> QED
    BY <2>1, <2>2 DEF CallBecomes, ValueInv, NoUpdateLost
<1>16. CASE RunCallback
  BY <1>16 DEF RunCallback, heap, ValueInv, NoUpdateLost
<1>17. CASE DropCell
  BY <1>17 DEF DropCell, ValueInv, NoUpdateLost
<1> QED
  BY <1>1, <1>2, <1>3, <1>4, <1>5, <1>6, <1>7, <1>8, <1>9, <1>10,
     <1>11, <1>12, <1>13, <1>14, <1>15, <1>16, <1>17 DEF Next

-----------------------------------------------------------------------------
LEMMA IInvInit == Init => IInv
<1> SUFFICES ASSUME Init PROVE IInv
  OBVIOUS
<1>1. PICK a \in Addr : /\ current = a
                        /\ strong = [b \in Addr |-> IF b = a THEN 1 ELSE 0]
  BY DEF Init
<1>2. NoGuard \in Guard /\ NoCall \in Call
  BY DEF NoGuard, Guard, NoCall, Call, Pointer
<1>3. TypeInv
  BY <1>1, <1>2 DEF Init, TypeInv, Pointer
<1>4. a # None
  BY EpochCellAssumption
<1>5. CallInv /\ DropInv /\ OwnerInv
  BY <1>1, <1>4 DEF Init, CallInv, DropInv, OwnerInv, Comparing, Retiring, NoGuard, NoCall
<1>6. HeapAccounted
  <2> SUFFICES ASSUME NEW b \in Addr PROVE Accounted(b)
    BY AccountedByName
  <2>1. Keepers(b) = {} /\ Publishers(b) = {} /\ Retirers(b) = {} /\ retired = {}
    BY EpochCellAssumption DEF Init, Keepers, Publishers, Retirers, NoCall
  <2>2. Cardinality(Keepers(b)) = 0 /\ Cardinality(Publishers(b)) = 0
        /\ Cardinality(Retirers(b)) = 0
    BY <2>1, FS_EmptySet
  <2> QED
    BY <1>1, <2>1, <2>2 DEF Accounted
<1>7. CallbackInv /\ ReachInv /\ ValueInv
  BY <1>1, <1>4 DEF Init, CallbackInv, ReachInv, ValueInv, NoUpdateLost, Comparing,
                    NoGuard, NoCall
<1> QED
  BY <1>3, <1>5, <1>6, <1>7 DEF IInv

LEMMA IInvStep == IInv /\ [Next]_vars => IInv'
<1>1. ASSUME IInv, Next PROVE IInv'
  BY <1>1, TypeStep, CallStep, DropStep, OwnerStep, HeapStep, CallbackStep, ReachStep,
     ValueStep DEF IInv
<1>2. ASSUME IInv, UNCHANGED vars PROVE IInv'
  <2>1. UNCHANGED <<current, strong, value, guard, kept, call, retired, deferred,
                    elapsed, done, writes>>
    BY <1>2 DEF vars
  <2>2. TypeInv' /\ CallInv' /\ DropInv' /\ OwnerInv' /\ HeapAccounted'
    BY <1>2, <2>1 DEF IInv, TypeInv, CallInv, DropInv, OwnerInv, HeapAccounted,
                      Comparing, Retiring
  <2>3. CallbackInv' /\ ReachInv' /\ ValueInv'
    BY <1>2, <2>1 DEF IInv, CallbackInv, ReachInv, ValueInv, NoUpdateLost, Handed,
                      Guarded, Comparing
  <2> QED
    BY <2>2, <2>3 DEF IInv
<1> QED
  BY <1>1, <1>2

\* The inductive invariant holds in every reachable state of the cell.
THEOREM Invariance == Spec => []IInv
BY IInvInit, IInvStep, PTL DEF Spec

\* Whatever a guard or an rcu can reach through its pointer is allocated and is
\* still the value that was loaded (EpochGuard::deref, load_full, rcu).
THEOREM ReadsSafe == Spec => []ReadsAreSafe
<1>1. IInv => ReadsAreSafe
  <2> SUFFICES ASSUME IInv, NEW t \in Thread
               PROVE  /\ guard[t].pc = "loaded" =>
                            /\ strong[guard[t].ptr] > 0
                            /\ value[guard[t].ptr] = guard[t].seen
                      /\ call[t].op = "rcu" /\ call[t].pc \in {"compute", "exchange"} =>
                            strong[call[t].ptr] > 0
    BY DEF ReadsAreSafe
  <2>1. \A a : Held(t, a) => a \in Addr /\ strong[a] > 0
    BY HeldOwned, OwnedCounted DEF IInv
  <2>2. guard[t].pc = "loaded" => value[guard[t].ptr] = guard[t].seen
    BY DEF IInv, ValueInv
  <2> QED
    BY <2>1, <2>2 DEF Held, Comparing
<1> QED
  BY <1>1, Invariance, PTL

\* The current value contains every rcu update published since the last store,
\* although the exchange compares addresses and addresses are reused (rcu).
THEOREM UpdatesKept == Spec => []NoUpdateLost
<1>1. IInv => NoUpdateLost
  BY DEF IInv, ValueInv
<1> QED
  BY <1>1, Invariance, PTL

\* Every strong count is the number of its owners: no value is released twice
\* and none is leaked (retire, release_elapsed, Drop).
THEOREM CountsExact == Spec => []HeapAccounted
<1>1. IInv => HeapAccounted
  BY DEF IInv
<1> QED
  BY <1>1, Invariance, PTL

=============================================================================
