----------------------------- MODULE EpochCell -----------------------------
(***************************************************************************)
(* The lock-free cell of src/src/core/epoch_cell.rs: readers follow a raw  *)
(* pointer to an Arc under an epoch pin, writers exchange the pointer and  *)
(* retire the Arc they replaced, and a retired Arc is released only after  *)
(* an epoch callback has raised its flag.                                  *)
(*                                                                         *)
(* crossbeam-epoch is external and modelled by its documented guarantee: a *)
(* callback runs, inside whichever thread collects, only once every thread *)
(* pinned when it was registered has unpinned.  Addresses are reused as    *)
(* soon as their strong count reaches zero, so that a pointer may denote   *)
(* another value later.  A thread may write while a guard further up its   *)
(* stack keeps it pinned.  The nudges only make the collector run sooner.  *)
(***************************************************************************)
EXTENDS Naturals, FiniteSets

CONSTANTS
    Thread,
    Addr,       \* addresses the allocator may hand out
    None,       \* no pointer
    MaxWrites   \* bound: store, rcu and reclaim calls started

ASSUME EpochCellAssumption ==
    /\ None \notin Addr /\ Addr # {} /\ IsFiniteSet(Thread) /\ MaxWrites \in Nat

VARIABLES
    current,   \* AtomicPtr; None once the cell has been dropped
    strong,    \* per address: strong count of the Arc there, 0 when free
    value,     \* per address: the rcu updates the value there contains
    guard,     \* per thread: the pointer of its EpochGuard, loaded and seen
    kept,      \* per thread: the Arc load_full gave it
    call,      \* per thread: the write in progress
    retired,   \* addresses on the retired list
    deferred,  \* callbacks not yet run: address and the threads waited for
    elapsed,   \* addresses whose grace_elapsed flag is up
    done,      \* history: rcu updates published since the last store
    writes     \* number of writes started so far

vars == <<current, strong, value, guard, kept, call, retired, deferred,
          elapsed, done, writes>>

heap == <<strong, value>>

NoCall == [op |-> "none", pc |-> "idle", id |-> 0, ptr |-> None, next |-> None]

NoGuard == [pc |-> "none", ptr |-> None, seen |-> {}]

Init ==
    /\ \E a \in Addr :
          /\ current = a
          /\ strong = [b \in Addr |-> IF b = a THEN 1 ELSE 0]
    /\ value = [a \in Addr |-> {}]
    /\ guard = [t \in Thread |-> NoGuard]
    /\ kept = [t \in Thread |-> None]
    /\ call = [t \in Thread |-> NoCall]
    /\ retired = {} /\ deferred = {} /\ elapsed = {}
    /\ done = {} /\ writes = 0

-----------------------------------------------------------------------------
(* Pins.  A write is pinned from its pin() (in a store, right before the   *)
(* swap) until retire drops the guard.                                     *)

WritePinned(t) ==
    \/ call[t].pc \in {"load", "compute", "defer"}
    \/ call[t].pc = "exchange" /\ call[t].op = "rcu"

Pinned(t) == guard[t].pc # "none" \/ WritePinned(t)

(* The callbacks that waited for t wait no longer. *)
Unpinned(t) == {[d EXCEPT !.waits = @ \ {t}] : d \in deferred}

(* Dropping one strong count; at zero the address is free again. *)
Released(a) == [strong EXCEPT ![a] = @ - 1]

-----------------------------------------------------------------------------
(* load: pin, then read the pointer; the guard is dropped some time later. *)

Load(t) ==
    /\ current # None /\ guard[t].pc = "none" /\ call[t] = NoCall
    /\ guard' = [guard EXCEPT ![t].pc = "pinned"]
    /\ UNCHANGED <<current, heap, kept, call, retired, deferred, elapsed,
                   done, writes>>

LoadPointer(t) ==
    /\ guard[t].pc = "pinned"
    /\ guard' = [guard EXCEPT ![t] =
          [pc |-> "loaded", ptr |-> current, seen |-> value[current]]]
    /\ UNCHANGED <<current, heap, kept, call, retired, deferred, elapsed,
                   done, writes>>

\* Variant: load_full adopts a count it did not take.
MutAdoptOnly(t) ==
    /\ guard[t].pc = "loaded" /\ call[t] = NoCall /\ kept[t] = None
    /\ kept' = [kept EXCEPT ![t] = guard[t].ptr]
    /\ guard' = [guard EXCEPT ![t] = NoGuard]
    /\ deferred' = Unpinned(t)
    /\ UNCHANGED <<current, heap, call, retired, elapsed, done, writes>>

(* load_full: one more strong count, taken under the guard. *)
LoadFull(t) ==
    /\ guard[t].pc = "loaded" /\ call[t] = NoCall /\ kept[t] = None
    /\ strong' = [strong EXCEPT ![guard[t].ptr] = @ + 1]
    /\ kept' = [kept EXCEPT ![t] = guard[t].ptr]
    /\ guard' = [guard EXCEPT ![t] = NoGuard]
    /\ deferred' = Unpinned(t)
    /\ UNCHANGED <<current, value, call, retired, elapsed, done, writes>>

DropGuard(t) ==
    /\ guard[t].pc = "loaded" /\ call[t] = NoCall
    /\ guard' = [guard EXCEPT ![t] = NoGuard]
    /\ deferred' = Unpinned(t)
    /\ UNCHANGED <<current, heap, kept, call, retired, elapsed, done, writes>>

DropKept(t) ==
    /\ kept[t] # None
    /\ strong' = Released(kept[t])
    /\ kept' = [kept EXCEPT ![t] = None]
    /\ UNCHANGED <<current, value, guard, call, retired, deferred, elapsed,
                   done, writes>>

-----------------------------------------------------------------------------
(* Writes.                                                                 *)

MayCall(t) ==
    /\ current # None /\ call[t] = NoCall /\ guard[t].pc # "pinned"
    /\ writes < MaxWrites
    /\ writes' = writes + 1

(* store: the new value is allocated by the caller; then pin and swap. *)
Store(t) ==
    /\ MayCall(t)
    /\ \E a \in Addr :
          /\ strong[a] = 0
          /\ strong' = [strong EXCEPT ![a] = 1]
          /\ value' = [value EXCEPT ![a] = {}]
          /\ call' = [call EXCEPT ![t] =
                [op |-> "store", pc |-> "exchange", id |-> writes',
                 ptr |-> None, next |-> a]]
    /\ UNCHANGED <<current, guard, kept, retired, deferred, elapsed, done>>

StoreSwap(t) ==
    /\ call[t].op = "store" /\ call[t].pc = "exchange"
    /\ current' = call[t].next
    /\ call' = [call EXCEPT ![t].pc = "defer", ![t].ptr = current,
                            ![t].next = None]
    /\ done' = {}
    /\ UNCHANGED <<heap, guard, kept, retired, deferred, elapsed, writes>>

Rcu(t) ==
    /\ MayCall(t)
    /\ call' = [call EXCEPT ![t] =
          [op |-> "rcu", pc |-> "load", id |-> writes', ptr |-> None,
           next |-> None]]
    /\ UNCHANGED <<current, heap, guard, kept, retired, deferred, elapsed,
                   done>>

RcuLoad(t) ==
    /\ call[t].pc = "load"
    /\ call' = [call EXCEPT ![t].pc = "compute", ![t].ptr = current]
    /\ UNCHANGED <<current, heap, guard, kept, retired, deferred, elapsed,
                   done, writes>>

(* f reads the value through the pinned pointer. *)
RcuCompute(t) ==
    /\ call[t].pc = "compute"
    /\ \E a \in Addr :
          /\ strong[a] = 0
          /\ strong' = [strong EXCEPT ![a] = 1]
          /\ value' = [value EXCEPT ![a] = value[call[t].ptr] \union {call[t].id}]
          /\ call' = [call EXCEPT ![t].pc = "exchange", ![t].next = a]
    /\ UNCHANGED <<current, guard, kept, retired, deferred, elapsed, done,
                   writes>>

\* Variant: the pointer is swapped whatever it is by now.
MutSwapAlways(t) ==
    /\ call[t].op = "rcu" /\ call[t].pc = "exchange"
    /\ current' = call[t].next
    /\ call' = [call EXCEPT ![t].pc = "defer", ![t].ptr = current,
                            ![t].next = None]
    /\ done' = done \union {call[t].id}
    /\ UNCHANGED <<heap, guard, kept, retired, deferred, elapsed, writes>>

(* compare_exchange: publish, or drop the result and retry on the pointer  *)
(* found, under the same pin.                                              *)
RcuExchange(t) ==
    /\ call[t].op = "rcu" /\ call[t].pc = "exchange"
    /\ \/ /\ current = call[t].ptr
          /\ current' = call[t].next
          /\ call' = [call EXCEPT ![t].pc = "defer", ![t].next = None]
          /\ done' = done \union {call[t].id}
          /\ UNCHANGED strong
       \/ /\ current # call[t].ptr
          /\ strong' = Released(call[t].next)
          /\ call' = [call EXCEPT ![t].pc = "compute", ![t].ptr = current,
                                  ![t].next = None]
          /\ UNCHANGED <<current, done>>
    /\ UNCHANGED <<value, guard, kept, retired, deferred, elapsed, writes>>

-----------------------------------------------------------------------------
(* retire: register the callback while pinned, unpin, push, nudge, release. *)

\* Variant: retiring into a collector the readers do not pin.
MutOtherCollector(t) ==
    /\ call[t].pc = "defer"
    /\ deferred' = Unpinned(t) \union {[addr |-> call[t].ptr, waits |-> {}]}
    /\ call' = [call EXCEPT ![t].pc = "push"]
    /\ UNCHANGED <<current, heap, guard, kept, retired, elapsed, done, writes>>

RetireDefer(t) ==
    /\ call[t].pc = "defer"
    /\ LET pinned == {u \in Thread : Pinned(u)}
           still == IF guard[t].pc = "none" THEN {t} ELSE {}
           added == deferred \union {[addr |-> call[t].ptr, waits |-> pinned]}
       IN deferred' = {[d EXCEPT !.waits = @ \ still] : d \in added}
    /\ call' = [call EXCEPT ![t].pc = "push"]
    /\ UNCHANGED <<current, heap, guard, kept, retired, elapsed, done, writes>>

RetirePush(t) ==
    /\ call[t].pc = "push"
    /\ retired' = retired \union {call[t].ptr}
    /\ call' = [call EXCEPT ![t].pc = "release", ![t].ptr = None]
    /\ UNCHANGED <<current, heap, guard, kept, deferred, elapsed, done, writes>>

(* The collector runs a callback whose grace period is over. *)
RunCallback ==
    \E d \in deferred :
        /\ d.waits = {}
        /\ deferred' = deferred \ {d}
        /\ elapsed' = elapsed \union {d.addr}
        /\ UNCHANGED <<current, heap, guard, kept, call, retired, done, writes>>

Reclaim(t) ==
    /\ MayCall(t) /\ retired # {}
    /\ call' = [call EXCEPT ![t] =
          [op |-> "reclaim", pc |-> "release", id |-> writes', ptr |-> None,
           next |-> None]]
    /\ UNCHANGED <<current, heap, guard, kept, retired, deferred, elapsed,
                   done>>

(* release_elapsed, at the end of every write and of reclaim. *)
ReleaseElapsed(t) ==
    /\ call[t].pc = "release"
    /\ LET out == retired \intersect elapsed
       IN /\ retired' = retired \ out
          /\ elapsed' = elapsed \ out
          /\ strong' = [a \in Addr |-> strong[a] - IF a \in out THEN 1 ELSE 0]
    /\ call' = [call EXCEPT ![t] = NoCall]
    /\ UNCHANGED <<current, value, guard, kept, deferred, done, writes>>

(* Drop: no guard and no call borrows the cell any more. *)
DropCell ==
    /\ current # None
    /\ \A t \in Thread : guard[t].pc = "none" /\ call[t] = NoCall
    /\ strong' = [a \in Addr |->
          strong[a] - IF a \in retired \union {current} THEN 1 ELSE 0]
    /\ current' = None /\ retired' = {}
    /\ UNCHANGED <<value, guard, kept, call, deferred, elapsed, done, writes>>

-----------------------------------------------------------------------------
Next ==
    \/ \E t \in Thread :
          \/ Load(t) \/ LoadPointer(t) \/ LoadFull(t) \/ DropGuard(t)
          \/ DropKept(t)
          \/ Store(t) \/ StoreSwap(t)
          \/ Rcu(t) \/ RcuLoad(t) \/ RcuCompute(t) \/ RcuExchange(t)
          \/ RetireDefer(t) \/ RetirePush(t)
          \/ Reclaim(t) \/ ReleaseElapsed(t)
    \/ RunCallback
    \/ DropCell

Spec == Init /\ [][Next]_vars

-----------------------------------------------------------------------------
(* A value a reader can reach through its guard, and the one an rcu has    *)
(* read and will compare against, stays allocated and is still the value   *)
(* that was loaded, however many writes, releases and reallocations happen *)
(* meanwhile (EpochGuard::deref, load_full, rcu).                          *)
ReadsAreSafe ==
    \A t \in Thread :
        /\ guard[t].pc = "loaded" =>
              strong[guard[t].ptr] > 0 /\ value[guard[t].ptr] = guard[t].seen
        /\ call[t].op = "rcu" /\ call[t].pc \in {"compute", "exchange"} =>
              strong[call[t].ptr] > 0

(* No update is ever lost: the current value contains every rcu update     *)
(* published since the last store, even though the exchange compares only  *)
(* addresses and an address may be reused (rcu).                           *)
NoUpdateLost == current # None => done \subseteq value[current]

(* The strong count of every address is the number of its owners: the      *)
(* cell, its retired list, the write about to retire or publish it, and    *)
(* the callers of load_full.  So each value is released once and none is   *)
(* leaked, also when the cell is dropped with grace periods still open     *)
(* (retire, release_elapsed, Drop).                                        *)
HeapAccounted ==
    \A a \in Addr :
        strong[a] = Cardinality({t \in Thread : kept[t] = a})
                  + Cardinality({t \in Thread : call[t].next = a})
                  + Cardinality({t \in Thread :
                        call[t].pc \in {"defer", "push"} /\ call[t].ptr = a})
                  + (IF current = a THEN 1 ELSE 0)
                  + (IF a \in retired THEN 1 ELSE 0)

=============================================================================
