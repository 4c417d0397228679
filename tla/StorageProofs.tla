--------------------------- MODULE StorageProofs ---------------------------
(***************************************************************************)
(* Proofs about two parts of the storage engine that share no state: the   *)
(* point read (ReadPath), for any set of readers, any values and any       *)
(* number of writes, flushes and reads, and the choice of the files a      *)
(* partial compaction merges (PartialRun), for any entry counts, any       *)
(* merge_min and any number of records.                                    *)
(***************************************************************************)
EXTENDS ReadPath, PartialRun, FiniteSetTheorems, NaturalsInduction,
        WellFoundedInduction, FunctionTheorems, TLAPS

-----------------------------------------------------------------------------
(* The read path: the inductive invariant.                                 *)

Entry == Entries \union {Absent}
Value == Values \union {Absent}
Pcs == {"idle", "hot", "begin_fill", "active", "lookup", "flushing", "sst",
        "promote", "done"}

TypeInv ==
    /\ maps \in [Generations -> Entry] /\ active \in Generations
    /\ flushing \in 0 .. MaxFlushes + 1 /\ sst \in Entry
    /\ hot \in Value /\ epoch \in Nat
    /\ flushPc \in {"idle", "parked", "writing", "clear"}
    /\ writer \in {"idle", "applied", "bumped"}
    /\ pc \in [Readers -> Pcs] /\ map \in [Readers -> Generations]
    /\ fill \in [Readers -> Nat] /\ found \in [Readers -> Value]
    /\ latest \in Value /\ settled \in Value
    /\ allowed \in [Readers -> SUBSET Value] /\ caught \in BOOLEAN

\* The newest entry of the key over the layers, as a reader that meets no
\* concurrent step would find it.
Current ==
    IF maps[active] # Absent THEN maps[active]
    ELSE IF flushing # 0 THEN maps[flushing] ELSE sst

\* Where the flush is determines the two maps; a parked map holds the key,
\* and is dropped only when another layer has what it held.
LayerInv ==
    /\ flushPc = "idle" => flushing = 0
    /\ flushPc = "parked" => flushing = active /\ active < MaxFlushes + 1
    /\ flushPc \in {"writing", "clear"} => flushing # 0 /\ active = flushing + 1
    /\ flushPc # "idle" => maps[flushing] # Absent
    /\ flushPc = "clear" /\ maps[active] = Absent => sst = maps[flushing]
    /\ \A g \in Generations : g > active => maps[g] = Absent
    /\ VisibleOf(Current) = latest

\* The values a fill may carry while its guard's epoch is the shard's: a
\* write shows in the maps before it moves the epoch.
Fillable == IF writer = "applied" THEN {settled, latest} ELSE {latest}

\* The values the tier may hold: the old one stays until the writer removes it.
Holdable == IF writer = "idle" THEN {latest} ELSE {settled, latest}

TierInv ==
    /\ writer = "idle" => settled = latest
    /\ ~ caught /\ hot # Absent => hot \in Holdable

\* r may return v, and may promote it if its guard is fresh.
Fits(r, v) == v \in allowed[r] /\ (FillFresh(r) => v \in Fillable)

\* What each step of a read still has to come: a map it loaded that is no
\* longer active holds the key; below it, whichever layer it meets next has
\* a fitting value.
ReadInv(r) ==
    /\ pc[r] # "idle" => latest \in allowed[r] /\ settled \in allowed[r]
    /\ fill[r] <= epoch
    /\ pc[r] = "lookup" /\ map[r] # active =>
          /\ map[r] < active /\ maps[map[r]] # Absent
          /\ Fits(r, VisibleOf(maps[map[r]]))
    /\ pc[r] \in {"flushing", "sst"} /\ flushing # 0 =>
          Fits(r, VisibleOf(maps[flushing]))
    /\ pc[r] = "flushing" /\ flushing = 0 => Fits(r, VisibleOf(sst))
    /\ pc[r] = "flushing" /\ flushPc = "clear" => sst = maps[flushing]
    /\ pc[r] = "sst" => Fits(r, VisibleOf(sst))
    /\ pc[r] = "promote" => Fits(r, found[r])
    /\ pc[r] = "done" => found[r] \in allowed[r]

ReadersInv == ~ caught => \A r \in Readers : ReadInv(r)

IInv == TypeInv /\ LayerInv /\ TierInv /\ ReadersInv

-----------------------------------------------------------------------------
(* Initial states, and types.                                              *)

LEMMA InitInv == Init => IInv
  <1> SUFFICES ASSUME Init PROVE IInv
    OBVIOUS
  <1>0. /\ MaxFlushes \in Nat /\ 1 \in Generations
        /\ Absent \notin Values
    BY ReadAssumption DEF Generations
  <1>1. TypeInv
    <2>1. /\ 0 \in 0 .. MaxFlushes + 1
          /\ maps \in [Generations -> Entry] /\ active \in Generations
      BY <1>0 DEF Init, Entry
    <2>2. allowed \in [Readers -> SUBSET Value] /\ caught \in BOOLEAN
      BY DEF Init
    <2> QED
      BY <1>0, <2>1, <2>2 DEF Init, TypeInv, Entry, Value, Pcs
  <1>2. LayerInv
    BY <1>0 DEF Init, LayerInv, Current, VisibleOf
  <1>3. TierInv
    BY DEF Init, TierInv
  <1>4. ReadersInv
    BY DEF Init, ReadersInv, ReadInv, Fits
  <1> QED
    BY <1>1, <1>2, <1>3, <1>4 DEF IInv

LEMMA Visible == ASSUME NEW e PROVE VisibleOf(e) \in Value
  BY DEF VisibleOf, Value

LEMMA TypeStep == IInv /\ [Next]_vars => TypeInv'
  <1> SUFFICES ASSUME IInv, [Next]_vars PROVE TypeInv'
    OBVIOUS
  <1> USE DEF TypeInv
  <1>0. /\ TypeInv /\ LayerInv /\ MaxFlushes \in Nat
        /\ Generations = 1 .. MaxFlushes + 1
        /\ Value \subseteq Entry /\ Absent \in Value
    BY ReadAssumption DEF IInv, Generations, Entry, Entries, Value
  <1>1. ASSUME NEW e \in Entries, Apply(e) PROVE TypeInv'
    <2>1. e \in Entry /\ VisibleOf(e) \in Value
      BY Visible DEF Entry
    <2>2. maps' \in [Generations -> Entry]
      BY <1>0, <1>1, <2>1 DEF Apply
    <2>3. allowed' \in [Readers -> SUBSET Value]
      BY <1>0, <1>1, <2>1 DEF Apply
    <2> QED
      BY <1>0, <1>1, <2>1, <2>2, <2>3 DEF Apply, tierVars, readerVars
  <1>2. CASE InvalidateBump
    BY <1>0, <1>2 DEF InvalidateBump, layerVars, readerVars, histVars
  <1>3. CASE InvalidateRemove
    BY <1>0, <1>3 DEF InvalidateRemove, layerVars, readerVars
  <1>4. CASE FlushPark
    BY <1>0, <1>4 DEF FlushPark, tierVars, readerVars, histVars
  <1>5. CASE FlushInstall
    BY <1>0, <1>5 DEF FlushInstall, tierVars, readerVars, histVars, LayerInv
  <1>6. CASE FlushPublish
    BY <1>0, <1>6 DEF FlushPublish, tierVars, readerVars, histVars, LayerInv
  <1>7. CASE FlushReabsorb
    <2>1. flushing \in Generations
      BY <1>0, <1>7 DEF FlushReabsorb, LayerInv
    <2>2. maps' \in [Generations -> Entry]
      BY <1>0, <1>7, <2>1 DEF FlushReabsorb
    <2> QED
      BY <1>0, <1>7, <2>2 DEF FlushReabsorb, tierVars, readerVars
  <1>8. CASE FlushClear
    BY <1>0, <1>8 DEF FlushClear, tierVars, readerVars, histVars
  <1>9. CASE Evict
    BY <1>0, <1>9 DEF Evict, layerVars, readerVars, histVars
  <1>10. CASE NeighbourInvalidate
    BY <1>0, <1>10 DEF NeighbourInvalidate, layerVars, readerVars, histVars
  <1>11. ASSUME NEW r \in Readers, ReaderStep(r) PROVE TypeInv'
    <2> USE DEF sharedVars, layerVars, tierVars, histVars, Goto, Pcs
    <2>1. CASE BeginGet(r)
      BY <1>0, <2>1 DEF BeginGet
    <2>2. CASE HotGet(r)
      BY <1>0, <2>2 DEF HotGet
    <2>3. CASE BeginFill(r)
      BY <1>0, <2>3 DEF BeginFill
    <2>4. CASE LoadActive(r)
      BY <1>0, <2>4 DEF LoadActive
    <2>5. CASE LookupActive(r)
      BY <1>0, <2>5, Visible DEF LookupActive, Answer
    <2>6. CASE LookupFlushing(r)
      BY <1>0, <2>6, Visible DEF LookupFlushing, Answer
    <2>7. CASE LookupSst(r)
      BY <1>0, <2>7, Visible DEF LookupSst, Answer
    <2>8. CASE Promote(r)
      BY <1>0, <2>8 DEF Promote
    <2>9. CASE Return(r)
      BY <1>0, <2>9 DEF Return
    <2> QED
      BY <1>11, <2>1, <2>2, <2>3, <2>4, <2>5, <2>6, <2>7, <2>8, <2>9
         DEF ReaderStep
  <1>12. CASE UNCHANGED vars
    BY <1>0, <1>12
       DEF vars, layerVars, tierVars, readerVars, histVars
  <1> QED
    BY <1>1, <1>2, <1>3, <1>4, <1>5, <1>6, <1>7, <1>8, <1>9, <1>10, <1>11,
       <1>12 DEF Next, FlushStep

-----------------------------------------------------------------------------
(* The layers.                                                             *)

LEMMA LayerKept ==
    ASSUME LayerInv, UNCHANGED <<layerVars, flushPc, latest>>
    PROVE  LayerInv'
  BY DEF LayerInv, Current, layerVars

LEMMA LayerStep == IInv /\ [Next]_vars => LayerInv'
  <1> SUFFICES ASSUME IInv, [Next]_vars PROVE LayerInv'
    OBVIOUS
  <1>0. /\ TypeInv /\ LayerInv /\ MaxFlushes \in Nat
        /\ Generations = 1 .. MaxFlushes + 1
        /\ Absent \notin Entries
    BY ReadAssumption DEF IInv, Generations, Entries
  <1>1. ASSUME NEW e \in Entries, Apply(e) PROVE LayerInv'
    <2>1. e # Absent /\ maps'[active] = e
      BY <1>0, <1>1 DEF Apply, TypeInv
    <2>2. \A g \in Generations : g # active => maps'[g] = maps[g]
      BY <1>0, <1>1 DEF Apply, TypeInv
    <2>3. Current' = e
      BY <2>1, <1>1 DEF Apply, Current
    <2>4. VisibleOf(Current') = latest'
      BY <2>3, <1>1 DEF Apply
    <2>5. /\ flushPc' = flushPc /\ flushPc # "parked" /\ active' = active
          /\ flushing' = flushing /\ sst' = sst
      BY <1>1 DEF Apply, WriteLockFree
    <2>6. flushPc # "idle" => flushing \in Generations /\ flushing # active
      BY <1>0, <2>5 DEF LayerInv, TypeInv
    <2> QED
      BY <1>0, <2>1, <2>2, <2>4, <2>5, <2>6 DEF LayerInv, TypeInv, VisibleOf
  <1>2. CASE FlushPark
    <2>1. Current' = Current
      BY <1>2 DEF FlushPark, Current
    <2> QED
      BY <1>0, <1>2, <2>1
         DEF FlushPark, LayerInv, TypeInv, histVars, VisibleOf
  <1>3. CASE FlushInstall
    <2>1. /\ flushing = active /\ maps[active] # Absent /\ active' = active + 1
          /\ active' \in Generations
      BY <1>0, <1>3 DEF FlushInstall, LayerInv, TypeInv
    <2>2. maps'[active'] = Absent /\ maps' = maps
      BY <1>0, <1>3, <2>1 DEF FlushInstall, LayerInv, TypeInv
    <2>3. flushing' = flushing /\ flushing # 0
      BY <1>0, <1>3, <2>1 DEF FlushInstall, TypeInv
    <2>4. Current' = Current
      BY <2>1, <2>2, <2>3 DEF Current
    <2> QED
      BY <1>0, <1>3, <2>1, <2>2, <2>3, <2>4
         DEF FlushInstall, LayerInv, TypeInv, histVars, VisibleOf
  <1>4. CASE FlushPublish
    <2>1. Current' = Current
      BY <1>0, <1>4 DEF FlushPublish, Current, LayerInv
    <2> QED
      BY <1>0, <1>4, <2>1
         DEF FlushPublish, LayerInv, TypeInv, histVars, VisibleOf
  <1>5. CASE FlushReabsorb
    <2>1. /\ flushing \in Generations /\ flushing # active
          /\ maps[flushing] # Absent
          /\ active' = active /\ flushing' = flushing /\ sst' = sst
      BY <1>0, <1>5 DEF FlushReabsorb, LayerInv, TypeInv
    <2>2. \A g \in Generations : g # active => maps'[g] = maps[g]
      BY <1>0, <1>5 DEF FlushReabsorb, TypeInv
    <2>3. maps'[active] # Absent /\ maps'[active] = Current
      BY <1>0, <1>5, <2>1 DEF FlushReabsorb, Current, TypeInv
    <2>4. Current' = Current
      BY <2>1, <2>3 DEF Current
    <2> QED
      BY <1>0, <1>5, <2>1, <2>2, <2>3, <2>4
         DEF FlushReabsorb, LayerInv, TypeInv, VisibleOf
  <1>6. CASE FlushClear
    <2>1. Current' = Current
      BY <1>0, <1>6 DEF FlushClear, Current, LayerInv
    <2> QED
      BY <1>0, <1>6, <2>1
         DEF FlushClear, LayerInv, TypeInv, histVars, VisibleOf
  <1>7. ASSUME NEW r \in Readers, ReaderStep(r) PROVE LayerInv'
    <2>1. UNCHANGED <<layerVars, flushPc, latest>>
      BY <1>7 DEF ReaderStep, BeginGet, HotGet, BeginFill, LoadActive,
         LookupActive, LookupFlushing, LookupSst, Promote, Return, sharedVars,
         histVars
    <2> QED
      BY <1>0, <2>1, LayerKept
  <1>8. CASE \/ InvalidateBump \/ InvalidateRemove \/ Evict
             \/ NeighbourInvalidate \/ UNCHANGED vars
    <2>1. UNCHANGED <<layerVars, flushPc, latest>>
      BY <1>8 DEF InvalidateBump, InvalidateRemove, Evict,
         NeighbourInvalidate, vars, histVars
    <2> QED
      BY <1>0, <2>1, LayerKept
  <1> QED
    BY <1>1, <1>2, <1>3, <1>4, <1>5, <1>6, <1>7, <1>8 DEF Next, FlushStep

-----------------------------------------------------------------------------
(* The hot tier.                                                           *)

LEMMA TierStep == IInv /\ [Next]_vars => TierInv'
  <1> SUFFICES ASSUME IInv, [Next]_vars PROVE TierInv'
    OBVIOUS
  <1> USE DEF TierInv, Holdable
  <1>0. /\ TypeInv /\ TierInv /\ ReadersInv
    BY DEF IInv
  <1>1. ASSUME NEW e \in Entries, Apply(e) PROVE TierInv'
    BY <1>0, <1>1 DEF Apply, tierVars
  <1>2. CASE InvalidateBump
    BY <1>0, <1>2 DEF InvalidateBump, histVars
  <1>3. CASE InvalidateRemove
    BY <1>0, <1>3 DEF InvalidateRemove
  <1>4. CASE FlushStep
    BY <1>0, <1>4 DEF FlushStep, FlushPark, FlushInstall, FlushPublish,
       FlushClear, tierVars, histVars
  <1>5. CASE FlushReabsorb
    BY <1>0, <1>5 DEF FlushReabsorb, tierVars
  <1>6. CASE Evict
    BY <1>0, <1>6 DEF Evict, histVars
  <1>7. CASE NeighbourInvalidate
    BY <1>0, <1>7 DEF NeighbourInvalidate, histVars
  <1>8. ASSUME NEW r \in Readers, ReaderStep(r) PROVE TierInv'
    <2>1. CASE Promote(r)
      <3>1. UNCHANGED <<writer, latest, settled, caught>>
        BY <2>1 DEF Promote, histVars
      <3>2. ASSUME ~ caught, FillFresh(r), hot' = found[r] PROVE hot' \in Holdable
        <4>1. Fits(r, found[r])
          BY <1>0, <2>1, <3>2 DEF ReadersInv, ReadInv, Promote
        <4> QED
          BY <1>0, <3>2, <4>1 DEF Fits, Fillable
      <3>3. hot' = hot \/ (FillFresh(r) /\ hot' = found[r])
        BY <2>1 DEF Promote
      <3> QED
        BY <1>0, <3>1, <3>2, <3>3
    <2>2. CASE ~ Promote(r)
      <3>1. UNCHANGED <<hot, writer, latest, settled, caught>>
        BY <1>8, <2>2 DEF ReaderStep, BeginGet, HotGet, BeginFill, LoadActive,
           LookupActive, LookupFlushing, LookupSst, Return, sharedVars,
           tierVars, histVars
      <3> QED
        BY <1>0, <3>1
    <2> QED
      BY <2>1, <2>2
  <1>9. CASE UNCHANGED vars
    BY <1>0, <1>9 DEF vars, tierVars, histVars
  <1> QED
    BY <1>1, <1>2, <1>3, <1>4, <1>5, <1>6, <1>7, <1>8, <1>9 DEF Next

-----------------------------------------------------------------------------
(* The readers.                                                            *)

\* What every step leaves to a read that does not move: its own variables.
Still(r) ==
    /\ pc'[r] = pc[r] /\ map'[r] = map[r] /\ fill'[r] = fill[r]
    /\ found'[r] = found[r]

LEMMA FitsKept ==
    ASSUME NEW r, NEW v, Fits(r, v), fill'[r] = fill[r],
           allowed[r] \subseteq allowed'[r],
           FillFresh(r)' => FillFresh(r) /\ Fillable \subseteq Fillable'
    PROVE  Fits(r, v)'
  BY DEF Fits

\* A step of the flush, the tier or a writer, as a read that is under way
\* sees it: the step keeps the epoch and the fillable values, or moves the
\* epoch past every guard.
Gentle(r) ==
    /\ allowed[r] \subseteq allowed'[r] /\ epoch <= epoch' /\ epoch' \in Nat
    /\ pc[r] # "idle" => latest' \in allowed'[r] /\ settled' \in allowed'[r]
    /\ FillFresh(r)' => FillFresh(r) /\ Fillable \subseteq Fillable'

\* A reader that neither moves nor sees a layer change keeps its invariant.
LEMMA ReadKept ==
    ASSUME TypeInv, NEW r \in Readers, ReadInv(r), Still(r), Gentle(r),
           UNCHANGED <<layerVars, flushPc>>
    PROVE  ReadInv(r)'
  <1>1. \A v : Fits(r, v) => Fits(r, v)'
    BY FitsKept DEF Still, Gentle
  <1>2. fill'[r] <= epoch'
    BY DEF ReadInv, Still, Gentle, TypeInv
  <1> QED
    BY <1>1, <1>2 DEF ReadInv, Still, Gentle, layerVars, Fits

\* The layers a read has still to meet, when all of its own variables, the
\* epoch and the history stay as they are: the steps of a flush.
LEMMA FlushKept ==
    ASSUME IInv, ~ caught, NEW r \in Readers, FlushStep
    PROVE  ReadInv(r)'
  <1>0. /\ TypeInv /\ LayerInv /\ ReadInv(r) /\ TierInv
        /\ MaxFlushes \in Nat /\ Generations = 1 .. MaxFlushes + 1
    BY ReadAssumption DEF IInv, ReadersInv, Generations
  <1>1. /\ UNCHANGED <<tierVars, writer, readerVars, histVars, maps>>
        /\ Still(r) /\ allowed'[r] = allowed[r]
    BY DEF FlushStep, FlushPark, FlushInstall, FlushPublish, FlushClear,
       Still, readerVars, histVars
  <1>2. \A v : Fits(r, v) => Fits(r, v)'
    BY <1>1 DEF Fits, FillFresh, Fillable, tierVars, histVars, readerVars
  <1>3. pc[r] # "idle" => Fits(r, latest)
    BY <1>0 DEF ReadInv, Fits, Fillable
  <1>4. /\ pc'[r] # "idle" => latest' \in allowed'[r] /\ settled' \in allowed'[r]
        /\ fill'[r] <= epoch'
        /\ pc'[r] = "promote" => Fits(r, found[r])'
        /\ pc'[r] = "done" => found'[r] \in allowed'[r]
    BY <1>0, <1>1, <1>2
       DEF ReadInv, Still, tierVars, histVars, readerVars, Fits
  <1>5. CASE FlushPark
    <2>1. flushing = 0 /\ maps[active] # Absent /\ VisibleOf(maps[active]) = latest
      BY <1>0, <1>5 DEF FlushPark, LayerInv, Current
    <2>2. /\ flushing' = active /\ active' = active /\ sst' = sst
          /\ flushPc' = "parked"
      BY <1>5 DEF FlushPark
    <2>3. pc'[r] \in {"flushing", "sst"} => Fits(r, VisibleOf(maps[flushing]))'
      BY <1>1, <1>2, <1>3, <2>1, <2>2 DEF Still, Fits
    <2> QED
      BY <1>0, <1>1, <1>2, <1>4, <2>1, <2>2, <2>3
         DEF ReadInv, Still, Fits, TypeInv
  <1>6. CASE FlushInstall
    <2>1. /\ flushing = active /\ active' = active + 1 /\ sst' = sst
          /\ flushing' = flushing /\ flushPc' = "writing"
      BY <1>0, <1>6 DEF FlushInstall, LayerInv
    <2>2. maps[active] # Absent /\ VisibleOf(maps[active]) = latest
      BY <1>0, <1>6, <2>1 DEF FlushInstall, LayerInv, Current
    <2>3. /\ map[r] \in Nat /\ active \in Nat
      BY <1>0 DEF TypeInv
    <2>4. pc'[r] = "lookup" /\ map'[r] # active' =>
             /\ map'[r] < active' /\ maps'[map'[r]] # Absent
             /\ Fits(r, VisibleOf(maps[map[r]]))'
      <3>1. CASE map[r] = active
        BY <1>1, <1>2, <1>3, <2>1, <2>2, <2>3, <3>1 DEF Still, Fits
      <3>2. CASE map[r] # active
        BY <1>0, <1>1, <1>2, <2>1, <2>3, <3>2 DEF Still, Fits, ReadInv
      <3> QED
        BY <3>1, <3>2
    <2> QED
      BY <1>0, <1>1, <1>2, <1>4, <2>1, <2>4
         DEF ReadInv, Still, Fits
  <1>7. CASE FlushPublish
    <2>1. /\ flushing' = flushing /\ active' = active /\ flushing # 0
          /\ sst' = maps[flushing] /\ flushPc' = "clear"
      BY <1>0, <1>7 DEF FlushPublish, LayerInv
    <2> QED
      BY <1>0, <1>1, <1>2, <1>4, <2>1 DEF ReadInv, Still, Fits
  <1>8. CASE FlushClear
    <2>1. /\ flushing' = 0 /\ active' = active /\ flushing # 0
          /\ sst' = sst /\ flushPc' = "idle" /\ flushPc = "clear"
      BY <1>0, <1>8 DEF FlushClear, LayerInv
    <2> QED
      BY <1>0, <1>1, <1>2, <1>4, <2>1 DEF ReadInv, Still, Fits
  <1> QED
    BY <1>5, <1>6, <1>7, <1>8 DEF FlushStep

LEMMA ReabsorbKept ==
    ASSUME IInv, ~ caught, ~ caught', NEW r \in Readers, FlushReabsorb
    PROVE  ReadInv(r)'
  <1>0. /\ TypeInv /\ LayerInv /\ ReadInv(r)
        /\ MaxFlushes \in Nat /\ Generations = 1 .. MaxFlushes + 1
    BY ReadAssumption DEF IInv, ReadersInv, Generations
  <1>1. /\ UNCHANGED <<tierVars, writer, readerVars, latest, settled, allowed>>
        /\ UNCHANGED <<active, flushing, sst>>
        /\ Still(r) /\ flushPc' = "clear" /\ pc[r] # "flushing"
    BY DEF FlushReabsorb, Still, readerVars
  <1>2. \A v : Fits(r, v) => Fits(r, v)'
    BY <1>1 DEF Fits, FillFresh, Fillable, tierVars, readerVars
  <1>3. \A g \in Generations : g # active => maps'[g] = maps[g]
    BY <1>0 DEF FlushReabsorb, TypeInv
  <1>4. flushing \in Generations /\ flushing # active
    BY <1>0 DEF FlushReabsorb, LayerInv, TypeInv
  <1>5. map[r] \in Generations
    BY <1>0 DEF TypeInv
  <1>6. maps'[flushing] = maps[flushing]
    BY <1>3, <1>4
  <1>7. map[r] # active => maps'[map[r]] = maps[map[r]]
    BY <1>3, <1>5
  <1> QED
    BY <1>0, <1>1, <1>2, <1>6, <1>7
       DEF ReadInv, Still, Fits, tierVars, readerVars

LEMMA ApplyKept ==
    ASSUME IInv, ~ caught, NEW e \in Entries, Apply(e), NEW r \in Readers
    PROVE  ReadInv(r)'
  <1>0. /\ TypeInv /\ LayerInv /\ ReadInv(r) /\ TierInv
        /\ MaxFlushes \in Nat /\ Generations = 1 .. MaxFlushes + 1
    BY ReadAssumption DEF IInv, ReadersInv, Generations
  <1>1. /\ UNCHANGED <<tierVars, flushPc, readerVars, settled>>
        /\ UNCHANGED <<active, flushing, sst>>
        /\ Still(r) /\ flushPc # "parked"
        /\ writer = "idle" /\ writer' = "applied" /\ latest' = VisibleOf(e)
    BY DEF Apply, Still, readerVars, WriteLockFree
  <1>2. pc[r] # "idle" => allowed'[r] = allowed[r] \union {latest'}
    BY <1>1 DEF Apply
  <1>3. settled = latest
    BY <1>0, <1>1 DEF TierInv
  <1>4. \A v : pc[r] # "idle" /\ Fits(r, v) => Fits(r, v)'
    BY <1>1, <1>2, <1>3 DEF Fits, FillFresh, Fillable, tierVars, readerVars
  <1>5. \A g \in Generations : g # active => maps'[g] = maps[g]
    BY <1>0 DEF Apply, TypeInv
  <1>6. flushing # 0 => maps'[flushing] = maps[flushing]
    BY <1>0, <1>1, <1>5 DEF LayerInv, TypeInv
  <1>7. map[r] # active => maps'[map[r]] = maps[map[r]]
    BY <1>0, <1>5 DEF TypeInv
  <1>8. flushPc = "clear" => flushing # 0
    BY <1>0 DEF LayerInv
  <1> QED
    BY <1>0, <1>1, <1>2, <1>4, <1>6, <1>7, <1>8
       DEF ReadInv, Still, Fits, tierVars, readerVars

\* The moving reader: each layer it asks answers with a fitting value, or
\* leaves it in front of one that will.
LEMMA ReaderMoves ==
    ASSUME IInv, ~ caught, NEW r \in Readers, ReaderStep(r)
    PROVE  ReadInv(r)'
  <1>0. /\ TypeInv /\ LayerInv /\ ReadInv(r) /\ TierInv
        /\ MaxFlushes \in Nat /\ Generations = 1 .. MaxFlushes + 1
        /\ Absent \notin Values /\ Tombstone \notin Values /\ Absent # Tombstone
    BY ReadAssumption DEF IInv, ReadersInv, Generations
  <1>1. CASE BeginGet(r)
    <2>1. /\ UNCHANGED <<epoch, fill, latest, settled>> /\ pc'[r] = "hot"
          /\ allowed'[r] = {settled, latest}
      BY <1>0, <1>1 DEF BeginGet, Goto, TypeInv, sharedVars, tierVars
    <2> QED
      BY <1>0, <2>1 DEF ReadInv
  <1>2. CASE HotGet(r)
    <2>1. /\ UNCHANGED <<epoch, fill, latest, settled, allowed>>
          /\ pc[r] = "hot" /\ found'[r] = hot
          /\ pc'[r] = IF hot # Absent THEN "done" ELSE "begin_fill"
      BY <1>0, <1>2 DEF HotGet, Goto, TypeInv, sharedVars, tierVars, histVars
    <2>2. hot # Absent => hot \in allowed[r]
      BY <1>0, <2>1 DEF TierInv, Holdable, ReadInv
    <2> QED
      BY <1>0, <2>1, <2>2 DEF ReadInv
  <1>3. CASE BeginFill(r)
    <2>1. /\ UNCHANGED <<epoch, latest, settled, allowed>>
          /\ pc[r] = "begin_fill" /\ pc'[r] = "active" /\ fill'[r] = epoch
      BY <1>0, <1>3 DEF BeginFill, Goto, TypeInv, sharedVars, tierVars, histVars
    <2>2. epoch <= epoch
      BY <1>0 DEF TypeInv
    <2> QED
      BY <1>0, <2>1, <2>2 DEF ReadInv
  <1>4. CASE LoadActive(r)
    <2>1. /\ UNCHANGED <<epoch, latest, settled, allowed, active, fill>>
          /\ pc[r] = "active" /\ pc'[r] = "lookup" /\ map'[r] = active
      BY <1>0, <1>4
         DEF LoadActive, Goto, TypeInv, sharedVars, layerVars, tierVars, histVars
    <2> QED
      BY <1>0, <2>1 DEF ReadInv
  <1>5. ASSUME NEW e, NEW d \in {"flushing", "sst", "done"}, Answer(r, e, d),
               UNCHANGED <<sharedVars, map, fill, histVars>>,
               pc[r] # "idle",
               d # "done" => e = Absent \/ Fits(r, VisibleOf(e)),
               d = "done" => Fits(r, VisibleOf(e)),
               d = "flushing" /\ e = Absent =>
                  /\ flushing # 0 => Fits(r, VisibleOf(maps[flushing]))
                  /\ flushing = 0 => Fits(r, VisibleOf(sst))
                  /\ flushPc = "clear" => sst = maps[flushing],
               d = "sst" /\ e = Absent =>
                  /\ flushing = 0
                  /\ Fits(r, VisibleOf(sst)),
               e \in Values \/ e = Tombstone \/ e = Absent
        PROVE  ReadInv(r)'
    <2>1. /\ found'[r] = VisibleOf(e)
          /\ pc'[r] = IF e \in Values THEN "promote"
                      ELSE IF e = Tombstone THEN "done" ELSE d
      BY <1>0, <1>5 DEF Answer, Goto, TypeInv
    <2>2. UNCHANGED <<epoch, latest, settled, allowed, fill, writer, maps,
                      flushing, sst, flushPc>>
      BY <1>5 DEF sharedVars, layerVars, tierVars, histVars
    <2>3. \A v : Fits(r, v)' <=> Fits(r, v)
      BY <2>2 DEF Fits, FillFresh, Fillable
    <2>4. /\ latest' \in allowed'[r] /\ settled' \in allowed'[r]
          /\ fill'[r] <= epoch'
      BY <1>0, <1>5, <2>2 DEF ReadInv
    <2>5. CASE e \in Values \/ e = Tombstone
      <3>1. Fits(r, VisibleOf(e))
        BY <1>0, <1>5, <2>5
      <3>2. pc'[r] \in {"promote", "done"}
        BY <1>0, <2>1, <2>5
      <3>3. Fits(r, found[r])'
        BY <2>1, <2>2, <3>1 DEF Fits, FillFresh, Fillable
      <3> QED
        BY <2>4, <3>2, <3>3 DEF ReadInv, Fits
    <2>6. CASE e = Absent
      <3>1. pc'[r] = d
        BY <1>0, <2>1, <2>6
      <3>2. CASE d = "flushing"
        BY <1>5, <2>2, <2>4, <2>6, <3>1, <3>2
           DEF ReadInv, Fits, FillFresh, Fillable
      <3>3. CASE d = "sst"
        BY <1>5, <2>2, <2>4, <2>6, <3>1, <3>3
           DEF ReadInv, Fits, FillFresh, Fillable
      <3>4. CASE d = "done"
        BY <1>5, <2>1, <2>2, <2>4, <2>6, <3>1, <3>4 DEF ReadInv, Fits
      <3> QED
        BY <1>5, <3>2, <3>3, <3>4
    <2> QED
      BY <1>5, <2>5, <2>6
  <1>6. Fits(r, latest) \/ pc[r] = "idle"
    BY <1>0 DEF ReadInv, Fits, Fillable
  <1>7. CASE LookupActive(r)
    <2>1. PICK e : e = maps[map[r]]
      OBVIOUS
    <2>2. /\ Answer(r, e, "flushing") /\ pc[r] = "lookup"
          /\ UNCHANGED <<sharedVars, map, fill, histVars>>
      BY <1>7, <2>1 DEF LookupActive
    <2>3. e \in Values \/ e = Tombstone \/ e = Absent
      BY <1>0, <2>1 DEF TypeInv, Entry, Entries
    <2>4. CASE map[r] # active
      <3>1. e # Absent /\ Fits(r, VisibleOf(e))
        BY <1>0, <2>1, <2>2, <2>4 DEF ReadInv
      <3> QED
        BY <1>5, <2>2, <2>3, <3>1
    <2>5. CASE map[r] = active /\ e # Absent
      <3>1. VisibleOf(e) = latest
        BY <1>0, <2>1, <2>5 DEF LayerInv, Current
      <3> QED
        BY <1>5, <1>6, <2>2, <2>3, <2>5, <3>1
    <2>6. CASE map[r] = active /\ e = Absent
      <3>1. flushing # 0 => VisibleOf(maps[flushing]) = latest
        BY <1>0, <2>1, <2>6 DEF LayerInv, Current
      <3>2. flushing = 0 => VisibleOf(sst) = latest
        BY <1>0, <2>1, <2>6 DEF LayerInv, Current
      <3>3. flushPc = "clear" => sst = maps[flushing]
        BY <1>0, <2>1, <2>6 DEF LayerInv
      <3>4. /\ flushing # 0 => Fits(r, VisibleOf(maps[flushing]))
            /\ flushing = 0 => Fits(r, VisibleOf(sst))
        BY <1>6, <2>2, <3>1, <3>2
      <3> QED
        BY <1>5, <2>2, <2>3, <2>6, <3>3, <3>4
    <2> QED
      BY <2>4, <2>5, <2>6
  <1>8. CASE LookupFlushing(r)
    <2>1. PICK e : e = IF flushing = 0 THEN Absent ELSE maps[flushing]
      OBVIOUS
    <2>2. /\ Answer(r, e, "sst") /\ pc[r] = "flushing"
          /\ UNCHANGED <<sharedVars, map, fill, histVars>>
      BY <1>8, <2>1 DEF LookupFlushing
    <2>3. e \in Values \/ e = Tombstone \/ e = Absent
      BY <1>0, <2>1 DEF TypeInv, Entry, Entries
    <2>4. e = Absent => flushing = 0 /\ Fits(r, VisibleOf(sst))
      BY <1>0, <2>1, <2>2 DEF LayerInv, ReadInv, TypeInv
    <2>5. e # Absent => Fits(r, VisibleOf(e))
      BY <1>0, <2>1, <2>2 DEF ReadInv
    <2> QED
      BY <1>5, <2>2, <2>3, <2>4, <2>5
  <1>9. CASE LookupSst(r)
    <2>1. /\ Answer(r, sst, "done") /\ pc[r] = "sst"
          /\ UNCHANGED <<sharedVars, map, fill, histVars>>
      BY <1>9 DEF LookupSst
    <2>2. sst \in Values \/ sst = Tombstone \/ sst = Absent
      BY <1>0 DEF TypeInv, Entry, Entries
    <2>3. Fits(r, VisibleOf(sst))
      BY <1>0, <2>1 DEF ReadInv
    <2> QED
      BY <1>5, <2>1, <2>2, <2>3
  <1>10. CASE Promote(r)
    <2>1. /\ UNCHANGED <<epoch, latest, settled, allowed, fill, found>>
          /\ pc[r] = "promote" /\ pc'[r] = "done"
      BY <1>0, <1>10 DEF Promote, Goto, TypeInv, histVars
    <2> QED
      BY <1>0, <2>1 DEF ReadInv, Fits
  <1>11. CASE Return(r)
    <2>1. pc'[r] = "idle" /\ UNCHANGED <<fill, epoch>>
      BY <1>0, <1>11 DEF Return, Goto, TypeInv, sharedVars, tierVars
    <2> QED
      BY <1>0, <2>1 DEF ReadInv
  <1> QED
    BY <1>1, <1>2, <1>3, <1>4, <1>7, <1>8, <1>9, <1>10, <1>11 DEF ReaderStep

LEMMA ReadersStep == IInv /\ [Next]_vars => ReadersInv'
  <1> SUFFICES ASSUME IInv, [Next]_vars, ~ caught', NEW s \in Readers
               PROVE  ReadInv(s)'
    BY DEF ReadersInv
  <1>0. /\ TypeInv /\ TierInv /\ LayerInv
    BY DEF IInv
  <1>1. ~ caught
    BY <1>0 DEF Next, Apply, InvalidateBump, InvalidateRemove, FlushStep,
       FlushPark, FlushInstall, FlushPublish, FlushClear, FlushReabsorb, Evict,
       NeighbourInvalidate, ReaderStep, BeginGet, HotGet, BeginFill,
       LoadActive, LookupActive, LookupFlushing, LookupSst, Promote, Return,
       histVars, vars
  <1>2. ReadInv(s)
    BY <1>1 DEF IInv, ReadersInv
  <1>3. ASSUME NEW e \in Entries, Apply(e) PROVE ReadInv(s)'
    BY <1>1, <1>3, ApplyKept
  <1>4. CASE FlushStep
    BY <1>1, <1>4, FlushKept
  <1>5. CASE FlushReabsorb
    BY <1>1, <1>5, ReabsorbKept
  <1>6. CASE InvalidateBump \/ NeighbourInvalidate
    <2>1. /\ epoch' = epoch + 1 /\ Still(s)
          /\ UNCHANGED <<layerVars, flushPc, histVars, fill>>
      BY <1>6 DEF InvalidateBump, NeighbourInvalidate, Still, readerVars
    <2>2. ~ FillFresh(s)'
      BY <1>0, <1>2, <2>1 DEF FillFresh, ReadInv, TypeInv
    <2>3. Gentle(s)
      BY <1>0, <1>2, <2>1, <2>2 DEF Gentle, TypeInv, histVars, ReadInv
    <2> QED
      BY <1>0, <1>2, <2>1, <2>3, ReadKept
  <1>7. CASE InvalidateRemove
    <2>1. /\ UNCHANGED <<layerVars, flushPc, fill, epoch, latest, allowed>>
          /\ Still(s) /\ settled' = latest /\ writer = "bumped"
          /\ writer' = "idle"
      BY <1>7 DEF InvalidateRemove, Still, readerVars
    <2>2. Gentle(s)
      BY <1>0, <1>2, <2>1
         DEF Gentle, TypeInv, ReadInv, FillFresh, Fillable
    <2> QED
      BY <1>0, <1>2, <2>1, <2>2, ReadKept
  <1>8. CASE Evict \/ UNCHANGED vars
    <2>1. /\ UNCHANGED <<layerVars, flushPc, fill, epoch, histVars, writer>>
          /\ Still(s)
      BY <1>8 DEF Evict, Still, readerVars, vars, tierVars
    <2>2. Gentle(s)
      BY <1>0, <1>2, <2>1
         DEF Gentle, TypeInv, ReadInv, FillFresh, Fillable, histVars
    <2> QED
      BY <1>0, <1>2, <2>1, <2>2, ReadKept
  <1>9. ASSUME NEW r \in Readers, ReaderStep(r) PROVE ReadInv(s)'
    <2>1. CASE s = r
      BY <1>1, <1>9, <2>1, ReaderMoves
    <2>2. CASE s # r
      <3>1. /\ UNCHANGED <<layerVars, flushPc, epoch, latest, settled, writer>>
            /\ allowed'[s] = allowed[s] /\ fill'[s] = fill[s]
            /\ Still(s)
        BY <1>0, <1>9, <2>2 DEF ReaderStep, BeginGet, HotGet, BeginFill,
           LoadActive, LookupActive, LookupFlushing, LookupSst, Promote,
           Return, Answer, Goto, Still, TypeInv, sharedVars, tierVars, histVars
      <3>2. Gentle(s)
        BY <1>0, <1>2, <3>1
           DEF Gentle, TypeInv, ReadInv, FillFresh, Fillable
      <3> QED
        BY <1>0, <1>2, <3>1, <3>2, ReadKept
    <2> QED
      BY <2>1, <2>2
  <1> QED
    BY <1>3, <1>4, <1>5, <1>6, <1>7, <1>8, <1>9 DEF Next

-----------------------------------------------------------------------------
(* The theorems.                                                           *)

\* The inductive invariant holds in every reachable state of the read path
\* (get, Memtable::get_entry, flush_streaming, begin_fill, promote and
\* invalidate).
THEOREM Invariance == Spec => []IInv
  <1>1. Init => IInv
    BY InitInv
  <1>2. IInv /\ [Next]_vars => IInv'
    BY TypeStep, LayerStep, TierStep, ReadersStep DEF IInv
  <1> QED
    BY <1>1, <1>2, PTL DEF Spec

\* A read returns the last finished write's value or an overlapping one's,
\* for any number of readers, writes and flushes, unless a failed flush
\* folded its map back while the read was between the two memtables
\* (EmbeddedStorageEngine::get against flush_streaming).
THEOREM ReadsAreRegular == Spec => []RegularUnlessCaught
  <1>1. IInv => RegularUnlessCaught
    BY DEF IInv, ReadersInv, ReadInv, RegularUnlessCaught, RegularRead
  <1> QED
    BY <1>1, Invariance, PTL

\* Between writes a cached value is the current one: a fill that read before
\* a write never lands after it (begin_fill, promote, invalidate).
THEOREM CacheCoherent == Spec => []HotCoherent
  <1>1. IInv => HotCoherent
    BY DEF IInv, TierInv, Holdable, HotCoherent
  <1> QED
    BY <1>1, Invariance, PTL

\* The layers, as a read that met no other step would walk them, show the
\* last applied write, at every point of a flush, of a failed one too
\* (Memtable::flush_streaming parks before it installs, and clears only what
\* another layer holds).
LayersCurrent == VisibleOf(Current) = latest

THEOREM FlushKeepsValue == Spec => []LayersCurrent
  <1>1. IInv => LayersCurrent
    BY DEF IInv, LayerInv, LayersCurrent
  <1> QED
    BY <1>1, Invariance, PTL

-----------------------------------------------------------------------------
(* Partial runs.  The loops of select_partial_run are recursive functions: *)
(* that each is defined, and what it returns, is shown by the smallest     *)
(* argument for which it would not be.                                     *)

LEMMA SmallestOf ==
    ASSUME NEW S \in SUBSET Nat, S # {}
    PROVE  Min(S) \in S /\ \A y \in S : Min(S) <= y
  <1> DEFINE R == {ss \in Nat \X Nat : ss[1] < ss[2]}
  <1>1. IsWellFoundedOn(R, Nat)
    BY NatLessThanWellFounded DEF OpToRel
  <1> HIDE DEF R
  <1>2. PICK x \in S : \A y \in S : ~ (<<y, x>> \in R)
    BY <1>1, WFMin
  <1>3. ASSUME NEW y \in S PROVE x <= y
    <2>1. x \in Nat /\ y \in Nat /\ ~ (<<y, x>> \in R)
      BY <1>2
    <2>2. <<y, x>> \in Nat \X Nat
      BY <2>1
    <2>3. ~ (y < x)
      BY <2>1, <2>2 DEF R
    <2> QED
      BY <2>1, <2>3
  <1> QED
    BY <1>2, <1>3 DEF Min

-----------------------------------------------------------------------------
(* The inner loop.                                                         *)

LEMMA Counted ==
    ASSUME NEW n \in Nat
    PROVE  AtLeastOne(n) \in Nat /\ AtLeastOne(n) >= 1
  BY DEF AtLeastOne

SpanRun(f, s, i, n) ==
    f = [j \in i .. n |->
            IF j = i
            THEN [end |-> i, lo |-> AtLeastOne(s[i]), hi |-> AtLeastOne(s[i])]
            ELSE Widen(f[j - 1], j, AtLeastOne(s[j]))]

LEMMA SpanRuns ==
    ASSUME NEW s, NEW i \in Nat, NEW end \in Nat, i <= end
    PROVE  \E f : SpanRun(f, s, i, end)
  <1> DEFINE bad == {n \in i .. end : ~ \E f : SpanRun(f, s, i, n)}
  <1>1. SUFFICES ASSUME bad # {} PROVE FALSE
    OBVIOUS
  <1>2. PICK m : m = Min(bad)
    OBVIOUS
  <1>3. m \in bad /\ \A y \in bad : m <= y
    BY <1>1, <1>2, SmallestOf
  <1> DEFINE start == [end |-> i, lo |-> AtLeastOne(s[i]), hi |-> AtLeastOne(s[i])]
  <1>4. CASE m = i
    <2>1. PICK f : f = [j \in i .. m |-> start]
      OBVIOUS
    <2>2. ASSUME NEW j \in i .. m PROVE j = i
      BY <1>4
    <2>3. SpanRun(f, s, i, m)
      BY <2>1, <2>2 DEF SpanRun
    <2> QED
      BY <1>3, <2>3
  <1>5. CASE m # i
    <2>1. m \in Nat /\ m - 1 \in i .. end /\ m > i
      BY <1>3, <1>5
    <2>2. m - 1 \notin bad
      BY <1>3, <2>1
    <2>3. PICK f : SpanRun(f, s, i, m - 1)
      BY <2>1, <2>2
    <2>4. PICK x : x = Widen(f[m - 1], m, AtLeastOne(s[m]))
      OBVIOUS
    <2>5. PICK g : g = [j \in i .. m |-> IF j = m THEN x ELSE f[j]]
      OBVIOUS
    <2>6. ASSUME NEW j \in i .. m
          PROVE  g[j] = IF j = i THEN start
                        ELSE Widen(g[j - 1], j, AtLeastOne(s[j]))
      <3>1. CASE j = m
        <4>1. m - 1 \in i .. m /\ m - 1 # m
          BY <2>1
        <4>2. g[m - 1] = f[m - 1] /\ g[m] = x
          BY <2>1, <2>5, <4>1
        <4> QED
          BY <1>5, <2>4, <3>1, <4>2
      <3>2. CASE j # m
        <4>1. j \in i .. m - 1 /\ g[j] = f[j]
          BY <2>1, <2>5, <3>2
        <4>2. CASE j = i
          BY <2>3, <4>1, <4>2 DEF SpanRun
        <4>3. CASE j # i
          <5>1. j - 1 \in i .. m /\ j - 1 # m
            BY <2>1, <4>1, <4>3
          <5>2. g[j - 1] = f[j - 1]
            BY <2>5, <5>1
          <5>3. f[j] = Widen(f[j - 1], j, AtLeastOne(s[j]))
            BY <2>3, <4>1, <4>3 DEF SpanRun
          <5> QED
            BY <4>1, <4>3, <5>2, <5>3
        <4> QED
          BY <4>2, <4>3
      <3> QED
        BY <3>1, <3>2
    <2>7. SpanRun(g, s, i, m)
      <3>1. g = [j \in i .. m |-> g[j]]
        BY <2>5
      <3> QED
        BY <2>6, <3>1 DEF SpanRun
    <2> QED
      BY <1>3, <2>7
  <1> QED
    BY <1>4, <1>5

\* What the loop knows when it has looked at the files up to k.
SpanOK(p, s, i, k) ==
    /\ p.end \in i .. k
    /\ p.lo \in Nat /\ p.hi \in Nat
    /\ \A a \in i .. p.end : p.lo <= AtLeastOne(s[a]) /\ AtLeastOne(s[a]) <= p.hi
    /\ \E a \in i .. p.end : AtLeastOne(s[a]) = p.lo
    /\ \E a \in i .. p.end : AtLeastOne(s[a]) = p.hi
    /\ p.hi <= 2 * p.lo
    /\ p.end < k => ~ IsTier(s, i, p.end + 1)

LEMMA SpanGrows ==
    ASSUME NEW s \in Seq(Nat), NEW i \in 1 .. Len(s), NEW k \in i .. Len(s),
           k # i, NEW p, SpanOK(p, s, i, k - 1)
    PROVE  SpanOK(Widen(p, k, AtLeastOne(s[k])), s, i, k)
  <1>1. PICK x : x = AtLeastOne(s[k])
    OBVIOUS
  <1>9. PICK l : l = p.lo
    OBVIOUS
  <1>10. PICK h : h = p.hi
    OBVIOUS
  <1>2. PICK lo : lo = Smaller(l, x)
    OBVIOUS
  <1>3. PICK hi : hi = Larger(h, x)
    OBVIOUS
  <1>4. PICK e : e = p.end
    OBVIOUS
  <1>5. /\ k \in Nat /\ i \in Nat /\ e \in Nat /\ i <= e /\ e <= k - 1
        /\ x \in Nat /\ x >= 1 /\ l \in Nat /\ h \in Nat
    <2>1. s[k] \in Nat /\ k \in Nat /\ i \in Nat
      OBVIOUS
    <2>2. x \in Nat /\ x >= 1
      BY <1>1, <2>1, Counted
    <2>3. e \in i .. k - 1 /\ l \in Nat /\ h \in Nat
      BY <1>4, <1>9, <1>10 DEF SpanOK
    <2> QED
      BY <2>1, <2>2, <2>3
  <1>6. /\ lo \in Nat /\ hi \in Nat /\ lo <= l /\ h <= hi
        /\ lo <= x /\ x <= hi /\ lo \in {l, x} /\ hi \in {h, x}
    <2>1. lo \in Nat /\ lo <= l /\ lo <= x /\ lo \in {l, x}
      BY <1>2, <1>5 DEF Smaller
    <2>2. hi \in Nat /\ h <= hi /\ x <= hi /\ hi \in {h, x}
      BY <1>3, <1>5 DEF Larger
    <2> QED
      BY <2>1, <2>2
  <1>7. CASE e = k - 1 /\ hi <= 2 * lo
    <2>1. Widen(p, k, x) = [end |-> k, lo |-> lo, hi |-> hi]
      BY <1>2, <1>3, <1>4, <1>9, <1>10, <1>7 DEF Widen, InRatio
    <2>2. ASSUME NEW a \in i .. k
          PROVE  lo <= AtLeastOne(s[a]) /\ AtLeastOne(s[a]) <= hi
      <3>1. CASE a = k
        BY <1>1, <1>6, <3>1
      <3>2. CASE a # k
        <4>1. a \in i .. p.end
          BY <1>4, <1>5, <1>7, <3>2
        <4>2. s[a] \in Nat
          BY <1>5
        <4>3. l <= AtLeastOne(s[a]) /\ AtLeastOne(s[a]) <= h
          BY <1>9, <1>10, <4>1 DEF SpanOK
        <4>4. AtLeastOne(s[a]) \in Nat
          BY <4>2, Counted
        <4> QED
          BY <1>5, <1>6, <4>3, <4>4
      <3> QED
        BY <3>1, <3>2
    <2>3. \E a \in i .. k : AtLeastOne(s[a]) = lo
      <3>1. CASE lo = x
        BY <1>1, <1>5, <3>1
      <3>2. CASE lo = l
        <4>1. PICK a \in i .. p.end : AtLeastOne(s[a]) = l
          BY <1>9 DEF SpanOK
        <4>2. a \in i .. k
          BY <1>4, <1>5, <4>1
        <4> QED
          BY <3>2, <4>1, <4>2
      <3> QED
        BY <1>6, <3>1, <3>2
    <2>4. \E a \in i .. k : AtLeastOne(s[a]) = hi
      <3>1. CASE hi = x
        BY <1>1, <1>5, <3>1
      <3>2. CASE hi = h
        <4>1. PICK a \in i .. p.end : AtLeastOne(s[a]) = h
          BY <1>10 DEF SpanOK
        <4>2. a \in i .. k
          BY <1>4, <1>5, <4>1
        <4> QED
          BY <3>2, <4>1, <4>2
      <3> QED
        BY <1>6, <3>1, <3>2
    <2>5. PICK q : q = [end |-> k, lo |-> lo, hi |-> hi]
      OBVIOUS
    <2>6. q.end = k /\ q.lo = lo /\ q.hi = hi
      BY <2>5
    <2>7. k \in i .. k /\ ~ (k < k)
      BY <1>5
    <2>8. SpanOK(q, s, i, k)
      BY <1>6, <1>7, <2>2, <2>3, <2>4, <2>6, <2>7 DEF SpanOK
    <2> QED
      BY <1>1, <2>1, <2>5, <2>8
  <1>8. CASE ~ (e = k - 1 /\ hi <= 2 * lo)
    <2>1. Widen(p, k, x) = p
      BY <1>2, <1>3, <1>4, <1>9, <1>10, <1>8 DEF Widen, InRatio
    <2>2. ~ IsTier(s, i, e + 1)
      <3>1. CASE e < k - 1
        BY <1>4, <3>1 DEF SpanOK
      <3>2. CASE e = k - 1 /\ ~ (hi <= 2 * lo)
        <4>1. e + 1 = k
          BY <1>5, <3>2
        <4>2. PICK a \in i .. e : AtLeastOne(s[a]) = l
          BY <1>4, <1>9 DEF SpanOK
        <4>3. PICK b \in i .. e : AtLeastOne(s[b]) = h
          BY <1>4, <1>10 DEF SpanOK
        <4>4. a \in i .. e + 1 /\ b \in i .. e + 1 /\ k \in i .. e + 1
          BY <1>5, <4>1
        <4>5. h <= 2 * l
          BY <1>9, <1>10 DEF SpanOK
        <4>6. \/ hi = x /\ lo = l
              \/ hi = h /\ lo = x
          BY <1>5, <1>6, <3>2, <4>5
        <4> QED
          BY <1>1, <1>5, <3>2, <4>2, <4>3, <4>4, <4>6 DEF IsTier
      <3> QED
        BY <1>5, <1>8, <3>1, <3>2
    <2>3. e \in i .. k
      BY <1>5
    <2> QED
      BY <1>1, <1>4, <1>5, <2>1, <2>2, <2>3 DEF SpanOK
  <1> QED
    BY <1>7, <1>8

\* The span that starts at i is a tier that no older file extends.
LEMMA SpanEndsTier ==
    ASSUME NEW s \in Seq(Nat), NEW i \in 1 .. Len(s)
    PROVE  /\ SpanEnd(s, i) \in i .. Len(s)
           /\ IsTier(s, i, SpanEnd(s, i))
           /\ SpanEnd(s, i) < Len(s) => ~ IsTier(s, i, SpanEnd(s, i) + 1)
  <1>1. PICK n : n = Len(s)
    OBVIOUS
  <1>2. n \in Nat /\ i \in Nat /\ i >= 1 /\ i <= n
    BY <1>1
  <1>3. PICK run : run = CHOOSE f : SpanRun(f, s, i, n)
    OBVIOUS
  <1>4. SpanRun(run, s, i, n)
    BY <1>2, <1>3, SpanRuns
  <1>5. SpanEnd(s, i) = run[n].end
    BY <1>1, <1>3 DEF SpanEnd, SpanRun
  <1> DEFINE bad == {k \in i .. n : ~ SpanOK(run[k], s, i, k)}
  <1>6. ASSUME bad # {} PROVE FALSE
    <2>1. PICK m : m = Min(bad)
      OBVIOUS
    <2>2. bad \in SUBSET Nat
      BY <1>2
    <2>3. m \in bad /\ \A y \in bad : m <= y
      <3> HIDE DEF bad
      <3> QED
        BY <1>6, <2>1, <2>2, SmallestOf
    <2>4. m \in i .. n /\ m \in Nat
      BY <1>2, <2>3
    <2>5. CASE m = i
      <3>1. PICK x : x = AtLeastOne(s[i])
        OBVIOUS
      <3>6. s[i] \in Nat
        OBVIOUS
      <3>2. x \in Nat /\ x >= 1
        BY ONLY <3>1, <3>6, Counted
      <3>3. run[m] = [end |-> i, lo |-> x, hi |-> x]
        BY <1>4, <2>4, <2>5, <3>1 DEF SpanRun
      <3>4. \A a \in i .. i : a = i
        BY <1>2
      <3>5. SpanOK(run[m], s, i, m)
        BY <1>2, <2>5, <3>1, <3>2, <3>3, <3>4 DEF SpanOK
      <3> QED
        BY <2>3, <3>5
    <2>6. CASE m # i
      <3>1. m - 1 \in i .. n /\ m - 1 < m /\ m \in i .. Len(s)
        BY <1>1, <1>2, <2>4, <2>6
      <3>2. m - 1 \notin bad
        BY <2>3, <2>4, <3>1
      <3>3. SpanOK(run[m - 1], s, i, m - 1)
        BY <3>1, <3>2
      <3>4. run[m] = Widen(run[m - 1], m, AtLeastOne(s[m]))
        BY <1>4, <2>4, <2>6 DEF SpanRun
      <3>5. PICK p : p = run[m - 1]
        OBVIOUS
      <3>6. SpanOK(run[m], s, i, m)
        BY <2>6, <3>1, <3>3, <3>4, <3>5, SpanGrows
      <3> QED
        BY <2>3, <3>6
    <2> QED
      BY <2>5, <2>6
  <1>7. SpanOK(run[n], s, i, n)
    BY <1>2, <1>6
  <1>8. PICK e : e = run[n].end
    OBVIOUS
  <1>9. e \in i .. n /\ e \in Nat /\ (e < n => ~ IsTier(s, i, e + 1))
    BY <1>2, <1>7, <1>8 DEF SpanOK
  <1>10. IsTier(s, i, e)
    <2>1. SUFFICES ASSUME NEW a \in i .. e, NEW b \in i .. e
                   PROVE  AtLeastOne(s[a]) <= 2 * AtLeastOne(s[b])
      BY DEF IsTier
    <2>2. s[a] \in Nat /\ s[b] \in Nat
      BY <1>1, <1>2, <1>9
    <2>3. PICK p : p = run[n]
      OBVIOUS
    <2>4. PICK lo : lo = p.lo
      OBVIOUS
    <2>5. PICK hi : hi = p.hi
      OBVIOUS
    <2>6. /\ AtLeastOne(s[a]) <= hi /\ lo <= AtLeastOne(s[b]) /\ hi <= 2 * lo
          /\ lo \in Nat /\ hi \in Nat
      BY <1>7, <1>8, <2>3, <2>4, <2>5 DEF SpanOK
    <2>7. PICK x : x = AtLeastOne(s[a])
      OBVIOUS
    <2>8. PICK y : y = AtLeastOne(s[b])
      OBVIOUS
    <2>9. x \in Nat /\ y \in Nat
      BY <2>2, <2>7, <2>8, Counted
    <2>10. x <= 2 * y
      BY <2>6, <2>7, <2>8, <2>9
    <2> QED
      BY <2>7, <2>8, <2>10
  <1> QED
    BY <1>1, <1>5, <1>8, <1>9, <1>10

-----------------------------------------------------------------------------
(* The outer loop.                                                         *)

LEMMA EnoughFiles ==
    /\ Larger(MergeMin, 2) \in Nat /\ Larger(MergeMin, 2) >= 2
    /\ Larger(MergeMin, 2) >= MergeMin /\ MergeMin \in Nat
  <1>1. MergeMin \in Nat
    BY TierAssumption
  <1> QED
    BY <1>1 DEF Larger

ScanRun(f, s, start) ==
    f = [i \in start .. Len(s) + 1 |->
            IF i > Len(s) THEN None
            ELSE IF LongEnough(i, SpanEnd(s, i)) THEN <<i, SpanEnd(s, i)>>
            ELSE f[SpanEnd(s, i) + 1]]

LEMMA ScanRuns ==
    ASSUME NEW s \in Seq(Nat)
    PROVE  \E f : ScanRun(f, s, 1)
  <1>1. PICK n : n = Len(s)
    OBVIOUS
  <1>2. n \in Nat
    BY <1>1
  <1> DEFINE bad == {k \in 0 .. n : ~ \E f : ScanRun(f, s, n + 1 - k)}
  <1>3. ASSUME bad # {} PROVE FALSE
    <2>1. PICK m : m = Min(bad)
      OBVIOUS
    <2>2. bad \in SUBSET Nat
      BY <1>2
    <2>3. m \in bad /\ \A y \in bad : m <= y
      <3> HIDE DEF bad
      <3> QED
        BY <1>3, <2>1, <2>2, SmallestOf
    <2>4. m \in 0 .. n /\ m \in Nat
      BY <1>2, <2>3
    <2>5. CASE m = 0
      <3>1. PICK f : f = [i \in n + 1 .. n + 1 |-> None]
        OBVIOUS
      <3>2. \A i \in n + 1 .. n + 1 : i > n
        BY <1>2
      <3>3. ScanRun(f, s, n + 1)
        BY <1>1, <3>1, <3>2 DEF ScanRun
      <3>4. n + 1 - m = n + 1
        BY <1>2, <2>5
      <3> QED
        BY <2>3, <3>3, <3>4
    <2>6. CASE m # 0
      <3>1. PICK a : a = n + 1 - m
        OBVIOUS
      <3>2. /\ a \in 1 .. n /\ a \in Nat /\ m - 1 \in 0 .. n
            /\ m - 1 < m /\ n + 1 - (m - 1) = a + 1
        BY <1>2, <2>4, <2>6, <3>1
      <3>3. m - 1 \notin bad
        BY <2>3, <2>4, <3>2
      <3>4. \E f : ScanRun(f, s, n + 1 - (m - 1))
        BY <3>2, <3>3
      <3>5. PICK f : ScanRun(f, s, a + 1)
        BY <3>2, <3>4
      <3>6. PICK x : x = IF LongEnough(a, SpanEnd(s, a)) THEN <<a, SpanEnd(s, a)>>
                         ELSE f[SpanEnd(s, a) + 1]
        OBVIOUS
      <3>7. PICK g : g = [i \in a .. n + 1 |-> IF i = a THEN x ELSE f[i]]
        OBVIOUS
      <3>8. ASSUME NEW i \in a .. n + 1
            PROVE  g[i] = IF i > n THEN None
                          ELSE IF LongEnough(i, SpanEnd(s, i))
                          THEN <<i, SpanEnd(s, i)>>
                          ELSE g[SpanEnd(s, i) + 1]
        <4>1. ASSUME i <= n
              PROVE  g[SpanEnd(s, i) + 1] = f[SpanEnd(s, i) + 1]
          <5>1. PICK j : j = SpanEnd(s, i)
            OBVIOUS
          <5>2. i \in 1 .. Len(s)
            BY <1>1, <1>2, <3>2, <4>1
          <5>3. j \in i .. n
            BY <1>1, <5>1, <5>2, SpanEndsTier
          <5>4. j + 1 \in a .. n + 1 /\ j + 1 # a
            BY <1>2, <3>2, <5>3
          <5> QED
            BY <3>7, <5>1, <5>4
        <4>2. CASE i = a
          <5>1. i <= n /\ ~ (i > n)
            BY <1>2, <3>2, <4>2
          <5>2. g[i] = x
            BY <3>7, <4>2
          <5> QED
            BY <3>6, <4>1, <4>2, <5>1, <5>2
        <4>3. CASE i # a
          <5>1. i \in a + 1 .. n + 1 /\ (i > n \/ i <= n)
            BY <1>2, <3>2, <4>3
          <5>2. g[i] = f[i]
            BY <3>7, <4>3
          <5>3. f[i] = IF i > n THEN None
                       ELSE IF LongEnough(i, SpanEnd(s, i))
                       THEN <<i, SpanEnd(s, i)>>
                       ELSE f[SpanEnd(s, i) + 1]
            BY <1>1, <3>5, <5>1 DEF ScanRun
          <5>4. CASE i > n
            BY <5>2, <5>3, <5>4
          <5>5. CASE i <= n
            <6>1. ~ (i > n)
              BY <1>2, <3>2, <5>5
            <6> QED
              BY <4>1, <5>2, <5>3, <5>5, <6>1
          <5> QED
            BY <5>1, <5>4, <5>5
        <4> QED
          BY <4>2, <4>3
      <3>9. g = [i \in a .. n + 1 |-> g[i]]
        BY <3>7
      <3>10. ScanRun(g, s, a)
        BY <1>1, <3>8, <3>9 DEF ScanRun
      <3> QED
        BY <2>3, <3>1, <3>10
    <2> QED
      BY <2>5, <2>6
  <1>4. \E f : ScanRun(f, s, n + 1 - n)
    <2>1. n \in 0 .. n /\ n \notin bad
      <3> HIDE DEF bad
      <3> QED
        BY <1>2, <1>3
    <2> QED
      BY <2>1
  <1>5. n + 1 - n = 1
    BY <1>2
  <1> QED
    BY <1>4, <1>5

\* A tier that starts where a span does ends no later.
LEMMA TierWithinSpan ==
    ASSUME NEW s \in Seq(Nat), NEW c \in 1 .. Len(s), NEW d \in c .. Len(s),
           IsTier(s, c, d)
    PROVE  d <= SpanEnd(s, c)
  <1>1. PICK j : j = SpanEnd(s, c)
    OBVIOUS
  <1>2. /\ j \in c .. Len(s) /\ (j < Len(s) => ~ IsTier(s, c, j + 1))
        /\ Len(s) \in Nat
    BY <1>1, SpanEndsTier
  <1>3. ASSUME j < d PROVE FALSE
    <2>1. j < Len(s) /\ \A a \in c .. j + 1 : a \in c .. d
      BY <1>2, <1>3
    <2>2. IsTier(s, c, j + 1)
      BY <2>1 DEF IsTier
    <2> QED
      BY <1>2, <2>1, <2>2
  <1> QED
    BY <1>1, <1>2, <1>3

\* What the scan that starts at i returns.
ScanOK(r, s, i) ==
    /\ r # None => \E a \in i .. Len(s) : /\ r = <<a, SpanEnd(s, a)>>
                                          /\ LongEnough(a, SpanEnd(s, a))
    /\ \A c, d \in i .. Len(s) :
          /\ c <= d /\ (r # None => d < r[1]) /\ IsTier(s, c, d)
          => d - c + 1 < 2 * Larger(MergeMin, 2) - 1

LEMMA ScanStops ==
    ASSUME NEW s \in Seq(Nat), NEW i \in 1 .. Len(s), NEW j, j = SpanEnd(s, i),
           LongEnough(i, j)
    PROVE  ScanOK(<<i, j>>, s, i)
  <1>1. PICK r : r = <<i, j>>
    OBVIOUS
  <1>2. r[1] = i /\ i \in i .. Len(s)
    BY <1>1
  <1>3. \A c, d \in i .. Len(s) : c <= d => ~ (d < r[1])
    BY <1>2
  <1>4. r # None
    BY <1>1 DEF None
  <1>5. ScanOK(r, s, i)
    BY <1>1, <1>2, <1>3, <1>4 DEF ScanOK
  <1> QED
    BY <1>1, <1>5

\* A span that is too short hides no long tier: what it shares with one is
\* short, and so is what the next span shares with it.
LEMMA ScanGoesOn ==
    ASSUME NEW s \in Seq(Nat), NEW i \in 1 .. Len(s), NEW j, j = SpanEnd(s, i),
           ~ LongEnough(i, j), NEW r, ScanOK(r, s, j + 1),
           j + 1 <= Len(s) /\ LongEnough(j + 1, SpanEnd(s, j + 1))
               => r = <<j + 1, SpanEnd(s, j + 1)>>
    PROVE  ScanOK(r, s, i)
  <1>1. PICK n : n = Len(s)
    OBVIOUS
  <1>2. PICK m : m = Larger(MergeMin, 2)
    OBVIOUS
  <1>3. n \in Nat /\ m \in Nat /\ m >= 2 /\ i \in Nat /\ i >= 1
    BY <1>1, <1>2, EnoughFiles
  <1>4. j \in Nat /\ i <= j /\ j <= n
    BY <1>1, <1>3, SpanEndsTier
  <1>5. j - i + 1 < m
    BY <1>2, <1>3, <1>4 DEF LongEnough
  <1>6. r # None => \E a \in i .. n : /\ r = <<a, SpanEnd(s, a)>>
                                      /\ LongEnough(a, SpanEnd(s, a))
    <2>1. \A a \in j + 1 .. n : a \in i .. n
      BY <1>3, <1>4
    <2> QED
      BY <1>1, <2>1 DEF ScanOK
  <1>7. ASSUME NEW c \in i .. n, NEW d \in i .. n,
               c <= d, r # None => d < r[1], IsTier(s, c, d)
        PROVE  d - c + 1 < 2 * m - 1
    <2>1. c \in Nat /\ d \in Nat /\ i <= c /\ d <= n
      BY <1>3
    <2>2. CASE c > j
      <3>1. c \in j + 1 .. n /\ d \in j + 1 .. n
        BY <1>3, <1>4, <1>7, <2>1, <2>2
      <3> QED
        BY <1>1, <1>2, <1>7, <3>1 DEF ScanOK
    <2>3. CASE d <= j
      BY <1>3, <1>4, <1>5, <2>1, <2>3
    <2>4. CASE c <= j /\ d > j
      <3>1. j + 1 \in 1 .. Len(s) /\ d \in j + 1 .. Len(s) /\ j + 1 <= Len(s)
        BY <1>1, <1>3, <1>4, <2>1, <2>4
      <3>2. \A a \in j + 1 .. d : a \in c .. d
        BY <1>4, <2>1, <2>4
      <3>3. IsTier(s, j + 1, d)
        BY <1>7, <3>2 DEF IsTier
      <3>4. PICK e : e = SpanEnd(s, j + 1)
        OBVIOUS
      <3>5. d <= e /\ e \in j + 1 .. Len(s)
        <4>1. PICK k : k = j + 1
          OBVIOUS
        <4> QED
          BY <3>1, <3>3, <3>4, <4>1, TierWithinSpan, SpanEndsTier
      <3>6. ~ LongEnough(j + 1, e)
        <4>1. SUFFICES ASSUME LongEnough(j + 1, e) PROVE FALSE
          OBVIOUS
        <4>2. r = <<j + 1, e>>
          BY <3>1, <3>4, <4>1
        <4>3. r # None /\ r[1] = j + 1
          BY <4>2 DEF None
        <4> QED
          BY <1>4, <1>7, <2>1, <2>4, <4>3
      <3>7. e - (j + 1) + 1 < m
        BY <1>2, <1>3, <1>4, <3>5, <3>6 DEF LongEnough
      <3>8. e \in Nat
        BY <1>4, <3>5
      <3>9. d <= e
        BY <3>5
      <3> QED
        BY ONLY <1>3, <1>4, <1>5, <2>1, <2>4, <3>7, <3>8, <3>9
    <2> QED
      BY <1>4, <2>1, <2>2, <2>3, <2>4
  <1> QED
    BY <1>1, <1>2, <1>6, <1>7 DEF ScanOK

LEMMA ScanReturns ==
    ASSUME NEW s \in Seq(Nat)
    PROVE  ScanOK(SelectPartialRun(s), s, 1)
  <1>1. PICK n : n = Len(s)
    OBVIOUS
  <1>2. n \in Nat
    BY <1>1
  <1>3. PICK f : f = CHOOSE g : ScanRun(g, s, 1)
    OBVIOUS
  <1>4. ScanRun(f, s, 1)
    BY <1>3, ScanRuns
  <1>5. SelectPartialRun(s) = f[1]
    BY <1>3 DEF SelectPartialRun, ScanRun
  <1>6. ASSUME NEW i \in 1 .. n + 1
        PROVE  f[i] = IF i > n THEN None
                      ELSE IF LongEnough(i, SpanEnd(s, i))
                      THEN <<i, SpanEnd(s, i)>>
                      ELSE f[SpanEnd(s, i) + 1]
    BY <1>1, <1>4 DEF ScanRun
  <1> DEFINE bad == {k \in 0 .. n : ~ ScanOK(f[n + 1 - k], s, n + 1 - k)}
  <1>7. ASSUME bad # {} PROVE FALSE
    <2>1. PICK m : m = Min(bad)
      OBVIOUS
    <2>2. bad \in SUBSET Nat
      BY <1>2
    <2>3. m \in bad /\ \A y \in bad : m <= y
      <3> HIDE DEF bad
      <3> QED
        BY <1>7, <2>1, <2>2, SmallestOf
    <2>4. m \in 0 .. n /\ m \in Nat
      BY <1>2, <2>3
    <2>5. PICK i : i = n + 1 - m
      OBVIOUS
    <2>6. i \in 1 .. n + 1 /\ i \in Nat
      BY <1>2, <2>4, <2>5
    <2>7. ~ ScanOK(f[i], s, i)
      BY <2>3, <2>5
    <2>8. CASE i > n
      <3>1. f[i] = None
        BY <1>6, <2>6, <2>8
      <3>2. i .. n = {}
        BY <1>2, <2>6, <2>8
      <3> QED
        BY <1>1, <2>7, <3>1, <3>2 DEF ScanOK
    <2>9. CASE i <= n
      <3>1. PICK j : j = SpanEnd(s, i)
        OBVIOUS
      <3>2. i \in 1 .. Len(s) /\ ~ (i > n)
        BY <1>1, <1>2, <2>6, <2>9
      <3>3. CASE LongEnough(i, j)
        <4>1. f[i] = <<i, j>>
          BY <1>6, <2>6, <3>1, <3>2, <3>3
        <4> QED
          BY <2>7, <3>1, <3>2, <3>3, <4>1, ScanStops
      <3>4. CASE ~ LongEnough(i, j)
        <4>1. f[i] = f[j + 1]
          BY <1>6, <2>6, <3>1, <3>2, <3>4
        <4>2. j \in i .. n
          BY <1>1, <3>1, <3>2, SpanEndsTier
        <4>3. PICK k : k = n - j
          OBVIOUS
        <4>4. /\ k \in 0 .. n /\ k < m /\ n + 1 - k = j + 1 /\ k \in Nat
              /\ j + 1 \in 1 .. n + 1
          BY <1>2, <2>4, <2>5, <2>6, <4>2, <4>3
        <4>5. k \notin bad
          BY <2>3, <2>4, <4>4
        <4>6. ScanOK(f[j + 1], s, j + 1)
          BY <4>4, <4>5
        <4>7. ASSUME j + 1 <= n, LongEnough(j + 1, SpanEnd(s, j + 1))
              PROVE  f[j + 1] = <<j + 1, SpanEnd(s, j + 1)>>
          <5>1. ~ (j + 1 > n)
            BY <1>2, <4>2, <4>7
          <5> QED
            BY <1>6, <4>4, <4>7, <5>1
        <4>8. PICK r : r = f[j + 1]
          OBVIOUS
        <4>9. ScanOK(r, s, i)
          BY <1>1, <3>1, <3>2, <3>4, <4>6, <4>7, <4>8, ScanGoesOn
        <4> QED
          BY <2>7, <4>1, <4>8, <4>9
      <3> QED
        BY <3>3, <3>4
    <2> QED
      BY <1>2, <2>6, <2>8, <2>9
  <1>8. n \notin bad /\ n \in 0 .. n /\ n + 1 - n = 1
    <2> HIDE DEF bad
    <2> QED
      BY <1>2, <1>7
  <1>9. ScanOK(f[1], s, 1)
    BY <1>8
  <1> QED
    BY <1>5, <1>9

\* What select_partial_run returns: a span of enough files, inside the list.
LEMMA SelectedRun ==
    ASSUME NEW s \in Seq(Nat), SelectPartialRun(s) # None
    PROVE  \E a, b : /\ SelectPartialRun(s) = <<a, b>>
                     /\ a \in 1 .. Len(s) /\ b \in a .. Len(s)
                     /\ b - a + 1 >= Larger(MergeMin, 2)
                     /\ IsTier(s, a, b)
                     /\ b < Len(s) => ~ IsTier(s, a, b + 1)
  <1>1. PICK a \in 1 .. Len(s) : /\ SelectPartialRun(s) = <<a, SpanEnd(s, a)>>
                                 /\ LongEnough(a, SpanEnd(s, a))
    BY ScanReturns DEF ScanOK
  <1>2. PICK b : b = SpanEnd(s, a)
    OBVIOUS
  <1>3. /\ b \in a .. Len(s) /\ IsTier(s, a, b)
        /\ b < Len(s) => ~ IsTier(s, a, b + 1)
    BY <1>1, <1>2, SpanEndsTier
  <1>4. b - a + 1 >= Larger(MergeMin, 2)
    BY <1>1, <1>2 DEF LongEnough
  <1> QED
    BY <1>1, <1>2, <1>3, <1>4

-----------------------------------------------------------------------------
(* The folds over a run.  FoldLeft folds over the sets of its indices, the *)
(* largest first, so each is defined by the shortest list that were not.   *)

LEMMA LastOf ==
    ASSUME NEW m \in Nat, NEW x \in SUBSET (1 .. m), m \in x
    PROVE  Max(x) = m
  <1>1. \A y \in x : y \in Nat /\ m >= y
    OBVIOUS
  <1>2. Max(x) \in x /\ \A y \in x : Max(x) >= y
    BY <1>1 DEF Max
  <1>3. PICK z : z = Max(x)
    OBVIOUS
  <1>4. z \in Nat /\ m >= z /\ z >= m
    BY <1>1, <1>2, <1>3
  <1> QED
    BY <1>3, <1>4

\* The sum of the counts at the indices of a set.
SumRun(f, s, n) ==
    f = [x \in SUBSET (1 .. n) |->
            IF x = {} THEN 0 ELSE f[x \ {Max(x)}] + s[Max(x)]]

LEMMA SumRuns ==
    ASSUME NEW s, NEW end \in Nat
    PROVE  \E f : SumRun(f, s, end)
  <1> DEFINE bad == {n \in 0 .. end : ~ \E f : SumRun(f, s, n)}
  <1>1. SUFFICES ASSUME bad # {} PROVE FALSE
    <2>1. end \in 0 .. end
      OBVIOUS
    <2>2. CASE end \in bad
      BY <2>2
    <2>3. CASE end \notin bad
      BY <2>1, <2>3
    <2> QED
      BY <2>2, <2>3
  <1>2. PICK m : m = Min(bad)
    OBVIOUS
  <1>3. m \in bad /\ \A y \in bad : m <= y
    <2>1. bad \in SUBSET Nat
      OBVIOUS
    <2> HIDE DEF bad
    <2> QED
      BY <1>1, <1>2, <2>1, SmallestOf
  <1>4. CASE m = 0
    <2>1. PICK f : f = [x \in SUBSET (1 .. m) |-> 0]
      OBVIOUS
    <2>2. ASSUME NEW x \in SUBSET (1 .. m) PROVE x = {}
      BY <1>4
    <2>3. SumRun(f, s, m)
      BY <2>1, <2>2 DEF SumRun
    <2> QED
      BY <1>3, <2>3
  <1>5. CASE m # 0
    <2>1. m \in Nat /\ m - 1 \in 0 .. end /\ m >= 1 /\ m - 1 < m
      BY <1>3, <1>5
    <2>2. m - 1 \notin bad
      BY <1>3, <2>1
    <2>3. PICK f : SumRun(f, s, m - 1)
      BY <2>1, <2>2
    <2>4. PICK g : g = [x \in SUBSET (1 .. m) |->
                          IF m \in x THEN f[x \ {m}] + s[m] ELSE f[x]]
      OBVIOUS
    <2>5. ASSUME NEW x \in SUBSET (1 .. m), m \notin x
          PROVE  x \in SUBSET (1 .. m - 1) /\ g[x] = f[x]
      <3>1. \A y \in x : y \in 1 .. m - 1
        BY <2>1, <2>5
      <3> QED
        BY <2>4, <2>5, <3>1
    <2>6. ASSUME NEW x \in SUBSET (1 .. m)
          PROVE  g[x] = IF x = {} THEN 0 ELSE g[x \ {Max(x)}] + s[Max(x)]
      <3>1. CASE m \in x
        <4>1. Max(x) = m
          BY <2>1, <3>1, LastOf
        <4>2. g[x \ {m}] = f[x \ {m}]
          BY <2>5
        <4>3. x # {}
          BY <3>1
        <4>4. g[x] = f[x \ {m}] + s[m]
          BY <2>4, <3>1
        <4> QED
          BY <4>1, <4>2, <4>3, <4>4
      <3>2. CASE m \notin x
        <4>1. PICK k : k = Max(x)
          OBVIOUS
        <4>2. x \in SUBSET (1 .. m - 1) /\ g[x] = f[x]
          BY <2>5, <3>2
        <4>3. g[x \ {k}] = f[x \ {k}]
          BY <2>5, <3>2
        <4>4. f[x] = IF x = {} THEN 0 ELSE f[x \ {Max(x)}] + s[Max(x)]
          BY <2>3, <4>2 DEF SumRun
        <4> QED
          BY <4>1, <4>2, <4>3, <4>4
      <3> QED
        BY <3>1, <3>2
    <2>7. g = [x \in SUBSET (1 .. m) |-> g[x]]
      BY <2>4
    <2>8. SumRun(g, s, m)
      BY <2>6, <2>7 DEF SumRun
    <2> QED
      BY <1>3, <2>8
  <1> QED
    BY <1>4, <1>5

LEMMA SumParts ==
    ASSUME NEW s \in Seq(Nat)
    PROVE  \E t : /\ t[0] = 0 /\ SumOf(s) = t[Len(s)]
                  /\ \A k \in 1 .. Len(s) : t[k] = t[k - 1] + s[k]
  <1>1. PICK n : n = Len(s)
    OBVIOUS
  <1>2. n \in Nat /\ DOMAIN s = 1 .. n
    BY <1>1
  <1>3. PICK f : f = CHOOSE g : SumRun(g, s, n)
    OBVIOUS
  <1>4. SumRun(f, s, n)
    BY <1>2, <1>3, SumRuns
  <1>5. SumOf(s) = f[1 .. n]
    BY <1>2, <1>3 DEF SumOf, FoldLeft, MapThenFoldSet, SumRun
  <1>6. PICK t : t = [k \in 0 .. n |-> f[1 .. k]]
    OBVIOUS
  <1>7. t[0] = 0
    <2>1. 0 \in 0 .. n /\ 1 .. 0 = {}
      BY <1>2
    <2>2. f[{}] = 0
      BY <1>4 DEF SumRun
    <2> QED
      BY <1>6, <2>1, <2>2
  <1>8. ASSUME NEW k \in 1 .. n
        PROVE  t[k] = t[k - 1] + s[k]
    <2>1. /\ k \in 0 .. n /\ k - 1 \in 0 .. n /\ k \in Nat /\ k \in 1 .. k
          /\ 1 .. k \in SUBSET (1 .. n) /\ 1 .. k # {}
      <3>1. k \in 0 .. n /\ k - 1 \in 0 .. n /\ k \in Nat /\ k \in 1 .. k
        BY <1>2
      <3>2. \A y \in 1 .. k : y \in 1 .. n
        BY <1>2
      <3> QED
        BY <3>1, <3>2
    <2>2. (1 .. k) \ {k} = 1 .. k - 1
      BY <2>1
    <2>3. PICK x : x = 1 .. k
      OBVIOUS
    <2>4. Max(x) = k
      BY <2>1, <2>3, LastOf
    <2>5. f[x] = f[x \ {Max(x)}] + s[Max(x)]
      BY <1>4, <2>1, <2>3 DEF SumRun
    <2>6. t[k] = f[x] /\ t[k - 1] = f[x \ {k}]
      BY <1>6, <2>1, <2>2, <2>3
    <2> QED
      BY <2>4, <2>5, <2>6
  <1>9. t[n] = f[1 .. n]
    BY <1>2, <1>6
  <1> QED
    BY <1>1, <1>5, <1>7, <1>8, <1>9

\* The largest of the numbers at the indices of a set.
HighRun(f, s, n) ==
    f = [x \in SUBSET (1 .. n) |->
            IF x = {} THEN 0 ELSE Larger(f[x \ {Max(x)}], s[Max(x)])]

LEMMA HighRuns ==
    ASSUME NEW s, NEW end \in Nat
    PROVE  \E f : HighRun(f, s, end)
  <1> DEFINE bad == {n \in 0 .. end : ~ \E f : HighRun(f, s, n)}
  <1>1. SUFFICES ASSUME bad # {} PROVE FALSE
    <2>1. end \in 0 .. end
      OBVIOUS
    <2>2. CASE end \in bad
      BY <2>2
    <2>3. CASE end \notin bad
      BY <2>1, <2>3
    <2> QED
      BY <2>2, <2>3
  <1>2. PICK m : m = Min(bad)
    OBVIOUS
  <1>3. m \in bad /\ \A y \in bad : m <= y
    <2>1. bad \in SUBSET Nat
      OBVIOUS
    <2> HIDE DEF bad
    <2> QED
      BY <1>1, <1>2, <2>1, SmallestOf
  <1>4. CASE m = 0
    <2>1. PICK f : f = [x \in SUBSET (1 .. m) |-> 0]
      OBVIOUS
    <2>2. ASSUME NEW x \in SUBSET (1 .. m) PROVE x = {}
      BY <1>4
    <2>3. HighRun(f, s, m)
      BY <2>1, <2>2 DEF HighRun
    <2> QED
      BY <1>3, <2>3
  <1>5. CASE m # 0
    <2>1. m \in Nat /\ m - 1 \in 0 .. end /\ m >= 1 /\ m - 1 < m
      BY <1>3, <1>5
    <2>2. m - 1 \notin bad
      BY <1>3, <2>1
    <2>3. PICK f : HighRun(f, s, m - 1)
      BY <2>1, <2>2
    <2>4. PICK g : g = [x \in SUBSET (1 .. m) |->
                          IF m \in x THEN Larger(f[x \ {m}], s[m]) ELSE f[x]]
      OBVIOUS
    <2>5. ASSUME NEW x \in SUBSET (1 .. m), m \notin x
          PROVE  x \in SUBSET (1 .. m - 1) /\ g[x] = f[x]
      <3>1. \A y \in x : y \in 1 .. m - 1
        BY <2>1, <2>5
      <3> QED
        BY <2>4, <2>5, <3>1
    <2>6. ASSUME NEW x \in SUBSET (1 .. m)
          PROVE  g[x] = IF x = {} THEN 0 ELSE Larger(g[x \ {Max(x)}], s[Max(x)])
      <3>1. CASE m \in x
        <4>1. Max(x) = m
          BY <2>1, <3>1, LastOf
        <4>2. g[x \ {m}] = f[x \ {m}]
          BY <2>5
        <4>3. x # {}
          BY <3>1
        <4>4. g[x] = Larger(f[x \ {m}], s[m])
          BY <2>4, <3>1
        <4> QED
          BY <4>1, <4>2, <4>3, <4>4
      <3>2. CASE m \notin x
        <4>1. PICK k : k = Max(x)
          OBVIOUS
        <4>2. x \in SUBSET (1 .. m - 1) /\ g[x] = f[x]
          BY <2>5, <3>2
        <4>3. g[x \ {k}] = f[x \ {k}]
          BY <2>5, <3>2
        <4>4. f[x] = IF x = {} THEN 0 ELSE Larger(f[x \ {Max(x)}], s[Max(x)])
          BY <2>3, <4>2 DEF HighRun
        <4> QED
          BY <4>1, <4>2, <4>3, <4>4
      <3> QED
        BY <3>1, <3>2
    <2>7. g = [x \in SUBSET (1 .. m) |-> g[x]]
      BY <2>4
    <2>8. HighRun(g, s, m)
      BY <2>6, <2>7 DEF HighRun
    <2> QED
      BY <1>3, <2>8
  <1> QED
    BY <1>4, <1>5

LEMMA HighParts ==
    ASSUME NEW s \in Seq(Nat)
    PROVE  \E t : /\ t[0] = 0 /\ Highest(s) = t[Len(s)]
                  /\ \A k \in 1 .. Len(s) : t[k] = Larger(t[k - 1], s[k])
  <1>1. PICK n : n = Len(s)
    OBVIOUS
  <1>2. n \in Nat /\ DOMAIN s = 1 .. n
    BY <1>1
  <1>3. PICK f : f = CHOOSE g : HighRun(g, s, n)
    OBVIOUS
  <1>4. HighRun(f, s, n)
    BY <1>2, <1>3, HighRuns
  <1>5. Highest(s) = f[1 .. n]
    BY <1>2, <1>3 DEF Highest, FoldLeft, MapThenFoldSet, HighRun
  <1>6. PICK t : t = [k \in 0 .. n |-> f[1 .. k]]
    OBVIOUS
  <1>7. t[0] = 0
    <2>1. 0 \in 0 .. n /\ 1 .. 0 = {}
      BY <1>2
    <2>2. f[{}] = 0
      BY <1>4 DEF HighRun
    <2> QED
      BY <1>6, <2>1, <2>2
  <1>8. ASSUME NEW k \in 1 .. n
        PROVE  t[k] = Larger(t[k - 1], s[k])
    <2>1. /\ k \in 0 .. n /\ k - 1 \in 0 .. n /\ k \in Nat /\ k \in 1 .. k
          /\ 1 .. k \in SUBSET (1 .. n) /\ 1 .. k # {}
      <3>1. k \in 0 .. n /\ k - 1 \in 0 .. n /\ k \in Nat /\ k \in 1 .. k
        BY <1>2
      <3>2. \A y \in 1 .. k : y \in 1 .. n
        BY <1>2
      <3> QED
        BY <3>1, <3>2
    <2>2. (1 .. k) \ {k} = 1 .. k - 1
      BY <2>1
    <2>3. PICK x : x = 1 .. k
      OBVIOUS
    <2>4. Max(x) = k
      BY <2>1, <2>3, LastOf
    <2>5. f[x] = Larger(f[x \ {Max(x)}], s[Max(x)])
      BY <1>4, <2>1, <2>3 DEF HighRun
    <2>6. t[k] = f[x] /\ t[k - 1] = f[x \ {k}]
      BY <1>6, <2>1, <2>2, <2>3
    <2> QED
      BY <2>4, <2>5, <2>6
  <1>9. t[n] = f[1 .. n]
    BY <1>2, <1>6
  <1> QED
    BY <1>1, <1>5, <1>7, <1>8, <1>9

LEMMA SumAtLeast ==
    ASSUME NEW s \in Seq(Nat)
    PROVE  /\ SumOf(s) \in Nat
           /\ \A a, b, c \in 1 .. Len(s) :
                 a < b /\ b < c => SumOf(s) >= s[a] + s[b] + s[c]
  <1>1. PICK n : n = Len(s)
    OBVIOUS
  <1>2. n \in Nat /\ \A k \in 1 .. n : s[k] \in Nat
    BY <1>1
  <1>3. PICK t : /\ t[0] = 0 /\ SumOf(s) = t[n]
                 /\ \A k \in 1 .. n : t[k] = t[k - 1] + s[k]
    BY <1>1, SumParts
  <1> DEFINE Covers(k) ==
          /\ t[k] \in Nat
          /\ \A a \in 1 .. k : t[k] >= s[a]
          /\ \A a, b \in 1 .. k : a < b => t[k] >= s[a] + s[b]
          /\ \A a, b, c \in 1 .. k : a < b /\ b < c => t[k] >= s[a] + s[b] + s[c]
  <1> DEFINE bad == {k \in 0 .. n : ~ Covers(k)}
  <1>4. ASSUME bad # {} PROVE FALSE
    <2>1. PICK m : m = Min(bad)
      OBVIOUS
    <2>2. bad \in SUBSET Nat
      BY <1>2
    <2>3. m \in bad /\ \A y \in bad : m <= y
      <3> HIDE DEF bad
      <3> QED
        BY <1>4, <2>1, <2>2, SmallestOf
    <2>4. m \in 0 .. n /\ m \in Nat /\ ~ Covers(m)
      BY <1>2, <2>3
    <2>5. CASE m = 0
      <3>1. Covers(0)
        BY <1>3
      <3> QED
        BY <2>4, <2>5, <3>1
    <2>6. CASE m # 0
      <3>1. m - 1 \in 0 .. n /\ m - 1 < m /\ m \in 1 .. n
        BY <1>2, <2>4, <2>6
      <3>2. Covers(m - 1)
        <4>1. m - 1 \notin bad
          BY <2>3, <2>4, <3>1
        <4> QED
          BY <3>1, <4>1
      <3>3. PICK u : u = t[m - 1]
        OBVIOUS
      <3>4. t[m] = u + s[m] /\ u \in Nat /\ s[m] \in Nat
        BY <1>2, <1>3, <3>1, <3>2, <3>3
      <3>5. \A a \in 1 .. m : s[a] \in Nat /\ a \in Nat /\ (a = m \/ a \in 1 .. m - 1)
        BY <1>2, <2>4
      <3>6. /\ \A a \in 1 .. m - 1 : u >= s[a]
            /\ \A a, b \in 1 .. m - 1 : a < b => u >= s[a] + s[b]
            /\ \A a, b, c \in 1 .. m - 1 : a < b /\ b < c => u >= s[a] + s[b] + s[c]
        BY <3>2, <3>3
      <3>7. ASSUME NEW a \in 1 .. m PROVE t[m] >= s[a]
        BY <3>4, <3>5, <3>6
      <3>8. ASSUME NEW a \in 1 .. m, NEW b \in 1 .. m, a < b
            PROVE  t[m] >= s[a] + s[b]
        <4>1. a \in 1 .. m - 1
          BY <2>4, <3>8
        <4>2. s[a] \in Nat /\ s[b] \in Nat /\ u >= s[a]
          BY <3>5, <3>6, <4>1
        <4>3. CASE b = m
          BY <3>4, <4>2, <4>3
        <4>4. CASE b \in 1 .. m - 1
          <5>1. u >= s[a] + s[b]
            BY <3>6, <3>8, <4>1, <4>4
          <5> QED
            BY <3>4, <4>2, <5>1
        <4> QED
          BY <3>5, <4>3, <4>4
      <3>9. ASSUME NEW a \in 1 .. m, NEW b \in 1 .. m, NEW c \in 1 .. m,
                   a < b, b < c
            PROVE  t[m] >= s[a] + s[b] + s[c]
        <4>1. a \in 1 .. m - 1 /\ b \in 1 .. m - 1
          BY <2>4, <3>9
        <4>2. s[a] \in Nat /\ s[b] \in Nat /\ s[c] \in Nat
          BY <3>5
        <4>3. u >= s[a] + s[b]
          BY <3>6, <3>9, <4>1
        <4>4. CASE c = m
          BY <3>4, <4>2, <4>3, <4>4
        <4>5. CASE c \in 1 .. m - 1
          <5>1. u >= s[a] + s[b] + s[c]
            BY <3>6, <3>9, <4>1, <4>5
          <5> QED
            BY <3>4, <4>2, <5>1
        <4> QED
          BY <3>5, <4>4, <4>5
      <3>10. t[m] \in Nat
        BY <3>4
      <3>11. Covers(m)
        BY <3>7, <3>8, <3>9, <3>10
      <3> QED
        BY <2>4, <3>11
    <2> QED
      BY <2>5, <2>6
  <1>5. n \notin bad /\ n \in 0 .. n
    <2> HIDE DEF bad
    <2> QED
      BY <1>2, <1>4
  <1>6. Covers(n)
    BY <1>5
  <1> QED
    BY <1>1, <1>3, <1>6

LEMMA HighestIsOne ==
    ASSUME NEW s \in Seq(Nat)
    PROVE  /\ Highest(s) \in Nat
           /\ Highest(s) = 0 \/ \E a \in 1 .. Len(s) : Highest(s) = s[a]
  <1>1. PICK n : n = Len(s)
    OBVIOUS
  <1>2. n \in Nat /\ \A k \in 1 .. n : s[k] \in Nat
    BY <1>1
  <1>3. PICK t : /\ t[0] = 0 /\ Highest(s) = t[n]
                 /\ \A k \in 1 .. n : t[k] = Larger(t[k - 1], s[k])
    BY <1>1, HighParts
  <1> DEFINE Among(k) ==
          t[k] \in Nat /\ (t[k] = 0 \/ \E a \in 1 .. k : t[k] = s[a])
  <1> DEFINE bad == {k \in 0 .. n : ~ Among(k)}
  <1>4. ASSUME bad # {} PROVE FALSE
    <2>1. PICK m : m = Min(bad)
      OBVIOUS
    <2>2. bad \in SUBSET Nat
      BY <1>2
    <2>3. m \in bad /\ \A y \in bad : m <= y
      <3> HIDE DEF bad
      <3> QED
        BY <1>4, <2>1, <2>2, SmallestOf
    <2>4. m \in 0 .. n /\ m \in Nat /\ ~ Among(m)
      BY <1>2, <2>3
    <2>5. CASE m = 0
      <3>1. Among(0)
        BY <1>3
      <3> QED
        BY <2>4, <2>5, <3>1
    <2>6. CASE m # 0
      <3>1. m - 1 \in 0 .. n /\ m - 1 < m /\ m \in 1 .. n
        BY <1>2, <2>4, <2>6
      <3>2. Among(m - 1)
        <4>1. m - 1 \notin bad
          BY <2>3, <2>4, <3>1
        <4> QED
          BY <3>1, <4>1
      <3>3. PICK u : u = t[m - 1]
        OBVIOUS
      <3>4. t[m] = Larger(u, s[m])
        BY <1>3, <3>1, <3>3
      <3>5. t[m] \in {u, s[m]}
        BY <3>4 DEF Larger
      <3>6. m \in 1 .. m /\ \A a \in 1 .. m - 1 : a \in 1 .. m
        BY <2>4, <3>1
      <3>7. CASE t[m] = s[m]
        <4>1. Among(m)
          BY <1>2, <3>1, <3>6, <3>7
        <4> QED
          BY <2>4, <4>1
      <3>8. CASE t[m] = u
        <4>1. Among(m)
          BY <3>2, <3>3, <3>6, <3>8
        <4> QED
          BY <2>4, <4>1
      <3> QED
        BY <3>5, <3>7, <3>8
    <2> QED
      BY <2>5, <2>6
  <1>5. n \notin bad /\ n \in 0 .. n
    <2> HIDE DEF bad
    <2> QED
      BY <1>2, <1>4
  <1>6. Among(n)
    BY <1>5
  <1> QED
    BY <1>1, <1>3, <1>6

-----------------------------------------------------------------------------
(* Powers of two, as the sizes of power sets: the subsets of 1 .. n + 1    *)
(* are those of 1 .. n, once without and once with n + 1.                  *)

LEMMA Doubles ==
    ASSUME NEW n \in Nat
    PROVE  2 ^ n \in Nat /\ 2 ^ (n + 1) = 2 ^ n + 2 ^ n
  <1>1. PICK A : A = SUBSET (1 .. n)
    OBVIOUS
  <1>2. PICK B : B = {x \in SUBSET (1 .. n + 1) : n + 1 \in x}
    OBVIOUS
  <1>3. IsFiniteSet(A) /\ Cardinality(A) = 2 ^ n
    <2>1. IsFiniteSet(1 .. n) /\ Cardinality(1 .. n) = n
      BY FS_Interval
    <2> QED
      BY <1>1, <2>1, FS_SUBSET
  <1>4. Cardinality(A) \in Nat
    BY <1>3, FS_CardinalityType
  <1>5. IsFiniteSet(B) /\ Cardinality(B) = Cardinality(A)
    <2>1. PICK f : f = [x \in A |-> x \union {n + 1}]
      OBVIOUS
    <2>2. ~ (n + 1 \in 1 .. n)
      OBVIOUS
    <2>3. ASSUME NEW x \in A PROVE n + 1 \notin x /\ f[x] \in B
      <3>1. x \subseteq 1 .. n
        BY <1>1
      <3>2. n + 1 \in 1 .. n + 1 /\ 1 .. n \subseteq 1 .. n + 1
        OBVIOUS
      <3> QED
        BY <1>2, <2>1, <2>2, <3>1, <3>2
    <2>4. f \in Injection(A, B)
      <3>1. f \in [A -> B]
        BY <2>1, <2>3
      <3>2. ASSUME NEW x \in A, NEW y \in A, f[x] = f[y] PROVE x = y
        <4>1. x = f[x] \ {n + 1} /\ y = f[y] \ {n + 1}
          BY <2>1, <2>3
        <4> QED
          BY <3>2, <4>1
      <3> QED
        BY <3>1, <3>2 DEF Injection, IsInjective
    <2>5. f \in Surjection(A, B)
      <3>1. ASSUME NEW y \in B PROVE \E x \in A : f[x] = y
        <4>1. y \subseteq 1 .. n + 1 /\ n + 1 \in y
          BY <1>2
        <4>2. \A z \in 1 .. n + 1 : z = n + 1 \/ z \in 1 .. n
          OBVIOUS
        <4>3. y \ {n + 1} \in A
          BY <1>1, <4>1, <4>2
        <4>4. f[y \ {n + 1}] = y
          BY <2>1, <4>1, <4>3
        <4> QED
          BY <4>3, <4>4
      <3>2. f \in [A -> B]
        BY <2>1, <2>3
      <3> QED
        BY <3>1, <3>2 DEF Surjection
    <2>6. ExistsBijection(A, B)
      BY <2>4, <2>5 DEF ExistsBijection, Bijection
    <2> QED
      BY <1>3, <2>6, FS_Bijection
  <1>6. A \union B = SUBSET (1 .. n + 1) /\ A \intersect B = {}
    <2>1. \A z \in 1 .. n + 1 : z = n + 1 \/ z \in 1 .. n
      OBVIOUS
    <2>2. 1 .. n \subseteq 1 .. n + 1 /\ n + 1 \notin 1 .. n
      OBVIOUS
    <2> QED
      BY <1>1, <1>2, <2>1, <2>2
  <1>7. Cardinality(A \union B) = 2 ^ (n + 1)
    <2>1. n + 1 \in Nat /\ IsFiniteSet(1 .. n + 1) /\ Cardinality(1 .. n + 1) = n + 1
      BY FS_Interval
    <2> QED
      BY <1>6, <2>1, FS_SUBSET
  <1>8. Cardinality(A \union B) = Cardinality(A) + Cardinality(B) - 0
    BY <1>3, <1>5, <1>6, FS_Union, FS_EmptySet
  <1> QED
    BY <1>3, <1>4, <1>5, <1>7, <1>8

LEMMA AtLeastOneOfTwo ==
    ASSUME NEW n \in Nat
    PROVE  2 ^ n >= 1
  <1>1. PICK A : A = SUBSET (1 .. n)
    OBVIOUS
  <1>2. IsFiniteSet(A) /\ Cardinality(A) = 2 ^ n
    <2>1. IsFiniteSet(1 .. n) /\ Cardinality(1 .. n) = n
      BY FS_Interval
    <2> QED
      BY <1>1, <2>1, FS_SUBSET
  <1>3. Cardinality(A) \in Nat /\ Cardinality(A) # 0
    <2>1. {} \in A
      BY <1>1
    <2> QED
      BY <1>2, <2>1, FS_CardinalityType, FS_EmptySet
  <1> QED
    BY <1>2, <1>3

-----------------------------------------------------------------------------
LEMMA Parted ==
    ASSUME NEW T, NEW s \in Seq(T), NEW a \in 1 .. Len(s) + 1,
           NEW b \in a - 1 .. Len(s)
    PROVE  /\ SubSeq(s, a, b) \in Seq(T) /\ Len(SubSeq(s, a, b)) = b - a + 1
           /\ \A i \in 1 .. b - a + 1 : SubSeq(s, a, b)[i] = s[a + i - 1]
  <1>1. PICK n : n = Len(s)
    OBVIOUS
  <1>2. n \in Nat /\ a \in Nat /\ b \in Nat /\ b - a + 1 \in Nat
    BY <1>1
  <1>3. ASSUME NEW i \in 1 .. b - a + 1
        PROVE  a + i - 1 \in 1 .. n
    BY <1>1, <1>2
  <1>4. SubSeq(s, a, b) = [i \in 1 .. b - a + 1 |-> s[a + i - 1]]
    <2>1. SubSeq(s, a, b) = [i \in 1 .. 1 + b - a |-> s[i + a - 1]]
      BY <1>2
    <2>2. 1 + b - a = b - a + 1
      BY <1>2
    <2>3. \A i \in 1 .. b - a + 1 : i + a - 1 = a + i - 1
      BY <1>2
    <2> QED
      BY <2>1, <2>2, <2>3
  <1>5. SubSeq(s, a, b) \in [1 .. b - a + 1 -> T]
    BY <1>1, <1>3, <1>4
  <1>6. PICK k : k = b - a + 1
    OBVIOUS
  <1>7. PICK r : r = SubSeq(s, a, b)
    OBVIOUS
  <1>8. r \in [1 .. k -> T] /\ k \in Nat
    BY <1>2, <1>5, <1>6, <1>7
  <1>9. r \in Seq(T) /\ Len(r) = k
    BY ONLY <1>8
  <1>10. \A i \in 1 .. k : r[i] = s[a + i - 1]
    BY <1>4, <1>6, <1>7
  <1> QED
    BY <1>6, <1>7, <1>9, <1>10

LEMMA Joined ==
    ASSUME NEW T, NEW s \in Seq(T), NEW t \in Seq(T)
    PROVE  /\ s \o t \in Seq(T) /\ Len(s \o t) = Len(s) + Len(t)
           /\ \A i \in 1 .. Len(s) : (s \o t)[i] = s[i]
           /\ \A i \in 1 .. Len(t) : (s \o t)[Len(s) + i] = t[i]
  <1>1. s \o t \in Seq(T) /\ Len(s \o t) = Len(s) + Len(t)
    OBVIOUS
  <1>2. ASSUME NEW i \in 1 .. Len(s) PROVE (s \o t)[i] = s[i]
    OBVIOUS
  <1>3. ASSUME NEW i \in 1 .. Len(t) PROVE (s \o t)[Len(s) + i] = t[i]
    OBVIOUS
  <1> QED
    BY <1>1, <1>2, <1>3

-----------------------------------------------------------------------------
(* The list.                                                               *)

ListType ==
    /\ overwrites \in BOOLEAN /\ notified \in BOOLEAN
    /\ flushed \in Nat /\ files \in Seq(File)

\* Runs have at least merge_min files, and with three of a tier the merged file
\* has twice the records of any of them.
GrowthInv == MergeMin >= 3 => LogAmplification

ListInv == ListType /\ GrowthInv

LEMMA SizesType ==
    ASSUME files \in Seq(File)
    PROVE  /\ Sizes \in Seq(Nat) /\ Len(Sizes) = Len(files)
           /\ \A i \in 1 .. Len(files) : Sizes[i] = files[i].size
  <1>1. PICK n : n = Len(files)
    OBVIOUS
  <1>2. n \in Nat /\ DOMAIN files = 1 .. n
    BY <1>1
  <1>3. ASSUME NEW i \in 1 .. n PROVE files[i].size \in Nat
    <2>1. files[i] \in File
      BY <1>1
    <2> QED
      BY <2>1 DEF File
  <1>4. Sizes = [i \in 1 .. n |-> files[i].size]
    BY <1>2 DEF Sizes
  <1>5. Sizes \in [1 .. n -> Nat]
    BY <1>3, <1>4
  <1>6. Sizes \in Seq(Nat) /\ Len(Sizes) = n
    BY <1>2, <1>5
  <1> QED
    BY <1>1, <1>4, <1>6

Splice(fs, a, b, out) ==
    SubSeq(fs, 1, a - 1) \o <<out>> \o SubSeq(fs, b + 1, Len(fs))

Spliced(gs, fs, out) ==
    /\ gs \in Seq(File)
    /\ \A i \in 1 .. Len(gs) : gs[i] = out \/ \E j \in 1 .. Len(fs) : gs[i] = fs[j]

\* A file of the merged list is one of the old ones or the merge's output.
LEMMA SpliceOf ==
    ASSUME NEW fs \in Seq(File), NEW a \in 1 .. Len(fs), NEW b \in a .. Len(fs),
           NEW out \in File
    PROVE  Spliced(Splice(fs, a, b, out), fs, out)
  <1>13. PICK gs : gs = Splice(fs, a, b, out)
    OBVIOUS
  <1>1. PICK n : n = Len(fs)
    OBVIOUS
  <1>2. /\ n \in Nat /\ a \in Nat /\ b \in Nat /\ a >= 1 /\ a <= b /\ b <= n
    BY <1>1
  <1>3. PICK l : l = SubSeq(fs, 1, a - 1)
    OBVIOUS
  <1>4. PICK r : r = SubSeq(fs, b + 1, n)
    OBVIOUS
  <1>5. /\ l \in Seq(File) /\ Len(l) = a - 1
        /\ \A i \in 1 .. a - 1 : l[i] = fs[i]
    <2>1. /\ 1 \in 1 .. n + 1 /\ a - 1 \in 1 - 1 .. n
      BY <1>2
    <2> QED
      BY <1>1, <1>2, <1>3, <2>1, Parted
  <1>6. /\ r \in Seq(File) /\ Len(r) = n - b
        /\ \A i \in 1 .. n - b : r[i] = fs[b + i]
    <2>1. b + 1 \in 1 .. n + 1 /\ n \in (b + 1) - 1 .. n
      BY <1>2
    <2>2. PICK c : c = b + 1
      OBVIOUS
    <2>3. /\ r \in Seq(File) /\ Len(r) = n - c + 1
          /\ \A i \in 1 .. n - c + 1 : r[i] = fs[c + i - 1]
      BY <1>1, <1>2, <1>4, <2>1, <2>2, Parted
    <2>4. n - c + 1 = n - b /\ \A i \in 1 .. n - b : c + i - 1 = b + i
      BY <1>2, <2>2
    <2> QED
      BY <2>3, <2>4
  <1>10. PICK h : h = l \o <<out>>
    OBVIOUS
  <1>7. gs = h \o r
    BY <1>1, <1>3, <1>4, <1>10, <1>13 DEF Splice
  <1>11. <<out>> \in Seq(File) /\ Len(<<out>>) = 1 /\ <<out>>[1] = out
    OBVIOUS
  <1>12. /\ h \in Seq(File) /\ Len(h) = a /\ h[a] = out
         /\ \A i \in 1 .. a - 1 : h[i] = l[i]
    <2>1. PICK o : o = <<out>>
      OBVIOUS
    <2>2. /\ h \in Seq(File) /\ Len(h) = Len(l) + Len(o)
          /\ \A i \in 1 .. Len(l) : h[i] = l[i]
          /\ \A i \in 1 .. Len(o) : h[Len(l) + i] = o[i]
      BY <1>5, <1>10, <1>11, <2>1, Joined
    <2>3. a - 1 + 1 = a /\ 1 \in 1 .. 1
      BY <1>2
    <2>4. Len(l) = a - 1 /\ Len(o) = 1 /\ o[1] = out
      BY <1>5, <1>11, <2>1
    <2> QED
      BY <2>2, <2>3, <2>4
  <1>8. /\ gs \in Seq(File) /\ Len(gs) = a + (n - b)
        /\ \A i \in 1 .. a : gs[i] = h[i]
        /\ \A i \in 1 .. n - b : gs[a + i] = r[i]
    <2>3. h \in Seq(File) /\ r \in Seq(File)
      BY <1>6, <1>12
    <2>4. /\ h \o r \in Seq(File) /\ Len(h \o r) = Len(h) + Len(r)
          /\ \A i \in 1 .. Len(h) : (h \o r)[i] = h[i]
          /\ \A i \in 1 .. Len(r) : (h \o r)[Len(h) + i] = r[i]
      BY ONLY <2>3, Joined
    <2>1. /\ gs \in Seq(File) /\ Len(gs) = Len(h) + Len(r)
          /\ \A i \in 1 .. Len(h) : gs[i] = h[i]
          /\ \A i \in 1 .. Len(r) : gs[Len(h) + i] = r[i]
      BY ONLY <1>7, <2>4
    <2>2. Len(h) = a /\ Len(r) = n - b
      BY <1>6, <1>12
    <2> QED
      BY <2>1, <2>2
  <1>9. ASSUME NEW i \in 1 .. Len(gs)
        PROVE  gs[i] = out \/ \E j \in 1 .. n : gs[i] = fs[j]
    <2>3. CASE i <= a - 1
      <3>1. i \in 1 .. a - 1 /\ i \in 1 .. n /\ i \in 1 .. a
        BY <1>2, <2>3
      <3> QED
        BY <1>5, <1>8, <1>12, <3>1
    <2>4. CASE i = a
      <3>1. i \in 1 .. a
        BY <1>2, <2>4
      <3> QED
        BY <1>8, <1>12, <2>4, <3>1
    <2>5. CASE i > a
      <3>1. PICK k : k = i - a
        OBVIOUS
      <3>4. i \in 1 .. a + (n - b)
        BY <1>8
      <3>2. k \in 1 .. n - b /\ i = a + k /\ b + k \in 1 .. n
        BY <1>2, <2>5, <3>1, <3>4
      <3>3. gs[i] = r[k]
        BY <1>8, <3>2
      <3> QED
        BY <1>6, <3>2, <3>3
    <2>6. i \in Nat
      OBVIOUS
    <2>7. i <= a - 1 \/ i = a \/ i > a
      BY <1>2, <2>6
    <2> QED
      BY <2>3, <2>4, <2>5, <2>7
  <1> QED
    BY <1>1, <1>8, <1>9, <1>13 DEF Spliced

LEMMA InitHolds == ListInit => ListInv
  <1>1. <<>> \in Seq(File) /\ DOMAIN <<>> = {}
    OBVIOUS
  <1>2. ASSUME ListInit PROVE ListType
    BY <1>1, <1>2 DEF ListInit, ListType
  <1>3. ASSUME ListInit PROVE LogAmplification
    <2>1. DOMAIN files = {}
      BY <1>1, <1>3 DEF ListInit
    <2> QED
      BY <2>1 DEF LogAmplification
  <1> QED
    BY <1>2, <1>3 DEF ListInv, GrowthInv

\* What LogAmplification says of one file.
Grown(f) == 2 ^ f.level <= f.size

LEMMA Amplified ==
    ASSUME NEW fs \in Seq(File)
    PROVE  (\A i \in DOMAIN fs : 2 ^ fs[i].level <= fs[i].size)
               <=> \A i \in 1 .. Len(fs) : Grown(fs[i])
  BY DEF Grown

LEMMA PrependHolds ==
    ASSUME ListInv, NEW n \in FlushSizes, Prepend(n), notified' \in BOOLEAN
    PROVE  ListInv'
  <1> USE DEF ListInv
  <1>1. n \in Nat /\ n >= 1
    BY TierAssumption
  <1>2. PICK new : new = [size |-> n, level |-> 0]
    OBVIOUS
  <1>3. new \in File /\ Grown(new)
    <2>1. new \in File /\ new.level = 0 /\ new.size = n
      BY <1>1, <1>2 DEF File
    <2>2. 2 ^ 0 = 1
      OBVIOUS
    <2> QED
      BY <1>1, <2>1, <2>2 DEF Grown
  <1>4. PICK one : one = <<new>>
    OBVIOUS
  <1>5. one \in Seq(File) /\ Len(one) = 1 /\ one[1] = new
    BY <1>3, <1>4
  <1>6. files' = one \o files /\ files \in Seq(File)
    BY <1>2, <1>4 DEF Prepend, ListType
  <1>7. /\ files' \in Seq(File) /\ Len(files') = 1 + Len(files)
        /\ files'[1] = new
        /\ \A i \in 1 .. Len(files) : files'[1 + i] = files[i]
    <2>1. PICK fs : fs = files
      OBVIOUS
    <2>2. PICK gs : gs = one \o fs
      OBVIOUS
    <2>3. /\ gs \in Seq(File) /\ Len(gs) = Len(one) + Len(fs)
          /\ \A i \in 1 .. Len(one) : gs[i] = one[i]
          /\ \A i \in 1 .. Len(fs) : gs[Len(one) + i] = fs[i]
      <3>1. one \in Seq(File) /\ fs \in Seq(File)
        BY <1>5, <1>6, <2>1
      <3>2. /\ one \o fs \in Seq(File) /\ Len(one \o fs) = Len(one) + Len(fs)
            /\ \A i \in 1 .. Len(one) : (one \o fs)[i] = one[i]
            /\ \A i \in 1 .. Len(fs) : (one \o fs)[Len(one) + i] = fs[i]
        BY ONLY <3>1, Joined
      <3> QED
        BY ONLY <2>2, <3>2
    <2>4. 1 \in 1 .. 1
      OBVIOUS
    <2> QED
      BY <1>5, <1>6, <2>1, <2>2, <2>3, <2>4
  <1>8. ListType'
    BY <1>1, <1>7 DEF ListType, Prepend
  <1>9. GrowthInv'
    <2>1. SUFFICES ASSUME MergeMin >= 3, ~ overwrites'
                   PROVE  \A i \in 1 .. Len(files') : Grown(files'[i])
      BY <1>7, Amplified DEF GrowthInv, LogAmplification, Grown
    <2>2. \A i \in 1 .. Len(files) : Grown(files[i])
      BY <1>6, <2>1, Amplified DEF GrowthInv, LogAmplification, Grown, Prepend
    <2>3. SUFFICES ASSUME NEW i \in 1 .. Len(files') PROVE Grown(files'[i])
      OBVIOUS
    <2>4. CASE i = 1
      BY <1>3, <1>7, <2>4
    <2>5. CASE i # 1
      <3>1. PICK k : k = i - 1
        OBVIOUS
      <3>2. PICK l : l = Len(files)
        OBVIOUS
      <3>3. l \in Nat /\ i \in 1 .. 1 + l
        BY <1>6, <1>7, <3>2
      <3>4. k \in 1 .. l /\ i = 1 + k
        BY <2>5, <3>1, <3>3
      <3> QED
        BY <1>7, <2>2, <3>2, <3>4
    <2> QED
      BY <2>4, <2>5
  <1> QED
    BY <1>8, <1>9

\* Three files of one tier hold twice the records of any of them.
LEMMA TierDoubles ==
    ASSUME NEW s \in Seq(Nat), Len(s) >= 3, NEW c \in 1 .. Len(s),
           \A a, b \in 1 .. Len(s) : s[a] <= 2 * s[b]
    PROVE  SumOf(s) >= s[c] + s[c]
  <1>1. PICK n : n = Len(s)
    OBVIOUS
  <1>2. n \in Nat /\ n >= 3 /\ c \in 1 .. n /\ c \in Nat
    BY <1>1
  <1>3. \A a \in 1 .. n : s[a] \in Nat /\ s[c] <= 2 * s[a]
    BY <1>1
  <1>4. PICK S : S = SumOf(s)
    OBVIOUS
  <1>5. /\ S \in Nat
        /\ \A x, y, z \in 1 .. n : x < y /\ y < z => S >= s[x] + s[y] + s[z]
    BY <1>1, <1>4, SumAtLeast
  <1>6. \E x, y, z \in 1 .. n : x < y /\ y < z /\ c \in {x, y, z}
    <2>1. CASE c = 1
      <3>1. 1 \in 1 .. n /\ 2 \in 1 .. n /\ 3 \in 1 .. n /\ 1 < 2 /\ 2 < 3
        BY <1>2
      <3> QED
        BY <2>1, <3>1
    <2>2. CASE c = n
      <3>1. 1 \in 1 .. n /\ 2 \in 1 .. n /\ 1 < 2 /\ 2 < n
        BY <1>2
      <3> QED
        BY <1>2, <2>2, <3>1
    <2>3. CASE c # 1 /\ c # n
      <3>1. 1 \in 1 .. n /\ n \in 1 .. n /\ 1 < c /\ c < n
        BY <1>2, <2>3
      <3> QED
        BY <1>2, <3>1
    <2> QED
      BY <2>1, <2>2, <2>3
  <1>7. PICK x \in 1 .. n, y \in 1 .. n, z \in 1 .. n :
            x < y /\ y < z /\ c \in {x, y, z}
    BY <1>6
  <1>8. S >= s[x] + s[y] + s[z]
    BY <1>5, <1>7
  <1>9. /\ s[x] \in Nat /\ s[y] \in Nat /\ s[z] \in Nat /\ s[c] \in Nat
        /\ s[c] <= 2 * s[x] /\ s[c] <= 2 * s[y] /\ s[c] <= 2 * s[z]
    BY <1>2, <1>3
  <1>10. PICK u : u = s[x]
    OBVIOUS
  <1>11. PICK v : v = s[y]
    OBVIOUS
  <1>12. PICK w : w = s[z]
    OBVIOUS
  <1>13. PICK t : t = s[c]
    OBVIOUS
  <1>14. /\ u \in Nat /\ v \in Nat /\ w \in Nat /\ t \in Nat
         /\ t <= 2 * u /\ t <= 2 * v /\ t <= 2 * w /\ S >= u + v + w
         /\ t \in {u, v, w}
    BY <1>7, <1>8, <1>9, <1>10, <1>11, <1>12, <1>13
  <1>15. S >= t + t
    BY ONLY <1>5, <1>14
  <1> QED
    BY <1>4, <1>13, <1>15

\* What the merge of the run a .. b writes.
LEMMA OutputHolds ==
    ASSUME ListInv, NEW a \in 1 .. Len(files), NEW b \in a .. Len(files),
           b - a + 1 >= Larger(MergeMin, 2), IsTier(Sizes, a, b),
           NEW n \in OutputSizes(<<a, b>>), NEW levels,
           levels = [i \in 1 .. b - a + 1 |-> files[a + i - 1].level]
    PROVE  /\ [size |-> n, level |-> Highest(levels) + 1] \in File
           /\ MergeMin >= 3 /\ ~ overwrites
                 => Grown([size |-> n, level |-> Highest(levels) + 1])
  <1> USE DEF ListInv
  <1>1. PICK fs : fs = files
    OBVIOUS
  <1>2. PICK t : t = Sizes
    OBVIOUS
  <1>3. PICK k : k = b - a + 1
    OBVIOUS
  <1>4. /\ fs \in Seq(File) /\ t \in Seq(Nat) /\ Len(t) = Len(fs)
        /\ \A i \in 1 .. Len(fs) : t[i] = fs[i].size
    BY <1>1, <1>2, SizesType DEF ListType
  <1>5. /\ Len(fs) \in Nat /\ a \in Nat /\ b \in Nat /\ k \in Nat
        /\ a >= 1 /\ a <= b /\ b <= Len(fs) /\ k >= 1
    BY <1>1, <1>3, <1>4
  <1>6. \A i \in 1 .. k : a + i - 1 \in 1 .. Len(fs) /\ a + i - 1 \in a .. b
    BY <1>3, <1>5
  <1>7. PICK s : s = SubSeq(t, a, b)
    OBVIOUS
  <1>8. s \in Seq(Nat) /\ Len(s) = k /\ \A i \in 1 .. k : s[i] = t[a + i - 1]
    <2>1. a \in 1 .. Len(t) + 1 /\ b \in a - 1 .. Len(t)
      BY <1>4, <1>5
    <2> QED
      BY ONLY <1>3, <1>4, <1>7, <2>1, Parted
  <1>9. \A i \in 1 .. k : fs[a + i - 1] \in File
    BY <1>4, <1>6
  <1>10. levels \in Seq(Nat) /\ Len(levels) = k
         /\ \A i \in 1 .. k : levels[i] = fs[a + i - 1].level
    <2>1. \A i \in 1 .. k : fs[a + i - 1].level \in Nat
      BY <1>9 DEF File
    <2>2. levels = [i \in 1 .. k |-> fs[a + i - 1].level]
      BY <1>1, <1>3
    <2>3. levels \in [1 .. k -> Nat]
      BY ONLY <2>1, <2>2
    <2>4. levels \in Seq(Nat) /\ Len(levels) = k
      <3>1. DOMAIN levels = 1 .. k
        BY ONLY <2>3
      <3>2. levels \in Seq(Nat)
        BY ONLY <1>5, <2>3
      <3> QED
        BY ONLY <1>5, <3>1, <3>2
    <2>5. \A i \in 1 .. k : levels[i] = fs[a + i - 1].level
      BY ONLY <2>2
    <2> QED
      BY <2>4, <2>5
  <1>11. PICK h : h = Highest(levels)
    OBVIOUS
  <1>12. h \in Nat /\ (h = 0 \/ \E c \in 1 .. k : h = levels[c])
    BY ONLY <1>10, <1>11, HighestIsOne
  <1>13. SumOf(s) \in Nat
    BY <1>8, SumAtLeast
  <1>14. n \in Nat /\ (~ overwrites => n = SumOf(s))
    <2>1. Highest(s) \in Nat
      BY <1>8, HighestIsOne
    <2>2. PICK run : run = <<a, b>>
      OBVIOUS
    <2>3. run[1] = a /\ run[2] = b
      BY <2>2
    <2>4. n \in IF ~ overwrites THEN {SumOf(s)}
                ELSE IF b = Len(files) THEN 0 .. SumOf(s)
                ELSE Highest(s) .. SumOf(s)
      BY <1>2, <1>7, <2>2, <2>3 DEF OutputSizes
    <2>5. CASE overwrites
      BY <1>13, <2>1, <2>4, <2>5
    <2>6. CASE ~ overwrites
      BY <1>13, <2>4, <2>6
    <2> QED
      BY <2>5, <2>6
  <1>15. PICK out : out = [size |-> n, level |-> h + 1]
    OBVIOUS
  <1>16. out \in File /\ out.size = n /\ out.level = h + 1
    BY <1>12, <1>14, <1>15 DEF File
  <1>17. ASSUME MergeMin >= 3, ~ overwrites PROVE Grown(out)
    <2>1. ASSUME NEW i \in 1 .. k
          PROVE  /\ s[i] \in Nat /\ s[i] >= 1
                 /\ 2 ^ levels[i] <= s[i] /\ AtLeastOne(s[i]) = s[i]
      <3>1. a + i - 1 \in 1 .. Len(fs)
        BY <1>6
      <3>2. PICK f : f = fs[a + i - 1]
        OBVIOUS
      <3>3. f \in File /\ s[i] = f.size /\ levels[i] = f.level
        BY <1>4, <1>8, <1>9, <1>10, <3>1, <3>2
      <3>4. \A j \in DOMAIN fs : 2 ^ fs[j].level <= fs[j].size
        BY <1>1, <1>17 DEF GrowthInv, LogAmplification
      <3>5. 2 ^ f.level <= f.size
        BY <1>4, <3>1, <3>2, <3>4
      <3>6. f.level \in Nat /\ f.size \in Nat
        BY <3>3 DEF File
      <3>7. PICK l : l = f.level
        OBVIOUS
      <3>8. 2 ^ l \in Nat /\ 2 ^ l >= 1
        BY ONLY <3>6, <3>7, Doubles, AtLeastOneOfTwo
      <3>9. PICK p : p = 2 ^ l
        OBVIOUS
      <3>10. PICK z : z = f.size
        OBVIOUS
      <3>11. z \in Nat /\ p \in Nat /\ p >= 1 /\ p <= z
        BY ONLY <3>5, <3>6, <3>7, <3>8, <3>9, <3>10
      <3>12. z >= 1 /\ AtLeastOne(z) = z
        BY ONLY <3>11 DEF AtLeastOne
      <3> QED
        BY ONLY <3>3, <3>5, <3>10, <3>11, <3>12
    <2>2. \A x, y \in 1 .. Len(s) : s[x] <= 2 * s[y]
      <3>1. SUFFICES ASSUME NEW x \in 1 .. k, NEW y \in 1 .. k
                     PROVE  s[x] <= 2 * s[y]
        BY <1>8
      <3>2. AtLeastOne(t[a + x - 1]) <= 2 * AtLeastOne(t[a + y - 1])
        BY <1>2, <1>6 DEF IsTier
      <3> QED
        BY <1>8, <2>1, <3>2
    <2>3. k >= 3
      <3>1. Larger(MergeMin, 2) >= 3
        BY <1>17, EnoughFiles
      <3> QED
        BY <1>3, <1>5, <3>1, EnoughFiles
    <2>4. PICK c \in 1 .. k : 2 ^ h <= s[c]
      <3>1. CASE h = 0
        <4>1. 2 ^ 0 = 1
          OBVIOUS
        <4>2. 1 \in 1 .. k
          BY <1>5
        <4>3. 2 ^ h <= s[1]
          BY <2>1, <3>1, <4>1, <4>2
        <4> QED
          BY <4>2, <4>3
      <3>2. CASE \E c \in 1 .. k : h = levels[c]
        BY <2>1, <3>2
      <3> QED
        BY <1>12, <3>1, <3>2
    <2>5. SumOf(s) >= s[c] + s[c]
      <3>1. Len(s) >= 3 /\ c \in 1 .. Len(s)
        BY <1>8, <2>3
      <3> QED
        BY ONLY <1>8, <2>2, <3>1, TierDoubles
    <2>6. 2 ^ h \in Nat /\ 2 ^ (h + 1) = 2 ^ h + 2 ^ h
      BY <1>12, Doubles
    <2>7. PICK p : p = 2 ^ h
      OBVIOUS
    <2>8. PICK z : z = s[c]
      OBVIOUS
    <2>9. z \in Nat /\ p \in Nat /\ p <= z /\ SumOf(s) >= z + z
      BY <2>1, <2>4, <2>5, <2>6, <2>7, <2>8
    <2>10. SumOf(s) >= p + p
      BY ONLY <1>13, <2>9
    <2> QED
      BY <1>14, <1>16, <1>17, <2>6, <2>7, <2>10 DEF Grown
  <1> QED
    BY <1>11, <1>15, <1>16, <1>17

LEMMA CompactHolds ==
    ASSUME ListInv, CompactPartial
    PROVE  ListInv'
  <1> USE DEF ListInv
  <1>1. /\ notified' = FALSE /\ flushed' = flushed /\ overwrites' = overwrites
    BY DEF CompactPartial
  <1>2. PICK run : run = SelectPartialRun(Sizes)
    OBVIOUS
  <1>3. CASE run = None
    <2>1. files' = files
      BY <1>2, <1>3 DEF CompactPartial
    <2> QED
      BY <1>1, <2>1 DEF ListType, GrowthInv, LogAmplification
  <1>4. CASE run # None
    <2>1. PICK t : t = Sizes
      OBVIOUS
    <2>2. t \in Seq(Nat) /\ Len(t) = Len(files)
      BY <2>1, SizesType DEF ListType
    <2>3. \E a, b : /\ run = <<a, b>>
                    /\ a \in 1 .. Len(t) /\ b \in a .. Len(t)
                    /\ b - a + 1 >= Larger(MergeMin, 2)
                    /\ IsTier(t, a, b)
      BY ONLY <1>2, <1>4, <2>1, <2>2, SelectedRun
    <2>4. PICK a : \E b : /\ run = <<a, b>>
                          /\ a \in 1 .. Len(t) /\ b \in a .. Len(t)
                          /\ b - a + 1 >= Larger(MergeMin, 2)
                          /\ IsTier(t, a, b)
      BY <2>3
    <2>5. PICK b : /\ run = <<a, b>>
                   /\ a \in 1 .. Len(t) /\ b \in a .. Len(t)
                   /\ b - a + 1 >= Larger(MergeMin, 2)
                   /\ IsTier(t, a, b)
      BY <2>4
    <2>6. run[1] = a /\ run[2] = b
      BY <2>5
    <2>7. PICK levels : levels = [i \in 1 .. b - a + 1 |-> files[a + i - 1].level]
      OBVIOUS
    <2>8. PICK n \in OutputSizes(run) :
             files' = SubSeq(files, 1, a - 1)
                         \o <<[size |-> n, level |-> Highest(levels) + 1]>>
                         \o SubSeq(files, b + 1, Len(files))
      BY <1>2, <1>4, <2>6, <2>7 DEF CompactPartial
    <2>9. PICK out : out = [size |-> n, level |-> Highest(levels) + 1]
      OBVIOUS
    <2>10. out \in File /\ (MergeMin >= 3 /\ ~ overwrites => Grown(out))
      BY <2>1, <2>2, <2>5, <2>7, <2>8, <2>9, OutputHolds
    <2>11. PICK fs : fs = files
      OBVIOUS
    <2>12. PICK gs : gs = Splice(fs, a, b, out)
      OBVIOUS
    <2>13. /\ fs \in Seq(File) /\ a \in 1 .. Len(fs) /\ b \in a .. Len(fs)
           /\ files' = gs
      BY <2>2, <2>5, <2>8, <2>9, <2>11, <2>12 DEF ListType, Splice
    <2>14. /\ gs \in Seq(File)
           /\ \A i \in 1 .. Len(gs) : \/ gs[i] = out
                                      \/ \E j \in 1 .. Len(fs) : gs[i] = fs[j]
      <3>1. fs \in Seq(File) /\ a \in 1 .. Len(fs) /\ b \in a .. Len(fs)
        BY <2>13
      <3>2. out \in File
        BY <2>10
      <3>3. Spliced(Splice(fs, a, b, out), fs, out)
        BY ONLY <3>1, <3>2, SpliceOf
      <3>4. Spliced(gs, fs, out)
        BY ONLY <2>12, <3>3
      <3> QED
        BY ONLY <3>4 DEF Spliced
    <2>15. ListType'
      BY <1>1, <2>13, <2>14 DEF ListType
    <2>16. GrowthInv'
      <3>1. SUFFICES ASSUME MergeMin >= 3, ~ overwrites
                     PROVE  \A i \in 1 .. Len(gs) : Grown(gs[i])
        BY <1>1, <2>13, <2>14, Amplified DEF GrowthInv, LogAmplification, Grown
      <3>2. \A j \in 1 .. Len(fs) : Grown(fs[j])
        BY <2>11, <2>13, <3>1, Amplified DEF GrowthInv, LogAmplification, Grown
      <3> QED
        BY <2>10, <2>14, <3>1, <3>2
    <2> QED
      BY <2>15, <2>16
  <1> QED
    BY <1>3, <1>4

LEMMA NextHolds == ListInv /\ [ListNext]_listVars => ListInv'
  <1> SUFFICES ASSUME ListInv, [ListNext]_listVars PROVE ListInv'
    OBVIOUS
  <1>1. CASE CompactPartial
    BY <1>1, CompactHolds
  <1>2. ASSUME NEW n \in FlushSizes, Flush(n) PROVE ListInv'
    <2>1. Prepend(n) /\ notified' \in BOOLEAN
      BY <1>2 DEF Flush, ListInv, ListType
    <2> QED
      BY <2>1, PrependHolds
  <1>3. ASSUME NEW n \in FlushSizes, RotationFlush(n) PROVE ListInv'
    <2>1. Prepend(n) /\ notified' \in BOOLEAN
      BY <1>3 DEF RotationFlush, ListInv, ListType
    <2> QED
      BY <2>1, PrependHolds
  <1>4. CASE UNCHANGED listVars
    BY <1>4 DEF listVars, ListInv, ListType, GrowthInv, LogAmplification
  <1> QED
    BY <1>1, <1>2, <1>3, <1>4 DEF ListNext

\* Through any flushes and merges of the reader list, every file is a count and
\* a level, and with merge_min of at least 3 and distinct keys a file of level L
\* has at least 2^L records (flush_active, the pre-rotate flush,
\* compact_partial).
THEOREM ReaderListInvariance == ListSpec => []ListInv
  BY InitHolds, NextHolds, PTL DEF ListSpec

LEMMA TypedRuns == ListType => RunIsTier
  <1> SUFFICES ASSUME ListType PROVE RunIsTier
    OBVIOUS
  <1>1. PICK s : s = Sizes
    OBVIOUS
  <1>2. s \in Seq(Nat) /\ Len(s) \in Nat
    BY <1>1, SizesType DEF ListType
  <1>3. PICK run : run = SelectPartialRun(s)
    OBVIOUS
  <1>4. PICK m : m = Larger(MergeMin, 2)
    OBVIOUS
  <1>5. PICK bound : bound = IF run = None THEN Len(s) ELSE run[1] - 1
    OBVIOUS
  <1>6. ASSUME run # None
        PROVE  /\ IsTier(s, run[1], run[2])
               /\ run[2] - run[1] + 1 >= m
               /\ run[2] < Len(s) => ~ IsTier(s, run[1], run[2] + 1)
    <2>1. \E a, b : /\ run = <<a, b>>
                    /\ b - a + 1 >= m
                    /\ IsTier(s, a, b)
                    /\ b < Len(s) => ~ IsTier(s, a, b + 1)
      BY ONLY <1>2, <1>3, <1>4, <1>6, SelectedRun
    <2>2. PICK a : \E b : /\ run = <<a, b>>
                          /\ b - a + 1 >= m
                          /\ IsTier(s, a, b)
                          /\ b < Len(s) => ~ IsTier(s, a, b + 1)
      BY <2>1
    <2>3. PICK b : /\ run = <<a, b>>
                   /\ b - a + 1 >= m
                   /\ IsTier(s, a, b)
                   /\ b < Len(s) => ~ IsTier(s, a, b + 1)
      BY <2>2
    <2>4. run[1] = a /\ run[2] = b
      BY <2>3
    <2> QED
      BY <2>3, <2>4
  <1>7. ASSUME NEW w \in Windows(s), w[2] <= bound, IsTier(s, w[1], w[2])
        PROVE  w[2] - w[1] + 1 < 2 * m - 1
    <2>1. PICK c : c = w[1]
      OBVIOUS
    <2>2. PICK d : d = w[2]
      OBVIOUS
    <2>3. c \in 1 .. Len(s) /\ d \in 1 .. Len(s) /\ c <= d
      BY <2>1, <2>2 DEF Windows
    <2>4. ScanOK(run, s, 1)
      BY <1>2, <1>3, ScanReturns
    <2>5. ASSUME run # None PROVE d < run[1]
      <3>1. PICK a \in 1 .. Len(s) : run = <<a, SpanEnd(s, a)>>
        BY <2>4, <2>5 DEF ScanOK
      <3>2. run[1] = a /\ a \in Nat
        BY <1>2, <3>1
      <3>3. d <= a - 1 /\ d \in Nat
        BY <1>2, <1>5, <1>7, <2>2, <2>3, <2>5, <3>2
      <3> QED
        BY <3>2, <3>3
    <2> QED
      BY <1>4, <1>7, <2>1, <2>2, <2>3, <2>4, <2>5 DEF ScanOK
  <1> QED
    BY <1>1, <1>3, <1>4, <1>5, <1>6, <1>7 DEF RunIsTier

\* In every state the run select_partial_run would return is a tier of at least
\* merge_min files that no older file extends, and the files newer than it (all
\* files, when it returns None) hold no tier of 2 * merge_min - 1 files.
THEOREM RunsAreTiers == ListSpec => []RunIsTier
  <1>1. ListInv => RunIsTier
    BY TypedRuns DEF ListInv
  <1> QED
    BY <1>1, ReaderListInvariance, PTL

\* With merge_min of at least 3 and keys that do not recur, a record that has been
\* merged L times lies in a file of at least 2^L records, so partial compactions
\* (compact_partial) rewrite each of N records at most log2(N) times.
THEOREM RewritesAreLogarithmic ==
    ASSUME MergeMin >= 3
    PROVE  ListSpec => []LogAmplification
  <1>1. ListInv => LogAmplification
    BY DEF ListInv, GrowthInv
  <1> QED
    BY <1>1, ReaderListInvariance, PTL

=============================================================================
