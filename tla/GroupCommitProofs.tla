------------------------- MODULE GroupCommitProofs -------------------------
(***************************************************************************)
(* Proofs about GroupCommit, for any set of writers and any bounds.        *)
(***************************************************************************)
EXTENDS GroupCommit, TLAPS, SequenceTheorems

-----------------------------------------------------------------------------
(* The inductive invariant.                                                *)

\* Nothing volatile survives while the process is down.
DownInv ==
    proc # "up" =>
        /\ \A w \in Writers : pc[w] = "idle"
        /\ pending = <<>> /\ next_ticket = 1
        /\ completed = 0 /\ failed_from = 0 /\ parked = {}

LeaderInv ==
    /\ \A v, w \in Writers : IsLeader(v) /\ IsLeader(w) => v = w
    /\ \A w \in Writers : IsLeader(w) => leader_active

\* s numbers consecutive tickets from the one after t.
Tickets(s, t) == \A i \in 1..Len(s) : s[i] = t + i

\* The tickets after the watermark are, in order, the batch in flight and
\* the queue: nothing else is unpublished.
TicketInv ==
    /\ \A w \in Writers : pc[w] \in CommitPcs =>
          /\ Len(batch[w]) > 0
          /\ Tickets(batch[w], completed)
          /\ Tickets(pending, completed + Len(batch[w]))
          /\ next_ticket = completed + Len(batch[w]) + Len(pending) + 1
    /\ (\A w \in Writers : pc[w] \notin CommitPcs) =>
          /\ Tickets(pending, completed)
          /\ next_ticket = completed + Len(pending) + 1
    /\ \A w \in Writers :
          pc[w] \notin {"idle", "entered", "enqueue", "return", "ret_flush"}
          => ticket[w] > 0

FailInv ==
    /\ poisoned = FALSE
    /\ failed_from <= completed
    /\ \A w \in Writers : failed[w] => pc[w] = "publish"

\* No commit of this process life has failed so far.
Clean == failed_from = 0 /\ \A w \in Writers : ~ failed[w]

\* The segment is truncated and its new header not yet written.
Rotating == \E w \in Writers : pc[w] = "header"

\* Until a commit fails, every record authenticates where it lies; a segment
\* without its header has none.
CleanInv ==
    /\ proc = "up" /\ Clean /\ ~ Rotating =>
          /\ header = "ok" /\ record_counter = Len(seg)
          /\ GoodPrefix(seg, Len(seg))
    /\ Rotating => seg = <<>>

\* The records of w's batch are in the segment.
BatchWritten(w) ==
    \A i \in 1..Len(batch[w]) :
        \E j \in 1..Len(seg) : seg[j].id = base + batch[w][i]

WriteInv ==
    \A w \in Writers :
        /\ pc[w] = "sync" => BatchWritten(w)
        /\ pc[w] = "publish" /\ ~ failed[w] =>
              BatchWritten(w) /\ synced = Len(seg)

\* Every whole record's id is in S.
Covered(S) == \A i \in 1..Len(seg) : seg[i].whole => seg[i].id \in S

FlushInv ==
    /\ \A v, w \in Writers : pc[v] \in FlushPcs /\ pc[w] \in FlushPcs => v = w
    /\ (\A w \in Writers : pc[w] \notin FlushPcs) => parked = {}
    /\ proc = "up" => Covered(mem \union parked \union sst)
    /\ \A w \in Writers :
          /\ pc[w] = "rot_flush" => Covered(parked \union sst)
          /\ pc[w] = "truncate" => Covered(sst)

\* Every record of this life is applied; acknowledged ones stay readable.
VisibleInv ==
    proc = "up" =>
        /\ \A t \in 1..(next_ticket - 1) :
              base + t \in mem \union parked \union sst
        /\ acked \subseteq mem \union parked \union sst

AckInv ==
    /\ acked \subseteq Durable
    /\ \A t \in 1..completed : ~ TicketFailed(t) => base + t \in Durable

IInv ==
    /\ TypeOK /\ DownInv /\ LeaderInv /\ TicketInv /\ FailInv /\ CleanInv
    /\ WriteInv /\ FlushInv /\ VisibleInv /\ AckInv

-----------------------------------------------------------------------------
(* Type correctness.                                                       *)

\* A commit in flight has a batch: LeadDrain took a queue that was not empty.
BatchInv == \A w \in Writers : pc[w] \in CommitPcs => batch[w] # <<>>

\* Where a flush goes from, and to.
LEMMA FlushRoute ==
    /\ FlushStart["pre_rotate"] = "pre_flush" /\ FlushStart["rotate"] = "rot_flush"
    /\ FlushStart["return"] = "ret_flush"
    /\ FlushThen["pre_flush"] = "rotate" /\ FlushThen["rot_flush"] = "truncate"
BY DEF FlushStart, FlushThen

\* The records commit_batch encodes for the first n tickets of a batch.
LEMMA RecordsType ==
    ASSUME base \in Nat, NEW from \in Nat, NEW ts \in Seq(Nat),
           NEW n \in 0..Len(ts)
    PROVE  /\ Records(from, ts, n) \in Seq(Record)
           /\ Len(Records(from, ts, n)) = n
           /\ \A i \in 1..n : Records(from, ts, n)[i] =
                  [num |-> from + i - 1, id |-> base + ts[i], whole |-> TRUE]
<1>1. \A i \in 1..n : ts[i] \in Nat
  OBVIOUS
<1>2. \A i \in 1..n :
        [num |-> from + i - 1, id |-> base + ts[i], whole |-> TRUE] \in Record
  BY <1>1 DEF Record
<1>3. Records(from, ts, n) \in [1..n -> Record]
  BY <1>2 DEF Records
<1>4. Records(from, ts, n) \in Seq(Record)
  BY <1>3
<1>5. Len(Records(from, ts, n)) = n
  BY <1>3, <1>4
<1> QED
  BY <1>4, <1>5 DEF Records

LEMMA TypeStep ==
    ASSUME TypeOK, BatchInv, Next
    PROVE  TypeOK' /\ BatchInv'
<1> USE DEF TypeOK, BatchInv, Pcs, CommitPcs, LeaderPcs, FlushPcs, Goto, Return,
            EnterBarrier, Fault, Fail, localVars, groupVars, signalVars,
            procVars, fileVars, dataVars, topVars, barrierVars, histVars
<1>1. ASSUME NEW w \in Writers, BeginWrite(w) PROVE TypeOK' /\ BatchInv'
  BY <1>1, SMTT(30) DEF BeginWrite
<1>2. ASSUME NEW w \in Writers, CheckFence(w) PROVE TypeOK' /\ BatchInv'
  BY <1>2, ZenonT(60) DEF CheckFence
<1>3. ASSUME NEW w \in Writers, EnqueueSlot(w) PROVE TypeOK' /\ BatchInv'
  <2>1. pc' \in [Writers -> Pcs]
    BY <1>3 DEF EnqueueSlot, Apply
  <2>2. leads' \in [Writers -> BOOLEAN]
    BY <1>3 DEF EnqueueSlot, Apply
  <2>3. pending' \in Seq(Nat)
    BY <1>3 DEF EnqueueSlot, Apply, PushSlot
  <2>4. mem' \subseteq Nat /\ ticket' \in [Writers -> Nat]
    BY <1>3 DEF EnqueueSlot, Apply
  <2>5. readers' \subseteq Writers /\ exporter' = exporter
    BY <1>3 DEF EnqueueSlot, Apply
  <2>6. BatchInv'
    BY <1>3, ZenonT(60) DEF EnqueueSlot, Apply
  <2> QED
    BY <1>3, <2>1, <2>2, <2>3, <2>4, <2>5, <2>6, SMTT(30) DEF EnqueueSlot, Apply
<1>4. ASSUME NEW w \in Writers, AwaitBatchDurable(w) PROVE TypeOK' /\ BatchInv'
  BY <1>4 DEF AwaitBatchDurable
<1>5. ASSUME NEW w \in Writers, LeadExit(w) PROVE TypeOK' /\ BatchInv'
  BY <1>5 DEF LeadExit
<1>6. ASSUME NEW w \in Writers, LeadStepDown(w) PROVE TypeOK' /\ BatchInv'
  BY <1>6 DEF LeadStepDown
<1>7. ASSUME NEW w \in Writers, AnnounceVacancy(w) PROVE TypeOK' /\ BatchInv'
  BY <1>7 DEF AnnounceVacancy
<1>8. ASSUME NEW w \in Writers, LeadDrain(w) PROVE TypeOK' /\ BatchInv'
  BY <1>8, SMTT(30) DEF LeadDrain, CommitEntry
<1>9. ASSUME NEW w \in Writers, FlushSwap(w) PROVE TypeOK' /\ BatchInv'
  BY <1>9, SMTT(30) DEF FlushSwap, FlushStart
<1>10. ASSUME NEW w \in Writers, FlushDone(w) PROVE TypeOK' /\ BatchInv'
  <2>1. \E l \in {"idle", "rotate", "truncate"} :
          /\ pc' = [pc EXCEPT ![w] = l]
          /\ l = "idle" <=> pc[w] = "ret_flush"
    <3>1. CASE pc[w] = "ret_flush"
      BY <1>10, <3>1 DEF FlushDone
    <3>2. ASSUME pc[w] # "ret_flush" PROVE pc' = [pc EXCEPT ![w] = FlushThen[pc[w]]]
      BY <1>10, <3>2 DEF FlushDone
    <3>3. CASE pc[w] = "pre_flush"
      BY <3>2, <3>3, FlushRoute
    <3>4. CASE pc[w] = "rot_flush"
      BY <3>2, <3>4, FlushRoute
    <3> QED
      BY <1>10, <3>1, <3>3, <3>4 DEF FlushDone
  <2>2. sst' \subseteq Nat /\ parked' \subseteq Nat
    BY <1>10 DEF FlushDone
  <2>3. readers' \subseteq Writers /\ exporter' = exporter
    BY <1>10 DEF FlushDone
  <2>4. pc[w] \in FlushPcs /\ batch' = batch
    BY <1>10 DEF FlushDone
  <2> PICK l \in {"idle", "rotate", "truncate"} :
          /\ pc' = [pc EXCEPT ![w] = l]
          /\ l = "idle" <=> pc[w] = "ret_flush"
    BY <2>1
  <2>5. pc' \in [Writers -> Pcs]
    OBVIOUS
  <2>6. BatchInv'
    <3> SUFFICES ASSUME NEW v \in Writers, pc'[v] \in CommitPcs
                 PROVE  batch[v] # <<>>
      BY <2>4
    <3>1. CASE v = w
      BY <2>4, <3>1
    <3>2. CASE v # w
      BY <3>2
    <3> QED
      BY <3>1, <3>2
  <2> QED
    BY <1>10, <2>2, <2>3, <2>5, <2>6, SMTT(30) DEF FlushDone, Over
<1>11. ASSUME NEW w \in Writers, FlushFault(w) PROVE TypeOK' /\ BatchInv'
  <2>1. pc' \in [Writers -> Pcs]
    BY <1>11, ZenonT(60) DEF FlushFault
  <2>2. failed' \in [Writers -> BOOLEAN]
    BY <1>11 DEF FlushFault
  <2>3. mem' \subseteq Nat /\ parked' \subseteq Nat
    BY <1>11 DEF FlushFault, Reabsorb
  <2>4. readers' \subseteq Writers /\ exporter' = exporter
    BY <1>11 DEF FlushFault
  <2>5. BatchInv'
    BY <1>11 DEF FlushFault
  <2> QED
    BY <1>11, <2>1, <2>2, <2>3, <2>4, <2>5, SMTT(30) DEF FlushFault, Over
<1>12. ASSUME NEW w \in Writers, ReturnUnflushed(w) PROVE TypeOK' /\ BatchInv'
  BY <1>12, SMTT(30) DEF ReturnUnflushed
<1>13. ASSUME NEW w \in Writers, RotateTruncate(w) PROVE TypeOK' /\ BatchInv'
  BY <1>13, SMTT(30) DEF RotateTruncate
<1>13a. ASSUME NEW w \in Writers, RotateHeader(w) PROVE TypeOK' /\ BatchInv'
  BY <1>13a, SMTT(30) DEF RotateHeader
<1>14. ASSUME NEW w \in Writers, RotateFault(w) PROVE TypeOK' /\ BatchInv'
  <2>1. pc' \in [Writers -> Pcs]
    BY <1>14 DEF RotateFault
  <2>2. failed' \in [Writers -> BOOLEAN]
    BY <1>14 DEF RotateFault
  <2>3. BatchInv'
    BY <1>14 DEF RotateFault
  <2> QED
    BY <1>14, <2>1, <2>2, <2>3, SMTT(30) DEF RotateFault
<1>15. ASSUME NEW w \in Writers, CommitWrite(w) PROVE TypeOK' /\ BatchInv'
  <2> DEFINE rs == Records(record_counter, batch[w], Len(batch[w]))
  <2>1. rs \in Seq(Record) /\ Len(rs) = Len(batch[w])
    BY RecordsType
  <2>2. seg' = seg \o rs
    BY <1>15 DEF CommitWrite
  <2> HIDE DEF rs
  <2>3. seg' \in Seq(Record) /\ Len(seg') >= Len(seg)
    BY <2>1, <2>2
  <2> QED
    BY <1>15, <2>3, SMTT(30) DEF CommitWrite
<1>16. ASSUME NEW w \in Writers, CommitWriteFault(w) PROVE TypeOK' /\ BatchInv'
  <2> PICK k \in 0..(Len(batch[w]) - 1), torn \in BOOLEAN :
           seg' = seg \o Records(record_counter, batch[w], k)
                      \o (IF torn THEN <<Torn>> ELSE <<>>)
    BY <1>16 DEF CommitWriteFault
  <2> DEFINE rs == Records(record_counter, batch[w], k)
             tail == IF torn THEN <<Torn>> ELSE <<>>
  <2>1. rs \in Seq(Record)
    <3>1. /\ base \in Nat /\ record_counter \in Nat /\ batch[w] \in Seq(Nat)
          /\ k \in 0..Len(batch[w])
      OBVIOUS
    <3> HIDE DEF TypeOK, BatchInv
    <3> QED
      BY <3>1, RecordsType
  <2>2. tail \in Seq(Record)
    <3>1. Torn \in Record
      BY DEF Torn, Record
    <3> QED
      BY <3>1
  <2>3. seg' \in Seq(Record) /\ Len(seg') >= Len(seg)
    BY <2>1, <2>2, SMTT(30)
  <2> HIDE DEF rs, tail
  <2>4. /\ failed' \in [Writers -> BOOLEAN] /\ pc' \in [Writers -> Pcs]
        /\ BatchInv'
    BY <1>16 DEF CommitWriteFault
  <2>5. synced' \in 0..Len(seg') /\ record_counter' \in Nat
    <3>1. synced' = synced /\ record_counter' = record_counter + Len(batch[w])
      BY <1>16 DEF CommitWriteFault
    <3> QED
      BY <2>3, <3>1, SMTT(30)
  <2>6. /\ UNCHANGED <<split, leads, ticket, batch, committed, groupVars,
                      signalVars, procVars, header, poisoned, dataVars,
                      barrierVars, base, acked, begun, crashes, exports>>
        /\ faults' \in Nat
    BY <1>16 DEF CommitWriteFault
  <2> QED
    BY <2>3, <2>4, <2>5, <2>6, SMTT(30)
<1>17. ASSUME NEW w \in Writers, CommitSync(w) PROVE TypeOK' /\ BatchInv'
  BY <1>17, SMTT(30) DEF CommitSync
<1>18. ASSUME NEW w \in Writers, CommitSyncFault(w) PROVE TypeOK' /\ BatchInv'
  <2>1. pc' \in [Writers -> Pcs]
    BY <1>18 DEF CommitSyncFault
  <2>2. failed' \in [Writers -> BOOLEAN]
    BY <1>18 DEF CommitSyncFault
  <2>3. BatchInv'
    BY <1>18 DEF CommitSyncFault
  <2> QED
    BY <1>18, <2>1, <2>2, <2>3, SMTT(30) DEF CommitSyncFault
<1>19. ASSUME NEW w \in Writers, CommitPublish(w) PROVE TypeOK' /\ BatchInv'
  <2>1. pc' \in [Writers -> Pcs]
    BY <1>19 DEF CommitPublish
  <2>2. failed' \in [Writers -> BOOLEAN]
    BY <1>19 DEF CommitPublish
  <2>3. fenced' \in BOOLEAN
    BY <1>19 DEF CommitPublish
  <2>4. completed' \in Nat /\ failed_from' \in Nat
    BY <1>19, SMTT(30) DEF CommitPublish, Larger, FailedFrom
  <2>5. committed' \in [Writers -> Nat]
    BY <1>19 DEF CommitPublish
  <2>6. batch' \in [Writers -> Seq(Nat)]
    BY <1>19 DEF CommitPublish
  <2>7. BatchInv'
    BY <1>19 DEF CommitPublish
  <2> QED
    BY <1>19, <2>1, <2>2, <2>3, <2>4, <2>5, <2>6, <2>7 DEF CommitPublish
<1>20. ASSUME NEW w \in Writers, AwaitOutcome(w) PROVE TypeOK' /\ BatchInv'
  <2>1. pc' \in [Writers -> Pcs]
    BY <1>20, ZenonT(60) DEF AwaitOutcome
  <2>2. acked' \subseteq Nat
    <3>1. CASE TicketFailed(ticket[w])
      BY <1>20, <3>1 DEF AwaitOutcome
    <3>2. CASE ~ TicketFailed(ticket[w])
      <4>1. acked' = acked \union {base + ticket[w]}
        BY <1>20, <3>2 DEF AwaitOutcome
      <4>2. base + ticket[w] \in Nat /\ acked \subseteq Nat
        OBVIOUS
      <4> HIDE DEF TypeOK, BatchInv
      <4> QED
        BY <4>1, <4>2
    <3> QED
      BY <3>1, <3>2
  <2>3. readers' \subseteq Writers /\ exporter' = exporter
    BY <1>20 DEF AwaitOutcome
  <2>4. BatchInv'
    BY <1>20 DEF AwaitOutcome
  <2> QED
    BY <1>20, <2>1, <2>2, <2>3, <2>4, SMTT(30) DEF AwaitOutcome
<1>21. ASSUME NEW w \in Writers, AwaitVacancy(w) PROVE TypeOK' /\ BatchInv'
  BY <1>21 DEF AwaitVacancy
<1>22. ASSUME NEW w \in Writers, ClaimLeadership(w) PROVE TypeOK' /\ BatchInv'
  <2>1. /\ \E l \in {"wait", "lead"} : pc' = [pc EXCEPT ![w] = l]
        /\ \/ committed' = committed
           \/ committed' = [committed EXCEPT ![w] = 0]
        /\ leader_active' = leader_active \/ leader_active' = TRUE
    BY <1>22 DEF ClaimLeadership
  <2>2. /\ pc' \in [Writers -> Pcs] /\ committed' \in [Writers -> Nat]
        /\ leader_active' \in BOOLEAN
    <3>1. pc' \in [Writers -> Pcs]
      BY <2>1
    <3>2. committed' \in [Writers -> Nat]
      <4>1. CASE committed' = committed
        BY <4>1
      <4>2. CASE committed' = [committed EXCEPT ![w] = 0]
        BY <4>2
      <4> QED
        BY <2>1, <4>1, <4>2
    <3>3. leader_active' \in BOOLEAN
      BY <2>1
    <3> QED
      BY <3>1, <3>2, <3>3
  <2>3. batch' = batch
    BY <1>22 DEF ClaimLeadership
  <2>4. BatchInv'
    BY <2>1, <2>3
  <2> QED
    BY <1>22, <2>2, <2>4 DEF ClaimLeadership
<1>23. CASE ExportRequest
  BY <1>23 DEF ExportRequest
<1>24. CASE ExportAcquire
  BY <1>24 DEF ExportAcquire
<1>25. CASE ExportRelease
  BY <1>25 DEF ExportRelease
<1>26. CASE Crash
  <2> PICK n \in synced..Len(seg), torn \in BOOLEAN :
           seg' = SubSeq(seg, 1, n)
                  \o (IF torn /\ n < Len(seg) THEN <<Torn>> ELSE <<>>)
    BY <1>26 DEF Crash
  <2> DEFINE tail == IF torn /\ n < Len(seg) THEN <<Torn>> ELSE <<>>
  <2>1. tail \in Seq(Record) /\ Len(tail) \in Nat
    <3>1. Torn \in Record
      BY DEF Torn, Record
    <3> QED
      BY <3>1
  <2>2. SubSeq(seg, 1, n) \in Seq(Record) /\ Len(SubSeq(seg, 1, n)) = n
    OBVIOUS
  <2>3. seg' \in Seq(Record) /\ Len(seg') >= synced
    BY <2>1, <2>2
  <2> HIDE DEF tail
  <2>4. synced' \in 0..Len(seg') /\ base' \in Nat /\ crashes' \in Nat
    BY <1>26, <2>3 DEF Crash
  <2>5. /\ pc' \in [Writers -> Pcs] /\ batch' \in [Writers -> Seq(Nat)]
        /\ failed' \in [Writers -> BOOLEAN] /\ BatchInv'
    BY <1>26 DEF Crash
  <2>6. UNCHANGED <<split, leads, ticket, committed, header, record_counter,
                    sst, sst_top, acked, begun, faults, exports>>
    BY <1>26 DEF Crash
  <2>7. /\ proc' = "down" /\ pending' = <<>> /\ leader_active' = FALSE
        /\ completed' = 0 /\ failed_from' = 0 /\ leader_vacant' = FALSE
        /\ next_ticket' = 1 /\ fenced' = FALSE /\ poisoned' = FALSE
        /\ mem' = {} /\ parked' = {} /\ readers' = {} /\ exporter' = "idle"
        /\ mem_top' = 0 /\ parked_top' = 0
    BY <1>26 DEF Crash
  <2>8. /\ leader_active' \in BOOLEAN /\ leader_vacant' \in BOOLEAN
        /\ fenced' \in BOOLEAN /\ poisoned' \in BOOLEAN
    BY <2>7
  <2>9. /\ mem' \subseteq Nat /\ parked' \subseteq Nat /\ readers' \subseteq Writers
        /\ pending' \in Seq(Nat) /\ next_ticket' \in Nat \ {0}
    BY <2>7
  <2> QED
    BY <2>3, <2>4, <2>5, <2>6, <2>7, <2>8, <2>9
<1>27. CASE RestartRefused
  BY <1>27 DEF RestartRefused
<1>28. CASE RestartOpen
  <2> PICK n \in 0..Len(seg) :
           /\ seg' = SubSeq(seg, 1, n) /\ record_counter' = n
           /\ mem_top' = IF n = 0 THEN 0 ELSE seg[n].id
           /\ synced' = IF n < Len(seg) THEN n ELSE synced
    BY <1>28 DEF RestartOpen
  <2>1. seg' \in Seq(Record) /\ Len(seg') = n
    OBVIOUS
  <2>2. \A i \in 1..Len(seg) : seg[i].id \in Nat
    <3> SUFFICES ASSUME NEW i \in 1..Len(seg) PROVE seg[i].id \in Nat
      OBVIOUS
    <3>1. seg[i] \in Record
      OBVIOUS
    <3> QED
      BY <3>1 DEF Record
  <2>3. OnDisk(header, seg, Len(seg)) \subseteq Nat
    BY <2>2 DEF OnDisk, Replayed
  <2>4. mem_top' \in Nat
    BY <2>2
  <2> QED
    BY <1>28, <2>1, <2>3, <2>4 DEF RestartOpen
<1>29. CASE Quiescent
  BY <1>29 DEF Quiescent, vars
<1> QED
  BY <1>1, <1>2, <1>3, <1>4, <1>5, <1>6, <1>7, <1>8, <1>9, <1>10, <1>11,
     <1>12, <1>13, <1>13a, <1>14, <1>15, <1>16, <1>17, <1>18, <1>19, <1>20, <1>21,
     <1>22, <1>23, <1>24, <1>25, <1>26, <1>27, <1>28, <1>29
     DEF Next, WriterStep, FaultStep

LEMMA InitType ==
    ASSUME Init PROVE TypeOK /\ BatchInv
<1>1. /\ pc \in [Writers -> Pcs] /\ batch \in [Writers -> Seq(Nat)] /\ BatchInv
      /\ failed \in [Writers -> BOOLEAN] /\ leads \in [Writers -> BOOLEAN]
      /\ split \in [Writers -> BOOLEAN] /\ ticket \in [Writers -> Nat]
      /\ committed \in [Writers -> Nat]
  BY DEF Init, BatchInv, Pcs, CommitPcs, LeaderPcs
<1>2. seg \in Seq(Record) /\ synced \in 0..Len(seg) /\ pending \in Seq(Nat)
  BY DEF Init
<1>3. /\ leader_active \in BOOLEAN /\ leader_vacant \in BOOLEAN
      /\ fenced \in BOOLEAN /\ poisoned \in BOOLEAN
  BY DEF Init
<1>4. /\ mem \subseteq Nat /\ parked \subseteq Nat /\ sst \subseteq Nat
      /\ readers \subseteq Writers /\ acked \subseteq Nat
  BY DEF Init
<1>5. /\ proc \in {"up", "down", "refused"} /\ header \in {"ok", "stub"}
      /\ exporter \in {"idle", "waiting", "reading"}
  BY DEF Init
<1>6. /\ next_ticket \in Nat \ {0} /\ completed \in Nat /\ failed_from \in Nat
      /\ record_counter \in Nat /\ base \in Nat /\ begun \in Nat
      /\ faults \in Nat /\ crashes \in Nat /\ exports \in Nat
      /\ mem_top \in Nat /\ parked_top \in Nat /\ sst_top \in Nat
  BY DEF Init
<1> QED
  BY <1>1, <1>2, <1>3, <1>4, <1>5, <1>6 DEF TypeOK

\* Every variable keeps its type, and a commit in flight has a batch: what
\* commit_batch reads of its batch exists.
THEOREM TypeCorrect == Spec => [](TypeOK /\ BatchInv)
<1>1. Init => TypeOK /\ BatchInv
  BY InitType
<1>2. TypeOK /\ BatchInv /\ [Next]_vars => TypeOK' /\ BatchInv'
  <2>1. ASSUME TypeOK, BatchInv, UNCHANGED vars PROVE TypeOK' /\ BatchInv'
    BY <2>1 DEF TypeOK, BatchInv, vars, localVars, groupVars, signalVars,
                procVars, fileVars, dataVars, topVars, barrierVars, histVars
  <2> QED
    BY <2>1, TypeStep
<1> QED
  BY <1>1, <1>2, PTL DEF Spec

-----------------------------------------------------------------------------
(* One leader.                                                             *)

\* A step of w that neither makes it a leader nor touches leader_active.
KeepsLeader(w) ==
    /\ UNCHANGED <<leads, leader_active>>
    /\ \E l : pc' = [pc EXCEPT ![w] = l]
    /\ IsLeader(w)' => IsLeader(w)

LEMMA LeaderKept ==
    ASSUME TypeOK, LeaderInv, NEW w \in Writers, KeepsLeader(w)
    PROVE  LeaderInv'
<1>1. \A v \in Writers : IsLeader(v)' => IsLeader(v)
  <2> SUFFICES ASSUME NEW v \in Writers, v # w, IsLeader(v)' PROVE IsLeader(v)
    BY DEF KeepsLeader
  <2> QED
    BY DEF TypeOK, IsLeader, KeepsLeader
<1> QED
  BY <1>1 DEF LeaderInv, KeepsLeader

\* A step of the leader w that ends its leadership.
LEMMA LeaderLeaves ==
    ASSUME TypeOK, LeaderInv, NEW w \in Writers, IsLeader(w),
           NEW l \in {"wait", "announce"}, pc' = [pc EXCEPT ![w] = l],
           leads' = leads
    PROVE  LeaderInv'
<1>1. \A v \in Writers : ~ IsLeader(v)'
  <2> SUFFICES ASSUME NEW v \in Writers PROVE ~ IsLeader(v)'
    OBVIOUS
  <2>1. CASE v = w
    BY <2>1 DEF TypeOK, IsLeader, LeaderPcs
  <2>2. CASE v # w
    BY <2>2 DEF TypeOK, LeaderInv, IsLeader
  <2> QED
    BY <2>1, <2>2
<1> QED
  BY <1>1 DEF LeaderInv

\* A step that makes w the leader of a group that had none.
LEMMA LeaderElected ==
    ASSUME TypeOK, LeaderInv, NEW w \in Writers, ~ leader_active, NEW l,
           pc' = [pc EXCEPT ![w] = l], leader_active',
           \A v \in Writers \ {w} : leads'[v] = leads[v]
    PROVE  LeaderInv'
<1>1. \A v \in Writers : v # w => ~ IsLeader(v)'
  BY DEF TypeOK, LeaderInv, IsLeader
<1> QED
  BY <1>1 DEF LeaderInv

LEMMA LeaderStep ==
    ASSUME TypeOK, LeaderInv, Next
    PROVE  LeaderInv'
<1> USE DEF Goto, Return, EnterBarrier, Fail, groupVars, barrierVars
<1>1. ASSUME NEW w \in Writers, BeginWrite(w) PROVE LeaderInv'
  <2>1. KeepsLeader(w)
    BY <1>1 DEF KeepsLeader, BeginWrite, IsLeader, LeaderPcs, FlushPcs, TypeOK
  <2> QED
    BY <2>1, LeaderKept
<1>2. ASSUME NEW w \in Writers, CheckFence(w) PROVE LeaderInv'
  <2>1. KeepsLeader(w)
    BY <1>2 DEF KeepsLeader, CheckFence, IsLeader, LeaderPcs, FlushPcs, TypeOK
  <2> QED
    BY <2>1, LeaderKept
<1>3. ASSUME NEW w \in Writers, AwaitBatchDurable(w) PROVE LeaderInv'
  <2>1. KeepsLeader(w)
    BY <1>3 DEF KeepsLeader, AwaitBatchDurable, IsLeader, LeaderPcs, FlushPcs, TypeOK
  <2> QED
    BY <2>1, LeaderKept
<1>4. ASSUME NEW w \in Writers, AnnounceVacancy(w) PROVE LeaderInv'
  <2>1. KeepsLeader(w)
    BY <1>4 DEF KeepsLeader, AnnounceVacancy, IsLeader, LeaderPcs, FlushPcs, TypeOK
  <2> QED
    BY <2>1, LeaderKept
<1>5. ASSUME NEW w \in Writers, LeadDrain(w) PROVE LeaderInv'
  <2>1. KeepsLeader(w)
    BY <1>5 DEF KeepsLeader, LeadDrain, IsLeader, LeaderPcs, FlushPcs, TypeOK, CommitEntry
  <2> QED
    BY <2>1, LeaderKept
<1>6. ASSUME NEW w \in Writers, FlushSwap(w) PROVE LeaderInv'
  <2>1. KeepsLeader(w)
    BY <1>6, FlushRoute DEF KeepsLeader, FlushSwap, IsLeader, LeaderPcs, TypeOK
  <2> QED
    BY <2>1, LeaderKept
<1>7. ASSUME NEW w \in Writers, FlushDone(w) PROVE LeaderInv'
  <2>1. KeepsLeader(w)
    BY <1>7 DEF KeepsLeader, FlushDone, IsLeader, LeaderPcs, FlushPcs, TypeOK, FlushThen
  <2> QED
    BY <2>1, LeaderKept
<1>8. ASSUME NEW w \in Writers, FlushFault(w) PROVE LeaderInv'
  <2>1. KeepsLeader(w)
    BY <1>8 DEF KeepsLeader, FlushFault, IsLeader, LeaderPcs, FlushPcs, TypeOK
  <2> QED
    BY <2>1, LeaderKept
<1>9. ASSUME NEW w \in Writers, ReturnUnflushed(w) PROVE LeaderInv'
  <2>1. KeepsLeader(w)
    BY <1>9 DEF KeepsLeader, ReturnUnflushed, IsLeader, LeaderPcs, FlushPcs, TypeOK
  <2> QED
    BY <2>1, LeaderKept
<1>10. ASSUME NEW w \in Writers, RotateTruncate(w) PROVE LeaderInv'
  <2>1. KeepsLeader(w)
    BY <1>10 DEF KeepsLeader, RotateTruncate, IsLeader, LeaderPcs, FlushPcs, TypeOK
  <2> QED
    BY <2>1, LeaderKept
<1>10a. ASSUME NEW w \in Writers, RotateHeader(w) PROVE LeaderInv'
  <2>1. KeepsLeader(w)
    BY <1>10a DEF KeepsLeader, RotateHeader, IsLeader, LeaderPcs, FlushPcs, TypeOK
  <2> QED
    BY <2>1, LeaderKept
<1>11. ASSUME NEW w \in Writers, RotateFault(w) PROVE LeaderInv'
  <2>1. KeepsLeader(w)
    BY <1>11 DEF KeepsLeader, RotateFault, IsLeader, LeaderPcs, FlushPcs, TypeOK
  <2> QED
    BY <2>1, LeaderKept
<1>12. ASSUME NEW w \in Writers, CommitWrite(w) PROVE LeaderInv'
  <2>1. KeepsLeader(w)
    BY <1>12 DEF KeepsLeader, CommitWrite, IsLeader, LeaderPcs, FlushPcs, TypeOK
  <2> QED
    BY <2>1, LeaderKept
<1>13. ASSUME NEW w \in Writers, CommitWriteFault(w) PROVE LeaderInv'
  <2>1. KeepsLeader(w)
    BY <1>13 DEF KeepsLeader, CommitWriteFault, IsLeader, LeaderPcs, FlushPcs, TypeOK
  <2> QED
    BY <2>1, LeaderKept
<1>14. ASSUME NEW w \in Writers, CommitSync(w) PROVE LeaderInv'
  <2>1. KeepsLeader(w)
    BY <1>14 DEF KeepsLeader, CommitSync, IsLeader, LeaderPcs, FlushPcs, TypeOK
  <2> QED
    BY <2>1, LeaderKept
<1>15. ASSUME NEW w \in Writers, CommitSyncFault(w) PROVE LeaderInv'
  <2>1. KeepsLeader(w)
    BY <1>15 DEF KeepsLeader, CommitSyncFault, IsLeader, LeaderPcs, FlushPcs, TypeOK
  <2> QED
    BY <2>1, LeaderKept
<1>16. ASSUME NEW w \in Writers, CommitPublish(w) PROVE LeaderInv'
  <2>1. KeepsLeader(w)
    BY <1>16 DEF KeepsLeader, CommitPublish, IsLeader, LeaderPcs, FlushPcs, TypeOK
  <2> QED
    BY <2>1, LeaderKept
<1>17. ASSUME NEW w \in Writers, AwaitOutcome(w) PROVE LeaderInv'
  <2>1. KeepsLeader(w)
    BY <1>17 DEF KeepsLeader, AwaitOutcome, IsLeader, LeaderPcs, FlushPcs, TypeOK
  <2> QED
    BY <2>1, LeaderKept
<1>18. ASSUME NEW w \in Writers, AwaitVacancy(w) PROVE LeaderInv'
  <2>1. KeepsLeader(w)
    BY <1>18 DEF KeepsLeader, AwaitVacancy, IsLeader, LeaderPcs, FlushPcs, TypeOK
  <2> QED
    BY <2>1, LeaderKept
<1>19. ASSUME NEW w \in Writers, EnqueueSlot(w) PROVE LeaderInv'
  <2>1. \E l \in {"handle", "wait", "lead"} :
           /\ pc' = [pc EXCEPT ![w] = l]
           /\ l = "lead" => ~ leader_active
    BY <1>19 DEF EnqueueSlot
  <2>2. leads' = [leads EXCEPT ![w] = ~ leader_active] /\ leader_active'
    BY <1>19 DEF EnqueueSlot
  <2>3. CASE leader_active
    <3>1. ~ IsLeader(w)'
      BY <2>1, <2>2, <2>3 DEF IsLeader, LeaderPcs, TypeOK
    <3>2. \A v \in Writers : IsLeader(v)' => IsLeader(v)
      <4> SUFFICES ASSUME NEW v \in Writers, v # w, IsLeader(v)' PROVE IsLeader(v)
        BY <3>1
      <4> QED
        BY <2>1, <2>2 DEF IsLeader, TypeOK
    <3> QED
      BY <2>2, <3>2 DEF LeaderInv
  <2>4. CASE ~ leader_active
    BY <2>1, <2>2, <2>4, LeaderElected DEF TypeOK
  <2> QED
    BY <2>3, <2>4
<1>20. ASSUME NEW w \in Writers, LeadExit(w) PROVE LeaderInv'
  BY <1>20, LeaderLeaves DEF LeadExit, IsLeader, LeaderPcs
<1>21. ASSUME NEW w \in Writers, LeadStepDown(w) PROVE LeaderInv'
  BY <1>21, LeaderLeaves DEF LeadStepDown, IsLeader, LeaderPcs
<1>22. ASSUME NEW w \in Writers, ClaimLeadership(w) PROVE LeaderInv'
  <2>1. leads' = leads
    BY <1>22 DEF ClaimLeadership
  <2>2. CASE ClaimLost
    <3>1. pc' = [pc EXCEPT ![w] = "wait"] /\ leader_active' = leader_active
      BY <1>22, <2>2 DEF ClaimLeadership
    <3>2. ~ IsLeader(w)'
      BY <3>1 DEF IsLeader, LeaderPcs, TypeOK
    <3> QED
      BY <2>1, <3>1, <3>2, LeaderKept DEF KeepsLeader
  <2>3. CASE ~ ClaimLost
    <3>1. pc' = [pc EXCEPT ![w] = "lead"] /\ leader_active'
      BY <1>22, <2>3 DEF ClaimLeadership
    <3>2. ~ leader_active
      BY <2>3 DEF ClaimLost
    <3> QED
      BY <2>1, <3>1, <3>2, LeaderElected
  <2> QED
    BY <2>2, <2>3
<1>23. CASE Crash
  BY <1>23 DEF Crash, LeaderInv, IsLeader, LeaderPcs
<1>24. CASE \/ ExportRequest \/ ExportAcquire \/ ExportRelease
         \/ RestartRefused \/ RestartOpen \/ Quiescent
  <2>1. UNCHANGED <<pc, leads, leader_active>>
    BY <1>24 DEF ExportRequest, ExportAcquire, ExportRelease, RestartRefused,
                 RestartOpen, Quiescent, vars, localVars
  <2> QED
    BY <2>1 DEF LeaderInv, IsLeader
<1> QED
  BY <1>1, <1>2, <1>3, <1>4, <1>5, <1>6, <1>7, <1>8, <1>9, <1>10, <1>10a, <1>11,
     <1>12, <1>13, <1>14, <1>15, <1>16, <1>17, <1>18, <1>19, <1>20, <1>21,
     <1>22, <1>23, <1>24
     DEF Next, WriterStep, FaultStep

-----------------------------------------------------------------------------
(* Frame facts.                                                            *)

\* What one writer's step leaves alone.
OthersKept(w) ==
    /\ \E l : pc' = [pc EXCEPT ![w] = l]
    /\ \A v \in Writers \ {w} : /\ ticket'[v] = ticket[v] /\ batch'[v] = batch[v]
                                /\ failed'[v] = failed[v]
    /\ proc' = proc /\ poisoned' = poisoned /\ base' = base
    /\ proc = "up" \/ pc[w] # "idle"

LEMMA WriterFrame ==
    ASSUME TypeOK, NEW w \in Writers, BeginWrite(w) \/ WriterStep(w) \/ FaultStep(w)
    PROVE  OthersKept(w)
<1> USE DEF OthersKept, TypeOK, Goto, Return, Fail, Fault, fileVars, procVars, histVars
<1>1. CASE BeginWrite(w)
  BY <1>1 DEF BeginWrite
<1>2. CASE CheckFence(w)
  BY <1>2 DEF CheckFence
<1>3. CASE EnqueueSlot(w)
  BY <1>3 DEF EnqueueSlot
<1>4. CASE AwaitBatchDurable(w)
  BY <1>4 DEF AwaitBatchDurable
<1>5. CASE LeadExit(w)
  BY <1>5 DEF LeadExit
<1>6. CASE LeadStepDown(w)
  BY <1>6 DEF LeadStepDown
<1>7. CASE AnnounceVacancy(w)
  BY <1>7 DEF AnnounceVacancy
<1>8. CASE LeadDrain(w)
  BY <1>8 DEF LeadDrain
<1>9. CASE FlushSwap(w)
  BY <1>9 DEF FlushSwap
<1>10. CASE FlushDone(w)
  BY <1>10 DEF FlushDone, FlushPcs
<1>11. CASE FlushFault(w)
  BY <1>11 DEF FlushFault, FlushPcs
<1>12. CASE ReturnUnflushed(w)
  BY <1>12 DEF ReturnUnflushed
<1>13. CASE RotateTruncate(w)
  BY <1>13 DEF RotateTruncate
<1>13a. CASE RotateHeader(w)
  BY <1>13a DEF RotateHeader
<1>14. CASE RotateFault(w)
  BY <1>14 DEF RotateFault
<1>15. CASE CommitWrite(w)
  BY <1>15 DEF CommitWrite
<1>16. CASE CommitWriteFault(w)
  BY <1>16 DEF CommitWriteFault
<1>17. CASE CommitSync(w)
  BY <1>17 DEF CommitSync
<1>18. CASE CommitSyncFault(w)
  BY <1>18 DEF CommitSyncFault
<1>19. CASE CommitPublish(w)
  BY <1>19 DEF CommitPublish
<1>20. CASE AwaitOutcome(w)
  BY <1>20 DEF AwaitOutcome
<1>21. CASE AwaitVacancy(w)
  BY <1>21 DEF AwaitVacancy
<1>22. CASE ClaimLeadership(w)
  BY <1>22 DEF ClaimLeadership
<1> QED
  BY <1>1, <1>2, <1>3, <1>4, <1>5, <1>6, <1>7, <1>8, <1>9, <1>10, <1>11,
     <1>12, <1>13, <1>13a, <1>14, <1>15, <1>16, <1>17, <1>18, <1>19, <1>20, <1>21,
     <1>22
     DEF WriterStep, FaultStep

-----------------------------------------------------------------------------
(* Nothing volatile outlives a crash.                                       *)

\* Only a running process takes a writer's step, and it goes on running.
LEMMA WriterUp ==
    ASSUME TypeOK, DownInv, NEW w \in Writers,
           BeginWrite(w) \/ WriterStep(w) \/ FaultStep(w)
    PROVE  proc = "up" /\ proc' = "up"
BY WriterFrame DEF OthersKept, DownInv

LEMMA DownStep ==
    ASSUME TypeOK, DownInv, Next
    PROVE  DownInv'
<1>1. ASSUME NEW w \in Writers, BeginWrite(w) \/ WriterStep(w) \/ FaultStep(w)
      PROVE  DownInv'
  BY <1>1, WriterUp DEF DownInv
<1>2. CASE ExportRequest \/ ExportAcquire \/ ExportRelease \/ Quiescent
  <2>1. UNCHANGED <<proc, pc, pending, next_ticket, completed, failed_from, parked>>
    BY <1>2 DEF ExportRequest, ExportAcquire, ExportRelease, Quiescent, vars,
                localVars, groupVars, signalVars, procVars, dataVars
  <2> QED
    BY <2>1 DEF DownInv
<1>3. CASE Crash
  BY <1>3 DEF Crash, DownInv
<1>4. CASE RestartRefused
  <2>1. /\ UNCHANGED <<pc, pending, next_ticket, completed, failed_from, parked>>
        /\ proc = "down"
    BY <1>4 DEF RestartRefused, localVars, groupVars, signalVars, dataVars
  <2> QED
    BY <2>1 DEF DownInv
<1>5. CASE RestartOpen
  BY <1>5 DEF RestartOpen, DownInv
<1> QED
  BY <1>1, <1>2, <1>3, <1>4, <1>5 DEF Next

-----------------------------------------------------------------------------
(* Tickets.                                                                *)

\* Outside these a writer holds a ticket.
Ticketless == {"idle", "entered", "enqueue", "return", "ret_flush"}

\* A step of w that issues, drains and publishes nothing.
KeepsTickets(w) ==
    /\ UNCHANGED <<ticket, batch, pending, next_ticket, completed>>
    /\ \E l \in Pcs : /\ pc' = [pc EXCEPT ![w] = l]
                      /\ l \in CommitPcs <=> pc[w] \in CommitPcs
                      /\ pc[w] \in Ticketless => l \in Ticketless

LEMMA TicketKept ==
    ASSUME TypeOK, TicketInv, NEW w \in Writers, KeepsTickets(w)
    PROVE  TicketInv'
<1> PICK l \in Pcs :
        /\ pc' = [pc EXCEPT ![w] = l]
        /\ l \in CommitPcs <=> pc[w] \in CommitPcs
        /\ pc[w] \in Ticketless => l \in Ticketless
  BY DEF KeepsTickets
<1>1. \A v \in Writers : pc'[v] \in CommitPcs <=> pc[v] \in CommitPcs
  BY DEF TypeOK
<1>2. \A v \in Writers : pc'[v] \notin Ticketless => pc[v] \notin Ticketless
  BY DEF TypeOK
<1> QED
  BY <1>1, <1>2 DEF KeepsTickets, TicketInv, Ticketless, Tickets

LEMMA TicketStep ==
    ASSUME TypeOK, TicketInv, LeaderInv, Next
    PROVE  TicketInv'
<1> USE DEF Goto, Return, EnterBarrier, Fail, groupVars, signalVars, barrierVars
<1>1. ASSUME NEW w \in Writers, BeginWrite(w) PROVE TicketInv'
  <2>1. KeepsTickets(w)
    BY <1>1 DEF KeepsTickets, BeginWrite, FlushPcs, CommitPcs, LeaderPcs,
                 Pcs, Ticketless
  <2> QED
    BY <2>1, TicketKept
<1>2. ASSUME NEW w \in Writers, AwaitBatchDurable(w) PROVE TicketInv'
  <2>1. KeepsTickets(w)
    BY <1>2 DEF KeepsTickets, AwaitBatchDurable, FlushPcs, CommitPcs, LeaderPcs,
                 Pcs, Ticketless
  <2> QED
    BY <2>1, TicketKept
<1>3. ASSUME NEW w \in Writers, LeadExit(w) PROVE TicketInv'
  <2>1. KeepsTickets(w)
    BY <1>3 DEF KeepsTickets, LeadExit, FlushPcs, CommitPcs, LeaderPcs,
                 Pcs, Ticketless
  <2> QED
    BY <2>1, TicketKept
<1>4. ASSUME NEW w \in Writers, LeadStepDown(w) PROVE TicketInv'
  <2>1. KeepsTickets(w)
    BY <1>4 DEF KeepsTickets, LeadStepDown, FlushPcs, CommitPcs, LeaderPcs,
                 Pcs, Ticketless
  <2> QED
    BY <2>1, TicketKept
<1>5. ASSUME NEW w \in Writers, AnnounceVacancy(w) PROVE TicketInv'
  <2>1. KeepsTickets(w)
    BY <1>5 DEF KeepsTickets, AnnounceVacancy, FlushPcs, CommitPcs, LeaderPcs,
                 Pcs, Ticketless
  <2> QED
    BY <2>1, TicketKept
<1>6. ASSUME NEW w \in Writers, FlushSwap(w) PROVE TicketInv'
  <2>1. KeepsTickets(w)
    BY <1>6, FlushRoute DEF KeepsTickets, FlushSwap, FlushPcs, CommitPcs, LeaderPcs,
                 Pcs, Ticketless
  <2> QED
    BY <2>1, TicketKept
<1>7. ASSUME NEW w \in Writers, FlushDone(w) PROVE TicketInv'
  <2>1. KeepsTickets(w)
    BY <1>7 DEF KeepsTickets, FlushDone, FlushThen, FlushPcs, CommitPcs, LeaderPcs,
                 Pcs, Ticketless
  <2> QED
    BY <2>1, TicketKept
<1>8. ASSUME NEW w \in Writers, FlushFault(w) PROVE TicketInv'
  <2>1. KeepsTickets(w)
    BY <1>8 DEF KeepsTickets, FlushFault, FlushPcs, CommitPcs, LeaderPcs,
                 Pcs, Ticketless
  <2> QED
    BY <2>1, TicketKept
<1>9. ASSUME NEW w \in Writers, ReturnUnflushed(w) PROVE TicketInv'
  <2>1. KeepsTickets(w)
    BY <1>9 DEF KeepsTickets, ReturnUnflushed, FlushPcs, CommitPcs, LeaderPcs,
                 Pcs, Ticketless
  <2> QED
    BY <2>1, TicketKept
<1>10. ASSUME NEW w \in Writers, RotateTruncate(w) PROVE TicketInv'
  <2>1. KeepsTickets(w)
    BY <1>10 DEF KeepsTickets, RotateTruncate, FlushPcs, CommitPcs, LeaderPcs,
                 Pcs, Ticketless
  <2> QED
    BY <2>1, TicketKept
<1>10a. ASSUME NEW w \in Writers, RotateHeader(w) PROVE TicketInv'
  <2>1. KeepsTickets(w)
    BY <1>10a DEF KeepsTickets, RotateHeader, FlushPcs, CommitPcs, LeaderPcs,
                 Pcs, Ticketless
  <2> QED
    BY <2>1, TicketKept
<1>11. ASSUME NEW w \in Writers, RotateFault(w) PROVE TicketInv'
  <2>1. KeepsTickets(w)
    BY <1>11 DEF KeepsTickets, RotateFault, FlushPcs, CommitPcs, LeaderPcs,
                 Pcs, Ticketless
  <2> QED
    BY <2>1, TicketKept
<1>12. ASSUME NEW w \in Writers, CommitWrite(w) PROVE TicketInv'
  <2>1. KeepsTickets(w)
    BY <1>12 DEF KeepsTickets, CommitWrite, FlushPcs, CommitPcs, LeaderPcs,
                 Pcs, Ticketless
  <2> QED
    BY <2>1, TicketKept
<1>13. ASSUME NEW w \in Writers, CommitWriteFault(w) PROVE TicketInv'
  <2>1. KeepsTickets(w)
    BY <1>13 DEF KeepsTickets, CommitWriteFault, FlushPcs, CommitPcs, LeaderPcs,
                 Pcs, Ticketless
  <2> QED
    BY <2>1, TicketKept
<1>14. ASSUME NEW w \in Writers, CommitSync(w) PROVE TicketInv'
  <2>1. KeepsTickets(w)
    BY <1>14 DEF KeepsTickets, CommitSync, FlushPcs, CommitPcs, LeaderPcs,
                 Pcs, Ticketless
  <2> QED
    BY <2>1, TicketKept
<1>15. ASSUME NEW w \in Writers, CommitSyncFault(w) PROVE TicketInv'
  <2>1. KeepsTickets(w)
    BY <1>15 DEF KeepsTickets, CommitSyncFault, FlushPcs, CommitPcs, LeaderPcs,
                 Pcs, Ticketless
  <2> QED
    BY <2>1, TicketKept
<1>16. ASSUME NEW w \in Writers, AwaitOutcome(w) PROVE TicketInv'
  <2>1. KeepsTickets(w)
    BY <1>16 DEF KeepsTickets, AwaitOutcome, FlushPcs, CommitPcs, LeaderPcs,
                 Pcs, Ticketless
  <2> QED
    BY <2>1, TicketKept
<1>17. ASSUME NEW w \in Writers, AwaitVacancy(w) PROVE TicketInv'
  <2>1. KeepsTickets(w)
    BY <1>17 DEF KeepsTickets, AwaitVacancy, FlushPcs, CommitPcs, LeaderPcs,
                 Pcs, Ticketless
  <2> QED
    BY <2>1, TicketKept
<1>18. ASSUME NEW w \in Writers, ClaimLeadership(w) PROVE TicketInv'
  <2>1. KeepsTickets(w)
    BY <1>18 DEF KeepsTickets, ClaimLeadership, FlushPcs, CommitPcs, LeaderPcs,
                 Pcs, Ticketless
  <2> QED
    BY <2>1, TicketKept
<1>19. ASSUME NEW w \in Writers, CheckFence(w) PROVE TicketInv'
  <2>1. KeepsTickets(w)
    BY <1>19 DEF KeepsTickets, CheckFence, FlushPcs, CommitPcs, LeaderPcs,
                 Pcs, Ticketless
  <2> QED
    BY <2>1, TicketKept
<1>20. ASSUME NEW w \in Writers, EnqueueSlot(w) PROVE TicketInv'
  <2>1. /\ ticket' = [ticket EXCEPT ![w] = next_ticket]
        /\ next_ticket' = next_ticket + 1 /\ pending' = Append(pending, next_ticket)
        /\ UNCHANGED <<batch, completed>> /\ pc[w] = "enqueue"
    BY <1>20 DEF EnqueueSlot, PushSlot
  <2>2. \E l \in {"handle", "wait", "lead"} : pc' = [pc EXCEPT ![w] = l]
    BY <1>20 DEF EnqueueSlot
  <2>3. \A v \in Writers : pc'[v] \in CommitPcs <=> pc[v] \in CommitPcs
    BY <2>1, <2>2 DEF TypeOK, CommitPcs, LeaderPcs
  <2>4. \A v \in Writers : pc'[v] \notin Ticketless => ticket'[v] > 0
    BY <2>1, <2>2 DEF TypeOK, TicketInv, Ticketless
  <2>5. /\ Len(pending') = Len(pending) + 1
        /\ \A i \in 1..Len(pending) : pending'[i] = pending[i]
        /\ pending'[Len(pending) + 1] = next_ticket
    BY <2>1 DEF TypeOK
  <2>6. \A t \in Nat : Tickets(pending, t) /\ next_ticket = t + Len(pending) + 1
                       => Tickets(pending', t)
    <3> SUFFICES ASSUME NEW t \in Nat, Tickets(pending, t),
                        next_ticket = t + Len(pending) + 1,
                        NEW i \in 1..Len(pending')
                 PROVE  pending'[i] = t + i
      BY DEF Tickets
    <3>1. Len(pending) \in Nat
      BY DEF TypeOK
    <3>2. CASE i \in 1..Len(pending)
      BY <2>5, <3>2 DEF Tickets
    <3>3. CASE i = Len(pending) + 1
      BY <2>5, <3>1, <3>3
    <3> QED
      BY <2>5, <3>1, <3>2, <3>3
  <2>7. ASSUME NEW v \in Writers, pc'[v] \in CommitPcs
        PROVE  /\ Len(batch'[v]) > 0
               /\ Tickets(batch'[v], completed')
               /\ Tickets(pending', completed' + Len(batch'[v]))
               /\ next_ticket' = completed' + Len(batch'[v]) + Len(pending') + 1
    <3>1. /\ Len(batch[v]) > 0 /\ Tickets(batch[v], completed)
          /\ Tickets(pending, completed + Len(batch[v]))
          /\ next_ticket = completed + Len(batch[v]) + Len(pending) + 1
      BY <2>3, <2>7 DEF TicketInv
    <3>2. completed + Len(batch[v]) \in Nat
      BY DEF TypeOK
    <3>3. Tickets(pending', completed + Len(batch[v]))
      BY <2>6, <3>1, <3>2
    <3> QED
      BY <2>1, <2>5, <3>1, <3>3 DEF TypeOK
  <2>8. ASSUME \A v \in Writers : pc'[v] \notin CommitPcs
        PROVE  Tickets(pending', completed') /\ next_ticket' = completed' + Len(pending') + 1
    <3>1. Tickets(pending, completed) /\ next_ticket = completed + Len(pending) + 1
      BY <2>3, <2>8 DEF TicketInv
    <3> QED
      BY <2>1, <2>5, <2>6, <3>1 DEF TypeOK
  <2> QED
    BY <2>4, <2>7, <2>8 DEF TicketInv, Ticketless
<1>21. ASSUME NEW w \in Writers, LeadDrain(w) PROVE TicketInv'
  <2>1. /\ batch' = [batch EXCEPT ![w] = pending] /\ pending' = <<>>
        /\ UNCHANGED <<ticket, next_ticket, completed>>
        /\ pc[w] = "lead" /\ pending # <<>>
    BY <1>21 DEF LeadDrain
  <2>2. \E l \in CommitPcs : pc' = [pc EXCEPT ![w] = l]
    <3>1. CommitEntry(w) \in CommitPcs
      BY DEF CommitEntry, CommitPcs, LeaderPcs
    <3> QED
      BY <1>21, <3>1 DEF LeadDrain
  <2>3. \A v \in Writers : v # w => pc[v] \notin CommitPcs
    BY <2>1 DEF LeaderInv, IsLeader, CommitPcs, LeaderPcs
  <2>4. Tickets(pending, completed) /\ next_ticket = completed + Len(pending) + 1
    <3>1. pc[w] \notin CommitPcs
      BY <2>1 DEF CommitPcs
    <3> QED
      BY <2>3, <3>1 DEF TicketInv
  <2>5. \A v \in Writers : pc'[v] \in CommitPcs => v = w
    BY <2>2, <2>3 DEF TypeOK
  <2>6. /\ batch'[w] = pending /\ Len(pending) > 0 /\ Len(pending') = 0
        /\ pc'[w] \in CommitPcs
    BY <2>1, <2>2 DEF TypeOK
  <2>7. \A t : Tickets(pending', t)
    BY <2>6 DEF Tickets
  <2>8. \A v \in Writers : pc'[v] \notin Ticketless => ticket'[v] > 0
    BY <2>1, <2>2 DEF TypeOK, TicketInv, Ticketless
  <2>9. ASSUME NEW v \in Writers, pc'[v] \in CommitPcs
        PROVE  /\ Len(batch'[v]) > 0
               /\ Tickets(batch'[v], completed')
               /\ Tickets(pending', completed' + Len(batch'[v]))
               /\ next_ticket' = completed' + Len(batch'[v]) + Len(pending') + 1
    BY <2>1, <2>4, <2>5, <2>6, <2>7, <2>9 DEF TypeOK
  <2> QED
    BY <2>6, <2>8, <2>9 DEF TicketInv, Ticketless
<1>22. ASSUME NEW w \in Writers, CommitPublish(w) PROVE TicketInv'
  <2> DEFINE last == batch[w][Len(batch[w])]
  <2>1. /\ pc[w] = "publish" /\ pc' = [pc EXCEPT ![w] = "lead"]
        /\ completed' = Larger(completed, last)
        /\ UNCHANGED <<ticket, pending, next_ticket>>
    BY <1>22 DEF CommitPublish
  <2>2. /\ Len(batch[w]) > 0 /\ Tickets(batch[w], completed)
        /\ Tickets(pending, completed + Len(batch[w]))
        /\ next_ticket = completed + Len(batch[w]) + Len(pending) + 1
    BY <2>1 DEF TicketInv, CommitPcs, LeaderPcs
  <2>3. Len(batch[w]) \in Nat /\ completed \in Nat /\ Len(pending) \in Nat
    BY DEF TypeOK
  <2>4. last = completed + Len(batch[w])
    BY <2>2, <2>3 DEF Tickets
  <2> HIDE DEF last
  <2>5. completed' = completed + Len(batch[w])
    BY <2>1, <2>3, <2>4 DEF Larger
  <2>6. \A v \in Writers : pc'[v] \notin CommitPcs
    <3> SUFFICES ASSUME NEW v \in Writers PROVE pc'[v] \notin CommitPcs
      OBVIOUS
    <3>1. CASE v = w
      BY <2>1, <3>1 DEF TypeOK, CommitPcs
    <3>2. CASE v # w
      BY <2>1, <3>2 DEF TypeOK, LeaderInv, IsLeader, CommitPcs, LeaderPcs
    <3> QED
      BY <3>1, <3>2
  <2>7. \A v \in Writers : pc'[v] \notin Ticketless => ticket'[v] > 0
    BY <2>1 DEF TypeOK, TicketInv, Ticketless
  <2>8. Tickets(pending', completed') /\ next_ticket' = completed' + Len(pending') + 1
    BY <2>1, <2>2, <2>3, <2>5
  <2> QED
    BY <2>6, <2>7, <2>8 DEF TicketInv, Ticketless
<1>23. CASE Crash
  <2>1. /\ \A v \in Writers : pc'[v] = "idle"
        /\ pending' = <<>> /\ completed' = 0 /\ next_ticket' = 1
    BY <1>23 DEF Crash
  <2> QED
    BY <2>1 DEF TicketInv, Tickets, CommitPcs, LeaderPcs
<1>24. CASE \/ ExportRequest \/ ExportAcquire \/ ExportRelease
         \/ RestartRefused \/ RestartOpen \/ Quiescent
  <2>1. UNCHANGED <<pc, ticket, batch, pending, next_ticket, completed>>
    BY <1>24 DEF ExportRequest, ExportAcquire, ExportRelease, RestartRefused,
                 RestartOpen, Quiescent, vars, localVars
  <2> QED
    BY <2>1 DEF TicketInv, Tickets
<1> QED
  BY <1>1, <1>2, <1>3, <1>4, <1>5, <1>6, <1>7, <1>8, <1>9, <1>10, <1>10a, <1>11,
     <1>12, <1>13, <1>14, <1>15, <1>16, <1>17, <1>18, <1>19, <1>20, <1>21,
     <1>22, <1>23, <1>24
     DEF Next, WriterStep, FaultStep

-----------------------------------------------------------------------------
(* Failures, records and the batch in flight.                              *)

\* The steps that touch neither the layers nor the segment.
Bookkeeping(w) ==
    \/ BeginWrite(w) \/ CheckFence(w) \/ AwaitBatchDurable(w) \/ LeadExit(w)
    \/ LeadStepDown(w) \/ AnnounceVacancy(w) \/ LeadDrain(w)
    \/ ReturnUnflushed(w) \/ CommitPublish(w) \/ AwaitOutcome(w)
    \/ AwaitVacancy(w) \/ ClaimLeadership(w)

\* Where such a step leaves its writer.
Bookkept(w) ==
    /\ UNCHANGED <<mem, parked, sst, seg, synced, header, record_counter>>
    /\ pc[w] \notin FlushPcs \union {"header"}
    /\ pc'[w] \notin FlushPcs \union {"truncate", "header", "sync", "publish"}
    /\ ~ failed'[w]
    /\ CommitPublish(w) \/ (UNCHANGED <<completed, failed_from>> /\ ~ failed[w])

LEMMA BookkeepingFrame ==
    ASSUME TypeOK, FailInv, NEW w \in Writers, Bookkeeping(w)
    PROVE  Bookkept(w)
<1> USE DEF Goto, Return, EnterBarrier, fileVars, dataVars, signalVars
<1>1. CASE BeginWrite(w)
  BY <1>1 DEF BeginWrite, Bookkept, FailInv, FlushPcs, TypeOK
<1>2. CASE CheckFence(w)
  BY <1>2 DEF CheckFence, Bookkept, FailInv, FlushPcs, TypeOK
<1>3. CASE AwaitBatchDurable(w)
  BY <1>3 DEF AwaitBatchDurable, Bookkept, FailInv, FlushPcs, TypeOK
<1>4. CASE LeadExit(w)
  BY <1>4 DEF LeadExit, Bookkept, FailInv, FlushPcs, TypeOK
<1>5. CASE LeadStepDown(w)
  BY <1>5 DEF LeadStepDown, Bookkept, FailInv, FlushPcs, TypeOK
<1>6. CASE AnnounceVacancy(w)
  BY <1>6 DEF AnnounceVacancy, Bookkept, FailInv, FlushPcs, TypeOK
<1>7. CASE LeadDrain(w)
  <2>1. /\ UNCHANGED <<mem, parked, sst, seg, synced, header, record_counter,
                       completed, failed_from>>
        /\ pc[w] = "lead" /\ pc' = [pc EXCEPT ![w] = CommitEntry(w)]
        /\ failed' = [failed EXCEPT ![w] = poisoned] /\ ~ poisoned /\ ~ failed[w]
    BY <1>7 DEF LeadDrain, FailInv
  <2>2. CommitEntry(w) \in {"write", "pre_rotate", "rotate"}
    BY <2>1 DEF CommitEntry
  <2>3. pc'[w] = CommitEntry(w) /\ ~ failed'[w]
    BY <2>1 DEF TypeOK
  <2> QED
    BY <2>1, <2>2, <2>3 DEF Bookkept, FlushPcs
<1>8. CASE ReturnUnflushed(w)
  BY <1>8 DEF ReturnUnflushed, Bookkept, FailInv, FlushPcs, TypeOK
<1>9. CASE CommitPublish(w)
  BY <1>9 DEF CommitPublish, Bookkept, FailInv, FlushPcs, TypeOK
<1>10. CASE AwaitOutcome(w)
  BY <1>10 DEF AwaitOutcome, Bookkept, FailInv, FlushPcs, TypeOK
<1>11. CASE AwaitVacancy(w)
  BY <1>11 DEF AwaitVacancy, Bookkept, FailInv, FlushPcs, TypeOK
<1>12. CASE ClaimLeadership(w)
  BY <1>12 DEF ClaimLeadership, Bookkept, FailInv, FlushPcs, TypeOK
<1> QED
  BY <1>1, <1>2, <1>3, <1>4, <1>5, <1>6, <1>7, <1>8, <1>9, <1>10, <1>11,
     <1>12
     DEF Bookkeeping

\* The steps of Next, with the bookkeeping ones as one group.
LEMMA NextCases ==
    ASSUME Next
    PROVE  \/ \E w \in Writers : \/ Bookkeeping(w) \/ EnqueueSlot(w) \/ FlushSwap(w)
                               \/ FlushDone(w) \/ FlushFault(w)
                               \/ RotateTruncate(w) \/ RotateHeader(w)
                               \/ RotateFault(w) \/ CommitWrite(w)
                               \/ CommitWriteFault(w)
                               \/ CommitSync(w) \/ CommitSyncFault(w)
           \/ ExportRequest \/ ExportAcquire \/ ExportRelease
           \/ RestartRefused \/ Quiescent
           \/ Crash \/ RestartOpen
BY DEF Next, WriterStep, FaultStep, Bookkeeping

\* The steps of the other actors change nothing a writer sees.
LEMMA OthersFrame ==
    ASSUME \/ ExportRequest \/ ExportAcquire \/ ExportRelease
           \/ RestartRefused \/ Quiescent
    PROVE  /\ UNCHANGED <<localVars, groupVars, signalVars, fileVars, dataVars,
                          base, acked>>
           /\ proc' = proc \/ proc' = "refused"
BY DEF ExportRequest, ExportAcquire, ExportRelease, RestartRefused, Quiescent,
       vars, localVars, groupVars, signalVars, fileVars, dataVars, procVars,
       histVars

\* w's step leaves it out of failure, or at the publish of one.
LEMMA FailKept ==
    ASSUME TypeOK, FailInv, NEW w \in Writers, OthersKept(w),
           failed'[w] => pc'[w] = "publish", failed_from' <= completed'
    PROVE  FailInv'
BY DEF TypeOK, FailInv, OthersKept

LEMMA FailStep ==
    ASSUME TypeOK, FailInv, TicketInv, Next
    PROVE  FailInv'
<1> USE DEF Goto, Return, Fail, signalVars
<1>1. ASSUME NEW w \in Writers, Bookkeeping(w) PROVE FailInv'
  <2>1. OthersKept(w) /\ Bookkept(w)
    BY <1>1, WriterFrame, BookkeepingFrame DEF Bookkeeping, WriterStep
  <2>2. failed_from' <= completed'
    <3>1. CASE CommitPublish(w)
      <4>1. /\ pc[w] = "publish" /\ failed_from' = FailedFrom(w)
            /\ completed' = Larger(completed, batch[w][Len(batch[w])])
        BY <3>1 DEF CommitPublish
      <4>2. Len(batch[w]) > 0 /\ Tickets(batch[w], completed)
        BY <4>1 DEF TicketInv, CommitPcs, LeaderPcs
      <4>3. Len(batch[w]) \in Nat /\ completed \in Nat /\ failed_from \in Nat
        BY DEF TypeOK
      <4>4. batch[w][1] = completed + 1 /\ batch[w][Len(batch[w])] = completed + Len(batch[w])
        BY <4>2, <4>3 DEF Tickets
      <4>5. failed_from <= completed
        BY DEF FailInv
      <4> QED
        BY <4>1, <4>2, <4>3, <4>4, <4>5 DEF FailedFrom, Larger
    <3>2. CASE ~ CommitPublish(w)
      BY <2>1, <3>2 DEF Bookkept, FailInv
    <3> QED
      BY <3>1, <3>2
  <2> QED
    BY <2>1, <2>2, FailKept DEF Bookkept
<1>2. ASSUME NEW w \in Writers, EnqueueSlot(w) PROVE FailInv'
  <2>1. OthersKept(w)
    BY <1>2, WriterFrame DEF WriterStep, FaultStep
  <2>2. UNCHANGED <<failed_from, completed>>
    BY <1>2 DEF EnqueueSlot
  <2>3. failed'[w] => pc'[w] = "publish"
    BY <1>2 DEF EnqueueSlot, FailInv, TypeOK, FlushPcs
  <2> QED
    BY <2>1, <2>2, <2>3, FailKept DEF FailInv
<1>3. ASSUME NEW w \in Writers, FlushSwap(w) PROVE FailInv'
  <2>1. OthersKept(w)
    BY <1>3, WriterFrame DEF WriterStep, FaultStep
  <2>2. UNCHANGED <<failed_from, completed>>
    BY <1>3 DEF FlushSwap
  <2>3. failed'[w] => pc'[w] = "publish"
    BY <1>3 DEF FlushSwap, FailInv, TypeOK, FlushPcs
  <2> QED
    BY <2>1, <2>2, <2>3, FailKept DEF FailInv
<1>4. ASSUME NEW w \in Writers, FlushDone(w) PROVE FailInv'
  <2>1. OthersKept(w)
    BY <1>4, WriterFrame DEF WriterStep, FaultStep
  <2>2. UNCHANGED <<failed_from, completed>>
    BY <1>4 DEF FlushDone
  <2>3. failed'[w] => pc'[w] = "publish"
    BY <1>4 DEF FlushDone, FailInv, TypeOK, FlushPcs
  <2> QED
    BY <2>1, <2>2, <2>3, FailKept DEF FailInv
<1>5. ASSUME NEW w \in Writers, FlushFault(w) PROVE FailInv'
  <2>1. OthersKept(w)
    BY <1>5, WriterFrame DEF WriterStep, FaultStep
  <2>2. UNCHANGED <<failed_from, completed>>
    BY <1>5 DEF FlushFault
  <2>3. failed'[w] => pc'[w] = "publish"
    BY <1>5 DEF FlushFault, FailInv, TypeOK, FlushPcs
  <2> QED
    BY <2>1, <2>2, <2>3, FailKept DEF FailInv
<1>6. ASSUME NEW w \in Writers, RotateTruncate(w) PROVE FailInv'
  <2>1. OthersKept(w)
    BY <1>6, WriterFrame DEF WriterStep, FaultStep
  <2>2. UNCHANGED <<failed_from, completed>>
    BY <1>6 DEF RotateTruncate
  <2>3. failed'[w] => pc'[w] = "publish"
    BY <1>6 DEF RotateTruncate, FailInv, TypeOK, FlushPcs
  <2> QED
    BY <2>1, <2>2, <2>3, FailKept DEF FailInv
<1>6a. ASSUME NEW w \in Writers, RotateHeader(w) PROVE FailInv'
  <2>1. OthersKept(w)
    BY <1>6a, WriterFrame DEF WriterStep, FaultStep
  <2>2. UNCHANGED <<failed_from, completed>>
    BY <1>6a DEF RotateHeader
  <2>3. failed'[w] => pc'[w] = "publish"
    BY <1>6a DEF RotateHeader, FailInv, TypeOK, FlushPcs
  <2> QED
    BY <2>1, <2>2, <2>3, FailKept DEF FailInv
<1>7. ASSUME NEW w \in Writers, RotateFault(w) PROVE FailInv'
  <2>1. OthersKept(w)
    BY <1>7, WriterFrame DEF WriterStep, FaultStep
  <2>2. UNCHANGED <<failed_from, completed>>
    BY <1>7 DEF RotateFault
  <2>3. failed'[w] => pc'[w] = "publish"
    BY <1>7 DEF RotateFault, FailInv, TypeOK, FlushPcs
  <2> QED
    BY <2>1, <2>2, <2>3, FailKept DEF FailInv
<1>8. ASSUME NEW w \in Writers, CommitWrite(w) PROVE FailInv'
  <2>1. OthersKept(w)
    BY <1>8, WriterFrame DEF WriterStep, FaultStep
  <2>2. UNCHANGED <<failed_from, completed>>
    BY <1>8 DEF CommitWrite
  <2>3. failed'[w] => pc'[w] = "publish"
    BY <1>8 DEF CommitWrite, FailInv, TypeOK, FlushPcs
  <2> QED
    BY <2>1, <2>2, <2>3, FailKept DEF FailInv
<1>9. ASSUME NEW w \in Writers, CommitWriteFault(w) PROVE FailInv'
  <2>1. OthersKept(w)
    BY <1>9, WriterFrame DEF WriterStep, FaultStep
  <2>2. UNCHANGED <<failed_from, completed>>
    BY <1>9 DEF CommitWriteFault
  <2>3. failed'[w] => pc'[w] = "publish"
    BY <1>9 DEF CommitWriteFault, FailInv, TypeOK, FlushPcs
  <2> QED
    BY <2>1, <2>2, <2>3, FailKept DEF FailInv
<1>10. ASSUME NEW w \in Writers, CommitSync(w) PROVE FailInv'
  <2>1. OthersKept(w)
    BY <1>10, WriterFrame DEF WriterStep, FaultStep
  <2>2. UNCHANGED <<failed_from, completed>>
    BY <1>10 DEF CommitSync
  <2>3. failed'[w] => pc'[w] = "publish"
    BY <1>10 DEF CommitSync, FailInv, TypeOK, FlushPcs
  <2> QED
    BY <2>1, <2>2, <2>3, FailKept DEF FailInv
<1>11. ASSUME NEW w \in Writers, CommitSyncFault(w) PROVE FailInv'
  <2>1. OthersKept(w)
    BY <1>11, WriterFrame DEF WriterStep, FaultStep
  <2>2. UNCHANGED <<failed_from, completed>>
    BY <1>11 DEF CommitSyncFault
  <2>3. failed'[w] => pc'[w] = "publish"
    BY <1>11 DEF CommitSyncFault, FailInv, TypeOK, FlushPcs
  <2> QED
    BY <2>1, <2>2, <2>3, FailKept DEF FailInv
<1>12. CASE Crash
  <2>1. /\ failed_from' = 0 /\ completed' = 0 /\ poisoned' = FALSE
        /\ \A v \in Writers : ~ failed'[v]
    BY <1>12 DEF Crash
  <2> QED
    BY <2>1 DEF FailInv
<1>13. CASE RestartOpen
  BY <1>13 DEF RestartOpen, FailInv, localVars, signalVars
<1>14. CASE \/ ExportRequest \/ ExportAcquire \/ ExportRelease
         \/ RestartRefused \/ Quiescent
  BY <1>14, OthersFrame DEF FailInv, localVars, signalVars, fileVars
<1> QED
  BY <1>1, <1>2, <1>3, <1>4, <1>5, <1>6, <1>6a, <1>7, <1>8, <1>9, <1>10, <1>11,
     <1>12, <1>13, <1>14, NextCases

-----------------------------------------------------------------------------
(* Records stay aligned until a commit fails.                             *)

\* The segment after commit_batch appended n records to it.
LEMMA AppendedRecords ==
    ASSUME TypeOK, NEW ts \in Seq(Nat), NEW n \in 0..Len(ts),
           seg' = seg \o Records(record_counter, ts, n)
    PROVE  /\ seg' \in Seq(Record) /\ Len(seg') = Len(seg) + n
           /\ \A i \in 1..Len(seg) : seg'[i] = seg[i]
           /\ \A i \in 1..n : seg'[Len(seg) + i] =
                 [num |-> record_counter + i - 1, id |-> base + ts[i],
                  whole |-> TRUE]
<1> DEFINE rs == Records(record_counter, ts, n)
<1>1. base \in Nat /\ record_counter \in Nat /\ seg \in Seq(Record)
  BY DEF TypeOK
<1>2. rs \in Seq(Record) /\ Len(rs) = n
  BY <1>1, RecordsType
<1>3. \A i \in 1..n : rs[i] = [num |-> record_counter + i - 1, id |-> base + ts[i],
                              whole |-> TRUE]
  BY <1>1, RecordsType
<1> HIDE DEF rs
<1>4. seg' = seg \o rs
  BY DEF rs
<1>5. /\ seg' \in Seq(Record) /\ Len(seg') = Len(seg) + n
      /\ \A i \in 1..Len(seg) + n :
            seg'[i] = IF i <= Len(seg) THEN seg[i] ELSE rs[i - Len(seg)]
  <2>1. /\ seg \o rs \in Seq(Record) /\ Len(seg \o rs) = Len(seg) + Len(rs)
        /\ \A i \in 1..Len(seg) + Len(rs) : (seg \o rs)[i] =
              IF i <= Len(seg) THEN seg[i] ELSE rs[i - Len(seg)]
    BY <1>1, <1>2, ConcatProperties
  <2> QED
    BY <1>2, <1>4, <2>1
<1>6. Len(seg) \in Nat /\ n \in Nat
  BY <1>1
<1>7. \A i \in 1..Len(seg) : seg'[i] = seg[i]
  BY <1>5, <1>6
<1>8. ASSUME NEW i \in 1..n PROVE seg'[Len(seg) + i] = rs[i]
  <2>1. Len(seg) + i \in 1..Len(seg) + n /\ (Len(seg) + i) - Len(seg) = i
    BY <1>6
  <2> QED
    BY <1>5, <1>6, <2>1
<1> QED
  BY <1>3, <1>5, <1>7, <1>8

LEMMA CleanStep ==
    ASSUME TypeOK, DownInv, LeaderInv, FailInv, TicketInv, CleanInv, Next
    PROVE  CleanInv'
<1> USE DEF Goto, Return, Fail, signalVars, fileVars
<1>1. ASSUME NEW w \in Writers, OthersKept(w), ~ failed[w], failed_from' = failed_from,
             UNCHANGED <<seg, header, record_counter>>,
             pc[w] # "header", pc'[w] # "header"
      PROVE  CleanInv'
  <2>1. Rotating' <=> Rotating
    BY <1>1 DEF OthersKept, Rotating, TypeOK
  <2> QED
    BY <1>1, <2>1 DEF OthersKept, CleanInv, Clean
<1>2. ASSUME NEW w \in Writers, OthersKept(w), failed'[w], seg' = seg,
             pc'[w] # "header"
      PROVE  CleanInv'
  <2>1. Rotating' => Rotating
    BY <1>2 DEF OthersKept, Rotating, TypeOK
  <2> QED
    BY <1>2, <2>1 DEF CleanInv, Clean
<1>3. ASSUME NEW w \in Writers, Bookkeeping(w) PROVE CleanInv'
  <2>1. OthersKept(w) /\ Bookkept(w)
    BY <1>3, WriterFrame, BookkeepingFrame DEF Bookkeeping, WriterStep
  <2>2. CASE CommitPublish(w)
    <3>1. pc[w] = "publish" /\ failed_from' = FailedFrom(w)
      BY <2>2 DEF CommitPublish
    <3>2. batch[w][1] # 0
      <4>1. Len(batch[w]) > 0 /\ Tickets(batch[w], completed)
        BY <3>1 DEF TicketInv, CommitPcs, LeaderPcs
      <4>2. Len(batch[w]) \in Nat /\ completed \in Nat
        BY DEF TypeOK
      <4> QED
        BY <4>1, <4>2 DEF Tickets
    <3>3. failed_from' = 0 => failed_from = 0 /\ ~ failed[w]
      BY <3>1, <3>2 DEF FailedFrom
    <3>4. Clean' => Clean
      BY <2>1, <3>3 DEF OthersKept, Clean
    <3>5. Rotating' <=> Rotating
      BY <2>1 DEF OthersKept, Bookkept, Rotating, TypeOK
    <3> QED
      BY <2>1, <3>4, <3>5 DEF OthersKept, Bookkept, CleanInv
  <2>3. CASE ~ CommitPublish(w)
    BY <1>1, <2>1, <2>3 DEF Bookkept
  <2> QED
    BY <2>2, <2>3
<1>4. ASSUME NEW w \in Writers, EnqueueSlot(w) PROVE CleanInv'
  <2>1. OthersKept(w)
    BY <1>4, WriterFrame DEF WriterStep
  <2>2. ~ failed[w] /\ UNCHANGED <<failed_from, seg, header, record_counter>>
    BY <1>4 DEF EnqueueSlot, FailInv, FlushPcs
  <2>3. pc[w] # "header" /\ pc'[w] # "header"
    BY <1>4 DEF EnqueueSlot, FlushPcs, TypeOK
  <2> QED
    BY <1>1, <2>1, <2>2, <2>3
<1>5. ASSUME NEW w \in Writers, FlushSwap(w) PROVE CleanInv'
  <2>1. OthersKept(w)
    BY <1>5, WriterFrame DEF WriterStep
  <2>2. ~ failed[w] /\ UNCHANGED <<failed_from, seg, header, record_counter>>
    BY <1>5 DEF FlushSwap, FailInv, FlushPcs
  <2>3. pc[w] # "header" /\ pc'[w] # "header"
    BY <1>5 DEF FlushSwap, FlushPcs, TypeOK, FlushStart
  <2> QED
    BY <1>1, <2>1, <2>2, <2>3
<1>6. ASSUME NEW w \in Writers, FlushDone(w) PROVE CleanInv'
  <2>1. OthersKept(w)
    BY <1>6, WriterFrame DEF WriterStep
  <2>2. ~ failed[w] /\ UNCHANGED <<failed_from, seg, header, record_counter>>
    BY <1>6 DEF FlushDone, FailInv, FlushPcs
  <2>3. pc[w] # "header" /\ pc'[w] # "header"
    BY <1>6 DEF FlushDone, FlushPcs, TypeOK, FlushThen
  <2> QED
    BY <1>1, <2>1, <2>2, <2>3
<1>7. ASSUME NEW w \in Writers, FlushFault(w) PROVE CleanInv'
  <2>1. OthersKept(w)
    BY <1>7, WriterFrame DEF FaultStep
  <2>2. ~ failed[w] /\ UNCHANGED <<failed_from, seg, header, record_counter>>
    BY <1>7 DEF FlushFault, FailInv, FlushPcs
  <2>3. pc[w] # "header" /\ pc'[w] # "header"
    BY <1>7 DEF FlushFault, FlushPcs, TypeOK
  <2> QED
    BY <1>1, <2>1, <2>2, <2>3
<1>8. ASSUME NEW w \in Writers, RotateFault(w) PROVE CleanInv'
  <2>1. OthersKept(w)
    BY <1>8, WriterFrame DEF FaultStep
  <2>2. failed'[w] /\ pc'[w] # "header" /\ seg' = seg
    BY <1>8 DEF RotateFault, TypeOK
  <2> QED
    BY <1>2, <2>1, <2>2
<1>9. ASSUME NEW w \in Writers, CommitWriteFault(w) PROVE CleanInv'
  <2>1. OthersKept(w)
    BY <1>9, WriterFrame DEF FaultStep
  <2>2. failed'[w] /\ pc[w] = "write" /\ pc'[w] # "header"
    BY <1>9 DEF CommitWriteFault, TypeOK
  <2>3. ~ Rotating'
    BY <2>1, <2>2 DEF OthersKept, Rotating, LeaderInv, IsLeader, LeaderPcs, TypeOK
  <2> QED
    BY <2>2, <2>3 DEF CleanInv, Clean
<1>10. ASSUME NEW w \in Writers, CommitSyncFault(w) PROVE CleanInv'
  <2>1. OthersKept(w)
    BY <1>10, WriterFrame DEF FaultStep
  <2>2. failed'[w] /\ pc'[w] # "header" /\ seg' = seg
    BY <1>10 DEF CommitSyncFault, TypeOK
  <2> QED
    BY <1>2, <2>1, <2>2
<1>11. ASSUME NEW w \in Writers, RotateTruncate(w) PROVE CleanInv'
  <2>1. seg' = <<>> /\ pc'[w] = "header"
    BY <1>11 DEF RotateTruncate, TypeOK
  <2> QED
    BY <2>1 DEF CleanInv, Rotating
<1>11a. ASSUME NEW w \in Writers, RotateHeader(w) PROVE CleanInv'
  <2>1. /\ pc[w] = "header" /\ seg' = seg /\ header' = "ok"
        /\ record_counter' = 0
    BY <1>11a DEF RotateHeader
  <2>2. seg' = <<>>
    BY <2>1 DEF CleanInv, Rotating
  <2> QED
    BY <2>1, <2>2 DEF CleanInv, GoodPrefix
<1>12. ASSUME NEW w \in Writers, CommitWrite(w) PROVE CleanInv'
  <2>0. ~ Rotating /\ ~ Rotating'
    <3>1. OthersKept(w) /\ pc[w] = "write" /\ pc'[w] = "sync"
      BY <1>12, WriterFrame DEF WriterStep, CommitWrite, TypeOK
    <3> QED
      BY <3>1 DEF OthersKept, Rotating, LeaderInv, IsLeader, LeaderPcs, TypeOK
  <2> SUFFICES ASSUME proc' = "up", Clean'
               PROVE  /\ header' = "ok" /\ record_counter' = Len(seg')
                      /\ GoodPrefix(seg', Len(seg'))
    BY <2>0 DEF CleanInv
  <2>1. /\ seg' = seg \o Records(record_counter, batch[w], Len(batch[w]))
        /\ record_counter' = record_counter + Len(batch[w])
        /\ UNCHANGED <<header, failed, failed_from>>
    BY <1>12 DEF CommitWrite
  <2>2. header = "ok" /\ record_counter = Len(seg) /\ GoodPrefix(seg, Len(seg))
    <3>1. proc' = proc
      BY <1>12, WriterFrame DEF WriterStep, OthersKept
    <3> QED
      BY <2>0, <2>1, <3>1 DEF CleanInv, Clean
  <2> DEFINE n == Len(batch[w])
  <2>3. n \in Nat /\ Len(seg) \in Nat /\ batch[w] \in Seq(Nat)
    BY DEF TypeOK
  <2>4. /\ Len(seg') = Len(seg) + n
        /\ \A i \in 1..Len(seg) : seg'[i] = seg[i]
        /\ \A i \in 1..n : seg'[Len(seg) + i] =
              [num |-> Len(seg) + i - 1, id |-> base + batch[w][i], whole |-> TRUE]
    <3>1. Len(batch[w]) \in 0..Len(batch[w])
      BY <2>3
    <3>2. /\ Len(seg') = Len(seg) + Len(batch[w])
          /\ \A i \in 1..Len(seg) : seg'[i] = seg[i]
          /\ \A i \in 1..Len(batch[w]) : seg'[Len(seg) + i] =
                [num |-> record_counter + i - 1, id |-> base + batch[w][i],
                 whole |-> TRUE]
      BY <2>1, <2>3, <3>1, AppendedRecords
    <3> QED
      BY <2>2, <3>2
  <2> HIDE DEF n
  <2>5. ASSUME NEW i \in 1..Len(seg') PROVE Good(seg', i)
    <3>1. CASE i <= Len(seg)
      BY <2>2, <2>3, <2>4, <3>1 DEF GoodPrefix, Good
    <3>2. CASE i > Len(seg)
      <4>1. PICK k \in 1..n : i = Len(seg) + k
        <5>1. i - Len(seg) \in 1..n /\ i = Len(seg) + (i - Len(seg))
          BY <2>3, <2>4, <3>2
        <5> QED
          BY <5>1
      <4>2. seg'[i] = [num |-> Len(seg) + k - 1, id |-> base + batch[w][k],
                       whole |-> TRUE]
        BY <2>4, <4>1
      <4> QED
        BY <2>3, <4>1, <4>2 DEF Good
    <3> QED
      BY <2>3, <2>4, <3>1, <3>2
  <2> QED
    BY <2>1, <2>2, <2>4, <2>5 DEF GoodPrefix, n
<1>13. ASSUME NEW w \in Writers, CommitSync(w) PROVE CleanInv'
  <2>1. UNCHANGED <<seg, header, record_counter, failed, failed_from>>
    BY <1>13 DEF CommitSync
  <2>2. OthersKept(w)
    BY <1>13, WriterFrame DEF WriterStep
  <2>3. pc[w] # "header" /\ pc'[w] # "header" /\ ~ failed[w]
    BY <1>13 DEF CommitSync, FailInv, TypeOK
  <2> QED
    BY <1>1, <2>1, <2>2, <2>3
<1>14. CASE Crash
  BY <1>14 DEF Crash, CleanInv, Rotating
<1>15. CASE RestartOpen
  <2> PICK n \in 0..Len(seg) :
           /\ GoodPrefix(seg, n) /\ seg' = SubSeq(seg, 1, n)
           /\ record_counter' = n
    BY <1>15 DEF RestartOpen
  <2>1. header' = "ok"
    BY <1>15 DEF RestartOpen
  <2>2. Len(seg') = n /\ \A i \in 1..n : seg'[i] = seg[i]
    BY DEF TypeOK
  <2>3. GoodPrefix(seg', n)
    BY <2>2 DEF GoodPrefix, Good
  <2>4. ~ Rotating'
    BY <1>15 DEF RestartOpen, DownInv, Rotating, localVars
  <2> QED
    BY <2>1, <2>2, <2>3, <2>4 DEF CleanInv
<1>16. CASE \/ ExportRequest \/ ExportAcquire \/ ExportRelease
         \/ RestartRefused \/ Quiescent
  BY <1>16, OthersFrame DEF CleanInv, Clean, Rotating, localVars
<1> QED
  BY <1>1, <1>2, <1>3, <1>4, <1>5, <1>6, <1>7, <1>8, <1>9, <1>10, <1>11, <1>11a,
     <1>12, <1>13, <1>14, <1>15, <1>16, NextCases

-----------------------------------------------------------------------------
(* What a commit writes.                                                   *)

\* The write of w's batch, complete or torn, only appends to the segment, and
\* the whole records it appends are those of the batch, in its order.
Appended(w) ==
    /\ Len(seg) <= Len(seg')
    /\ \A i \in 1..Len(seg) : seg'[i] = seg[i]
    /\ \A i \in 1..Len(seg') : i > Len(seg) /\ seg'[i].whole =>
          /\ i - Len(seg) \in 1..Len(batch[w])
          /\ seg'[i].id = base + batch[w][i - Len(seg)]

LEMMA CommitWriteAppends ==
    ASSUME TypeOK, NEW w \in Writers, CommitWrite(w)
    PROVE  Appended(w) /\ BatchWritten(w)'
<1> DEFINE n == Len(batch[w])
<1>1. n \in Nat /\ n \in 0..Len(batch[w]) /\ batch[w] \in Seq(Nat) /\ Len(seg) \in Nat
  BY DEF TypeOK
<1>2. /\ seg' = seg \o Records(record_counter, batch[w], n)
      /\ batch' = batch /\ base' = base
  BY DEF CommitWrite, histVars
<1> HIDE DEF n
<1>3. /\ Len(seg') = Len(seg) + n
      /\ \A i \in 1..Len(seg) : seg'[i] = seg[i]
      /\ \A i \in 1..n : seg'[Len(seg) + i] =
            [num |-> record_counter + i - 1, id |-> base + batch[w][i],
             whole |-> TRUE]
  BY <1>1, <1>2, AppendedRecords
<1>4. \A i \in 1..n : Len(seg) + i \in 1..Len(seg') /\ seg'[Len(seg) + i].id = base + batch[w][i]
  <2> SUFFICES ASSUME NEW i \in 1..n
               PROVE  /\ Len(seg) + i \in 1..Len(seg')
                      /\ seg'[Len(seg) + i].id = base + batch[w][i]
    OBVIOUS
  <2>1. Len(seg) + i \in 1..Len(seg')
    BY <1>1, <1>3
  <2>2. seg'[Len(seg) + i] = [num |-> record_counter + i - 1,
                              id |-> base + batch[w][i], whole |-> TRUE]
    BY <1>3
  <2> QED
    BY <2>1, <2>2
<1>5. BatchWritten(w)'
  BY <1>2, <1>4 DEF BatchWritten, n
<1>6. ASSUME NEW i \in 1..Len(seg'), i > Len(seg)
      PROVE  /\ i - Len(seg) \in 1..Len(batch[w])
             /\ seg'[i].id = base + batch[w][i - Len(seg)]
  <2>1. i - Len(seg) \in 1..n /\ i = Len(seg) + (i - Len(seg))
    BY <1>1, <1>3, <1>6
  <2> QED
    BY <1>4, <2>1 DEF n
<1> QED
  BY <1>1, <1>3, <1>5, <1>6 DEF Appended

LEMMA CommitWriteFaultAppends ==
    ASSUME TypeOK, NEW w \in Writers, CommitWriteFault(w)
    PROVE  Appended(w)
<1> PICK n \in 0..(Len(batch[w]) - 1), torn \in BOOLEAN :
        seg' = seg \o Records(record_counter, batch[w], n)
                   \o (IF torn THEN <<Torn>> ELSE <<>>)
  BY DEF CommitWriteFault
<1> DEFINE rs == Records(record_counter, batch[w], n)
           tail == IF torn THEN <<Torn>> ELSE <<>>
<1>1. /\ n \in Nat /\ n \in 0..Len(batch[w]) /\ batch[w] \in Seq(Nat)
      /\ Len(seg) \in Nat /\ seg \in Seq(Record) /\ base \in Nat /\ record_counter \in Nat
  BY DEF TypeOK
<1>2. /\ rs \in Seq(Record) /\ Len(rs) = n
      /\ \A i \in 1..n : rs[i].id = base + batch[w][i]
  <2>1. /\ rs \in Seq(Record) /\ Len(rs) = n
        /\ \A i \in 1..n : rs[i] = [num |-> record_counter + i - 1,
                                     id |-> base + batch[w][i], whole |-> TRUE]
    BY <1>1, RecordsType
  <2> HIDE DEF rs
  <2> QED
    BY <2>1
<1>3. /\ tail \in Seq(Record) /\ Len(tail) \in 0..1
      /\ \A i \in 1..Len(tail) : tail[i].whole = FALSE
  <2>1. Torn \in Record /\ Torn.whole = FALSE
    BY DEF Torn, Record
  <2> QED
    BY <2>1
<1>4. seg' = (seg \o rs) \o tail
  OBVIOUS
<1> HIDE DEF rs, tail
<1>5. /\ seg \o rs \in Seq(Record) /\ Len(seg \o rs) = Len(seg) + n
      /\ \A i \in 1..Len(seg) + n : (seg \o rs)[i] =
            IF i <= Len(seg) THEN seg[i] ELSE rs[i - Len(seg)]
  <2>1. /\ seg \o rs \in Seq(Record) /\ Len(seg \o rs) = Len(seg) + Len(rs)
        /\ \A i \in 1..Len(seg) + Len(rs) : (seg \o rs)[i] =
              IF i <= Len(seg) THEN seg[i] ELSE rs[i - Len(seg)]
    BY <1>1, <1>2, ConcatProperties
  <2> QED
    BY <1>2, <2>1
<1> DEFINE s == seg \o rs
<1>6. /\ Len(s \o tail) = Len(s) + Len(tail)
      /\ \A i \in 1..Len(s) + Len(tail) : (s \o tail)[i] =
            IF i <= Len(s) THEN s[i] ELSE tail[i - Len(s)]
  <2>1. s \in Seq(Record)
    BY <1>5
  <2> HIDE DEF s
  <2> QED
    BY <1>3, <2>1, ConcatProperties
<1>7. Len(s) = Len(seg) + n /\ \A i \in 1..Len(seg) + n :
            s[i] = IF i <= Len(seg) THEN seg[i] ELSE rs[i - Len(seg)]
  BY <1>5
<1>8. seg' = s \o tail
  BY <1>4
<1> HIDE DEF s
<1>9. Len(seg) <= Len(seg') /\ \A i \in 1..Len(seg) : seg'[i] = seg[i]
  <2>1. Len(seg') = Len(seg) + n + Len(tail) /\ Len(tail) \in Nat
    <3>1. Len(s \o tail) = Len(s) + Len(tail) /\ Len(s) = Len(seg) + n
      BY <1>6, <1>7
    <3>2. Len(tail) \in Nat
      BY <1>3
    <3> QED
      BY <1>8, <3>1, <3>2
  <2>2. ASSUME NEW i \in 1..Len(seg) PROVE seg'[i] = seg[i]
    <3>1. i \in 1..Len(s) + Len(tail) /\ i <= Len(s) /\ i \in 1..Len(seg) + n
      BY <1>1, <1>7, <2>1
    <3>2. seg'[i] = s[i]
      BY <1>6, <1>8, <3>1
    <3> QED
      BY <1>1, <1>7, <3>1, <3>2
  <2> QED
    BY <1>1, <2>1, <2>2
<1>10. ASSUME NEW i \in 1..Len(seg'), i > Len(seg), seg'[i].whole
       PROVE  /\ i - Len(seg) \in 1..Len(batch[w])
              /\ seg'[i].id = base + batch[w][i - Len(seg)]
  <2>1. CASE i <= Len(s)
    <3>1. i - Len(seg) \in 1..n
      BY <1>1, <1>7, <1>10, <2>1
    <3>2. seg'[i] = rs[i - Len(seg)]
      <4>1. i \in 1..Len(s) + Len(tail) /\ i \in 1..Len(seg) + n
        BY <1>1, <1>3, <1>7, <2>1
      <4>2. seg'[i] = s[i]
        BY <1>6, <1>8, <2>1, <4>1
      <4> QED
        BY <1>1, <1>7, <1>10, <4>1, <4>2, SMTT(30)
    <3>3. i - Len(seg) \in 1..Len(batch[w])
      BY <1>1, <3>1
    <3> QED
      BY <1>2, <3>1, <3>2, <3>3
  <2>2. CASE i > Len(s)
    <3>1. i - Len(s) \in 1..Len(tail) /\ seg'[i] = tail[i - Len(s)]
      BY <1>1, <1>3, <1>6, <1>7, <1>8, <1>10, <2>2, SMTT(30)
    <3> QED
      BY <1>3, <1>10, <3>1
  <2> QED
    BY <1>1, <1>7, <2>1, <2>2
<1> QED
  BY <1>9, <1>10 DEF Appended

LEMMA WriteKept ==
    ASSUME TypeOK, WriteInv, NEW w \in Writers, OthersKept(w),
           UNCHANGED <<seg, synced>>, pc'[w] # "sync",
           pc'[w] = "publish" => failed'[w]
    PROVE  WriteInv'
<1>1. ASSUME NEW v \in Writers, v # w
      PROVE  /\ pc'[v] = "sync" => BatchWritten(v)'
             /\ pc'[v] = "publish" /\ ~ failed'[v] =>
                   BatchWritten(v)' /\ synced' = Len(seg')
  <2>1. pc'[v] = pc[v] /\ batch'[v] = batch[v] /\ failed'[v] = failed[v] /\ base' = base
    BY <1>1 DEF OthersKept, TypeOK
  <2> QED
    BY <2>1 DEF WriteInv, BatchWritten
<1> QED
  BY <1>1 DEF WriteInv

\* A step of the leader: nobody else has a batch in the segment.
LEMMA WriteLeader ==
    ASSUME TypeOK, LeaderInv, NEW w \in Writers, OthersKept(w),
           pc[w] \in LeaderPcs,
           pc'[w] = "sync" => BatchWritten(w)',
           pc'[w] = "publish" /\ ~ failed'[w] =>
              BatchWritten(w)' /\ synced' = Len(seg')
    PROVE  WriteInv'
<1>1. ASSUME NEW v \in Writers, v # w PROVE pc'[v] \notin {"sync", "publish"}
  <2>1. pc'[v] = pc[v]
    BY <1>1 DEF OthersKept, TypeOK
  <2> QED
    BY <1>1, <2>1 DEF LeaderInv, IsLeader, LeaderPcs
<1> QED
  BY <1>1 DEF WriteInv

LEMMA WriteStep ==
    ASSUME TypeOK, DownInv, LeaderInv, FailInv, WriteInv, Next
    PROVE  WriteInv'
<1> USE DEF Goto, Return, Fail, fileVars
<1>1. ASSUME NEW w \in Writers, Bookkeeping(w) PROVE WriteInv'
  <2>1. OthersKept(w) /\ Bookkept(w)
    BY <1>1, WriterFrame, BookkeepingFrame DEF Bookkeeping, WriterStep
  <2> QED
    BY <2>1, WriteKept DEF Bookkept
<1>2. ASSUME NEW w \in Writers, EnqueueSlot(w) PROVE WriteInv'
  <2>1. OthersKept(w)
    BY <1>2, WriterFrame DEF WriterStep, FaultStep
  <2>2. UNCHANGED <<seg, synced>>
    BY <1>2 DEF EnqueueSlot
  <2>3. pc'[w] # "sync" /\ (pc'[w] = "publish" => failed'[w])
    BY <1>2 DEF EnqueueSlot, TypeOK, FlushPcs
  <2> QED
    BY <2>1, <2>2, <2>3, WriteKept
<1>3. ASSUME NEW w \in Writers, FlushSwap(w) PROVE WriteInv'
  <2>1. OthersKept(w)
    BY <1>3, WriterFrame DEF WriterStep, FaultStep
  <2>2. UNCHANGED <<seg, synced>>
    BY <1>3 DEF FlushSwap
  <2>3. pc'[w] # "sync" /\ (pc'[w] = "publish" => failed'[w])
    BY <1>3 DEF FlushSwap, TypeOK, FlushPcs, FlushStart
  <2> QED
    BY <2>1, <2>2, <2>3, WriteKept
<1>4. ASSUME NEW w \in Writers, FlushDone(w) PROVE WriteInv'
  <2>1. OthersKept(w)
    BY <1>4, WriterFrame DEF WriterStep, FaultStep
  <2>2. UNCHANGED <<seg, synced>>
    BY <1>4 DEF FlushDone
  <2>3. pc'[w] # "sync" /\ (pc'[w] = "publish" => failed'[w])
    BY <1>4 DEF FlushDone, TypeOK, FlushPcs, FlushThen
  <2> QED
    BY <2>1, <2>2, <2>3, WriteKept
<1>5. ASSUME NEW w \in Writers, FlushFault(w) PROVE WriteInv'
  <2>1. OthersKept(w)
    BY <1>5, WriterFrame DEF WriterStep, FaultStep
  <2>2. UNCHANGED <<seg, synced>>
    BY <1>5 DEF FlushFault
  <2>3. pc'[w] # "sync" /\ (pc'[w] = "publish" => failed'[w])
    BY <1>5 DEF FlushFault, TypeOK, FlushPcs
  <2> QED
    BY <2>1, <2>2, <2>3, WriteKept
<1>6. ASSUME NEW w \in Writers, RotateTruncate(w) PROVE WriteInv'
  <2>1. OthersKept(w)
    BY <1>6, WriterFrame DEF WriterStep, FaultStep
  <2>2. pc[w] \in LeaderPcs /\ pc'[w] # "sync" /\ (pc'[w] = "publish" => failed'[w])
    BY <1>6 DEF RotateTruncate, TypeOK, LeaderPcs
  <2> QED
    BY <2>1, <2>2, WriteLeader
<1>6a. ASSUME NEW w \in Writers, RotateHeader(w) PROVE WriteInv'
  <2>1. OthersKept(w)
    BY <1>6a, WriterFrame DEF WriterStep, FaultStep
  <2>2. pc[w] \in LeaderPcs /\ pc'[w] # "sync" /\ (pc'[w] = "publish" => failed'[w])
    BY <1>6a DEF RotateHeader, TypeOK, LeaderPcs
  <2> QED
    BY <2>1, <2>2, WriteLeader
<1>7. ASSUME NEW w \in Writers, RotateFault(w) PROVE WriteInv'
  <2>1. OthersKept(w)
    BY <1>7, WriterFrame DEF WriterStep, FaultStep
  <2>2. pc[w] \in LeaderPcs /\ pc'[w] # "sync" /\ (pc'[w] = "publish" => failed'[w])
    BY <1>7 DEF RotateFault, TypeOK, LeaderPcs
  <2> QED
    BY <2>1, <2>2, WriteLeader
<1>8. ASSUME NEW w \in Writers, CommitWriteFault(w) PROVE WriteInv'
  <2>1. OthersKept(w)
    BY <1>8, WriterFrame DEF WriterStep, FaultStep
  <2>2. pc[w] \in LeaderPcs /\ pc'[w] # "sync" /\ (pc'[w] = "publish" => failed'[w])
    BY <1>8 DEF CommitWriteFault, TypeOK, LeaderPcs
  <2> QED
    BY <2>1, <2>2, WriteLeader
<1>9. ASSUME NEW w \in Writers, CommitSyncFault(w) PROVE WriteInv'
  <2>1. OthersKept(w)
    BY <1>9, WriterFrame DEF WriterStep, FaultStep
  <2>2. pc[w] \in LeaderPcs /\ pc'[w] # "sync" /\ (pc'[w] = "publish" => failed'[w])
    BY <1>9 DEF CommitSyncFault, TypeOK, LeaderPcs
  <2> QED
    BY <2>1, <2>2, WriteLeader
<1>10. ASSUME NEW w \in Writers, CommitWrite(w) PROVE WriteInv'
  <2>1. OthersKept(w)
    BY <1>10, WriterFrame DEF WriterStep
  <2>2. pc[w] \in LeaderPcs /\ pc'[w] = "sync"
    BY <1>10 DEF CommitWrite, TypeOK, LeaderPcs
  <2> QED
    BY <1>10, <2>1, <2>2, CommitWriteAppends, WriteLeader
<1>11. ASSUME NEW w \in Writers, CommitSync(w) PROVE WriteInv'
  <2>1. OthersKept(w)
    BY <1>11, WriterFrame DEF WriterStep
  <2>2. pc[w] = "sync" /\ pc'[w] = "publish" /\ UNCHANGED <<seg, batch>>
    BY <1>11 DEF CommitSync, TypeOK
  <2>3. synced' = Len(seg')
    BY <1>11, <2>2 DEF CommitSync
  <2>4. BatchWritten(w)'
    BY <2>1, <2>2 DEF OthersKept, WriteInv, BatchWritten
  <2> QED
    BY <2>1, <2>2, <2>3, <2>4, WriteLeader DEF LeaderPcs
<1>12. CASE Crash
  BY <1>12 DEF Crash, WriteInv
<1>13. CASE RestartOpen
  <2>1. UNCHANGED <<pc, batch, failed, base>>
    BY <1>13 DEF RestartOpen, localVars, histVars
  <2>2. \A v \in Writers : pc[v] = "idle"
    BY <1>13 DEF RestartOpen, DownInv
  <2> QED
    BY <2>1, <2>2 DEF WriteInv
<1>14. CASE \/ ExportRequest \/ ExportAcquire \/ ExportRelease
         \/ RestartRefused \/ Quiescent
  BY <1>14, OthersFrame DEF WriteInv, BatchWritten, localVars
<1> QED
  BY <1>1, <1>2, <1>3, <1>4, <1>5, <1>6, <1>6a, <1>7, <1>8, <1>9, <1>10, <1>11,
     <1>12, <1>13, <1>14, NextCases

-----------------------------------------------------------------------------
(* The layers cover the segment.                                          *)

\* Every published ticket was issued.
LEMMA CompletedIssued ==
    ASSUME TypeOK, TicketInv PROVE completed < next_ticket
<1>1. completed \in Nat /\ Len(pending) \in Nat /\ next_ticket \in Nat
  BY DEF TypeOK
<1>2. ASSUME NEW w \in Writers, pc[w] \in CommitPcs PROVE completed < next_ticket
  <2>1. Len(batch[w]) \in Nat /\ next_ticket = completed + Len(batch[w]) + Len(pending) + 1
    BY <1>2 DEF TypeOK, TicketInv
  <2> QED
    BY <1>1, <2>1
<1>3. ASSUME \A w \in Writers : pc[w] \notin CommitPcs PROVE completed < next_ticket
  <2>1. next_ticket = completed + Len(pending) + 1
    BY <1>3 DEF TicketInv
  <2> QED
    BY <1>1, <2>1
<1> QED
  BY <1>2, <1>3

\* A step outside the flush: only the active map may grow.
LEMMA FlushKept ==
    ASSUME TypeOK, FlushInv, NEW w \in Writers, OthersKept(w),
           UNCHANGED <<parked, sst, seg>>, mem \subseteq mem',
           pc[w] \notin FlushPcs, pc'[w] \notin FlushPcs \union {"truncate"}
    PROVE  FlushInv'
<1>1. \A v \in Writers : v # w => pc'[v] = pc[v]
  BY DEF OthersKept, TypeOK
<1>2. \A v \in Writers : pc'[v] \in FlushPcs <=> pc[v] \in FlushPcs
  BY <1>1
<1>3. \A v \in Writers : pc'[v] \in {"rot_flush", "truncate"} => pc'[v] = pc[v]
  BY <1>1 DEF FlushPcs
<1>4. proc' = proc
  BY DEF OthersKept
<1>5. Covered(mem \union parked \union sst) => Covered(mem \union parked \union sst)'
  BY DEF Covered
<1>6. Covered(parked \union sst)' = Covered(parked \union sst) /\ Covered(sst)' = Covered(sst)
  BY DEF Covered
<1> QED
  BY <1>2, <1>3, <1>4, <1>5, <1>6 DEF FlushInv

\* The rotation empties the segment.
LEMMA FlushTruncated ==
    ASSUME TypeOK, FlushInv, NEW w \in Writers, OthersKept(w), seg' = <<>>,
           parked' = parked, pc[w] \notin FlushPcs, pc'[w] \notin FlushPcs
    PROVE  FlushInv'
<1>1. \A v \in Writers : pc'[v] \in FlushPcs <=> pc[v] \in FlushPcs
  BY DEF OthersKept, TypeOK
<1>2. Covered(mem \union parked \union sst)' /\ Covered(parked \union sst)' /\ Covered(sst)'
  BY DEF Covered
<1> QED
  BY <1>1, <1>2 DEF FlushInv

\* The leader appends records of issued tickets, which are all applied.
LEMMA FlushAppended ==
    ASSUME TypeOK, LeaderInv, TicketInv, FlushInv, VisibleInv, proc = "up",
           NEW w \in Writers, OthersKept(w), Appended(w), pc[w] = "write",
           pc'[w] \in {"sync", "publish"}, UNCHANGED <<mem, parked, sst>>
    PROVE  FlushInv'
<1>1. \A v \in Writers : v # w => pc'[v] = pc[v]
  BY DEF OthersKept, TypeOK
<1>2. \A v \in Writers : pc'[v] \in FlushPcs <=> pc[v] \in FlushPcs
  BY <1>1 DEF FlushPcs
<1>3. \A v \in Writers : pc'[v] \notin {"rot_flush", "truncate"}
  BY <1>1 DEF LeaderInv, IsLeader, LeaderPcs
<1>4. ASSUME NEW k \in 1..Len(batch[w]) PROVE base + batch[w][k] \in mem \union parked \union sst
  <2>1. /\ Tickets(batch[w], completed)
        /\ next_ticket = completed + Len(batch[w]) + Len(pending) + 1
    BY DEF TicketInv, CommitPcs, LeaderPcs
  <2>2. completed \in Nat /\ Len(batch[w]) \in Nat /\ Len(pending) \in Nat
    BY DEF TypeOK
  <2>3. batch[w][k] = completed + k
    BY <2>1 DEF Tickets
  <2>4. batch[w][k] \in 1..(next_ticket - 1)
    BY <2>1, <2>2, <2>3
  <2> QED
    BY <2>4 DEF VisibleInv
<1>5. Covered(mem \union parked \union sst)'
  <2> SUFFICES ASSUME NEW i \in 1..Len(seg'), seg'[i].whole
               PROVE  seg'[i].id \in mem \union parked \union sst
    BY DEF Covered
  <2>1. CASE i > Len(seg)
    BY <1>4, <2>1 DEF Appended
  <2>2. CASE ~ (i > Len(seg))
    <3>1. i \in 1..Len(seg)
      BY <2>2 DEF TypeOK
    <3>2. seg'[i] = seg[i]
      BY <3>1 DEF Appended
    <3>3. Covered(mem \union parked \union sst)
      BY DEF FlushInv
    <3> QED
      BY <3>1, <3>2, <3>3 DEF Covered
  <2> QED
    BY <2>1, <2>2
<1> QED
  BY <1>2, <1>3, <1>5 DEF FlushInv

LEMMA FlushStep ==
    ASSUME TypeOK, DownInv, LeaderInv, TicketInv, FailInv, FlushInv, VisibleInv, Next
    PROVE  FlushInv'
<1> USE DEF Goto, Return, Fail, fileVars, dataVars
<1>1. ASSUME NEW w \in Writers, Bookkeeping(w) PROVE FlushInv'
  <2>1. OthersKept(w) /\ Bookkept(w)
    BY <1>1, WriterFrame, BookkeepingFrame DEF Bookkeeping, WriterStep
  <2> QED
    BY <2>1, FlushKept DEF Bookkept
<1>2. ASSUME NEW w \in Writers, EnqueueSlot(w) PROVE FlushInv'
  <2>1. OthersKept(w)
    BY <1>2, WriterFrame DEF WriterStep, FaultStep
  <2>2. UNCHANGED <<parked, sst, seg>> /\ mem \subseteq mem'
    BY <1>2 DEF EnqueueSlot, Apply
  <2>3. pc[w] \notin FlushPcs /\ pc'[w] \notin FlushPcs \union {"truncate"}
    BY <1>2 DEF EnqueueSlot, Apply, TypeOK, FlushPcs
  <2> QED
    BY <2>1, <2>2, <2>3, FlushKept
<1>3. ASSUME NEW w \in Writers, CommitSync(w) PROVE FlushInv'
  <2>1. OthersKept(w)
    BY <1>3, WriterFrame DEF WriterStep, FaultStep
  <2>2. UNCHANGED <<parked, sst, seg>> /\ mem \subseteq mem'
    BY <1>3 DEF CommitSync
  <2>3. pc[w] \notin FlushPcs /\ pc'[w] \notin FlushPcs \union {"truncate"}
    BY <1>3 DEF CommitSync, TypeOK, FlushPcs
  <2> QED
    BY <2>1, <2>2, <2>3, FlushKept
<1>4. ASSUME NEW w \in Writers, CommitSyncFault(w) PROVE FlushInv'
  <2>1. OthersKept(w)
    BY <1>4, WriterFrame DEF WriterStep, FaultStep
  <2>2. UNCHANGED <<parked, sst, seg>> /\ mem \subseteq mem'
    BY <1>4 DEF CommitSyncFault
  <2>3. pc[w] \notin FlushPcs /\ pc'[w] \notin FlushPcs \union {"truncate"}
    BY <1>4 DEF CommitSyncFault, TypeOK, FlushPcs
  <2> QED
    BY <2>1, <2>2, <2>3, FlushKept
<1>5. ASSUME NEW w \in Writers, RotateTruncate(w) PROVE FlushInv'
  <2>1. OthersKept(w)
    BY <1>5, WriterFrame DEF WriterStep, FaultStep
  <2>2. seg' = <<>> /\ parked' = parked
    BY <1>5 DEF RotateTruncate
  <2>3. pc[w] \notin FlushPcs /\ pc'[w] \notin FlushPcs
    BY <1>5 DEF RotateTruncate, TypeOK, FlushPcs
  <2> QED
    BY <2>1, <2>2, <2>3, FlushTruncated
<1>5a. ASSUME NEW w \in Writers, RotateHeader(w) PROVE FlushInv'
  <2>1. OthersKept(w)
    BY <1>5a, WriterFrame DEF WriterStep, FaultStep
  <2>2. UNCHANGED <<parked, sst, seg>> /\ mem \subseteq mem'
    BY <1>5a DEF RotateHeader
  <2>3. pc[w] \notin FlushPcs /\ pc'[w] \notin FlushPcs \union {"truncate"}
    BY <1>5a DEF RotateHeader, TypeOK, FlushPcs
  <2> QED
    BY <2>1, <2>2, <2>3, FlushKept
<1>6. ASSUME NEW w \in Writers, RotateFault(w) PROVE FlushInv'
  <2>1. OthersKept(w)
    BY <1>6, WriterFrame DEF WriterStep, FaultStep
  <2>2. UNCHANGED <<parked, sst, seg>> /\ mem \subseteq mem'
    BY <1>6 DEF RotateFault
  <2>3. pc[w] \notin FlushPcs /\ pc'[w] \notin FlushPcs \union {"truncate"}
    BY <1>6 DEF RotateFault, TypeOK, FlushPcs
  <2> QED
    BY <2>1, <2>2, <2>3, FlushKept
<1>7. ASSUME NEW w \in Writers, CommitWrite(w) PROVE FlushInv'
  <2>1. OthersKept(w) /\ proc = "up"
    BY <1>7, WriterFrame, WriterUp DEF WriterStep, FaultStep
  <2>2. /\ pc[w] = "write" /\ pc'[w] \in {"sync", "publish"}
        /\ UNCHANGED <<mem, parked, sst>>
    BY <1>7 DEF CommitWrite, TypeOK
  <2> QED
    BY <1>7, <2>1, <2>2, CommitWriteAppends, FlushAppended
<1>8. ASSUME NEW w \in Writers, CommitWriteFault(w) PROVE FlushInv'
  <2>1. OthersKept(w) /\ proc = "up"
    BY <1>8, WriterFrame, WriterUp DEF WriterStep, FaultStep
  <2>2. /\ pc[w] = "write" /\ pc'[w] \in {"sync", "publish"}
        /\ UNCHANGED <<mem, parked, sst>>
    BY <1>8 DEF CommitWriteFault, TypeOK
  <2> QED
    BY <1>8, <2>1, <2>2, CommitWriteFaultAppends, FlushAppended
<1>9. ASSUME NEW w \in Writers, FlushSwap(w) PROVE FlushInv'
  <2>1. OthersKept(w) /\ proc = "up"
    BY <1>9, WriterFrame, WriterUp DEF WriterStep
  <2>2. /\ \A v \in Writers : pc[v] \notin FlushPcs
        /\ parked' = mem /\ mem' = {} /\ UNCHANGED <<sst, seg>>
    BY <1>9 DEF FlushSwap
  <2>3. pc'[w] \in FlushPcs
    <3>1. pc'[w] = FlushStart[pc[w]] /\ pc[w] \in {"pre_rotate", "rotate", "return"}
      BY <1>9 DEF FlushSwap, TypeOK
    <3> QED
      BY <3>1, FlushRoute DEF FlushPcs
  <2>4. \A v \in Writers : v # w => pc'[v] = pc[v]
    BY <2>1 DEF OthersKept, TypeOK
  <2>5. parked = {} /\ Covered(mem \union parked \union sst)
    BY <2>1, <2>2 DEF FlushInv
  <2>6. Covered(mem \union parked \union sst)' /\ Covered(parked \union sst)'
    BY <2>2, <2>5 DEF Covered
  <2>7. Covered(sst)' = Covered(sst)
    BY <2>2 DEF Covered
  <2>8. \A v \in Writers : pc'[v] = "truncate" => pc[v] = "truncate"
    BY <2>3, <2>4 DEF FlushPcs
  <2> QED
    BY <2>2, <2>3, <2>4, <2>6, <2>7, <2>8 DEF FlushInv
<1>10. ASSUME NEW w \in Writers, FlushDone(w) PROVE FlushInv'
  <2>1. OthersKept(w) /\ proc = "up"
    BY <1>10, WriterFrame, WriterUp DEF WriterStep
  <2>2. /\ pc[w] \in FlushPcs /\ sst' = sst \union parked /\ parked' = {}
        /\ UNCHANGED <<mem, seg>>
    BY <1>10 DEF FlushDone
  <2>3. \A v \in Writers : v # w => pc'[v] = pc[v] /\ pc[v] \notin FlushPcs
    BY <2>1, <2>2 DEF OthersKept, TypeOK, FlushInv
  <2>4. pc'[w] \notin FlushPcs /\ (pc'[w] = "truncate" => pc[w] = "rot_flush")
    <3>1. CASE pc[w] = "ret_flush"
      BY <1>10, <3>1 DEF FlushDone, TypeOK, FlushPcs
    <3>2. ASSUME pc[w] # "ret_flush" PROVE pc'[w] = FlushThen[pc[w]]
      BY <1>10, <3>2 DEF FlushDone, TypeOK
    <3> QED
      BY <2>2, <3>1, <3>2, FlushRoute DEF FlushPcs
  <2>5. Covered(mem \union parked \union sst)'
    BY <2>1, <2>2 DEF FlushInv, Covered
  <2>6. Covered(sst) => Covered(sst)'
    BY <2>2 DEF Covered
  <2>7. Covered(parked \union sst) => Covered(sst)'
    BY <2>2 DEF Covered
  <2>8. \A v \in Writers : pc'[v] \notin FlushPcs
    BY <2>3, <2>4
  <2>9. ASSUME NEW v \in Writers, pc'[v] = "truncate" PROVE Covered(sst)'
    BY <2>3, <2>4, <2>6, <2>7, <2>9 DEF FlushInv
  <2> QED
    BY <2>2, <2>5, <2>8, <2>9 DEF FlushInv, FlushPcs
<1>11. ASSUME NEW w \in Writers, FlushFault(w) PROVE FlushInv'
  <2>1. OthersKept(w) /\ proc = "up"
    BY <1>11, WriterFrame, WriterUp DEF FaultStep
  <2>2. /\ pc[w] \in FlushPcs /\ mem' = mem \union parked /\ parked' = {}
        /\ UNCHANGED <<sst, seg>>
    BY <1>11 DEF FlushFault, Reabsorb
  <2>3. \A v \in Writers : v # w => pc'[v] = pc[v] /\ pc[v] \notin FlushPcs
    BY <2>1, <2>2 DEF OthersKept, TypeOK, FlushInv
  <2>4. pc'[w] \in {"idle", "publish"}
    BY <1>11 DEF FlushFault, TypeOK
  <2>5. Covered(mem \union parked \union sst)'
    BY <2>1, <2>2 DEF FlushInv, Covered
  <2>6. Covered(sst)' = Covered(sst)
    BY <2>2 DEF Covered
  <2>7. \A v \in Writers : pc'[v] \notin FlushPcs
    BY <2>3, <2>4 DEF FlushPcs
  <2>8. ASSUME NEW v \in Writers, pc'[v] = "truncate" PROVE Covered(sst)'
    BY <2>3, <2>4, <2>6, <2>8 DEF FlushInv
  <2> QED
    BY <2>2, <2>5, <2>7, <2>8 DEF FlushInv, FlushPcs
<1>12. CASE Crash
  BY <1>12 DEF Crash, FlushInv, FlushPcs
<1>13. CASE RestartOpen
  <2> PICK n \in 0..Len(seg) : GoodPrefix(seg, n) /\ seg' = SubSeq(seg, 1, n)
    BY <1>13 DEF RestartOpen
  <2>1. /\ proc = "down" /\ ~ OpenRefuses(header, seg) /\ parked' = parked /\ pc' = pc
        /\ mem' = OnDisk(header, seg, Len(seg))
    BY <1>13 DEF RestartOpen, localVars
  <2>2. parked = {} /\ \A v \in Writers : pc[v] = "idle"
    BY <2>1 DEF DownInv
  <2>3. Len(seg') = n /\ \A i \in 1..n : seg'[i] = seg[i]
    BY DEF TypeOK
  <2>4. ASSUME NEW i \in 1..n PROVE seg[i].id \in mem'
    <3>1. header = "ok"
      <4>1. seg # <<>>
        BY <2>4 DEF TypeOK
      <4> QED
        BY <2>1, <4>1 DEF OpenRefuses, TypeOK
    <3>2. GoodPrefix(seg, i) /\ i \in 1..Len(seg)
      BY DEF GoodPrefix, TypeOK
    <3> QED
      BY <2>1, <3>1, <3>2 DEF OnDisk, Replayed
  <2>5. Covered(mem \union parked \union sst)'
    BY <2>3, <2>4 DEF Covered
  <2> QED
    BY <2>1, <2>2, <2>5 DEF FlushInv, FlushPcs
<1>14. CASE \/ ExportRequest \/ ExportAcquire \/ ExportRelease
         \/ RestartRefused \/ Quiescent
  <2>1. UNCHANGED <<pc, mem, parked, sst, seg>> /\ (proc' = "up" => proc = "up")
    BY <1>14, OthersFrame DEF localVars
  <2> QED
    BY <2>1 DEF FlushInv, Covered
<1> QED
  BY <1>1, <1>2, <1>3, <1>4, <1>5, <1>5a, <1>6, <1>7, <1>8, <1>9, <1>10, <1>11,
     <1>12, <1>13, <1>14, NextCases

-----------------------------------------------------------------------------
(* Applied and acknowledged writes stay readable.                        *)

\* Nothing leaves the layers while the process runs.
LEMMA LayersGrow ==
    ASSUME TypeOK, DownInv, FailInv, FlushInv, NEW w \in Writers,
           BeginWrite(w) \/ WriterStep(w) \/ FaultStep(w)
    PROVE  mem \union parked \union sst \subseteq (mem \union parked \union sst)'
<1> USE DEF dataVars
<1>1. CASE Bookkeeping(w)
  BY <1>1, BookkeepingFrame DEF Bookkept
<1>2. CASE EnqueueSlot(w)
  BY <1>2 DEF EnqueueSlot, Apply
<1>3. CASE FlushDone(w)
  BY <1>3 DEF FlushDone
<1>4. CASE FlushFault(w)
  BY <1>4 DEF FlushFault, Reabsorb
<1>5. CASE RotateTruncate(w)
  BY <1>5 DEF RotateTruncate
<1>5a. CASE RotateHeader(w)
  BY <1>5a DEF RotateHeader
<1>6. CASE RotateFault(w)
  BY <1>6 DEF RotateFault
<1>7. CASE CommitWrite(w)
  BY <1>7 DEF CommitWrite
<1>8. CASE CommitWriteFault(w)
  BY <1>8 DEF CommitWriteFault
<1>9. CASE CommitSync(w)
  BY <1>9 DEF CommitSync
<1>10. CASE CommitSyncFault(w)
  BY <1>10 DEF CommitSyncFault
<1>11. CASE FlushSwap(w)
  <2>1. parked = {}
    BY <1>11 DEF FlushSwap, FlushInv
  <2> QED
    BY <1>11, <2>1 DEF FlushSwap
<1> QED
  BY <1>1, <1>2, <1>3, <1>4, <1>5, <1>5a, <1>6, <1>7, <1>8, <1>9, <1>10, <1>11
     DEF WriterStep, FaultStep, Bookkeeping

\* Tickets are issued only by the enqueue, acknowledged only by the wait.
LEMMA IssuedFrame ==
    ASSUME NEW w \in Writers, BeginWrite(w) \/ WriterStep(w) \/ FaultStep(w)
    PROVE  /\ EnqueueSlot(w) \/ next_ticket' = next_ticket
           /\ AwaitOutcome(w) \/ acked' = acked
<1> USE DEF groupVars, histVars, Fault
<1>1. CASE BeginWrite(w)
  BY <1>1 DEF BeginWrite
<1>2. CASE CheckFence(w)
  BY <1>2 DEF CheckFence
<1>3. CASE AwaitBatchDurable(w)
  BY <1>3 DEF AwaitBatchDurable
<1>4. CASE LeadExit(w)
  BY <1>4 DEF LeadExit
<1>5. CASE LeadStepDown(w)
  BY <1>5 DEF LeadStepDown
<1>6. CASE AnnounceVacancy(w)
  BY <1>6 DEF AnnounceVacancy
<1>7. CASE LeadDrain(w)
  BY <1>7 DEF LeadDrain
<1>8. CASE FlushSwap(w)
  BY <1>8 DEF FlushSwap
<1>9. CASE FlushDone(w)
  BY <1>9 DEF FlushDone
<1>10. CASE FlushFault(w)
  BY <1>10 DEF FlushFault
<1>11. CASE ReturnUnflushed(w)
  BY <1>11 DEF ReturnUnflushed
<1>12. CASE RotateTruncate(w)
  BY <1>12 DEF RotateTruncate
<1>12a. CASE RotateHeader(w)
  BY <1>12a DEF RotateHeader
<1>13. CASE RotateFault(w)
  BY <1>13 DEF RotateFault
<1>14. CASE CommitWrite(w)
  BY <1>14 DEF CommitWrite
<1>15. CASE CommitWriteFault(w)
  BY <1>15 DEF CommitWriteFault
<1>16. CASE CommitSync(w)
  BY <1>16 DEF CommitSync
<1>17. CASE CommitSyncFault(w)
  BY <1>17 DEF CommitSyncFault
<1>18. CASE CommitPublish(w)
  BY <1>18 DEF CommitPublish
<1>19. CASE AwaitVacancy(w)
  BY <1>19 DEF AwaitVacancy
<1>20. CASE ClaimLeadership(w)
  BY <1>20 DEF ClaimLeadership
<1>21. CASE EnqueueSlot(w)
  BY <1>21 DEF EnqueueSlot
<1>22. CASE AwaitOutcome(w)
  BY <1>22 DEF AwaitOutcome
<1> QED
  BY <1>1, <1>2, <1>3, <1>4, <1>5, <1>6, <1>7, <1>8, <1>9, <1>10, <1>11,
     <1>12, <1>12a, <1>13, <1>14, <1>15, <1>16, <1>17, <1>18, <1>19, <1>20, <1>21,
     <1>22
     DEF WriterStep, FaultStep

\* A ticket that AwaitOutcome acknowledges is published and has not failed.
LEMMA AckedTicket ==
    ASSUME TypeOK, TicketInv, NEW w \in Writers, AwaitOutcome(w)
    PROVE  \/ acked' = acked
           \/ /\ acked' = acked \union {base + ticket[w]}
              /\ ticket[w] \in 1..completed /\ ~ TicketFailed(ticket[w])
<1>1. pc[w] = "wait" /\ completed >= ticket[w]
  BY DEF AwaitOutcome
<1>2. ticket[w] > 0
  BY <1>1 DEF TicketInv
<1>3. ticket[w] \in 1..completed
  BY <1>1, <1>2 DEF TypeOK
<1>4. acked' = acked \/ (acked' = acked \union {base + ticket[w]} /\ ~ TicketFailed(ticket[w]))
  BY DEF AwaitOutcome
<1> QED
  BY <1>3, <1>4

LEMMA VisibleStep ==
    ASSUME TypeOK, DownInv, TicketInv, FailInv, FlushInv, VisibleInv, AckInv, Next
    PROVE  VisibleInv'
<1>1. ASSUME NEW w \in Writers, BeginWrite(w) \/ WriterStep(w) \/ FaultStep(w)
      PROVE  VisibleInv'
  <2> DEFINE L == mem \union parked \union sst
  <2>1. proc = "up" /\ base' = base /\ L \subseteq L'
    BY <1>1, WriterUp, WriterFrame, LayersGrow DEF OthersKept
  <2>2. /\ \A t \in 1..(next_ticket - 1) : base + t \in L
        /\ acked \subseteq L
    BY <2>1 DEF VisibleInv
  <2>3. next_ticket \in Nat /\ completed \in Nat
    BY DEF TypeOK
  <2>4. \A t \in 1..(next_ticket' - 1) : base + t \in L'
    <3>1. CASE EnqueueSlot(w)
      <4>1. next_ticket' = next_ticket + 1 /\ base + next_ticket \in mem'
        BY <3>1 DEF EnqueueSlot, Apply
      <4>2. \A t \in 1..(next_ticket' - 1) : t \in 1..(next_ticket - 1) \/ t = next_ticket
        BY <2>3, <4>1
      <4> QED
        BY <2>1, <2>2, <4>1, <4>2
    <3>2. CASE ~ EnqueueSlot(w)
      <4>1. next_ticket' = next_ticket
        BY <1>1, <3>2, IssuedFrame
      <4> QED
        BY <2>1, <2>2, <4>1
    <3> QED
      BY <3>1, <3>2
  <2>5. acked' \subseteq L'
    <3>1. CASE AwaitOutcome(w)
      <4>1. acked' = acked \/ (acked' = acked \union {base + ticket[w]}
                               /\ ticket[w] \in 1..completed)
        BY <3>1, AckedTicket
      <4>2. ticket[w] \in 1..completed => base + ticket[w] \in L
        <5>1. completed < next_ticket
          BY CompletedIssued
        <5> QED
          BY <2>2, <2>3, <5>1
      <4> HIDE DEF L
      <4> QED
        BY <2>1, <2>2, <4>1, <4>2
    <3>2. CASE ~ AwaitOutcome(w)
      <4>1. acked' = acked
        BY <1>1, <3>2, IssuedFrame
      <4> QED
        BY <2>1, <2>2, <4>1
    <3> QED
      BY <3>1, <3>2
  <2> QED
    BY <2>1, <2>4, <2>5 DEF VisibleInv
<1>2. CASE Crash
  BY <1>2 DEF Crash, VisibleInv
<1>3. CASE RestartOpen
  <2>1. /\ next_ticket' = next_ticket /\ next_ticket = 1 /\ acked' = acked /\ sst' = sst
        /\ mem' = OnDisk(header, seg, Len(seg))
    BY <1>3 DEF RestartOpen, DownInv, groupVars, histVars
  <2>2. acked \subseteq sst \union OnDisk(header, seg, synced)
    BY DEF AckInv, Durable
  <2>3. OnDisk(header, seg, synced) \subseteq OnDisk(header, seg, Len(seg))
    <3>1. synced \in Nat /\ Len(seg) \in Nat /\ synced <= Len(seg)
      BY DEF TypeOK
    <3> QED
      BY <3>1 DEF OnDisk, Replayed
  <2>4. \A t \in 1..(next_ticket' - 1) : FALSE
    BY <2>1
  <2> QED
    BY <2>1, <2>2, <2>3, <2>4 DEF VisibleInv
<1>4. CASE \/ ExportRequest \/ ExportAcquire \/ ExportRelease
         \/ RestartRefused \/ Quiescent
  <2>1. /\ UNCHANGED <<mem, parked, sst, next_ticket, base, acked>>
        /\ proc' = "up" => proc = "up"
    BY <1>4, OthersFrame DEF groupVars, dataVars
  <2> QED
    BY <2>1 DEF VisibleInv
<1> QED
  BY <1>1, <1>2, <1>3, <1>4 DEF Next

-----------------------------------------------------------------------------
(* What is durable stays durable.                                          *)

\* Replay of a longer segment that agrees on the first m records returns at
\* least what replay of those m records returns.
LEMMA ReplayedMono ==
    ASSUME NEW s, NEW t, NEW m \in Nat, NEW n \in Nat, m <= n,
           \A i \in 1..m : t[i] = s[i]
    PROVE  Replayed(s, m) \subseteq Replayed(t, n)
<1> SUFFICES ASSUME NEW i \in 1..m, GoodPrefix(s, i)
             PROVE  s[i].id \in Replayed(t, n)
  BY DEF Replayed
<1>1. GoodPrefix(t, i)
  BY DEF GoodPrefix, Good
<1>2. i \in 1..n /\ t[i].id = s[i].id
  OBVIOUS
<1> QED
  BY <1>1, <1>2 DEF Replayed

\* A step that keeps the synced records.
LEMMA ReplayKept ==
    ASSUME TypeOK, synced' \in Nat, synced <= synced',
           \A i \in 1..synced : seg'[i] = seg[i]
    PROVE  Replayed(seg, synced) \subseteq Replayed(seg', synced')
<1>1. synced \in Nat
  BY DEF TypeOK
<1> QED
  BY <1>1, ReplayedMono

\* What replay finds in the synced part of the segment stays there, until a
\* rotation truncates it.
LEMMA SyncedKept ==
    ASSUME TypeOK, FailInv, Next, \A w \in Writers : ~ RotateTruncate(w)
    PROVE  Replayed(seg, synced) \subseteq Replayed(seg', synced')
<1> USE DEF fileVars
<1> DEFINE Kept == Replayed(seg, synced) \subseteq Replayed(seg', synced')
<1>0. synced \in Nat /\ Len(seg) \in Nat /\ synced <= Len(seg)
  BY DEF TypeOK
<1>1. ASSUME NEW w \in Writers, Bookkeeping(w) PROVE Kept
  BY <1>1, BookkeepingFrame DEF Bookkept
<1>2. ASSUME NEW w \in Writers,
             \/ EnqueueSlot(w) \/ FlushSwap(w) \/ FlushDone(w) \/ FlushFault(w)
             \/ RotateHeader(w) \/ RotateFault(w) \/ CommitSyncFault(w)
      PROVE  Kept
  <2>1. UNCHANGED <<seg, synced>>
    BY <1>2 DEF EnqueueSlot, FlushSwap, FlushDone, FlushFault, RotateHeader,
                RotateFault, CommitSyncFault
  <2> QED
    BY <2>1
<1>3. ASSUME NEW w \in Writers, CommitSync(w) PROVE Kept
  <2>1. seg' = seg /\ synced' = Len(seg)
    BY <1>3 DEF CommitSync
  <2> QED
    BY <1>0, <2>1, ReplayKept
<1>4. ASSUME NEW w \in Writers, CommitWrite(w) \/ CommitWriteFault(w) PROVE Kept
  <2>1. synced' = synced
    BY <1>4 DEF CommitWrite, CommitWriteFault
  <2>2. \A i \in 1..Len(seg) : seg'[i] = seg[i]
    BY <1>4, CommitWriteAppends, CommitWriteFaultAppends DEF Appended
  <2>3. \A i \in 1..synced : seg'[i] = seg[i]
    BY <1>0, <2>2
  <2> QED
    BY <1>0, <2>1, <2>3, ReplayKept
<1>5. CASE Crash
  <2>1. PICK n \in synced..Len(seg), torn \in BOOLEAN :
           seg' = SubSeq(seg, 1, n)
                  \o (IF torn /\ n < Len(seg) THEN <<Torn>> ELSE <<>>)
    BY <1>5 DEF Crash
  <2> DEFINE head == SubSeq(seg, 1, n)
             tail == IF torn /\ n < Len(seg) THEN <<Torn>> ELSE <<>>
  <2>2. tail \in Seq(Record)
    <3>1. Torn \in Record
      BY DEF Torn, Record
    <3> QED
      BY <3>1
  <2>3. /\ head \in Seq(Record) /\ Len(head) = n /\ n \in Nat /\ synced <= n
        /\ \A i \in 1..n : head[i] = seg[i]
    BY <1>0 DEF TypeOK
  <2>4. seg' = head \o tail
    BY <2>1
  <2> HIDE DEF head, tail
  <2>5. \A i \in 1..Len(head) + Len(tail) : (head \o tail)[i] =
           IF i <= Len(head) THEN head[i] ELSE tail[i - Len(head)]
    BY <2>2, <2>3, ConcatProperties
  <2>6. ASSUME NEW i \in 1..synced PROVE seg'[i] = seg[i]
    <3>1. Len(tail) \in Nat
      BY <2>2
    <3>2. i \in 1..Len(head) + Len(tail) /\ i <= Len(head) /\ i \in 1..n
      BY <1>0, <2>3, <3>1
    <3> QED
      BY <2>3, <2>4, <2>5, <3>2
  <2>7. synced' = synced
    BY <1>5 DEF Crash
  <2> QED
    BY <1>0, <2>6, <2>7, ReplayKept
<1>6. CASE RestartOpen
  <2>1. PICK n \in 0..Len(seg) :
           /\ GoodPrefix(seg, n) /\ (n < Len(seg) => ~ Good(seg, n + 1))
           /\ seg' = SubSeq(seg, 1, n)
           /\ synced' = IF n < Len(seg) THEN n ELSE synced
    BY <1>6 DEF RestartOpen
  <2>3. /\ Len(seg') = n /\ \A i \in 1..n : seg'[i] = seg[i]
        /\ n \in Nat
    BY <2>1 DEF TypeOK
  <2>4. ASSUME NEW i \in 1..synced, GoodPrefix(seg, i)
        PROVE  seg[i].id \in Replayed(seg', synced')
    <3>1. i <= n
      <4> SUFFICES ASSUME i > n PROVE FALSE
        BY <1>0, <2>3
      <4>1. n < Len(seg) /\ n + 1 \in 1..i
        BY <1>0, <2>3
      <4> QED
        BY <2>1, <2>4, <4>1 DEF GoodPrefix
    <3>2. i \in 1..synced' /\ i \in 1..n
      BY <1>0, <2>1, <2>3, <3>1
    <3>3. GoodPrefix(seg', i)
      BY <2>3, <2>4, <3>2 DEF GoodPrefix, Good
    <3>4. seg'[i].id = seg[i].id
      BY <2>3, <3>2
    <3> QED
      BY <3>2, <3>3, <3>4 DEF Replayed
  <2> QED
    BY <2>4 DEF Replayed
<1>7. CASE \/ ExportRequest \/ ExportAcquire \/ ExportRelease
         \/ RestartRefused \/ Quiescent
  <2>1. UNCHANGED <<seg, synced>>
    BY <1>7, OthersFrame
  <2> QED
    BY <2>1
<1> QED
  BY <1>1, <1>2, <1>3, <1>4, <1>5, <1>6, <1>7, NextCases

\* The SSTs only grow, and only the truncation takes the header away.
LEMMA SstKept ==
    ASSUME TypeOK, FailInv, Next, \A w \in Writers : ~ RotateTruncate(w)
    PROVE  sst \subseteq sst' /\ (header' = header \/ header' = "ok")
<1> USE DEF fileVars, dataVars
<1>1. ASSUME NEW w \in Writers, Bookkeeping(w) PROVE UNCHANGED <<sst, header>>
  BY <1>1, BookkeepingFrame DEF Bookkept
<1>2. ASSUME NEW w \in Writers,
             \/ EnqueueSlot(w) \/ FlushSwap(w) \/ FlushDone(w) \/ FlushFault(w)
             \/ RotateHeader(w) \/ RotateFault(w) \/ CommitWrite(w)
             \/ CommitWriteFault(w) \/ CommitSync(w) \/ CommitSyncFault(w)
      PROVE  sst \subseteq sst' /\ (header' = header \/ header' = "ok")
  BY <1>2 DEF EnqueueSlot, FlushSwap, FlushDone, FlushFault, RotateHeader,
              RotateFault, CommitWrite, CommitWriteFault, CommitSync,
              CommitSyncFault
<1>3. CASE Crash \/ RestartOpen
  BY <1>3 DEF Crash, RestartOpen
<1>4. CASE \/ ExportRequest \/ ExportAcquire \/ ExportRelease
         \/ RestartRefused \/ Quiescent
  BY <1>4, OthersFrame
<1> QED
  BY <1>1, <1>2, <1>3, <1>4, NextCases

\* What is durable stays so, through rotations, faults, crashes and restarts.
LEMMA DurableGrows ==
    ASSUME TypeOK, FailInv, FlushInv, Next
    PROVE  Durable \subseteq Durable'
<1>1. ASSUME NEW w \in Writers, RotateTruncate(w) PROVE Durable \subseteq Durable'
  <2>1. pc[w] = "truncate" /\ sst' = sst
    BY <1>1 DEF RotateTruncate, dataVars
  <2>2. Covered(sst)
    BY <2>1 DEF FlushInv
  <2>3. OnDisk(header, seg, synced) \subseteq sst
    <3> SUFFICES ASSUME NEW i \in 1..synced, GoodPrefix(seg, i)
                 PROVE  seg[i].id \in sst
      BY DEF OnDisk, Replayed
    <3>1. i \in 1..i /\ i \in 1..Len(seg)
      BY DEF TypeOK
    <3>2. seg[i].whole
      BY <3>1 DEF GoodPrefix, Good
    <3> QED
      BY <2>2, <3>1, <3>2 DEF Covered
  <2> QED
    BY <2>1, <2>3 DEF Durable
<1>2. CASE \A w \in Writers : ~ RotateTruncate(w)
  <2>1. /\ Replayed(seg, synced) \subseteq Replayed(seg', synced')
        /\ sst \subseteq sst' /\ (header' = header \/ header' = "ok")
    BY <1>2, SyncedKept, SstKept
  <2> QED
    BY <2>1 DEF Durable, OnDisk
<1> QED
  BY <1>1, <1>2

-----------------------------------------------------------------------------
(* Published outcomes.                                                     *)

\* Only CommitPublish moves the watermark or records a failure.
LEMMA PublishedFrame ==
    ASSUME TypeOK, FailInv, Next
    PROVE  \/ \E w \in Writers : CommitPublish(w)
           \/ UNCHANGED <<completed, failed_from>>
           \/ Crash
<1> USE DEF signalVars
<1>1. ASSUME NEW w \in Writers, Bookkeeping(w)
      PROVE  CommitPublish(w) \/ UNCHANGED <<completed, failed_from>>
  BY <1>1, BookkeepingFrame DEF Bookkept
<1>2. ASSUME NEW w \in Writers,
             \/ EnqueueSlot(w) \/ FlushSwap(w) \/ FlushDone(w) \/ FlushFault(w)
             \/ RotateTruncate(w) \/ RotateHeader(w) \/ RotateFault(w)
             \/ CommitWrite(w) \/ CommitWriteFault(w)
             \/ CommitSync(w) \/ CommitSyncFault(w)
      PROVE  UNCHANGED <<completed, failed_from>>
  BY <1>2 DEF EnqueueSlot, FlushSwap, FlushDone, FlushFault, RotateTruncate,
              RotateHeader, RotateFault, CommitWrite, CommitWriteFault, CommitSync,
              CommitSyncFault
<1>3. CASE RestartOpen
  BY <1>3 DEF RestartOpen
<1>4. CASE \/ ExportRequest \/ ExportAcquire \/ ExportRelease
         \/ RestartRefused \/ Quiescent
  BY <1>4, OthersFrame
<1> QED
  BY <1>1, <1>2, <1>3, <1>4, NextCases

\* What CommitPublish publishes: the tickets of the batch, in the synced part
\* of the segment unless the commit, or an earlier one, failed.
LEMMA PublishOutcome ==
    ASSUME TypeOK, LeaderInv, TicketInv, FailInv, CleanInv, WriteInv, DownInv,
           NEW w \in Writers, CommitPublish(w)
    PROVE  /\ \A t \in 1..completed : TicketFailed(t)' = TicketFailed(t)
           /\ \A t \in 1..completed' : t \notin 1..completed /\ ~ TicketFailed(t)'
                 => header = "ok" /\ base + t \in Replayed(seg, synced)
<1>1. /\ pc[w] = "publish" /\ failed_from' = FailedFrom(w)
      /\ completed' = Larger(completed, batch[w][Len(batch[w])])
  BY DEF CommitPublish
<1>2. Len(batch[w]) > 0 /\ Tickets(batch[w], completed)
  BY <1>1 DEF TicketInv, CommitPcs, LeaderPcs
<1>3. /\ Len(batch[w]) \in Nat /\ completed \in Nat /\ failed_from \in Nat
      /\ failed_from <= completed
  BY DEF TypeOK, FailInv
<1>4. batch[w][1] = completed + 1 /\ batch[w][Len(batch[w])] = completed + Len(batch[w])
  BY <1>2, <1>3 DEF Tickets
<1>5. completed' = completed + Len(batch[w])
  BY <1>1, <1>3, <1>4 DEF Larger
<1>6. /\ failed[w] /\ failed_from = 0 => failed_from' = completed + 1
      /\ ~ (failed[w] /\ failed_from = 0) => failed_from' = failed_from
  BY <1>1, <1>4 DEF FailedFrom
<1>7. ASSUME NEW t \in 1..completed PROVE TicketFailed(t)' = TicketFailed(t)
  BY <1>3, <1>6 DEF TicketFailed
<1>8. ASSUME NEW t \in 1..completed', t \notin 1..completed, ~ TicketFailed(t)'
      PROVE  header = "ok" /\ base + t \in Replayed(seg, synced)
  <2>1. t > completed /\ t <= completed + Len(batch[w])
    BY <1>3, <1>5, <1>8
  <2>2. failed_from = 0 /\ ~ failed[w]
    BY <1>3, <1>6, <1>8, <2>1 DEF TicketFailed
  <2>3. \A v \in Writers : ~ failed[v]
    BY <1>1, <2>2 DEF FailInv, LeaderInv, IsLeader, LeaderPcs
  <2>4. proc = "up"
    BY <1>1 DEF DownInv
  <2>5. header = "ok" /\ GoodPrefix(seg, Len(seg))
    <3>1. ~ Rotating
      BY <1>1 DEF Rotating, LeaderInv, IsLeader, LeaderPcs
    <3> QED
      BY <2>2, <2>3, <2>4, <3>1 DEF CleanInv, Clean
  <2>6. BatchWritten(w) /\ synced = Len(seg)
    BY <1>1, <2>2 DEF WriteInv
  <2>7. t - completed \in 1..Len(batch[w]) /\ batch[w][t - completed] = t
    <3>1. t - completed \in 1..Len(batch[w]) /\ completed + (t - completed) = t
      BY <1>3, <2>1
    <3> QED
      BY <1>2, <3>1 DEF Tickets
  <2>8. PICK j \in 1..Len(seg) : seg[j].id = base + t
    BY <2>6, <2>7 DEF BatchWritten
  <2>9. GoodPrefix(seg, j)
    BY <2>5 DEF GoodPrefix, TypeOK
  <2> QED
    BY <2>5, <2>6, <2>8, <2>9 DEF Replayed
<1> QED
  BY <1>7, <1>8

LEMMA AckStep ==
    ASSUME IInv, Next
    PROVE  AckInv'
<1> USE DEF IInv
<1>1. Durable \subseteq Durable'
  BY DurableGrows
<1>2. acked' \subseteq Durable'
  <2>1. CASE acked' = acked
    BY <1>1, <2>1 DEF AckInv
  <2>2. ASSUME NEW w \in Writers, AwaitOutcome(w) PROVE acked' \subseteq Durable'
    <3>1. CASE acked' = acked
      BY <2>1, <3>1
    <3>2. CASE /\ acked' = acked \union {base + ticket[w]}
               /\ ticket[w] \in 1..completed /\ ~ TicketFailed(ticket[w])
      <4>1. base + ticket[w] \in Durable
        BY <3>2 DEF AckInv
      <4> QED
        BY <1>1, <3>2, <4>1 DEF AckInv
    <3> QED
      BY <2>2, <3>1, <3>2, AckedTicket
  <2>3. CASE Crash
    BY <2>1, <2>3 DEF Crash
  <2>4. CASE RestartOpen
    BY <2>1, <2>4 DEF RestartOpen, histVars
  <2>5. CASE \/ ExportRequest \/ ExportAcquire \/ ExportRelease
         \/ RestartRefused \/ Quiescent
    BY <2>1, <2>5, OthersFrame
  <2>6. ASSUME NEW w \in Writers, BeginWrite(w) \/ WriterStep(w) \/ FaultStep(w)
        PROVE  acked' \subseteq Durable'
    BY <2>1, <2>2, <2>6, IssuedFrame
  <2> QED
    BY <2>3, <2>4, <2>5, <2>6 DEF Next
<1>3. ASSUME NEW t \in 1..completed', ~ TicketFailed(t)' PROVE base' + t \in Durable'
  <2>1. ASSUME NEW w \in Writers, CommitPublish(w) PROVE base' + t \in Durable'
    <3>1. base' = base
      BY <2>1 DEF CommitPublish, histVars
    <3>2. CASE t \in 1..completed
      <4>1. ~ TicketFailed(t)
        BY <1>3, <2>1, <3>2, PublishOutcome
      <4> QED
        BY <1>1, <3>1, <3>2, <4>1 DEF AckInv
    <3>3. CASE t \notin 1..completed
      <4>1. base + t \in Durable
        BY <1>3, <2>1, <3>3, PublishOutcome DEF Durable, OnDisk
      <4> QED
        BY <1>1, <3>1, <4>1
    <3> QED
      BY <3>2, <3>3
  <2>2. CASE Crash
    <3>1. completed' = 0
      BY <2>2 DEF Crash
    <3> QED
      BY <1>3, <3>1
  <2>3. ASSUME UNCHANGED <<completed, failed_from>>, base' = base
        PROVE  base' + t \in Durable'
    BY <1>1, <1>3, <2>3 DEF AckInv, TicketFailed
  <2>4. base' = base \/ Crash
    <3>1. ASSUME NEW w \in Writers, BeginWrite(w) \/ WriterStep(w) \/ FaultStep(w)
          PROVE  base' = base
      BY <3>1, WriterFrame DEF OthersKept
    <3>2. CASE RestartOpen
      BY <3>2 DEF RestartOpen, histVars
    <3> QED
      BY <3>1, <3>2, OthersFrame DEF Next
  <2> QED
    BY <2>1, <2>2, <2>3, <2>4, PublishedFrame
<1> QED
  BY <1>2, <1>3 DEF AckInv

-----------------------------------------------------------------------------
(* The theorems.                                                           *)

LEMMA IInvInit == Init => IInv
<1> SUFFICES ASSUME Init PROVE IInv
  OBVIOUS
<1>1. TypeOK
  BY InitType
<1>2. /\ proc = "up" /\ \A w \in Writers : pc[w] = "idle" /\ ~ failed[w]
      /\ poisoned = FALSE /\ completed = 0 /\ failed_from = 0 /\ pending = <<>>
      /\ next_ticket = 1 /\ seg = <<>> /\ header = "ok" /\ record_counter = 0
      /\ parked = {} /\ acked = {}
  BY DEF Init
<1>3. DownInv /\ LeaderInv /\ FailInv /\ WriteInv
  BY <1>2 DEF DownInv, LeaderInv, IsLeader, LeaderPcs, FailInv, WriteInv
<1>4. TicketInv
  BY <1>2 DEF TicketInv, Tickets, CommitPcs, LeaderPcs
<1>5. CleanInv
  BY <1>2 DEF CleanInv, GoodPrefix, Rotating
<1>6. FlushInv
  BY <1>2 DEF FlushInv, Covered, FlushPcs
<1>7. VisibleInv /\ AckInv
  BY <1>2 DEF VisibleInv, AckInv
<1> QED
  BY <1>1, <1>3, <1>4, <1>5, <1>6, <1>7 DEF IInv

\* A commit in flight has a batch, as TicketInv says.
LEMMA IInvBatch ==
    ASSUME IInv PROVE BatchInv
BY DEF IInv, TypeOK, TicketInv, BatchInv

LEMMA IInvStep == IInv /\ [Next]_vars => IInv'
<1>1. ASSUME IInv, Next PROVE IInv'
  <2>1. TypeOK'
    BY <1>1, IInvBatch, TypeStep DEF IInv
  <2>2. DownInv' /\ LeaderInv' /\ TicketInv' /\ FailInv'
    BY <1>1, DownStep, LeaderStep, TicketStep, FailStep DEF IInv
  <2>3. CleanInv' /\ WriteInv'
    BY <1>1, CleanStep, WriteStep DEF IInv
  <2>4. FlushInv' /\ VisibleInv' /\ AckInv'
    BY <1>1, FlushStep, VisibleStep, AckStep DEF IInv
  <2> QED
    BY <2>1, <2>2, <2>3, <2>4 DEF IInv
<1>2. ASSUME IInv, UNCHANGED vars PROVE IInv'
  <2> USE <1>2 DEF IInv, vars, localVars, groupVars, signalVars, procVars,
                   fileVars, dataVars, topVars, barrierVars, histVars
  <2>1. TypeOK'
    BY DEF TypeOK
  <2>2. DownInv' /\ LeaderInv' /\ FailInv'
    BY DEF DownInv, LeaderInv, IsLeader, FailInv
  <2>3. TicketInv'
    BY DEF TicketInv, Tickets
  <2>4. CleanInv' /\ WriteInv'
    BY DEF CleanInv, Clean, Rotating, WriteInv, BatchWritten
  <2>5. FlushInv' /\ VisibleInv'
    BY DEF FlushInv, Covered, VisibleInv
  <2>6. AckInv'
    BY DEF AckInv, Durable, TicketFailed
  <2> QED
    BY <2>1, <2>2, <2>3, <2>4, <2>5, <2>6
<1> QED
  BY <1>1, <1>2

\* The inductive invariant holds of every behaviour.
THEOREM Invariance == Spec => []IInv
BY IInvInit, IInvStep, PTL DEF Spec

\* Whatever the number of writers, however leadership passes, wherever an I/O
\* call fails and whenever the machine stops: a write that append_applying or
\* await_batch_durable reported Ok survives.
THEOREM Durability == Spec => []AckedDurable
<1>1. IInv => AckedDurable
  BY DEF IInv, AckInv, AckedDurable
<1> QED
  BY <1>1, Invariance, PTL

\* An acknowledged write is never missing from the layers a read consults,
\* through flushes that fail, rotations and restarts.
THEOREM Readability == Spec => []AckedReadable
<1>1. IInv => AckedReadable
  BY DEF IInv, VisibleInv, AckedReadable
<1> QED
  BY <1>1, Invariance, PTL

\* Two threads never drain, write or truncate the segment at once: the
\* election in enqueue_slot, the step-down and the claim exclude each other.
THEOREM SingleLeader == Spec => []OneLeader
<1>1. IInv => OneLeader
  BY DEF IInv, LeaderInv, OneLeader
<1> QED
  BY <1>1, Invariance, PTL

\* A published verdict is final: failed_from is recorded once, at a ticket
\* above every ticket already published.
THEOREM VerdictsFinal == Spec => VerdictStable
<1> DEFINE A == proc = "up" /\ proc' = "up" =>
                   \A t \in 1..completed : TicketFailed(t)' = TicketFailed(t)
<1>1. IInv /\ [Next]_vars => [A]_vars
  <2> SUFFICES ASSUME IInv, Next PROVE A
    OBVIOUS
  <2>1. ASSUME NEW w \in Writers, CommitPublish(w) PROVE A
    BY <2>1, PublishOutcome DEF IInv
  <2>2. CASE UNCHANGED <<completed, failed_from>>
    BY <2>2 DEF TicketFailed
  <2>3. CASE Crash
    BY <2>3 DEF Crash
  <2> QED
    BY <2>1, <2>2, <2>3, PublishedFrame DEF IInv
<1> QED
  BY <1>1, Invariance, PTL DEF Spec, VerdictStable

\* The write path implements DurableLog: no step of it takes anything out of
\* stable storage, and it acknowledges nothing that is not there.
THEOREM Refinement == Spec => ImplementsDurableLog
<1>1. Init => Log!Init
  <2> SUFFICES ASSUME Init PROVE Durable = {} /\ acked = {}
    BY DEF Log!Init
  <2> QED
    BY DEF Init, Durable, OnDisk, Replayed
<1>2. IInv /\ [Next]_vars => [Log!Next]_<<Durable, acked>>
  <2>1. ASSUME IInv, Next PROVE [Log!Next]_<<Durable, acked>>
    <3>1. Durable \subseteq Durable'
      BY <2>1, DurableGrows DEF IInv
    <3>2. CASE acked' = acked
      BY <3>1, <3>2 DEF Log!Next, Log!Persist
    <3>3. ASSUME NEW w \in Writers, AwaitOutcome(w)
          PROVE  [Log!Next]_<<Durable, acked>>
      <4>1. Durable' = Durable
        BY <3>3 DEF AwaitOutcome, Durable, fileVars, dataVars
      <4>2. CASE acked' = acked
        BY <3>2, <4>2
      <4>3. CASE /\ acked' = acked \union {base + ticket[w]}
                 /\ ticket[w] \in 1..completed /\ ~ TicketFailed(ticket[w])
        <5>1. base + ticket[w] \in Durable
          BY <2>1, <4>3 DEF IInv, AckInv
        <5> QED
          BY <4>1, <4>3, <5>1 DEF Log!Next, Log!Ack
      <4> QED
        BY <2>1, <3>3, <4>2, <4>3, AckedTicket DEF IInv
    <3>4. ASSUME NEW w \in Writers, BeginWrite(w) \/ WriterStep(w) \/ FaultStep(w)
          PROVE  [Log!Next]_<<Durable, acked>>
      BY <3>2, <3>3, <3>4, IssuedFrame
    <3>5. CASE Crash
      BY <3>2, <3>5 DEF Crash
    <3>6. CASE RestartOpen
      BY <3>2, <3>6 DEF RestartOpen, histVars
    <3>7. CASE \/ ExportRequest \/ ExportAcquire \/ ExportRelease
               \/ RestartRefused \/ Quiescent
      BY <3>2, <3>7, OthersFrame
    <3> QED
      BY <2>1, <3>4, <3>5, <3>6, <3>7 DEF Next
  <2>2. ASSUME UNCHANGED vars PROVE [Log!Next]_<<Durable, acked>>
    BY <2>2 DEF vars, Durable, fileVars, dataVars, histVars
  <2> QED
    BY <2>1, <2>2
<1> QED
  BY <1>1, <1>2, Invariance, PTL DEF Spec, ImplementsDurableLog, Log!Spec

-----------------------------------------------------------------------------
(* Order of the records, attendance of the queue, fault-free segments and  *)
(* the backup barrier.                                                     *)

\* No whole record of the segment has an id above n.
Below(n) == \A i \in 1..Len(seg) : seg[i].whole => seg[i].id <= n

\* The segment holds nothing past the watermark, except, while a batch is
\* being synced or published, the records of that batch.
OrderInv ==
    /\ WalOrder
    /\ (\A w \in Writers : pc[w] \notin {"sync", "publish"})
          => Below(base + completed)
    /\ \A w \in Writers : pc[w] \in {"sync", "publish"}
          => Below(base + completed + Len(batch[w]))

\* leader_active is never left behind by a leader that is gone.
AttendInv ==
    /\ leader_active => \E w \in Writers : IsLeader(w)
    /\ QueueAttended

\* Every record authenticates where it lies, but for a torn last one.
Intact(s) ==
    \A i \in 1..Len(s) : Good(s, i) \/ (i = Len(s) /\ ~ s[i].whole)

\* A segment without its header is empty.
FaultInv ==
    faults = 0 => Clean /\ (header = "ok" \/ seg = <<>>) /\ Intact(seg)

\* A writer inside a call, unless it only holds a durability handle, holds
\* the barrier shared; an export that reads holds it alone.
BarrierInv ==
    /\ \A w \in Writers : pc[w] \notin {"idle", "handle"} => w \in readers
    /\ exporter = "reading" => readers = {}
    /\ proc # "up" => exporter = "idle"

OInv == OrderInv /\ AttendInv /\ FaultInv /\ BarrierInv

-----------------------------------------------------------------------------
(* The backup barrier.                                                     *)

\* A step of w that holds the barrier before or after it, or takes it while
\* no export waits.
LEMMA BarrierKept ==
    ASSUME TypeOK, BarrierInv, NEW w \in Writers, OthersKept(w),
           exporter' = exporter,
           exporter = "idle" \/ pc[w] \notin {"idle", "handle"},
           readers \ {w} \subseteq readers',
           pc'[w] \in {"idle", "handle"} \/ w \in readers'
    PROVE  BarrierInv'
<1>1. ASSUME NEW v \in Writers, pc'[v] \notin {"idle", "handle"} PROVE v \in readers'
  <2>1. CASE v = w
    BY <1>1, <2>1
  <2>2. CASE v # w
    <3>1. pc'[v] = pc[v]
      BY <2>2 DEF OthersKept, TypeOK
    <3> QED
      BY <1>1, <2>2, <3>1 DEF BarrierInv
  <2> QED
    BY <2>1, <2>2
<1>2. exporter # "reading"
  BY DEF BarrierInv
<1>3. proc' = proc
  BY DEF OthersKept
<1> QED
  BY <1>1, <1>2, <1>3 DEF BarrierInv

LEMMA BarrierStep ==
    ASSUME TypeOK, BarrierInv, Next
    PROVE  BarrierInv'
<1> USE DEF Goto, Return, EnterBarrier, Fail, Fault, barrierVars
<1>1. ASSUME NEW w \in Writers, BeginWrite(w) PROVE BarrierInv'
  <2>1. OthersKept(w)
    BY <1>1, WriterFrame DEF WriterStep
  <2>2. /\ exporter' = exporter
        /\ exporter = "idle" \/ pc[w] \notin {"idle", "handle"}
    BY <1>1 DEF BeginWrite
  <2>3. /\ readers \ {w} \subseteq readers'
        /\ pc'[w] \in {"idle", "handle"} \/ w \in readers'
    BY <1>1 DEF BeginWrite, BarrierInv, TypeOK
  <2> QED
    BY <2>1, <2>2, <2>3, BarrierKept
<1>2. ASSUME NEW w \in Writers, CheckFence(w) PROVE BarrierInv'
  <2>1. OthersKept(w)
    BY <1>2, WriterFrame DEF WriterStep
  <2>2. /\ exporter' = exporter
        /\ exporter = "idle" \/ pc[w] \notin {"idle", "handle"}
    BY <1>2 DEF CheckFence
  <2>3. /\ readers \ {w} \subseteq readers'
        /\ pc'[w] \in {"idle", "handle"} \/ w \in readers'
    BY <1>2 DEF CheckFence, BarrierInv, TypeOK
  <2> QED
    BY <2>1, <2>2, <2>3, BarrierKept
<1>3. ASSUME NEW w \in Writers, EnqueueSlot(w) PROVE BarrierInv'
  <2>1. OthersKept(w)
    BY <1>3, WriterFrame DEF WriterStep
  <2>2. /\ exporter' = exporter
        /\ exporter = "idle" \/ pc[w] \notin {"idle", "handle"}
    BY <1>3 DEF EnqueueSlot
  <2>3. /\ readers \ {w} \subseteq readers'
        /\ pc'[w] \in {"idle", "handle"} \/ w \in readers'
    BY <1>3 DEF EnqueueSlot, BarrierInv, TypeOK
  <2> QED
    BY <2>1, <2>2, <2>3, BarrierKept
<1>4. ASSUME NEW w \in Writers, AwaitBatchDurable(w) PROVE BarrierInv'
  <2>1. OthersKept(w)
    BY <1>4, WriterFrame DEF WriterStep
  <2>2. /\ exporter' = exporter
        /\ exporter = "idle" \/ pc[w] \notin {"idle", "handle"}
    BY <1>4 DEF AwaitBatchDurable
  <2>3. /\ readers \ {w} \subseteq readers'
        /\ pc'[w] \in {"idle", "handle"} \/ w \in readers'
    BY <1>4 DEF AwaitBatchDurable, BarrierInv, TypeOK
  <2> QED
    BY <2>1, <2>2, <2>3, BarrierKept
<1>5. ASSUME NEW w \in Writers, LeadExit(w) PROVE BarrierInv'
  <2>1. OthersKept(w)
    BY <1>5, WriterFrame DEF WriterStep
  <2>2. /\ exporter' = exporter
        /\ exporter = "idle" \/ pc[w] \notin {"idle", "handle"}
    BY <1>5 DEF LeadExit
  <2>3. /\ readers \ {w} \subseteq readers'
        /\ pc'[w] \in {"idle", "handle"} \/ w \in readers'
    BY <1>5 DEF LeadExit, BarrierInv, TypeOK
  <2> QED
    BY <2>1, <2>2, <2>3, BarrierKept
<1>6. ASSUME NEW w \in Writers, LeadStepDown(w) PROVE BarrierInv'
  <2>1. OthersKept(w)
    BY <1>6, WriterFrame DEF WriterStep
  <2>2. /\ exporter' = exporter
        /\ exporter = "idle" \/ pc[w] \notin {"idle", "handle"}
    BY <1>6 DEF LeadStepDown
  <2>3. /\ readers \ {w} \subseteq readers'
        /\ pc'[w] \in {"idle", "handle"} \/ w \in readers'
    BY <1>6 DEF LeadStepDown, BarrierInv, TypeOK
  <2> QED
    BY <2>1, <2>2, <2>3, BarrierKept
<1>7. ASSUME NEW w \in Writers, AnnounceVacancy(w) PROVE BarrierInv'
  <2>1. OthersKept(w)
    BY <1>7, WriterFrame DEF WriterStep
  <2>2. /\ exporter' = exporter
        /\ exporter = "idle" \/ pc[w] \notin {"idle", "handle"}
    BY <1>7 DEF AnnounceVacancy
  <2>3. /\ readers \ {w} \subseteq readers'
        /\ pc'[w] \in {"idle", "handle"} \/ w \in readers'
    BY <1>7 DEF AnnounceVacancy, BarrierInv, TypeOK
  <2> QED
    BY <2>1, <2>2, <2>3, BarrierKept
<1>8. ASSUME NEW w \in Writers, LeadDrain(w) PROVE BarrierInv'
  <2>1. OthersKept(w)
    BY <1>8, WriterFrame DEF WriterStep
  <2>2. /\ exporter' = exporter
        /\ exporter = "idle" \/ pc[w] \notin {"idle", "handle"}
    BY <1>8 DEF LeadDrain
  <2>3. /\ readers \ {w} \subseteq readers'
        /\ pc'[w] \in {"idle", "handle"} \/ w \in readers'
    BY <1>8 DEF LeadDrain, BarrierInv, TypeOK
  <2> QED
    BY <2>1, <2>2, <2>3, BarrierKept
<1>9. ASSUME NEW w \in Writers, FlushSwap(w) PROVE BarrierInv'
  <2>1. OthersKept(w)
    BY <1>9, WriterFrame DEF WriterStep
  <2>2. /\ exporter' = exporter
        /\ exporter = "idle" \/ pc[w] \notin {"idle", "handle"}
    BY <1>9 DEF FlushSwap
  <2>3. /\ readers \ {w} \subseteq readers'
        /\ pc'[w] \in {"idle", "handle"} \/ w \in readers'
    BY <1>9 DEF FlushSwap, BarrierInv, TypeOK
  <2> QED
    BY <2>1, <2>2, <2>3, BarrierKept
<1>10. ASSUME NEW w \in Writers, FlushDone(w) PROVE BarrierInv'
  <2>1. OthersKept(w)
    BY <1>10, WriterFrame DEF WriterStep
  <2>2. /\ exporter' = exporter
        /\ exporter = "idle" \/ pc[w] \notin {"idle", "handle"}
    BY <1>10 DEF FlushDone, FlushPcs
  <2>3. /\ readers \ {w} \subseteq readers'
        /\ pc'[w] \in {"idle", "handle"} \/ w \in readers'
    BY <1>10 DEF FlushDone, FlushPcs, BarrierInv, TypeOK
  <2> QED
    BY <2>1, <2>2, <2>3, BarrierKept
<1>11. ASSUME NEW w \in Writers, FlushFault(w) PROVE BarrierInv'
  <2>1. OthersKept(w)
    BY <1>11, WriterFrame DEF FaultStep
  <2>2. /\ exporter' = exporter
        /\ exporter = "idle" \/ pc[w] \notin {"idle", "handle"}
    BY <1>11 DEF FlushFault, FlushPcs
  <2>3. /\ readers \ {w} \subseteq readers'
        /\ pc'[w] \in {"idle", "handle"} \/ w \in readers'
    BY <1>11 DEF FlushFault, FlushPcs, BarrierInv, TypeOK
  <2> QED
    BY <2>1, <2>2, <2>3, BarrierKept
<1>12. ASSUME NEW w \in Writers, ReturnUnflushed(w) PROVE BarrierInv'
  <2>1. OthersKept(w)
    BY <1>12, WriterFrame DEF WriterStep
  <2>2. /\ exporter' = exporter
        /\ exporter = "idle" \/ pc[w] \notin {"idle", "handle"}
    BY <1>12 DEF ReturnUnflushed
  <2>3. /\ readers \ {w} \subseteq readers'
        /\ pc'[w] \in {"idle", "handle"} \/ w \in readers'
    BY <1>12 DEF ReturnUnflushed, BarrierInv, TypeOK
  <2> QED
    BY <2>1, <2>2, <2>3, BarrierKept
<1>13. ASSUME NEW w \in Writers, RotateTruncate(w) PROVE BarrierInv'
  <2>1. OthersKept(w)
    BY <1>13, WriterFrame DEF WriterStep
  <2>2. /\ exporter' = exporter
        /\ exporter = "idle" \/ pc[w] \notin {"idle", "handle"}
    BY <1>13 DEF RotateTruncate
  <2>3. /\ readers \ {w} \subseteq readers'
        /\ pc'[w] \in {"idle", "handle"} \/ w \in readers'
    BY <1>13 DEF RotateTruncate, BarrierInv, TypeOK
  <2> QED
    BY <2>1, <2>2, <2>3, BarrierKept
<1>13a. ASSUME NEW w \in Writers, RotateHeader(w) PROVE BarrierInv'
  <2>1. OthersKept(w)
    BY <1>13a, WriterFrame DEF WriterStep
  <2>2. /\ exporter' = exporter
        /\ exporter = "idle" \/ pc[w] \notin {"idle", "handle"}
    BY <1>13a DEF RotateHeader
  <2>3. /\ readers \ {w} \subseteq readers'
        /\ pc'[w] \in {"idle", "handle"} \/ w \in readers'
    BY <1>13a DEF RotateHeader, BarrierInv, TypeOK
  <2> QED
    BY <2>1, <2>2, <2>3, BarrierKept
<1>14. ASSUME NEW w \in Writers, RotateFault(w) PROVE BarrierInv'
  <2>1. OthersKept(w)
    BY <1>14, WriterFrame DEF FaultStep
  <2>2. /\ exporter' = exporter
        /\ exporter = "idle" \/ pc[w] \notin {"idle", "handle"}
    BY <1>14 DEF RotateFault
  <2>3. /\ readers \ {w} \subseteq readers'
        /\ pc'[w] \in {"idle", "handle"} \/ w \in readers'
    BY <1>14 DEF RotateFault, BarrierInv, TypeOK
  <2> QED
    BY <2>1, <2>2, <2>3, BarrierKept
<1>15. ASSUME NEW w \in Writers, CommitWrite(w) PROVE BarrierInv'
  <2>1. OthersKept(w)
    BY <1>15, WriterFrame DEF WriterStep
  <2>2. /\ exporter' = exporter
        /\ exporter = "idle" \/ pc[w] \notin {"idle", "handle"}
    BY <1>15 DEF CommitWrite
  <2>3. /\ readers \ {w} \subseteq readers'
        /\ pc'[w] \in {"idle", "handle"} \/ w \in readers'
    BY <1>15 DEF CommitWrite, BarrierInv, TypeOK
  <2> QED
    BY <2>1, <2>2, <2>3, BarrierKept
<1>16. ASSUME NEW w \in Writers, CommitWriteFault(w) PROVE BarrierInv'
  <2>1. OthersKept(w)
    BY <1>16, WriterFrame DEF FaultStep
  <2>2. /\ exporter' = exporter
        /\ exporter = "idle" \/ pc[w] \notin {"idle", "handle"}
    BY <1>16 DEF CommitWriteFault
  <2>3. /\ readers \ {w} \subseteq readers'
        /\ pc'[w] \in {"idle", "handle"} \/ w \in readers'
    BY <1>16 DEF CommitWriteFault, BarrierInv, TypeOK
  <2> QED
    BY <2>1, <2>2, <2>3, BarrierKept
<1>17. ASSUME NEW w \in Writers, CommitSync(w) PROVE BarrierInv'
  <2>1. OthersKept(w)
    BY <1>17, WriterFrame DEF WriterStep
  <2>2. /\ exporter' = exporter
        /\ exporter = "idle" \/ pc[w] \notin {"idle", "handle"}
    BY <1>17 DEF CommitSync
  <2>3. /\ readers \ {w} \subseteq readers'
        /\ pc'[w] \in {"idle", "handle"} \/ w \in readers'
    BY <1>17 DEF CommitSync, BarrierInv, TypeOK
  <2> QED
    BY <2>1, <2>2, <2>3, BarrierKept
<1>18. ASSUME NEW w \in Writers, CommitSyncFault(w) PROVE BarrierInv'
  <2>1. OthersKept(w)
    BY <1>18, WriterFrame DEF FaultStep
  <2>2. /\ exporter' = exporter
        /\ exporter = "idle" \/ pc[w] \notin {"idle", "handle"}
    BY <1>18 DEF CommitSyncFault
  <2>3. /\ readers \ {w} \subseteq readers'
        /\ pc'[w] \in {"idle", "handle"} \/ w \in readers'
    BY <1>18 DEF CommitSyncFault, BarrierInv, TypeOK
  <2> QED
    BY <2>1, <2>2, <2>3, BarrierKept
<1>19. ASSUME NEW w \in Writers, CommitPublish(w) PROVE BarrierInv'
  <2>1. OthersKept(w)
    BY <1>19, WriterFrame DEF WriterStep
  <2>2. /\ exporter' = exporter
        /\ exporter = "idle" \/ pc[w] \notin {"idle", "handle"}
    BY <1>19 DEF CommitPublish
  <2>3. /\ readers \ {w} \subseteq readers'
        /\ pc'[w] \in {"idle", "handle"} \/ w \in readers'
    BY <1>19 DEF CommitPublish, BarrierInv, TypeOK
  <2> QED
    BY <2>1, <2>2, <2>3, BarrierKept
<1>20. ASSUME NEW w \in Writers, AwaitOutcome(w) PROVE BarrierInv'
  <2>1. OthersKept(w)
    BY <1>20, WriterFrame DEF WriterStep
  <2>2. /\ exporter' = exporter
        /\ exporter = "idle" \/ pc[w] \notin {"idle", "handle"}
    BY <1>20 DEF AwaitOutcome
  <2>3. /\ readers \ {w} \subseteq readers'
        /\ pc'[w] \in {"idle", "handle"} \/ w \in readers'
    BY <1>20 DEF AwaitOutcome, BarrierInv, TypeOK
  <2> QED
    BY <2>1, <2>2, <2>3, BarrierKept
<1>21. ASSUME NEW w \in Writers, AwaitVacancy(w) PROVE BarrierInv'
  <2>1. OthersKept(w)
    BY <1>21, WriterFrame DEF WriterStep
  <2>2. /\ exporter' = exporter
        /\ exporter = "idle" \/ pc[w] \notin {"idle", "handle"}
    BY <1>21 DEF AwaitVacancy
  <2>3. /\ readers \ {w} \subseteq readers'
        /\ pc'[w] \in {"idle", "handle"} \/ w \in readers'
    BY <1>21 DEF AwaitVacancy, BarrierInv, TypeOK
  <2> QED
    BY <2>1, <2>2, <2>3, BarrierKept
<1>22. ASSUME NEW w \in Writers, ClaimLeadership(w) PROVE BarrierInv'
  <2>1. OthersKept(w)
    BY <1>22, WriterFrame DEF WriterStep
  <2>2. /\ exporter' = exporter
        /\ exporter = "idle" \/ pc[w] \notin {"idle", "handle"}
    BY <1>22 DEF ClaimLeadership
  <2>3. /\ readers \ {w} \subseteq readers'
        /\ pc'[w] \in {"idle", "handle"} \/ w \in readers'
    BY <1>22 DEF ClaimLeadership, BarrierInv, TypeOK
  <2> QED
    BY <2>1, <2>2, <2>3, BarrierKept
<1>23. CASE ExportRequest
  BY <1>23 DEF ExportRequest, BarrierInv, localVars, procVars
<1>24. CASE ExportAcquire
  BY <1>24 DEF ExportAcquire, BarrierInv, localVars, procVars
<1>25. CASE ExportRelease
  BY <1>25 DEF ExportRelease, BarrierInv, localVars, procVars
<1>26. CASE Crash
  BY <1>26 DEF Crash, BarrierInv
<1>27. CASE RestartRefused
  BY <1>27 DEF RestartRefused, BarrierInv, localVars
<1>28. CASE RestartOpen
  BY <1>28 DEF RestartOpen, BarrierInv, localVars
<1>29. CASE Quiescent
  BY <1>29 DEF Quiescent, BarrierInv, vars, localVars, procVars
<1> QED
  BY <1>1, <1>2, <1>3, <1>4, <1>5, <1>6, <1>7, <1>8, <1>9, <1>10, <1>11,
     <1>12, <1>13, <1>13a, <1>14, <1>15, <1>16, <1>17, <1>18, <1>19, <1>20, <1>21,
     <1>22, <1>23, <1>24, <1>25, <1>26, <1>27, <1>28, <1>29
     DEF Next, WriterStep, FaultStep

-----------------------------------------------------------------------------
(* The queue is attended.                                                  *)

\* A step of w that changes neither who leads nor, unless w leads, the queue.
LEMMA AttendKept ==
    ASSUME TypeOK, AttendInv, NEW w \in Writers, OthersKept(w),
           UNCHANGED <<leads, leader_active, leader_vacant>>,
           IsLeader(w)' <=> IsLeader(w), pending' = pending \/ IsLeader(w),
           pc[w] \notin {"announce", "claim"}
    PROVE  AttendInv'
<1>1. \A v \in Writers : v # w => pc'[v] = pc[v]
  BY DEF OthersKept, TypeOK
<1>2. \A v \in Writers : IsLeader(v)' <=> IsLeader(v)
  BY <1>1 DEF IsLeader
<1>3. \A v \in Writers : pc[v] \in {"announce", "claim"} => pc'[v] = pc[v]
  BY <1>1
<1>4. leader_active' => \E v \in Writers : IsLeader(v)'
  BY <1>2 DEF AttendInv
<1>5. QueueAttended'
  <2>1. CASE IsLeader(w)
    BY <1>2, <2>1 DEF QueueAttended
  <2>2. CASE ~ IsLeader(w)
    <3>1. pending' = pending /\ proc' = proc
      BY <2>2 DEF OthersKept
    <3> QED
      BY <1>2, <1>3, <3>1 DEF AttendInv, QueueAttended
  <2> QED
    BY <2>1, <2>2
<1> QED
  BY <1>4, <1>5 DEF AttendInv

\* After a step that leaves somebody leading the queue has a leader.
LEMMA AttendLed ==
    ASSUME NEW v \in Writers, IsLeader(v)' PROVE AttendInv'
BY DEF AttendInv, QueueAttended

LEMMA AttendStep ==
    ASSUME TypeOK, DownInv, FailInv, AttendInv, Next
    PROVE  AttendInv'
<1> USE DEF Goto, Return, EnterBarrier, Fail, groupVars, signalVars, barrierVars
<1>1. ASSUME NEW w \in Writers, BeginWrite(w) PROVE AttendInv'
  <2>1. OthersKept(w)
    BY <1>1, WriterFrame DEF WriterStep
  <2>2. /\ UNCHANGED <<leads, leader_active, leader_vacant>>
        /\ pc[w] \notin {"announce", "claim"}
    BY <1>1 DEF BeginWrite, FlushPcs
  <2>3. IsLeader(w)' <=> IsLeader(w)
    BY <1>1 DEF BeginWrite, IsLeader, LeaderPcs, FlushPcs, TypeOK
  <2>4. pending' = pending \/ IsLeader(w)
    BY <1>1 DEF BeginWrite, IsLeader, LeaderPcs
  <2> QED
    BY <2>1, <2>2, <2>3, <2>4, AttendKept
<1>2. ASSUME NEW w \in Writers, CheckFence(w) PROVE AttendInv'
  <2>1. OthersKept(w)
    BY <1>2, WriterFrame DEF WriterStep
  <2>2. /\ UNCHANGED <<leads, leader_active, leader_vacant>>
        /\ pc[w] \notin {"announce", "claim"}
    BY <1>2 DEF CheckFence, FlushPcs
  <2>3. IsLeader(w)' <=> IsLeader(w)
    BY <1>2 DEF CheckFence, IsLeader, LeaderPcs, FlushPcs, TypeOK
  <2>4. pending' = pending \/ IsLeader(w)
    BY <1>2 DEF CheckFence, IsLeader, LeaderPcs
  <2> QED
    BY <2>1, <2>2, <2>3, <2>4, AttendKept
<1>3. ASSUME NEW w \in Writers, AwaitBatchDurable(w) PROVE AttendInv'
  <2>1. OthersKept(w)
    BY <1>3, WriterFrame DEF WriterStep
  <2>2. /\ UNCHANGED <<leads, leader_active, leader_vacant>>
        /\ pc[w] \notin {"announce", "claim"}
    BY <1>3 DEF AwaitBatchDurable, FlushPcs
  <2>3. IsLeader(w)' <=> IsLeader(w)
    BY <1>3 DEF AwaitBatchDurable, IsLeader, LeaderPcs, FlushPcs, TypeOK
  <2>4. pending' = pending \/ IsLeader(w)
    BY <1>3 DEF AwaitBatchDurable, IsLeader, LeaderPcs
  <2> QED
    BY <2>1, <2>2, <2>3, <2>4, AttendKept
<1>4. ASSUME NEW w \in Writers, LeadDrain(w) PROVE AttendInv'
  <2>1. OthersKept(w)
    BY <1>4, WriterFrame DEF WriterStep
  <2>2. /\ UNCHANGED <<leads, leader_active, leader_vacant>>
        /\ pc[w] \notin {"announce", "claim"}
    BY <1>4 DEF LeadDrain, FlushPcs
  <2>3. IsLeader(w)' <=> IsLeader(w)
    BY <1>4 DEF LeadDrain, IsLeader, LeaderPcs, FlushPcs, TypeOK, CommitEntry
  <2>4. pending' = pending \/ IsLeader(w)
    BY <1>4 DEF LeadDrain, IsLeader, LeaderPcs
  <2> QED
    BY <2>1, <2>2, <2>3, <2>4, AttendKept
<1>5. ASSUME NEW w \in Writers, FlushSwap(w) PROVE AttendInv'
  <2>1. OthersKept(w)
    BY <1>5, WriterFrame DEF WriterStep
  <2>2. /\ UNCHANGED <<leads, leader_active, leader_vacant>>
        /\ pc[w] \notin {"announce", "claim"}
    BY <1>5 DEF FlushSwap, FlushPcs
  <2>3. IsLeader(w)' <=> IsLeader(w)
    BY <1>5, FlushRoute DEF FlushSwap, IsLeader, LeaderPcs, FlushPcs, TypeOK
  <2>4. pending' = pending \/ IsLeader(w)
    BY <1>5 DEF FlushSwap, IsLeader, LeaderPcs
  <2> QED
    BY <2>1, <2>2, <2>3, <2>4, AttendKept
<1>6. ASSUME NEW w \in Writers, FlushDone(w) PROVE AttendInv'
  <2>1. OthersKept(w)
    BY <1>6, WriterFrame DEF WriterStep
  <2>2. /\ UNCHANGED <<leads, leader_active, leader_vacant>>
        /\ pc[w] \notin {"announce", "claim"}
    BY <1>6 DEF FlushDone, FlushPcs
  <2>3. IsLeader(w)' <=> IsLeader(w)
    BY <1>6, FlushRoute DEF FlushDone, IsLeader, LeaderPcs, FlushPcs, TypeOK
  <2>4. pending' = pending \/ IsLeader(w)
    BY <1>6 DEF FlushDone, IsLeader, LeaderPcs
  <2> QED
    BY <2>1, <2>2, <2>3, <2>4, AttendKept
<1>7. ASSUME NEW w \in Writers, FlushFault(w) PROVE AttendInv'
  <2>1. OthersKept(w)
    BY <1>7, WriterFrame DEF FaultStep
  <2>2. /\ UNCHANGED <<leads, leader_active, leader_vacant>>
        /\ pc[w] \notin {"announce", "claim"}
    BY <1>7 DEF FlushFault, FlushPcs
  <2>3. IsLeader(w)' <=> IsLeader(w)
    BY <1>7 DEF FlushFault, IsLeader, LeaderPcs, FlushPcs, TypeOK
  <2>4. pending' = pending \/ IsLeader(w)
    BY <1>7 DEF FlushFault, IsLeader, LeaderPcs
  <2> QED
    BY <2>1, <2>2, <2>3, <2>4, AttendKept
<1>8. ASSUME NEW w \in Writers, ReturnUnflushed(w) PROVE AttendInv'
  <2>1. OthersKept(w)
    BY <1>8, WriterFrame DEF WriterStep
  <2>2. /\ UNCHANGED <<leads, leader_active, leader_vacant>>
        /\ pc[w] \notin {"announce", "claim"}
    BY <1>8 DEF ReturnUnflushed, FlushPcs
  <2>3. IsLeader(w)' <=> IsLeader(w)
    BY <1>8 DEF ReturnUnflushed, IsLeader, LeaderPcs, FlushPcs, TypeOK
  <2>4. pending' = pending \/ IsLeader(w)
    BY <1>8 DEF ReturnUnflushed, IsLeader, LeaderPcs
  <2> QED
    BY <2>1, <2>2, <2>3, <2>4, AttendKept
<1>9. ASSUME NEW w \in Writers, RotateTruncate(w) PROVE AttendInv'
  <2>1. OthersKept(w)
    BY <1>9, WriterFrame DEF WriterStep
  <2>2. /\ UNCHANGED <<leads, leader_active, leader_vacant>>
        /\ pc[w] \notin {"announce", "claim"}
    BY <1>9 DEF RotateTruncate, FlushPcs
  <2>3. IsLeader(w)' <=> IsLeader(w)
    BY <1>9 DEF RotateTruncate, IsLeader, LeaderPcs, FlushPcs, TypeOK
  <2>4. pending' = pending \/ IsLeader(w)
    BY <1>9 DEF RotateTruncate, IsLeader, LeaderPcs
  <2> QED
    BY <2>1, <2>2, <2>3, <2>4, AttendKept
<1>9a. ASSUME NEW w \in Writers, RotateHeader(w) PROVE AttendInv'
  <2>1. OthersKept(w)
    BY <1>9a, WriterFrame DEF WriterStep
  <2>2. /\ UNCHANGED <<leads, leader_active, leader_vacant>>
        /\ pc[w] \notin {"announce", "claim"}
    BY <1>9a DEF RotateHeader, FlushPcs
  <2>3. IsLeader(w)' <=> IsLeader(w)
    BY <1>9a DEF RotateHeader, IsLeader, LeaderPcs, FlushPcs, TypeOK
  <2>4. pending' = pending \/ IsLeader(w)
    BY <1>9a DEF RotateHeader, IsLeader, LeaderPcs
  <2> QED
    BY <2>1, <2>2, <2>3, <2>4, AttendKept
<1>10. ASSUME NEW w \in Writers, RotateFault(w) PROVE AttendInv'
  <2>1. OthersKept(w)
    BY <1>10, WriterFrame DEF FaultStep
  <2>2. /\ UNCHANGED <<leads, leader_active, leader_vacant>>
        /\ pc[w] \notin {"announce", "claim"}
    BY <1>10 DEF RotateFault, FlushPcs
  <2>3. IsLeader(w)' <=> IsLeader(w)
    BY <1>10 DEF RotateFault, IsLeader, LeaderPcs, FlushPcs, TypeOK
  <2>4. pending' = pending \/ IsLeader(w)
    BY <1>10 DEF RotateFault, IsLeader, LeaderPcs
  <2> QED
    BY <2>1, <2>2, <2>3, <2>4, AttendKept
<1>11. ASSUME NEW w \in Writers, CommitWrite(w) PROVE AttendInv'
  <2>1. OthersKept(w)
    BY <1>11, WriterFrame DEF WriterStep
  <2>2. /\ UNCHANGED <<leads, leader_active, leader_vacant>>
        /\ pc[w] \notin {"announce", "claim"}
    BY <1>11 DEF CommitWrite, FlushPcs
  <2>3. IsLeader(w)' <=> IsLeader(w)
    BY <1>11 DEF CommitWrite, IsLeader, LeaderPcs, FlushPcs, TypeOK
  <2>4. pending' = pending \/ IsLeader(w)
    BY <1>11 DEF CommitWrite, IsLeader, LeaderPcs
  <2> QED
    BY <2>1, <2>2, <2>3, <2>4, AttendKept
<1>12. ASSUME NEW w \in Writers, CommitWriteFault(w) PROVE AttendInv'
  <2>1. OthersKept(w)
    BY <1>12, WriterFrame DEF FaultStep
  <2>2. /\ UNCHANGED <<leads, leader_active, leader_vacant>>
        /\ pc[w] \notin {"announce", "claim"}
    BY <1>12 DEF CommitWriteFault, FlushPcs
  <2>3. IsLeader(w)' <=> IsLeader(w)
    BY <1>12 DEF CommitWriteFault, IsLeader, LeaderPcs, FlushPcs, TypeOK
  <2>4. pending' = pending \/ IsLeader(w)
    BY <1>12 DEF CommitWriteFault, IsLeader, LeaderPcs
  <2> QED
    BY <2>1, <2>2, <2>3, <2>4, AttendKept
<1>13. ASSUME NEW w \in Writers, CommitSync(w) PROVE AttendInv'
  <2>1. OthersKept(w)
    BY <1>13, WriterFrame DEF WriterStep
  <2>2. /\ UNCHANGED <<leads, leader_active, leader_vacant>>
        /\ pc[w] \notin {"announce", "claim"}
    BY <1>13 DEF CommitSync, FlushPcs
  <2>3. IsLeader(w)' <=> IsLeader(w)
    BY <1>13 DEF CommitSync, IsLeader, LeaderPcs, FlushPcs, TypeOK
  <2>4. pending' = pending \/ IsLeader(w)
    BY <1>13 DEF CommitSync, IsLeader, LeaderPcs
  <2> QED
    BY <2>1, <2>2, <2>3, <2>4, AttendKept
<1>14. ASSUME NEW w \in Writers, CommitSyncFault(w) PROVE AttendInv'
  <2>1. OthersKept(w)
    BY <1>14, WriterFrame DEF FaultStep
  <2>2. /\ UNCHANGED <<leads, leader_active, leader_vacant>>
        /\ pc[w] \notin {"announce", "claim"}
    BY <1>14 DEF CommitSyncFault, FlushPcs
  <2>3. IsLeader(w)' <=> IsLeader(w)
    BY <1>14 DEF CommitSyncFault, IsLeader, LeaderPcs, FlushPcs, TypeOK
  <2>4. pending' = pending \/ IsLeader(w)
    BY <1>14 DEF CommitSyncFault, IsLeader, LeaderPcs
  <2> QED
    BY <2>1, <2>2, <2>3, <2>4, AttendKept
<1>15. ASSUME NEW w \in Writers, CommitPublish(w) PROVE AttendInv'
  <2>1. OthersKept(w)
    BY <1>15, WriterFrame DEF WriterStep
  <2>2. /\ UNCHANGED <<leads, leader_active, leader_vacant>>
        /\ pc[w] \notin {"announce", "claim"}
    BY <1>15 DEF CommitPublish, FlushPcs
  <2>3. IsLeader(w)' <=> IsLeader(w)
    BY <1>15 DEF CommitPublish, IsLeader, LeaderPcs, FlushPcs, TypeOK
  <2>4. pending' = pending \/ IsLeader(w)
    BY <1>15 DEF CommitPublish, IsLeader, LeaderPcs
  <2> QED
    BY <2>1, <2>2, <2>3, <2>4, AttendKept
<1>16. ASSUME NEW w \in Writers, AwaitOutcome(w) PROVE AttendInv'
  <2>1. OthersKept(w)
    BY <1>16, WriterFrame DEF WriterStep
  <2>2. /\ UNCHANGED <<leads, leader_active, leader_vacant>>
        /\ pc[w] \notin {"announce", "claim"}
    BY <1>16 DEF AwaitOutcome, FlushPcs
  <2>3. IsLeader(w)' <=> IsLeader(w)
    BY <1>16 DEF AwaitOutcome, IsLeader, LeaderPcs, FlushPcs, TypeOK
  <2>4. pending' = pending \/ IsLeader(w)
    BY <1>16 DEF AwaitOutcome, IsLeader, LeaderPcs
  <2> QED
    BY <2>1, <2>2, <2>3, <2>4, AttendKept
<1>17. ASSUME NEW w \in Writers, EnqueueSlot(w) PROVE AttendInv'
  <2>1. /\ pc[w] = "enqueue"
        /\ leads' = [leads EXCEPT ![w] = ~ leader_active]
        /\ pc' = [pc EXCEPT ![w] = IF split[w] THEN "handle"
                                   ELSE IF leader_active THEN "wait" ELSE "lead"]
    BY <1>17 DEF EnqueueSlot
  <2>2. CASE leader_active
    <3>1. PICK v \in Writers : IsLeader(v)
      BY <2>2 DEF AttendInv
    <3>2. v # w
      BY <2>1, <3>1 DEF IsLeader, LeaderPcs
    <3>3. IsLeader(v)'
      BY <2>1, <3>1, <3>2 DEF IsLeader, TypeOK
    <3> QED
      BY <3>3, AttendLed
  <2>3. CASE ~ leader_active
    <3>1. leads'[w] /\ pc'[w] \in {"handle", "lead"}
      BY <2>1, <2>3 DEF TypeOK
    <3>2. IsLeader(w)'
      BY <3>1 DEF IsLeader, LeaderPcs
    <3> QED
      BY <3>2, AttendLed
  <2> QED
    BY <2>2, <2>3
<1>18. ASSUME NEW w \in Writers, LeadExit(w) PROVE AttendInv'
  BY <1>18 DEF LeadExit, AttendInv, QueueAttended
<1>19. ASSUME NEW w \in Writers, LeadStepDown(w) PROVE AttendInv'
  <2>1. ~ leader_active' /\ pc'[w] = "announce"
    BY <1>19 DEF LeadStepDown, TypeOK
  <2> QED
    BY <2>1 DEF AttendInv, QueueAttended
<1>20. ASSUME NEW w \in Writers, AnnounceVacancy(w) PROVE AttendInv'
  <2>1. /\ UNCHANGED <<leads, leader_active>> /\ leader_vacant'
        /\ pc[w] = "announce" /\ pc' = [pc EXCEPT ![w] = "wait"]
    BY <1>20 DEF AnnounceVacancy
  <2>2. \A v \in Writers : IsLeader(v) => IsLeader(v)'
    BY <2>1 DEF IsLeader, LeaderPcs, TypeOK
  <2> QED
    BY <2>1, <2>2 DEF AttendInv, QueueAttended
<1>21. ASSUME NEW w \in Writers, AwaitVacancy(w) PROVE AttendInv'
  <2>1. /\ UNCHANGED <<leads, leader_active>>
        /\ pc[w] = "wait" /\ pc' = [pc EXCEPT ![w] = "claim"]
    BY <1>21 DEF AwaitVacancy
  <2>2. \A v \in Writers : IsLeader(v) => IsLeader(v)'
    BY <2>1 DEF IsLeader, LeaderPcs, TypeOK
  <2>3. pc'[w] = "claim"
    BY <2>1 DEF TypeOK
  <2> QED
    BY <2>1, <2>2, <2>3 DEF AttendInv, QueueAttended
<1>22. ASSUME NEW w \in Writers, ClaimLeadership(w) PROVE AttendInv'
  <2>1. pc[w] = "claim" /\ leads' = leads /\ pending' = pending
    BY <1>22 DEF ClaimLeadership
  <2>2. CASE leader_active
    <3>1. PICK v \in Writers : IsLeader(v)
      BY <2>2 DEF AttendInv
    <3>2. pc' = [pc EXCEPT ![w] = "wait"]
      BY <1>22, <2>2 DEF ClaimLeadership, ClaimLost
    <3>3. v # w
      BY <2>1, <3>1 DEF IsLeader, LeaderPcs
    <3>4. IsLeader(v)'
      BY <2>1, <3>1, <3>2, <3>3 DEF IsLeader, TypeOK
    <3> QED
      BY <3>4, AttendLed
  <2>3. CASE ~ leader_active /\ pending = <<>>
    <3>1. leader_active' = leader_active
      BY <1>22, <2>3 DEF ClaimLeadership, ClaimLost
    <3> QED
      BY <2>1, <2>3, <3>1 DEF AttendInv, QueueAttended
  <2>4. CASE ~ leader_active /\ pending # <<>>
    <3>1. pc'[w] = "lead"
      BY <1>22, <2>4 DEF ClaimLeadership, ClaimLost, TypeOK
    <3>2. IsLeader(w)'
      BY <3>1 DEF IsLeader, LeaderPcs
    <3> QED
      BY <3>2, AttendLed
  <2> QED
    BY <2>2, <2>3, <2>4
<1>23. CASE Crash
  BY <1>23 DEF Crash, AttendInv, QueueAttended
<1>24. CASE RestartOpen
  <2>1. UNCHANGED <<pc, leads, leader_active, pending>> /\ pending = <<>>
    BY <1>24 DEF RestartOpen, DownInv, localVars
  <2> QED
    BY <2>1 DEF AttendInv, QueueAttended, IsLeader
<1>25. CASE \/ ExportRequest \/ ExportAcquire \/ ExportRelease
         \/ RestartRefused \/ Quiescent
  <2>1. /\ UNCHANGED <<pc, leads, leader_active, pending, leader_vacant>>
        /\ proc' = proc \/ proc' = "refused"
    BY <1>25, OthersFrame DEF localVars
  <2> QED
    BY <2>1 DEF AttendInv, QueueAttended, IsLeader
<1> QED
  BY <1>1, <1>2, <1>3, <1>4, <1>5, <1>6, <1>7, <1>8, <1>9, <1>9a, <1>10, <1>11,
     <1>12, <1>13, <1>14, <1>15, <1>16, <1>17, <1>18, <1>19, <1>20, <1>21,
     <1>22, <1>23, <1>24, <1>25
     DEF Next, WriterStep, FaultStep

-----------------------------------------------------------------------------
(* Without a fault the segment stays intact.                               *)

\* A segment on which every record authenticates opens.
LEMMA IntactOpens ==
    ASSUME NEW s \in Seq(Record), Intact(s)
    PROVE  ~ ScanRefuses(s)
<1> SUFFICES ASSUME NEW i \in 1..Len(s), ~ Good(s, i),
                    s[i].whole \/ \E j \in (i + 1)..Len(s) : s[j].whole
             PROVE  FALSE
  BY DEF ScanRefuses
<1>1. i = Len(s) /\ ~ s[i].whole
  BY DEF Intact
<1>2. Len(s) \in Nat
  OBVIOUS
<1> QED
  BY <1>1, <1>2

\* t is made of the first n records of s and perhaps a torn one.
CutOf(t, s, n) ==
    \A i \in 1..Len(t) : \/ i \in 1..n /\ t[i] = s[i]
                         \/ i = Len(t) /\ t[i].whole = FALSE

\* What a crash leaves of the segment.
LEMMA CrashCuts ==
    ASSUME NEW s \in Seq(Record), NEW n \in 0..Len(s), NEW tail \in {<<Torn>>, <<>>},
           NEW t, t = SubSeq(s, 1, n) \o tail
    PROVE  CutOf(t, s, n)
<1> DEFINE cut == SubSeq(s, 1, n)
<1>1. /\ tail \in Seq(Record) /\ Len(tail) \in 0..1
      /\ \A i \in 1..Len(tail) : tail[i].whole = FALSE
  <2>1. Torn \in Record /\ Torn.whole = FALSE
    BY DEF Torn, Record
  <2>2. CASE tail = <<Torn>>
    BY <2>1, <2>2
  <2>3. CASE tail = <<>>
    BY <2>3
  <2> QED
    BY <2>2, <2>3
<1>2. /\ cut \in Seq(Record) /\ Len(cut) = n
      /\ \A i \in 1..n : cut[i] = s[i]
  OBVIOUS
<1>3. t = cut \o tail
  OBVIOUS
<1> HIDE DEF cut
<1>4. /\ Len(t) = n + Len(tail)
      /\ \A i \in 1..(n + Len(tail)) : t[i] = IF i <= n THEN cut[i] ELSE tail[i - n]
  <2>1. /\ Len(cut \o tail) = Len(cut) + Len(tail)
        /\ \A i \in 1..Len(cut) + Len(tail) : (cut \o tail)[i] =
              IF i <= Len(cut) THEN cut[i] ELSE tail[i - Len(cut)]
    BY <1>1, <1>2, ConcatProperties
  <2> QED
    BY <1>2, <1>3, <2>1
<1>5. n \in Nat /\ Len(tail) \in Nat
  BY <1>1
<1> SUFFICES ASSUME NEW i \in 1..Len(t)
             PROVE  \/ i \in 1..n /\ t[i] = s[i]
                    \/ i = Len(t) /\ t[i].whole = FALSE
  BY DEF CutOf
<1>6. i \in 1..(n + Len(tail)) /\ i \in Nat
  BY <1>4, <1>5
<1>7. CASE i <= n
  <2>1. i \in 1..n
    BY <1>5, <1>6, <1>7
  <2>2. t[i] = cut[i]
    BY <1>4, <1>6, <1>7
  <2> QED
    BY <1>2, <2>1, <2>2
<1>8. CASE ~ (i <= n)
  <2>1. i - n \in 1..Len(tail) /\ i = n + Len(tail)
    <3>1. PICK k \in 0..1 : k = Len(tail)
      BY <1>1
    <3>2. i \in 1..(n + k)
      BY <1>6, <3>1
    <3>3. i - n \in 1..k /\ i = n + k
      BY <1>5, <1>8, <3>2
    <3> QED
      BY <3>1, <3>3
  <2>2. t[i] = tail[i - n]
    BY <1>4, <1>6, <1>8
  <2>3. t[i].whole = FALSE
    BY <1>1, <2>1, <2>2
  <2> QED
    BY <1>4, <2>1, <2>3
<1> QED
  BY <1>7, <1>8

\* What a crash leaves of a segment of good records is intact.
LEMMA IntactCut ==
    ASSUME NEW s \in Seq(Record), GoodPrefix(s, Len(s)),
           NEW n \in 0..Len(s), NEW tail \in {<<Torn>>, <<>>},
           NEW t, t = SubSeq(s, 1, n) \o tail
    PROVE  Intact(t)
<1>1. CutOf(t, s, n)
  BY CrashCuts
<1>2. \A i \in 1..n : i \in 1..Len(s)
  OBVIOUS
<1> QED
  BY <1>1, <1>2 DEF CutOf, Intact, GoodPrefix, Good

\* A step of w that neither fails nor publishes.
LEMMA CleanKept ==
    ASSUME TypeOK, Clean, NEW w \in Writers, OthersKept(w), ~ failed'[w],
           failed_from' = failed_from
    PROVE  Clean'
BY DEF Clean, OthersKept

LEMMA FaultFreeStep ==
    ASSUME IInv, FaultInv, Next, CleanInv'
    PROVE  FaultInv'
<1> USE DEF Goto, Return, Fail, Fault, signalVars, histVars
<1>1. ASSUME proc' = "up", Clean' PROVE FaultInv'
  <2>1. (header' = "ok" \/ seg' = <<>>) /\ GoodPrefix(seg', Len(seg'))
    BY <1>1 DEF CleanInv, GoodPrefix
  <2> QED
    BY <1>1, <2>1 DEF FaultInv, Intact, GoodPrefix
<1>2. ASSUME NEW w \in Writers, BeginWrite(w) \/ WriterStep(w) \/ FaultStep(w)
      PROVE  OthersKept(w) /\ proc' = "up"
  BY <1>2, WriterFrame, WriterUp DEF IInv
<1>3. ASSUME NEW w \in Writers, faults' = faults, Clean => Clean',
             BeginWrite(w) \/ WriterStep(w) \/ FaultStep(w)
      PROVE  FaultInv'
  BY <1>1, <1>2, <1>3 DEF FaultInv
<1>4. ASSUME NEW w \in Writers, Bookkeeping(w) PROVE FaultInv'
  <2>1. OthersKept(w) /\ Bookkept(w)
    BY <1>4, WriterFrame, BookkeepingFrame DEF Bookkeeping, WriterStep, IInv
  <2>2. faults' = faults
    BY <1>4 DEF Bookkeeping, BeginWrite, CheckFence, AwaitBatchDurable, LeadExit,
                LeadStepDown, AnnounceVacancy, LeadDrain, ReturnUnflushed,
                CommitPublish, AwaitOutcome, AwaitVacancy, ClaimLeadership
  <2>3. ASSUME Clean PROVE Clean'
    <3>1. failed_from' = failed_from
      <4>1. CASE CommitPublish(w)
        BY <2>3, <4>1 DEF CommitPublish, FailedFrom, Clean
      <4> QED
        BY <2>1, <4>1 DEF Bookkept
    <3>2. ~ failed'[w]
      BY <2>1 DEF Bookkept
    <3> QED
      BY <2>1, <2>3, <3>1, <3>2, CleanKept DEF IInv
  <2> QED
    BY <1>3, <1>4, <2>2, <2>3 DEF Bookkeeping, WriterStep
<1>5. ASSUME NEW w \in Writers,
             \/ EnqueueSlot(w) \/ FlushSwap(w) \/ FlushDone(w)
             \/ RotateTruncate(w) \/ RotateHeader(w) \/ CommitWrite(w)
             \/ CommitSync(w)
      PROVE  FaultInv'
  <2>1. UNCHANGED <<failed, failed_from, faults>>
    BY <1>5 DEF EnqueueSlot, FlushSwap, FlushDone, RotateTruncate, RotateHeader,
                CommitWrite, CommitSync
  <2>2. Clean => Clean'
    BY <2>1 DEF Clean
  <2> QED
    BY <1>3, <1>5, <2>1, <2>2 DEF WriterStep
<1>6. ASSUME NEW w \in Writers,
             \/ FlushFault(w) \/ RotateFault(w) \/ CommitWriteFault(w)
             \/ CommitSyncFault(w)
      PROVE  FaultInv'
  <2>1. faults' = faults + 1
    BY <1>6 DEF FlushFault, RotateFault, CommitWriteFault, CommitSyncFault
  <2>2. faults \in Nat
    BY DEF IInv, TypeOK
  <2> QED
    BY <2>1, <2>2 DEF FaultInv
<1>7. CASE Crash
  <2> SUFFICES ASSUME faults = 0
               PROVE  Clean' /\ (header' = "ok" \/ seg' = <<>>) /\ Intact(seg')
    BY <1>7 DEF Crash, FaultInv
  <2>1. Clean' /\ header' = header /\ proc = "up"
    BY <1>7 DEF Crash, Clean
  <2>2. (header = "ok" \/ seg = <<>>) /\ GoodPrefix(seg, Len(seg))
    BY <2>1 DEF FaultInv, IInv, CleanInv, GoodPrefix
  <2>3. PICK n \in synced..Len(seg), torn \in BOOLEAN :
             seg' = SubSeq(seg, 1, n)
                    \o (IF torn /\ n < Len(seg) THEN <<Torn>> ELSE <<>>)
    BY <1>7 DEF Crash
  <2>4. seg \in Seq(Record) /\ n \in 0..Len(seg)
    BY DEF IInv, TypeOK
  <2> DEFINE tail == IF torn /\ n < Len(seg) THEN <<Torn>> ELSE <<>>
  <2>5. tail \in {<<Torn>>, <<>>} /\ seg' = SubSeq(seg, 1, n) \o tail
    BY <2>3
  <2> HIDE DEF tail
  <2>6. Intact(seg')
    BY <2>2, <2>4, <2>5, IntactCut
  <2>7. ASSUME seg = <<>> PROVE seg' = <<>>
    <3>1. Len(seg) = 0 /\ n = 0
      BY <2>4, <2>7
    <3>2. SubSeq(seg, 1, n) = <<>>
      BY <2>7, <3>1
    <3> QED
      BY <2>3, <3>1, <3>2
  <2> QED
    BY <2>1, <2>2, <2>6, <2>7
<1>8. CASE RestartOpen
  <2>1. UNCHANGED <<failed, failed_from, faults>> /\ proc' = "up"
    BY <1>8 DEF RestartOpen, localVars
  <2> QED
    BY <1>1, <2>1 DEF FaultInv, Clean
<1>9. CASE \/ ExportRequest \/ ExportAcquire \/ ExportRelease
         \/ RestartRefused \/ Quiescent
  <2>1. UNCHANGED <<failed, failed_from, seg, header>>
    BY <1>9, OthersFrame DEF localVars, fileVars
  <2>2. faults' = faults
    BY <1>9 DEF ExportRequest, ExportAcquire, ExportRelease, RestartRefused,
                Quiescent, vars
  <2> QED
    BY <2>1, <2>2 DEF FaultInv, Clean
<1> QED
  BY <1>4, <1>5, <1>6, <1>7, <1>8, <1>9, NextCases

-----------------------------------------------------------------------------
(* The order of the records.                                               *)

\* The commit of w's batch is past its write.
Late(w) == pc[w] \in {"sync", "publish"}

\* Ids are natural numbers, so a bound may be raised.
LEMMA BelowRaised ==
    ASSUME TypeOK, NEW m \in Nat, NEW n \in Nat, m <= n, Below(m)
    PROVE  Below(n)
<1> SUFFICES ASSUME NEW i \in 1..Len(seg), seg[i].whole PROVE seg[i].id <= n
  BY DEF Below
<1>1. seg[i].id \in Nat
  <2>1. seg[i] \in Record
    BY DEF TypeOK
  <2> QED
    BY <2>1 DEF Record
<1>2. seg[i].id <= m
  BY DEF Below
<1> QED
  BY <1>1, <1>2

\* Only the leader is past a write.
LEMMA LateAlone ==
    ASSUME LeaderInv, NEW w \in Writers, IsLeader(w), NEW v \in Writers, Late(v)
    PROVE  v = w
BY DEF LeaderInv, IsLeader, LeaderPcs, Late

\* A step of w that leaves the segment and the watermark alone, outside the
\* end of a commit or within its own commit.
LEMMA OrderKept ==
    ASSUME TypeOK, LeaderInv, OrderInv, NEW w \in Writers, OthersKept(w),
           UNCHANGED <<seg, completed>>,
           \/ ~ Late(w)' /\ ~ Late(w)
           \/ batch' = batch /\ IsLeader(w) /\ Late(w)'
    PROVE  OrderInv'
<1>1. base' = base /\ \A v \in Writers : v # w => pc'[v] = pc[v] /\ batch'[v] = batch[v]
  BY DEF OthersKept, TypeOK
<1>2. \A v \in Writers : v # w => (Late(v)' <=> Late(v))
  BY <1>1 DEF Late
<1>3. WalOrder'
  BY DEF OrderInv, WalOrder
<1>4. completed \in Nat /\ base \in Nat /\ \A v \in Writers : Len(batch[v]) \in Nat
  BY DEF TypeOK
<1>5. ASSUME \A v \in Writers : ~ Late(v)' PROVE Below(base + completed)'
  <2>1. \A v \in Writers : ~ Late(v)
    BY <1>2, <1>5
  <2>2. Below(base + completed)
    BY <2>1 DEF OrderInv, Late
  <2> QED
    BY <1>1, <2>2 DEF Below
<1>6. ASSUME NEW v \in Writers, Late(v)'
      PROVE  Below(base + completed + Len(batch[v]))'
  <2>1. batch'[v] = batch[v]
    BY <1>1, <1>6
  <2>2. Below(base + completed + Len(batch[v]))
    <3>1. CASE Late(v)
      BY <3>1 DEF OrderInv, Late
    <3>2. CASE ~ Late(v)
      <4>1. v = w /\ IsLeader(w)
        BY <1>2, <1>6, <3>2
      <4>2. \A u \in Writers : ~ Late(u)
        BY <3>2, <4>1, LateAlone
      <4>3. Below(base + completed)
        BY <4>2 DEF OrderInv, Late
      <4>4. /\ base + completed \in Nat /\ base + completed + Len(batch[v]) \in Nat
            /\ base + completed <= base + completed + Len(batch[v])
        <5>1. PICK k \in Nat : k = Len(batch[v])
          BY <1>4
        <5>2. base + completed \in Nat
          BY <1>4
        <5>3. base + completed + k \in Nat /\ base + completed <= base + completed + k
          BY <1>4
        <5> QED
          BY <5>1, <5>2, <5>3
      <4> QED
        BY <4>3, <4>4, BelowRaised
    <3> QED
      BY <3>1, <3>2
  <2> QED
    BY <1>1, <2>1, <2>2 DEF Below
<1> QED
  BY <1>3, <1>5, <1>6 DEF OrderInv, Late

\* A segment with nothing in it.
LEMMA OrderEmpty ==
    ASSUME seg' = <<>> PROVE OrderInv'
BY DEF OrderInv, WalOrder, Below

\* The write of a batch: its records go past everything in the segment.
LEMMA OrderAppended ==
    ASSUME TypeOK, LeaderInv, TicketInv, OrderInv, NEW w \in Writers,
           OthersKept(w), Appended(w), pc[w] = "write", Late(w)',
           batch' = batch, completed' = completed, seg' \in Seq(Record)
    PROVE  OrderInv'
<1>1. base' = base /\ \A v \in Writers : v # w => pc'[v] = pc[v]
  BY DEF OthersKept, TypeOK
<1>2. IsLeader(w) /\ ~ Late(w)
  BY DEF IsLeader, LeaderPcs, Late
<1>3. \A v \in Writers : ~ Late(v)
  BY <1>2, LateAlone
<1>4. \A v \in Writers : Late(v)' => v = w
  BY <1>1, <1>3 DEF Late
<1>5. Below(base + completed)
  BY <1>3 DEF OrderInv, Late
<1>6. Tickets(batch[w], completed)
  BY DEF TicketInv, CommitPcs, LeaderPcs
<1>7. /\ completed \in Nat /\ base \in Nat /\ Len(batch[w]) \in Nat
      /\ Len(seg) \in Nat /\ Len(seg') \in Nat
  BY DEF TypeOK
<1>8. ASSUME NEW i \in 1..Len(seg'), seg'[i].whole, i <= Len(seg)
      PROVE  i \in 1..Len(seg) /\ seg'[i] = seg[i] /\ seg'[i].id <= base + completed
  <2>1. i \in 1..Len(seg)
    BY <1>7, <1>8
  <2>2. seg'[i] = seg[i]
    BY <2>1 DEF Appended
  <2> QED
    BY <1>5, <1>8, <2>1, <2>2 DEF Below
<1>9. ASSUME NEW i \in 1..Len(seg'), seg'[i].whole, i > Len(seg)
      PROVE  /\ seg'[i].id = base + completed + (i - Len(seg))
             /\ i - Len(seg) \in 1..Len(batch[w])
  <2>1. /\ i - Len(seg) \in 1..Len(batch[w])
        /\ seg'[i].id = base + batch[w][i - Len(seg)]
    BY <1>9 DEF Appended
  <2>2. batch[w][i - Len(seg)] = completed + (i - Len(seg))
    BY <1>6, <2>1 DEF Tickets
  <2> QED
    BY <1>7, <2>1, <2>2
<1>10. WalOrder'
  <2> SUFFICES ASSUME NEW i \in 1..Len(seg'), NEW j \in 1..Len(seg'), i < j,
                      seg'[i].whole, seg'[j].whole
               PROVE  seg'[i].id < seg'[j].id
    BY DEF WalOrder
  <2>0. seg'[i].id \in Nat /\ seg'[j].id \in Nat
    <3>1. seg'[i] \in Record /\ seg'[j] \in Record
      OBVIOUS
    <3> QED
      BY <3>1 DEF Record
  <2>1. CASE j <= Len(seg)
    <3>1. i <= Len(seg)
      BY <1>7, <2>1
    <3>2. /\ i \in 1..Len(seg) /\ seg'[i] = seg[i]
          /\ j \in 1..Len(seg) /\ seg'[j] = seg[j]
      BY <1>8, <2>1, <3>1
    <3> QED
      BY <3>2 DEF OrderInv, WalOrder
  <2>2. CASE j > Len(seg) /\ i <= Len(seg)
    <3>1. seg'[i].id <= base + completed
      BY <1>8, <2>2
    <3>2. seg'[j].id = base + completed + (j - Len(seg)) /\ j - Len(seg) >= 1
      BY <1>7, <1>9, <2>2
    <3> QED
      BY <1>7, <2>0, <3>1, <3>2
  <2>3. CASE j > Len(seg) /\ i > Len(seg)
    <3>1. /\ seg'[i].id = base + completed + (i - Len(seg))
          /\ seg'[j].id = base + completed + (j - Len(seg))
      BY <1>9, <2>3
    <3> QED
      BY <1>7, <3>1
  <2> QED
    BY <1>7, <2>1, <2>2, <2>3
<1>11. Below(base + completed + Len(batch[w]))'
  <2> SUFFICES ASSUME NEW i \in 1..Len(seg'), seg'[i].whole
               PROVE  seg'[i].id <= base + completed + Len(batch[w])
    BY <1>1 DEF Below
  <2>0. seg'[i].id \in Nat
    <3>1. seg'[i] \in Record
      OBVIOUS
    <3> QED
      BY <3>1 DEF Record
  <2>1. CASE i <= Len(seg)
    <3>1. seg'[i].id <= base + completed
      BY <1>8, <2>1
    <3> QED
      BY <1>7, <2>0, <3>1
  <2>2. CASE i > Len(seg)
    <3>1. /\ seg'[i].id = base + completed + (i - Len(seg))
          /\ i - Len(seg) \in 1..Len(batch[w])
      BY <1>9, <2>2
    <3> QED
      BY <1>7, <3>1
  <2>3. i <= Len(seg) \/ i > Len(seg)
    BY <1>7
  <2> QED
    BY <2>1, <2>2, <2>3
<1> QED
  BY <1>4, <1>10, <1>11 DEF OrderInv, Late

\* Cutting records off the end, and a torn one in their place, keeps order.
LEMMA OrderCut ==
    ASSUME TypeOK, OrderInv, NEW n \in Nat, Below(n),
           \A i \in 1..Len(seg') : seg'[i].whole => i \in 1..Len(seg) /\ seg'[i] = seg[i]
    PROVE  WalOrder' /\ \A i \in 1..Len(seg') : seg'[i].whole => seg'[i].id <= n
<1>1. WalOrder'
  BY DEF OrderInv, WalOrder
<1> QED
  BY <1>1 DEF Below

LEMMA OrderStep ==
    ASSUME IInv, OrderInv, Next
    PROVE  OrderInv'
<1> USE DEF Goto, Return, Fail, fileVars, signalVars, IInv
<1>1. ASSUME NEW w \in Writers, Bookkeeping(w), ~ CommitPublish(w) PROVE OrderInv'
  <2>1. OthersKept(w) /\ Bookkept(w)
    BY <1>1, WriterFrame, BookkeepingFrame DEF Bookkeeping, WriterStep
  <2>2. pc[w] \notin {"sync", "publish"}
    BY <1>1 DEF Bookkeeping, BeginWrite, CheckFence, AwaitBatchDurable, LeadExit,
                LeadStepDown, AnnounceVacancy, LeadDrain, ReturnUnflushed,
                AwaitOutcome, AwaitVacancy, ClaimLeadership
  <2>3. UNCHANGED <<seg, completed>> /\ ~ Late(w)' /\ ~ Late(w)
    BY <1>1, <2>1, <2>2 DEF Bookkept, Late
  <2> QED
    BY <2>1, <2>3, OrderKept
<1>2. ASSUME NEW w \in Writers, CommitPublish(w) PROVE OrderInv'
  <2>1. OthersKept(w) /\ UNCHANGED seg
    BY <1>2, WriterFrame DEF WriterStep, CommitPublish
  <2>2. pc[w] = "publish" /\ pc'[w] = "lead"
    BY <1>2 DEF CommitPublish, TypeOK
  <2>3. IsLeader(w) /\ Late(w)
    BY <2>2 DEF IsLeader, LeaderPcs, Late
  <2>4. \A v \in Writers : ~ Late(v)'
    <3> SUFFICES ASSUME NEW v \in Writers, Late(v)' PROVE FALSE
      OBVIOUS
    <3>1. v # w
      BY <2>2 DEF Late
    <3>2. Late(v)
      BY <2>1, <3>1 DEF OthersKept, TypeOK, Late
    <3> QED
      BY <2>3, <3>1, <3>2, LateAlone
  <2>5. completed' = completed + Len(batch[w])
    <3>1. completed' = Larger(completed, batch[w][Len(batch[w])])
      BY <1>2 DEF CommitPublish
    <3>2. Len(batch[w]) > 0 /\ Tickets(batch[w], completed)
      BY <2>2 DEF TicketInv, CommitPcs, LeaderPcs
    <3>3. Len(batch[w]) \in Nat /\ completed \in Nat
      BY DEF TypeOK
    <3>4. batch[w][Len(batch[w])] = completed + Len(batch[w])
      BY <3>2, <3>3 DEF Tickets
    <3> QED
      BY <3>1, <3>2, <3>3, <3>4 DEF Larger
  <2>6. Below(base + completed + Len(batch[w]))
    BY <2>3 DEF OrderInv, Late
  <2>7. base' + completed' = base + completed + Len(batch[w])
    BY <2>1, <2>5 DEF OthersKept, TypeOK
  <2>8. Below(base + completed)'
    BY <2>1, <2>6, <2>7 DEF Below
  <2>9. WalOrder'
    BY <2>1 DEF OrderInv, WalOrder
  <2> QED
    BY <2>4, <2>8, <2>9 DEF OrderInv, Late
<1>3. ASSUME NEW w \in Writers, EnqueueSlot(w) PROVE OrderInv'
  <2>1. OthersKept(w) /\ UNCHANGED <<seg, completed>>
    BY <1>3, WriterFrame DEF WriterStep, EnqueueSlot
  <2>2. ~ Late(w)' /\ ~ Late(w)
    BY <1>3 DEF EnqueueSlot, Late, TypeOK
  <2> QED
    BY <2>1, <2>2, OrderKept
<1>4. ASSUME NEW w \in Writers, FlushSwap(w) PROVE OrderInv'
  <2>1. OthersKept(w) /\ UNCHANGED <<seg, completed>>
    BY <1>4, WriterFrame DEF WriterStep, FlushSwap
  <2>2. ~ Late(w)' /\ ~ Late(w)
    BY <1>4, FlushRoute DEF FlushSwap, Late, TypeOK
  <2> QED
    BY <2>1, <2>2, OrderKept
<1>5. ASSUME NEW w \in Writers, FlushDone(w) PROVE OrderInv'
  <2>1. OthersKept(w) /\ UNCHANGED <<seg, completed>>
    BY <1>5, WriterFrame DEF WriterStep, FlushDone
  <2>2. ~ Late(w)' /\ ~ Late(w)
    BY <1>5, FlushRoute DEF FlushDone, FlushPcs, Late, TypeOK
  <2> QED
    BY <2>1, <2>2, OrderKept
<1>6. ASSUME NEW w \in Writers, FlushFault(w) PROVE OrderInv'
  <2>1. OthersKept(w) /\ UNCHANGED <<seg, completed, batch>>
    BY <1>6, WriterFrame DEF FaultStep, FlushFault
  <2>2. CASE pc[w] = "ret_flush"
    <3>1. ~ Late(w)' /\ ~ Late(w)
      BY <1>6, <2>2 DEF FlushFault, Late, TypeOK
    <3> QED
      BY <2>1, <3>1, OrderKept
  <2>3. CASE pc[w] # "ret_flush"
    <3>1. IsLeader(w) /\ Late(w)'
      BY <1>6, <2>3 DEF FlushFault, FlushPcs, IsLeader, LeaderPcs, Late, TypeOK
    <3> QED
      BY <2>1, <3>1, OrderKept
  <2> QED
    BY <2>2, <2>3
<1>7. ASSUME NEW w \in Writers, RotateTruncate(w) PROVE OrderInv'
  <2>1. seg' = <<>>
    BY <1>7 DEF RotateTruncate
  <2> QED
    BY <2>1, OrderEmpty
<1>7a. ASSUME NEW w \in Writers, RotateHeader(w) PROVE OrderInv'
  <2>1. OthersKept(w) /\ UNCHANGED <<seg, completed>>
    BY <1>7a, WriterFrame DEF WriterStep, RotateHeader
  <2>2. ~ Late(w)' /\ ~ Late(w)
    BY <1>7a DEF RotateHeader, Late, TypeOK
  <2> QED
    BY <2>1, <2>2, OrderKept
<1>7b. ASSUME NEW w \in Writers, RotateFault(w) PROVE OrderInv'
  <2>1. OthersKept(w) /\ UNCHANGED <<seg, completed, batch>>
    BY <1>7b, WriterFrame DEF FaultStep, RotateFault
  <2>2. IsLeader(w) /\ Late(w)'
    BY <1>7b DEF RotateFault, IsLeader, LeaderPcs, Late, TypeOK
  <2> QED
    BY <2>1, <2>2, OrderKept
<1>8. ASSUME NEW w \in Writers, CommitWrite(w) PROVE OrderInv'
  <2>1. OthersKept(w) /\ Appended(w)
    BY <1>8, WriterFrame, CommitWriteAppends DEF WriterStep
  <2>2. pc[w] = "write" /\ Late(w)' /\ batch' = batch /\ completed' = completed
    BY <1>8 DEF CommitWrite, Late, TypeOK
  <2>3. seg' \in Seq(Record)
    BY <1>8, IInvStep DEF Next, WriterStep, TypeOK
  <2> QED
    BY <2>1, <2>2, <2>3, OrderAppended
<1>9. ASSUME NEW w \in Writers, CommitWriteFault(w) PROVE OrderInv'
  <2>1. OthersKept(w) /\ Appended(w)
    BY <1>9, WriterFrame, CommitWriteFaultAppends DEF FaultStep
  <2>2. pc[w] = "write" /\ Late(w)' /\ batch' = batch /\ completed' = completed
    BY <1>9 DEF CommitWriteFault, Late, TypeOK
  <2>3. seg' \in Seq(Record)
    BY <1>9, IInvStep DEF Next, FaultStep, TypeOK
  <2> QED
    BY <2>1, <2>2, <2>3, OrderAppended
<1>10. ASSUME NEW w \in Writers, CommitSync(w) PROVE OrderInv'
  <2>1. OthersKept(w) /\ UNCHANGED <<seg, completed, batch>>
    BY <1>10, WriterFrame DEF WriterStep, CommitSync
  <2>2. IsLeader(w) /\ Late(w)'
    BY <1>10 DEF CommitSync, IsLeader, LeaderPcs, Late, TypeOK
  <2> QED
    BY <2>1, <2>2, OrderKept
<1>11. ASSUME NEW w \in Writers, CommitSyncFault(w) PROVE OrderInv'
  <2>1. OthersKept(w) /\ UNCHANGED <<seg, completed, batch>>
    BY <1>11, WriterFrame DEF FaultStep, CommitSyncFault
  <2>2. IsLeader(w) /\ Late(w)'
    BY <1>11 DEF CommitSyncFault, IsLeader, LeaderPcs, Late, TypeOK
  <2> QED
    BY <2>1, <2>2, OrderKept
<1>12. CASE Crash
  <2>1. PICK n \in synced..Len(seg), torn \in BOOLEAN :
             seg' = SubSeq(seg, 1, n)
                    \o (IF torn /\ n < Len(seg) THEN <<Torn>> ELSE <<>>)
    BY <1>12 DEF Crash
  <2>2. seg \in Seq(Record) /\ n \in 0..Len(seg)
    BY DEF TypeOK
  <2>3. CutOf(seg', seg, n)
    <3> DEFINE tail == IF torn /\ n < Len(seg) THEN <<Torn>> ELSE <<>>
    <3>1. tail \in {<<Torn>>, <<>>} /\ seg' = SubSeq(seg, 1, n) \o tail
      BY <2>1
    <3> HIDE DEF tail
    <3> QED
      BY <2>2, <3>1, CrashCuts
  <2>4. \A i \in 1..Len(seg') : seg'[i].whole => i \in 1..Len(seg) /\ seg'[i] = seg[i]
    BY <2>2, <2>3 DEF CutOf
  <2>5. /\ base' = base + next_ticket - 1 /\ completed' = 0
        /\ \A v \in Writers : pc'[v] = "idle"
    BY <1>12 DEF Crash
  <2>6. base' \in Nat /\ Below(base')
    <3>0. /\ base \in Nat /\ completed \in Nat /\ next_ticket \in Nat \ {0}
          /\ Len(pending) \in Nat
      BY DEF TypeOK
    <3>1. base' \in Nat
      BY <2>5, <3>0
    <3>2. ASSUME NEW w \in Writers, Late(w) PROVE Below(base')
      <4>1. /\ next_ticket = completed + Len(batch[w]) + Len(pending) + 1
            /\ Len(batch[w]) \in Nat
        BY <3>2 DEF TicketInv, Late, CommitPcs, LeaderPcs, TypeOK
      <4>2. Below(base + completed + Len(batch[w]))
        BY <3>2 DEF OrderInv, Late
      <4>3. /\ base + completed + Len(batch[w]) \in Nat
            /\ base + completed + Len(batch[w]) <= base'
        <5>1. base' = base + next_ticket - 1
          BY <2>5
        <5>2. PICK k \in Nat : k = Len(batch[w])
          BY <4>1
        <5>3. PICK m \in Nat : m = Len(pending)
          BY <3>0
        <5>4. base' = base + (completed + k + m + 1) - 1
          BY <4>1, <5>1, <5>2, <5>3
        <5>5. base + completed + k \in Nat /\ base + completed + k <= base'
          BY <3>0, <5>4
        <5> QED
          BY <5>2, <5>5
      <4> QED
        BY <3>1, <4>2, <4>3, BelowRaised
    <3>3. ASSUME \A w \in Writers : ~ Late(w) PROVE Below(base')
      <4>1. completed < next_ticket
        BY CompletedIssued
      <4>2. Below(base + completed)
        BY <3>3 DEF OrderInv, Late
      <4>3. base + completed \in Nat /\ base + completed <= base'
        BY <2>5, <3>0, <4>1
      <4> QED
        BY <3>1, <4>2, <4>3, BelowRaised
    <3> QED
      BY <3>1, <3>2, <3>3
  <2>7. WalOrder' /\ \A i \in 1..Len(seg') : seg'[i].whole => seg'[i].id <= base'
    <3>1. PICK m \in Nat : m = base'
      BY <2>6
    <3> QED
      BY <2>4, <2>6, <3>1, OrderCut
  <2>8. base' + completed' = base'
    BY <2>5, <2>6
  <2>9. Below(base + completed)'
    BY <2>7, <2>8 DEF Below
  <2> QED
    BY <2>5, <2>7, <2>9 DEF OrderInv
<1>13. CASE RestartOpen
  <2>1. PICK n \in 0..Len(seg) : seg' = SubSeq(seg, 1, n)
    BY <1>13 DEF RestartOpen
  <2>2. Len(seg') = n /\ \A i \in 1..n : i \in 1..Len(seg) /\ seg'[i] = seg[i]
    BY <2>1 DEF TypeOK
  <2>3. UNCHANGED <<base, completed, pc>> /\ \A v \in Writers : pc[v] = "idle"
    BY <1>13 DEF RestartOpen, DownInv, localVars, histVars
  <2>4. Below(base + completed)
    BY <2>3 DEF OrderInv
  <2>5. WalOrder'
    BY <2>2 DEF OrderInv, WalOrder
  <2>6. Below(base + completed)'
    BY <2>2, <2>3, <2>4 DEF Below
  <2> QED
    BY <2>3, <2>5, <2>6 DEF OrderInv
<1>14. CASE \/ ExportRequest \/ ExportAcquire \/ ExportRelease
         \/ RestartRefused \/ Quiescent
  <2>1. UNCHANGED <<seg, pc, base, completed, batch>>
    BY <1>14, OthersFrame DEF localVars
  <2> QED
    BY <2>1 DEF OrderInv, WalOrder, Below
<1> QED
  BY <1>1, <1>2, <1>3, <1>4, <1>5, <1>6, <1>7, <1>7a, <1>7b, <1>8, <1>9, <1>10, <1>11,
     <1>12, <1>13, <1>14, NextCases

-----------------------------------------------------------------------------
\* What the invariant above leaves open: the order of the records, who attends
\* the queue, what a segment looks like before the first fault, and who holds
\* the barrier.
LEMMA OInvInit == Init => OInv
<1> SUFFICES ASSUME Init PROVE OInv
  OBVIOUS
<1>1. /\ proc = "up" /\ \A w \in Writers : pc[w] = "idle" /\ ~ failed[w]
      /\ leader_active = FALSE /\ failed_from = 0 /\ pending = <<>>
      /\ seg = <<>> /\ header = "ok" /\ exporter = "idle"
  BY DEF Init
<1>2. OrderInv
  BY <1>1 DEF OrderInv, WalOrder, Below
<1>3. AttendInv
  BY <1>1 DEF AttendInv, QueueAttended
<1>4. FaultInv
  BY <1>1 DEF FaultInv, Clean, Intact
<1>5. BarrierInv
  BY <1>1 DEF BarrierInv
<1> QED
  BY <1>2, <1>3, <1>4, <1>5 DEF OInv

LEMMA OInvStep == IInv /\ OInv /\ [Next]_vars => OInv'
<1>1. ASSUME IInv, OInv, Next PROVE OInv'
  <2>1. CleanInv'
    BY <1>1, IInvStep DEF IInv
  <2>2. OrderInv' /\ FaultInv'
    BY <1>1, <2>1, OrderStep, FaultFreeStep DEF OInv
  <2>3. AttendInv' /\ BarrierInv'
    BY <1>1, AttendStep, BarrierStep DEF OInv, IInv
  <2> QED
    BY <2>2, <2>3 DEF OInv
<1>2. ASSUME OInv, UNCHANGED vars PROVE OInv'
  <2> USE <1>2 DEF OInv, vars, localVars, groupVars, signalVars, procVars,
                   fileVars, dataVars, barrierVars, histVars
  <2>1. OrderInv'
    BY DEF OrderInv, WalOrder, Below
  <2>2. AttendInv'
    BY DEF AttendInv, QueueAttended, IsLeader
  <2>3. FaultInv' /\ BarrierInv'
    BY DEF FaultInv, Clean, BarrierInv
  <2> QED
    BY <2>1, <2>2, <2>3
<1> QED
  BY <1>1, <1>2

\* The second inductive invariant holds of every behaviour, on top of the first.
THEOREM OrderInvariance == Spec => []OInv
BY OInvInit, OInvStep, Invariance, PTL DEF Spec

\* Whatever is drained, torn by a failed write, cut by a crash or truncated by
\* a rotation, the segment lists the writes in the order enqueue_slot applied
\* them: replay never puts an older value over a newer one.
THEOREM ReplayOrder == Spec => []WalOrder
<1>1. OInv => WalOrder
  BY DEF OInv, OrderInv
<1> QED
  BY <1>1, OrderInvariance, PTL

\* Through elections, step-downs, announcements and claims that cross, no
\* queued ticket is left without a leader or somebody about to become one.
THEOREM NobodyStranded == Spec => []QueueAttended
<1>1. OInv => QueueAttended
  BY DEF OInv, AttendInv
<1> QED
  BY <1>1, OrderInvariance, PTL

\* Until an I/O call fails, Wal::open_with_fs accepts what any crash leaves of
\* the segment: over any number of rotations, restarts and appends.
THEOREM ReopensCleanly == Spec => []RestartOpensCleanly
<1>1. IInv /\ OInv => RestartOpensCleanly
  <2> SUFFICES ASSUME IInv, OInv, faults = 0 PROVE ~ OpenRefuses(header, seg)
    BY DEF RestartOpensCleanly, RestartOpens
  <2>1. (header = "ok" \/ seg = <<>>) /\ Intact(seg)
    BY DEF OInv, FaultInv
  <2>2. seg \in Seq(Record)
    BY DEF IInv, TypeOK
  <2> QED
    BY <2>1, <2>2, IntactOpens DEF OpenRefuses
<1> QED
  BY <1>1, Invariance, OrderInvariance, PTL

\* While export_backup reads, no call of any writer changes what it reads: the
\* ones inside the barrier are gone, and the ones that hold only a durability
\* handle do nothing but ask for the barrier again.
THEOREM ExportReadsStable == Spec => ExportIsolated
<1> DEFINE A == exporter = "reading" /\ exporter' = "reading"
                => (mem \union parked \union sst)' = mem \union parked \union sst
<1>1. IInv /\ OInv /\ [Next]_vars => [A]_vars
  <2> SUFFICES ASSUME IInv, OInv, Next, exporter = "reading",
                      exporter' = "reading"
               PROVE  UNCHANGED <<mem, parked, sst>>
    OBVIOUS
  <2>1. proc = "up" /\ \A w \in Writers : pc[w] \in {"idle", "handle"}
    BY DEF OInv, BarrierInv
  <2>2. ASSUME NEW w \in Writers, Bookkeeping(w) PROVE UNCHANGED <<mem, parked, sst>>
    BY <2>2, BookkeepingFrame DEF Bookkept, IInv
  <2>3. ASSUME NEW w \in Writers,
               \/ EnqueueSlot(w) \/ FlushSwap(w) \/ FlushDone(w) \/ FlushFault(w)
               \/ RotateTruncate(w) \/ RotateHeader(w) \/ RotateFault(w)
               \/ CommitWrite(w) \/ CommitWriteFault(w)
               \/ CommitSync(w) \/ CommitSyncFault(w)
        PROVE  FALSE
    BY <2>1, <2>3 DEF EnqueueSlot, FlushSwap, FlushDone, FlushFault, FlushPcs,
          RotateTruncate, RotateHeader, RotateFault, CommitWrite,
          CommitWriteFault, CommitSync, CommitSyncFault
  <2>4. ~ RestartOpen /\ ~ Crash
    BY <2>1 DEF RestartOpen, Crash
  <2>5. CASE \/ ExportRequest \/ ExportAcquire \/ ExportRelease
         \/ RestartRefused \/ Quiescent
    BY <2>5, OthersFrame DEF dataVars
  <2> QED
    BY <2>2, <2>3, <2>4, <2>5, NextCases
<1> QED
  BY <1>1, Invariance, OrderInvariance, PTL DEF Spec, ExportIsolated

-----------------------------------------------------------------------------
(* What a reader is shown.                                                 *)

\* The newest id issued so far, and the write a reader is shown.
Last == base + next_ticket - 1
Top == Over(mem_top, Over(parked_top, sst_top))

\* No id of S is above n.
Under(S, n) == \A a \in S : a <= n

\* A writer here may not have applied anything yet.
Early == {"idle", "entered", "enqueue"}

\* Each layer shows its newest write; a map being flushed is newer than the
\* SSTs below it; and once this process has applied a write, a reader is shown
\* the last one.
TopInv ==
    /\ \A w \in Writers : pc[w] \notin Early => next_ticket > 1
    /\ Under(mem \union parked \union sst, Last)
    /\ (\A w \in Writers : pc[w] \notin FlushPcs) => parked_top = 0
    /\ Under(mem, mem_top) /\ Under(parked, parked_top) /\ Under(sst, sst_top)
    /\ parked_top # 0 => Under(sst, parked_top)
    /\ proc = "up" /\ next_ticket > 1 => Top = Last

\* The ids whose writers were told Ok or will be.
Promised ==
    acked \union {base + t : t \in {u \in 1..completed : ~ TicketFailed(u)}}

\* Every whole record of the segment is newer than a.
Older(a) == \A i \in 1..Len(seg) : seg[i].whole => a < seg[i].id

\* A promised write is behind the watermark; its record is where replay finds
\* it, or a rotation has left only newer ones.
PromiseInv ==
    /\ Under(acked, base + completed)
    /\ \A a \in Promised : a \in Replayed(seg, synced) \/ Older(a)

ShownInv == TopInv /\ PromiseInv /\ AckedShown

\* The steps that move writes between the layers.
Layering(w) == EnqueueSlot(w) \/ FlushSwap(w) \/ FlushDone(w) \/ FlushFault(w)

\* What the other steps of w leave alone.
Quiet(w) ==
    /\ UNCHANGED <<dataVars, next_ticket>>
    /\ pc[w] \notin FlushPcs
    /\ pc[w] \in Early => pc'[w] \in Early

\* A writer's step that neither applies nor flushes leaves the layers alone.
LEMMA QuietStep ==
    ASSUME TypeOK, NEW w \in Writers, BeginWrite(w) \/ WriterStep(w) \/ FaultStep(w)
    PROVE  Layering(w) \/ Quiet(w)
<1> USE DEF Quiet, TypeOK, Early, FlushPcs, Goto, Return, Fail, groupVars
<1>1. CASE BeginWrite(w)
  BY <1>1 DEF BeginWrite
<1>2. CASE CheckFence(w)
  BY <1>2 DEF CheckFence
<1>3. CASE AwaitBatchDurable(w)
  BY <1>3 DEF AwaitBatchDurable
<1>4. CASE LeadExit(w)
  BY <1>4 DEF LeadExit
<1>5. CASE LeadStepDown(w)
  BY <1>5 DEF LeadStepDown
<1>6. CASE AnnounceVacancy(w)
  BY <1>6 DEF AnnounceVacancy
<1>7. CASE LeadDrain(w)
  BY <1>7 DEF LeadDrain
<1>8. CASE ReturnUnflushed(w)
  BY <1>8 DEF ReturnUnflushed
<1>9. CASE RotateTruncate(w)
  BY <1>9 DEF RotateTruncate
<1>10. CASE RotateHeader(w)
  BY <1>10 DEF RotateHeader
<1>11. CASE RotateFault(w)
  BY <1>11 DEF RotateFault
<1>12. CASE CommitWrite(w)
  BY <1>12 DEF CommitWrite
<1>13. CASE CommitWriteFault(w)
  BY <1>13 DEF CommitWriteFault
<1>14. CASE CommitSync(w)
  BY <1>14 DEF CommitSync
<1>15. CASE CommitSyncFault(w)
  BY <1>15 DEF CommitSyncFault
<1>16. CASE CommitPublish(w)
  BY <1>16 DEF CommitPublish
<1>17. CASE AwaitOutcome(w)
  BY <1>17 DEF AwaitOutcome
<1>18. CASE AwaitVacancy(w)
  BY <1>18 DEF AwaitVacancy
<1>19. CASE ClaimLeadership(w)
  BY <1>19 DEF ClaimLeadership
<1> QED
  BY <1>1, <1>2, <1>3, <1>4, <1>5, <1>6, <1>7, <1>8, <1>9, <1>10, <1>11,
     <1>12, <1>13, <1>14, <1>15, <1>16, <1>17, <1>18, <1>19
     DEF WriterStep, FaultStep, Layering

\* A bound may be raised.
LEMMA UnderRaised ==
    ASSUME NEW S \in SUBSET Nat, NEW m \in Nat, NEW n \in Nat, m <= n, Under(S, m)
    PROVE  Under(S, n)
<1> SUFFICES ASSUME NEW a \in S PROVE a <= n
  BY DEF Under
<1>1. a \in Nat /\ a <= m
  BY DEF Under
<1> QED
  BY <1>1

\* What the layers are known to hold of their types.
LEMMA LayerTypes ==
    ASSUME TypeOK
    PROVE  /\ mem \in SUBSET Nat /\ parked \in SUBSET Nat /\ sst \in SUBSET Nat
           /\ mem_top \in Nat /\ parked_top \in Nat /\ sst_top \in Nat
           /\ Last \in Nat /\ base \in Nat /\ next_ticket \in Nat \ {0}
BY DEF TypeOK, Last

\* An apply under the group mutex makes the newest id the one on top.
LEMMA TopEnqueue ==
    ASSUME TypeOK, TopInv, NEW w \in Writers, OthersKept(w), EnqueueSlot(w)
    PROVE  TopInv'
<1>1. /\ mem' = mem \union {base + next_ticket} /\ mem_top' = base + next_ticket
      /\ next_ticket' = next_ticket + 1
      /\ UNCHANGED <<parked, sst, parked_top, sst_top>>
      /\ pc[w] = "enqueue"
  BY DEF EnqueueSlot, Apply
<1>2. base' = base
  BY DEF OthersKept
<1> USE LayerTypes
<1>3. Last' = base + next_ticket /\ Last' \in Nat /\ Last <= Last' /\ Last' # 0
  BY <1>1, <1>2 DEF Last
<1>4. Under(mem \union parked \union sst, Last')
  BY <1>3, UnderRaised DEF TopInv
<1>5. Under(mem' \union parked' \union sst', Last')
  BY <1>1, <1>3, <1>4 DEF Under
<1>6. Under(mem', mem_top')
  BY <1>1, <1>3, <1>5 DEF Under
<1>7. Top' = Last'
  BY <1>1, <1>3 DEF Top, Over
<1>8. next_ticket' > 1
  BY <1>1
<1>9. \A v \in Writers : pc[v] \in FlushPcs => pc'[v] \in FlushPcs
  BY <1>1 DEF OthersKept, TypeOK, FlushPcs
<1> QED
  BY <1>1, <1>5, <1>6, <1>7, <1>8, <1>9 DEF TopInv

\* A flush leaves the newest id, and what a reader is shown, as they were.
LEMMA TopSwap ==
    ASSUME TypeOK, TopInv, NEW w \in Writers, OthersKept(w), FlushSwap(w), proc = "up"
    PROVE  TopInv'
<1>1. /\ mem' = {} /\ parked' = mem /\ mem_top' = 0 /\ parked_top' = mem_top
      /\ UNCHANGED <<sst, sst_top, next_ticket>>
      /\ pc[w] \in {"pre_rotate", "rotate", "return"}
      /\ \A v \in Writers : pc[v] \notin FlushPcs
  BY DEF FlushSwap, groupVars
<1>2. base' = base /\ proc' = proc /\ Last' = Last
  BY <1>1 DEF OthersKept, Last
<1>3. next_ticket > 1 /\ parked_top = 0
  BY <1>1 DEF TopInv, Early
<1>4. Top = Last /\ Top' = Top
  BY <1>1, <1>3 DEF TopInv, Top, Over
<1>5. pc'[w] \in FlushPcs
  BY FlushRoute DEF FlushSwap, Goto, TypeOK, FlushPcs
<1>6. mem_top # 0 => Under(sst, mem_top)
  <2>1. mem_top # 0 => mem_top = Last
    BY <1>4 DEF Top, Over
  <2> QED
    BY <2>1 DEF TopInv, Under
<1>7. Under(mem' \union parked' \union sst', Last')
  BY <1>1, <1>2 DEF TopInv, Under
<1>8. Under(mem', mem_top') /\ Under(parked', parked_top') /\ Under(sst', sst_top')
  BY <1>1 DEF TopInv, Under
<1> QED
  BY <1>1, <1>2, <1>3, <1>4, <1>5, <1>6, <1>7, <1>8 DEF TopInv

\* The installed SST takes over what the parked map showed.
LEMMA TopDone ==
    ASSUME TypeOK, TopInv, NEW w \in Writers, OthersKept(w), FlushDone(w)
    PROVE  TopInv'
<1>1. /\ sst' = sst \union parked /\ parked' = {} /\ parked_top' = 0
      /\ sst_top' = Over(parked_top, sst_top)
      /\ UNCHANGED <<mem, mem_top, next_ticket>> /\ pc[w] \in FlushPcs
  BY DEF FlushDone, groupVars
<1>2. base' = base /\ proc' = proc /\ Last' = Last
  BY <1>1 DEF OthersKept, Last
<1>3. next_ticket > 1
  BY <1>1 DEF TopInv, Early, FlushPcs
<1>4. Top' = Top
  BY <1>1 DEF Top, Over
<1>5. Under(mem' \union parked' \union sst', Last')
  BY <1>1, <1>2 DEF TopInv, Under
<1>6. Under(sst', sst_top')
  <2>1. CASE parked_top # 0
    BY <1>1, <2>1 DEF TopInv, Under, Over
  <2>2. CASE parked_top = 0
    <3>1. Under(parked, sst_top)
      BY <2>2, LayerTypes, UnderRaised DEF TopInv
    <3> QED
      BY <1>1, <2>2, <3>1 DEF TopInv, Under, Over
  <2> QED
    BY <2>1, <2>2
<1>7. Under(mem', mem_top') /\ Under(parked', parked_top')
  BY <1>1 DEF TopInv, Under
<1> QED
  BY <1>1, <1>2, <1>3, <1>4, <1>5, <1>6, <1>7 DEF TopInv

\* A failed flush folds the parked map back under the active one.
LEMMA TopFault ==
    ASSUME TypeOK, TopInv, NEW w \in Writers, OthersKept(w), FlushFault(w), proc = "up"
    PROVE  TopInv'
<1>1. /\ mem' = mem \union parked /\ parked' = {} /\ parked_top' = 0
      /\ mem_top' = Over(mem_top, parked_top)
      /\ UNCHANGED <<sst, sst_top, next_ticket>> /\ pc[w] \in FlushPcs
  BY DEF FlushFault, Reabsorb, groupVars
<1>2. base' = base /\ proc' = proc /\ Last' = Last
  BY <1>1 DEF OthersKept, Last
<1>3. next_ticket > 1
  BY <1>1 DEF TopInv, Early, FlushPcs
<1>4. Top' = Top /\ Top = Last
  BY <1>1, <1>3 DEF TopInv, Top, Over
<1>5. Under(mem' \union parked' \union sst', Last')
  BY <1>1, <1>2 DEF TopInv, Under
<1>6. Under(mem', mem_top')
  <2>1. CASE mem_top # 0
    <3>1. mem_top' = Last
      BY <1>1, <1>4, <2>1 DEF Top, Over
    <3> QED
      BY <1>1, <3>1 DEF TopInv, Under
  <2>2. CASE mem_top = 0
    <3>1. Under(mem, parked_top)
      BY <2>2, LayerTypes, UnderRaised DEF TopInv
    <3> QED
      BY <1>1, <2>2, <3>1 DEF TopInv, Under, Over
  <2> QED
    BY <2>1, <2>2
<1>7. Under(sst', sst_top') /\ Under(parked', parked_top')
  BY <1>1 DEF TopInv, Under
<1> QED
  BY <1>1, <1>2, <1>3, <1>4, <1>5, <1>6, <1>7 DEF TopInv

\* A step that leaves the layers alone.
LEMMA TopKept ==
    ASSUME TypeOK, TopInv, NEW w \in Writers, OthersKept(w), Quiet(w)
    PROVE  TopInv'
<1>1. /\ UNCHANGED <<mem, parked, sst, mem_top, parked_top, sst_top, next_ticket>>
      /\ base' = base /\ proc' = proc
  BY DEF Quiet, dataVars, topVars, OthersKept
<1>2. Last' = Last /\ Top' = Top
  BY <1>1 DEF Last, Top, Over
<1>3. \A v \in Writers : pc[v] \in FlushPcs => pc'[v] \in FlushPcs
  BY DEF Quiet, OthersKept, TypeOK
<1>4. \A v \in Writers : pc'[v] \notin Early => pc[v] \notin Early
  BY DEF Quiet, OthersKept, TypeOK
<1> QED
  BY <1>1, <1>2, <1>3, <1>4 DEF TopInv, Under

\* Every step keeps the newest id on top of the layers.
LEMMA TopStep ==
    ASSUME IInv, OrderInv, TopInv, Next
    PROVE  TopInv'
<1> USE DEF IInv
<1>1. ASSUME NEW w \in Writers, BeginWrite(w) \/ WriterStep(w) \/ FaultStep(w)
      PROVE  TopInv'
  <2>1. OthersKept(w) /\ proc = "up"
    BY <1>1, WriterFrame, WriterUp
  <2> QED
    BY <1>1, <2>1, QuietStep, TopKept, TopEnqueue, TopSwap, TopDone, TopFault
       DEF Layering
<1>2. CASE Crash
  <2>1. /\ mem' = {} /\ parked' = {} /\ parked_top' = 0 /\ proc' = "down"
        /\ UNCHANGED <<sst, sst_top>> /\ next_ticket' = 1
        /\ base' = base + next_ticket - 1
        /\ \A v \in Writers : pc'[v] = "idle"
    BY <1>2 DEF Crash
  <2>2. Last' = Last
    BY <2>1, LayerTypes DEF Last
  <2>3. Under(mem', mem_top') /\ Under(parked', parked_top') /\ Under(sst', sst_top')
    BY <2>1 DEF TopInv, Under
  <2>4. Under(mem' \union parked' \union sst', Last')
    BY <2>1, <2>2 DEF TopInv, Under
  <2> QED
    BY <2>1, <2>3, <2>4 DEF TopInv, Early
<1>3. CASE RestartOpen
  <2>1. PICK n \in 0..Len(seg) :
           /\ GoodPrefix(seg, n) /\ (n < Len(seg) => ~ Good(seg, n + 1))
           /\ mem_top' = IF n = 0 THEN 0 ELSE seg[n].id
    BY <1>3 DEF RestartOpen
  <2>2. /\ mem' = OnDisk(header, seg, Len(seg)) /\ proc = "down"
        /\ UNCHANGED <<parked, sst, parked_top, sst_top, next_ticket, base, pc>>
    BY <1>3 DEF RestartOpen, groupVars, histVars, localVars
  <2>3. /\ \A v \in Writers : pc[v] = "idle"
        /\ next_ticket = 1 /\ completed = 0
    BY <2>2 DEF DownInv
  <2>4. Last' = Last /\ Last = base + completed
    BY <2>2, <2>3, LayerTypes DEF Last
  <2>5. ASSUME NEW a \in mem'
        PROVE  \E i \in 1..n : a = seg[i].id /\ seg[i].whole
    <3>1. PICK i \in 1..Len(seg) : GoodPrefix(seg, i) /\ a = seg[i].id
      BY <2>2, <2>5 DEF OnDisk, Replayed
    <3>2. i <= n
      BY <2>1, <3>1 DEF GoodPrefix, TypeOK
    <3> QED
      BY <3>1, <3>2 DEF GoodPrefix, Good
  <2>6. Under(mem', Last')
    <3>1. Below(base + completed)
      BY <2>3 DEF OrderInv
    <3>2. \A i \in 1..n : i \in 1..Len(seg)
      BY DEF TypeOK
    <3> QED
      BY <2>4, <2>5, <3>1, <3>2 DEF Below, Under
  <2>7. Under(mem', mem_top')
    <3> SUFFICES ASSUME NEW i \in 1..n, seg[i].whole PROVE seg[i].id <= mem_top'
      BY <2>5 DEF Under
    <3>1. n \in 1..Len(seg) /\ i \in 1..Len(seg) /\ seg[n].whole /\ mem_top' = seg[n].id
      BY <2>1 DEF GoodPrefix, Good, TypeOK
    <3>2. seg[i].id \in Nat /\ seg[n].id \in Nat
      <4>1. seg[i] \in Record /\ seg[n] \in Record
        BY <3>1 DEF TypeOK
      <4> QED
        BY <4>1 DEF Record
    <3>3. i < n => seg[i].id < seg[n].id
      BY <3>1 DEF OrderInv, WalOrder
    <3> QED
      BY <3>1, <3>2, <3>3
  <2>8. Under(mem' \union parked' \union sst', Last')
    BY <2>2, <2>4, <2>6 DEF TopInv, Under
  <2> QED
    BY <2>2, <2>3, <2>7, <2>8 DEF TopInv, Under, Early
<1>4. CASE \/ ExportRequest \/ ExportAcquire \/ ExportRelease
         \/ RestartRefused \/ Quiescent
  <2>1. /\ UNCHANGED <<pc, next_ticket, base, mem, parked, sst, mem_top,
                       parked_top, sst_top>>
        /\ proc' = proc \/ proc' = "refused"
    BY <1>4, OthersFrame DEF localVars, groupVars, dataVars, topVars
  <2>2. Last' = Last /\ Top' = Top
    BY <2>1 DEF Last, Top, Over
  <2> QED
    BY <2>1, <2>2 DEF TopInv, Under
<1> QED
  BY <1>1, <1>2, <1>3, <1>4 DEF Next

-----------------------------------------------------------------------------
(* Where replay finds what was promised.                                   *)

\* A whole record is an old one, or one whose ticket is not published.
LEMMA WholeRecords ==
    ASSUME IInv, Next, NEW i \in 1..Len(seg'), seg'[i].whole
    PROVE  \/ \E k \in 1..Len(seg) : seg'[i] = seg[k]
           \/ seg'[i].id > base + completed
<1> USE DEF IInv, fileVars
<1> DEFINE Old == \E k \in 1..Len(seg) : seg'[i] = seg[k]
<1>1. ASSUME NEW w \in Writers, Bookkeeping(w) PROVE Old
  BY <1>1, BookkeepingFrame DEF Bookkept
<1>2. ASSUME NEW w \in Writers,
             \/ EnqueueSlot(w) \/ FlushSwap(w) \/ FlushDone(w) \/ FlushFault(w)
             \/ RotateHeader(w) \/ RotateFault(w) \/ CommitSync(w)
             \/ CommitSyncFault(w)
      PROVE  Old
  <2>1. seg' = seg
    BY <1>2 DEF EnqueueSlot, FlushSwap, FlushDone, FlushFault, RotateHeader,
                RotateFault, CommitSync, CommitSyncFault
  <2> QED
    BY <2>1
<1>3. ASSUME NEW w \in Writers, RotateTruncate(w) PROVE Old
  BY <1>3 DEF RotateTruncate
<1>4. ASSUME NEW w \in Writers, CommitWrite(w) \/ CommitWriteFault(w)
      PROVE  Old \/ seg'[i].id > base + completed
  <2>1. Appended(w) /\ pc[w] = "write"
    BY <1>4, CommitWriteAppends, CommitWriteFaultAppends
       DEF CommitWrite, CommitWriteFault
  <2>2. /\ completed \in Nat /\ base \in Nat /\ Len(seg) \in Nat
        /\ Tickets(batch[w], completed)
    BY <2>1 DEF TypeOK, TicketInv, CommitPcs, LeaderPcs
  <2>3. CASE i > Len(seg)
    <3>1. /\ i - Len(seg) \in 1..Len(batch[w])
          /\ seg'[i].id = base + batch[w][i - Len(seg)]
      BY <2>1, <2>3 DEF Appended
    <3>2. batch[w][i - Len(seg)] = completed + (i - Len(seg))
      BY <2>2, <3>1 DEF Tickets
    <3> QED
      BY <2>2, <2>3, <3>1, <3>2
  <2>4. CASE i <= Len(seg)
    <3>1. i \in 1..Len(seg)
      BY <2>2, <2>4
    <3> QED
      BY <2>1, <3>1 DEF Appended
  <2> QED
    BY <2>2, <2>3, <2>4
<1>5. CASE Crash
  <2>1. PICK n \in synced..Len(seg), torn \in BOOLEAN :
             seg' = SubSeq(seg, 1, n)
                    \o (IF torn /\ n < Len(seg) THEN <<Torn>> ELSE <<>>)
    BY <1>5 DEF Crash
  <2>2. seg \in Seq(Record) /\ n \in 0..Len(seg)
    BY DEF TypeOK
  <2>3. CutOf(seg', seg, n)
    <3> DEFINE tail == IF torn /\ n < Len(seg) THEN <<Torn>> ELSE <<>>
    <3>1. tail \in {<<Torn>>, <<>>} /\ seg' = SubSeq(seg, 1, n) \o tail
      BY <2>1
    <3> HIDE DEF tail
    <3> QED
      BY <2>2, <3>1, CrashCuts
  <2> QED
    BY <2>2, <2>3 DEF CutOf
<1>6. CASE RestartOpen
  <2>1. PICK n \in 0..Len(seg) : seg' = SubSeq(seg, 1, n)
    BY <1>6 DEF RestartOpen
  <2>2. Len(seg') = n /\ \A k \in 1..n : k \in 1..Len(seg) /\ seg'[k] = seg[k]
    BY <2>1 DEF TypeOK
  <2> QED
    BY <2>2
<1>7. CASE \/ ExportRequest \/ ExportAcquire \/ ExportRelease
         \/ RestartRefused \/ Quiescent
  BY <1>7, OthersFrame
<1> QED
  BY <1>1, <1>2, <1>3, <1>4, <1>5, <1>6, <1>7, NextCases

\* A promise stays where replay finds it, or behind every whole record.
LEMMA PlaceKept ==
    ASSUME IInv, Next, NEW a \in Nat, a <= base + completed,
           a \in Replayed(seg, synced) \/ Older(a)
    PROVE  a \in Replayed(seg', synced') \/ Older(a)'
<1> USE DEF IInv
<1>1. ASSUME NEW w \in Writers, RotateTruncate(w) PROVE Older(a)'
  <2>1. seg' = <<>>
    BY <1>1 DEF RotateTruncate
  <2> QED
    BY <2>1 DEF Older
<1>2. ASSUME \A w \in Writers : ~ RotateTruncate(w), a \in Replayed(seg, synced)
      PROVE  a \in Replayed(seg', synced')
  BY <1>2, SyncedKept
<1>3. ASSUME Older(a) PROVE Older(a)'
  <2> SUFFICES ASSUME NEW i \in 1..Len(seg'), seg'[i].whole PROVE a < seg'[i].id
    BY DEF Older
  <2>1. CASE \E k \in 1..Len(seg) : seg'[i] = seg[k]
    BY <1>3, <2>1 DEF Older
  <2>2. CASE seg'[i].id > base + completed
    <3>1. seg'[i].id \in Nat
      <4>1. seg' \in Seq(Record)
        BY IInvStep DEF TypeOK
      <4>2. seg'[i] \in Record
        BY <4>1
      <4> QED
        BY <4>2 DEF Record
    <3>2. base \in Nat /\ completed \in Nat
      BY DEF TypeOK
    <3> QED
      BY <2>2, <3>1, <3>2
  <2> QED
    BY <2>1, <2>2, WholeRecords
<1> QED
  BY <1>1, <1>2, <1>3

\* What is promised is behind the watermark.
LEMMA PromisedBelow ==
    ASSUME TypeOK, PromiseInv, NEW a \in Promised
    PROVE  a \in Nat /\ a <= base + completed
<1>1. base \in Nat /\ completed \in Nat /\ acked \subseteq Nat
  BY DEF TypeOK
<1>2. CASE a \in acked
  BY <1>1, <1>2 DEF PromiseInv, Under
<1>3. CASE \E t \in 1..completed : a = base + t
  BY <1>1, <1>3
<1> QED
  BY <1>2, <1>3 DEF Promised

\* Only the publish makes a promise: for records it has just synced.
LEMMA PromisedFrame ==
    ASSUME IInv, PromiseInv, Next
    PROVE  /\ \A a \in Promised' : \/ a \in Promised
                                   \/ a \in Replayed(seg', synced')
           /\ Under(acked, base + completed)'
<1> USE DEF IInv
<1>0. /\ base \in Nat /\ completed \in Nat /\ next_ticket \in Nat \ {0}
      /\ acked \in SUBSET Nat
  BY DEF TypeOK
<1>1. ASSUME NEW w \in Writers, CommitPublish(w)
      PROVE  /\ \A a \in Promised' : \/ a \in Promised
                                     \/ a \in Replayed(seg', synced')
             /\ Under(acked, base + completed)'
  <2>1. UNCHANGED <<acked, base, seg, synced>>
    BY <1>1 DEF CommitPublish, fileVars, histVars
  <2>2. PICK n \in Nat : completed' = completed + n
    <3>1. /\ pc[w] = "publish"
          /\ completed' = Larger(completed, batch[w][Len(batch[w])])
      BY <1>1 DEF CommitPublish
    <3>2. /\ Len(batch[w]) > 0 /\ Len(batch[w]) \in Nat
          /\ Tickets(batch[w], completed)
      BY <3>1 DEF TicketInv, CommitPcs, LeaderPcs, TypeOK
    <3>3. batch[w][Len(batch[w])] = completed + Len(batch[w])
      BY <3>2 DEF Tickets
    <3>4. completed' = completed + Len(batch[w])
      BY <1>0, <3>1, <3>2, <3>3 DEF Larger
    <3> QED
      BY <3>2, <3>4
  <2>3. ASSUME NEW t \in 1..completed', ~ TicketFailed(t)'
        PROVE  base + t \in Promised \/ base + t \in Replayed(seg, synced)
    <3>1. CASE t \in 1..completed
      BY <1>1, <2>3, <3>1, PublishOutcome DEF Promised
    <3>2. CASE t \notin 1..completed
      BY <1>1, <2>3, <3>2, PublishOutcome
    <3> QED
      BY <3>1, <3>2
  <2>4. Under(acked', base' + completed')
    <3>1. /\ base + completed \in Nat /\ base + (completed + n) \in Nat
          /\ base + completed <= base + (completed + n)
      BY <1>0
    <3>2. Under(acked, base + completed)
      BY DEF PromiseInv
    <3> QED
      BY <1>0, <2>1, <2>2, <3>1, <3>2, UnderRaised
  <2> QED
    BY <2>1, <2>3, <2>4 DEF Promised, Under
<1>2. CASE Crash
  <2>1. acked' = acked /\ completed' = 0 /\ base' = base + next_ticket - 1
    BY <1>2 DEF Crash
  <2>2. Promised' \subseteq Promised
    BY <2>1 DEF Promised
  <2>3. completed < next_ticket
    BY CompletedIssued
  <2>4. /\ base + completed \in Nat /\ base' + completed' \in Nat
        /\ base + completed <= base' + completed'
    BY <1>0, <2>1, <2>3
  <2>5. Under(acked', base' + completed')
    BY <1>0, <2>1, <2>4, UnderRaised DEF PromiseInv
  <2> QED
    BY <2>2, <2>5 DEF Under
<1>3. ASSUME UNCHANGED <<completed, failed_from>>, ~ Crash
      PROVE  Promised' \subseteq Promised /\ Under(acked, base + completed)'
  <2>1. base' = base
    <3>1. ASSUME NEW w \in Writers, BeginWrite(w) \/ WriterStep(w) \/ FaultStep(w)
          PROVE  base' = base
      BY <3>1, WriterFrame DEF OthersKept
    <3>2. CASE RestartOpen
      BY <3>2 DEF RestartOpen, histVars
    <3> QED
      BY <1>3, <3>1, <3>2, OthersFrame DEF Next
  <2>2. ASSUME acked' = acked PROVE Promised' \subseteq Promised /\ Under(acked, base + completed)'
    BY <1>3, <2>1, <2>2 DEF Promised, TicketFailed, PromiseInv, Under
  <2>3. ASSUME NEW w \in Writers, AwaitOutcome(w)
        PROVE  Promised' \subseteq Promised /\ Under(acked, base + completed)'
    <3>1. CASE /\ acked' = acked \union {base + ticket[w]}
               /\ ticket[w] \in 1..completed /\ ~ TicketFailed(ticket[w])
      <4>1. Promised' \subseteq Promised
        BY <1>3, <2>1, <3>1 DEF Promised, TicketFailed
      <4>2. base + ticket[w] <= base + completed
        BY <1>0, <3>1
      <4> QED
        BY <1>3, <2>1, <3>1, <4>1, <4>2 DEF PromiseInv, Under
    <3> QED
      BY <2>2, <2>3, <3>1, AckedTicket
  <2>4. ASSUME NEW w \in Writers, BeginWrite(w) \/ WriterStep(w) \/ FaultStep(w)
        PROVE  Promised' \subseteq Promised /\ Under(acked, base + completed)'
    BY <2>2, <2>3, <2>4, IssuedFrame
  <2>5. CASE RestartOpen
    BY <2>2, <2>5 DEF RestartOpen, histVars
  <2>6. CASE \/ ExportRequest \/ ExportAcquire \/ ExportRelease
         \/ RestartRefused \/ Quiescent
    BY <2>2, <2>6, OthersFrame
  <2> QED
    BY <1>3, <2>4, <2>5, <2>6 DEF Next
<1> QED
  BY <1>1, <1>2, <1>3, PublishedFrame

\* Every step keeps what a verdict promises: replay reaches it or a newer id.
LEMMA PromiseStep ==
    ASSUME IInv, PromiseInv, Next
    PROVE  PromiseInv'
<1>1. ASSUME NEW a \in Promised' PROVE a \in Replayed(seg', synced') \/ Older(a)'
  <2>1. CASE a \in Promised
    BY <2>1, PromisedBelow, PlaceKept DEF PromiseInv, IInv
  <2> QED
    BY <2>1, PromisedFrame
<1> QED
  BY <1>1, PromisedFrame DEF PromiseInv

-----------------------------------------------------------------------------
(* The newest acknowledged write is shown.                                 *)

\* After a restart the last replayed record shows, or the SSTs do when there
\* is none: whatever was acknowledged is not above it.
LEMMA ReopenShows ==
    ASSUME IInv, OrderInv, ShownInv, RestartOpen, NEW a \in acked
    PROVE  a <= Top'
<1> USE DEF IInv
<1>1. PICK n \in 0..Len(seg) :
         /\ GoodPrefix(seg, n) /\ (n < Len(seg) => ~ Good(seg, n + 1))
         /\ mem_top' = IF n = 0 THEN 0 ELSE seg[n].id
  BY DEF RestartOpen
<1>2. UNCHANGED <<parked_top, sst_top>> /\ parked_top = 0 /\ ~ OpenRefuses(header, seg)
  BY DEF RestartOpen, DownInv, ShownInv, TopInv, FlushPcs
<1>3. a \in Nat /\ sst_top \in Nat /\ synced \in 0..Len(seg) /\ Len(seg) \in Nat
  BY DEF TypeOK
<1>4. Top' = Over(mem_top', sst_top)
  BY <1>2 DEF Top, Over
<1>5. CASE n = 0
  <2>1. Replayed(seg, synced) = {}
    <3> SUFFICES ASSUME NEW i \in 1..synced, GoodPrefix(seg, i) PROVE FALSE
      BY DEF Replayed
    <3>1. 1 \in 1..i /\ n < Len(seg) /\ n + 1 = 1
      BY <1>3, <1>5
    <3> QED
      BY <1>1, <3>1 DEF GoodPrefix
  <2>2. a \in sst
    BY <2>1 DEF AckInv, Durable, OnDisk
  <2> QED
    BY <1>1, <1>4, <1>5, <2>2 DEF ShownInv, TopInv, Under, Over
<1>6. CASE n # 0
  <2>1. n \in 1..Len(seg) /\ seg[n].whole /\ mem_top' = seg[n].id
    BY <1>1, <1>6 DEF GoodPrefix, Good
  <2>2. seg[n].id \in Nat
    <3>1. seg[n] \in Record
      BY <2>1 DEF TypeOK
    <3> QED
      BY <3>1 DEF Record
  <2>3. a <= seg[n].id
    <3>1. ASSUME NEW i \in 1..synced, GoodPrefix(seg, i), a = seg[i].id
          PROVE  a <= seg[n].id
      <4>1. i <= n
        <5> SUFFICES ASSUME i > n PROVE FALSE
          BY <1>3
        <5>1. n < Len(seg) /\ n + 1 \in 1..i
          BY <1>3
        <5> QED
          BY <1>1, <3>1, <5>1 DEF GoodPrefix
      <4>2. i \in 1..Len(seg) /\ seg[i].whole
        BY <1>3, <3>1 DEF GoodPrefix, Good
      <4>3. i < n => seg[i].id < seg[n].id
        BY <2>1, <4>2 DEF OrderInv, WalOrder
      <4> QED
        BY <1>3, <2>2, <3>1, <4>1, <4>3
    <3>2. CASE a \in Replayed(seg, synced)
      BY <3>1, <3>2 DEF Replayed
    <3>3. CASE Older(a)
      BY <1>3, <2>1, <2>2, <3>3 DEF Older
    <3> QED
      BY <3>2, <3>3 DEF ShownInv, PromiseInv, Promised
  <2> QED
    BY <1>3, <1>4, <2>1, <2>2, <2>3 DEF Over
<1> QED
  BY <1>5, <1>6

\* With the layers and the promises in place, no step shows less than an
\* acknowledged write.
LEMMA ShownStep ==
    ASSUME IInv, OrderInv, ShownInv, Next, TypeOK', TicketInv', TopInv',
           PromiseInv'
    PROVE  AckedShown'
<1> SUFFICES ASSUME proc' = "up", NEW a \in acked' PROVE a <= Top'
  BY DEF AckedShown, Top
<1>1. CASE next_ticket' > 1
  <2>1. Top' = Last' /\ a <= base' + completed'
    BY <1>1 DEF TopInv, PromiseInv, Under
  <2>2. /\ completed' \in Nat /\ base' \in Nat /\ next_ticket' \in Nat
        /\ pending' \in Seq(Nat) /\ a \in Nat
    BY DEF TypeOK
  <2>3. PICK m \in Nat : next_ticket' = completed' + m + 1
    <3>1. Len(pending') \in Nat
      BY <2>2
    <3>2. ASSUME NEW w \in Writers, pc'[w] \in CommitPcs
          PROVE  \E m \in Nat : next_ticket' = completed' + m + 1
      <4>1. next_ticket' = completed' + Len(batch'[w]) + Len(pending') + 1
        BY <3>2 DEF TicketInv
      <4>2. Len(batch'[w]) \in Nat
        <5>1. batch'[w] \in Seq(Nat)
          BY DEF TypeOK
        <5> QED
          BY <5>1
      <4>3. /\ Len(batch'[w]) + Len(pending') \in Nat
            /\ next_ticket' = completed' + (Len(batch'[w]) + Len(pending')) + 1
        BY <2>2, <3>1, <4>1, <4>2
      <4> QED
        BY <4>3
    <3>3. ASSUME \A w \in Writers : pc'[w] \notin CommitPcs
          PROVE  \E m \in Nat : next_ticket' = completed' + m + 1
      BY <3>1, <3>3 DEF TicketInv
    <3> QED
      BY <3>2, <3>3
  <2>4. a <= base' + next_ticket' - 1
    <3> DEFINE b == base'
               c == completed'
               n == next_ticket'
    <3>1. b \in Nat /\ c \in Nat /\ n \in Nat /\ n = c + m + 1 /\ a <= b + c
      BY <2>1, <2>2, <2>3
    <3> HIDE DEF b, c, n
    <3>2. a <= b + n - 1
      BY <2>2, <3>1
    <3> QED
      BY <3>2 DEF b, n
  <2> QED
    BY <2>1, <2>4 DEF Last
<1>2. CASE ~ (next_ticket' > 1)
  <2>1. CASE RestartOpen
    <3>1. acked' = acked
      BY <2>1 DEF RestartOpen, histVars
    <3> QED
      BY <2>1, <3>1, ReopenShows
  <2>2. ASSUME NEW w \in Writers, BeginWrite(w) \/ WriterStep(w) \/ FaultStep(w)
        PROVE  a <= Top'
    <3>1. proc = "up" /\ next_ticket \in Nat \ {0} /\ completed \in Nat
      BY <2>2, WriterUp DEF IInv, TypeOK
    <3>2. ~ Layering(w)
      <4>1. ASSUME EnqueueSlot(w) PROVE FALSE
        BY <1>2, <3>1, <4>1 DEF EnqueueSlot
      <4>2. ASSUME FlushSwap(w) \/ FlushDone(w) \/ FlushFault(w) PROVE FALSE
        <5>1. next_ticket > 1
          BY <4>2 DEF FlushSwap, FlushDone, FlushFault, FlushPcs, Early, ShownInv,
                      TopInv
        <5>2. next_ticket' = next_ticket
          BY <4>2 DEF FlushSwap, FlushDone, FlushFault, groupVars
        <5> QED
          BY <1>2, <5>1, <5>2
      <4> QED
        BY <4>1, <4>2 DEF Layering
    <3>3. UNCHANGED <<mem_top, parked_top, sst_top, next_ticket>>
      BY <2>2, <3>2, QuietStep DEF Quiet, dataVars, topVars, IInv
    <3>4. completed < next_ticket
      BY CompletedIssued DEF IInv
    <3>5. acked' = acked
      <4>1. completed = 0
        BY <1>2, <3>1, <3>3, <3>4
      <4>2. ASSUME AwaitOutcome(w) PROVE acked' = acked
        BY <4>1, <4>2, AckedTicket DEF IInv
      <4> QED
        BY <2>2, <4>2, IssuedFrame
    <3>6. Top' = Top
      BY <3>3 DEF Top, Over
    <3> QED
      BY <3>1, <3>5, <3>6 DEF ShownInv, AckedShown, Top
  <2>3. ~ Crash
    BY DEF Crash
  <2>4. CASE \/ ExportRequest \/ ExportAcquire \/ ExportRelease
         \/ RestartRefused \/ Quiescent
    <3>1. UNCHANGED <<acked, mem_top, parked_top, sst_top>> /\ proc = "up"
      BY <2>4, OthersFrame DEF dataVars, topVars
    <3>2. Top' = Top
      BY <3>1 DEF Top, Over
    <3> QED
      BY <3>1, <3>2 DEF ShownInv, AckedShown, Top
  <2> QED
    BY <2>1, <2>2, <2>3, <2>4 DEF Next
<1> QED
  BY <1>1, <1>2

\* The three parts of ShownInv hold at the start and are kept by every step.
LEMMA ShownInvInit == Init => ShownInv
<1> SUFFICES ASSUME Init PROVE ShownInv
  OBVIOUS
<1>1. /\ \A w \in Writers : pc[w] = "idle"
      /\ mem = {} /\ parked = {} /\ sst = {} /\ parked_top = 0
      /\ next_ticket = 1 /\ completed = 0 /\ acked = {}
  BY DEF Init
<1>2. TopInv
  BY <1>1 DEF TopInv, Under, Early
<1>3. PromiseInv /\ AckedShown
  BY <1>1 DEF PromiseInv, Promised, Under, AckedShown
<1> QED
  BY <1>2, <1>3 DEF ShownInv

LEMMA ShownInvStep == IInv /\ OInv /\ ShownInv /\ [Next]_vars => ShownInv'
<1>1. ASSUME IInv, OInv, ShownInv, Next PROVE ShownInv'
  <2>1. TypeOK' /\ TicketInv'
    BY <1>1, IInvStep DEF IInv
  <2>2. TopInv' /\ PromiseInv'
    BY <1>1, TopStep, PromiseStep DEF OInv, ShownInv
  <2>3. AckedShown'
    BY <1>1, <2>1, <2>2, ShownStep DEF OInv
  <2> QED
    BY <2>2, <2>3 DEF ShownInv
<1>2. ASSUME ShownInv, UNCHANGED vars PROVE ShownInv'
  <2> USE <1>2 DEF vars, localVars, groupVars, signalVars, procVars, fileVars,
                   dataVars, topVars, histVars
  <2>1. TopInv'
    BY DEF ShownInv, TopInv, Under, Last, Top, Over
  <2>2. PromiseInv'
    BY DEF ShownInv, PromiseInv, Promised, Under, Older, TicketFailed
  <2>3. AckedShown'
    BY DEF ShownInv, AckedShown, Over
  <2> QED
    BY <2>1, <2>2, <2>3 DEF ShownInv
<1> QED
  BY <1>1, <1>2

\* Through any number of flushes, failed flushes, rotations, crashes and
\* replays, a key that every write sets never shows less than its newest
\* acknowledged write: enqueue_slot applies in ticket order, reabsorb folds the
\* parked map under the active one, replay ends with the newest record.
THEOREM LatestShown == Spec => []AckedShown
<1>1. ShownInv => AckedShown
  BY DEF ShownInv
<1> QED
  BY <1>1, ShownInvInit, ShownInvStep, Invariance, OrderInvariance, PTL DEF Spec

=============================================================================
