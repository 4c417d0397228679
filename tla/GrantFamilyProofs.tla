------------------------- MODULE GrantFamilyProofs -------------------------
(***************************************************************************)
(* Proofs about GrantFamily, for any nodes, any requests and any number of *)
(* revocations and lost answers.                                           *)
(***************************************************************************)
EXTENDS GrantFamily, TLAPS, FiniteSetTheorems

-----------------------------------------------------------------------------
(* The inductive invariant.                                                *)

Request == [pc : Phases, kind : Kinds, why : Kinds \cup {"replay", "cascade"},
            node : Node \cup {Nobody}, tok : Token, hash : Token,
            revoked : BOOLEAN, won : BOOLEAN, tombed : BOOLEAN, result : Results]

\* The phases under each lock, and the phases of revoke_session.
FamilyPhases == {"check", "sessLoad", "sessPut", "sessDone", "evicted", "claim",
                 "claimed", "rotated", "tomb", "spend", "flag", "flagged"}
RowPhases    == {"sessPut", "sessDone", "evicted", "endPut", "ended"}
EndPhases    == {"endLoad", "endPut", "ended", "cascade"}

\* A rotation that has passed the hash check.
RotatePhases == {"sessLoad", "sessPut", "sessDone", "claim"}

ControlInv ==
    \A p \in Req :
        /\ req[p].pc \notin {"idle", "done"} => req[p].node \in Node
        /\ req[p].pc # "done" => req[p].result = "none"
        /\ req[p].pc \in RotatePhases => req[p].tok = req[p].hash
        /\ req[p].pc \in RotatePhases \cup {"claimed", "rotated"} => req[p].kind = "refresh"
        /\ req[p].why \in {"replay", "token"} => req[p].kind # "consent"

\* Who holds a lock is in a phase under it, on that node.
LockInv ==
    \A p \in Req, n \in Node :
        /\ famLock[n] = p => req[p].node = n /\ req[p].pc \in FamilyPhases
        /\ rowLock[n] = p <=> req[p].node = n /\ req[p].pc \in RowPhases

\* An entry that somebody waits for is in the queue of the waiter's node.
QueueInv ==
    \A n \in Node : \A i \in 1 .. Len(queue[n]) :
        LET e == queue[n][i] IN
        e.by # Nobody =>
            /\ req[e.by].node = n /\ req[e.by].pc \notin {"idle", "done"}
            /\ e.cmd.op = "session" => req[e.by].pc \in {"sessDone", "evicted", "ended"}

\* A tombstone has been written, or some write was given up.
Recorded == rows.tomb \/ faults > 0

\* Tombstones and flags are only seen once they are written.
SeenInv ==
    \A n \in Node :
        /\ view[n].tomb => rows.tomb
        /\ view[n].revoked => Recorded
        /\ \A i \in 1 .. Len(queue[n]) :
              LET c == queue[n][i].cmd IN
              /\ c.op = "tombstone" => rows.tomb
              /\ c.op = "family" /\ c.revoked => Recorded

LateInv == \A c \in late : c.op = "family" /\ c.revoked => Recorded

\* A marking is past its tombstone only when that is written or, in a cascade,
\* given up; a request that goes on to the session has written one.
MarkedInv ==
    \A p \in Req :
        /\ req[p].revoked => Recorded
        /\ req[p].pc \in {"spend", "flag", "flagged"} =>
              Recorded /\ (req[p].why # "cascade" => rows.tomb)
        /\ req[p].pc \in EndPhases \/ req[p].why = "cascade" =>
              req[p].kind # "consent" /\ (req[p].kind # "session" => rows.tomb)

MarkInv == SeenInv /\ LateInv /\ MarkedInv /\ RevocationRecorded

\* The session was ended by a request that still waits for its entry on the
\* node, or the node has applied that entry and no session write since.
EndPending(n) ==
    \E i \in 1 .. Len(queue[n]) :
        /\ queue[n][i].cmd = [op |-> "session", live |-> FALSE]
        /\ queue[n][i].by # Nobody
        /\ \A j \in i + 1 .. Len(queue[n]) : queue[n][j].cmd.op # "session"

EndApplied(n) ==
    /\ ~view[n].live
    /\ \A i \in 1 .. Len(queue[n]) : queue[n][i].cmd.op # "session"

EndInv ==
    ~rows.live => \A n \in Node :
        rows.ender = n /\ n # Nobody => EndPending(n) \/ EndApplied(n)

\* Who is about to write the session back has not missed an end on its node.
PutInv ==
    ~rows.live => \A p \in Req :
        req[p].pc = "sessPut" => rows.ender # req[p].node \/ rows.ender = Nobody

SessionInv == EndInv /\ PutInv

\* p has won its claim and has not been refused since.
Winner(p) ==
    \/ req[p].pc = "claimed" /\ req[p].won
    \/ req[p].pc = "rotated"
    \/ Paired(p)

\* p won it after the tombstone.
Tainted(p) == Winner(p) /\ req[p].tombed

\* The tokens that were minted before the tombstone and may be delivered.
Fresh(x) == x = Issued \/ (x \in Req /\ Winner(x) /\ ~req[x].tombed)

\* Every claim spends the one live token of the family and mints the next; the
\* one minted after the tombstone is never redeemed.
ChainInv ==
    /\ \A p \in Req : Winner(p) => req[p].tok \in rows.spent
    /\ \A p, q \in Req : Winner(p) /\ Winner(q) /\ req[p].tok = req[q].tok => p = q
    /\ \A x, y \in Token : Fresh(x) /\ Fresh(y) => x = y \/ x \in rows.spent \/ y \in rows.spent
    /\ \A p, q \in Req : Tainted(p) /\ Tainted(q) => p = q
    /\ \A p \in Req : Tainted(p) =>
          rows.tomb /\ \A x \in Token : Fresh(x) => x \in rows.spent
    /\ \A p \in Req : req[p].tok = Issued \/ Paired(req[p].tok)
    /\ \A p, q \in Req : req[p].pc \in RotatePhases \/ Winner(p) =>
          ~(req[p].tok = q /\ Tainted(q))

\* h is not a token that is still to be written to the family row.
Minted(h) == h \in Req => req[h].pc \in {"rotated", "done"}

\* A token is in a row, or in a copy of one, only once it has been minted.
MintedInv ==
    /\ \A n \in Node :
          /\ Minted(view[n].hash)
          /\ \A i \in 1 .. Len(queue[n]) :
                queue[n][i].cmd.op = "family" => Minted(queue[n][i].cmd.hash)
    /\ \A c \in late : c.op = "family" => Minted(c.hash)
    /\ \A p \in Req : Minted(req[p].hash)

\* Node n has applied the tombstone once it is at entry i of its queue.
TombAhead(n, i) ==
    view[n].tomb \/ \E j \in 1 .. i - 1 : queue[n][j].cmd.op = "tombstone"

TombInv == \A n \in Node : rows.tomb => TombAhead(n, Len(queue[n]) + 1)

After(h) == h \in Req /\ Tainted(h)

\* A token minted after the tombstone is seen by nobody who does not see the
\* tombstone.
HiddenInv ==
    /\ \A n \in Node :
          /\ After(view[n].hash) => view[n].tomb
          /\ \A i \in 1 .. Len(queue[n]) :
                queue[n][i].cmd.op = "family" /\ After(queue[n][i].cmd.hash) =>
                    TombAhead(n, i)
    /\ \A p \in Req : req[p].pc = "check" /\ After(req[p].hash) =>
          view[req[p].node].tomb

HashInv == MintedInv /\ TombInv /\ HiddenInv

IInv ==
    /\ TypeOK /\ ControlInv /\ LockInv /\ QueueInv /\ MarkInv /\ SessionInv
    /\ ChainInv /\ HashInv

-----------------------------------------------------------------------------
(* What a step does to the request that takes it, as one whole record.     *)

Becomes(p, r) ==
    /\ req' \in [Req -> Request]
    /\ req'[p] = r
    /\ \A q \in Req : q # p => req'[q] = req[q]

\* The request goes on, with a new phase and perhaps new local copies.
Steps(p, pc, why, hash, revoked, won, tombed) ==
    Becomes(p, [pc |-> pc, kind |-> req[p].kind, why |-> why,
                node |-> req[p].node, tok |-> req[p].tok, hash |-> hash,
                revoked |-> revoked, won |-> won, tombed |-> tombed,
                result |-> req[p].result])

Moves(p, pc) ==
    Steps(p, pc, req[p].why, req[p].hash, req[p].revoked, req[p].won, req[p].tombed)

\* The request begins.
Starts(p, pc, kind, why, n, tok, hash, revoked) ==
    Becomes(p, [pc |-> pc, kind |-> kind, why |-> why, node |-> n, tok |-> tok,
                hash |-> hash, revoked |-> revoked, won |-> FALSE,
                tombed |-> FALSE, result |-> "none"])

\* The request is over.
Finishes(p, result) ==
    Becomes(p, [pc |-> "done",
                kind |-> IF result = "pair" THEN "refresh" ELSE req[p].kind,
                why |-> "refresh", node |-> Nobody,
                tok |-> IF result = "pair" THEN req[p].tok ELSE Issued,
                hash |-> Issued, revoked |-> FALSE, won |-> FALSE,
                tombed |-> IF result = "pair" THEN req[p].tombed ELSE FALSE,
                result |-> result])

Typed == TypeOK /\ req \in [Req -> Request]

LEMMA TypedOK == TypeOK => Typed
BY DEF TypeOK, Typed, Request

LEMMA BecomesReplaced ==
    ASSUME req \in [Req -> Request], NEW p \in Req, NEW r \in Request,
           req' = [req EXCEPT ![p] = r]
    PROVE  Becomes(p, r)
BY DEF Becomes

\* The phase alone.
LEMMA GoMoves ==
    ASSUME req \in [Req -> Request], NEW p \in Req, NEW pc \in Phases, Go(p, pc)
    PROVE  Moves(p, pc)
<1>1. req[p] \in Request
  OBVIOUS
<1>2. req'[p] = [pc |-> pc, kind |-> req[p].kind, why |-> req[p].why,
                 node |-> req[p].node, tok |-> req[p].tok, hash |-> req[p].hash,
                 revoked |-> req[p].revoked, won |-> req[p].won,
                 tombed |-> req[p].tombed, result |-> req[p].result]
  BY <1>1 DEF Go, Request
<1>3. req'[p] \in Request
  BY <1>1, <1>2 DEF Request
<1>4. \A q \in Req : q # p => req'[q] = req[q]
  BY DEF Go
<1>5. req' \in [Req -> Request]
  BY <1>3, <1>4 DEF Go
<1> QED
  BY <1>2, <1>4, <1>5 DEF Moves, Steps, Becomes

\* The phase and the reason.
LEMMA WhySteps ==
    ASSUME req \in [Req -> Request], NEW p \in Req, NEW pc \in Phases,
           NEW why \in Kinds \cup {"replay", "cascade"},
           req' = [req EXCEPT ![p].pc = pc, ![p].why = why]
    PROVE  Steps(p, pc, why, req[p].hash, req[p].revoked, req[p].won, req[p].tombed)
<1>1. req[p] \in Request
  OBVIOUS
<1>2. req'[p] = [pc |-> pc, kind |-> req[p].kind, why |-> why,
                 node |-> req[p].node, tok |-> req[p].tok, hash |-> req[p].hash,
                 revoked |-> req[p].revoked, won |-> req[p].won,
                 tombed |-> req[p].tombed, result |-> req[p].result]
  BY <1>1 DEF Request
<1>3. req'[p] \in Request
  BY <1>1, <1>2 DEF Request
<1>4. \A q \in Req : q # p => req'[q] = req[q]
  OBVIOUS
<1>5. req' \in [Req -> Request]
  BY <1>3, <1>4
<1> QED
  BY <1>2, <1>4, <1>5 DEF Steps, Becomes

\* A write that commits.
LEMMA WriteSteps ==
    ASSUME req \in [Req -> Request], NEW p \in Req, NEW pc \in Phases,
           rows.tomb \in BOOLEAN, NEW c, Write(p, c, pc)
    PROVE  Steps(p, pc, req[p].why, req[p].hash, req[p].revoked,
                 c.op = "spend" /\ c.tok \notin rows.spent,
                 IF c.op = "spend" THEN rows.tomb ELSE req[p].tombed)
<1>1. req[p] \in Request
  OBVIOUS
<1> DEFINE won == c.op = "spend" /\ c.tok \notin rows.spent
           tombed == IF c.op = "spend" THEN rows.tomb ELSE req[p].tombed
<1>2. req' = [req EXCEPT ![p].pc = pc, ![p].won = won, ![p].tombed = tombed]
  BY <1>1 DEF Write
<1>3. won \in BOOLEAN /\ tombed \in BOOLEAN
  BY <1>1 DEF Request
<1> HIDE DEF won, tombed
<1>4. req'[p] = [pc |-> pc, kind |-> req[p].kind, why |-> req[p].why,
                 node |-> req[p].node, tok |-> req[p].tok, hash |-> req[p].hash,
                 revoked |-> req[p].revoked, won |-> won,
                 tombed |-> tombed, result |-> req[p].result]
  BY <1>1, <1>2 DEF Request
<1>5. req'[p] \in Request
  BY <1>1, <1>3, <1>4 DEF Request
<1>6. \A q \in Req : q # p => req'[q] = req[q]
  BY <1>2
<1>7. req' \in [Req -> Request]
  BY <1>2, <1>5, <1>6
<1>8. Steps(p, pc, req[p].why, req[p].hash, req[p].revoked, won, tombed)
  BY <1>4, <1>6, <1>7 DEF Steps, Becomes
<1> QED
  BY <1>8 DEF won, tombed

LEMMA IdleFields ==
    /\ Idle \in Request /\ Idle.pc = "idle" /\ Idle.kind = "refresh"
    /\ Idle.why = "refresh" /\ Idle.node = Nobody /\ Idle.tok = Issued
    /\ Idle.hash = Issued /\ Idle.revoked = FALSE /\ Idle.won = FALSE
    /\ Idle.tombed = FALSE /\ Idle.result = "none"
BY DEF Idle, Request, Phases, Kinds, Token, Results

\* The end of the call.
LEMMA ReturnFinishes ==
    ASSUME req \in [Req -> Request], NEW p \in Req, NEW result \in Results,
           Return(p, result)
    PROVE  Finishes(p, result)
<1>1. req[p] \in Request
  OBVIOUS
<1> DEFINE r == [pc |-> "done",
                 kind |-> IF result = "pair" THEN "refresh" ELSE req[p].kind,
                 why |-> "refresh", node |-> Nobody,
                 tok |-> IF result = "pair" THEN req[p].tok ELSE Issued,
                 hash |-> Issued, revoked |-> FALSE, won |-> FALSE,
                 tombed |-> IF result = "pair" THEN req[p].tombed ELSE FALSE,
                 result |-> result]
<1>2. r \in Request
  BY <1>1 DEF Request, Phases, Kinds, Token
<1>3. CASE result = "pair"
  <2>1. PICK g : g = [Idle EXCEPT !.pc = "done", !.result = result,
                                  !.tok = req[p].tok, !.tombed = req[p].tombed]
    OBVIOUS
  <2>2. g = r
    BY <1>3, <2>1, IdleFields DEF Request
  <2>3. req' = [req EXCEPT ![p] = g]
    BY <1>3, <2>1 DEF Return
  <2> QED
    BY <1>2, <2>2, <2>3, BecomesReplaced DEF Finishes
<1>4. CASE result # "pair"
  <2>1. PICK g : g = [Idle EXCEPT !.pc = "done", !.result = result,
                                  !.kind = req[p].kind]
    OBVIOUS
  <2>2. g = r
    BY <1>4, <2>1, IdleFields DEF Request
  <2>3. req' = [req EXCEPT ![p] = g]
    BY <1>4, <2>1 DEF Return
  <2> QED
    BY <1>2, <2>2, <2>3, BecomesReplaced DEF Finishes
<1> QED
  BY <1>3, <1>4

-----------------------------------------------------------------------------
(* The replicated rows.                                                    *)

\* An entry's effect, field by field.
LEMMA AppliedFields ==
    ASSUME NEW s \in Rows, NEW e \in Entry
    PROVE  /\ Applied(s, e) \in Rows
           /\ Applied(s, e).hash = IF e.cmd.op = "family" THEN e.cmd.hash ELSE s.hash
           /\ Applied(s, e).revoked =
                 IF e.cmd.op = "family" THEN e.cmd.revoked ELSE s.revoked
           /\ Applied(s, e).tomb = IF e.cmd.op = "tombstone" THEN TRUE ELSE s.tomb
           /\ Applied(s, e).spent =
                 IF e.cmd.op = "spend" THEN s.spent \cup {e.cmd.tok} ELSE s.spent
           /\ Applied(s, e).live = IF e.cmd.op = "session" THEN e.cmd.live ELSE s.live
           /\ Applied(s, e).ender =
                 IF e.cmd.op = "session" /\ ~e.cmd.live THEN e.node ELSE s.ender
<1> DEFINE c == e.cmd
           r == Applied(s, e)
<1>0. c \in Command /\ e.node \in Node \cup {Nobody}
  BY DEF Entry
<1>1. CASE c.op = "family"
  <2>1. r = [hash |-> c.hash, revoked |-> c.revoked, tomb |-> s.tomb,
             spent |-> s.spent, live |-> s.live, ender |-> s.ender]
    <3>1. r = [s EXCEPT !.hash = c.hash, !.revoked = c.revoked]
      BY <1>1 DEF Applied
    <3> HIDE DEF r
    <3> QED
      BY <3>1 DEF Rows
  <2>2. c.hash \in Token /\ c.revoked \in BOOLEAN
    BY <1>0, <1>1 DEF Command
  <2> QED
    BY <1>1, <2>1, <2>2 DEF Rows
<1>2. CASE c.op = "tombstone"
  <2>1. r = [hash |-> s.hash, revoked |-> s.revoked, tomb |-> TRUE,
             spent |-> s.spent, live |-> s.live, ender |-> s.ender]
    <3>1. r = [s EXCEPT !.tomb = TRUE]
      BY <1>2 DEF Applied
    <3> HIDE DEF r
    <3> QED
      BY <3>1 DEF Rows
  <2> QED
    BY <1>2, <2>1 DEF Rows
<1>3. CASE c.op = "spend"
  <2>1. r = [hash |-> s.hash, revoked |-> s.revoked, tomb |-> s.tomb,
             spent |-> s.spent \cup {c.tok}, live |-> s.live, ender |-> s.ender]
    <3>1. r = [s EXCEPT !.spent = s.spent \cup {c.tok}]
      BY <1>3 DEF Applied
    <3> HIDE DEF r
    <3> QED
      BY <3>1 DEF Rows
  <2>2. c.tok \in Token
    BY <1>0, <1>3 DEF Command
  <2> QED
    BY <1>3, <2>1, <2>2 DEF Rows
<1>4. CASE c.op = "session"
  <2> DEFINE ender == IF c.live THEN s.ender ELSE e.node
  <2>1. r = [hash |-> s.hash, revoked |-> s.revoked, tomb |-> s.tomb,
             spent |-> s.spent, live |-> c.live, ender |-> ender]
    <3>1. r = [s EXCEPT !.live = c.live, !.ender = ender]
      BY <1>4 DEF Applied
    <3> HIDE DEF r, ender
    <3> QED
      BY <3>1 DEF Rows
  <2>2. c.live \in BOOLEAN
    BY <1>0, <1>4 DEF Command
  <2> QED
    BY <1>0, <1>4, <2>1, <2>2 DEF Rows
<1>5. c.op \in {"family", "tombstone", "spend", "session"}
  BY <1>0 DEF Command
<1> QED
  BY <1>1, <1>2, <1>3, <1>4, <1>5

\* The entry that m gets when a request by on n commits c.
Sent(by, n, c, m) ==
    [cmd |-> c, by |-> IF m = n THEN by ELSE Nobody,
     node |-> IF c.op = "session" THEN n ELSE Nobody]

\* A commit appends one entry everywhere.
LEMMA CommitEffects ==
    ASSUME TypeOK, NEW by \in Req \cup {Nobody}, NEW n \in Node \cup {Nobody},
           NEW c \in Command, Commit(by, n, c)
    PROVE  /\ rows' \in Rows /\ queue' \in [Node -> Seq(Entry)] /\ view' = view
           /\ \A m \in Node :
                 /\ Len(queue[m]) \in Nat /\ Len(queue'[m]) = Len(queue[m]) + 1
                 /\ queue'[m][Len(queue[m]) + 1] = Sent(by, n, c, m)
                 /\ \A i \in 1 .. Len(queue[m]) : queue'[m][i] = queue[m][i]
           /\ rows'.tomb = IF c.op = "tombstone" THEN TRUE ELSE rows.tomb
           /\ rows'.spent = IF c.op = "spend" THEN rows.spent \cup {c.tok} ELSE rows.spent
           /\ rows'.live = IF c.op = "session" THEN c.live ELSE rows.live
           /\ rows'.ender = IF c.op = "session" /\ ~c.live THEN n ELSE rows.ender
<1>1. \A m : Sent(by, n, c, m) \in Entry /\ Sent(by, n, c, m).cmd = c
             /\ Sent(by, n, c, m).node = IF c.op = "session" THEN n ELSE Nobody
  BY DEF Sent, Entry
<1>2. /\ rows' = Applied(rows, Sent(by, n, c, n)) /\ view' = view
      /\ queue' = [m \in Node |-> Append(queue[m], Sent(by, n, c, m))]
  BY DEF Commit, Sent
<1>3. rows \in Rows /\ queue \in [Node -> Seq(Entry)]
  BY DEF TypeOK
<1>4. PICK e \in Entry : e = Sent(by, n, c, n)
  BY <1>1
<1>5. /\ rows' \in Rows
      /\ rows'.tomb = IF c.op = "tombstone" THEN TRUE ELSE rows.tomb
      /\ rows'.spent = IF c.op = "spend" THEN rows.spent \cup {c.tok} ELSE rows.spent
      /\ rows'.live = IF c.op = "session" THEN c.live ELSE rows.live
      /\ rows'.ender = IF c.op = "session" /\ ~c.live THEN n ELSE rows.ender
  <2>1. e.cmd = c /\ (c.op = "session" => e.node = n)
    BY <1>1, <1>4
  <2>2. rows' = Applied(rows, e)
    BY <1>2, <1>4
  <2>3. /\ Applied(rows, e) \in Rows
        /\ Applied(rows, e).tomb = IF e.cmd.op = "tombstone" THEN TRUE ELSE rows.tomb
        /\ Applied(rows, e).spent =
              IF e.cmd.op = "spend" THEN rows.spent \cup {e.cmd.tok} ELSE rows.spent
        /\ Applied(rows, e).live = IF e.cmd.op = "session" THEN e.cmd.live ELSE rows.live
        /\ Applied(rows, e).ender =
              IF e.cmd.op = "session" /\ ~e.cmd.live THEN e.node ELSE rows.ender
    BY <1>3, AppliedFields
  <2> QED
    BY <2>1, <2>2, <2>3
<1>6. queue' \in [Node -> Seq(Entry)]
  BY <1>1, <1>2, <1>3
<1>7. \A m \in Node :
        /\ Len(queue[m]) \in Nat /\ Len(queue'[m]) = Len(queue[m]) + 1
        /\ queue'[m][Len(queue[m]) + 1] = Sent(by, n, c, m)
        /\ \A i \in 1 .. Len(queue[m]) : queue'[m][i] = queue[m][i]
  <2> SUFFICES ASSUME NEW m \in Node
               PROVE  /\ Len(queue[m]) \in Nat /\ Len(queue'[m]) = Len(queue[m]) + 1
                      /\ queue'[m][Len(queue[m]) + 1] = Sent(by, n, c, m)
                      /\ \A i \in 1 .. Len(queue[m]) : queue'[m][i] = queue[m][i]
    OBVIOUS
  <2>1. queue[m] \in Seq(Entry) /\ queue'[m] = Append(queue[m], Sent(by, n, c, m))
    BY <1>2, <1>3
  <2> QED
    BY <1>1, <2>1
<1> QED
  BY <1>2, <1>5, <1>6, <1>7

\* A node applies the oldest entry of its queue.
LEMMA ApplyEffects ==
    ASSUME TypeOK, NEW n \in Node, Apply(n)
    PROVE  /\ view' \in [Node -> Rows] /\ queue' \in [Node -> Seq(Entry)]
           /\ \A m \in Node : m # n => view'[m] = view[m] /\ queue'[m] = queue[m]
           /\ Len(queue[n]) \in Nat \ {0} /\ queue[n][1] \in Entry
           /\ view'[n] = Applied(view[n], queue[n][1])
           /\ Len(queue'[n]) = Len(queue[n]) - 1
           /\ \A i \in 1 .. Len(queue'[n]) :
                 i + 1 \in 1 .. Len(queue[n]) /\ queue'[n][i] = queue[n][i + 1]
<1>1. /\ view \in [Node -> Rows] /\ queue \in [Node -> Seq(Entry)]
      /\ queue[n] # <<>> /\ queue[n] \in Seq(Entry)
  BY DEF TypeOK, Apply
<1>2. Len(queue[n]) \in Nat \ {0} /\ queue[n][1] \in Entry /\ Head(queue[n]) = queue[n][1]
  BY <1>1
<1>3. Applied(view[n], queue[n][1]) \in Rows
  BY <1>1, <1>2, AppliedFields
<1>4. /\ view' = [view EXCEPT ![n] = Applied(view[n], queue[n][1])]
      /\ queue' = [queue EXCEPT ![n] = Tail(queue[n])]
  BY <1>1, <1>2 DEF Apply
<1>5. /\ Tail(queue[n]) \in Seq(Entry) /\ Len(Tail(queue[n])) = Len(queue[n]) - 1
      /\ \A i \in 1 .. Len(queue[n]) - 1 : Tail(queue[n])[i] = queue[n][i + 1]
  BY <1>1, <1>2
<1> QED
  BY <1>1, <1>2, <1>3, <1>4, <1>5

-----------------------------------------------------------------------------
(* The kinds of step a request takes.                                      *)

NoStore == UNCHANGED <<rows, view, queue, late, faults>>
NoLock  == UNCHANGED <<famLock, rowLock>>

\* Everything that p wrote has been applied on its node.
Waited(p) == \A i \in 1 .. Len(queue[req[p].node]) : queue[req[p].node][i].by # p

\* The write that p makes in its phase, and the phase after it.
Sends(p, c, x) ==
    \/ req[p].pc = "sessPut" /\ x = "sessDone" /\ c = [op |-> "session", live |-> TRUE]
    \/ req[p].pc = "sessPut" /\ x = "evicted" /\ c = [op |-> "session", live |-> FALSE]
    \/ req[p].pc = "endPut" /\ x = "ended" /\ c = [op |-> "session", live |-> FALSE]
    \/ req[p].pc = "claim" /\ x = "claimed" /\ c = [op |-> "spend", tok |-> req[p].tok]
    \/ req[p].pc = "spend" /\ x = "flag" /\ c = [op |-> "spend", tok |-> req[p].hash]
    \/ /\ req[p].pc = "claimed" /\ req[p].won /\ x = "rotated"
       /\ c = [op |-> "family", hash |-> p, revoked |-> req[p].revoked]
    \/ /\ req[p].pc = "flag" /\ x = "flagged"
       /\ c = [op |-> "family", hash |-> req[p].hash, revoked |-> TRUE]
    \/ req[p].pc = "tomb" /\ x = "spend" /\ c = [op |-> "tombstone"]

Ends(p, result) ==
    /\ Finishes(p, result)
    /\ famLock' = Release(famLock, p) /\ rowLock' = Release(rowLock, p)

\* The write commits.
Writes(p, c, x) ==
    /\ Sends(p, c, x)
    /\ Commit(p, req[p].node, c)
    /\ Steps(p, x, req[p].why, req[p].hash, req[p].revoked,
             c.op = "spend" /\ c.tok \notin rows.spent,
             IF c.op = "spend" THEN rows.tomb ELSE req[p].tombed)
    /\ UNCHANGED <<late, faults>> /\ NoLock

\* The write is given up and its error ends the call.
Loses(p, c, x, result) ==
    /\ Sends(p, c, x) /\ GiveUp(c) /\ Ends(p, result)
    /\ \/ result = "refused"
       \/ result = "replayed" /\ req[p].pc = "endPut" /\ req[p].kind = "refresh"

\* The write is given up and the session cascade goes on.
Skips(p, c, x, y) ==
    /\ Sends(p, c, x) /\ GiveUp(c) /\ NoLock
    /\ req[p].pc \in {"tomb", "spend", "flag"} /\ req[p].why = "cascade"
    /\ y \in {"flag", "flagged"} /\ Moves(p, y)

\* The call ends without a write.
Quits(p, result) ==
    /\ NoStore /\ Ends(p, result)
    /\ \/ /\ result = "refused"
          /\ req[p].pc \in {"check", "sessLoad", "evicted", "claim", "claimed", "cascade",
                            "flagged"}
       \/ result = "pair" /\ req[p].pc = "rotated"
       \/ result = "consent" /\ req[p].pc = "check" /\ FamilyIsRevoked(p)
       \/ /\ result = Answer(p)
          /\ \/ req[p].pc = "flagged" /\ req[p].why \notin {"replay", "token"}
             \/ req[p].pc = "cascade"
       \/ result = "replayed" /\ req[p].pc = "cascade" /\ req[p].kind = "refresh"

\* The call goes on without a write: the checks, ...
Checks(p) ==
    /\ NoStore /\ NoLock
    /\ \/ /\ req[p].pc = "check" /\ req[p].kind = "refresh" /\ req[p].tok = req[p].hash
          /\ ~view[req[p].node].tomb
          /\ Moves(p, "sessLoad")
       \/ /\ req[p].pc = "check" /\ req[p].kind = "consent"
          /\ Moves(p, "tomb")
       \/ /\ \/ req[p].pc = "check" /\ req[p].kind = "refresh"
             \/ req[p].pc = "claimed"
          /\ Steps(p, "tomb", "replay", req[p].hash, req[p].revoked, req[p].won,
                   req[p].tombed)

\* ... the row lock, ...
TakesRow(p) ==
    LET n == req[p].node IN
    /\ NoStore /\ rowLock[n] = Nobody
    /\ rowLock' = [rowLock EXCEPT ![n] = p] /\ UNCHANGED famLock
    /\ \/ req[p].pc = "sessLoad" /\ view[n].live /\ Moves(p, "sessPut")
       \/ req[p].pc = "endLoad" /\ Moves(p, "endPut")

DropsRow(p) ==
    /\ NoStore
    /\ rowLock' = Release(rowLock, p) /\ UNCHANGED famLock
    /\ \/ req[p].pc = "sessDone" /\ Moves(p, "claim")
       \/ req[p].pc = "ended" /\ Moves(p, "cascade")

\* ... and the family lock.
DropsFamily(p) ==
    /\ NoStore
    /\ famLock' = Release(famLock, p) /\ UNCHANGED rowLock
    /\ req[p].pc = "flagged" /\ req[p].why \in {"replay", "token"}
    /\ Moves(p, "endLoad")

TakesFamily(p) ==
    LET n == req[p].node IN
    /\ NoStore /\ req[p].pc = "cascade"
    /\ famLock' = [famLock EXCEPT ![n] = p] /\ UNCHANGED rowLock
    /\ Steps(p, "tomb", "cascade", view[n].hash, FALSE, req[p].won, req[p].tombed)

\* Every step of a request is one of these.
StepCase(p) ==
    \/ \E c \in Command, x \in Phases :
          \/ Writes(p, c, x)
          \/ \E result \in Results : Loses(p, c, x, result)
          \/ \E y \in Phases : Skips(p, c, x, y)
    \/ \E result \in Results : Quits(p, result)
    \/ Checks(p) \/ TakesRow(p) \/ DropsRow(p) \/ DropsFamily(p) \/ TakesFamily(p)

\* A put or mark that commits or is given up.
LEMMA PutCases ==
    ASSUME TypeOK, NEW p \in Req, NEW c \in Command, NEW x \in Phases, Sends(p, c, x),
           Put(p, c, x)
    PROVE  StepCase(p)
<1>0. req \in [Req -> Request] /\ rows.tomb \in BOOLEAN /\ "refused" \in Results
  BY TypedOK DEF Typed, TypeOK, Rows, Results
<1>1. CASE Write(p, c, x)
  BY <1>0, <1>1, WriteSteps DEF Writes, Write, NoLock, StepCase
<1>2. CASE GiveUp(c) /\ Return(p, "refused")
  <2>1. Ends(p, "refused")
    BY <1>0, <1>2, ReturnFinishes DEF Return, Ends
  <2> QED
    BY <1>0, <1>2, <2>1 DEF Loses, StepCase
<1> QED
  BY <1>1, <1>2 DEF Put

LEMMA MarkPutCases ==
    ASSUME TypeOK, NEW p \in Req, NEW c \in Command, NEW x \in Phases,
           NEW y \in {"flag", "flagged"}, Sends(p, c, x),
           req[p].pc \in {"tomb", "spend", "flag"}, MarkPut(p, c, x, y)
    PROVE  StepCase(p)
<1>0. req \in [Req -> Request] /\ rows.tomb \in BOOLEAN /\ y \in Phases
  BY TypedOK DEF Typed, TypeOK, Rows, Phases
<1>1. CASE Put(p, c, x)
  BY <1>1, PutCases
<1>2. CASE Write(p, c, x)
  BY <1>2, PutCases DEF Put
<1>3. CASE req[p].why = "cascade" /\ GiveUp(c) /\ Go(p, y) /\ UNCHANGED <<famLock, rowLock>>
  BY <1>0, <1>3, GoMoves DEF Skips, NoLock, StepCase
<1> QED
  BY <1>1, <1>2, <1>3 DEF MarkPut

LEMMA StepCases ==
    ASSUME TypeOK, ControlInv, NEW p \in Req, Step(p)
    PROVE  Waited(p) /\ StepCase(p)
<1>0. /\ req \in [Req -> Request] /\ req[p] \in Request /\ Answer(p) \in Results
      /\ CascadeError(p) \in Results /\ "refused" \in Results
      /\ "pair" \in Results /\ "consent" \in Results
  BY TypedOK DEF Typed, Request, Results, Answer, CascadeError, Kinds
<1>1. \A x \in {"sessLoad", "sessPut", "claim", "tomb", "endLoad", "endPut", "cascade",
                "sessDone", "evicted", "claimed", "rotated", "spend", "flag", "flagged",
                "ended"} :
        x \in Phases
  BY DEF Phases
<1>2. \A result \in Results : Return(p, result) => Ends(p, result)
  BY <1>0, ReturnFinishes DEF Return, Ends
<1>3. \A result \in Results : Quits(p, result) => StepCase(p)
  BY DEF StepCase
<1>4. ASSUME CheckFamily(p) PROVE At(p, "check") /\ StepCase(p)
  <2>1. CASE Return(p, "refused")
    BY <1>0, <1>2, <1>3, <1>4, <2>1 DEF CheckFamily, Quits, NoStore, At
  <2>2. CASE ~Return(p, "refused")
    <3>1. /\ ~FamilyIsRevoked(p) /\ NoLock /\ NoStore /\ At(p, "check")
          /\ req[p].kind = "refresh"
          /\ req' = [req EXCEPT ![p].pc = IF req[p].tok = req[p].hash
                                            THEN "sessLoad" ELSE "tomb",
                                ![p].why = IF req[p].tok = req[p].hash
                                            THEN req[p].why ELSE "replay"]
      BY <1>0, <1>4, <2>2 DEF CheckFamily, NoLock, NoStore
    <3>2. CASE req[p].tok = req[p].hash
      <4>1. /\ req' = [req EXCEPT ![p].pc = "sessLoad", ![p].why = req[p].why]
            /\ req[p].why \in Kinds \cup {"replay", "cascade"}
        BY <1>0, <3>1, <3>2 DEF Request
      <4>2. Moves(p, "sessLoad")
        BY <1>0, <1>1, <4>1, WhySteps DEF Moves
      <4> QED
        BY <3>1, <3>2, <4>2 DEF Checks, FamilyIsRevoked, At, StepCase
    <3>3. CASE req[p].tok # req[p].hash
      <4>1. req' = [req EXCEPT ![p].pc = "tomb", ![p].why = "replay"]
        BY <3>1, <3>3
      <4>2. Steps(p, "tomb", "replay", req[p].hash, req[p].revoked, req[p].won,
                  req[p].tombed)
        BY <1>0, <1>1, <4>1, WhySteps
      <4> QED
        BY <3>1, <4>2 DEF Checks, At, StepCase
    <3> QED
      BY <3>2, <3>3
  <2> QED
    BY <2>1, <2>2
<1>5. ASSUME RefuseClient(p) PROVE At(p, "check") /\ StepCase(p)
  BY <1>0, <1>2, <1>3, <1>5 DEF RefuseClient, Quits, NoStore, At
<1>6. ASSUME RefuseGrant(p) PROVE (At(p, "sessLoad") \/ At(p, "claim")) /\ StepCase(p)
  BY <1>0, <1>2, <1>3, <1>6 DEF RefuseGrant, Quits, NoStore, At
<1>7. ASSUME LoadSession(p) PROVE At(p, "sessLoad") /\ StepCase(p)
  <2>1. CASE Return(p, "refused")
    BY <1>0, <1>2, <1>3, <1>7, <2>1 DEF LoadSession, Quits, NoStore, At
  <2>2. CASE ~Return(p, "refused")
    BY <1>0, <1>1, <1>7, <2>2, GoMoves DEF LoadSession, TakesRow, NoStore, At, StepCase
  <2> QED
    BY <2>1, <2>2
<1>8. ASSUME RefreshSession(p) PROVE At(p, "sessPut") /\ StepCase(p)
  <2>1. [op |-> "session", live |-> TRUE] \in Command
    BY DEF Command
  <2> QED
    BY <1>1, <1>8, <2>1, PutCases DEF RefreshSession, Sends, At
<1>9. ASSUME ClaimToken(p) PROVE At(p, "claim") /\ StepCase(p)
  <2>1. [op |-> "spend", tok |-> req[p].tok] \in Command
    BY <1>0 DEF Command, Request
  <2> QED
    BY <1>1, <1>9, <2>1, PutCases DEF ClaimToken, Sends, At
<1>10. ASSUME RotateRow(p) PROVE At(p, "claimed") /\ StepCase(p)
  <2>1. [op |-> "family", hash |-> p, revoked |-> req[p].revoked] \in Command
    BY <1>0 DEF Command, Request, Token
  <2> QED
    BY <1>1, <1>10, <2>1, PutCases DEF RotateRow, Sends, At
<1>11. ASSUME LoseClaim(p) PROVE At(p, "claimed") /\ StepCase(p)
  <2>1. CASE Return(p, "refused")
    BY <1>0, <1>2, <1>3, <1>11, <2>1 DEF LoseClaim, Quits, NoStore, At
  <2>2. CASE ~Return(p, "refused")
    BY <1>0, <1>1, <1>11, <2>2, WhySteps DEF LoseClaim, Checks, NoStore, NoLock, At, StepCase
  <2> QED
    BY <2>1, <2>2
<1>12. ASSUME ReturnPair(p) PROVE At(p, "rotated") /\ StepCase(p)
  BY <1>0, <1>2, <1>3, <1>12 DEF ReturnPair, Quits, NoStore, At
<1>13. ASSUME CheckLive(p) PROVE At(p, "check") /\ StepCase(p)
  <2>1. CASE FamilyIsRevoked(p)
    BY <1>0, <1>2, <1>3, <1>13, <2>1 DEF CheckLive, Quits, NoStore, At
  <2>2. CASE ~FamilyIsRevoked(p)
    BY <1>0, <1>1, <1>13, <2>2, GoMoves DEF CheckLive, Checks, NoStore, NoLock, At, StepCase
  <2> QED
    BY <2>1, <2>2
<1>14. ASSUME MarkTombstone(p) PROVE At(p, "tomb") /\ StepCase(p)
  <2>1. [op |-> "tombstone"] \in Command
    BY DEF Command
  <2> QED
    BY <1>1, <1>14, <2>1, MarkPutCases DEF MarkTombstone, Sends, At
<1>15. ASSUME MarkSpent(p) PROVE At(p, "spend") /\ StepCase(p)
  <2>1. [op |-> "spend", tok |-> req[p].hash] \in Command
    BY <1>0 DEF Command, Request
  <2> QED
    BY <1>1, <1>15, <2>1, MarkPutCases DEF MarkSpent, Sends, At
<1>16. ASSUME FlagRow(p) PROVE At(p, "flag") /\ StepCase(p)
  <2>1. [op |-> "family", hash |-> req[p].hash, revoked |-> TRUE] \in Command
    BY <1>0 DEF Command, Request
  <2> QED
    BY <1>1, <1>16, <2>1, MarkPutCases DEF FlagRow, Sends, At
<1>17. ASSUME EndMark(p) PROVE At(p, "flagged") /\ StepCase(p)
  <2>1. CASE req[p].why \in {"replay", "token"}
    BY <1>0, <1>1, <1>17, <2>1, GoMoves DEF EndMark, DropsFamily, NoStore, At, StepCase
  <2>2. CASE req[p].why \notin {"replay", "token"}
    BY <1>0, <1>2, <1>3, <1>17, <2>2 DEF EndMark, Quits, NoStore, At
  <2> QED
    BY <2>1, <2>2
<1>18. ASSUME LockSession(p) PROVE At(p, "endLoad") /\ StepCase(p)
  BY <1>0, <1>1, <1>18, GoMoves DEF LockSession, TakesRow, NoStore, At, StepCase
<1>19. ASSUME EndSession(p) PROVE At(p, "endPut") /\ StepCase(p)
  <2>1. [op |-> "session", live |-> FALSE] \in Command
    BY DEF Command
  <2>2. PICK c \in Command : c = [op |-> "session", live |-> FALSE]
    BY <2>1
  <2>3. Sends(p, c, "ended")
    BY <1>19, <2>2 DEF EndSession, Sends, At
  <2>4. CASE Write(p, c, "ended")
    BY <1>1, <1>19, <2>3, <2>4, PutCases DEF EndSession, Put
  <2>5. CASE GiveUp(c) /\ Return(p, CascadeError(p))
    <3>1. Ends(p, CascadeError(p))
      BY <1>0, <1>2, <2>5
    <3> QED
      BY <1>0, <1>1, <1>19, <2>3, <2>5, <3>1 DEF EndSession, CascadeError, Loses, At, StepCase
  <2> QED
    BY <1>19, <2>2, <2>4, <2>5 DEF EndSession
<1>20. ASSUME DropRowGuard(p) PROVE (At(p, "sessDone") \/ At(p, "ended")) /\ StepCase(p)
  BY <1>0, <1>1, <1>20, GoMoves DEF DropRowGuard, DropsRow, NoStore, At, StepCase
<1>21. ASSUME Cascade(p) PROVE At(p, "cascade") /\ StepCase(p)
  <2>1. CASE view[req[p].node].revoked
    BY <1>0, <1>2, <1>3, <1>21, <2>1 DEF Cascade, Quits, NoStore, At
  <2>2. CASE ~view[req[p].node].revoked
    <3>1. Steps(p, "tomb", "cascade", view[req[p].node].hash, FALSE, req[p].won,
                req[p].tombed)
      <4>1. /\ req[p].node \in Node /\ view[req[p].node].hash \in Token
            /\ req' = [req EXCEPT ![p].pc = "tomb", ![p].why = "cascade",
                                  ![p].hash = view[req[p].node].hash,
                                  ![p].revoked = FALSE]
        BY <1>21, <2>2 DEF Cascade, At, ControlInv, TypeOK, Rows
      <4>2. PICK h \in Token : h = view[req[p].node].hash
        BY <4>1
      <4>3. req'[p] = [pc |-> "tomb", kind |-> req[p].kind, why |-> "cascade",
                       node |-> req[p].node, tok |-> req[p].tok, hash |-> h,
                       revoked |-> FALSE, won |-> req[p].won,
                       tombed |-> req[p].tombed, result |-> req[p].result]
        BY <1>0, <4>1, <4>2 DEF Request
      <4>4. req'[p] \in Request
        BY <1>0, <1>1, <4>2, <4>3 DEF Request
      <4>5. \A q \in Req : q # p => req'[q] = req[q]
        BY <1>0, <4>1
      <4>6. req' \in [Req -> Request]
        BY <1>0, <4>1, <4>4, <4>5
      <4> QED
        BY <4>2, <4>3, <4>5, <4>6 DEF Steps, Becomes
    <3> QED
      BY <1>21, <2>2, <3>1 DEF Cascade, TakesFamily, NoStore, At, StepCase
  <2> QED
    BY <2>1, <2>2
<1>22. ASSUME CascadeFails(p)
       PROVE  (At(p, "cascade") \/ At(p, "flagged")) /\ StepCase(p)
  BY <1>0, <1>2, <1>3, <1>22 DEF CascadeFails, CascadeError, Answer, Quits, NoStore, At
<1>23. ASSUME SkipCascade(p) PROVE At(p, "cascade") /\ StepCase(p)
  BY <1>0, <1>2, <1>3, <1>23 DEF SkipCascade, Quits, NoStore, At
<1>24. ASSUME EvictSession(p) PROVE At(p, "sessPut") /\ StepCase(p)
  <2>1. [op |-> "session", live |-> FALSE] \in Command
    BY DEF Command
  <2> QED
    BY <1>1, <1>24, <2>1, PutCases DEF EvictSession, Sends, At
<1>25. ASSUME RefuseEvicted(p) PROVE At(p, "evicted") /\ StepCase(p)
  BY <1>0, <1>2, <1>3, <1>25 DEF RefuseEvicted, Quits, NoStore, At
<1>26. (\E pc \in Phases : At(p, pc)) => Waited(p)
  BY DEF At, Waited
<1> QED
  BY <1>4, <1>5, <1>6, <1>7, <1>8, <1>9, <1>10, <1>11, <1>12, <1>13, <1>14, <1>15,
     <1>16, <1>17, <1>18, <1>19, <1>20, <1>21, <1>22, <1>23, <1>24, <1>25, <1>26
     DEF Step, At, Waited

\* A request begins.
LEMMA BeginEffects ==
    ASSUME TypeOK, NEW p \in Req, NEW n \in Node, NEW kind \in Kinds \ {"session"},
           NEW tok \in Token, Begin(p, kind, n, tok)
    PROVE  Starts(p, IF kind = "token" THEN "tomb" ELSE "check", kind, kind, n, tok,
                  view[n].hash, view[n].revoked)
<1>0. req \in [Req -> Request] /\ view[n].hash \in Token /\ view[n].revoked \in BOOLEAN
  BY TypedOK DEF Typed, TypeOK, Rows
<1> DEFINE pc == IF kind = "token" THEN "tomb" ELSE "check"
           hash == view[n].hash
           revoked == view[n].revoked
<1>1. PICK g : g = [Idle EXCEPT !.pc = pc, !.kind = kind, !.why = kind, !.node = n,
                                !.tok = tok, !.hash = hash, !.revoked = revoked]
  OBVIOUS
<1>2. pc \in Phases /\ hash \in Token /\ revoked \in BOOLEAN
  BY <1>0 DEF Phases
<1>3. req' = [req EXCEPT ![p] = g]
  BY <1>1 DEF Begin
<1> HIDE DEF pc, hash, revoked
<1>4. g = [pc |-> pc, kind |-> kind, why |-> kind, node |-> n, tok |-> tok,
           hash |-> hash, revoked |-> revoked, won |-> FALSE, tombed |-> FALSE,
           result |-> "none"]
  BY <1>1, IdleFields DEF Request
<1>5. g \in Request
  BY <1>2, <1>4 DEF Request, Results
<1>6. Becomes(p, g)
  BY <1>0, <1>3, <1>5, BecomesReplaced
<1> QED
  BY <1>4, <1>6 DEF Starts, pc, hash, revoked

LEMMA BeginSessionEffects ==
    ASSUME TypeOK, NEW p \in Req, NEW n \in Node, BeginSession(p, n)
    PROVE  Starts(p, "endPut", "session", "refresh", n, Issued, Issued, FALSE)
<1>0. req \in [Req -> Request]
  BY TypedOK DEF Typed
<1>1. PICK g : g = [Idle EXCEPT !.pc = "endPut", !.kind = "session", !.node = n]
  OBVIOUS
<1>2. req' = [req EXCEPT ![p] = g]
  BY <1>1 DEF BeginSession
<1>3. g = [pc |-> "endPut", kind |-> "session", why |-> "refresh", node |-> n,
           tok |-> Issued, hash |-> Issued, revoked |-> FALSE, won |-> FALSE,
           tombed |-> FALSE, result |-> "none"]
  BY <1>1, IdleFields DEF Request
<1>4. g \in Request
  BY <1>3 DEF Request, Results, Phases, Kinds, Token
<1>5. Becomes(p, g)
  BY <1>0, <1>2, <1>4, BecomesReplaced
<1> QED
  BY <1>3, <1>5 DEF Starts

-----------------------------------------------------------------------------
(* Types, control and locks.                                               *)

\* Every step keeps the types.
LEMMA TypeStep ==
    ASSUME TypeOK, ControlInv, Next
    PROVE  TypeOK'
<1>0. ASSUME rows' \in Rows, view' \in [Node -> Rows], queue' \in [Node -> Seq(Entry)],
             late' \subseteq Command, faults' \in 0 .. MaxFaults,
             famLock' \in [Node -> Req \cup {Nobody}],
             rowLock' \in [Node -> Req \cup {Nobody}], req' \in [Req -> Request]
      PROVE  TypeOK'
  BY <1>0 DEF TypeOK, Request
<1>1. ASSUME NEW p \in Req, NEW n \in Node, NEW kind \in Kinds \ {"session"},
            NEW tok \in Delivered, Begin(p, kind, n, tok)
      PROVE  TypeOK'
  <2>1. req' \in [Req -> Request]
    BY <1>1, BeginEffects DEF Delivered, Token, Starts, Becomes
  <2>2. /\ rows' \in Rows /\ view' \in [Node -> Rows] /\ queue' \in [Node -> Seq(Entry)]
        /\ late' \subseteq Command /\ faults' \in 0 .. MaxFaults
    BY <1>1 DEF Begin, TypeOK
  <2>3. /\ famLock' \in [Node -> Req \cup {Nobody}]
        /\ rowLock' \in [Node -> Req \cup {Nobody}]
    BY <1>1 DEF Begin, TypeOK
  <2> QED
    BY <1>0, <2>1, <2>2, <2>3
<1>2. ASSUME NEW p \in Req, NEW n \in Node, BeginSession(p, n)
      PROVE  TypeOK'
  <2>1. req' \in [Req -> Request]
    BY <1>2, BeginSessionEffects DEF Starts, Becomes
  <2>2. /\ rows' \in Rows /\ view' \in [Node -> Rows] /\ queue' \in [Node -> Seq(Entry)]
        /\ late' \subseteq Command /\ faults' \in 0 .. MaxFaults
    BY <1>2 DEF BeginSession, TypeOK
  <2>3. /\ famLock' \in [Node -> Req \cup {Nobody}]
        /\ rowLock' \in [Node -> Req \cup {Nobody}]
    BY <1>2 DEF BeginSession, TypeOK
  <2> QED
    BY <1>0, <2>1, <2>2, <2>3
<1>3. ASSUME NEW p \in Req, NEW c \in Command, NEW x \in Phases, Waited(p),
            Writes(p, c, x)
      PROVE  TypeOK'
  <2>0. req[p].node \in Node
    BY <1>3 DEF Writes, Sends, ControlInv
  <2>1. req' \in [Req -> Request]
    BY <1>3 DEF Writes, Steps, Becomes
  <2>2. /\ rows' \in Rows /\ view' \in [Node -> Rows] /\ queue' \in [Node -> Seq(Entry)]
        /\ late' \subseteq Command /\ faults' \in 0 .. MaxFaults
    BY <1>3, <2>0, CommitEffects DEF Writes, TypeOK
  <2>3. /\ famLock' \in [Node -> Req \cup {Nobody}]
        /\ rowLock' \in [Node -> Req \cup {Nobody}]
    BY <1>3 DEF Writes, NoLock, TypeOK
  <2> QED
    BY <1>0, <2>1, <2>2, <2>3
<1>4. ASSUME NEW p \in Req, NEW c \in Command, NEW x \in Phases,
            NEW result \in Results, Waited(p), Loses(p, c, x, result)
      PROVE  TypeOK'
  <2>1. req' \in [Req -> Request]
    BY <1>4 DEF Loses, Ends, Finishes, Becomes
  <2>2. /\ rows' \in Rows /\ view' \in [Node -> Rows] /\ queue' \in [Node -> Seq(Entry)]
        /\ late' \subseteq Command /\ faults' \in 0 .. MaxFaults
    BY <1>4, GrantAssumption DEF Loses, GiveUp, TypeOK
  <2>3. /\ famLock' \in [Node -> Req \cup {Nobody}]
        /\ rowLock' \in [Node -> Req \cup {Nobody}]
    BY <1>4 DEF Loses, Ends, Release, TypeOK
  <2> QED
    BY <1>0, <2>1, <2>2, <2>3
<1>5. ASSUME NEW p \in Req, NEW c \in Command, NEW x \in Phases, NEW y \in Phases,
            Waited(p), Skips(p, c, x, y)
      PROVE  TypeOK'
  <2>1. req' \in [Req -> Request]
    BY <1>5 DEF Skips, Moves, Steps, Becomes
  <2>2. /\ rows' \in Rows /\ view' \in [Node -> Rows] /\ queue' \in [Node -> Seq(Entry)]
        /\ late' \subseteq Command /\ faults' \in 0 .. MaxFaults
    BY <1>5, GrantAssumption DEF Skips, GiveUp, TypeOK
  <2>3. /\ famLock' \in [Node -> Req \cup {Nobody}]
        /\ rowLock' \in [Node -> Req \cup {Nobody}]
    BY <1>5 DEF Skips, NoLock, TypeOK
  <2> QED
    BY <1>0, <2>1, <2>2, <2>3
<1>6. ASSUME NEW p \in Req, NEW result \in Results, Waited(p), Quits(p, result)
      PROVE  TypeOK'
  <2>1. req' \in [Req -> Request]
    BY <1>6 DEF Quits, Ends, Finishes, Becomes
  <2>2. /\ rows' \in Rows /\ view' \in [Node -> Rows] /\ queue' \in [Node -> Seq(Entry)]
        /\ late' \subseteq Command /\ faults' \in 0 .. MaxFaults
    BY <1>6 DEF Quits, NoStore, TypeOK
  <2>3. /\ famLock' \in [Node -> Req \cup {Nobody}]
        /\ rowLock' \in [Node -> Req \cup {Nobody}]
    BY <1>6 DEF Quits, Ends, Release, TypeOK
  <2> QED
    BY <1>0, <2>1, <2>2, <2>3
<1>7. ASSUME NEW p \in Req, Waited(p), Checks(p)
      PROVE  TypeOK'
  <2>1. req' \in [Req -> Request]
    BY <1>7 DEF Checks, Moves, Steps, Becomes
  <2>2. /\ rows' \in Rows /\ view' \in [Node -> Rows] /\ queue' \in [Node -> Seq(Entry)]
        /\ late' \subseteq Command /\ faults' \in 0 .. MaxFaults
    BY <1>7 DEF Checks, NoStore, TypeOK
  <2>3. /\ famLock' \in [Node -> Req \cup {Nobody}]
        /\ rowLock' \in [Node -> Req \cup {Nobody}]
    BY <1>7 DEF Checks, NoLock, TypeOK
  <2> QED
    BY <1>0, <2>1, <2>2, <2>3
<1>8. ASSUME NEW p \in Req, Waited(p), TakesRow(p)
      PROVE  TypeOK'
  <2>1. req' \in [Req -> Request]
    BY <1>8 DEF TakesRow, Moves, Steps, Becomes
  <2>2. /\ rows' \in Rows /\ view' \in [Node -> Rows] /\ queue' \in [Node -> Seq(Entry)]
        /\ late' \subseteq Command /\ faults' \in 0 .. MaxFaults
    BY <1>8 DEF TakesRow, NoStore, TypeOK
  <2>3. /\ famLock' \in [Node -> Req \cup {Nobody}]
        /\ rowLock' \in [Node -> Req \cup {Nobody}]
    BY <1>8 DEF TakesRow, Release, TypeOK
  <2> QED
    BY <1>0, <2>1, <2>2, <2>3
<1>9. ASSUME NEW p \in Req, Waited(p), DropsRow(p)
      PROVE  TypeOK'
  <2>1. req' \in [Req -> Request]
    BY <1>9 DEF DropsRow, Moves, Steps, Becomes
  <2>2. /\ rows' \in Rows /\ view' \in [Node -> Rows] /\ queue' \in [Node -> Seq(Entry)]
        /\ late' \subseteq Command /\ faults' \in 0 .. MaxFaults
    BY <1>9 DEF DropsRow, NoStore, TypeOK
  <2>3. /\ famLock' \in [Node -> Req \cup {Nobody}]
        /\ rowLock' \in [Node -> Req \cup {Nobody}]
    BY <1>9 DEF DropsRow, Release, TypeOK
  <2> QED
    BY <1>0, <2>1, <2>2, <2>3
<1>10. ASSUME NEW p \in Req, Waited(p), DropsFamily(p)
      PROVE  TypeOK'
  <2>1. req' \in [Req -> Request]
    BY <1>10 DEF DropsFamily, Moves, Steps, Becomes
  <2>2. /\ rows' \in Rows /\ view' \in [Node -> Rows] /\ queue' \in [Node -> Seq(Entry)]
        /\ late' \subseteq Command /\ faults' \in 0 .. MaxFaults
    BY <1>10 DEF DropsFamily, NoStore, TypeOK
  <2>3. /\ famLock' \in [Node -> Req \cup {Nobody}]
        /\ rowLock' \in [Node -> Req \cup {Nobody}]
    BY <1>10 DEF DropsFamily, Release, TypeOK
  <2> QED
    BY <1>0, <2>1, <2>2, <2>3
<1>11. ASSUME NEW p \in Req, Waited(p), TakesFamily(p)
      PROVE  TypeOK'
  <2>1. req' \in [Req -> Request]
    BY <1>11 DEF TakesFamily, Moves, Steps, Becomes
  <2>2. /\ rows' \in Rows /\ view' \in [Node -> Rows] /\ queue' \in [Node -> Seq(Entry)]
        /\ late' \subseteq Command /\ faults' \in 0 .. MaxFaults
    BY <1>11 DEF TakesFamily, NoStore, TypeOK
  <2>3. /\ famLock' \in [Node -> Req \cup {Nobody}]
        /\ rowLock' \in [Node -> Req \cup {Nobody}]
    BY <1>11 DEF TakesFamily, Release, TypeOK
  <2> QED
    BY <1>0, <2>1, <2>2, <2>3
<1>12. ASSUME NEW n \in Node, Apply(n)
      PROVE  TypeOK'
  <2>1. req' \in [Req -> Request]
    BY <1>12, TypedOK DEF Apply, Typed
  <2>2. /\ rows' \in Rows /\ view' \in [Node -> Rows] /\ queue' \in [Node -> Seq(Entry)]
        /\ late' \subseteq Command /\ faults' \in 0 .. MaxFaults
    BY <1>12, ApplyEffects DEF Apply, TypeOK
  <2>3. /\ famLock' \in [Node -> Req \cup {Nobody}]
        /\ rowLock' \in [Node -> Req \cup {Nobody}]
    BY <1>12 DEF Apply, TypeOK
  <2> QED
    BY <1>0, <2>1, <2>2, <2>3
<1>13. ASSUME NEW c \in late, CommitLate(c)
      PROVE  TypeOK'
  <2>1. req' \in [Req -> Request]
    BY <1>13, TypedOK DEF CommitLate, Typed
  <2>2. /\ rows' \in Rows /\ view' \in [Node -> Rows] /\ queue' \in [Node -> Seq(Entry)]
        /\ late' \subseteq Command /\ faults' \in 0 .. MaxFaults
    BY <1>13, CommitEffects DEF CommitLate, TypeOK
  <2>3. /\ famLock' \in [Node -> Req \cup {Nobody}]
        /\ rowLock' \in [Node -> Req \cup {Nobody}]
    BY <1>13 DEF CommitLate, TypeOK
  <2> QED
    BY <1>0, <2>1, <2>2, <2>3
<1> QED
  BY <1>1, <1>2, <1>3, <1>4, <1>5, <1>6, <1>7, <1>8, <1>9, <1>10, <1>11, <1>12,
     <1>13, StepCases DEF Next, StepCase

\* Every step leaves the request ready for its next phase.
LEMMA ControlStep ==
    ASSUME TypeOK, ControlInv, Next
    PROVE  ControlInv'
<1>1. ASSUME NEW p \in Req, NEW n \in Node, NEW kind \in Kinds \ {"session"},
            NEW tok \in Delivered, Begin(p, kind, n, tok)
      PROVE  ControlInv'
  <2>1. Starts(p, IF kind = "token" THEN "tomb" ELSE "check", kind, kind, n, tok,
               view[n].hash, view[n].revoked)
    BY <1>1, BeginEffects DEF Delivered, Token
  <2> QED
    BY <2>1 DEF Starts, ControlInv, RotatePhases, Becomes
<1>2. ASSUME NEW p \in Req, NEW n \in Node, BeginSession(p, n)
      PROVE  ControlInv'
  <2>1. Starts(p, "endPut", "session", "refresh", n, Issued, Issued, FALSE)
    BY <1>2, BeginSessionEffects
  <2> QED
    BY <2>1 DEF Starts, ControlInv, RotatePhases, Becomes
<1>3. ASSUME NEW p \in Req, NEW c \in Command, NEW x \in Phases, Waited(p),
            Writes(p, c, x)
      PROVE  ControlInv'
  BY <1>3 DEF Writes, Sends, Steps, ControlInv, RotatePhases, Becomes
<1>4. ASSUME NEW p \in Req, NEW c \in Command, NEW x \in Phases,
            NEW result \in Results, Waited(p), Loses(p, c, x, result)
      PROVE  ControlInv'
  BY <1>4 DEF Loses, Ends, Finishes, ControlInv, RotatePhases, Becomes
<1>5. ASSUME NEW p \in Req, NEW c \in Command, NEW x \in Phases, NEW y \in Phases,
            Waited(p), Skips(p, c, x, y)
      PROVE  ControlInv'
  BY <1>5 DEF Skips, Sends, Moves, Steps, ControlInv, RotatePhases, Becomes
<1>6. ASSUME NEW p \in Req, NEW result \in Results, Waited(p), Quits(p, result)
      PROVE  ControlInv'
  BY <1>6 DEF Quits, Ends, Finishes, ControlInv, RotatePhases, Becomes
<1>7. ASSUME NEW p \in Req, Waited(p), Checks(p)
      PROVE  ControlInv'
  BY <1>7 DEF Checks, Moves, Steps, ControlInv, RotatePhases, Becomes
<1>8. ASSUME NEW p \in Req, Waited(p), TakesRow(p)
      PROVE  ControlInv'
  BY <1>8 DEF TakesRow, Moves, Steps, ControlInv, RotatePhases, Becomes
<1>9. ASSUME NEW p \in Req, Waited(p), DropsRow(p)
      PROVE  ControlInv'
  BY <1>9 DEF DropsRow, Moves, Steps, ControlInv, RotatePhases, Becomes
<1>10. ASSUME NEW p \in Req, Waited(p), DropsFamily(p)
      PROVE  ControlInv'
  BY <1>10 DEF DropsFamily, Moves, Steps, ControlInv, RotatePhases, Becomes
<1>11. ASSUME NEW p \in Req, Waited(p), TakesFamily(p)
      PROVE  ControlInv'
  BY <1>11 DEF TakesFamily, Moves, Steps, ControlInv, RotatePhases, Becomes
<1>12. ASSUME NEW n \in Node, Apply(n)
      PROVE  ControlInv'
  BY <1>12 DEF Apply, ControlInv
<1>13. ASSUME NEW c \in late, CommitLate(c)
      PROVE  ControlInv'
  BY <1>13 DEF CommitLate, ControlInv
<1> QED
  BY <1>1, <1>2, <1>3, <1>4, <1>5, <1>6, <1>7, <1>8, <1>9, <1>10, <1>11, <1>12,
     <1>13, StepCases DEF Next, StepCase

\* A lock is taken and dropped with the phases it belongs to.
LEMMA LockStep ==
    ASSUME TypeOK, ControlInv, LockInv, Next
    PROVE  LockInv'
<1>1. ASSUME NEW p \in Req, NEW n \in Node, NEW kind \in Kinds \ {"session"},
            NEW tok \in Delivered, Begin(p, kind, n, tok)
      PROVE  LockInv'
  <2>1. Starts(p, IF kind = "token" THEN "tomb" ELSE "check", kind, kind, n, tok,
               view[n].hash, view[n].revoked)
    BY <1>1, BeginEffects DEF Delivered, Token
  <2>2. /\ req[p].pc = "idle" /\ UNCHANGED rowLock
        /\ \A m \in Node : famLock'[m] = IF m = n THEN p ELSE famLock[m]
    BY <1>1 DEF Begin, TypeOK
  <2> QED
    BY <2>1, <2>2 DEF Starts, LockInv, FamilyPhases, RowPhases, Becomes
<1>2. ASSUME NEW p \in Req, NEW n \in Node, BeginSession(p, n)
      PROVE  LockInv'
  <2>1. Starts(p, "endPut", "session", "refresh", n, Issued, Issued, FALSE)
    BY <1>2, BeginSessionEffects
  <2>2. /\ req[p].pc = "idle" /\ UNCHANGED famLock /\ rowLock[n] = Nobody
        /\ \A m \in Node : rowLock'[m] = IF m = n THEN p ELSE rowLock[m]
    BY <1>2 DEF BeginSession, TypeOK
  <2> QED
    BY <2>1, <2>2, GrantAssumption DEF Starts, LockInv, FamilyPhases, RowPhases, Becomes
<1>3. ASSUME NEW p \in Req, NEW c \in Command, NEW x \in Phases, Waited(p),
            Writes(p, c, x)
      PROVE  LockInv'
  <2>1. /\ req'[p].pc = x /\ req'[p].node = req[p].node
        /\ \A q \in Req : q # p => req'[q] = req[q]
    BY <1>3 DEF Writes, Steps, Becomes
  <2>2. UNCHANGED <<famLock, rowLock>>
    BY <1>3 DEF Writes, NoLock
  <2>3. Sends(p, c, x)
    BY <1>3 DEF Writes
  <2>4. /\ req[p].pc \in FamilyPhases => x \in FamilyPhases
        /\ req[p].pc \in RowPhases <=> x \in RowPhases
    BY <2>3 DEF Sends, FamilyPhases, RowPhases
  <2> SUFFICES ASSUME NEW q \in Req, NEW n \in Node
               PROVE  /\ famLock[n] = q => req'[q].node = n /\ req'[q].pc \in FamilyPhases
                      /\ rowLock[n] = q <=> req'[q].node = n /\ req'[q].pc \in RowPhases
    BY <2>2 DEF LockInv
  <2>5. CASE q = p
    BY <2>1, <2>4, <2>5 DEF LockInv
  <2>6. CASE q # p
    BY <2>1, <2>6 DEF LockInv
  <2> QED
    BY <2>5, <2>6
<1>4. ASSUME NEW p \in Req, NEW c \in Command, NEW x \in Phases,
            NEW result \in Results, Waited(p), Loses(p, c, x, result)
      PROVE  LockInv'
  <2>1. /\ req'[p].pc = "done" /\ \A q \in Req : q # p => req'[q] = req[q]
        /\ \A m \in Node : famLock'[m] = IF famLock[m] = p THEN Nobody ELSE famLock[m]
        /\ \A m \in Node : rowLock'[m] = IF rowLock[m] = p THEN Nobody ELSE rowLock[m]
    BY <1>4 DEF Loses, Ends, Finishes, Becomes, Release
  <2> QED
    BY <2>1, GrantAssumption DEF LockInv, FamilyPhases, RowPhases
<1>5. ASSUME NEW p \in Req, NEW c \in Command, NEW x \in Phases, NEW y \in Phases,
            Waited(p), Skips(p, c, x, y)
      PROVE  LockInv'
  BY <1>5 DEF Skips, NoLock, Moves, Steps, LockInv, FamilyPhases, RowPhases, Becomes
<1>6. ASSUME NEW p \in Req, NEW result \in Results, Waited(p), Quits(p, result)
      PROVE  LockInv'
  <2>1. /\ req'[p].pc = "done" /\ \A q \in Req : q # p => req'[q] = req[q]
        /\ \A m \in Node : famLock'[m] = IF famLock[m] = p THEN Nobody ELSE famLock[m]
        /\ \A m \in Node : rowLock'[m] = IF rowLock[m] = p THEN Nobody ELSE rowLock[m]
    BY <1>6 DEF Quits, Ends, Finishes, Becomes, Release
  <2> QED
    BY <2>1, GrantAssumption DEF LockInv, FamilyPhases, RowPhases
<1>7. ASSUME NEW p \in Req, Waited(p), Checks(p)
      PROVE  LockInv'
  <2>1. /\ UNCHANGED <<famLock, rowLock>> /\ \A q \in Req : q # p => req'[q] = req[q]
        /\ req'[p].node = req[p].node /\ req'[p].pc \in {"sessLoad", "tomb"}
        /\ req[p].pc \in {"check", "claimed"}
    BY <1>7 DEF Checks, NoLock, Moves, Steps, Becomes
  <2> QED
    BY <2>1 DEF LockInv, FamilyPhases, RowPhases
<1>8. ASSUME NEW p \in Req, Waited(p), TakesRow(p)
      PROVE  LockInv'
  BY <1>8, GrantAssumption DEF TakesRow, Release, Moves, Steps, LockInv, FamilyPhases, RowPhases, Becomes, TypeOK
<1>9. ASSUME NEW p \in Req, Waited(p), DropsRow(p)
      PROVE  LockInv'
  BY <1>9, GrantAssumption DEF DropsRow, Release, Moves, Steps, LockInv, FamilyPhases, RowPhases, Becomes, TypeOK
<1>10. ASSUME NEW p \in Req, Waited(p), DropsFamily(p)
      PROVE  LockInv'
  BY <1>10, GrantAssumption DEF DropsFamily, Release, Moves, Steps, LockInv, FamilyPhases, RowPhases, Becomes, TypeOK
<1>11. ASSUME NEW p \in Req, Waited(p), TakesFamily(p)
      PROVE  LockInv'
  BY <1>11, GrantAssumption DEF TakesFamily, Release, Moves, Steps, LockInv, FamilyPhases, RowPhases, Becomes, TypeOK
<1>12. ASSUME NEW n \in Node, Apply(n)
      PROVE  LockInv'
  BY <1>12 DEF Apply, LockInv
<1>13. ASSUME NEW c \in late, CommitLate(c)
      PROVE  LockInv'
  BY <1>13 DEF CommitLate, LockInv
<1> QED
  BY <1>1, <1>2, <1>3, <1>4, <1>5, <1>6, <1>7, <1>8, <1>9, <1>10, <1>11, <1>12,
     <1>13, StepCases DEF Next, StepCase

-----------------------------------------------------------------------------
(* Entries and those who wait for them.                                    *)

\* Nothing that p wrote is still in a queue.
NoneBy(p) == \A n \in Node : \A i \in 1 .. Len(queue[n]) : queue[n][i].by # p

Others(p) == \A q \in Req : q # p => req'[q] = req[q]

\* A request that has waited, or has not begun, has no entry anywhere.
LEMMA WaitedNone ==
    ASSUME QueueInv, NEW p \in Req, Waited(p) \/ req[p].pc = "idle"
    PROVE  NoneBy(p)
BY GrantAssumption DEF QueueInv, Waited, NoneBy

LEMMA EntryTyped ==
    ASSUME TypeOK, NEW n \in Node, NEW i \in 1 .. Len(queue[n])
    PROVE  /\ queue[n][i] \in Entry /\ queue[n][i].cmd \in Command
           /\ queue[n][i].by \in Req \cup {Nobody}
<1>1. queue[n] \in Seq(Entry)
  BY DEF TypeOK
<1>2. queue[n][i] \in Entry
  BY <1>1
<1> QED
  BY <1>2 DEF Entry

LEMMA QueueFrame ==
    ASSUME TypeOK, QueueInv, NEW p \in Req, NoneBy(p), UNCHANGED queue, Others(p)
    PROVE  QueueInv'
<1> SUFFICES ASSUME NEW n \in Node, NEW i \in 1 .. Len(queue[n]), queue[n][i].by # Nobody
             PROVE  LET e == queue[n][i] IN
                    /\ req'[e.by].node = n /\ req'[e.by].pc \notin {"idle", "done"}
                    /\ e.cmd.op = "session" => req'[e.by].pc \in {"sessDone", "evicted", "ended"}
  BY DEF QueueInv
<1>1. queue[n][i].by \in Req
  BY EntryTyped
<1>2. req'[queue[n][i].by] = req[queue[n][i].by]
  BY <1>1 DEF NoneBy, Others
<1> QED
  BY <1>2 DEF QueueInv

\* A request writes only when nothing of its own is queued, and waits on its node.
LEMMA QueueStep ==
    ASSUME TypeOK, ControlInv, QueueInv, Next
    PROVE  QueueInv'
<1>1. ASSUME NEW p \in Req, NEW n \in Node, NEW kind \in Kinds \ {"session"},
            NEW tok \in Delivered, Begin(p, kind, n, tok)
      PROVE  QueueInv'
  <2>1. Others(p) /\ UNCHANGED queue /\ req[p].pc = "idle"
    BY <1>1, BeginEffects DEF Begin, Delivered, Token, Starts, Becomes, Others
  <2> QED
    BY <2>1, QueueFrame, WaitedNone
<1>2. ASSUME NEW p \in Req, NEW n \in Node, BeginSession(p, n)
      PROVE  QueueInv'
  <2>1. Others(p) /\ UNCHANGED queue /\ req[p].pc = "idle"
    BY <1>2, BeginSessionEffects DEF BeginSession, Starts, Becomes, Others
  <2> QED
    BY <2>1, QueueFrame, WaitedNone
<1>3. ASSUME NEW p \in Req, NEW c \in Command, NEW x \in Phases, Waited(p),
            Writes(p, c, x)
      PROVE  QueueInv'
  <2>1. NoneBy(p) /\ req[p].node \in Node
    BY <1>3, WaitedNone DEF Writes, Sends, ControlInv
  <2>2. /\ Others(p) /\ req'[p].node = req[p].node /\ req'[p].pc = x
        /\ x \notin {"idle", "done"} /\ (c.op = "session" => x \in {"sessDone", "evicted", "ended"})
    BY <1>3 DEF Writes, Steps, Becomes, Others, Sends
  <2>3. \A m \in Node :
          /\ Len(queue[m]) \in Nat /\ Len(queue'[m]) = Len(queue[m]) + 1
          /\ queue'[m][Len(queue[m]) + 1] = Sent(p, req[p].node, c, m)
          /\ \A i \in 1 .. Len(queue[m]) : queue'[m][i] = queue[m][i]
    BY <1>3, <2>1, CommitEffects DEF Writes
  <2> SUFFICES ASSUME NEW m \in Node, NEW i \in 1 .. Len(queue'[m]),
                      queue'[m][i].by # Nobody
               PROVE  LET e == queue'[m][i] IN
                      /\ req'[e.by].node = m /\ req'[e.by].pc \notin {"idle", "done"}
                      /\ e.cmd.op = "session" => req'[e.by].pc \in {"sessDone", "evicted", "ended"}
    BY DEF QueueInv
  <2>4. CASE i = Len(queue[m]) + 1
    <3>1. queue'[m][i].by = p /\ m = req[p].node /\ queue'[m][i].cmd = c
      <4>1. queue'[m][i] = Sent(p, req[p].node, c, m)
        BY <2>3, <2>4
      <4> QED
        BY <4>1 DEF Sent
    <3> QED
      BY <2>2, <3>1
  <2>5. CASE i \in 1 .. Len(queue[m])
    <3>1. queue'[m][i] = queue[m][i] /\ queue[m][i].by \in Req
      BY <2>3, <2>5, EntryTyped
    <3>2. req'[queue[m][i].by] = req[queue[m][i].by]
      BY <2>1, <2>2, <2>5, <3>1 DEF NoneBy, Others
    <3> QED
      BY <2>5, <3>1, <3>2 DEF QueueInv
  <2> QED
    BY <2>3, <2>4, <2>5
<1>4. ASSUME NEW p \in Req, NEW c \in Command, NEW x \in Phases,
            NEW result \in Results, Waited(p), Loses(p, c, x, result)
      PROVE  QueueInv'
  <2>1. Others(p) /\ UNCHANGED queue
    BY <1>4 DEF Loses, GiveUp, Ends, Finishes, Becomes, Others
  <2> QED
    BY <1>4, <2>1, QueueFrame, WaitedNone
<1>5. ASSUME NEW p \in Req, NEW c \in Command, NEW x \in Phases, NEW y \in Phases,
            Waited(p), Skips(p, c, x, y)
      PROVE  QueueInv'
  <2>1. Others(p) /\ UNCHANGED queue
    BY <1>5 DEF Skips, GiveUp, Moves, Steps, Becomes, Others
  <2> QED
    BY <1>5, <2>1, QueueFrame, WaitedNone
<1>6. ASSUME NEW p \in Req, NEW result \in Results, Waited(p), Quits(p, result)
      PROVE  QueueInv'
  <2>1. Others(p) /\ UNCHANGED queue
    BY <1>6 DEF Quits, NoStore, Ends, Finishes, Becomes, Others
  <2> QED
    BY <1>6, <2>1, QueueFrame, WaitedNone
<1>7. ASSUME NEW p \in Req, Waited(p), Checks(p)
      PROVE  QueueInv'
  <2>1. Others(p) /\ UNCHANGED queue
    BY <1>7 DEF Checks, NoStore, Moves, Steps, Becomes, Others
  <2> QED
    BY <1>7, <2>1, QueueFrame, WaitedNone
<1>8. ASSUME NEW p \in Req, Waited(p), TakesRow(p)
      PROVE  QueueInv'
  <2>1. Others(p) /\ UNCHANGED queue
    BY <1>8 DEF TakesRow, NoStore, Moves, Steps, Becomes, Others
  <2> QED
    BY <1>8, <2>1, QueueFrame, WaitedNone
<1>9. ASSUME NEW p \in Req, Waited(p), DropsRow(p)
      PROVE  QueueInv'
  <2>1. Others(p) /\ UNCHANGED queue
    BY <1>9 DEF DropsRow, NoStore, Moves, Steps, Becomes, Others
  <2> QED
    BY <1>9, <2>1, QueueFrame, WaitedNone
<1>10. ASSUME NEW p \in Req, Waited(p), DropsFamily(p)
      PROVE  QueueInv'
  <2>1. Others(p) /\ UNCHANGED queue
    BY <1>10 DEF DropsFamily, NoStore, Moves, Steps, Becomes, Others
  <2> QED
    BY <1>10, <2>1, QueueFrame, WaitedNone
<1>11. ASSUME NEW p \in Req, Waited(p), TakesFamily(p)
      PROVE  QueueInv'
  <2>1. Others(p) /\ UNCHANGED queue
    BY <1>11 DEF TakesFamily, NoStore, Moves, Steps, Becomes, Others
  <2> QED
    BY <1>11, <2>1, QueueFrame, WaitedNone
<1>12. ASSUME NEW n \in Node, Apply(n)
      PROVE  QueueInv'
  <2>1. \A m \in Node : \A i \in 1 .. Len(queue'[m]) :
          \E j \in 1 .. Len(queue[m]) : queue'[m][i] = queue[m][j]
    BY <1>12, ApplyEffects
  <2>2. UNCHANGED req
    BY <1>12 DEF Apply
  <2> QED
    BY <2>1, <2>2 DEF QueueInv
<1>13. ASSUME NEW c \in late, CommitLate(c)
      PROVE  QueueInv'
  <2>1. Commit(Nobody, Nobody, c) /\ c \in Command /\ UNCHANGED req
    BY <1>13 DEF CommitLate, TypeOK
  <2>2. \A m \in Node :
          /\ Len(queue[m]) \in Nat /\ Len(queue'[m]) = Len(queue[m]) + 1
          /\ queue'[m][Len(queue[m]) + 1] = Sent(Nobody, Nobody, c, m)
          /\ \A i \in 1 .. Len(queue[m]) : queue'[m][i] = queue[m][i]
    BY <2>1, CommitEffects
  <2>3. \A m \in Node : \A i \in 1 .. Len(queue'[m]) :
          queue'[m][i].by = Nobody \/ (i \in 1 .. Len(queue[m]) /\ queue'[m][i] = queue[m][i])
    BY <2>2 DEF Sent
  <2> QED
    BY <2>1, <2>3 DEF QueueInv
<1> QED
  BY <1>1, <1>2, <1>3, <1>4, <1>5, <1>6, <1>7, <1>8, <1>9, <1>10, <1>11, <1>12,
     <1>13, StepCases DEF Next, StepCase

-----------------------------------------------------------------------------
(* Tombstones, flags and the answers of the revocations.                   *)

\* What a step does to the store.
LEMMA StoreCases ==
    ASSUME TypeOK, ControlInv, Next
    PROVE  \/ UNCHANGED <<rows, view, queue>>
           \/ \E p \in Req, c \in Command, x \in Phases : Waited(p) /\ Writes(p, c, x)
           \/ \E n \in Node : Apply(n)
           \/ \E c \in late : CommitLate(c)
<1>1. ASSUME NEW p \in Req, Step(p)
      PROVE  \/ UNCHANGED <<rows, view, queue>>
             \/ \E c \in Command, x \in Phases : Waited(p) /\ Writes(p, c, x)
  <2>1. Waited(p) /\ StepCase(p)
    BY <1>1, StepCases
  <2> QED
    BY <2>1 DEF StepCase, Loses, Skips, GiveUp, Quits, Checks, TakesRow, DropsRow,
                DropsFamily, TakesFamily, NoStore
<1>2. ASSUME NEW p \in Req, NEW n \in Node, NEW kind, NEW tok,
             Begin(p, kind, n, tok) \/ BeginSession(p, n)
      PROVE  UNCHANGED <<rows, view, queue>>
  BY <1>2 DEF Begin, BeginSession
<1> QED
  BY <1>1, <1>2 DEF Next

\* What a commit does to tombstones and flags.
LEMMA Grows ==
    ASSUME TypeOK, ControlInv, Next
    PROVE  /\ rows.tomb => rows'.tomb
           /\ faults > 0 => faults' > 0
           /\ Recorded => Recorded'
<1>1. rows.tomb => rows'.tomb
  <2>1. ASSUME NEW p \in Req, NEW c \in Command, NEW x \in Phases, Writes(p, c, x)
        PROVE  rows.tomb => rows'.tomb
    <3>1. req[p].node \in Node /\ Commit(p, req[p].node, c)
      BY <2>1 DEF Writes, Sends, ControlInv
    <3> QED
      BY <3>1, CommitEffects
  <2>2. ASSUME NEW c \in late, CommitLate(c)
        PROVE  rows.tomb => rows'.tomb
    <3>1. c \in Command /\ Commit(Nobody, Nobody, c)
      BY <2>2 DEF CommitLate, TypeOK
    <3> QED
      BY <3>1, CommitEffects
  <2> QED
    BY <2>1, <2>2, StoreCases DEF Apply
<1>2. faults > 0 => faults' > 0
  <2>1. faults \in Nat
    BY GrantAssumption DEF TypeOK
  <2>2. faults' = faults \/ faults' = faults + 1
    <3>1. ASSUME NEW p \in Req, Step(p)
          PROVE  faults' = faults \/ faults' = faults + 1
      <4>1. StepCase(p)
        BY <3>1, StepCases
      <4> QED
        BY <4>1 DEF StepCase, Writes, Loses, Skips, GiveUp, Quits, Checks, TakesRow,
                    DropsRow, DropsFamily, TakesFamily, NoStore
    <3> QED
      BY <3>1 DEF Next, Begin, BeginSession, Apply, CommitLate
  <2> QED
    BY <2>1, <2>2
<1> QED
  BY <1>1, <1>2 DEF Recorded

\* The command of a write, and what has been recorded when it is made.
LEMMA SendRecorded ==
    ASSUME MarkedInv, NEW p \in Req, NEW c \in Command, NEW x, Sends(p, c, x)
    PROVE  c.op = "family" /\ c.revoked => Recorded
BY DEF Sends, MarkedInv

\* An entry that is appended, and rows that move on with it.
LEMMA SeenCommit ==
    ASSUME TypeOK, SeenInv, Recorded => Recorded', rows.tomb => rows'.tomb,
           NEW by \in Req \cup {Nobody}, NEW n \in Node \cup {Nobody}, NEW c \in Command,
           Commit(by, n, c), c.op = "family" /\ c.revoked => Recorded
    PROVE  SeenInv'
<1>1. /\ view' = view /\ (c.op = "tombstone" => rows'.tomb)
      /\ \A m \in Node :
            /\ Len(queue[m]) \in Nat /\ Len(queue'[m]) = Len(queue[m]) + 1
            /\ queue'[m][Len(queue[m]) + 1] = Sent(by, n, c, m)
            /\ \A i \in 1 .. Len(queue[m]) : queue'[m][i] = queue[m][i]
  BY CommitEffects
<1>2. \A m \in Node : \A i \in 1 .. Len(queue'[m]) :
        queue'[m][i].cmd = c \/ (i \in 1 .. Len(queue[m]) /\ queue'[m][i] = queue[m][i])
  <2>1. \A m : Sent(by, n, c, m).cmd = c
    BY DEF Sent
  <2> QED
    BY <1>1, <2>1
<1> QED
  BY <1>1, <1>2, SMTT(30) DEF SeenInv

LEMMA SeenStep ==
    ASSUME TypeOK, ControlInv, SeenInv, LateInv, MarkedInv, Next
    PROVE  SeenInv'
<1>0. (Recorded => Recorded') /\ (rows.tomb => rows'.tomb)
  BY Grows
<1>1. CASE UNCHANGED <<rows, view, queue>>
  BY <1>0, <1>1 DEF SeenInv
<1>2. ASSUME NEW p \in Req, NEW c \in Command, NEW x \in Phases, Writes(p, c, x)
      PROVE  SeenInv'
  <2>1. /\ req[p].node \in Node /\ Commit(p, req[p].node, c)
        /\ c.op = "family" /\ c.revoked => Recorded
    BY <1>2, SendRecorded DEF Writes, Sends, ControlInv
  <2> QED
    BY <1>0, <2>1, SeenCommit
<1>3. ASSUME NEW n \in Node, Apply(n) PROVE SeenInv'
  <2>1. /\ \A m \in Node : m # n => view'[m] = view[m] /\ queue'[m] = queue[m]
        /\ 1 \in 1 .. Len(queue[n]) /\ queue[n][1] \in Entry
        /\ view'[n] = Applied(view[n], queue[n][1])
        /\ \A i \in 1 .. Len(queue'[n]) :
              i + 1 \in 1 .. Len(queue[n]) /\ queue'[n][i] = queue[n][i + 1]
    BY <1>3, ApplyEffects
  <2>2. view[n] \in Rows
    BY DEF TypeOK
  <2>3. PICK e \in Entry : e = queue[n][1]
    BY <2>1
  <2>4. /\ Applied(view[n], e).revoked =
              IF e.cmd.op = "family" THEN e.cmd.revoked ELSE view[n].revoked
        /\ Applied(view[n], e).tomb = IF e.cmd.op = "tombstone" THEN TRUE ELSE view[n].tomb
    BY <2>2, AppliedFields
  <2>5. /\ view'[n].tomb => rows.tomb
        /\ view'[n].revoked => Recorded
    BY <2>1, <2>3, <2>4 DEF SeenInv
  <2>6. UNCHANGED rows
    BY <1>3 DEF Apply
  <2> QED
    BY <1>0, <2>1, <2>5, <2>6 DEF SeenInv
<1>4. ASSUME NEW c \in late, CommitLate(c) PROVE SeenInv'
  <2>1. /\ c \in Command /\ Commit(Nobody, Nobody, c)
        /\ c.op = "family" /\ c.revoked => Recorded
    BY <1>4 DEF CommitLate, TypeOK, LateInv
  <2> QED
    BY <1>0, <2>1, SeenCommit
<1> QED
  BY <1>1, <1>2, <1>3, <1>4, StoreCases

LEMMA LateStep ==
    ASSUME TypeOK, ControlInv, LateInv, Next
    PROVE  LateInv'
<1>0. Recorded => Recorded'
  BY Grows
<1>1. late' \subseteq late \/ faults' > 0
  <2>1. ASSUME NEW p \in Req, Step(p) PROVE late' \subseteq late \/ faults' > 0
    <3>1. StepCase(p)
      BY <2>1, StepCases
    <3>2. faults \in Nat
      BY GrantAssumption DEF TypeOK
    <3>3. late' \subseteq late \/ faults' = faults + 1
      <4>1. \A c : GiveUp(c) => faults' = faults + 1
        BY DEF GiveUp
      <4> QED
        BY <3>1, <4>1 DEF StepCase, Writes, Loses, Skips, Quits, Checks, TakesRow,
                          DropsRow, DropsFamily, TakesFamily, NoStore
    <3> QED
      BY <3>2, <3>3
  <2> QED
    BY <2>1 DEF Next, Begin, BeginSession, Apply, CommitLate
<1> QED
  BY <1>0, <1>1 DEF LateInv, Recorded

\* A marking goes on only past a tombstone that is written, except in a cascade.
LEMMA MarkedStep ==
    ASSUME TypeOK, ControlInv, SeenInv, MarkedInv, Next
    PROVE  MarkedInv'
<1>0. (Recorded => Recorded') /\ (rows.tomb => rows'.tomb)
  BY Grows
<1>1. ASSUME NEW p \in Req, NEW n \in Node, NEW kind \in Kinds \ {"session"},
            NEW tok \in Delivered, Begin(p, kind, n, tok)
      PROVE  MarkedInv'
  <2>1. Starts(p, IF kind = "token" THEN "tomb" ELSE "check", kind, kind, n, tok,
               view[n].hash, view[n].revoked)
    BY <1>1, BeginEffects DEF Delivered, Token
  <2>2. view[n].revoked => Recorded
    BY DEF SeenInv
  <2> QED
    BY <1>0, <2>1, <2>2 DEF Starts, Becomes, Kinds, MarkedInv, EndPhases
<1>2. ASSUME NEW p \in Req, NEW n \in Node, BeginSession(p, n)
      PROVE  MarkedInv'
  <2>1. Starts(p, "endPut", "session", "refresh", n, Issued, Issued, FALSE)
    BY <1>2, BeginSessionEffects
  <2> QED
    BY <1>0, <2>1 DEF Starts, Becomes, MarkedInv, EndPhases
<1>3. ASSUME NEW p \in Req, NEW c \in Command, NEW x \in Phases, Waited(p),
            Writes(p, c, x)
      PROVE  MarkedInv'
  <2>1. x = "spend" => rows'.tomb
    <3>1. req[p].node \in Node /\ Commit(p, req[p].node, c)
      BY <1>3 DEF Writes, Sends, ControlInv
    <3>2. x = "spend" => c.op = "tombstone"
      BY <1>3 DEF Writes, Sends
    <3> QED
      BY <3>1, <3>2, CommitEffects
  <2>2. /\ \A q \in Req : q # p => req'[q] = req[q]
        /\ req'[p].revoked = req[p].revoked /\ req'[p].why = req[p].why
        /\ req'[p].kind = req[p].kind /\ req'[p].pc = x
    BY <1>3 DEF Writes, Steps, Becomes
  <2>3. /\ x \in {"flag", "flagged"} => req[p].pc \in {"spend", "flag"}
        /\ x \in EndPhases => req[p].pc = "endPut"
    BY <1>3 DEF Writes, Sends, EndPhases
  <2> QED
    BY <1>0, <2>1, <2>2, <2>3 DEF MarkedInv, EndPhases, Recorded
<1>4. ASSUME NEW p \in Req, NEW c \in Command, NEW x \in Phases,
            NEW result \in Results, Waited(p), Loses(p, c, x, result)
      PROVE  MarkedInv'
  BY <1>4, <1>0 DEF Loses, Ends, Finishes, Becomes, MarkedInv, EndPhases
<1>5. ASSUME NEW p \in Req, NEW c \in Command, NEW x \in Phases, NEW y \in Phases,
            Waited(p), Skips(p, c, x, y)
      PROVE  MarkedInv'
  <2>1. Recorded'
    BY <1>5, GrantAssumption DEF Skips, GiveUp, TypeOK, Recorded
  <2> QED
    BY <1>5, <1>0, <2>1 DEF Skips, Moves, Steps, Becomes, MarkedInv, EndPhases
<1>6. ASSUME NEW p \in Req, NEW result \in Results, Waited(p), Quits(p, result)
      PROVE  MarkedInv'
  BY <1>6, <1>0 DEF Quits, Ends, Finishes, Becomes, MarkedInv, EndPhases
<1>7. ASSUME NEW p \in Req, Waited(p), Checks(p)
      PROVE  MarkedInv'
  BY <1>7, <1>0 DEF Checks, Moves, Steps, Becomes, MarkedInv, EndPhases
<1>8. ASSUME NEW p \in Req, Waited(p), TakesRow(p)
      PROVE  MarkedInv'
  BY <1>8, <1>0 DEF TakesRow, Moves, Steps, Becomes, MarkedInv, EndPhases
<1>9. ASSUME NEW p \in Req, Waited(p), DropsRow(p)
      PROVE  MarkedInv'
  BY <1>9, <1>0 DEF DropsRow, Moves, Steps, Becomes, MarkedInv, EndPhases
<1>10. ASSUME NEW p \in Req, Waited(p), DropsFamily(p)
      PROVE  MarkedInv'
  BY <1>10, <1>0 DEF DropsFamily, Moves, Steps, Becomes, ControlInv, MarkedInv, EndPhases
<1>11. ASSUME NEW p \in Req, Waited(p), TakesFamily(p)
      PROVE  MarkedInv'
  BY <1>11, <1>0 DEF TakesFamily, Moves, Steps, Becomes, MarkedInv, EndPhases
<1>12. ASSUME NEW n \in Node, Apply(n)
      PROVE  MarkedInv'
  BY <1>12, <1>0 DEF Apply, MarkedInv
<1>13. ASSUME NEW c \in late, CommitLate(c)
      PROVE  MarkedInv'
  BY <1>13, <1>0 DEF CommitLate, MarkedInv
<1> QED
  BY <1>1, <1>2, <1>3, <1>4, <1>5, <1>6, <1>7, <1>8, <1>9, <1>10, <1>11, <1>12,
     <1>13, StepCases DEF Next, StepCase

\* An answer is given only with the tombstone written.
LEMMA RecordedStep ==
    ASSUME TypeOK, ControlInv, SeenInv, MarkedInv, RevocationRecorded, Next
    PROVE  RevocationRecorded'
<1>0. (faults > 0 => faults' > 0) /\ (rows.tomb => rows'.tomb)
  BY Grows
<1>1. ASSUME NEW p \in Req, NEW n \in Node, NEW kind \in Kinds \ {"session"},
            NEW tok \in Delivered, Begin(p, kind, n, tok)
      PROVE  RevocationRecorded'
  <2>1. Starts(p, IF kind = "token" THEN "tomb" ELSE "check", kind, kind, n, tok,
               view[n].hash, view[n].revoked)
    BY <1>1, BeginEffects DEF Delivered, Token
  <2> QED
    BY <1>0, <2>1 DEF Starts, Becomes, RevocationRecorded
<1>2. ASSUME NEW p \in Req, NEW n \in Node, BeginSession(p, n)
      PROVE  RevocationRecorded'
  <2>1. Starts(p, "endPut", "session", "refresh", n, Issued, Issued, FALSE)
    BY <1>2, BeginSessionEffects
  <2> QED
    BY <1>0, <2>1 DEF Starts, Becomes, RevocationRecorded
<1>3. ASSUME NEW p \in Req, NEW c \in Command, NEW x \in Phases, Waited(p),
            Writes(p, c, x)
      PROVE  RevocationRecorded'
  BY <1>3, <1>0 DEF Writes, Steps, Becomes, RevocationRecorded
<1>4. ASSUME NEW p \in Req, NEW c \in Command, NEW x \in Phases,
            NEW result \in Results, Waited(p), Loses(p, c, x, result)
      PROVE  RevocationRecorded'
  BY <1>4, <1>0 DEF Loses, Ends, Finishes, Becomes, MarkedInv, EndPhases, RevocationRecorded
<1>5. ASSUME NEW p \in Req, NEW c \in Command, NEW x \in Phases, NEW y \in Phases,
            Waited(p), Skips(p, c, x, y)
      PROVE  RevocationRecorded'
  BY <1>5, <1>0 DEF Skips, Moves, Steps, Becomes, RevocationRecorded
<1>6. ASSUME NEW p \in Req, NEW result \in Results, Waited(p), Quits(p, result)
      PROVE  RevocationRecorded'
  <2>1. result = "consent" /\ req[p].pc = "check" /\ FamilyIsRevoked(p) => Recorded
    BY DEF FamilyIsRevoked, MarkedInv, SeenInv, ControlInv, Recorded
  <2>2. result = Answer(p) /\ req[p].pc \in {"flagged", "cascade"} =>
          result = "session" \/ rows.tomb
    BY DEF Answer, MarkedInv, EndPhases, ControlInv
  <2>3. result = "replayed" /\ req[p].pc = "cascade" => rows.tomb
    BY <1>6 DEF Quits, Answer, MarkedInv, EndPhases
  <2>4. /\ result \in {"token", "replayed"} => rows.tomb
        /\ result = "consent" => Recorded
    BY <1>6, <2>1, <2>2, <2>3 DEF Quits, Recorded
  <2> QED
    BY <1>6, <1>0, <2>4 DEF Quits, Ends, Finishes, Becomes, RevocationRecorded, Recorded
<1>7. ASSUME NEW p \in Req, Waited(p), Checks(p)
      PROVE  RevocationRecorded'
  BY <1>7, <1>0 DEF Checks, Moves, Steps, Becomes, RevocationRecorded
<1>8. ASSUME NEW p \in Req, Waited(p), TakesRow(p)
      PROVE  RevocationRecorded'
  BY <1>8, <1>0 DEF TakesRow, Moves, Steps, Becomes, RevocationRecorded
<1>9. ASSUME NEW p \in Req, Waited(p), DropsRow(p)
      PROVE  RevocationRecorded'
  BY <1>9, <1>0 DEF DropsRow, Moves, Steps, Becomes, RevocationRecorded
<1>10. ASSUME NEW p \in Req, Waited(p), DropsFamily(p)
      PROVE  RevocationRecorded'
  BY <1>10, <1>0 DEF DropsFamily, Moves, Steps, Becomes, RevocationRecorded
<1>11. ASSUME NEW p \in Req, Waited(p), TakesFamily(p)
      PROVE  RevocationRecorded'
  BY <1>11, <1>0 DEF TakesFamily, Moves, Steps, Becomes, RevocationRecorded
<1>12. ASSUME NEW n \in Node, Apply(n)
      PROVE  RevocationRecorded'
  BY <1>12, <1>0 DEF Apply, RevocationRecorded
<1>13. ASSUME NEW c \in late, CommitLate(c)
      PROVE  RevocationRecorded'
  BY <1>13, <1>0 DEF CommitLate, RevocationRecorded
<1> QED
  BY <1>1, <1>2, <1>3, <1>4, <1>5, <1>6, <1>7, <1>8, <1>9, <1>10, <1>11, <1>12,
     <1>13, StepCases DEF Next, StepCase

\* The two kinds of commit: a request's write, and one given up before.
LEMMA WriteEffects ==
    ASSUME TypeOK, ControlInv, NEW p \in Req, NEW c \in Command, NEW x, Writes(p, c, x)
    PROVE  /\ rows'.tomb = IF c.op = "tombstone" THEN TRUE ELSE rows.tomb
           /\ rows'.spent = IF c.op = "spend" THEN rows.spent \cup {c.tok} ELSE rows.spent
           /\ rows'.live = IF c.op = "session" THEN c.live ELSE rows.live
           /\ rows'.ender = IF c.op = "session" /\ ~c.live THEN req[p].node ELSE rows.ender
           /\ view' = view
           /\ \A m \in Node :
                 /\ Len(queue[m]) \in Nat /\ Len(queue'[m]) = Len(queue[m]) + 1
                 /\ queue'[m][Len(queue[m]) + 1].cmd = c
                 /\ \A i \in 1 .. Len(queue[m]) : queue'[m][i] = queue[m][i]
<1>1. PICK k \in Node \cup {Nobody} : k = req[p].node
  BY DEF Writes, Sends, ControlInv
<1>2. PICK by \in Req \cup {Nobody} : by = p
  OBVIOUS
<1>3. Commit(by, k, c)
  BY <1>1, <1>2 DEF Writes
<1>4. \A m : Sent(by, k, c, m).cmd = c
  BY DEF Sent
<1>5. /\ rows'.tomb = IF c.op = "tombstone" THEN TRUE ELSE rows.tomb
      /\ rows'.spent = IF c.op = "spend" THEN rows.spent \cup {c.tok} ELSE rows.spent
      /\ rows'.live = IF c.op = "session" THEN c.live ELSE rows.live
      /\ rows'.ender = IF c.op = "session" /\ ~c.live THEN k ELSE rows.ender
      /\ view' = view
      /\ \A m \in Node :
            /\ Len(queue[m]) \in Nat /\ Len(queue'[m]) = Len(queue[m]) + 1
            /\ queue'[m][Len(queue[m]) + 1] = Sent(by, k, c, m)
            /\ \A i \in 1 .. Len(queue[m]) : queue'[m][i] = queue[m][i]
  BY <1>3, CommitEffects
<1> QED
  BY <1>1, <1>4, <1>5

LEMMA LateEffects ==
    ASSUME TypeOK, NEW c \in late, CommitLate(c)
    PROVE  /\ rows'.tomb = IF c.op = "tombstone" THEN TRUE ELSE rows.tomb
           /\ rows'.spent = IF c.op = "spend" THEN rows.spent \cup {c.tok} ELSE rows.spent
           /\ rows'.live = IF c.op = "session" THEN c.live ELSE rows.live
           /\ rows'.ender = IF c.op = "session" /\ ~c.live THEN Nobody ELSE rows.ender
           /\ view' = view
           /\ \A m \in Node :
                 /\ Len(queue[m]) \in Nat /\ Len(queue'[m]) = Len(queue[m]) + 1
                 /\ queue'[m][Len(queue[m]) + 1].cmd = c
                 /\ \A i \in 1 .. Len(queue[m]) : queue'[m][i] = queue[m][i]
<1>1. PICK k \in Node \cup {Nobody} : k = Nobody
  OBVIOUS
<1>2. PICK by \in Req \cup {Nobody} : by = Nobody
  OBVIOUS
<1>3. Commit(by, k, c) /\ c \in Command
  BY <1>1, <1>2 DEF CommitLate, TypeOK
<1>4. \A m : Sent(by, k, c, m).cmd = c
  BY DEF Sent
<1>5. /\ rows'.tomb = IF c.op = "tombstone" THEN TRUE ELSE rows.tomb
      /\ rows'.spent = IF c.op = "spend" THEN rows.spent \cup {c.tok} ELSE rows.spent
      /\ rows'.live = IF c.op = "session" THEN c.live ELSE rows.live
      /\ rows'.ender = IF c.op = "session" /\ ~c.live THEN k ELSE rows.ender
      /\ view' = view
      /\ \A m \in Node :
            /\ Len(queue[m]) \in Nat /\ Len(queue'[m]) = Len(queue[m]) + 1
            /\ queue'[m][Len(queue[m]) + 1] = Sent(by, k, c, m)
            /\ \A i \in 1 .. Len(queue[m]) : queue'[m][i] = queue[m][i]
  BY <1>3, CommitEffects
<1> QED
  BY <1>1, <1>4, <1>5

-----------------------------------------------------------------------------
(* The session row.                                                        *)

\* A commit that leaves the session alone, or ends it for a request.
LEMMA EndCommit ==
    ASSUME TypeOK, EndInv, NEW by \in Req \cup {Nobody}, NEW k \in Node \cup {Nobody},
           NEW c \in Command, Commit(by, k, c),
           c.op = "session" =>
               \/ c = [op |-> "session", live |-> TRUE]
               \/ (k = Nobody \/ by # Nobody) /\ c = [op |-> "session", live |-> FALSE]
    PROVE  EndInv'
<1>1. /\ view' = view
      /\ rows'.live = IF c.op = "session" THEN c.live ELSE rows.live
      /\ rows'.ender = IF c.op = "session" /\ ~c.live THEN k ELSE rows.ender
      /\ \A m \in Node :
            /\ Len(queue[m]) \in Nat /\ Len(queue'[m]) = Len(queue[m]) + 1
            /\ queue'[m][Len(queue[m]) + 1] = Sent(by, k, c, m)
            /\ \A i \in 1 .. Len(queue[m]) : queue'[m][i] = queue[m][i]
  BY CommitEffects
<1>2. \A m : Sent(by, k, c, m).cmd = c /\ (m = k => Sent(by, k, c, m).by = by)
  BY DEF Sent
<1> SUFFICES ASSUME ~rows'.live, NEW n \in Node, rows'.ender = n, n # Nobody
             PROVE  EndPending(n)' \/ EndApplied(n)'
  BY DEF EndInv
<1>3. CASE c.op = "session"
  <2>1. k = n /\ by # Nobody /\ c = [op |-> "session", live |-> FALSE]
    BY <1>1, <1>3
  <2>2. PICK i \in 1 .. Len(queue'[n]) : i = Len(queue[n]) + 1
    BY <1>1
  <2>3. queue'[n][i].cmd = c /\ queue'[n][i].by = by
    BY <1>1, <1>2, <2>1, <2>2
  <2>4. \A j \in i + 1 .. Len(queue'[n]) : FALSE
    <3>1. Len(queue[n]) \in Nat /\ Len(queue'[n]) = Len(queue[n]) + 1
      BY <1>1
    <3> QED
      BY <2>2, <3>1
  <2> QED
    BY <2>1, <2>3, <2>4 DEF EndPending
<1>4. CASE c.op # "session"
  <2>1. EndPending(n) \/ EndApplied(n)
    BY <1>1, <1>4 DEF EndInv
  <2>2. \A j \in 1 .. Len(queue'[n]) :
          \/ queue'[n][j].cmd.op # "session"
          \/ j \in 1 .. Len(queue[n]) /\ queue'[n][j] = queue[n][j]
    <3>1. queue'[n][Len(queue[n]) + 1].cmd.op # "session"
      BY <1>1, <1>2, <1>4
    <3>2. /\ Len(queue[n]) \in Nat /\ Len(queue'[n]) = Len(queue[n]) + 1
          /\ \A i \in 1 .. Len(queue[n]) : queue'[n][i] = queue[n][i]
      BY <1>1
    <3>3. \A j \in 1 .. Len(queue'[n]) : j = Len(queue[n]) + 1 \/ j \in 1 .. Len(queue[n])
      BY <3>2
    <3> QED
      BY <3>1, <3>2, <3>3
  <2>3. CASE EndApplied(n)
    BY <1>1, <2>2, <2>3 DEF EndApplied
  <2>4. CASE EndPending(n)
    <3>1. PICK i \in 1 .. Len(queue[n]) :
            /\ queue[n][i].cmd = [op |-> "session", live |-> FALSE]
            /\ queue[n][i].by # Nobody
            /\ \A j \in i + 1 .. Len(queue[n]) : queue[n][j].cmd.op # "session"
      BY <2>4 DEF EndPending
    <3>2. i \in 1 .. Len(queue'[n]) /\ queue'[n][i] = queue[n][i]
      BY <1>1
    <3>3. ASSUME NEW j \in i + 1 .. Len(queue'[n]) PROVE queue'[n][j].cmd.op # "session"
      <4>1. Len(queue[n]) \in Nat /\ Len(queue'[n]) = Len(queue[n]) + 1
        BY <1>1
      <4>2. /\ j \in 1 .. Len(queue'[n])
            /\ j \in 1 .. Len(queue[n]) => j \in i + 1 .. Len(queue[n])
        BY <4>1
      <4> QED
        BY <2>2, <3>1, <4>2
    <3> QED
      BY <3>1, <3>2, <3>3 DEF EndPending
  <2> QED
    BY <2>1, <2>3, <2>4
<1> QED
  BY <1>3, <1>4

LEMMA EndStep ==
    ASSUME TypeOK, ControlInv, EndInv, Next
    PROVE  EndInv'
<1>1. CASE UNCHANGED <<rows, view, queue>>
  BY <1>1 DEF EndInv, EndPending, EndApplied
<1>2. ASSUME NEW p \in Req, NEW c \in Command, NEW x \in Phases, Writes(p, c, x)
      PROVE  EndInv'
  <2>1. req[p].node \in Node /\ Commit(p, req[p].node, c)
    BY <1>2 DEF Writes, Sends, ControlInv
  <2>2. PICK k \in Node : k = req[p].node
    BY <2>1
  <2>3. c.op = "session" =>
          \/ c = [op |-> "session", live |-> TRUE]
          \/ (k = Nobody \/ p # Nobody) /\ c = [op |-> "session", live |-> FALSE]
    <3>1. p # Nobody
      BY GrantAssumption
    <3>2. Sends(p, c, x)
      BY <1>2 DEF Writes
    <3> QED
      BY <3>1, <3>2 DEF Sends
  <2>4. Commit(p, k, c)
    BY <2>1, <2>2
  <2> QED
    BY <2>3, <2>4, EndCommit
<1>3. ASSUME NEW n \in Node, Apply(n) PROVE EndInv'
  <2>1. /\ \A m \in Node : m # n => view'[m] = view[m] /\ queue'[m] = queue[m]
        /\ Len(queue[n]) \in Nat \ {0} /\ queue[n][1] \in Entry
        /\ view'[n] = Applied(view[n], queue[n][1])
        /\ Len(queue'[n]) = Len(queue[n]) - 1
        /\ \A i \in 1 .. Len(queue'[n]) :
              i + 1 \in 1 .. Len(queue[n]) /\ queue'[n][i] = queue[n][i + 1]
    BY <1>3, ApplyEffects
  <2>2. UNCHANGED rows /\ view[n] \in Rows
    BY <1>3 DEF Apply, TypeOK
  <2>3. PICK e \in Entry : e = queue[n][1]
    BY <2>1
  <2>4. view'[n].live = IF e.cmd.op = "session" THEN e.cmd.live ELSE view[n].live
    <3>1. Applied(view[n], e).live =
            IF e.cmd.op = "session" THEN e.cmd.live ELSE view[n].live
      BY <2>2, AppliedFields
    <3> QED
      BY <2>1, <2>3, <3>1
  <2> SUFFICES ASSUME ~rows.live, NEW m \in Node, rows.ender = m, m # Nobody
               PROVE  EndPending(m)' \/ EndApplied(m)'
    BY <2>2 DEF EndInv
  <2>5. EndPending(m) \/ EndApplied(m)
    BY DEF EndInv
  <2>6. CASE m # n
    <3>1. view'[m] = view[m] /\ queue'[m] = queue[m]
      BY <2>1, <2>6
    <3> QED
      BY <2>5, <3>1 DEF EndPending, EndApplied
  <2>7. CASE m = n /\ EndApplied(m)
    <3>1. ~view[n].live /\ \A i \in 1 .. Len(queue[n]) : queue[n][i].cmd.op # "session"
      BY <2>7 DEF EndApplied
    <3>2. e.cmd.op # "session"
      BY <2>1, <2>3, <3>1
    <3>3. ~view'[n].live
      BY <2>4, <3>1, <3>2
    <3>4. \A i \in 1 .. Len(queue'[n]) : queue'[n][i].cmd.op # "session"
      BY <2>1, <3>1
    <3> QED
      BY <2>7, <3>3, <3>4 DEF EndApplied
  <2>8. CASE m = n /\ EndPending(m)
    <3>1. PICK i \in 1 .. Len(queue[n]) :
            /\ queue[n][i].cmd = [op |-> "session", live |-> FALSE]
            /\ queue[n][i].by # Nobody
            /\ \A j \in i + 1 .. Len(queue[n]) : queue[n][j].cmd.op # "session"
      BY <2>8 DEF EndPending
    <3>2. CASE i = 1
      <4>1. e.cmd = [op |-> "session", live |-> FALSE]
        BY <2>3, <3>1, <3>2
      <4>2. e.cmd.op = "session" /\ e.cmd.live = FALSE
        BY <4>1
      <4>3. ASSUME NEW j \in 1 .. Len(queue'[n]) PROVE queue'[n][j].cmd.op # "session"
        <5>1. j + 1 \in 1 .. Len(queue[n]) /\ queue'[n][j] = queue[n][j + 1]
          BY <2>1
        <5>2. j + 1 \in i + 1 .. Len(queue[n])
          BY <3>2, <5>1
        <5> QED
          BY <3>1, <5>1, <5>2
      <4> QED
        BY <2>4, <2>8, <4>2, <4>3 DEF EndApplied
    <3>3. CASE i # 1
      <4>0. i - 1 \in 1 .. Len(queue'[n]) /\ (i - 1) + 1 = i
        BY <2>1, <3>3
      <4>1. PICK k \in 1 .. Len(queue'[n]) : k + 1 = i
        BY <4>0
      <4>2. queue'[n][k] = queue[n][i]
        BY <2>1, <4>1
      <4>3. ASSUME NEW j \in k + 1 .. Len(queue'[n]) PROVE queue'[n][j].cmd.op # "session"
        <5>1. Len(queue[n]) \in Nat /\ Len(queue'[n]) = Len(queue[n]) - 1
          BY <2>1
        <5>2. j \in 1 .. Len(queue'[n]) /\ j + 1 \in i + 1 .. Len(queue[n])
          BY <4>1, <5>1
        <5>3. queue'[n][j] = queue[n][j + 1]
          BY <2>1, <5>2
        <5> QED
          BY <3>1, <5>2, <5>3
      <4> QED
        BY <2>8, <3>1, <4>2, <4>3 DEF EndPending
    <3> QED
      BY <3>2, <3>3
  <2> QED
    BY <2>5, <2>6, <2>7, <2>8
<1>4. ASSUME NEW c \in late, CommitLate(c) PROVE EndInv'
  <2>1. c \in Command /\ Commit(Nobody, Nobody, c)
    BY <1>4 DEF CommitLate, TypeOK
  <2>2. PICK k \in Node \cup {Nobody} : k = Nobody
    OBVIOUS
  <2>3. c.op = "session" =>
          \/ c = [op |-> "session", live |-> TRUE]
          \/ (k = Nobody \/ k # Nobody) /\ c = [op |-> "session", live |-> FALSE]
    BY <2>1 DEF Command
  <2>4. Commit(k, k, c) /\ k \in Req \cup {Nobody}
    BY <2>1, <2>2
  <2> QED
    BY <2>1, <2>3, <2>4, EndCommit
<1> QED
  BY <1>1, <1>2, <1>3, <1>4, StoreCases

\* Whoever takes the row lock has seen every end made under it.
LEMMA PutStep ==
    ASSUME TypeOK, ControlInv, LockInv, QueueInv, EndInv, PutInv, Next
    PROVE  PutInv'
<1>1. ASSUME NEW p \in Req, NEW n \in Node, NEW kind \in Kinds \ {"session"},
            NEW tok \in Delivered, Begin(p, kind, n, tok)
      PROVE  PutInv'
  <2>1. Starts(p, IF kind = "token" THEN "tomb" ELSE "check", kind, kind, n, tok,
               view[n].hash, view[n].revoked)
    BY <1>1, BeginEffects DEF Delivered, Token
  <2>2. UNCHANGED rows /\ \A q \in Req : req'[q].pc = "sessPut" => req'[q] = req[q]
    BY <1>1, <2>1 DEF Begin, Starts, Becomes
  <2> QED
    BY <2>2 DEF PutInv
<1>2. ASSUME NEW p \in Req, NEW n \in Node, BeginSession(p, n)
      PROVE  PutInv'
  <2>1. Starts(p, "endPut", "session", "refresh", n, Issued, Issued, FALSE)
    BY <1>2, BeginSessionEffects
  <2>2. UNCHANGED rows /\ \A q \in Req : req'[q].pc = "sessPut" => req'[q] = req[q]
    BY <1>2, <2>1 DEF BeginSession, Starts, Becomes
  <2> QED
    BY <2>2 DEF PutInv
<1>3. ASSUME NEW p \in Req, NEW c \in Command, NEW x \in Phases, Waited(p),
            Writes(p, c, x)
      PROVE  PutInv'
  <2>1. \A q \in Req : req'[q].pc = "sessPut" => q # p /\ req'[q] = req[q]
    BY <1>3 DEF Writes, Sends, Steps, Becomes
  <2>2. req[p].node \in Node /\ Commit(p, req[p].node, c)
    BY <1>3 DEF Writes, Sends, ControlInv
  <2>3. /\ rows'.live = IF c.op = "session" THEN c.live ELSE rows.live
        /\ rows'.ender = IF c.op = "session" /\ ~c.live THEN req[p].node ELSE rows.ender
    BY <1>3, WriteEffects
  <2>4. CASE c.op = "session" /\ ~c.live
    <3>1. req[p].pc \in {"sessPut", "endPut"}
      BY <1>3, <2>4 DEF Writes, Sends
    <3>2. rowLock[req[p].node] = p
      BY <2>2, <3>1 DEF LockInv, RowPhases
    <3>3. \A q \in Req : req[q].pc = "sessPut" /\ q # p => req[q].node # req[p].node
      BY <2>2, <3>2 DEF LockInv, RowPhases
    <3> QED
      BY <2>1, <2>3, <2>4, <3>3 DEF PutInv
  <2>5. CASE ~(c.op = "session" /\ ~c.live)
    BY <2>1, <2>3, <2>5 DEF PutInv
  <2> QED
    BY <2>4, <2>5
<1>4. ASSUME NEW p \in Req, NEW c \in Command, NEW x \in Phases,
            NEW result \in Results, Waited(p), Loses(p, c, x, result)
      PROVE  PutInv'
  <2>1. UNCHANGED rows /\ \A q \in Req : req'[q].pc = "sessPut" => req'[q] = req[q]
    BY <1>4 DEF Loses, GiveUp, Ends, Finishes, Becomes
  <2> QED
    BY <2>1 DEF PutInv
<1>5. ASSUME NEW p \in Req, NEW c \in Command, NEW x \in Phases, NEW y \in Phases,
            Waited(p), Skips(p, c, x, y)
      PROVE  PutInv'
  <2>1. UNCHANGED rows /\ \A q \in Req : req'[q].pc = "sessPut" => req'[q] = req[q]
    BY <1>5 DEF Skips, GiveUp, Moves, Steps, Becomes
  <2> QED
    BY <2>1 DEF PutInv
<1>6. ASSUME NEW p \in Req, NEW result \in Results, Waited(p), Quits(p, result)
      PROVE  PutInv'
  <2>1. UNCHANGED rows /\ \A q \in Req : req'[q].pc = "sessPut" => req'[q] = req[q]
    BY <1>6 DEF Quits, NoStore, Ends, Finishes, Becomes
  <2> QED
    BY <2>1 DEF PutInv
<1>7. ASSUME NEW p \in Req, Waited(p), Checks(p)
      PROVE  PutInv'
  <2>1. UNCHANGED rows /\ \A q \in Req : req'[q].pc = "sessPut" => req'[q] = req[q]
    BY <1>7 DEF Checks, NoStore, Moves, Steps, Becomes
  <2> QED
    BY <2>1 DEF PutInv
<1>8. ASSUME NEW p \in Req, Waited(p), TakesRow(p)
      PROVE  PutInv'
  <2> DEFINE n == req[p].node
  <2>1. n \in Node /\ rowLock[n] = Nobody /\ UNCHANGED rows
    BY <1>8 DEF TakesRow, NoStore, ControlInv
  <2>2. \A q \in Req : req'[q].pc = "sessPut" =>
          req'[q] = req[q] \/ (q = p /\ req'[p].node = n /\ view[n].live)
    BY <1>8 DEF TakesRow, Moves, Steps, Becomes
  <2>3. ~EndPending(n)
    <3>1. ASSUME NEW i \in 1 .. Len(queue[n]), queue[n][i].by # Nobody,
                 queue[n][i].cmd = [op |-> "session", live |-> FALSE]
          PROVE  FALSE
      <4>1. queue[n][i].by \in Req /\ queue[n][i].cmd.op = "session"
        BY <2>1, <3>1, EntryTyped
      <4>2. /\ req[queue[n][i].by].node = n
            /\ req[queue[n][i].by].pc \in {"sessDone", "evicted", "ended"}
        BY <2>1, <3>1, <4>1 DEF QueueInv
      <4>3. rowLock[n] = queue[n][i].by
        BY <2>1, <4>1, <4>2 DEF LockInv, RowPhases
      <4> QED
        BY <2>1, <4>1, <4>3, GrantAssumption
    <3> QED
      BY <3>1 DEF EndPending
  <2>4. view[n].live => rows.live \/ rows.ender # n \/ rows.ender = Nobody
    BY <2>1, <2>3 DEF EndInv, EndApplied
  <2> HIDE DEF n
  <2> QED
    BY <2>1, <2>2, <2>4 DEF PutInv
<1>9. ASSUME NEW p \in Req, Waited(p), DropsRow(p)
      PROVE  PutInv'
  <2>1. UNCHANGED rows /\ \A q \in Req : req'[q].pc = "sessPut" => req'[q] = req[q]
    BY <1>9 DEF DropsRow, NoStore, Moves, Steps, Becomes
  <2> QED
    BY <2>1 DEF PutInv
<1>10. ASSUME NEW p \in Req, Waited(p), DropsFamily(p)
      PROVE  PutInv'
  <2>1. UNCHANGED rows /\ \A q \in Req : req'[q].pc = "sessPut" => req'[q] = req[q]
    BY <1>10 DEF DropsFamily, NoStore, Moves, Steps, Becomes
  <2> QED
    BY <2>1 DEF PutInv
<1>11. ASSUME NEW p \in Req, Waited(p), TakesFamily(p)
      PROVE  PutInv'
  <2>1. UNCHANGED rows /\ \A q \in Req : req'[q].pc = "sessPut" => req'[q] = req[q]
    BY <1>11 DEF TakesFamily, NoStore, Moves, Steps, Becomes
  <2> QED
    BY <2>1 DEF PutInv
<1>12. ASSUME NEW n \in Node, Apply(n)
      PROVE  PutInv'
  BY <1>12 DEF Apply, PutInv
<1>13. ASSUME NEW c \in late, CommitLate(c)
      PROVE  PutInv'
  <2>1. UNCHANGED req
    BY <1>13 DEF CommitLate
  <2>2. /\ rows'.live = IF c.op = "session" THEN c.live ELSE rows.live
        /\ rows'.ender = IF c.op = "session" /\ ~c.live THEN Nobody ELSE rows.ender
    BY <1>13, LateEffects
  <2> QED
    BY <2>1, <2>2 DEF PutInv
<1> QED
  BY <1>1, <1>2, <1>3, <1>4, <1>5, <1>6, <1>7, <1>8, <1>9, <1>10, <1>11, <1>12,
     <1>13, StepCases DEF Next, StepCase

\* What the row lock is for, as a property of one step.
LEMMA SessionStep ==
    ASSUME TypeOK, ControlInv, PutInv, Next, ~rows.live, rows'.live
    PROVE  \/ late' # late
           \/ rows.ender = Nobody
           \/ \E p \in Req : /\ req[p].pc = "sessPut" /\ req'[p].pc = "sessDone"
                             /\ req[p].node # rows.ender
<1>1. ASSUME NEW p \in Req, NEW c \in Command, NEW x \in Phases, Writes(p, c, x)
      PROVE  \/ rows.ender = Nobody
             \/ /\ req[p].pc = "sessPut" /\ req'[p].pc = "sessDone"
                /\ req[p].node # rows.ender
  <2>1. req[p].node \in Node /\ Commit(p, req[p].node, c)
    BY <1>1 DEF Writes, Sends, ControlInv
  <2>2. c.op = "session" /\ c.live
    <3>1. rows'.live = IF c.op = "session" THEN c.live ELSE rows.live
      BY <1>1, WriteEffects
    <3> QED
      BY <3>1
  <2>3. req[p].pc = "sessPut" /\ req'[p].pc = "sessDone"
    BY <1>1, <2>2 DEF Writes, Sends, Steps, Becomes
  <2> QED
    BY <2>3 DEF PutInv
<1>2. ASSUME NEW c \in late, CommitLate(c) PROVE late' # late
  BY <1>2 DEF CommitLate
<1> QED
  BY <1>1, <1>2, StoreCases DEF Apply

-----------------------------------------------------------------------------
(* How a request evolves.                                                  *)

\* q wins its claim.
Claims(q) ==
    /\ req[q].pc = "claim" /\ req'[q].pc = "claimed"
    /\ req'[q].result = req[q].result /\ req'[q].tok = req[q].tok
    /\ req[q].tok \notin rows.spent /\ rows'.spent = rows.spent \cup {req[q].tok}
    /\ req'[q].tombed = rows.tomb /\ rows'.tomb = rows.tomb
    /\ \A r \in Req : r # q => req'[r] = req[r]

\* q is still a winner, of the same claim.
Keeps(q) == Winner(q) /\ req'[q].tok = req[q].tok /\ req'[q].tombed = req[q].tombed

\* q passes the hash check, on a node that has not seen the tombstone.
Passes(q) ==
    req[q].pc = "check" /\ req[q].tok = req[q].hash /\ ~view[req[q].node].tomb

Evolves(q) ==
    /\ req[q].pc = "done" => req'[q] = req[q]
    /\ req[q].pc = "rotated" => req'[q].pc \in {"rotated", "done"}
    /\ Winner(q)' => Claims(q) \/ Keeps(q)
    /\ req'[q].tok = req[q].tok \/ req'[q].tok \in Delivered
    /\ req'[q].pc \in RotatePhases =>
          req'[q].tok = req[q].tok /\ (req[q].pc \in RotatePhases \/ Passes(q))
    /\ \/ req'[q].hash = req[q].hash \/ req'[q].hash = Issued
       \/ \E n \in Node : req'[q].hash = view[n].hash
    /\ req'[q].pc = "check" =>
          \/ req'[q] = req[q]
          \/ /\ req'[q].node \in Node /\ req'[q].hash = view[req'[q].node].hash
             /\ view' = view

EvolvesAll == \A q \in Req : Evolves(q)

LEMMA Unmoved ==
    ASSUME NEW q \in Req, req'[q] = req[q]
    PROVE  Evolves(q)
BY DEF Evolves, Winner, Paired, Keeps

\* It is enough to look at the request that moves.
LEMMA OneEvolves ==
    ASSUME NEW p \in Req, NEW r, Becomes(p, r), Evolves(p)
    PROVE  EvolvesAll
BY Unmoved DEF Becomes, EvolvesAll

\* Every step of the system.
LEMMA EvolvesStep ==
    ASSUME TypeOK, ControlInv, Next
    PROVE  EvolvesAll
<1>1. ASSUME NEW p \in Req, NEW n \in Node, NEW kind \in Kinds \ {"session"},
            NEW tok \in Delivered, Begin(p, kind, n, tok)
      PROVE  EvolvesAll
  <2>1. Starts(p, IF kind = "token" THEN "tomb" ELSE "check", kind, kind, n, tok,
               view[n].hash, view[n].revoked)
    BY <1>1, BeginEffects DEF Delivered, Token
  <2>2. /\ req[p].pc = "idle" /\ view' = view
        /\ req'[p].pc \in {"tomb", "check"} /\ req'[p].node = n
        /\ req'[p].tok = tok /\ req'[p].hash = view[n].hash /\ req'[p].result = "none"
    <3>1. /\ req'[p].pc = IF kind = "token" THEN "tomb" ELSE "check"
          /\ req'[p].node = n /\ req'[p].tok = tok /\ req'[p].hash = view[n].hash
          /\ req'[p].result = "none"
      BY <2>1 DEF Starts, Becomes
    <3>2. req[p].pc = "idle" /\ view' = view
      BY <1>1 DEF Begin
    <3> QED
      BY <3>1, <3>2
  <2>3. Evolves(p)
    BY <2>2 DEF Evolves, Winner, Paired, RotatePhases
  <2> QED
    BY <2>1, <2>3, OneEvolves DEF Starts
<1>2. ASSUME NEW p \in Req, NEW n \in Node, BeginSession(p, n)
      PROVE  EvolvesAll
  <2>1. Starts(p, "endPut", "session", "refresh", n, Issued, Issued, FALSE)
    BY <1>2, BeginSessionEffects
  <2>2. /\ req[p].pc = "idle" /\ req'[p].pc = "endPut" /\ req'[p].tok = Issued
        /\ req'[p].hash = Issued /\ req'[p].result = "none"
    BY <1>2, <2>1, ZenonT(60) DEF BeginSession, Starts, Becomes
  <2>3. Evolves(p)
    BY <2>2 DEF Evolves, Winner, Paired, RotatePhases, Delivered
  <2> QED
    BY <2>1, <2>3, OneEvolves DEF Starts
<1>3. ASSUME NEW p \in Req, NEW c \in Command, NEW x \in Phases, Waited(p),
            Writes(p, c, x)
      PROVE  EvolvesAll
  <2>1. /\ Sends(p, c, x) /\ req'[p].pc = x /\ req'[p].result = req[p].result
        /\ req'[p].tok = req[p].tok /\ req'[p].hash = req[p].hash
        /\ req'[p].won = (c.op = "spend" /\ c.tok \notin rows.spent)
        /\ req'[p].tombed = IF c.op = "spend" THEN rows.tomb ELSE req[p].tombed
        /\ \A r \in Req : r # p => req'[r] = req[r]
    BY <1>3 DEF Writes, Steps, Becomes
  <2>2. req[p].result = "none"
    BY <2>1 DEF Sends, ControlInv
  <2>3. /\ req[p].pc \notin {"idle", "done", "rotated"} /\ x # "check"
        /\ x \in RotatePhases => req[p].pc \in RotatePhases
    BY <2>1 DEF Sends, RotatePhases
  <2>4. ASSUME x = "claimed", req'[p].won PROVE Claims(p)
    <3>1. req[p].pc = "claim" /\ c.op = "spend" /\ c.tok = req[p].tok
      BY <2>1, <2>4 DEF Sends
    <3>2. rows'.spent = rows.spent \cup {c.tok} /\ rows'.tomb = rows.tomb
      BY <1>3, <3>1, WriteEffects
    <3> QED
      BY <2>1, <2>4, <3>1, <3>2 DEF Claims
  <2>5. ASSUME x = "rotated" PROVE Keeps(p)
    BY <2>1, <2>5 DEF Sends, Keeps, Winner
  <2>6. Winner(p)' => Claims(p) \/ Keeps(p)
    BY <2>1, <2>2, <2>4, <2>5 DEF Winner, Paired
  <2>7. Evolves(p)
    BY <2>1, <2>3, <2>6 DEF Evolves
  <2> QED
    BY <1>3, <2>7, OneEvolves DEF Writes, Steps
<1>4. ASSUME NEW p \in Req, NEW c \in Command, NEW x \in Phases,
            NEW result \in Results, Waited(p), Loses(p, c, x, result)
      PROVE  EvolvesAll
  <2>1. Ends(p, result) /\ req[p].pc \notin {"idle", "done"}
    BY <1>4 DEF Loses, Sends
  <2>2. /\ req'[p].pc = "done" /\ req'[p].hash = Issued /\ req'[p].result = result
        /\ result # "pair" => req'[p].tok = Issued
        /\ result = "pair" => req'[p].tok = req[p].tok /\ req'[p].tombed = req[p].tombed
    <3>1. /\ req'[p].pc = "done" /\ req'[p].hash = Issued /\ req'[p].result = result
          /\ req'[p].tok = IF result = "pair" THEN req[p].tok ELSE Issued
          /\ req'[p].tombed = IF result = "pair" THEN req[p].tombed ELSE FALSE
      BY <2>1 DEF Ends, Finishes, Becomes
    <3> QED
      BY <3>1
  <2>3. result = "pair" => req[p].pc = "rotated"
    <3>1. Answer(p) # "pair"
      BY TypedOK DEF Typed, Request, Kinds, Answer
    <3> QED
      BY <1>4, <3>1 DEF Loses
  <2>4. Winner(p)' => Keeps(p)
    BY <2>2, <2>3 DEF Winner, Paired, Keeps
  <2>5. Evolves(p)
    BY <2>1, <2>2, <2>4 DEF Evolves, RotatePhases, Delivered
  <2> QED
    BY <2>1, <2>5, OneEvolves DEF Ends, Finishes
<1>5. ASSUME NEW p \in Req, NEW c \in Command, NEW x \in Phases, NEW y \in Phases,
            Waited(p), Skips(p, c, x, y)
      PROVE  EvolvesAll
  <2>1. /\ req[p].pc \notin {"idle", "done", "rotated"} /\ req[p].result = "none"
        /\ req'[p].tok = req[p].tok /\ req'[p].result = req[p].result
        /\ req'[p].hash = req[p].hash
        /\ req'[p].pc \notin {"claimed", "rotated", "check"}
        /\ req'[p].pc \in RotatePhases => req[p].pc \in RotatePhases \/ Passes(p)
    BY <1>5 DEF Skips, Moves, Steps, Becomes, RotatePhases, Passes, ControlInv
  <2>2. Evolves(p)
    BY <2>1 DEF Evolves, Winner, Paired
  <2> QED
    BY <1>5, <2>2, OneEvolves DEF Skips, Moves, Steps
<1>6. ASSUME NEW p \in Req, NEW result \in Results, Waited(p), Quits(p, result)
      PROVE  EvolvesAll
  <2>1. Ends(p, result) /\ req[p].pc \notin {"idle", "done"}
    BY <1>6 DEF Quits
  <2>2. /\ req'[p].pc = "done" /\ req'[p].hash = Issued /\ req'[p].result = result
        /\ result # "pair" => req'[p].tok = Issued
        /\ result = "pair" => req'[p].tok = req[p].tok /\ req'[p].tombed = req[p].tombed
    <3>1. /\ req'[p].pc = "done" /\ req'[p].hash = Issued /\ req'[p].result = result
          /\ req'[p].tok = IF result = "pair" THEN req[p].tok ELSE Issued
          /\ req'[p].tombed = IF result = "pair" THEN req[p].tombed ELSE FALSE
      BY <2>1 DEF Ends, Finishes, Becomes
    <3> QED
      BY <3>1
  <2>3. result = "pair" => req[p].pc = "rotated"
    <3>1. Answer(p) # "pair"
      BY TypedOK DEF Typed, Request, Kinds, Answer
    <3> QED
      BY <1>6, <3>1 DEF Quits
  <2>4. Winner(p)' => Keeps(p)
    BY <2>2, <2>3 DEF Winner, Paired, Keeps
  <2>5. Evolves(p)
    BY <2>1, <2>2, <2>4 DEF Evolves, RotatePhases, Delivered
  <2> QED
    BY <2>1, <2>5, OneEvolves DEF Ends, Finishes
<1>7. ASSUME NEW p \in Req, Waited(p), Checks(p)
      PROVE  EvolvesAll
  <2>1. /\ req[p].pc \notin {"idle", "done", "rotated"} /\ req[p].result = "none"
        /\ req'[p].tok = req[p].tok /\ req'[p].result = req[p].result
        /\ req'[p].hash = req[p].hash
        /\ req'[p].pc \notin {"claimed", "rotated", "check"}
        /\ req'[p].pc \in RotatePhases => req[p].pc \in RotatePhases \/ Passes(p)
    BY <1>7 DEF Checks, Moves, Steps, Becomes, RotatePhases, Passes, ControlInv
  <2>2. Evolves(p)
    BY <2>1 DEF Evolves, Winner, Paired
  <2> QED
    BY <1>7, <2>2, OneEvolves DEF Checks, Moves, Steps
<1>8. ASSUME NEW p \in Req, Waited(p), TakesRow(p)
      PROVE  EvolvesAll
  <2>1. /\ req[p].pc \notin {"idle", "done", "rotated"} /\ req[p].result = "none"
        /\ req'[p].tok = req[p].tok /\ req'[p].result = req[p].result
        /\ req'[p].hash = req[p].hash
        /\ req'[p].pc \notin {"claimed", "rotated", "check"}
        /\ req'[p].pc \in RotatePhases => req[p].pc \in RotatePhases \/ Passes(p)
    BY <1>8 DEF TakesRow, Moves, Steps, Becomes, RotatePhases, Passes, ControlInv
  <2>2. Evolves(p)
    BY <2>1 DEF Evolves, Winner, Paired
  <2> QED
    BY <1>8, <2>2, OneEvolves DEF TakesRow, Moves, Steps
<1>9. ASSUME NEW p \in Req, Waited(p), DropsRow(p)
      PROVE  EvolvesAll
  <2>1. /\ req[p].pc \notin {"idle", "done", "rotated"} /\ req[p].result = "none"
        /\ req'[p].tok = req[p].tok /\ req'[p].result = req[p].result
        /\ req'[p].hash = req[p].hash
        /\ req'[p].pc \notin {"claimed", "rotated", "check"}
        /\ req'[p].pc \in RotatePhases => req[p].pc \in RotatePhases \/ Passes(p)
    BY <1>9 DEF DropsRow, Moves, Steps, Becomes, RotatePhases, Passes, ControlInv
  <2>2. Evolves(p)
    BY <2>1 DEF Evolves, Winner, Paired
  <2> QED
    BY <1>9, <2>2, OneEvolves DEF DropsRow, Moves, Steps
<1>10. ASSUME NEW p \in Req, Waited(p), DropsFamily(p)
      PROVE  EvolvesAll
  <2>1. /\ req[p].pc \notin {"idle", "done", "rotated"} /\ req[p].result = "none"
        /\ req'[p].tok = req[p].tok /\ req'[p].result = req[p].result
        /\ req'[p].hash = req[p].hash
        /\ req'[p].pc \notin {"claimed", "rotated", "check"}
        /\ req'[p].pc \in RotatePhases => req[p].pc \in RotatePhases \/ Passes(p)
    BY <1>10 DEF DropsFamily, Moves, Steps, Becomes, RotatePhases, Passes, ControlInv
  <2>2. Evolves(p)
    BY <2>1 DEF Evolves, Winner, Paired
  <2> QED
    BY <1>10, <2>2, OneEvolves DEF DropsFamily, Moves, Steps
<1>11. ASSUME NEW p \in Req, Waited(p), TakesFamily(p)
      PROVE  EvolvesAll
  <2>1. /\ req[p].pc = "cascade" /\ req[p].result = "none" /\ req[p].node \in Node
        /\ req'[p].pc = "tomb" /\ req'[p].tok = req[p].tok
        /\ req'[p].result = req[p].result /\ req'[p].hash = view[req[p].node].hash
    BY <1>11 DEF TakesFamily, Steps, Becomes, ControlInv
  <2>2. Evolves(p)
    BY <2>1 DEF Evolves, Winner, Paired, RotatePhases
  <2> QED
    BY <1>11, <2>2, OneEvolves DEF TakesFamily, Steps
<1>12. ASSUME NEW n \in Node, Apply(n)
      PROVE  EvolvesAll
  BY <1>12, Unmoved DEF Apply, EvolvesAll
<1>13. ASSUME NEW c \in late, CommitLate(c)
      PROVE  EvolvesAll
  BY <1>13, Unmoved DEF CommitLate, EvolvesAll
<1> QED
  BY <1>1, <1>2, <1>3, <1>4, <1>5, <1>6, <1>7, <1>8, <1>9, <1>10, <1>11, <1>12,
     <1>13, StepCases DEF Next, StepCase

-----------------------------------------------------------------------------
(* The tokens in the rows and the tombstone.                               *)

\* What a commit or an apply keeps of the queue, command by command.
LEMMA QueueCases ==
    ASSUME TypeOK, ControlInv, Next, NEW n \in Node, NEW i \in 1 .. Len(queue'[n])
    PROVE  \/ \E k \in 1 .. Len(queue[n]) : queue'[n][i] = queue[n][k]
           \/ \E p \in Req, c \in Command, x \in Phases :
                 Writes(p, c, x) /\ queue'[n][i].cmd = c
           \/ \E c \in late : queue'[n][i].cmd = c
<1>1. CASE UNCHANGED <<rows, view, queue>>
  BY <1>1
<1>2. ASSUME NEW p \in Req, NEW c \in Command, NEW x \in Phases, Writes(p, c, x)
      PROVE  queue'[n][i].cmd = c \/ \E k \in 1 .. Len(queue[n]) : queue'[n][i] = queue[n][k]
  <2>1. /\ Len(queue[n]) \in Nat /\ Len(queue'[n]) = Len(queue[n]) + 1
        /\ queue'[n][Len(queue[n]) + 1].cmd = c
        /\ \A k \in 1 .. Len(queue[n]) : queue'[n][k] = queue[n][k]
    BY <1>2, WriteEffects
  <2>2. i = Len(queue[n]) + 1 \/ i \in 1 .. Len(queue[n])
    BY <2>1
  <2> QED
    BY <2>1, <2>2
<1>3. ASSUME NEW m \in Node, Apply(m)
      PROVE  \E k \in 1 .. Len(queue[n]) : queue'[n][i] = queue[n][k]
  <2>1. CASE m = n
    <3>1. i + 1 \in 1 .. Len(queue[n]) /\ queue'[n][i] = queue[n][i + 1]
      BY <1>3, <2>1, ApplyEffects
    <3> QED
      BY <3>1
  <2>2. CASE m # n
    <3>1. queue'[n] = queue[n]
      BY <1>3, <2>2, ApplyEffects
    <3> QED
      BY <3>1
  <2> QED
    BY <2>1, <2>2
<1>4. ASSUME NEW c \in late, CommitLate(c)
      PROVE  queue'[n][i].cmd = c \/ \E k \in 1 .. Len(queue[n]) : queue'[n][i] = queue[n][k]
  <2>1. /\ Len(queue[n]) \in Nat /\ Len(queue'[n]) = Len(queue[n]) + 1
        /\ queue'[n][Len(queue[n]) + 1].cmd = c
        /\ \A k \in 1 .. Len(queue[n]) : queue'[n][k] = queue[n][k]
    BY <1>4, LateEffects
  <2>2. i = Len(queue[n]) + 1 \/ i \in 1 .. Len(queue[n])
    BY <2>1
  <2> QED
    BY <2>1, <2>2
<1> QED
  BY <1>1, <1>2, <1>3, <1>4, StoreCases

\* What an apply does to a node's hash and tombstone.
LEMMA ViewCases ==
    ASSUME TypeOK, ControlInv, Next, NEW n \in Node
    PROVE  \/ view'[n] = view[n]
           \/ /\ Apply(n) /\ 1 \in 1 .. Len(queue[n])
              /\ view'[n].hash =
                    IF queue[n][1].cmd.op = "family" THEN queue[n][1].cmd.hash ELSE view[n].hash
              /\ view'[n].tomb =
                    IF queue[n][1].cmd.op = "tombstone" THEN TRUE ELSE view[n].tomb
<1>1. CASE UNCHANGED <<rows, view, queue>>
  BY <1>1
<1>2. ASSUME NEW p \in Req, NEW c \in Command, NEW x \in Phases, Writes(p, c, x)
      PROVE  view'[n] = view[n]
  BY <1>2, WriteEffects
<1>3. ASSUME NEW m \in Node, Apply(m), m # n PROVE view'[n] = view[n]
  BY <1>3, ApplyEffects
<1>4. ASSUME NEW c \in late, CommitLate(c) PROVE view'[n] = view[n]
  BY <1>4, LateEffects
<1>5. ASSUME Apply(n)
      PROVE  /\ 1 \in 1 .. Len(queue[n])
             /\ view'[n].hash =
                   IF queue[n][1].cmd.op = "family" THEN queue[n][1].cmd.hash ELSE view[n].hash
             /\ view'[n].tomb =
                   IF queue[n][1].cmd.op = "tombstone" THEN TRUE ELSE view[n].tomb
  <2>1. /\ Len(queue[n]) \in Nat \ {0} /\ queue[n][1] \in Entry
        /\ view'[n] = Applied(view[n], queue[n][1])
    BY <1>5, ApplyEffects
  <2>2. view[n] \in Rows
    BY DEF TypeOK
  <2>3. PICK e \in Entry : e = queue[n][1]
    BY <2>1
  <2>4. /\ Applied(view[n], e).hash = IF e.cmd.op = "family" THEN e.cmd.hash ELSE view[n].hash
        /\ Applied(view[n], e).tomb = IF e.cmd.op = "tombstone" THEN TRUE ELSE view[n].tomb
    BY <2>2, AppliedFields
  <2> QED
    BY <2>1, <2>3, <2>4
<1> QED
  BY <1>1, <1>2, <1>3, <1>4, <1>5, StoreCases

\* What a family row that is written says.
LEMMA SendMinted ==
    ASSUME MintedInv, NEW p \in Req, NEW c \in Command, NEW x, Sends(p, c, x),
           c.op = "family"
    PROVE  (c.hash = p /\ req[p].pc = "claimed" /\ x = "rotated") \/ Minted(c.hash)
BY DEF Sends, MintedInv

\* Where the commands that are given up come from.
LEMMA LateCases ==
    ASSUME TypeOK, ControlInv, MintedInv, Next, NEW c \in late', c.op = "family"
    PROVE  c \in late \/ Minted(c.hash) \/ \E p \in Req : c.hash = p /\ req'[p].pc = "done"
<1>1. ASSUME NEW p \in Req, Step(p)
      PROVE  c \in late \/ Minted(c.hash) \/ (c.hash = p /\ req'[p].pc = "done")
  <2> DEFINE Known == c \in late \/ Minted(c.hash) \/ (c.hash = p /\ req'[p].pc = "done")
  <2>1. StepCase(p)
    BY <1>1, StepCases
  <2>2. ASSUME NEW d \in Command, NEW x \in Phases, NEW result \in Results,
               Loses(p, d, x, result)
        PROVE  Known
    <3>1. Sends(p, d, x) /\ late' = late \cup {d} /\ req'[p].pc = "done"
      BY <2>2 DEF Loses, GiveUp, Ends, Finishes, Becomes
    <3> QED
      BY <3>1, SendMinted
  <2>3. ASSUME NEW d \in Command, NEW x \in Phases, NEW y \in Phases, Skips(p, d, x, y)
        PROVE  Known
    <3>1. Sends(p, d, x) /\ late' = late \cup {d} /\ req[p].pc # "claimed"
      BY <2>3 DEF Skips, GiveUp
    <3> QED
      BY <3>1, SendMinted
  <2>4. ASSUME NEW d \in Command, NEW x \in Phases, Writes(p, d, x) PROVE Known
    BY <2>4 DEF Writes
  <2>5. ASSUME NEW result \in Results, Quits(p, result) PROVE Known
    BY <2>5 DEF Quits, NoStore
  <2>6. ASSUME Checks(p) \/ TakesRow(p) \/ DropsRow(p) \/ DropsFamily(p) \/ TakesFamily(p)
        PROVE  Known
    BY <2>6 DEF Checks, TakesRow, DropsRow, DropsFamily, TakesFamily, NoStore
  <2>7. Known
    <3> HIDE DEF Known
    <3> QED
      BY <2>1, <2>2, <2>3, <2>4, <2>5, <2>6 DEF StepCase
  <2> QED
    BY <2>7
<1> QED
  BY <1>1 DEF Next, Begin, BeginSession, Apply, CommitLate

LEMMA MintedStep ==
    ASSUME TypeOK, ControlInv, MintedInv, Next
    PROVE  MintedInv'
<1>0. EvolvesAll
  BY EvolvesStep
<1>1. \A h : Minted(h) => Minted(h)'
  BY <1>0 DEF EvolvesAll, Evolves, Minted
<1>2. ASSUME NEW p \in Req, NEW c \in Command, NEW x \in Phases, Writes(p, c, x),
             c.op = "family"
      PROVE  Minted(c.hash)'
  <2>1. Sends(p, c, x) /\ req'[p].pc = x
    BY <1>2 DEF Writes, Steps, Becomes
  <2>2. CASE c.hash = p /\ x = "rotated"
    BY <2>1, <2>2 DEF Minted
  <2>3. CASE Minted(c.hash)
    BY <1>1, <2>3
  <2> QED
    BY <1>2, <2>1, <2>2, <2>3, SendMinted
<1>3. ASSUME NEW n \in Node PROVE Minted(view[n].hash)'
  <2>1. PICK h : h = view'[n].hash
    OBVIOUS
  <2>2. Minted(h)
    BY <1>3, <2>1, ViewCases DEF MintedInv
  <2> QED
    BY <1>1, <2>1, <2>2 DEF Minted
<1>4. ASSUME NEW n \in Node, NEW i \in 1 .. Len(queue'[n]), queue'[n][i].cmd.op = "family"
      PROVE  Minted(queue[n][i].cmd.hash)'
  <2>1. PICK h : h = queue'[n][i].cmd.hash
    OBVIOUS
  <2>2. Minted(h)'
    <3>1. CASE \E k \in 1 .. Len(queue[n]) : queue'[n][i] = queue[n][k]
      BY <1>1, <1>4, <2>1, <3>1 DEF MintedInv
    <3>2. ASSUME NEW p \in Req, NEW c \in Command, NEW x \in Phases, Writes(p, c, x),
                 queue'[n][i].cmd = c
          PROVE  Minted(h)'
      BY <1>2, <1>4, <2>1, <3>2
    <3>3. CASE \E c \in late : queue'[n][i].cmd = c
      BY <1>1, <1>4, <2>1, <3>3 DEF MintedInv
    <3> QED
      BY <1>4, <3>1, <3>2, <3>3, QueueCases
  <2> QED
    BY <2>1, <2>2 DEF Minted
<1>5. ASSUME NEW c \in late', c.op = "family" PROVE Minted(c.hash)'
  BY <1>1, <1>5, LateCases DEF MintedInv, Minted
<1>6. ASSUME NEW p \in Req PROVE Minted(req[p].hash)'
  <2>1. PICK h : h = req'[p].hash
    OBVIOUS
  <2>2. Minted(h)
    BY <1>0, <1>6, <2>1, GrantAssumption DEF EvolvesAll, Evolves, MintedInv, Minted
  <2> QED
    BY <1>1, <2>1, <2>2 DEF Minted
<1> QED
  BY <1>3, <1>4, <1>5, <1>6 DEF MintedInv

\* What is ahead of an entry stays ahead of it when an entry is appended, ...
LEMMA AheadCommit ==
    ASSUME NEW n \in Node, Len(queue[n]) \in Nat, Len(queue'[n]) = Len(queue[n]) + 1,
           \A k \in 1 .. Len(queue[n]) : queue'[n][k] = queue[n][k],
           view' = view, NEW i \in 1 .. Len(queue[n]) + 1, TombAhead(n, i)
    PROVE  TombAhead(n, i)'
<1>1. CASE view[n].tomb
  BY <1>1 DEF TombAhead
<1>2. ASSUME NEW j \in 1 .. i - 1, queue[n][j].cmd.op = "tombstone"
      PROVE  TombAhead(n, i)'
  <2>1. j \in 1 .. Len(queue[n])
    OBVIOUS
  <2>2. queue'[n][j].cmd.op = "tombstone"
    BY <1>2, <2>1
  <2> QED
    BY <2>2 DEF TombAhead
<1> QED
  BY <1>1, <1>2 DEF TombAhead

\* ... and when the oldest one is applied.
LEMMA AheadApply ==
    ASSUME TypeOK, ControlInv, Next, NEW n \in Node, Apply(n),
           NEW i \in 1 .. Len(queue[n]), TombAhead(n, i + 1)
    PROVE  TombAhead(n, i)'
<1>1. /\ Len(queue[n]) \in Nat \ {0} /\ Len(queue'[n]) = Len(queue[n]) - 1
      /\ \A k \in 1 .. Len(queue'[n]) : queue'[n][k] = queue[n][k + 1]
      /\ view'[n] = Applied(view[n], queue[n][1])
  BY ApplyEffects
<1>2. view'[n].tomb = IF queue[n][1].cmd.op = "tombstone" THEN TRUE ELSE view[n].tomb
  <2>1. view[n] \in Rows /\ queue[n][1] \in Entry
    BY ApplyEffects DEF TypeOK
  <2>2. PICK e \in Entry : e = queue[n][1]
    BY <2>1
  <2>3. Applied(view[n], e).tomb = IF e.cmd.op = "tombstone" THEN TRUE ELSE view[n].tomb
    BY <2>1, AppliedFields
  <2> QED
    BY <1>1, <2>2, <2>3
<1>3. CASE view[n].tomb
  BY <1>2, <1>3 DEF TombAhead
<1>4. ASSUME NEW j \in 1 .. i, queue[n][j].cmd.op = "tombstone"
      PROVE  TombAhead(n, i)'
  <2>1. CASE j = 1
    BY <1>2, <1>4, <2>1 DEF TombAhead
  <2>2. CASE j # 1
    <3>1. j - 1 \in 1 .. i - 1 /\ j - 1 \in 1 .. Len(queue'[n]) /\ (j - 1) + 1 = j
      BY <1>1, <2>2
    <3>2. queue'[n][j - 1].cmd.op = "tombstone"
      BY <1>1, <1>4, <3>1
    <3> QED
      BY <3>1, <3>2 DEF TombAhead
  <2> QED
    BY <2>1, <2>2
<1>5. (i + 1) - 1 = i
  OBVIOUS
<1> QED
  BY <1>3, <1>4, <1>5 DEF TombAhead

\* A tombstone that is written reaches every node.
LEMMA TombStep ==
    ASSUME TypeOK, ControlInv, TombInv, Next
    PROVE  TombInv'
<1> SUFFICES ASSUME NEW n \in Node, rows'.tomb
             PROVE  TombAhead(n, Len(queue[n]) + 1)'
  BY DEF TombInv
<1>0. Len(queue[n]) \in Nat
  BY DEF TypeOK
<1>1. CASE UNCHANGED <<rows, view, queue>>
  BY <1>1 DEF TombInv, TombAhead
<1>2. ASSUME NEW c, Len(queue'[n]) = Len(queue[n]) + 1,
             queue'[n][Len(queue[n]) + 1].cmd = c, view' = view,
             \A k \in 1 .. Len(queue[n]) : queue'[n][k] = queue[n][k],
             rows'.tomb = IF c.op = "tombstone" THEN TRUE ELSE rows.tomb
      PROVE  TombAhead(n, Len(queue[n]) + 1)'
  <2>1. CASE c.op = "tombstone"
    <3>1. Len(queue[n]) + 1 \in 1 .. (Len(queue'[n]) + 1) - 1
      BY <1>0, <1>2
    <3> QED
      BY <1>2, <2>1, <3>1 DEF TombAhead
  <2>2. CASE c.op # "tombstone"
    <3>1. PICK l \in 1 .. Len(queue[n]) + 1 : l = Len(queue[n]) + 1
      BY <1>0
    <3>2. TombAhead(n, l)
      BY <1>2, <2>2, <3>1 DEF TombInv
    <3>3. TombAhead(n, l)'
      BY <1>0, <1>2, <3>2, AheadCommit
    <3>4. l - 1 \in Nat /\ Len(queue'[n]) + 1 - 1 \in Nat /\ l - 1 <= Len(queue'[n]) + 1 - 1
      BY <1>0, <1>2, <3>1
    <3>5. \A j \in 1 .. l - 1 : j \in 1 .. (Len(queue'[n]) + 1) - 1
      BY <1>0, <1>2, <3>1
    <3> QED
      BY <3>3, <3>5 DEF TombAhead
  <2> QED
    BY <2>1, <2>2
<1>3. ASSUME NEW p \in Req, NEW c \in Command, NEW x \in Phases, Writes(p, c, x)
      PROVE  TombAhead(n, Len(queue[n]) + 1)'
  <2>1. /\ Len(queue'[n]) = Len(queue[n]) + 1
        /\ queue'[n][Len(queue[n]) + 1].cmd = c /\ view' = view
        /\ \A k \in 1 .. Len(queue[n]) : queue'[n][k] = queue[n][k]
        /\ rows'.tomb = IF c.op = "tombstone" THEN TRUE ELSE rows.tomb
    BY <1>3, WriteEffects
  <2> QED
    BY <1>2, <2>1
<1>4. ASSUME NEW c \in late, CommitLate(c)
      PROVE  TombAhead(n, Len(queue[n]) + 1)'
  <2>1. /\ Len(queue'[n]) = Len(queue[n]) + 1
        /\ queue'[n][Len(queue[n]) + 1].cmd = c /\ view' = view
        /\ \A k \in 1 .. Len(queue[n]) : queue'[n][k] = queue[n][k]
        /\ rows'.tomb = IF c.op = "tombstone" THEN TRUE ELSE rows.tomb
    BY <1>4, LateEffects
  <2> QED
    BY <1>2, <2>1
<1>5. ASSUME NEW m \in Node, Apply(m)
      PROVE  TombAhead(n, Len(queue[n]) + 1)'
  <2>0. UNCHANGED rows
    BY <1>5 DEF Apply
  <2>1. CASE m = n
    <3>1. /\ Len(queue[n]) \in 1 .. Len(queue[n])
          /\ Len(queue'[n]) + 1 = Len(queue[n])
      BY <1>5, <2>1, ApplyEffects
    <3>2. PICK l \in 1 .. Len(queue[n]) : l = Len(queue[n])
      BY <3>1
    <3>3. TombAhead(n, l + 1)
      BY <2>0, <3>2 DEF TombInv
    <3>4. TombAhead(n, l)'
      BY <1>5, <2>1, <3>3, AheadApply
    <3> QED
      BY <3>1, <3>2, <3>4 DEF TombAhead
  <2>2. CASE m # n
    <3>1. queue'[n] = queue[n] /\ view'[n] = view[n]
      BY <1>5, <2>2, ApplyEffects
    <3> QED
      BY <2>0, <3>1 DEF TombInv, TombAhead
  <2> QED
    BY <2>1, <2>2
<1> QED
  BY <1>1, <1>3, <1>4, <1>5, StoreCases

\* A token that is in a row was not minted by this step.
LEMMA AfterKept ==
    ASSUME EvolvesAll, NEW h, Minted(h)', After(h)'
    PROVE  After(h)
<1>1. h \in Req /\ Winner(h)' /\ req'[h].tombed /\ req'[h].pc \in {"rotated", "done"}
  BY DEF After, Minted, Tainted
<1>2. ~Claims(h)
  BY <1>1 DEF Claims
<1>3. Keeps(h)
  BY <1>1, <1>2 DEF EvolvesAll, Evolves
<1> QED
  BY <1>1, <1>3 DEF After, Tainted, Keeps

\* A row written by this step with a token minted after the tombstone is
\* behind the tombstone in every queue.
LEMMA HiddenCommit ==
    ASSUME HiddenInv, TombInv, MintedInv', EvolvesAll, NEW n \in Node, NEW c,
           \A h \in Req : Tainted(h) => rows.tomb,
           Len(queue[n]) \in Nat, Len(queue'[n]) = Len(queue[n]) + 1,
           queue'[n][Len(queue[n]) + 1].cmd = c, view' = view,
           \A k \in 1 .. Len(queue[n]) : queue'[n][k] = queue[n][k],
           NEW i \in 1 .. Len(queue'[n]), queue'[n][i].cmd.op = "family",
           After(queue[n][i].cmd.hash)'
    PROVE  TombAhead(n, i)'
<1>1. PICK h : h = queue'[n][i].cmd.hash
  OBVIOUS
<1>2. Minted(h)' /\ After(h)'
  <2>1. Minted(queue[n][i].cmd.hash)'
    BY DEF MintedInv
  <2> QED
    BY <1>1, <2>1 DEF Minted, After, Tainted, Winner, Paired
<1>3. After(h)
  BY <1>2, AfterKept
<1>4. i \in 1 .. Len(queue[n]) + 1
  OBVIOUS
<1>5. TombAhead(n, i)
  <2>1. CASE i = Len(queue[n]) + 1
    BY <1>3, <2>1 DEF After, TombInv
  <2>2. CASE i # Len(queue[n]) + 1
    <3>1. i \in 1 .. Len(queue[n]) /\ queue'[n][i] = queue[n][i]
      BY <1>4, <2>2
    <3> QED
      BY <1>1, <1>3, <3>1 DEF HiddenInv
  <2> QED
    BY <2>1, <2>2
<1> QED
  BY <1>4, <1>5, AheadCommit

LEMMA HiddenStep ==
    ASSUME TypeOK, ControlInv, MintedInv, TombInv, HiddenInv, Next, MintedInv',
           \A h \in Req : Tainted(h) => rows.tomb
    PROVE  HiddenInv'
<1>0. EvolvesAll /\ \A n \in Node : Len(queue[n]) \in Nat
  BY EvolvesStep DEF TypeOK
<1>1. \A h : Minted(h)' /\ After(h)' => After(h)
  BY <1>0, AfterKept
<1>2. \A n \in Node : view[n].tomb => view'[n].tomb
  BY ViewCases
<1>3. ASSUME NEW n \in Node, After(view[n].hash)' PROVE view'[n].tomb
  <2>1. PICK h : h = view'[n].hash
    OBVIOUS
  <2>2. Minted(h)'
    <3>1. Minted(view[n].hash)'
      BY DEF MintedInv
    <3> QED
      BY <2>1, <3>1 DEF Minted
  <2>3. After(h)
    BY <1>1, <1>3, <2>1, <2>2 DEF After, Tainted, Winner, Paired
  <2>4. CASE h = view[n].hash
    BY <1>2, <2>3, <2>4 DEF HiddenInv
  <2>5. CASE 1 \in 1 .. Len(queue[n]) /\ queue[n][1].cmd.op = "family" /\ h = queue[n][1].cmd.hash
    <3>1. TombAhead(n, 1)
      BY <2>3, <2>5 DEF HiddenInv
    <3>2. \A j \in 1 .. 1 - 1 : FALSE
      OBVIOUS
    <3> QED
      BY <1>2, <3>1, <3>2 DEF TombAhead
  <2> QED
    BY <2>1, <2>4, <2>5, ViewCases
<1>4. ASSUME NEW n \in Node, NEW i \in 1 .. Len(queue'[n]), queue'[n][i].cmd.op = "family",
             After(queue[n][i].cmd.hash)'
      PROVE  TombAhead(n, i)'
  <2>1. PICK h : h = queue'[n][i].cmd.hash
    OBVIOUS
  <2>2. After(h)
    <3>1. Minted(queue[n][i].cmd.hash)'
      BY <1>4 DEF MintedInv
    <3>2. Minted(h)' /\ After(h)'
      BY <1>4, <2>1, <3>1 DEF Minted, After, Tainted, Winner, Paired
    <3> QED
      BY <1>1, <3>2
  <2>3. CASE view'[n] = view[n] /\ queue'[n] = queue[n]
    <3>1. TombAhead(n, i)
      BY <1>4, <2>1, <2>2, <2>3 DEF HiddenInv
    <3> QED
      BY <2>3, <3>1 DEF TombAhead
  <2>4. ASSUME NEW p \in Req, NEW c \in Command, NEW x \in Phases, Writes(p, c, x)
        PROVE  TombAhead(n, i)'
    <3>1. /\ Len(queue'[n]) = Len(queue[n]) + 1
          /\ queue'[n][Len(queue[n]) + 1].cmd = c /\ view' = view
          /\ \A k \in 1 .. Len(queue[n]) : queue'[n][k] = queue[n][k]
      BY <2>4, WriteEffects
    <3> QED
      BY <1>0, <1>4, <3>1, HiddenCommit
  <2>5. ASSUME NEW c \in late, CommitLate(c)
        PROVE  TombAhead(n, i)'
    <3>1. /\ Len(queue'[n]) = Len(queue[n]) + 1
          /\ queue'[n][Len(queue[n]) + 1].cmd = c /\ view' = view
          /\ \A k \in 1 .. Len(queue[n]) : queue'[n][k] = queue[n][k]
      BY <2>5, LateEffects
    <3> QED
      BY <1>0, <1>4, <3>1, HiddenCommit
  <2>6. ASSUME Apply(n) PROVE TombAhead(n, i)'
    <3>1. i + 1 \in 1 .. Len(queue[n]) /\ queue'[n][i] = queue[n][i + 1]
      BY <2>6, ApplyEffects
    <3>2. TombAhead(n, i + 1)
      BY <1>4, <2>1, <2>2, <3>1 DEF HiddenInv
    <3>3. i \in 1 .. Len(queue[n])
      BY <1>0, <3>1
    <3> QED
      BY <2>6, <3>2, <3>3, AheadApply
  <2>7. ASSUME NEW m \in Node, m # n, Apply(m) PROVE view'[n] = view[n] /\ queue'[n] = queue[n]
    BY <2>7, ApplyEffects
  <2> QED
    BY <2>3, <2>4, <2>5, <2>6, <2>7, StoreCases
<1>5. ASSUME NEW p \in Req, req'[p].pc = "check", After(req[p].hash)'
      PROVE  view'[req'[p].node].tomb
  <2>1. PICK h : h = req'[p].hash
    OBVIOUS
  <2>2. After(h)
    <3>1. Minted(req[p].hash)'
      BY DEF MintedInv
    <3>2. Minted(h)' /\ After(h)'
      BY <1>5, <2>1, <3>1 DEF Minted, After, Tainted, Winner, Paired
    <3> QED
      BY <1>1, <3>2
  <2>3. CASE req'[p] = req[p]
    BY <1>2, <1>5, <2>1, <2>2, <2>3 DEF HiddenInv, ControlInv
  <2>4. CASE /\ req'[p].node \in Node /\ req'[p].hash = view[req'[p].node].hash
             /\ view' = view
    BY <2>1, <2>2, <2>4 DEF HiddenInv
  <2> QED
    BY <1>0, <1>5, <2>3, <2>4 DEF EvolvesAll, Evolves
<1> QED
  BY <1>3, <1>4, <1>5 DEF HiddenInv

-----------------------------------------------------------------------------
(* The chain of tokens.                                                    *)

\* The token that a winning claim spends is the last one minted before the
\* tombstone, and no other claim has been won after it.
LEMMA ClaimFresh ==
    ASSUME TypeOK, ControlInv, ChainInv, NEW p \in Req, Claims(p)
    PROVE  /\ \A x \in Token : Fresh(x) => x \in rows'.spent
           /\ \A q \in Req : ~Tainted(q)
<1>1. PICK t \in Token : t = req[p].tok
  BY TypedOK DEF Typed, Request
<1>2. /\ t \notin rows.spent /\ rows'.spent = rows.spent \cup {t}
      /\ req[p].pc \in RotatePhases
  BY <1>1 DEF Claims, RotatePhases
<1>3. Fresh(t)
  <2>1. CASE t = Issued
    BY <2>1 DEF Fresh
  <2>2. CASE t # Issued
    <3>1. t \in Req /\ Paired(t)
      BY <1>1, <2>2 DEF Token, ChainInv
    <3>2. ~Tainted(t)
      BY <1>1, <1>2, <3>1 DEF ChainInv
    <3> QED
      BY <3>1, <3>2 DEF Fresh, Tainted, Winner
  <2> QED
    BY <2>1, <2>2
<1>4. \A x \in Token : Fresh(x) => x = t \/ x \in rows.spent
  BY <1>2, <1>3 DEF ChainInv
<1>5. \A q \in Req : ~Tainted(q)
  BY <1>2, <1>3 DEF ChainInv
<1> QED
  BY <1>2, <1>4, <1>5

\* What is spent stays spent.
LEMMA SpentGrows ==
    ASSUME TypeOK, ControlInv, Next
    PROVE  rows.spent \subseteq rows'.spent
<1>1. ASSUME NEW p \in Req, NEW c \in Command, NEW x \in Phases, Writes(p, c, x)
      PROVE  rows.spent \subseteq rows'.spent
  <2>1. rows'.spent = IF c.op = "spend" THEN rows.spent \cup {c.tok} ELSE rows.spent
    BY <1>1, WriteEffects
  <2> QED
    BY <2>1
<1>2. ASSUME NEW c \in late, CommitLate(c) PROVE rows.spent \subseteq rows'.spent
  <2>1. rows'.spent = IF c.op = "spend" THEN rows.spent \cup {c.tok} ELSE rows.spent
    BY <1>2, LateEffects
  <2> QED
    BY <2>1
<1> QED
  BY <1>1, <1>2, StoreCases DEF Apply

LEMMA ChainStep ==
    ASSUME TypeOK, ControlInv, ChainInv, HiddenInv, Next
    PROVE  ChainInv'
<1>0. /\ \A q \in Req : Evolves(q)
      /\ rows.spent \subseteq rows'.spent /\ (rows.tomb => rows'.tomb)
  BY EvolvesStep, SpentGrows, Grows DEF EvolvesAll
<1>1. \A q \in Req : Winner(q)' => Claims(q) \/ Keeps(q)
  BY <1>0 DEF Evolves
<1>2. \A q, r \in Req : Claims(q) /\ Claims(r) => q = r
  BY DEF Claims
<1>3. \A q \in Req : Tainted(q)' =>
        (Claims(q) /\ rows.tomb) \/ (Tainted(q) /\ req'[q].tok = req[q].tok)
  BY <1>1 DEF Tainted, Claims, Keeps
<1>4. \A x : Fresh(x)' => (x \in Req /\ Claims(x) /\ ~rows.tomb) \/ Fresh(x)
  BY <1>1 DEF Fresh, Claims, Keeps
<1>5. \A q \in Req : Paired(q) => Paired(q)'
  BY <1>0 DEF Evolves, Paired, ControlInv
<1>6. \A q \in Req : Claims(q) => ~Paired(q)'
  BY DEF Claims, Paired, ControlInv
<1>7. \A q \in Req : Claims(q) =>
        /\ \A x \in Token : Fresh(x) => x \in rows'.spent
        /\ \A r \in Req : ~Tainted(r)
  BY ClaimFresh
<1>8. ASSUME NEW p \in Req, Winner(p)' PROVE req'[p].tok \in rows'.spent
  BY <1>0, <1>1, <1>8 DEF Claims, Keeps, ChainInv
<1>9. ASSUME NEW p \in Req, NEW q \in Req, Winner(p)', Winner(q)',
             req'[p].tok = req'[q].tok
      PROVE  p = q
  <2>1. CASE Claims(p) /\ Claims(q)
    BY <1>2, <2>1
  <2>2. CASE Claims(p) /\ Keeps(q)
    BY <1>9, <2>2 DEF Claims, Keeps, ChainInv
  <2>3. CASE Keeps(p) /\ Claims(q)
    BY <1>9, <2>3 DEF Claims, Keeps, ChainInv
  <2>4. CASE Keeps(p) /\ Keeps(q)
    BY <1>9, <2>4 DEF Keeps, ChainInv
  <2> QED
    BY <1>1, <1>9, <2>1, <2>2, <2>3, <2>4
<1>10. ASSUME NEW x \in Token, NEW y \in Token, Fresh(x)', Fresh(y)'
       PROVE  x = y \/ x \in rows'.spent \/ y \in rows'.spent
  <2>1. CASE Fresh(x) /\ Fresh(y)
    BY <1>0, <2>1 DEF ChainInv
  <2>2. CASE x \in Req /\ Claims(x) /\ Fresh(y)
    BY <1>7, <2>2
  <2>3. CASE Fresh(x) /\ y \in Req /\ Claims(y)
    BY <1>7, <2>3
  <2>4. CASE x \in Req /\ Claims(x) /\ y \in Req /\ Claims(y)
    BY <1>2, <2>4
  <2> QED
    BY <1>4, <1>10, <2>1, <2>2, <2>3, <2>4
<1>11. ASSUME NEW p \in Req, NEW q \in Req, Tainted(p)', Tainted(q)' PROVE p = q
  <2>1. CASE Tainted(p) /\ Tainted(q)
    BY <2>1 DEF ChainInv
  <2>2. CASE Claims(p) \/ Claims(q)
    BY <1>2, <1>3, <1>7, <1>11, <2>2
  <2> QED
    BY <1>3, <1>11, <2>1, <2>2
<1>12. ASSUME NEW p \in Req, Tainted(p)'
       PROVE  rows'.tomb /\ \A x \in Token : Fresh(x)' => x \in rows'.spent
  <2>1. CASE Claims(p) /\ rows.tomb
    BY <1>0, <1>4, <1>7, <2>1
  <2>2. CASE Tainted(p)
    <3>1. \A q \in Req : ~Claims(q)
      BY <1>7, <2>2
    <3> QED
      BY <1>0, <1>4, <2>2, <3>1 DEF ChainInv
  <2> QED
    BY <1>3, <1>12, <2>1, <2>2
<1>13. ASSUME NEW p \in Req PROVE req'[p].tok = Issued \/ Paired(req[p].tok)'
  <2>1. PICK t : t = req'[p].tok
    OBVIOUS
  <2>2. t = Issued \/ (t \in Req /\ Paired(t))
    <3>1. req[p].tok = Issued \/ (req[p].tok \in Req /\ Paired(req[p].tok))
      BY <1>13, TypedOK DEF Typed, Request, Token, ChainInv
    <3>2. t = req[p].tok \/ t \in Delivered
      BY <1>0, <1>13, <2>1 DEF Evolves
    <3> QED
      BY <3>1, <3>2 DEF Delivered, Paired
  <2>3. t = Issued \/ Paired(t)'
    BY <1>5, <2>2
  <2> QED
    BY <2>1, <2>3 DEF Paired
<1>14. ASSUME NEW p \in Req, NEW q \in Req, req'[p].pc \in RotatePhases \/ Winner(p)',
              req'[p].tok = q, Tainted(q)'
       PROVE  FALSE
  <2>1. q # Issued
    BY GrantAssumption
  <2>2. Paired(q)'
    BY <1>13, <1>14, <2>1 DEF Paired
  <2>3. Tainted(q)
    BY <1>3, <1>6, <1>14, <2>2
  <2>4. \/ (req[p].pc \in RotatePhases \/ Winner(p)) /\ req[p].tok = q
        \/ Passes(p) /\ req[p].tok = q
    BY <1>0, <1>1, <1>14 DEF Evolves, Claims, Keeps, RotatePhases
  <2>5. CASE (req[p].pc \in RotatePhases \/ Winner(p)) /\ req[p].tok = q
    BY <2>3, <2>5 DEF ChainInv
  <2>6. CASE Passes(p) /\ req[p].tok = q
    BY <2>3, <2>6 DEF Passes, HiddenInv, After
  <2> QED
    BY <2>4, <2>5, <2>6
<1> QED
  BY <1>8, <1>9, <1>10, <1>11, <1>12, <1>13, <1>14 DEF ChainInv

-----------------------------------------------------------------------------
(* The invariant and what follows from it.                                 *)

\* The first state.
LEMMA IInvInit == Init => IInv
<1> SUFFICES ASSUME Init PROVE IInv
  OBVIOUS
<1>1. FirstRows \in Rows /\ FirstRows.hash = Issued /\ FirstRows.tomb = FALSE
      /\ FirstRows.revoked = FALSE /\ FirstRows.live = TRUE /\ FirstRows.spent = {}
  BY DEF FirstRows, Rows, Token
<1>2. /\ rows = FirstRows /\ late = {} /\ faults = 0
      /\ \A n \in Node : view[n] = FirstRows /\ queue[n] = <<>> /\ Len(queue[n]) = 0
                         /\ famLock[n] = Nobody /\ rowLock[n] = Nobody
      /\ \A p \in Req : req[p] = Idle
  BY DEF Init
<1>3. \A n \in Node : \A i \in 1 .. Len(queue[n]) : FALSE
  BY <1>2
<1>4. TypeOK
  BY <1>1, IdleFields, GrantAssumption DEF Init, TypeOK, Request
<1>5. ControlInv
  BY <1>2, IdleFields DEF ControlInv, RotatePhases
<1>6. LockInv
  BY <1>2, IdleFields, GrantAssumption DEF LockInv, RowPhases, FamilyPhases
<1>7. QueueInv
  BY <1>3 DEF QueueInv
<1>8. MarkInv
  BY <1>1, <1>2, <1>3, IdleFields DEF MarkInv, SeenInv, LateInv, MarkedInv, EndPhases,
                                      RevocationRecorded
<1>9. SessionInv
  BY <1>1, <1>2 DEF SessionInv, EndInv, PutInv
<1>10. \A p \in Req : ~Winner(p)
  BY <1>2, IdleFields DEF Winner, Paired
<1>11. ChainInv
  <2>1. \A x \in Token : Fresh(x) => x = Issued
    BY <1>10 DEF Fresh
  <2>2. \A p \in Req : req[p].tok = Issued /\ req[p].pc = "idle"
    BY <1>2, IdleFields
  <2> QED
    BY <1>10, <2>1, <2>2 DEF ChainInv, Tainted, RotatePhases
<1>12. HashInv
  <2>1. Minted(Issued) /\ ~After(Issued)
    BY GrantAssumption DEF Minted, After
  <2>2. MintedInv
    BY <1>1, <1>2, <1>3, <2>1, IdleFields DEF MintedInv
  <2>3. TombInv
    BY <1>1, <1>2 DEF TombInv
  <2>4. HiddenInv
    BY <1>1, <1>2, <1>3, <2>1, IdleFields DEF HiddenInv
  <2> QED
    BY <2>2, <2>3, <2>4 DEF HashInv
<1> QED
  BY <1>4, <1>5, <1>6, <1>7, <1>8, <1>9, <1>11, <1>12 DEF IInv

\* Every step.
LEMMA IInvStep == IInv /\ [Next]_vars => IInv'
<1>1. ASSUME IInv, Next PROVE IInv'
  <2>1. TypeOK' /\ ControlInv' /\ LockInv' /\ QueueInv'
    BY <1>1, TypeStep, ControlStep, LockStep, QueueStep DEF IInv
  <2>2. MarkInv'
    BY <1>1, SeenStep, LateStep, MarkedStep, RecordedStep DEF IInv, MarkInv
  <2>3. SessionInv'
    BY <1>1, EndStep, PutStep DEF IInv, SessionInv
  <2>4. MintedInv' /\ TombInv'
    BY <1>1, MintedStep, TombStep DEF IInv, HashInv
  <2>5. \A h \in Req : Tainted(h) => rows.tomb
    BY <1>1 DEF IInv, ChainInv
  <2>6. HiddenInv'
    BY <1>1, <2>4, <2>5, HiddenStep DEF IInv, HashInv
  <2>7. ChainInv'
    BY <1>1, ChainStep DEF IInv, HashInv
  <2> QED
    BY <2>1, <2>2, <2>3, <2>4, <2>6, <2>7 DEF IInv, HashInv
<1>2. ASSUME IInv, UNCHANGED vars PROVE IInv'
  <2>1. /\ rows' = rows /\ view' = view /\ queue' = queue /\ late' = late
        /\ famLock' = famLock /\ rowLock' = rowLock /\ req' = req /\ faults' = faults
    BY <1>2 DEF vars
  <2>2. TypeOK' /\ ControlInv' /\ LockInv' /\ QueueInv'
    BY <1>2, <2>1 DEF IInv, TypeOK, ControlInv, LockInv, QueueInv
  <2>3. MarkInv'
    BY <1>2, <2>1 DEF IInv, MarkInv, SeenInv, LateInv, MarkedInv, RevocationRecorded,
                      Recorded
  <2>4. SessionInv'
    BY <1>2, <2>1 DEF IInv, SessionInv, EndInv, PutInv, EndPending, EndApplied
  <2>5. ChainInv'
    BY <1>2, <2>1 DEF IInv, ChainInv, Tainted, Fresh, Winner, Paired
  <2>6. HashInv'
    BY <1>2, <2>1, SMTT(30) DEF IInv, HashInv, MintedInv, TombInv, HiddenInv, Minted, TombAhead,
                      After, Tainted, Winner, Paired
  <2> QED
    BY <2>2, <2>3, <2>4, <2>5, <2>6 DEF IInv
<1> QED
  BY <1>1, <1>2

\* The inductive invariant holds in every state of every behaviour of the
\* family: every action of Next, the late commits included, keeps it.
THEOREM Invariance == Spec => []IInv
<1> QED
  BY IInvInit, IInvStep, PTL DEF Spec

\* The rows, the queues and the requests always have the shapes that the engine
\* reads and writes.
THEOREM WellTyped == Spec => []TypeOK
<1>1. IInv => TypeOK
  BY DEF IInv
<1> QED
  BY <1>1, Invariance, PTL

\* A refresh token is redeemed at most once on the whole cluster, whatever the
\* lag of the nodes, the lost answers and the late commits of
\* rotate_grant_family's claim.
THEOREM OneRedemption == Spec => []SingleUse
<1>1. IInv => SingleUse
  BY DEF IInv, ChainInv, Winner, SingleUse
<1> QED
  BY <1>1, Invariance, PTL

\* A revoked family dies out: at most one pair is claimed after the tombstone
\* of mark_grant_family_revoked is written, and its token rotates nowhere.
THEOREM RevokedDiesOut == Spec => []RevokedChainEnds
<1>1. ASSUME IInv PROVE RevokedChainEnds
  <2>1. \A p \in AfterTombstone : p \in Req /\ Tainted(p)
    BY DEF AfterTombstone, Tainted, Winner
  <2>2. Cardinality(AfterTombstone) <= 1
    <3>1. CASE AfterTombstone = {}
      BY <3>1, FS_EmptySet
    <3>2. CASE AfterTombstone # {}
      <4>1. PICK p : p \in AfterTombstone
        BY <3>2
      <4>2. AfterTombstone = {p}
        BY <1>1, <2>1, <4>1 DEF IInv, ChainInv
      <4>3. Cardinality({p}) = 1
        BY FS_Singleton
      <4> QED
        BY <4>2, <4>3
    <3> QED
      BY <3>1, <3>2
  <2>3. \A p \in AfterTombstone, q \in Req : Paired(q) => req[q].tok # p
    BY <1>1, <2>1 DEF IInv, ChainInv, Winner
  <2> QED
    BY <2>2, <2>3 DEF RevokedChainEnds
<1> QED
  BY <1>1, Invariance, PTL

\* A revocation that answers, or a replay refused as one, has written the
\* tombstone before; the consent cascade has, or some write was given up.
THEOREM AnswersRecorded == Spec => []RevocationRecorded
<1>1. IInv => RevocationRecorded
  BY DEF IInv, MarkInv
<1> QED
  BY <1>1, Invariance, PTL

\* grant_family_lock and session_row_lock are taken in one order: nobody waits
\* for a lock it holds, and the holder of a session row waits for no lock.
THEOREM LockOrder == Spec => []LocksAreOrdered
<1>1. ASSUME IInv PROVE LocksAreOrdered
  <2>1. LockInv
    BY <1>1 DEF IInv
  <2> QED
    BY <2>1 DEF LockInv, LocksAreOrdered, WaitsForFamily, WaitsForRow, FamilyPhases,
                RowPhases
<1> QED
  BY <1>1, Invariance, PTL

\* The row lock does its work: refresh_session never writes a session back as
\* live that was ended on its own node, unless one of the writes was given up
\* by its caller and committed later.
THEOREM SessionKept == Spec => SessionLostOnlyAcrossNodes
<1> DEFINE Kept == ~rows.live /\ rows'.live =>
             \/ late' # late
             \/ rows.ender = Nobody
             \/ \E p \in Req : /\ req[p].pc = "sessPut" /\ req'[p].pc = "sessDone"
                               /\ req[p].node # rows.ender
<1>1. IInv /\ [Next]_vars => [Kept]_vars
  <2>1. ASSUME IInv, Next PROVE Kept
    BY <2>1, SessionStep DEF IInv, SessionInv
  <2> HIDE DEF Kept
  <2> QED
    BY <2>1
<1> HIDE DEF Kept
<1>2. Spec => [][Kept]_vars
  BY <1>1, Invariance, PTL DEF Spec
<1> QED
  BY <1>2 DEF Kept, SessionLostOnlyAcrossNodes

=============================================================================
