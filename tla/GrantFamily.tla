---------------------------- MODULE GrantFamily ----------------------------
(***************************************************************************)
(* One grant family and its session on a cluster: refresh-token rotation   *)
(* (rotate_grant_family), the replay answer (revoke_replayed_family), the  *)
(* revocations (revoke_token, the consent and client cascades,             *)
(* revoke_session) and the session refresh a rotation makes, all of        *)
(* src/src/identity/engine/.                                               *)
(*                                                                         *)
(* The store is the one src/src/cluster/engine.rs offers: reads are served *)
(* from what the node has applied, a write returns once its node has       *)
(* applied it, put_if_absent is decided when it is applied, and a write    *)
(* that times out may still commit later.  Locks are local to a node.      *)
(***************************************************************************)
EXTENDS Naturals, Sequences, FiniteSets

CONSTANTS
    Node,      \* nodes that serve requests
    Req,       \* requests; the refresh token a request mints is named after it
    Issued,    \* the refresh token the family was issued with
    Nobody,    \* holder of a free lock, proposer of a command that was given up
    MaxRevocations,  \* bound: requests that are not refreshes
    MaxFaults        \* bound: writes whose outcome stays unknown to their caller

ASSUME GrantAssumption ==
    /\ Issued \notin Req /\ Nobody \notin Req
    /\ MaxRevocations \in Nat /\ MaxFaults \in Nat

VARIABLES
    rows,      \* the replicated rows after every committed command
    view,      \* per node: the rows its state machine has reached
    queue,     \* per node: the committed commands it has not applied yet
    late,      \* commands whose proposer gave up: each may still commit
    famLock,   \* per node: holder of grant_family_lock
    rowLock,   \* per node: holder of session_row_lock
    req,       \* per request: its program counter, arguments and local copies
    faults     \* number of writes given up

vars == <<rows, view, queue, late, famLock, rowLock, req, faults>>

Token == Req \cup {Issued}

\* The rows of one family: StoredGrantFamily's hash and flag, the tombstone
\* `oauth:family-revoked', the `consumed:refresh' markers and the session row.
\* The field ender (the node that ended the session) is history.
Rows == [hash : Token, revoked : BOOLEAN, tomb : BOOLEAN, spent : SUBSET Token,
         live : BOOLEAN, ender : Node \cup {Nobody}]

Command ==
    [op : {"family"}, hash : Token, revoked : BOOLEAN] \cup [op : {"tombstone"}]
    \cup [op : {"spend"}, tok : Token] \cup [op : {"session"}, live : BOOLEAN]

\* The field by is the request that waits for the entry on this node; node is
\* where a session write was made.
Entry == [cmd : Command, by : Req \cup {Nobody}, node : Node \cup {Nobody}]

Kinds == {"refresh", "token", "consent", "session"}

Phases == {"idle", "check", "sessLoad", "sessPut", "sessDone", "evicted", "claim",
           "claimed", "rotated", "tomb", "spend", "flag", "flagged",
           "endLoad", "endPut", "ended", "cascade", "done"}

\* What a call answers: a pair, a replay's TokenRevoked, any other refusal or
\* error, or the success of a revocation, named after its kind.
Results == {"none", "pair", "replayed", "refused", "token", "consent", "session"}

\* The state machine's effect of an entry; a conditional put that finds its row
\* leaves it alone.
Applied(s, e) ==
    LET c == e.cmd IN
    CASE c.op = "family"    -> [s EXCEPT !.hash = c.hash, !.revoked = c.revoked]
      [] c.op = "tombstone" -> [s EXCEPT !.tomb = TRUE]
      [] c.op = "spend"     -> [s EXCEPT !.spent = @ \cup {c.tok}]
      [] c.op = "session"   -> [s EXCEPT !.live = c.live,
                                         !.ender = IF c.live THEN @ ELSE e.node]

Idle == [pc |-> "idle", kind |-> "refresh", why |-> "refresh",
         node |-> Nobody, tok |-> Issued,
         hash |-> Issued, revoked |-> FALSE, won |-> FALSE, tombed |-> FALSE,
         result |-> "none"]

FirstRows == [hash |-> Issued, revoked |-> FALSE, tomb |-> FALSE, spent |-> {},
              live |-> TRUE, ender |-> Nobody]

Init ==
    /\ rows = FirstRows
    /\ view = [n \in Node |-> FirstRows]
    /\ queue = [n \in Node |-> <<>>]
    /\ late = {}
    /\ famLock = [n \in Node |-> Nobody]
    /\ rowLock = [n \in Node |-> Nobody]
    /\ req = [p \in Req |-> Idle]
    /\ faults = 0

-----------------------------------------------------------------------------
(* Requests and what they share                                             *)

\* The tokens clients hold: the first one and every one a request returned.
Delivered == {Issued} \cup {p \in Req : req[p].result = "pair"}

\* A request at phase pc goes on once its node has applied its last write.
At(p, pc) ==
    /\ req[p].pc = pc
    /\ LET q == queue[req[p].node] IN \A i \in 1 .. Len(q) : q[i].by # p

Go(p, pc) == req' = [req EXCEPT ![p].pc = pc]

Release(lock, p) == [n \in Node |-> IF lock[n] = p THEN Nobody ELSE lock[n]]

\* The call returns; guards and local copies go with it.
Return(p, result) ==
    /\ req' = [req EXCEPT ![p] =
                 IF result = "pair"
                   THEN [Idle EXCEPT !.pc = "done", !.result = result,
                                     !.tok = req[p].tok, !.tombed = req[p].tombed]
                   ELSE [Idle EXCEPT !.pc = "done", !.result = result,
                                     !.kind = req[p].kind]]
    /\ famLock' = Release(famLock, p)
    /\ rowLock' = Release(rowLock, p)

\* propose_with_response: the command commits, and every node will apply it;
\* its request waits for its own node.
Commit(p, n, c) ==
    LET e(m) == [cmd |-> c, by |-> IF m = n THEN p ELSE Nobody,
                 node |-> IF c.op = "session" THEN n ELSE Nobody] IN
    /\ rows' = Applied(rows, e(n))
    /\ queue' = [m \in Node |-> Append(queue[m], e(m))]
    /\ UNCHANGED view

\* WriteTimeout, ForwardOutcomeUnknown, NotAppliedLocally: the caller gets an
\* error and the command may commit afterwards, or never.
GiveUp(c) ==
    /\ faults < MaxFaults
    /\ faults' = faults + 1
    /\ late' = late \cup {c}
    /\ UNCHANGED <<rows, view, queue>>

\* Variant: the claim is decided by a local read.
MutLocalClaim(p, c, pc) ==
    /\ Commit(p, req[p].node, c)
    /\ req' = [req EXCEPT ![p].pc = pc,
                 ![p].won = c.op = "spend" /\ c.tok \notin view[req[p].node].spent,
                 ![p].tombed = IF c.op = "spend" THEN rows.tomb ELSE @]
    /\ UNCHANGED <<late, faults, famLock, rowLock>>

\* A write that commits.  put_if_absent answers whether its row was absent;
\* tombed (was the family revoked by then) is history.
Write(p, c, pc) ==
    /\ Commit(p, req[p].node, c)
    /\ req' = [req EXCEPT ![p].pc = pc,
                 ![p].won = c.op = "spend" /\ c.tok \notin rows.spent,
                 ![p].tombed = IF c.op = "spend" THEN rows.tomb ELSE @]
    /\ UNCHANGED <<late, faults, famLock, rowLock>>

\* A write whose error ends the call.
Put(p, c, pc) == Write(p, c, pc) \/ (GiveUp(c) /\ Return(p, "refused"))

MayRevoke == Cardinality({p \in Req : req[p].kind # "refresh"}) < MaxRevocations

\* A refresh, revoke_token or a consent or client cascade, once it has the
\* family lock, reads the family row.  A client presents a token it was given.
Begin(p, kind, n, tok) ==
    /\ req[p].pc = "idle"
    /\ kind # "refresh" => tok = Issued /\ MayRevoke
    /\ famLock[n] = Nobody
    /\ famLock' = [famLock EXCEPT ![n] = p]
    /\ req' = [req EXCEPT ![p] = [Idle EXCEPT
                 !.pc = IF kind = "token" THEN "tomb" ELSE "check",
                 !.kind = kind, !.why = kind, !.node = n, !.tok = tok,
                 !.hash = view[n].hash, !.revoked = view[n].revoked]]
    /\ UNCHANGED <<rows, view, queue, late, faults, rowLock>>

\* Variant: the row's flag alone.
MutFlagOnly(p) == req[p].revoked

\* grant_family_is_revoked: the row's flag as it was read, or the tombstone.
FamilyIsRevoked(p) == req[p].revoked \/ view[req[p].node].tomb

-----------------------------------------------------------------------------
(* refresh_tokens: rotate_grant_family                                      *)

\* The revocation check, then the hash check.
CheckFamily(p) ==
    /\ At(p, "check")
    /\ req[p].kind = "refresh"
    /\ \/ FamilyIsRevoked(p) /\ Return(p, "refused")
       \/ /\ ~FamilyIsRevoked(p)
          /\ req' = [req EXCEPT ![p].pc = IF req[p].tok = req[p].hash
                                            THEN "sessLoad" ELSE "tomb",
                                ![p].why = IF req[p].tok = req[p].hash
                                            THEN @ ELSE "replay"]
          /\ UNCHANGED <<famLock, rowLock>>
    /\ UNCHANGED <<rows, view, queue, late, faults>>

\* The owning client is gone, archived or not the caller.
RefuseClient(p) ==
    /\ At(p, "check")
    /\ req[p].kind = "refresh" /\ ~FamilyIsRevoked(p)
    /\ Return(p, "refused")
    /\ UNCHANGED <<rows, view, queue, late, faults>>

\* DPoP, the organization, scopes, consent or the webhook refuse; nothing of
\* the family has been written, and the token stays redeemable.
RefuseGrant(p) ==
    /\ At(p, "sessLoad") \/ At(p, "claim")
    /\ Return(p, "refused")
    /\ UNCHANGED <<rows, view, queue, late, faults>>

\* Variant: the session is read and written without the row lock.
MutNoRowLock(p) ==
    /\ At(p, "sessLoad")
    /\ \/ view[req[p].node].live /\ Go(p, "sessPut") /\ UNCHANGED <<famLock, rowLock>>
       \/ ~view[req[p].node].live /\ Return(p, "refused")
    /\ UNCHANGED <<rows, view, queue, late, faults>>

\* refresh_session: lock the row, read it, refuse a dead session.
LoadSession(p) ==
    LET n == req[p].node IN
    /\ At(p, "sessLoad")
    /\ rowLock[n] = Nobody
    /\ \/ /\ view[n].live
          /\ rowLock' = [rowLock EXCEPT ![n] = p]
          /\ Go(p, "sessPut")
          /\ UNCHANGED famLock
       \/ ~view[n].live /\ Return(p, "refused")
    /\ UNCHANGED <<rows, view, queue, late, faults>>

\* refresh_session: write the row back, extended and live.
RefreshSession(p) ==
    /\ At(p, "sessPut")
    /\ Put(p, [op |-> "session", live |-> TRUE], "sessDone")

\* refresh_session, when the realm's idle or absolute limit has passed:
\* evict_session_by_policy ends the session under the row lock.
EvictSession(p) ==
    /\ At(p, "sessPut")
    /\ Put(p, [op |-> "session", live |-> FALSE], "evicted")

\* The rotation is refused whether or not the eviction was written.
RefuseEvicted(p) ==
    /\ At(p, "evicted")
    /\ Return(p, "refused")
    /\ UNCHANGED <<rows, view, queue, late, faults>>

\* Everything that can refuse has run: claim the presented token's single use.
ClaimToken(p) ==
    /\ At(p, "claim")
    /\ Put(p, [op |-> "spend", tok |-> req[p].tok], "claimed")

\* Variant: the rotation clears the hash it should replace.
MutClearHash(p) ==
    /\ At(p, "claimed")
    /\ req[p].won
    /\ Put(p, [op |-> "family", hash |-> Nobody, revoked |-> req[p].revoked], "rotated")

\* The claim was won: write the rotated row.
RotateRow(p) ==
    /\ At(p, "claimed")
    /\ req[p].won
    /\ Put(p, [op |-> "family", hash |-> p, revoked |-> req[p].revoked], "rotated")

\* The claim was lost: to a revocation this node has applied, or to a replay.
LoseClaim(p) ==
    /\ At(p, "claimed")
    /\ ~req[p].won
    /\ \/ FamilyIsRevoked(p) /\ Return(p, "refused")
       \/ /\ ~FamilyIsRevoked(p)
          /\ req' = [req EXCEPT ![p].pc = "tomb", ![p].why = "replay"]
          /\ UNCHANGED <<famLock, rowLock>>
    /\ UNCHANGED <<rows, view, queue, late, faults>>

ReturnPair(p) ==
    /\ At(p, "rotated")
    /\ Return(p, "pair")
    /\ UNCHANGED <<rows, view, queue, late, faults>>

-----------------------------------------------------------------------------
(* mark_grant_family_revoked and the flag, for every kind of revocation     *)

\* The consent and client cascades skip a family already revoked.
CheckLive(p) ==
    /\ At(p, "check")
    /\ req[p].kind = "consent"
    /\ IF FamilyIsRevoked(p)
         THEN Return(p, "consent")
         ELSE Go(p, "tomb") /\ UNCHANGED <<famLock, rowLock>>
    /\ UNCHANGED <<rows, view, queue, late, faults>>

\* Variant: every revocation only logs a failed marking.
MutLogOnly(p, c, pc, onError) ==
    \/ Write(p, c, pc)
    \/ GiveUp(c) /\ Go(p, onError) /\ UNCHANGED <<famLock, rowLock>>

\* A write of the marking; the session cascade only logs its failure and goes
\* on with the row's flag.
MarkPut(p, c, pc, onError) ==
    IF req[p].why = "cascade"
      THEN \/ Write(p, c, pc)
           \/ GiveUp(c) /\ Go(p, onError) /\ UNCHANGED <<famLock, rowLock>>
      ELSE Put(p, c, pc)

MarkTombstone(p) ==
    /\ At(p, "tomb")
    /\ MarkPut(p, [op |-> "tombstone"], "spend", "flag")

\* Spend the family's current token, as this request read it.
MarkSpent(p) ==
    /\ At(p, "spend")
    /\ MarkPut(p, [op |-> "spend", tok |-> req[p].hash], "flag", "flag")

\* Write the row back with revoked set and the hash as it was read.
FlagRow(p) ==
    /\ At(p, "flag")
    /\ MarkPut(p, [op |-> "family", hash |-> req[p].hash, revoked |-> TRUE],
               "flagged", "flagged")

\* What a marking that is over answers.
Answer(p) == IF req[p].kind = "refresh" THEN "replayed" ELSE req[p].kind

\* Variant: the cascade runs under the family lock.
MutKeepGuard(p) ==
    /\ At(p, "flagged")
    /\ IF req[p].why \in {"replay", "token"}
         THEN Go(p, "endLoad") /\ UNCHANGED <<famLock, rowLock>>
         ELSE Return(p, Answer(p))
    /\ UNCHANGED <<rows, view, queue, late, faults>>

\* Drop the family lock; a replay and revoke_token go on to the session.
EndMark(p) ==
    /\ At(p, "flagged")
    /\ IF req[p].why \in {"replay", "token"}
         THEN /\ famLock' = Release(famLock, p)
              /\ Go(p, "endLoad")
              /\ UNCHANGED rowLock
         ELSE Return(p, Answer(p))
    /\ UNCHANGED <<rows, view, queue, late, faults>>

-----------------------------------------------------------------------------
(* revoke_session                                                           *)

\* The call, once it has the row lock.
BeginSession(p, n) ==
    /\ req[p].pc = "idle" /\ MayRevoke
    /\ rowLock[n] = Nobody
    /\ rowLock' = [rowLock EXCEPT ![n] = p]
    /\ req' = [req EXCEPT ![p] = [Idle EXCEPT
                 !.pc = "endPut", !.kind = "session", !.node = n]]
    /\ UNCHANGED <<rows, view, queue, late, faults, famLock>>

LockSession(p) ==
    LET n == req[p].node IN
    /\ At(p, "endLoad")
    /\ rowLock[n] = Nobody
    /\ rowLock' = [rowLock EXCEPT ![n] = p]
    /\ Go(p, "endPut")
    /\ UNCHANGED <<rows, view, queue, late, faults, famLock>>

\* What the refused holder of a replayed token is told when the session
\* cascade fails: the failure is logged, the answer stays the same.
CascadeError(p) == IF req[p].kind = "refresh" THEN "replayed" ELSE "refused"

EndSession(p) ==
    LET c == [op |-> "session", live |-> FALSE] IN
    /\ At(p, "endPut")
    /\ Write(p, c, "ended") \/ (GiveUp(c) /\ Return(p, CascadeError(p)))

\* Both session writes drop the row guard before anything else is locked.
DropRowGuard(p) ==
    /\ At(p, "sessDone") \/ At(p, "ended")
    /\ rowLock' = Release(rowLock, p)
    /\ Go(p, IF req[p].pc = "ended" THEN "cascade" ELSE "claim")
    /\ UNCHANGED <<rows, view, queue, late, faults, famLock>>

\* The family is locked, re-read and, unless its flag is set, marked.
Cascade(p) ==
    LET n == req[p].node IN
    /\ At(p, "cascade")
    /\ famLock[n] = Nobody
    /\ IF view[n].revoked
         THEN Return(p, Answer(p))
         ELSE /\ famLock' = [famLock EXCEPT ![n] = p]
              /\ UNCHANGED rowLock
              /\ req' = [req EXCEPT ![p].pc = "tomb", ![p].why = "cascade",
                                    ![p].hash = view[n].hash,
                                    ![p].revoked = FALSE]
    /\ UNCHANGED <<rows, view, queue, late, faults>>

\* The scan for the session's families fails: revoke_session goes on without.
SkipCascade(p) ==
    /\ At(p, "cascade")
    /\ Return(p, Answer(p))
    /\ UNCHANGED <<rows, view, queue, late, faults>>

\* bump_ra_generation, the write before the cascade, fails, or record_audit
\* after it.
CascadeFails(p) ==
    /\ At(p, "cascade") \/ (At(p, "flagged") /\ req[p].why = "cascade")
    /\ Return(p, CascadeError(p))
    /\ UNCHANGED <<rows, view, queue, late, faults>>

-----------------------------------------------------------------------------
(* The cluster: replication and late commits                                *)

Apply(n) ==
    /\ queue[n] # <<>>
    /\ view' = [view EXCEPT ![n] = Applied(@, Head(queue[n]))]
    /\ queue' = [queue EXCEPT ![n] = Tail(@)]
    /\ UNCHANGED <<rows, late, faults, famLock, rowLock, req>>

CommitLate(c) ==
    /\ late' = late \ {c}
    /\ Commit(Nobody, Nobody, c)
    /\ UNCHANGED <<famLock, rowLock, req, faults>>

Step(p) ==
    \/ CheckFamily(p) \/ RefuseClient(p) \/ RefuseGrant(p)
    \/ LoadSession(p) \/ RefreshSession(p) \/ EvictSession(p) \/ RefuseEvicted(p)
    \/ ClaimToken(p)
    \/ RotateRow(p) \/ LoseClaim(p) \/ ReturnPair(p)
    \/ CheckLive(p) \/ MarkTombstone(p) \/ MarkSpent(p) \/ FlagRow(p) \/ EndMark(p)
    \/ LockSession(p) \/ EndSession(p) \/ DropRowGuard(p)
    \/ Cascade(p) \/ SkipCascade(p) \/ CascadeFails(p)

Next ==
    \/ \E p \in Req, kind \in Kinds \ {"session"}, n \in Node, tok \in Delivered :
         Begin(p, kind, n, tok)
    \/ \E p \in Req, n \in Node : BeginSession(p, n)
    \/ \E p \in Req : Step(p)
    \/ \E n \in Node : Apply(n)
    \/ \E c \in late : CommitLate(c)

Spec == Init /\ [][Next]_vars

-----------------------------------------------------------------------------
(* Properties                                                               *)

\* Rows, views and requests are of the shapes the engine reads and writes.
TypeOK ==
    /\ rows \in Rows
    /\ view \in [Node -> Rows]
    /\ queue \in [Node -> Seq(Entry)]
    /\ late \subseteq Command /\ faults \in 0 .. MaxFaults
    /\ famLock \in [Node -> Req \cup {Nobody}]
    /\ rowLock \in [Node -> Req \cup {Nobody}]
    /\ req \in [Req -> [pc : Phases, kind : Kinds, why : Kinds \cup {"replay", "cascade"},
                        node : Node \cup {Nobody}, tok : Token, hash : Token,
                        revoked : BOOLEAN, won : BOOLEAN, tombed : BOOLEAN,
                        result : Results]]

Paired(p) == req[p].result = "pair"

\* A refresh token is redeemed once on the whole cluster: two requests that
\* present one token, on any nodes, with any lag and any lost answers, never
\* both return a pair (rotate_grant_family's claim, G4).
SingleUse == \A p, q \in Req :
    Paired(p) /\ Paired(q) /\ req[p].tok = req[q].tok => p = q

\* The pairs whose token was claimed after the family's tombstone was written.
AfterTombstone == {p \in Req : Paired(p) /\ req[p].tombed}

\* A revoked family dies out: a rotation that was under way on a node behind
\* the log may still return one pair (the revoker, behind as well, spent an
\* older token), but that pair's refresh token rotates nowhere, although the
\* rotation wrote the row back with its flag cleared.
RevokedChainEnds ==
    /\ Cardinality(AfterTombstone) <= 1
    /\ \A p \in AfterTombstone, q \in Req : Paired(q) => req[q].tok # p

\* A revocation that answers, or a replay that is refused as one, has left the
\* tombstone.  revoke_grant_families_for_consent trusts the row's flag, which
\* a session cascade sets even when its tombstone was lost.
RevocationRecorded == \A p \in Req :
    /\ req[p].result \in {"token", "replayed"} => rows.tomb
    /\ req[p].result = "consent" => rows.tomb \/ faults > 0

WaitsForFamily(p) == req[p].pc = "cascade"
WaitsForRow(p)    == req[p].pc \in {"sessLoad", "endLoad"}

\* Nobody waits for a lock it holds, and the holder of a session row waits for
\* no lock: the replay answer, revoke_token and the cascade re-take the
\* family's non-reentrant lock only after dropping it, and a rotation that
\* waits for the row under its family lock is always served.
LocksAreOrdered == \A p \in Req, n \in Node :
    /\ WaitsForFamily(p) => famLock[n] # p /\ rowLock[n] # p
    /\ WaitsForRow(p) => rowLock[n] # p

\* The row lock does its work: a refresh that writes a revoked session back as
\* live read it on another node than the one that revoked it, or one of the
\* two writes was given up by its caller and committed later.
SessionLostOnlyAcrossNodes ==
    [][~rows.live /\ rows'.live =>
         \/ late' # late
         \/ rows.ender = Nobody
         \/ \E p \in Req : /\ req[p].pc = "sessPut" /\ req'[p].pc = "sessDone"
                           /\ req[p].node # rows.ender]_vars

=============================================================================
