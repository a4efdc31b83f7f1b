---------------------------- MODULE ControlPlane ----------------------------
(***************************************************************************)
(* The port of the control plane (apps/control-plane): its database, its   *)
(* SQL statements (db.mjs) and the installation events its webhook already *)
(* handles (webhook.mjs).  It has no cutover gate, keeps no record of the  *)
(* deliveries it has processed, and nothing calls its repair yet.          *)
(*                                                                         *)
(* ReviewStore takes a D1 batch as one simultaneous assignment.  Here a    *)
(* batch is what it is: statements one after the other, each evaluating    *)
(* its own WHERE clause on the tables the ones before it have left.  A     *)
(* statement is an operator from tables to tables.                         *)
(***************************************************************************)
EXTENDS Integers, FiniteSets, Sequences

CONSTANTS
  Key, Run, Owner, Pull, Repo, PullOf, RepoOf, None,   \* as in ReviewStore
  Event,    \* what GitHub may deliver: [kind, sel, repos]
  Handler   \* invocations of the Worker that handle events

\* The rows' assumption of ReviewStore; GitHub's events name repositories.
ASSUME PortAssumption ==
  /\ PullOf \in [Key -> Pull]
  /\ RepoOf \in [Pull -> Repo]
  /\ None \notin Key \cup Run \cup Owner
  /\ Key \cap Run = {}
  /\ \A e \in Event : e.sel \in {"all", "selected"} /\ e.repos \in Seq(Repo)

JobKey == Key \cup Run      \* 'dispatch:' || request_key, 'cancel:' || workflow_run_id

Retryable    == {"pending_dispatch", "failed_dispatch"}
Supersedable == Retryable \cup {"dispatched", "claimed", "started"}
Outcome      == {"completed", "failed", "cancelled"}
Terminal     == Outcome \cup {"superseded"}

VARIABLES
  db,       \* the tables
  program   \* the statements a handler has still to run

vars == <<db, program>>

NoRow  == [id |-> 0, status |-> "absent", run |-> None, check |-> FALSE, authorized |-> FALSE]
NoJob  == [status |-> "absent", owner |-> None, expired |-> FALSE]
Queued == [NoJob EXCEPT !.status = "pending"]

Init == /\ db = [request |-> [k \in Key |-> NoRow], lastId |-> 0,
                 job |-> [j \in JobKey |-> NoJob],
                 receipt |-> [k \in Key |-> "none"],
                 installation |-> "absent", selection |-> "selected", repos |-> {}]
        /\ program = [h \in Handler |-> <<>>]

-----------------------------------------------------------------------------
(* Rows, and the statements batches are made of.                           *)

InStatus(d, S) == {k \in Key : d.request[k].status \in S}
RunsOf(d, K)   == {d.request[k].run : k \in K} \ {None}
KeyRepo(k)     == RepoOf[PullOf[k]]

\* The joins with installations and installation_repositories.
Authorized(d) == {k \in Key : /\ d.installation = "active"
                              /\ d.selection = "all" \/ KeyRepo(k) \in d.repos}

Waiting(d) == {k \in InStatus(d, Retryable) : d.request[k].run = None}

InsertJobs(d, J) ==
  [d EXCEPT !.job = [j \in JobKey |-> IF j \in J /\ d.job[j] = NoJob THEN Queued ELSE d.job[j]]]

SetStatus(d, K, s) ==
  [d EXCEPT !.request = [k \in Key |-> IF k \in K THEN [d.request[k] EXCEPT !.status = s]
                                                   ELSE d.request[k]]]

InsertRequest(d, k) ==
  IF d.request[k] # NoRow THEN d
  ELSE [d EXCEPT !.request[k] = [NoRow EXCEPT !.id = d.lastId + 1, !.status = "pending_dispatch"],
                 !.lastId = @ + 1]

DispatchJobFor(d, K) == InsertJobs(d, K \cap Waiting(d))
CancelJobsFor(d, K)  == InsertJobs(d, RunsOf(d, K))

MarkSuperseded(d, K) == SetStatus(d, K \cap InStatus(d, Supersedable), "superseded")

\* Mutant of Supersession: the rows are marked before their runs are looked up.
MarkThenCancel(d, K) ==
  LET marked == MarkSuperseded(d, K)
  IN CancelJobsFor(marked, K \cap InStatus(marked, Supersedable))

\* prepareSupersessionStatements over the rows K its WHERE clause names.
Supersession(d, K) == MarkSuperseded(CancelJobsFor(d, K \cap InStatus(d, Supersedable)), K)

-----------------------------------------------------------------------------
(* The exported statements and batches.                                    *)

\* A statement that changes no row is no step.
Client(d) == d # db /\ db' = d /\ UNCHANGED program

InsertReviewRequest(k) == Client(InsertRequest(db, k))

AdmitReviewRequestWithOutbox(k) == Client(DispatchJobFor(InsertRequest(db, k), {k}))

\* exceptRequestKey is optional.
SupersedePrRequestsWithOutbox(p, except) ==
  Client(Supersession(db, {k \in Key : PullOf[k] = p} \ except))

CasMarkRequestSuperseded(k) == Client(MarkSuperseded(db, {k}))

\* Rows of the same pull request that came before k.
Older(d, k) == {o \in Key : PullOf[o] = PullOf[k] /\ d.request[o].id < d.request[k].id}

\* Mutant of Authorize: the update of the row comes after the others.
AuthorizeLast(d, k, x, sameInstant) ==
  LET may     == d.request[k].status = "claimed" /\ d.request[k].run = x /\ ~d.request[k].authorized
      current == /\ d.request[k].status = "claimed" /\ d.request[k].run = x
                 /\ d.request[k].authorized /\ (may \/ sameInstant)
      others  == Supersession(d, IF current THEN Older(d, k) ELSE {})
  IN IF may THEN [others EXCEPT !.request[k].authorized = TRUE] ELSE others

\* Three statements: the second and the third join on the row as the first one
\* leaves it, with its timestamp: an earlier authorization of the same
\* millisecond passes for this one.
Authorize(d, k, x, sameInstant) ==
  LET may     == d.request[k].status = "claimed" /\ d.request[k].run = x /\ ~d.request[k].authorized
      done    == IF may THEN [d EXCEPT !.request[k].authorized = TRUE] ELSE d
      current == /\ done.request[k].status = "claimed" /\ done.request[k].run = x
                 /\ done.request[k].authorized /\ (may \/ sameInstant)
  IN Supersession(done, IF current THEN Older(done, k) ELSE {})

AuthorizeReviewRequestWithOutbox(k, x) ==
  \E sameInstant \in BOOLEAN : Client(Authorize(db, k, x, sameInstant))

\* The unique index on workflow_run_id makes the update fail for a run that
\* another row has.
BindRun(d, k, x) ==
  IF k \in Waiting(d)
    THEN [d EXCEPT !.request[k].status = "dispatched", !.request[k].run = x] ELSE d

Collides(k, x) == k \in Waiting(db) /\ x \in RunsOf(db, Key \ {k})

CasClaimWorkflowRun(k, x) == ~Collides(k, x) /\ Client(BindRun(db, k, x))

ClaimWorkflowRunOrEnqueueOrphan(k, x) ==
  LET bound == BindRun(db, k, x)
  IN /\ ~Collides(k, x)
     /\ Client(InsertJobs(bound, IF bound.request[k].run = x THEN {} ELSE {x}))

CasMarkFailedDispatch(k) == Client(SetStatus(db, {k} \cap InStatus(db, Retryable), "failed_dispatch"))

\* The requests x executes, in a status of S.
ExecutedBy(x, S) == {k \in InStatus(db, S) : db.request[k].run = x}

CasClaimExecutor(k, x) ==
  k \in ExecutedBy(x, {"dispatched"}) /\ Client(SetStatus(db, {k}, "claimed"))

CasMarkStarted(k, x) ==
  /\ k \in ExecutedBy(x, {"claimed"}) /\ db.request[k].authorized
  /\ Client([db EXCEPT !.request[k].status = "started", !.request[k].check = TRUE])

\* withCheck: the caller names a check.
CasAbortRequest(k, x, s, withCheck) ==
  /\ \/ k \in ExecutedBy(x, {"claimed"}) /\ ~db.request[k].check /\ ~withCheck
     \/ k \in ExecutedBy(x, {"started"}) /\ db.request[k].check /\ withCheck
  /\ Client(SetStatus(db, {k}, s))

NoReceipt == {k \in Key : db.receipt[k] = "none"}

CasWatchdogTerminal(k, x, s) ==
  /\ k \in ExecutedBy(x, {"dispatched", "claimed", "started"}) \cap NoReceipt
  /\ Client(SetStatus(db, {k}, s))

\* The insert fails on a second receipt of a request, and the batch with it; a
\* row without authorization gets neither receipt nor status.
CasCommitTerminalWithReceipt(k, x, s, withCheck) ==
  /\ k \in ExecutedBy(x, {"claimed", "started"}) \cap NoReceipt
  /\ db.request[k].authorized
  /\ Client(SetStatus([db EXCEPT !.receipt[k] = s,
                                 !.request[k].check = @ \/ withCheck], {k}, s))

\* Mutant of Repair: superseded requests are left to the statements before.
RepairWithoutSuperseded(d) ==
  LET stopped  == Supersession(d, Key \ Authorized(d))
  IN DispatchJobFor(stopped, Authorized(stopped))

\* cancelUnauthorized and supersedeUnauthorized, dispatchMissing, cancelSuperseded.
Repair(d) ==
  LET stopped  == Supersession(d, Key \ Authorized(d))
      restored == DispatchJobFor(stopped, Authorized(stopped))
  IN CancelJobsFor(restored, InStatus(restored, {"superseded"}))

RepairOutboxJobs == Client(Repair(db))

EnqueueCancelOutboxJob(x) == Client(InsertJobs(db, {x}))

\* The update of leaseOutboxJobs; it tests again what its SELECT tested.
LeaseOutboxJob(j, o) ==
  /\ \/ db.job[j].status = "pending"
     \/ db.job[j].status = "leased" /\ db.job[j].expired
  /\ Client([db EXCEPT !.job[j] = [status |-> "leased", owner |-> o, expired |-> FALSE]])

Release(j, o, s) ==
  /\ db.job[j].status = "leased" /\ db.job[j].owner = o
  /\ Client([db EXCEPT !.job[j] = [NoJob EXCEPT !.status = s]])

CompleteOutboxJob(j, o)   == Release(j, o, "completed")
RescheduleOutboxJob(j, o) == Release(j, o, "pending")

ExpireLease(j) ==
  /\ db.job[j].status = "leased" /\ ~db.job[j].expired
  /\ Client([db EXCEPT !.job[j].expired = TRUE])

-----------------------------------------------------------------------------
(* The webhook.                                                            *)

When(condition, s) == IF condition THEN <<s>> ELSE <<>>
Each(op, rs)       == [i \in 1..Len(rs) |-> <<op, rs[i]>>]

Narrows(e) == db.installation # "absent" /\ db.selection = "all" /\ e.sel = "selected"

\* handleInstallation, after getInstallation.
HandleInstallation(e) ==
  CASE e.kind = "deleted" -> <<<<"supersede_all">>, <<"clear">>, <<"delete">>>>
    [] e.kind = "suspend" -> <<<<"upsert", "suspended", e.sel>>, <<"supersede_all">>>>
    [] OTHER -> <<<<"upsert", "active", e.sel>>>>
                  \o When(e.sel = "selected" /\ (e.kind = "created" \/ Narrows(e)), <<"clear">>)
                  \o (IF e.sel = "selected" THEN Each("add", e.repos) ELSE <<>>)

\* handleInstallationRepositories: no repair follows a narrowing.
HandleInstallationRepositories(e) ==
  <<<<"ensure", e.sel>>>>
    \o When(Narrows(e), <<"clear">>)
    \o When(db.installation # "absent" /\ db.selection # e.sel, <<"set_selection", e.sel>>)
    \o (IF e.sel # "selected" THEN <<>>
        ELSE IF e.kind = "added" THEN Each("add", e.repos) ELSE Each("remove", e.repos))

Statement(d, s) ==
  LET op == s[1]
  IN CASE op = "upsert" -> [d EXCEPT !.installation = s[2], !.selection = s[3]]
       [] op = "ensure" -> IF d.installation # "absent" THEN d
                           ELSE [d EXCEPT !.installation = "suspended", !.selection = s[2]]
       [] op = "set_selection" -> IF d.installation = "absent" THEN d
                                  ELSE [d EXCEPT !.selection = s[2]]
       [] op = "clear"  -> [d EXCEPT !.repos = {}]
       [] op = "delete" -> [d EXCEPT !.installation = "absent", !.selection = "selected"]
       [] op = "add"    -> [d EXCEPT !.repos = @ \cup {s[2]}]
       [] op = "remove" -> [d EXCEPT !.repos = @ \ {s[2]}]
       [] op = "supersede_repo" -> Supersession(d, {k \in Key : KeyRepo(k) = s[2]})
       [] op = "supersede_all"  -> Supersession(d, Key)

\* A removal is two statements.
Expand(p) == IF p # <<>> /\ Head(p)[1] = "remove"
               THEN <<<<"supersede_repo", Head(p)[2]>>>> \o Tail(p) ELSE Tail(p)

\* Any event, however often it has been delivered before: no delivery is recorded.
RouteWebhookEvent(h) ==
  /\ program[h] = <<>>
  /\ \E e \in Event :
       program' = [program EXCEPT ![h] = IF e.kind \in {"added", "removed"}
                                           THEN HandleInstallationRepositories(e)
                                           ELSE HandleInstallation(e)]
  /\ UNCHANGED db

\* A repository row needs the row of its installation (foreign key).
Throws(h) == Head(program[h])[1] = "add" /\ db.installation = "absent"

RunStatement(h) ==
  /\ program[h] # <<>> /\ ~Throws(h)
  /\ db' = Statement(db, Head(program[h]))
  /\ program' = [program EXCEPT ![h] = Expand(@)]

\* A statement throws or the invocation dies: nobody finishes the event.
HandlerFails(h) ==
  /\ program[h] # <<>>
  /\ program' = [program EXCEPT ![h] = <<>>]
  /\ UNCHANGED db

-----------------------------------------------------------------------------
RequestStep ==
  \/ \E k \in Key : \/ InsertReviewRequest(k) \/ AdmitReviewRequestWithOutbox(k)
                    \/ CasMarkRequestSuperseded(k) \/ CasMarkFailedDispatch(k)
  \/ \E p \in Pull, k \in Key : \/ SupersedePrRequestsWithOutbox(p, {k})
                                \/ SupersedePrRequestsWithOutbox(p, {})
  \/ \E k \in Key, x \in Run :
        \/ AuthorizeReviewRequestWithOutbox(k, x)
        \/ CasClaimWorkflowRun(k, x) \/ ClaimWorkflowRunOrEnqueueOrphan(k, x)
        \/ CasClaimExecutor(k, x) \/ CasMarkStarted(k, x)
        \/ \E s \in Outcome, c \in BOOLEAN :
              \/ CasCommitTerminalWithReceipt(k, x, s, c)
              \/ s # "completed" /\ (CasAbortRequest(k, x, s, c) \/ CasWatchdogTerminal(k, x, s))

OutboxStep ==
  \/ RepairOutboxJobs
  \/ \E x \in Run : EnqueueCancelOutboxJob(x)
  \/ \E j \in JobKey : ExpireLease(j)
  \/ \E j \in JobKey, o \in Owner :
        LeaseOutboxJob(j, o) \/ CompleteOutboxJob(j, o) \/ RescheduleOutboxJob(j, o)

WebhookStep == \E h \in Handler : RouteWebhookEvent(h) \/ RunStatement(h) \/ HandlerFails(h)

Next == RequestStep \/ OutboxStep \/ WebhookStep

Spec == Init /\ [][Next]_vars

-----------------------------------------------------------------------------
Ledger == INSTANCE ReviewLedger WITH
  rank       <- [k \in Key |-> db.request[k].id],
  executor   <- [k \in Key |-> db.request[k].run],
  authorized <- {k \in Key : db.request[k].authorized},
  verdict    <- [k \in Key |-> IF db.request[k].status \in Terminal
                                 THEN db.request[k].status ELSE "open"],
  reported   <- {k \in Key : db.receipt[k] # "none"}

\* The port goes through the steps of the same ledger as the deployed store,
\* without the gate and with its single statements (casMarkRequestSuperseded,
\* casClaimWorkflowRun) beside the batches: in particular the statements of
\* authorizeReviewRequestWithOutbox, run one after the other, supersede just
\* what one simultaneous step would, and none of them if the first did nothing.
PortKeepsLedger == Ledger!Spec

\* Superseded requests whose run GitHub will not be asked to cancel.
Uncancelled(d) == {k \in InStatus(d, {"superseded"}) :
                     \E x \in RunsOf(d, {k}) : d.job[x] = NoJob}

\* What db.mjs 888-889 promises of a repair, that it restores "missing durable work"
\* and "also supersedes requests whose installation or selected-repository
\* authorization disappeared between lifecycle events".
Repaired(d) == /\ InStatus(d, Supersedable) \subseteq Authorized(d)
               /\ \A k \in Waiting(d) : d.job[k] # NoJob
               /\ Uncancelled(d) = {}

\* One repair makes good whatever single statements, and handlers that stopped
\* half way, have left behind.
RepairRestores == Repaired(Repair(db))

\* Whatever supersedes a request queues the cancellation of its run in the same
\* transaction, but for the single statement casMarkRequestSuperseded.
NoRunIsForgotten ==
  [][\/ \E k \in Key : CasMarkRequestSuperseded(k)
     \/ Uncancelled(db') \subseteq Uncancelled(db)]_vars
=============================================================================
