---------------------------- MODULE ReviewStore ----------------------------
(***************************************************************************)
(* The D1 database of the review control plane and the statements the      *)
(* Worker runs on it (apps/grok-review-app/src/db.mjs).  Each operator     *)
(* below is one statement, or one D1 batch: D1 executes it as one          *)
(* transaction, so it is one atomic step.  Everything around it (what the  *)
(* caller read before, what it does with the answer) belongs to the        *)
(* modules that compose this one.                                          *)
(*                                                                         *)
(* StoreSpec lets any client run any statement with any arguments at any   *)
(* time: what it guarantees, the compare-and-set conditions in the SQL     *)
(* guarantee alone.                                                        *)
(***************************************************************************)
EXTENDS Integers, FiniteSets

CONSTANTS
  Key,       \* request keys: one semantic trigger of a review each
  Run,       \* workflow run ids GitHub may hand out
  Owner,     \* lease owner names, one per processOutbox invocation
  Pull,      \* pull requests of one installation
  Repo,      \* its repositories
  PullOf,    \* the pull request a request key names
  RepoOf,    \* the repository a pull request belongs to
  None       \* SQL's NULL

\* A dispatch job has the key 'dispatch:' || request_key and a cancel job the
\* key 'cancel:' || workflow_run_id: the request key or the run id names the job.
Job == Key \cup Run

ASSUME RowAssumption == /\ PullOf \in [Key -> Pull]
                        /\ RepoOf \in [Pull -> Repo]
                        /\ None \notin Key \cup Run \cup Owner
                        /\ Key \cap Run = {}

Retryable   == {"pending_dispatch", "failed_dispatch"}
Active      == {"dispatched", "claimed", "started"}
Supersedable == Retryable \cup Active
Outcome     == {"completed", "failed", "cancelled"}
Terminal    == Outcome \cup {"superseded"}

VARIABLES
  status,       \* review_requests.status, "absent" when there is no row
  reqId,        \* review_requests.request_id, 0 when there is no row
  lastId,       \* the AUTOINCREMENT high-water mark of request_id
  boundRun,     \* review_requests.workflow_run_id
  checkBound,   \* review_requests.check_run_id IS NOT NULL (see CasMarkStarted)
  authorizedAt, \* review_requests.authorized_at IS NOT NULL
  receipt,      \* status of the sanitized_receipts row, "none" without one
  jobStatus,    \* outbox_jobs.status, "absent" when there is no row
  leaseOwner,   \* outbox_jobs.lease_owner
  leaseExpired, \* outbox_jobs.lease_expires_at is past
  instState,    \* installations: "absent", "active" or "suspended"
  selection,    \* installations.repository_selection
  instRepos,    \* rows of installation_repositories
  paused,       \* control_state.paused
  epoch         \* control_state.epoch

requestVars == <<status, reqId, lastId, boundRun, checkBound, authorizedAt>>
jobVars     == <<jobStatus, leaseOwner, leaseExpired>>
instVars    == <<instState, selection, instRepos>>
gateVars    == <<paused, epoch>>
storeVars   == <<requestVars, receipt, jobVars, instVars, gateVars>>

StoreTypeOK ==
  /\ status \in [Key -> Supersedable \cup Terminal \cup {"absent"}]
  /\ reqId \in [Key -> Nat]
  /\ lastId \in Nat
  /\ boundRun \in [Key -> Run \cup {None}]
  /\ checkBound \in [Key -> BOOLEAN]
  /\ authorizedAt \in [Key -> BOOLEAN]
  /\ receipt \in [Key -> Outcome \cup {"none"}]
  /\ jobStatus \in [Job -> {"absent", "pending", "leased", "completed"}]
  /\ leaseOwner \in [Job -> Owner \cup {None}]
  /\ leaseExpired \in [Job -> BOOLEAN]
  /\ instState \in {"absent", "active", "suspended"}
  /\ selection \in {"all", "selected"}
  /\ instRepos \subseteq Repo
  /\ paused \in BOOLEAN
  /\ epoch \in Nat \ {0}

\* Empty tables and the control_state row of migration 0002.
NoRequests ==
  /\ status = [k \in Key |-> "absent"]
  /\ reqId = [k \in Key |-> 0]
  /\ lastId = 0
  /\ boundRun = [k \in Key |-> None]
  /\ checkBound = [k \in Key |-> FALSE]
  /\ authorizedAt = [k \in Key |-> FALSE]
  /\ receipt = [k \in Key |-> "none"]
  /\ jobStatus = [j \in Job |-> "absent"]
  /\ leaseOwner = [j \in Job |-> None]
  /\ leaseExpired = [j \in Job |-> FALSE]

NoInstallation == instState = "absent" /\ selection = "selected" /\ instRepos = {}

\* The App may have been installed before the first request.
SomeInstallation == /\ instState \in {"absent", "active", "suspended"}
                    /\ selection \in {"all", "selected"}
                    /\ instRepos \in SUBSET Repo

GateInit == paused = FALSE /\ epoch = 1

StoreInit == NoRequests /\ SomeInstallation /\ GateInit

-----------------------------------------------------------------------------
(* Conditions the statements share.                                        *)

\* isInstallationRepoAuthorized, and the join of the repair statements.
RepoAuthorized(r) == /\ instState = "active"
                     /\ selection = "all" \/ r \in instRepos

KeyRepo(k) == RepoOf[PullOf[k]]

\* Mutant of GateOpen: the epoch is not compared.
GateOpenAtAnyEpoch(e) == ~paused

\* The dispatch gate as a statement tests it: unpaused at the epoch e.
GateOpen(e) == ~paused /\ epoch = e

\* The rows an authorization of k supersedes: lower request_id, same PR.
Older(k) == {o \in Key : /\ status[o] # "absent"
                         /\ reqId[o] < reqId[k]
                         /\ PullOf[o] = PullOf[k]}

RunsOf(S) == {boundRun[k] : k \in S} \ {None}

\* INSERT OR IGNORE INTO outbox_jobs: a key that exists is left as it is.
Enqueue(J) ==
  /\ jobStatus' = [j \in Job |-> IF j \in J /\ jobStatus[j] = "absent"
                                   THEN "pending" ELSE jobStatus[j]]
  /\ UNCHANGED <<leaseOwner, leaseExpired>>

SetStatus(k, s) ==
  /\ status' = [status EXCEPT ![k] = s]
  /\ UNCHANGED <<reqId, lastId>>

-----------------------------------------------------------------------------
(* Admission and supersession.                                             *)

\* One batch: insert the request unless its key exists, then its dispatch job
\* unless that exists, provided the row is still waiting to be dispatched.
AdmitReviewRequestWithOutbox(k) ==
  /\ IF status[k] = "absent"
       THEN /\ status' = [status EXCEPT ![k] = "pending_dispatch"]
            /\ reqId' = [reqId EXCEPT ![k] = lastId + 1]
            /\ lastId' = lastId + 1
       ELSE UNCHANGED <<status, reqId, lastId>>
  /\ Enqueue(IF status'[k] \in Retryable /\ boundRun[k] = None THEN {k} ELSE {})
  /\ UNCHANGED <<boundRun, checkBound, authorizedAt, receipt, instVars, gateVars>>

\* Mutant of Supersede: no cancel jobs.
SupersedeOnly(S) ==
  /\ status' = [k \in Key |-> IF k \in S /\ status[k] \in Supersedable
                               THEN "superseded" ELSE status[k]]
  /\ UNCHANGED <<reqId, lastId, boundRun, checkBound, authorizedAt, jobVars>>

\* One batch over the rows a WHERE clause selects: a cancel job for every run
\* already bound to one of them, then status = superseded.
Supersede(S) ==
  LET hit == {k \in S : status[k] \in Supersedable}
  IN /\ status' = [k \in Key |-> IF k \in hit THEN "superseded" ELSE status[k]]
     /\ Enqueue(RunsOf(hit))
     /\ UNCHANGED <<reqId, lastId, boundRun, checkBound, authorizedAt>>

SupersedeInstallationRequests ==
  Supersede(Key) /\ UNCHANGED <<receipt, instVars, gateVars>>

SupersedeRepositoryRequests(r) ==
  Supersede({k \in Key : KeyRepo(k) = r}) /\ UNCHANGED <<receipt, instVars, gateVars>>

CanAuthorize(k, x) == /\ status[k] = "claimed"
                      /\ boundRun[k] = x
                      /\ ~authorizedAt[k]

\* Mutants of AuthorizeReviewRequestWithOutbox: it supersedes the rows H.
AuthorizeOver(k, x, H, J) ==
  /\ CanAuthorize(k, x)
  /\ authorizedAt' = [authorizedAt EXCEPT ![k] = TRUE]
  /\ status' = [o \in Key |-> IF o \in H THEN "superseded" ELSE status[o]]
  /\ Enqueue(J)
  /\ UNCHANGED <<reqId, lastId, boundRun, checkBound, receipt, instVars, gateVars>>

\* ... request ids are not compared,
AuthorizeOverAll(k, x) ==
  LET hit == {o \in Key \ {k} : PullOf[o] = PullOf[k] /\ status[o] \in Supersedable}
  IN AuthorizeOver(k, x, hit, RunsOf(hit))

\* ... no run is cancelled.
AuthorizeWithoutCancel(k, x) ==
  AuthorizeOver(k, x, {o \in Older(k) : status[o] \in Supersedable}, {})

\* One batch: authorized_at of k, a cancel job for every bound run of an older
\* request of the PR, and those requests superseded.
AuthorizeReviewRequestWithOutbox(k, x) ==
  LET hit == {o \in Older(k) : status[o] \in Supersedable}
  IN /\ CanAuthorize(k, x)
     /\ authorizedAt' = [authorizedAt EXCEPT ![k] = TRUE]
     /\ status' = [o \in Key |-> IF o \in hit THEN "superseded" ELSE status[o]]
     /\ Enqueue(RunsOf(hit))
     /\ UNCHANGED <<reqId, lastId, boundRun, checkBound, receipt, instVars, gateVars>>

-----------------------------------------------------------------------------
(* The life of one request: every update is a compare-and-set.             *)

CanBindRun(k) == status[k] \in Retryable /\ boundRun[k] = None

\* Mutants of ClaimWorkflowRunOrEnqueueOrphan: no unique index, no orphan job.
BindTo(k, x, J) ==
  /\ IF CanBindRun(k)
       THEN SetStatus(k, "dispatched") /\ boundRun' = [boundRun EXCEPT ![k] = x] /\ UNCHANGED jobVars
       ELSE UNCHANGED <<status, reqId, lastId, boundRun>> /\ Enqueue(J)
  /\ UNCHANGED <<checkBound, authorizedAt, receipt, instVars, gateVars>>

BindWithoutOrphan(k, x) == BindTo(k, x, {})

\* One batch: bind the run x to k if k still waits for one; a run that does not
\* end up bound to k gets a cancel job.  The unique index on workflow_run_id
\* makes the batch fail when x is bound to another row.
ClaimWorkflowRunOrEnqueueOrphan(k, x) ==
  /\ x \notin RunsOf(Key \ {k}) \/ ~CanBindRun(k)
  /\ IF CanBindRun(k)
       THEN /\ SetStatus(k, "dispatched")
            /\ boundRun' = [boundRun EXCEPT ![k] = x]
            /\ UNCHANGED jobVars
       ELSE /\ UNCHANGED <<status, reqId, lastId, boundRun>>
            /\ Enqueue(IF boundRun[k] = x THEN {} ELSE {x})
  /\ UNCHANGED <<checkBound, authorizedAt, receipt, instVars, gateVars>>

CasMarkFailedDispatch(k) ==
  /\ IF status[k] \in Retryable
       THEN SetStatus(k, "failed_dispatch")
       ELSE UNCHANGED <<status, reqId, lastId>>
  /\ UNCHANGED <<boundRun, checkBound, authorizedAt, receipt, jobVars, instVars, gateVars>>

CanClaimExecutor(k, x) == status[k] = "dispatched" /\ boundRun[k] = x

CasClaimExecutor(k, x) ==
  /\ CanClaimExecutor(k, x)
  /\ SetStatus(k, "claimed")
  /\ UNCHANGED <<boundRun, checkBound, authorizedAt, receipt, jobVars, instVars, gateVars>>

\* The check id is named after the request (its external id), so that a runner
\* reconciles to the one check of its request: only "bound or not" is kept.
CanMarkStarted(k, x) == status[k] = "claimed" /\ boundRun[k] = x /\ authorizedAt[k]

CasMarkStarted(k, x) ==
  /\ CanMarkStarted(k, x)
  /\ SetStatus(k, "started")
  /\ checkBound' = [checkBound EXCEPT ![k] = TRUE]
  /\ UNCHANGED <<boundRun, authorizedAt, receipt, jobVars, instVars, gateVars>>

\* Receipt-free end: a claimed request with no check, or a started request with
\* its check (withCheck: the callback names it).
CanAbort(k, x, withCheck) ==
  /\ boundRun[k] = x
  /\ \/ status[k] = "claimed" /\ ~checkBound[k] /\ ~withCheck
     \/ status[k] = "started" /\ checkBound[k] /\ withCheck

CasAbortRequest(k, x, withCheck, s) ==
  /\ CanAbort(k, x, withCheck)
  /\ SetStatus(k, s)
  /\ UNCHANGED <<boundRun, checkBound, authorizedAt, receipt, jobVars, instVars, gateVars>>

CanCommitTerminal(k, x) ==
  /\ status[k] \in {"claimed", "started"}
  /\ boundRun[k] = x
  /\ authorizedAt[k]
  /\ receipt[k] = "none"      \* UNIQUE (request_id) on sanitized_receipts

\* One batch: the receipt row and the terminal status, or neither.
CasCommitTerminalWithReceipt(k, x, s) ==
  /\ CanCommitTerminal(k, x)
  /\ SetStatus(k, s)
  /\ checkBound' = [checkBound EXCEPT ![k] = TRUE]
  /\ receipt' = [receipt EXCEPT ![k] = s]
  /\ UNCHANGED <<boundRun, authorizedAt, jobVars, instVars, gateVars>>

\* Mutant of StaleCandidate: requests that were never claimed are not listed.
StaleClaimedOnly(k) == status[k] \in {"claimed", "started"} /\ receipt[k] = "none"

\* Rows the watchdog may list (their age is left to the caller).
StaleCandidate(k) == /\ status[k] \in Active
                     /\ boundRun[k] # None
                     /\ receipt[k] = "none"

CasWatchdogTerminal(k, x, s) ==
  /\ StaleCandidate(k) /\ boundRun[k] = x
  /\ SetStatus(k, s)
  /\ UNCHANGED <<boundRun, checkBound, authorizedAt, receipt, jobVars, instVars, gateVars>>

-----------------------------------------------------------------------------
(* The outbox.                                                             *)

\* Mutant of RepairOutboxJobs: lost authorizations are not looked at.
RepairMissingOnly(e) ==
  /\ GateOpen(e)
  /\ Enqueue({k \in Key : CanBindRun(k) /\ RepoAuthorized(KeyRepo(k))}
               \cup RunsOf({k \in Key : status[k] = "superseded"}))
  /\ UNCHANGED <<requestVars, receipt, instVars, gateVars>>

\* One batch of four statements, each fenced by the gate at epoch e: cancel
\* jobs and supersession for requests whose repository lost its authorization,
\* dispatch jobs that are missing, cancel jobs of superseded requests.
RepairOutboxJobs(e) ==
  LET lost == {k \in Key : /\ status[k] \in Supersedable
                           /\ ~RepoAuthorized(KeyRepo(k))}
      missing == {k \in Key \ lost : /\ CanBindRun(k)
                                     /\ RepoAuthorized(KeyRepo(k))}
      stopped == lost \cup {k \in Key : status[k] = "superseded"}
  IN /\ GateOpen(e)
     /\ status' = [k \in Key |-> IF k \in lost THEN "superseded" ELSE status[k]]
     /\ Enqueue(missing \cup RunsOf(stopped))
     /\ UNCHANGED <<reqId, lastId, boundRun, checkBound, authorizedAt>>
     /\ UNCHANGED <<receipt, instVars, gateVars>>

Leasable(j) == \/ jobStatus[j] = "pending"
               \/ jobStatus[j] = "leased" /\ leaseExpired[j]

\* The per-row update of leaseOutboxJobs.
LeaseOutboxJob(j, o, e) ==
  /\ GateOpen(e)
  /\ Leasable(j)
  /\ jobStatus' = [jobStatus EXCEPT ![j] = "leased"]
  /\ leaseOwner' = [leaseOwner EXCEPT ![j] = o]
  /\ leaseExpired' = [leaseExpired EXCEPT ![j] = FALSE]
  /\ UNCHANGED <<requestVars, receipt, instVars, gateVars>>

\* Mutant of HoldsLease: the owner is not compared.
LeaseHeldByAny(j, o) == jobStatus[j] = "leased"

HoldsLease(j, o) == jobStatus[j] = "leased" /\ leaseOwner[j] = o

\* Note that the lease may have run out: only its owner and the gate count.
MayExecuteLeasedOutboxJob(j, o, e) == HoldsLease(j, o) /\ GateOpen(e)

Release(j, o, s) ==
  /\ IF HoldsLease(j, o)
       THEN /\ jobStatus' = [jobStatus EXCEPT ![j] = s]
            /\ leaseOwner' = [leaseOwner EXCEPT ![j] = None]
            /\ leaseExpired' = [leaseExpired EXCEPT ![j] = FALSE]
       ELSE UNCHANGED jobVars
  /\ UNCHANGED <<requestVars, receipt, instVars, gateVars>>

CompleteOutboxJob(j, o)   == Release(j, o, "completed")
RescheduleOutboxJob(j, o) == Release(j, o, "pending")

\* The clock passes lease_expires_at.
ExpireLease(j) ==
  /\ jobStatus[j] = "leased" /\ ~leaseExpired[j]
  /\ leaseExpired' = [leaseExpired EXCEPT ![j] = TRUE]
  /\ UNCHANGED <<requestVars, receipt, jobStatus, leaseOwner, instVars, gateVars>>

-----------------------------------------------------------------------------
(* Installations and the cutover gate.                                     *)

\* upsertInstallation, ensureInstallationRow, setInstallationRepositorySelection,
\* deleteInstallation, add-, remove- and clearInstallationRepositories: each
\* writes the installation tables only.
WriteInstallation(st, sel, repos) ==
  /\ instState' = st
  /\ selection' = sel
  /\ instRepos' = repos
  /\ UNCHANGED <<requestVars, receipt, jobVars, gateVars>>

\* The operator's command: set the pause and increment the epoch.
SetGate(p) ==
  /\ paused' = p
  /\ epoch' = epoch + 1
  /\ UNCHANGED <<requestVars, receipt, jobVars, instVars>>

-----------------------------------------------------------------------------
StoreNext ==
  \/ \E k \in Key : \/ AdmitReviewRequestWithOutbox(k)
                    \/ CasMarkFailedDispatch(k)
  \/ \E k \in Key, x \in Run : \/ AuthorizeReviewRequestWithOutbox(k, x)
                               \/ ClaimWorkflowRunOrEnqueueOrphan(k, x)
                               \/ CasClaimExecutor(k, x)
                               \/ CasMarkStarted(k, x)
  \/ \E k \in Key, x \in Run, s \in Outcome :
        \/ \E c \in BOOLEAN : s # "completed" /\ CasAbortRequest(k, x, c, s)
        \/ CasCommitTerminalWithReceipt(k, x, s)
        \/ s # "completed" /\ CasWatchdogTerminal(k, x, s)
  \/ SupersedeInstallationRequests
  \/ \E r \in Repo : SupersedeRepositoryRequests(r)
  \/ RepairOutboxJobs(epoch)
  \/ \E j \in Job : ExpireLease(j)
  \/ \E j \in Job, o \in Owner : \/ LeaseOutboxJob(j, o, epoch)
                                 \/ CompleteOutboxJob(j, o)
                                 \/ RescheduleOutboxJob(j, o)
  \/ \E st \in {"absent", "active", "suspended"}, sel \in {"all", "selected"},
        repos \in SUBSET Repo : WriteInstallation(st, sel, repos)
  \/ \E p \in BOOLEAN : SetGate(p)

StoreSpec == StoreInit /\ [][StoreNext]_storeVars

-----------------------------------------------------------------------------
(* What the statements guarantee whoever runs them.                        *)

\* Request ids order the admissions: a row has its own id, none is above the
\* high-water mark.
IdsOrderAdmissions ==
  /\ \A k \in Key : reqId[k] <= lastId /\ (reqId[k] = 0 <=> status[k] = "absent")
  /\ \A k, o \in Key : k # o /\ reqId[k] # 0 => reqId[k] # reqId[o]

\* A run executes at most one request, and a request that has left the dispatch
\* queue by any way other than supersession has a run.
RunBinding ==
  /\ \A k, o \in Key : boundRun[k] # None /\ boundRun[k] = boundRun[o] => k = o
  /\ \A k \in Key : status[k] \in Retryable \cup {"absent"} => boundRun[k] = None
  /\ \A k \in Key : status[k] \in Active \cup Outcome => boundRun[k] # None

\* Once a request was live-authorized, no older request of its pull request can
\* still be dispatched, claimed, started or reported (README 198-199: a newer
\* head supersedes older work, in whatever order runs reach their callbacks).
SupersessionFence ==
  \A k \in Key : authorizedAt[k] =>
    \A o \in Older(k) : status[o] \in Terminal

\* A signed receipt exists only for an authorized request and agrees with its
\* status for good; a completed review always has one.
ReceiptPairing ==
  \A k \in Key : /\ receipt[k] # "none" => authorizedAt[k] /\ status[k] = receipt[k]
                 /\ status[k] = "completed" => receipt[k] = "completed"

\* Authorization comes between claim and start, and a check between start and
\* the end.
AuthorizationOrder ==
  \A k \in Key : /\ authorizedAt[k] => status[k] \notin Retryable \cup {"absent", "dispatched"}
                 /\ status[k] = "started" => authorizedAt[k] /\ checkBound[k]
                 /\ checkBound[k] => authorizedAt[k] /\ status[k] # "claimed"

\* No superseded request keeps a run GitHub was never asked to cancel, and no
\* admitted request waits for a dispatch nobody has queued.
JobCoverage ==
  /\ \A k \in Key : status[k] = "superseded" /\ boundRun[k] # None
                      => jobStatus[boundRun[k]] # "absent"
  /\ \A k \in Key : status[k] \in Retryable => jobStatus[k] # "absent"

\* A lease has an owner, and nothing else does.
LeaseOwned ==
  \A j \in Job : /\ jobStatus[j] = "leased" <=> leaseOwner[j] # None
                 /\ leaseExpired[j] => jobStatus[j] = "leased"

StoreInv == /\ StoreTypeOK
            /\ IdsOrderAdmissions
            /\ RunBinding
            /\ SupersessionFence
            /\ ReceiptPairing
            /\ AuthorizationOrder
            /\ JobCoverage
            /\ LeaseOwned

\* What no statement undoes: a row, a terminal status, a binding, an authorization,
\* a receipt, a job and its completion, an id; the epoch only grows.
Permanent ==
  /\ \A k \in Key :
       /\ status[k] # "absent" => status'[k] # "absent"
       /\ status[k] \in Terminal => status'[k] = status[k]
       /\ boundRun[k] # None => boundRun'[k] = boundRun[k]
       /\ authorizedAt[k] => authorizedAt'[k]
       /\ receipt[k] # "none" => receipt'[k] = receipt[k]
       /\ reqId[k] # 0 => reqId'[k] = reqId[k]
  /\ \A j \in Job : /\ jobStatus[j] # "absent" => jobStatus'[j] # "absent"
                    /\ jobStatus[j] = "completed" => jobStatus'[j] = "completed"
  /\ epoch' >= epoch

NothingUndone == [][Permanent]_storeVars

-----------------------------------------------------------------------------
(* The promise the statements implement.                                   *)

Ledger == INSTANCE ReviewLedger WITH
  rank       <- reqId,
  executor   <- boundRun,
  authorized <- {k \in Key : authorizedAt[k]},
  verdict    <- [k \in Key |-> IF status[k] \in Terminal THEN status[k] ELSE "open"],
  reported   <- {k \in Key : receipt[k] # "none"}

\* Whatever order clients run the statements in, requests go through the
\* ledger's steps: in particular no request is authorized after a newer one of
\* its pull request, which no statement checks.
KeepsLedger == Ledger!Spec
=============================================================================
