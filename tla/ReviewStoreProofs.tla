-------------------------- MODULE ReviewStoreProofs --------------------------
(***************************************************************************)
(* Proofs about the store: StoreInv is inductive, whichever client runs    *)
(* which statement, for every set of requests, runs, owners and pull       *)
(* requests.                                                               *)
(***************************************************************************)
EXTENDS ReviewStore, TLAPS

USE DEF Job, Retryable, Active, Supersedable, Outcome, Terminal

-----------------------------------------------------------------------------
(* Type correctness.                                                       *)

\* INSERT OR IGNORE leaves a well-typed outbox.
LEMMA EnqueueType ==
  ASSUME NEW J, StoreTypeOK, Enqueue(J)
  PROVE  /\ jobStatus' \in [Job -> {"absent", "pending", "leased", "completed"}]
         /\ leaseOwner' = leaseOwner
         /\ leaseExpired' = leaseExpired
         /\ \A j \in Job : /\ jobStatus[j] # "absent" => jobStatus'[j] = jobStatus[j]
                           /\ j \in J => jobStatus'[j] # "absent"
                           /\ jobStatus[j] = "absent" => jobStatus'[j] \in {"absent", "pending"}
  BY DEF Enqueue, StoreTypeOK

\* The empty tables are well typed.
LEMMA StoreTypeInit == StoreInit => StoreTypeOK
  <1> SUFFICES ASSUME StoreInit PROVE StoreTypeOK
    OBVIOUS
  <1>1. paused \in BOOLEAN
    BY Zenon DEF StoreInit, GateInit
  <1>2. epoch \in Nat \ {0}
    BY DEF StoreInit, GateInit
  <1>3. instState \in {"absent", "active", "suspended"} /\ selection \in {"all", "selected"}
        /\ instRepos \subseteq Repo
    BY DEF StoreInit, SomeInstallation
  <1>4. QED
    BY <1>1, <1>2, <1>3 DEF StoreInit, NoRequests, StoreTypeOK

\* Admission (admitReviewRequestWithOutbox) writes well-typed rows.
LEMMA AdmitType ==
  ASSUME StoreTypeOK, NEW k \in Key, AdmitReviewRequestWithOutbox(k)
  PROVE  StoreTypeOK'
  <1> DEFINE J == IF status'[k] \in Retryable /\ boundRun[k] = None THEN {k} ELSE {}
  <1>1. Enqueue(J)
    BY DEF AdmitReviewRequestWithOutbox
  <1>2. jobStatus' \in [Job -> {"absent", "pending", "leased", "completed"}]
        /\ leaseOwner' = leaseOwner /\ leaseExpired' = leaseExpired
    BY <1>1, EnqueueType
  <1>3. QED
    BY <1>2 DEF AdmitReviewRequestWithOutbox, StoreTypeOK, instVars, gateVars

\* So does the supersession of any set of rows,
LEMMA SupersedeType ==
  ASSUME StoreTypeOK, NEW S, Supersede(S), UNCHANGED <<receipt, instVars, gateVars>>
  PROVE  StoreTypeOK'
  <1> DEFINE hit == {k \in S : status[k] \in Supersedable}
  <1>1. Enqueue(RunsOf(hit))
    BY DEF Supersede
  <1>2. jobStatus' \in [Job -> {"absent", "pending", "leased", "completed"}]
        /\ leaseOwner' = leaseOwner /\ leaseExpired' = leaseExpired
    BY <1>1, EnqueueType
  <1>3. QED
    BY <1>2 DEF Supersede, StoreTypeOK, instVars, gateVars

\* the authorization of a request with what it supersedes,
LEMMA AuthorizeType ==
  ASSUME StoreTypeOK, NEW k \in Key, NEW x \in Run, AuthorizeReviewRequestWithOutbox(k, x)
  PROVE  StoreTypeOK'
  <1> DEFINE hit == {o \in Older(k) : status[o] \in Supersedable}
  <1>1. Enqueue(RunsOf(hit))
    BY DEF AuthorizeReviewRequestWithOutbox
  <1>2. jobStatus' \in [Job -> {"absent", "pending", "leased", "completed"}]
        /\ leaseOwner' = leaseOwner /\ leaseExpired' = leaseExpired
    BY <1>1, EnqueueType
  <1>3. QED
    BY <1>2 DEF AuthorizeReviewRequestWithOutbox, StoreTypeOK, instVars, gateVars

\* the binding of a run,
LEMMA BindType ==
  ASSUME StoreTypeOK, NEW k \in Key, NEW x \in Run, ClaimWorkflowRunOrEnqueueOrphan(k, x)
  PROVE  StoreTypeOK'
  <1>1. CASE CanBindRun(k)
    BY <1>1 DEF ClaimWorkflowRunOrEnqueueOrphan, SetStatus, StoreTypeOK, instVars, gateVars, jobVars
  <1>2. CASE ~CanBindRun(k)
    <2>1. Enqueue(IF boundRun[k] = x THEN {} ELSE {x})
      BY <1>2 DEF ClaimWorkflowRunOrEnqueueOrphan
    <2>2. jobStatus' \in [Job -> {"absent", "pending", "leased", "completed"}]
          /\ leaseOwner' = leaseOwner /\ leaseExpired' = leaseExpired
      BY <2>1, EnqueueType
    <2>3. QED
      BY <1>2, <2>2 DEF ClaimWorkflowRunOrEnqueueOrphan, StoreTypeOK, instVars, gateVars
  <1>3. QED
    BY <1>1, <1>2

\* and the repair batch.
LEMMA RepairType ==
  ASSUME StoreTypeOK, NEW e, RepairOutboxJobs(e)
  PROVE  StoreTypeOK'
  <1>1. PICK J : Enqueue(J)
    BY DEF RepairOutboxJobs
  <1>2. jobStatus' \in [Job -> {"absent", "pending", "leased", "completed"}]
        /\ leaseOwner' = leaseOwner /\ leaseExpired' = leaseExpired
    BY <1>1, EnqueueType
  <1>3. QED
    BY <1>2 DEF RepairOutboxJobs, StoreTypeOK, instVars, gateVars

\* No statement leaves the types of the columns.
LEMMA StoreTypeStep == StoreTypeOK /\ [StoreNext]_storeVars => StoreTypeOK'
  <1> SUFFICES ASSUME StoreTypeOK, [StoreNext]_storeVars PROVE StoreTypeOK'
    OBVIOUS
  <1> USE DEF StoreTypeOK, SetStatus, requestVars, jobVars, instVars, gateVars
  <1>1. ASSUME NEW k \in Key, AdmitReviewRequestWithOutbox(k) PROVE StoreTypeOK'
    BY <1>1, AdmitType
  <1>2. ASSUME NEW k \in Key, CasMarkFailedDispatch(k) PROVE StoreTypeOK'
    BY <1>2 DEF CasMarkFailedDispatch
  <1>3. ASSUME NEW k \in Key, NEW x \in Run, AuthorizeReviewRequestWithOutbox(k, x) PROVE StoreTypeOK'
    BY <1>3, AuthorizeType
  <1>4. ASSUME NEW k \in Key, NEW x \in Run, ClaimWorkflowRunOrEnqueueOrphan(k, x) PROVE StoreTypeOK'
    BY <1>4, BindType
  <1>5. ASSUME NEW k \in Key, NEW x \in Run, CasClaimExecutor(k, x) PROVE StoreTypeOK'
    BY <1>5 DEF CasClaimExecutor
  <1>6. ASSUME NEW k \in Key, NEW x \in Run, CasMarkStarted(k, x) PROVE StoreTypeOK'
    BY <1>6 DEF CasMarkStarted
  <1>7. ASSUME NEW k \in Key, NEW x \in Run, NEW s \in Outcome, NEW c \in BOOLEAN,
               CasAbortRequest(k, x, c, s)
        PROVE StoreTypeOK'
    BY <1>7 DEF CasAbortRequest
  <1>8. ASSUME NEW k \in Key, NEW x \in Run, NEW s \in Outcome, CasCommitTerminalWithReceipt(k, x, s)
        PROVE StoreTypeOK'
    BY <1>8 DEF CasCommitTerminalWithReceipt
  <1>9. ASSUME NEW k \in Key, NEW x \in Run, NEW s \in Outcome, CasWatchdogTerminal(k, x, s)
        PROVE StoreTypeOK'
    BY <1>9 DEF CasWatchdogTerminal
  <1>10. ASSUME SupersedeInstallationRequests PROVE StoreTypeOK'
    BY <1>10, SupersedeType DEF SupersedeInstallationRequests
  <1>11. ASSUME NEW r \in Repo, SupersedeRepositoryRequests(r) PROVE StoreTypeOK'
    BY <1>11, SupersedeType DEF SupersedeRepositoryRequests
  <1>12. ASSUME RepairOutboxJobs(epoch) PROVE StoreTypeOK'
    BY <1>12, RepairType
  <1>13. ASSUME NEW j \in Job, ExpireLease(j) PROVE StoreTypeOK'
    BY <1>13 DEF ExpireLease
  <1>14. ASSUME NEW j \in Job, NEW o \in Owner, LeaseOutboxJob(j, o, epoch) PROVE StoreTypeOK'
    BY <1>14 DEF LeaseOutboxJob
  <1>15. ASSUME NEW j \in Job, NEW o \in Owner, CompleteOutboxJob(j, o) PROVE StoreTypeOK'
    BY <1>15 DEF CompleteOutboxJob, Release
  <1>16. ASSUME NEW j \in Job, NEW o \in Owner, RescheduleOutboxJob(j, o) PROVE StoreTypeOK'
    BY <1>16 DEF RescheduleOutboxJob, Release
  <1>17. ASSUME NEW st \in {"absent", "active", "suspended"}, NEW sel \in {"all", "selected"},
                NEW repos \in SUBSET Repo, WriteInstallation(st, sel, repos)
         PROVE StoreTypeOK'
    BY <1>17 DEF WriteInstallation
  <1>18. ASSUME NEW p \in BOOLEAN, SetGate(p) PROVE StoreTypeOK'
    BY <1>18 DEF SetGate
  <1>19. ASSUME UNCHANGED storeVars PROVE StoreTypeOK'
    BY <1>19 DEF storeVars
  <1> HIDE DEF StoreTypeOK
  <1>20. QED
    BY <1>1, <1>2, <1>3, <1>4, <1>5, <1>6, <1>7, <1>8, <1>9, <1>10, <1>11, <1>12, <1>13,
       <1>14, <1>15, <1>16, <1>17, <1>18, <1>19 DEF StoreNext

\* Every column keeps its type, whichever client runs which statement.
THEOREM StoreTypeCorrect == StoreSpec => []StoreTypeOK
  BY StoreTypeInit, StoreTypeStep, PTL DEF StoreSpec

-----------------------------------------------------------------------------
(* The invariant.  Its parts fall in two: what the request rows say of each *)
(* other, and what they say of the jobs.                                    *)

RequestInv == /\ IdsOrderAdmissions
              /\ RunBinding
              /\ SupersessionFence
              /\ ReceiptPairing
              /\ AuthorizationOrder

\* StoreInv regrouped: what is about requests, about jobs, about leases.
LEMMA StoreInvParts == StoreInv <=> StoreTypeOK /\ RequestInv /\ JobCoverage /\ LeaseOwned
  BY DEF StoreInv, RequestInv

\* The empty tables satisfy the invariant.
LEMMA StoreInvInit == StoreInit => StoreInv
  <1> SUFFICES ASSUME StoreInit PROVE StoreInv
    OBVIOUS
  <1>1. StoreTypeOK
    BY StoreTypeInit
  <1>2. RequestInv
    BY DEF StoreInit, NoRequests, RequestInv, IdsOrderAdmissions, RunBinding,
           SupersessionFence, ReceiptPairing, AuthorizationOrder
  <1>3. JobCoverage
    BY DEF StoreInit, NoRequests, JobCoverage
  <1>4. LeaseOwned
    BY DEF StoreInit, NoRequests, LeaseOwned
  <1>5. QED
    BY <1>1, <1>2, <1>3, <1>4, StoreInvParts

\* A new row gets an id above all others: it is older than none.
LEMMA AdmitKeeps ==
  ASSUME StoreInv, NEW k \in Key, AdmitReviewRequestWithOutbox(k)
  PROVE  RequestInv' /\ JobCoverage'
  <1> DEFINE J == IF status'[k] \in Retryable /\ boundRun[k] = None THEN {k} ELSE {}
  <1> USE DEF StoreInv
  <1>1. Enqueue(J)
    BY DEF AdmitReviewRequestWithOutbox
  <1>2. CASE status[k] = "absent"
    <2>1. IdsOrderAdmissions'
      BY <1>2 DEF AdmitReviewRequestWithOutbox, IdsOrderAdmissions, StoreTypeOK
    <2>2. RunBinding' /\ ReceiptPairing' /\ AuthorizationOrder'
      BY <1>2 DEF AdmitReviewRequestWithOutbox, RunBinding, ReceiptPairing, AuthorizationOrder, StoreTypeOK
    <2>3. SupersessionFence'
      BY <1>2 DEF AdmitReviewRequestWithOutbox, SupersessionFence, IdsOrderAdmissions, AuthorizationOrder, Older, StoreTypeOK
    <2>4. JobCoverage'
      BY <1>1, <1>2, EnqueueType DEF AdmitReviewRequestWithOutbox, JobCoverage, RunBinding, StoreTypeOK
    <2>5. QED
      BY <2>1, <2>2, <2>3, <2>4 DEF RequestInv
  <1>3. CASE status[k] # "absent"
    <2>1. UNCHANGED <<requestVars, receipt>>
      BY <1>3 DEF AdmitReviewRequestWithOutbox, requestVars
    <2>2. RequestInv'
      BY <2>1 DEF requestVars, RequestInv, IdsOrderAdmissions, RunBinding, SupersessionFence,
                  ReceiptPairing, AuthorizationOrder, Older
    <2>3. JobCoverage'
      BY <1>1, <2>1, EnqueueType DEF requestVars, JobCoverage, StoreTypeOK
    <2>4. QED
      BY <2>2, <2>3
  <1>4. QED
    BY <1>2, <1>3

\* Superseding any set of rows moves none of them out of a terminal status.
LEMMA SupersedeKeeps ==
  ASSUME StoreInv, NEW S \in SUBSET Key, Supersede(S), UNCHANGED <<receipt, instVars, gateVars>>
  PROVE  RequestInv' /\ JobCoverage'
  <1> DEFINE hit == {k \in S : status[k] \in Supersedable}
  <1> USE DEF StoreInv
  <1>1. Enqueue(RunsOf(hit))
    BY DEF Supersede
  <1>2. IdsOrderAdmissions' /\ RunBinding'
    BY DEF Supersede, IdsOrderAdmissions, RunBinding, StoreTypeOK
  <1>3. SupersessionFence'
    BY DEF Supersede, SupersessionFence, Older, StoreTypeOK
  <1>4. ReceiptPairing' /\ AuthorizationOrder'
    BY DEF Supersede, ReceiptPairing, AuthorizationOrder, StoreTypeOK
  <1>5. JobCoverage'
    BY <1>1, EnqueueType DEF Supersede, JobCoverage, RunsOf, StoreTypeOK
  <1>6. QED
    BY <1>2, <1>3, <1>4, <1>5 DEF RequestInv

\* The statement that establishes the fence.
LEMMA AuthorizeKeeps ==
  ASSUME StoreInv, NEW k \in Key, NEW x \in Run, AuthorizeReviewRequestWithOutbox(k, x)
  PROVE  RequestInv' /\ JobCoverage'
  <1> DEFINE hit == {o \in Older(k) : status[o] \in Supersedable}
  <1> USE DEF StoreInv
  <1>1. Enqueue(RunsOf(hit)) /\ hit \subseteq Key /\ k \notin hit
    BY DEF AuthorizeReviewRequestWithOutbox, Older, StoreTypeOK
  <1>2. IdsOrderAdmissions' /\ RunBinding'
    BY <1>1 DEF AuthorizeReviewRequestWithOutbox, IdsOrderAdmissions, RunBinding, StoreTypeOK
  <1>3. SupersessionFence'
    BY <1>1 DEF AuthorizeReviewRequestWithOutbox, SupersessionFence, Older, StoreTypeOK
  <1>4. ReceiptPairing' /\ AuthorizationOrder'
    BY <1>1 DEF AuthorizeReviewRequestWithOutbox, CanAuthorize, ReceiptPairing, AuthorizationOrder, StoreTypeOK
  <1>5. JobCoverage'
    BY <1>1, EnqueueType DEF AuthorizeReviewRequestWithOutbox, JobCoverage, RunsOf, StoreTypeOK
  <1>6. QED
    BY <1>2, <1>3, <1>4, <1>5 DEF RequestInv

\* A run is bound to a queued request that has none, and to no other request:
\* the unique index on workflow_run_id keeps RunBinding.
LEMMA BindKeeps ==
  ASSUME StoreInv, NEW k \in Key, NEW x \in Run, ClaimWorkflowRunOrEnqueueOrphan(k, x)
  PROVE  RequestInv' /\ JobCoverage'
  <1> USE DEF StoreInv
  <1>1. CASE CanBindRun(k)
    <2>1. \A o \in Key : o # k => boundRun[o] # x
      BY <1>1, RowAssumption DEF ClaimWorkflowRunOrEnqueueOrphan, RunsOf
    <2>2. /\ status' = [status EXCEPT ![k] = "dispatched"]
          /\ boundRun' = [boundRun EXCEPT ![k] = x]
          /\ UNCHANGED <<reqId, lastId, checkBound, authorizedAt, receipt, jobStatus>>
          /\ x # None /\ status[k] \in Retryable
      BY <1>1, RowAssumption DEF ClaimWorkflowRunOrEnqueueOrphan, SetStatus, jobVars, CanBindRun
    <2>3. IdsOrderAdmissions' /\ RunBinding'
      BY <2>1, <2>2 DEF IdsOrderAdmissions, RunBinding, StoreTypeOK
    <2>4. SupersessionFence'
      BY <2>2 DEF SupersessionFence, Older, StoreTypeOK
    <2>5. ReceiptPairing' /\ AuthorizationOrder' /\ JobCoverage'
      BY <2>2 DEF ReceiptPairing, AuthorizationOrder, JobCoverage, StoreTypeOK
    <2>6. QED
      BY <2>3, <2>4, <2>5 DEF RequestInv
  <1>2. CASE ~CanBindRun(k)
    <2>1. UNCHANGED <<requestVars, receipt>> /\ Enqueue(IF boundRun[k] = x THEN {} ELSE {x})
      BY <1>2 DEF ClaimWorkflowRunOrEnqueueOrphan, requestVars
    <2>2. RequestInv'
      BY <2>1 DEF requestVars, RequestInv, IdsOrderAdmissions, RunBinding, SupersessionFence,
                  ReceiptPairing, AuthorizationOrder, Older
    <2>3. JobCoverage'
      BY <2>1, EnqueueType DEF requestVars, JobCoverage, StoreTypeOK
    <2>4. QED
      BY <2>2, <2>3
  <1>3. QED
    BY <1>1, <1>2

\* Repair moves rows to superseded only and queues a cancel job for each of
\* their runs in the same batch.
LEMMA RepairKeeps ==
  ASSUME StoreInv, NEW e, RepairOutboxJobs(e)
  PROVE  RequestInv' /\ JobCoverage'
  <1> DEFINE lost == {k \in Key : status[k] \in Supersedable /\ ~RepoAuthorized(KeyRepo(k))}
             missing == {k \in Key \ lost : CanBindRun(k) /\ RepoAuthorized(KeyRepo(k))}
             stopped == lost \cup {k \in Key : status[k] = "superseded"}
             J == missing \cup RunsOf(stopped)
  <1> USE DEF StoreInv
  <1>1. /\ status' = [k \in Key |-> IF k \in lost THEN "superseded" ELSE status[k]]
        /\ Enqueue(J)
        /\ UNCHANGED <<reqId, lastId, boundRun, checkBound, authorizedAt, receipt>>
    BY DEF RepairOutboxJobs
  <1>2. \A k \in lost : k \in Key /\ status[k] \in Supersedable
    OBVIOUS
  <1>3. \A k \in lost : boundRun[k] # None => boundRun[k] \in J
    BY DEF RunsOf
  <1> HIDE DEF lost, J
  <1>4. IdsOrderAdmissions' /\ RunBinding'
    BY <1>1, <1>2 DEF IdsOrderAdmissions, RunBinding, StoreTypeOK
  <1>5. SupersessionFence'
    BY <1>1, <1>2 DEF SupersessionFence, Older, StoreTypeOK
  <1>6. ReceiptPairing' /\ AuthorizationOrder'
    BY <1>1, <1>2 DEF ReceiptPairing, AuthorizationOrder, StoreTypeOK
  <1>7. JobCoverage'
    BY <1>1, <1>2, <1>3, EnqueueType DEF JobCoverage, StoreTypeOK
  <1>8. QED
    BY <1>4, <1>5, <1>6, <1>7 DEF RequestInv

\* The compare-and-set updates of one row's status, all at once: none leaves a
\* terminal status, none is back to the queue except from the queue.
LEMMA StatusKeeps ==
  ASSUME StoreInv, NEW k \in Key, NEW s,
         \/ s = "failed_dispatch" /\ status[k] \in Retryable
         \/ s = "claimed" /\ status[k] = "dispatched"
         \/ s \in {"failed", "cancelled"} /\ status[k] \in Active /\ receipt[k] = "none",
         SetStatus(k, s), UNCHANGED <<boundRun, checkBound, authorizedAt, receipt, jobVars>>
  PROVE  RequestInv' /\ JobCoverage'
  <1> USE DEF StoreInv, SetStatus, jobVars
  <1>1. IdsOrderAdmissions' /\ RunBinding'
    BY DEF IdsOrderAdmissions, RunBinding, StoreTypeOK
  <1>2. SupersessionFence'
    BY DEF SupersessionFence, Older, StoreTypeOK
  <1>3. ReceiptPairing' /\ AuthorizationOrder' /\ JobCoverage'
    BY DEF ReceiptPairing, AuthorizationOrder, JobCoverage, StoreTypeOK
  <1>4. QED
    BY <1>1, <1>2, <1>3 DEF RequestInv

\* The started callback keeps the order of authorization, check and start.
LEMMA StartKeeps ==
  ASSUME StoreInv, NEW k \in Key, NEW x \in Run, CasMarkStarted(k, x)
  PROVE  RequestInv' /\ JobCoverage'
  <1> USE DEF StoreInv, CasMarkStarted, CanMarkStarted, SetStatus, jobVars
  <1>1. IdsOrderAdmissions' /\ RunBinding'
    BY DEF IdsOrderAdmissions, RunBinding, StoreTypeOK
  <1>2. SupersessionFence'
    BY DEF SupersessionFence, Older, StoreTypeOK
  <1>3. ReceiptPairing' /\ AuthorizationOrder' /\ JobCoverage'
    BY DEF ReceiptPairing, AuthorizationOrder, JobCoverage, StoreTypeOK
  <1>4. QED
    BY <1>1, <1>2, <1>3 DEF RequestInv

\* The receipt and the terminal status are written together.
LEMMA CommitKeeps ==
  ASSUME StoreInv, NEW k \in Key, NEW x \in Run, NEW s \in Outcome, CasCommitTerminalWithReceipt(k, x, s)
  PROVE  RequestInv' /\ JobCoverage'
  <1> USE DEF StoreInv, CasCommitTerminalWithReceipt, CanCommitTerminal, SetStatus, jobVars
  <1>1. IdsOrderAdmissions' /\ RunBinding'
    BY DEF IdsOrderAdmissions, RunBinding, StoreTypeOK
  <1>2. SupersessionFence'
    BY DEF SupersessionFence, Older, StoreTypeOK
  <1>3. ReceiptPairing' /\ AuthorizationOrder' /\ JobCoverage'
    BY DEF ReceiptPairing, AuthorizationOrder, JobCoverage, StoreTypeOK
  <1>4. QED
    BY <1>1, <1>2, <1>3 DEF RequestInv

\* The lease statements, the installation tables and the gate leave the
\* requests alone, and no job disappears.
LEMMA JobStepKeeps ==
  ASSUME StoreInv, UNCHANGED <<requestVars, receipt>>,
         \A j \in Job : jobStatus[j] # "absent" => jobStatus'[j] # "absent"
  PROVE  RequestInv' /\ JobCoverage'
  <1> USE DEF StoreInv, requestVars
  <1>1. RequestInv'
    BY DEF RequestInv, IdsOrderAdmissions, RunBinding, SupersessionFence,
           ReceiptPairing, AuthorizationOrder, Older
  <1>2. JobCoverage'
    BY DEF JobCoverage, StoreTypeOK
  <1>3. QED
    BY <1>1, <1>2

\* Inserting jobs changes no lease.
LEMMA EnqueueLeases ==
  ASSUME StoreInv, NEW J, Enqueue(J)
  PROVE  LeaseOwned'
  BY DEF StoreInv, Enqueue, LeaseOwned, StoreTypeOK

\* The actions of StoreNext, so that a proof over all of them can go through
\* them one by one.
LEMMA StoreCases ==
  ASSUME NEW G, StoreNext,
    \A k \in Key : AdmitReviewRequestWithOutbox(k) => G,
    \A k \in Key : CasMarkFailedDispatch(k) => G,
    \A k \in Key, x \in Run : AuthorizeReviewRequestWithOutbox(k, x) => G,
    \A k \in Key, x \in Run : ClaimWorkflowRunOrEnqueueOrphan(k, x) => G,
    \A k \in Key, x \in Run : CasClaimExecutor(k, x) => G,
    \A k \in Key, x \in Run : CasMarkStarted(k, x) => G,
    \A k \in Key, x \in Run, s \in {"failed", "cancelled"}, c \in BOOLEAN : CasAbortRequest(k, x, c, s) => G,
    \A k \in Key, x \in Run, s \in Outcome : CasCommitTerminalWithReceipt(k, x, s) => G,
    \A k \in Key, x \in Run, s \in {"failed", "cancelled"} : CasWatchdogTerminal(k, x, s) => G,
    \A S \in SUBSET Key : Supersede(S) /\ UNCHANGED <<receipt, instVars, gateVars>> => G,
    RepairOutboxJobs(epoch) => G,
    \A j \in Job : ExpireLease(j) => G,
    \A j \in Job, o \in Owner : LeaseOutboxJob(j, o, epoch) => G,
    \A j \in Job, o \in Owner, s \in {"pending", "completed"} : Release(j, o, s) => G,
    \A st \in {"absent", "active", "suspended"}, sel \in {"all", "selected"}, repos \in SUBSET Repo :
       WriteInstallation(st, sel, repos) => G,
    \A p \in BOOLEAN : SetGate(p) => G
  PROVE G
  <1>1. ASSUME NEW k \in Key, NEW x \in Run, NEW s \in Outcome,
               \/ \E c \in BOOLEAN : s # "completed" /\ CasAbortRequest(k, x, c, s)
               \/ CasCommitTerminalWithReceipt(k, x, s)
               \/ s # "completed" /\ CasWatchdogTerminal(k, x, s)
        PROVE G
    BY <1>1
  <1>2. ASSUME SupersedeInstallationRequests \/ \E r \in Repo : SupersedeRepositoryRequests(r)
        PROVE G
    BY <1>2 DEF SupersedeInstallationRequests, SupersedeRepositoryRequests
  <1>3. ASSUME NEW j \in Job, NEW o \in Owner,
               LeaseOutboxJob(j, o, epoch) \/ CompleteOutboxJob(j, o) \/ RescheduleOutboxJob(j, o)
        PROVE G
    BY <1>3 DEF CompleteOutboxJob, RescheduleOutboxJob
  <1>4. QED
    BY <1>1, <1>2, <1>3 DEF StoreNext

\* The invariant is inductive.
LEMMA StoreInvStep == StoreInv /\ [StoreNext]_storeVars => StoreInv'
  <1> SUFFICES ASSUME StoreInv, [StoreNext]_storeVars PROVE StoreInv'
    OBVIOUS
  <1> DEFINE G == RequestInv' /\ JobCoverage' /\ LeaseOwned'
  <1>0. StoreTypeOK /\ StoreTypeOK' /\ LeaseOwned
    BY StoreTypeStep DEF StoreInv
  <1>1. CASE StoreNext
    <2>1. ASSUME NEW k \in Key, AdmitReviewRequestWithOutbox(k) PROVE G
      BY <2>1, AdmitKeeps, EnqueueLeases DEF AdmitReviewRequestWithOutbox
    <2>2. ASSUME NEW k \in Key, CasMarkFailedDispatch(k) PROVE G
      <3>1. LeaseOwned'
        BY <2>2, <1>0 DEF CasMarkFailedDispatch, LeaseOwned, jobVars
      <3>2. CASE status[k] \in Retryable
        BY <2>2, <3>1, <3>2, StatusKeeps DEF CasMarkFailedDispatch
      <3>3. CASE status[k] \notin Retryable
        BY <2>2, <3>1, <3>3, JobStepKeeps DEF CasMarkFailedDispatch, requestVars, jobVars
      <3>4. QED
        BY <3>2, <3>3
    <2>3. ASSUME NEW k \in Key, NEW x \in Run, AuthorizeReviewRequestWithOutbox(k, x) PROVE G
      BY <2>3, AuthorizeKeeps, EnqueueLeases DEF AuthorizeReviewRequestWithOutbox
    <2>4. ASSUME NEW k \in Key, NEW x \in Run, ClaimWorkflowRunOrEnqueueOrphan(k, x) PROVE G
      <3>1. LeaseOwned'
        BY <2>4, <1>0, EnqueueLeases DEF ClaimWorkflowRunOrEnqueueOrphan, LeaseOwned, jobVars
      <3>2. QED
        BY <2>4, <3>1, BindKeeps
    <2>5. ASSUME NEW k \in Key, NEW x \in Run, CasClaimExecutor(k, x) PROVE G
      <3>1. LeaseOwned'
        BY <2>5, <1>0 DEF CasClaimExecutor, LeaseOwned, jobVars
      <3>2. QED
        BY <2>5, <3>1, StatusKeeps DEF CasClaimExecutor, CanClaimExecutor
    <2>6. ASSUME NEW k \in Key, NEW x \in Run, CasMarkStarted(k, x) PROVE G
      <3>1. LeaseOwned'
        BY <2>6, <1>0 DEF CasMarkStarted, LeaseOwned, jobVars
      <3>2. QED
        BY <2>6, <3>1, StartKeeps
    <2>7. ASSUME NEW k \in Key, NEW x \in Run, NEW s \in {"failed", "cancelled"}, NEW c \in BOOLEAN,
                 CasAbortRequest(k, x, c, s)
          PROVE G
      <3>1. LeaseOwned'
        BY <2>7, <1>0 DEF CasAbortRequest, LeaseOwned, jobVars
      <3>2. status[k] \in {"claimed", "started"} /\ receipt[k] = "none"
        BY <2>7, <1>0 DEF CasAbortRequest, CanAbort, StoreInv, ReceiptPairing, StoreTypeOK
      <3>3. QED
        BY <2>7, <3>1, <3>2, StatusKeeps DEF CasAbortRequest
    <2>8. ASSUME NEW k \in Key, NEW x \in Run, NEW s \in Outcome, CasCommitTerminalWithReceipt(k, x, s)
          PROVE G
      <3>1. LeaseOwned'
        BY <2>8, <1>0 DEF CasCommitTerminalWithReceipt, LeaseOwned, jobVars
      <3>2. QED
        BY <2>8, <3>1, CommitKeeps
    <2>9. ASSUME NEW k \in Key, NEW x \in Run, NEW s \in {"failed", "cancelled"}, CasWatchdogTerminal(k, x, s)
          PROVE G
      <3>1. LeaseOwned'
        BY <2>9, <1>0 DEF CasWatchdogTerminal, LeaseOwned, jobVars
      <3>2. QED
        BY <2>9, <3>1, StatusKeeps DEF CasWatchdogTerminal, StaleCandidate
    <2>10. ASSUME NEW S \in SUBSET Key, Supersede(S), UNCHANGED <<receipt, instVars, gateVars>> PROVE G
      BY <2>10, SupersedeKeeps, EnqueueLeases DEF Supersede
    <2>11. ASSUME RepairOutboxJobs(epoch) PROVE G
      BY <2>11, RepairKeeps, EnqueueLeases DEF RepairOutboxJobs
    <2>12. ASSUME NEW j \in Job, ExpireLease(j) PROVE G
      <3>1. LeaseOwned'
        BY <2>12, <1>0 DEF ExpireLease, LeaseOwned, StoreTypeOK
      <3>2. QED
        BY <2>12, <3>1, JobStepKeeps DEF ExpireLease
    <2>13. ASSUME NEW j \in Job, NEW o \in Owner, LeaseOutboxJob(j, o, epoch) PROVE G
      <3>1. LeaseOwned'
        BY <2>13, <1>0, RowAssumption DEF LeaseOutboxJob, LeaseOwned, StoreTypeOK
      <3>2. QED
        BY <2>13, <3>1, <1>0, JobStepKeeps DEF LeaseOutboxJob, StoreTypeOK
    <2>14. ASSUME NEW j \in Job, NEW o \in Owner, NEW s \in {"pending", "completed"}, Release(j, o, s) PROVE G
      <3>1. LeaseOwned'
        BY <2>14, <1>0, RowAssumption DEF Release, HoldsLease, LeaseOwned, StoreTypeOK, jobVars
      <3>2. \A i \in Job : jobStatus[i] # "absent" => jobStatus'[i] # "absent"
        BY <2>14, <1>0 DEF Release, StoreTypeOK, jobVars
      <3>3. QED
        BY <2>14, <3>1, <3>2, JobStepKeeps DEF Release
    <2>15. ASSUME NEW st \in {"absent", "active", "suspended"}, NEW sel \in {"all", "selected"},
                  NEW repos \in SUBSET Repo, WriteInstallation(st, sel, repos)
           PROVE G
      <3>1. LeaseOwned'
        BY <2>15, <1>0 DEF WriteInstallation, LeaseOwned, jobVars
      <3>2. QED
        BY <2>15, <3>1, JobStepKeeps DEF WriteInstallation, jobVars
    <2>16. ASSUME NEW p \in BOOLEAN, SetGate(p) PROVE G
      <3>1. LeaseOwned'
        BY <2>16, <1>0 DEF SetGate, LeaseOwned, jobVars
      <3>2. QED
        BY <2>16, <3>1, JobStepKeeps DEF SetGate, jobVars
    <2> HIDE DEF G
    <2>17. G
      BY <1>1, <2>1, <2>2, <2>3, <2>4, <2>5, <2>6, <2>7, <2>8, <2>9, <2>10, <2>11, <2>12,
         <2>13, <2>14, <2>15, <2>16, StoreCases
    <2>18. QED
      BY <2>17, <1>0, StoreInvParts DEF G, StoreInv, RequestInv
  <1>2. CASE UNCHANGED storeVars
    BY <1>2, <1>0 DEF storeVars, requestVars, jobVars, instVars, gateVars, StoreInv,
       IdsOrderAdmissions, RunBinding, SupersessionFence, ReceiptPairing, AuthorizationOrder,
       JobCoverage, LeaseOwned, Older
  <1>3. QED
    BY <1>1, <1>2

\* The store's invariant, and with it the fence between the reviews of a pull
\* request and the pairing of receipts, for every client.
THEOREM StoreInvariant == StoreSpec => []StoreInv
  BY StoreInvInit, StoreInvStep, PTL DEF StoreSpec

\* Once a request was authorized no older one of its pull request is open.
THEOREM FenceHolds == StoreSpec => []SupersessionFence
  <1>1. StoreInv => SupersessionFence
    BY DEF StoreInv
  <1>2. QED
    BY <1>1, StoreInvariant, PTL

-----------------------------------------------------------------------------
(* Nothing is undone.                                                      *)

\* No statement undoes what is permanent.
LEMMA PermanentStep == StoreInv /\ [StoreNext]_storeVars => [Permanent]_storeVars
  <1> SUFFICES ASSUME StoreInv, StoreNext PROVE Permanent
    BY DEF storeVars
  <1> USE DEF StoreInv, StoreTypeOK
  <1>1. ASSUME NEW k \in Key, AdmitReviewRequestWithOutbox(k) PROVE Permanent
    BY <1>1 DEF AdmitReviewRequestWithOutbox, Enqueue, Permanent, IdsOrderAdmissions, gateVars
  <1>2. ASSUME NEW k \in Key, CasMarkFailedDispatch(k) PROVE Permanent
    BY <1>2 DEF CasMarkFailedDispatch, SetStatus, Permanent, gateVars, jobVars
  <1>3. ASSUME NEW k \in Key, NEW x \in Run, AuthorizeReviewRequestWithOutbox(k, x) PROVE Permanent
    BY <1>3 DEF AuthorizeReviewRequestWithOutbox, Enqueue, Permanent, gateVars
  <1>4. ASSUME NEW k \in Key, NEW x \in Run, ClaimWorkflowRunOrEnqueueOrphan(k, x) PROVE Permanent
    BY <1>4 DEF ClaimWorkflowRunOrEnqueueOrphan, CanBindRun, SetStatus, Enqueue, Permanent, gateVars, jobVars
  <1>5. ASSUME NEW k \in Key, NEW x \in Run, CasClaimExecutor(k, x) PROVE Permanent
    BY <1>5 DEF CasClaimExecutor, CanClaimExecutor, SetStatus, Permanent, gateVars, jobVars
  <1>6. ASSUME NEW k \in Key, NEW x \in Run, CasMarkStarted(k, x) PROVE Permanent
    BY <1>6 DEF CasMarkStarted, CanMarkStarted, SetStatus, Permanent, gateVars, jobVars
  <1>7. ASSUME NEW k \in Key, NEW x \in Run, NEW s \in {"failed", "cancelled"}, NEW c \in BOOLEAN,
               CasAbortRequest(k, x, c, s)
        PROVE Permanent
    BY <1>7 DEF CasAbortRequest, CanAbort, SetStatus, Permanent, gateVars, jobVars
  <1>8. ASSUME NEW k \in Key, NEW x \in Run, NEW s \in Outcome, CasCommitTerminalWithReceipt(k, x, s)
        PROVE Permanent
    BY <1>8 DEF CasCommitTerminalWithReceipt, CanCommitTerminal, SetStatus, Permanent, gateVars, jobVars
  <1>9. ASSUME NEW k \in Key, NEW x \in Run, NEW s \in {"failed", "cancelled"}, CasWatchdogTerminal(k, x, s)
        PROVE Permanent
    BY <1>9 DEF CasWatchdogTerminal, StaleCandidate, SetStatus, Permanent, gateVars, jobVars
  <1>10. ASSUME NEW S \in SUBSET Key, Supersede(S), UNCHANGED <<receipt, instVars, gateVars>> PROVE Permanent
    BY <1>10 DEF Supersede, Enqueue, Permanent, gateVars
  <1>11. ASSUME RepairOutboxJobs(epoch) PROVE Permanent
    BY <1>11 DEF RepairOutboxJobs, Enqueue, Permanent, gateVars
  <1>12. ASSUME NEW j \in Job, ExpireLease(j) PROVE Permanent
    BY <1>12 DEF ExpireLease, Permanent, requestVars, gateVars
  <1>13. ASSUME NEW j \in Job, NEW o \in Owner, LeaseOutboxJob(j, o, epoch) PROVE Permanent
    BY <1>13 DEF LeaseOutboxJob, Leasable, Permanent, requestVars, gateVars
  <1>14. ASSUME NEW j \in Job, NEW o \in Owner, NEW s \in {"pending", "completed"}, Release(j, o, s)
         PROVE Permanent
    BY <1>14 DEF Release, HoldsLease, Permanent, requestVars, jobVars, gateVars
  <1>15. ASSUME NEW st \in {"absent", "active", "suspended"}, NEW sel \in {"all", "selected"},
                NEW repos \in SUBSET Repo, WriteInstallation(st, sel, repos)
         PROVE Permanent
    BY <1>15 DEF WriteInstallation, Permanent, requestVars, jobVars, gateVars
  <1>16. ASSUME NEW p \in BOOLEAN, SetGate(p) PROVE Permanent
    BY <1>16 DEF SetGate, Permanent, requestVars, jobVars
  <1>17. QED
    BY <1>1, <1>2, <1>3, <1>4, <1>5, <1>6, <1>7, <1>8, <1>9, <1>10, <1>11, <1>12,
       <1>13, <1>14, <1>15, <1>16, StoreCases

\* No statement, run by anybody at any time, undoes an end, a binding, an
\* authorization, a receipt, a completed job or an id.
THEOREM NothingIsUndone == StoreSpec => NothingUndone
  BY StoreInvariant, PermanentStep, PTL DEF StoreSpec, NothingUndone

-----------------------------------------------------------------------------
(* The store implements the ledger.                                        *)

\* The empty tables are the empty ledger.
LEMMA LedgerInit == StoreInit => Ledger!Init
  BY DEF StoreInit, NoRequests, Ledger!Init

\* What the ledger's variables stand for.
Verdict    == [k \in Key |-> IF status[k] \in Terminal THEN status[k] ELSE "open"]
Authorized == {k \in Key : authorizedAt[k]}
Reported   == {k \in Key : receipt[k] # "none"}

LedgerUnchanged == UNCHANGED <<reqId, boundRun, Authorized, Verdict, Reported>>

\* What the ledger sees is a function of four columns.
LEMMA LedgerStutter == LedgerUnchanged => UNCHANGED Ledger!ledgerVars
  BY DEF LedgerUnchanged, Ledger!ledgerVars, Authorized, Verdict, Reported

\* A status that was open and stays open is nothing to the ledger.
LEMMA OpenStatusStep ==
  ASSUME StoreInv, NEW k \in Key, NEW s, s \notin Terminal, status[k] \notin Terminal,
         status' = [status EXCEPT ![k] = s], UNCHANGED <<reqId, boundRun, authorizedAt, receipt>>
  PROVE  LedgerUnchanged
  BY DEF LedgerUnchanged, Authorized, Verdict, Reported, StoreInv, StoreTypeOK

\* Statements on other tables are nothing to the ledger.
LEMMA UntouchedRequests ==
  ASSUME UNCHANGED <<requestVars, receipt>>
  PROVE  LedgerUnchanged
  BY DEF LedgerUnchanged, Authorized, Verdict, Reported, requestVars

\* AUTOINCREMENT gives the new request the highest rank.
LEMMA LedgerAdmit ==
  ASSUME StoreInv, NEW k \in Key, AdmitReviewRequestWithOutbox(k)
  PROVE  Ledger!Admit(k) \/ LedgerUnchanged
  <1>1. CASE status[k] = "absent"
    <2>1. UNCHANGED <<boundRun, Authorized, Verdict, Reported>>
      BY <1>1 DEF AdmitReviewRequestWithOutbox, Authorized, Verdict, Reported, StoreInv, StoreTypeOK
    <2>2. /\ reqId[k] = 0
          /\ reqId' = [reqId EXCEPT ![k] = lastId + 1]
          /\ reqId'[k] \in Nat /\ \A o \in Key : reqId[o] < reqId'[k]
      BY <1>1 DEF AdmitReviewRequestWithOutbox, StoreInv, StoreTypeOK, IdsOrderAdmissions
    <2>3. reqId' = [reqId EXCEPT ![k] = reqId'[k]]
      BY <2>2 DEF StoreInv, StoreTypeOK
    <2>4. QED
      BY <2>1, <2>2, <2>3 DEF Ledger!Admit, Authorized, Verdict, Reported
  <1>2. CASE status[k] # "absent"
    BY <1>2, UntouchedRequests DEF AdmitReviewRequestWithOutbox, requestVars
  <1>3. QED
    BY <1>1, <1>2

\* Binding a run assigns an executor that is new.
LEMMA LedgerAssign ==
  ASSUME StoreInv, NEW k \in Key, NEW x \in Run, ClaimWorkflowRunOrEnqueueOrphan(k, x)
  PROVE  Ledger!Assign(k, x) \/ LedgerUnchanged
  <1>1. CASE CanBindRun(k)
    <2>1. UNCHANGED <<reqId, Authorized, Verdict, Reported>>
      BY <1>1 DEF ClaimWorkflowRunOrEnqueueOrphan, CanBindRun, SetStatus, Authorized, Verdict, Reported, StoreInv, StoreTypeOK
    <2>2. \A o \in Key : boundRun[o] # x
      BY <1>1, RowAssumption DEF ClaimWorkflowRunOrEnqueueOrphan, RunsOf, CanBindRun
    <2>3. reqId[k] # 0 /\ Verdict[k] = "open" /\ boundRun[k] = None
          /\ boundRun' = [boundRun EXCEPT ![k] = x]
      BY <1>1 DEF ClaimWorkflowRunOrEnqueueOrphan, CanBindRun, Verdict, StoreInv, IdsOrderAdmissions
    <2>4. QED
      BY <2>1, <2>2, <2>3 DEF Ledger!Assign, Authorized, Verdict, Reported
  <1>2. CASE ~CanBindRun(k)
    BY <1>2, UntouchedRequests DEF ClaimWorkflowRunOrEnqueueOrphan, requestVars
  <1>3. QED
    BY <1>1, <1>2

\* The fence is what makes the ledger's guard hold: a request below an
\* authorized one is terminal, and so cannot be claimed.
LEMMA LedgerAuthorize ==
  ASSUME StoreInv, NEW k \in Key, NEW x \in Run, AuthorizeReviewRequestWithOutbox(k, x)
  PROVE  Ledger!Authorize(k)
  <1> USE DEF StoreInv, StoreTypeOK
  <1> DEFINE hit == {o \in Older(k) : status[o] \in Supersedable}
  <1>1. status[k] = "claimed" /\ boundRun[k] # None /\ ~authorizedAt[k]
    BY RowAssumption DEF AuthorizeReviewRequestWithOutbox, CanAuthorize
  <1>2. \A o \in Authorized : ~Ledger!Before(k, o)
    BY <1>1 DEF Ledger!Before, Authorized, SupersessionFence, Older, IdsOrderAdmissions
  <1>3. Authorized' = Authorized \cup {k}
    BY DEF AuthorizeReviewRequestWithOutbox, Authorized
  <1>4. \A o \in Key : o \in hit <=> Ledger!Before(o, k) /\ Verdict[o] = "open"
    BY DEF Ledger!Before, Verdict, Older, IdsOrderAdmissions
  <1>5. status' = [o \in Key |-> IF o \in hit THEN "superseded" ELSE status[o]]
    BY DEF AuthorizeReviewRequestWithOutbox
  <1>6. Verdict' = [o \in Key |-> IF o \in hit THEN "superseded" ELSE Verdict[o]]
    BY <1>5 DEF Verdict
  <1>7. Verdict' = [o \in Key |-> IF Ledger!Before(o, k) /\ Verdict[o] = "open"
                                   THEN "superseded" ELSE Verdict[o]]
    <2> HIDE DEF hit, Verdict
    <2> QED BY <1>4, <1>6
  <1>8. Verdict[k] = "open" /\ k \notin Authorized
    BY <1>1 DEF Verdict, Authorized
  <1>9. UNCHANGED <<reqId, boundRun, Reported>>
    BY DEF AuthorizeReviewRequestWithOutbox, Reported
  <1>10. QED
    BY <1>1, <1>2, <1>3, <1>7, <1>8, <1>9 DEF Ledger!Authorize, Authorized, Verdict, Reported

\* A signed terminal callback is a report.
LEMMA LedgerReport ==
  ASSUME StoreInv, NEW k \in Key, NEW x \in Run, NEW s \in Outcome, CasCommitTerminalWithReceipt(k, x, s)
  PROVE  Ledger!Report(k, s)
  <1> USE DEF StoreInv, StoreTypeOK, CasCommitTerminalWithReceipt, CanCommitTerminal, SetStatus
  <1>1. k \in Authorized /\ Verdict[k] = "open"
    BY DEF Authorized, Verdict
  <1>2. Verdict' = [Verdict EXCEPT ![k] = s]
    BY DEF Verdict
  <1>3. Reported' = Reported \cup {k}
    BY DEF Reported
  <1>4. UNCHANGED <<reqId, boundRun, Authorized>>
    BY DEF Authorized
  <1>5. QED
    BY <1>1, <1>2, <1>3, <1>4 DEF Ledger!Report, Authorized, Verdict, Reported

\* Aborts and the watchdog.
LEMMA LedgerGiveUp ==
  ASSUME StoreInv, NEW k \in Key, NEW s \in {"failed", "cancelled"},
         status[k] \in Active, SetStatus(k, s),
         UNCHANGED <<boundRun, checkBound, authorizedAt, receipt>>
  PROVE  Ledger!GiveUp(k, s)
  <1> USE DEF StoreInv, StoreTypeOK, SetStatus
  <1>1. boundRun[k] # None /\ Verdict[k] = "open"
    BY DEF Verdict, RunBinding
  <1>2. Verdict' = [Verdict EXCEPT ![k] = s]
    BY DEF Verdict
  <1>3. UNCHANGED <<reqId, boundRun, Authorized, Reported>>
    BY DEF Authorized, Reported
  <1>4. QED
    BY <1>1, <1>2, <1>3 DEF Ledger!GiveUp, Authorized, Verdict, Reported

\* Supersession by an event or by repair.
LEMMA LedgerDrop ==
  ASSUME StoreInv, NEW T \in SUBSET Key, \A k \in T : status[k] \in Supersedable,
         status' = [k \in Key |-> IF k \in T THEN "superseded" ELSE status[k]],
         UNCHANGED <<reqId, boundRun, authorizedAt, receipt>>
  PROVE  Ledger!Drop(T)
  <1> USE DEF StoreInv, StoreTypeOK
  <1>1. \A k \in T : reqId[k] # 0 /\ Verdict[k] = "open"
    BY DEF Verdict, IdsOrderAdmissions
  <1>2. Verdict' = [k \in Key |-> IF k \in T THEN "superseded" ELSE Verdict[k]]
    BY DEF Verdict
  <1>3. UNCHANGED <<reqId, boundRun, Authorized, Reported>>
    BY DEF Authorized, Reported
  <1>4. QED
    BY <1>1, <1>2, <1>3 DEF Ledger!Drop, Authorized, Verdict, Reported

\* Every statement is a step of the ledger or changes nothing it sees.
LEMMA LedgerStep == StoreInv /\ [StoreNext]_storeVars => [Ledger!Next]_Ledger!ledgerVars
  <1> SUFFICES ASSUME StoreInv, [StoreNext]_storeVars PROVE [Ledger!Next]_Ledger!ledgerVars
    OBVIOUS
  <1> DEFINE G == Ledger!Next \/ LedgerUnchanged
  <1> USE DEF requestVars, jobVars
  <1>1. CASE StoreNext
    <2>1. ASSUME NEW k \in Key, AdmitReviewRequestWithOutbox(k) PROVE G
      BY <2>1, LedgerAdmit DEF Ledger!Next
    <2>2. ASSUME NEW k \in Key, CasMarkFailedDispatch(k) PROVE G
      BY <2>2, OpenStatusStep, UntouchedRequests DEF CasMarkFailedDispatch, SetStatus
    <2>3. ASSUME NEW k \in Key, NEW x \in Run, AuthorizeReviewRequestWithOutbox(k, x) PROVE G
      BY <2>3, LedgerAuthorize DEF Ledger!Next
    <2>4. ASSUME NEW k \in Key, NEW x \in Run, ClaimWorkflowRunOrEnqueueOrphan(k, x) PROVE G
      BY <2>4, LedgerAssign DEF Ledger!Next
    <2>5. ASSUME NEW k \in Key, NEW x \in Run, CasClaimExecutor(k, x) PROVE G
      BY <2>5, OpenStatusStep DEF CasClaimExecutor, CanClaimExecutor, SetStatus
    <2>6. ASSUME NEW k \in Key, NEW x \in Run, CasMarkStarted(k, x) PROVE G
      BY <2>6, OpenStatusStep DEF CasMarkStarted, CanMarkStarted, SetStatus
    <2>7. ASSUME NEW k \in Key, NEW x \in Run, NEW s \in {"failed", "cancelled"}, NEW c \in BOOLEAN,
                 CasAbortRequest(k, x, c, s)
          PROVE G
      <3>1. Ledger!GiveUp(k, s)
        BY <2>7, LedgerGiveUp DEF CasAbortRequest, CanAbort
      <3>2. QED
        BY <3>1 DEF Ledger!Next
    <2>8. ASSUME NEW k \in Key, NEW x \in Run, NEW s \in Outcome, CasCommitTerminalWithReceipt(k, x, s)
          PROVE G
      BY <2>8, LedgerReport DEF Ledger!Next
    <2>9. ASSUME NEW k \in Key, NEW x \in Run, NEW s \in {"failed", "cancelled"}, CasWatchdogTerminal(k, x, s)
          PROVE G
      <3>1. Ledger!GiveUp(k, s)
        BY <2>9, LedgerGiveUp DEF CasWatchdogTerminal, StaleCandidate
      <3>2. QED
        BY <3>1 DEF Ledger!Next
    <2>10. ASSUME NEW S \in SUBSET Key, Supersede(S), UNCHANGED <<receipt, instVars, gateVars>> PROVE G
      <3>1. PICK T \in SUBSET Key : T = {k \in S : status[k] \in Supersedable}
        OBVIOUS
      <3>2. \A k \in T : status[k] \in Supersedable
        BY <3>1
      <3>3. /\ status' = [k \in Key |-> IF k \in T THEN "superseded" ELSE status[k]]
            /\ UNCHANGED <<reqId, boundRun, authorizedAt, receipt>>
        BY <2>10, <3>1 DEF Supersede
      <3>4. Ledger!Drop(T)
        BY <3>2, <3>3, LedgerDrop
      <3>5. QED
        BY <3>4 DEF Ledger!Next
    <2>11. ASSUME RepairOutboxJobs(epoch) PROVE G
      <3>1. PICK T \in SUBSET Key :
              T = {k \in Key : status[k] \in Supersedable /\ ~RepoAuthorized(KeyRepo(k))}
        OBVIOUS
      <3>2. \A k \in T : status[k] \in Supersedable
        BY <3>1
      <3>3. /\ status' = [k \in Key |-> IF k \in T THEN "superseded" ELSE status[k]]
            /\ UNCHANGED <<reqId, boundRun, authorizedAt, receipt>>
        BY <2>11, <3>1 DEF RepairOutboxJobs
      <3>4. Ledger!Drop(T)
        BY <3>2, <3>3, LedgerDrop
      <3>5. QED
        BY <3>4 DEF Ledger!Next
    <2>12. ASSUME NEW j \in Job, ExpireLease(j) PROVE G
      BY <2>12, UntouchedRequests DEF ExpireLease
    <2>13. ASSUME NEW j \in Job, NEW o \in Owner, LeaseOutboxJob(j, o, epoch) PROVE G
      BY <2>13, UntouchedRequests DEF LeaseOutboxJob
    <2>14. ASSUME NEW j \in Job, NEW o \in Owner, NEW s \in {"pending", "completed"}, Release(j, o, s) PROVE G
      BY <2>14, UntouchedRequests DEF Release
    <2>15. ASSUME NEW st \in {"absent", "active", "suspended"}, NEW sel \in {"all", "selected"},
                  NEW repos \in SUBSET Repo, WriteInstallation(st, sel, repos)
           PROVE G
      BY <2>15, UntouchedRequests DEF WriteInstallation
    <2>16. ASSUME NEW p \in BOOLEAN, SetGate(p) PROVE G
      BY <2>16, UntouchedRequests DEF SetGate
    <2> HIDE DEF G
    <2>17. G
      BY <1>1, <2>1, <2>2, <2>3, <2>4, <2>5, <2>6, <2>7, <2>8, <2>9, <2>10, <2>11, <2>12,
         <2>13, <2>14, <2>15, <2>16, StoreCases
    <2>18. QED
      BY <2>17, LedgerStutter DEF G
  <1>2. CASE UNCHANGED storeVars
    BY <1>2, UntouchedRequests, LedgerStutter DEF storeVars
  <1>3. QED
    BY <1>1, <1>2

\* The store, run by any client, implements the ledger: what the ledger promises
\* about the reviews of a pull request holds of the tables.
THEOREM StoreImplementsLedger == StoreSpec => KeepsLedger
  BY LedgerInit, LedgerStep, StoreInvariant, PTL DEF StoreSpec, KeepsLedger, Ledger!Spec
=============================================================================
