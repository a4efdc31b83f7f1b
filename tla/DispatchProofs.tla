--------------------------- MODULE DispatchProofs ---------------------------
(***************************************************************************)
(* Overlapping outbox invocations: whatever is killed, lost or slower than *)
(* its lease, a request that waits for a run keeps a job that will be      *)
(* tried, only the holder of a lease ends it, and no GitHub call outlives  *)
(* the cutover that it began before.                                       *)
(***************************************************************************)
EXTENDS DispatchSystem, ReviewStoreProofs, FiniteSetTheorems

Waiting == Retryable \cup {"absent"}

\* A dispatch job names a request that was admitted.
JobHasRow == \A k \in Key : jobStatus[k] # "absent" => status[k] # "absent"

\* What a statement does to the rows: none disappears, none returns to the
\* queue it has left.
RowMoves ==
  /\ \A k \in Key : /\ status[k] # "absent" => status'[k] # "absent"
                    /\ status[k] \notin Waiting => status'[k] \notin Waiting
  /\ JobHasRow'

\* What every statement but the release of a job does to the jobs.
JobsRemain ==
  \A j \in Job : /\ jobStatus[j] = "leased" => jobStatus'[j] = "leased"
                 /\ jobStatus'[j] = "completed" => jobStatus[j] = "completed"

-----------------------------------------------------------------------------
(* The statements.                                                         *)

LEMMA RowsKept ==
  ASSUME StoreTypeOK, JobHasRow, UNCHANGED requestVars,
         \A k \in Key : jobStatus'[k] # "absent" => jobStatus[k] # "absent"
  PROVE  RowMoves
  BY DEF RowMoves, JobHasRow, requestVars

\* Jobs inserted for runs name no request, and the others for an admitted one.
LEMMA RowsEnqueue ==
  ASSUME StoreTypeOK, JobHasRow, NEW J, Enqueue(J),
         \A k \in Key : /\ k \in J => status'[k] # "absent"
                        /\ status[k] # "absent" => status'[k] # "absent"
                        /\ status[k] \notin Waiting => status'[k] \notin Waiting
  PROVE  RowMoves
  BY DEF Enqueue, RowMoves, JobHasRow, StoreTypeOK, Job

LEMMA NoKeyIsRun ==
  ASSUME StoreTypeOK, NEW S \in SUBSET Key, NEW k \in Key
  PROVE  k \notin RunsOf(S)
  BY RowAssumption DEF RunsOf, StoreTypeOK

LEMMA RowsStatus ==
  ASSUME StoreTypeOK, JobHasRow, NEW k \in Key, NEW s, SetStatus(k, s), UNCHANGED jobVars,
         s # "absent", status[k] \notin Waiting => s \notin Waiting
  PROVE  RowMoves
  BY DEF RowMoves, JobHasRow, SetStatus, jobVars, StoreTypeOK, Waiting

LEMMA RowStep == StoreInv /\ JobHasRow /\ [StoreNext]_storeVars => RowMoves
  <1> SUFFICES ASSUME StoreInv, JobHasRow, [StoreNext]_storeVars PROVE RowMoves
    OBVIOUS
  <1>0. StoreTypeOK
    BY DEF StoreInv
  <1> USE DEF Waiting, Retryable, Active, Supersedable, Outcome, Terminal
  <1>1. ASSUME NEW k \in Key, AdmitReviewRequestWithOutbox(k) PROVE RowMoves
    BY <1>0, <1>1, RowsEnqueue DEF AdmitReviewRequestWithOutbox, StoreTypeOK
  <1>2. ASSUME NEW k \in Key, CasMarkFailedDispatch(k) PROVE RowMoves
    <2>1. CASE status[k] \in Retryable
      BY <1>0, <1>2, <2>1, RowsStatus DEF CasMarkFailedDispatch
    <2>2. CASE status[k] \notin Retryable
      BY <1>0, <1>2, <2>2, RowsKept DEF CasMarkFailedDispatch, requestVars, jobVars
    <2>3. QED
      BY <2>1, <2>2
  <1>3. ASSUME NEW k \in Key, NEW x \in Run, AuthorizeReviewRequestWithOutbox(k, x) PROVE RowMoves
    <2> DEFINE hit == {o \in Older(k) : status[o] \in Supersedable}
    <2>1. hit \in SUBSET Key
      BY DEF Older
    <2>2. \A o \in Key : o \notin RunsOf(hit)
      BY <1>0, <2>1, NoKeyIsRun
    <2>3. Enqueue(RunsOf(hit)) /\ status' = [o \in Key |-> IF o \in hit THEN "superseded" ELSE status[o]]
      BY <1>3 DEF AuthorizeReviewRequestWithOutbox
    <2> HIDE DEF hit
    <2>4. QED
      BY <1>0, <2>2, <2>3, RowsEnqueue
  <1>4. ASSUME NEW k \in Key, NEW x \in Run, ClaimWorkflowRunOrEnqueueOrphan(k, x) PROVE RowMoves
    <2>1. CASE CanBindRun(k)
      BY <1>0, <1>4, <2>1, RowsStatus DEF ClaimWorkflowRunOrEnqueueOrphan, CanBindRun
    <2>2. CASE ~CanBindRun(k)
      <3>1. status' = status /\ Enqueue(IF boundRun[k] = x THEN {} ELSE {x})
        BY <1>4, <2>2 DEF ClaimWorkflowRunOrEnqueueOrphan
      <3>2. \A o \in Key : o # x
        BY RowAssumption
      <3>3. QED
        BY <1>0, <3>1, <3>2, RowsEnqueue
    <2>3. QED
      BY <2>1, <2>2
  <1>5. ASSUME NEW k \in Key, NEW x \in Run, CasClaimExecutor(k, x) PROVE RowMoves
    BY <1>0, <1>5, RowsStatus DEF CasClaimExecutor, CanClaimExecutor
  <1>6. ASSUME NEW k \in Key, NEW x \in Run, CasMarkStarted(k, x) PROVE RowMoves
    BY <1>0, <1>6, RowsStatus DEF CasMarkStarted, CanMarkStarted
  <1>7. ASSUME NEW k \in Key, NEW x \in Run, NEW s \in {"failed", "cancelled"}, NEW c \in BOOLEAN,
               CasAbortRequest(k, x, c, s)
        PROVE RowMoves
    BY <1>0, <1>7, RowsStatus DEF CasAbortRequest, CanAbort
  <1>8. ASSUME NEW k \in Key, NEW x \in Run, NEW s \in Outcome, CasCommitTerminalWithReceipt(k, x, s)
        PROVE RowMoves
    BY <1>0, <1>8, RowsStatus DEF CasCommitTerminalWithReceipt, CanCommitTerminal
  <1>9. ASSUME NEW k \in Key, NEW x \in Run, NEW s \in {"failed", "cancelled"}, CasWatchdogTerminal(k, x, s)
        PROVE RowMoves
    BY <1>0, <1>9, RowsStatus DEF CasWatchdogTerminal, StaleCandidate
  <1>10. ASSUME NEW S \in SUBSET Key, Supersede(S), UNCHANGED <<receipt, instVars, gateVars>> PROVE RowMoves
    <2> DEFINE hit == {k \in S : status[k] \in Supersedable}
    <2>1. \A o \in Key : o \notin RunsOf(hit)
      BY <1>0, NoKeyIsRun
    <2>2. Enqueue(RunsOf(hit)) /\ status' = [k \in Key |-> IF k \in hit THEN "superseded" ELSE status[k]]
      BY <1>10 DEF Supersede
    <2> HIDE DEF hit
    <2>3. QED
      BY <1>0, <2>1, <2>2, RowsEnqueue
  <1>11. ASSUME RepairOutboxJobs(epoch) PROVE RowMoves
    <2> DEFINE lost == {k \in Key : status[k] \in Supersedable /\ ~RepoAuthorized(KeyRepo(k))}
               missing == {k \in Key \ lost : CanBindRun(k) /\ RepoAuthorized(KeyRepo(k))}
               stopped == lost \cup {k \in Key : status[k] = "superseded"}
    <2>1. \A o \in Key : o \notin RunsOf(stopped)
      BY <1>0, NoKeyIsRun
    <2>2. Enqueue(missing \cup RunsOf(stopped))
          /\ status' = [k \in Key |-> IF k \in lost THEN "superseded" ELSE status[k]]
      BY <1>11 DEF RepairOutboxJobs
    <2>3. \A o \in Key : o \in missing => status[o] # "absent"
      BY DEF CanBindRun
    <2> HIDE DEF lost, missing, stopped
    <2>4. QED
      BY <1>0, <2>1, <2>2, <2>3, RowsEnqueue
  <1>12. ASSUME NEW j \in Job, ExpireLease(j) PROVE RowMoves
    BY <1>0, <1>12, RowsKept DEF ExpireLease
  <1>13. ASSUME NEW j \in Job, NEW o \in Owner, LeaseOutboxJob(j, o, epoch) PROVE RowMoves
    BY <1>0, <1>13, RowsKept DEF LeaseOutboxJob, Leasable, StoreTypeOK, Job
  <1>14. ASSUME NEW j \in Job, NEW o \in Owner, NEW s \in {"pending", "completed"}, Release(j, o, s)
         PROVE RowMoves
    BY <1>0, <1>14, RowsKept DEF Release, HoldsLease, StoreTypeOK, jobVars, Job
  <1>15. ASSUME NEW st \in {"absent", "active", "suspended"}, NEW sel \in {"all", "selected"},
                NEW repos \in SUBSET Repo, WriteInstallation(st, sel, repos)
         PROVE RowMoves
    BY <1>0, <1>15, RowsKept DEF WriteInstallation, jobVars
  <1>16. ASSUME NEW p \in BOOLEAN, SetGate(p) PROVE RowMoves
    BY <1>0, <1>16, RowsKept DEF SetGate, jobVars
  <1>17. CASE UNCHANGED storeVars
    BY <1>0, <1>17, RowsKept DEF storeVars, jobVars
  <1>18. CASE StoreNext
    BY <1>18, <1>1, <1>2, <1>3, <1>4, <1>5, <1>6, <1>7, <1>8, <1>9, <1>10, <1>11, <1>12,
       <1>13, <1>14, <1>15, <1>16, StoreCases
  <1>19. QED
    BY <1>17, <1>18

-----------------------------------------------------------------------------
(* The invocations.                                                        *)

Place == {"idle", "repair", "select", "lease", "work", "load", "recheck", "post", "bind",
          "failed", "finish", "retry", "reject"}
InHand == {"load", "recheck", "post", "bind", "failed", "finish", "retry", "reject"}

OutTypes ==
  /\ wpc \in [Owner -> Place]
  /\ wEpoch = [w \in Owner |-> wEpoch[w]]
  /\ batch \in [Owner -> SUBSET Job]
  /\ todo \in [Owner -> SUBSET Job]
  /\ curJob \in [Owner -> Job \cup {None}]
  /\ curRun \in [Owner -> Run \cup {None}]

Hand == \A w \in Owner : /\ wpc[w] \in InHand => curJob[w] \in Job
                         /\ wpc[w] \in {"load", "failed", "bind"} => curJob[w] \in Key
                         /\ wpc[w] = "bind" => curRun[w] \in Run

Local == OutTypes /\ Hand

\* The jobs an invocation has to do with are those of admitted requests.
Known == \A w \in Owner, k \in Key :
           k \in batch[w] \cup todo[w] \/ curJob[w] = k => status[k] # "absent"

\* A dispatch job is finished when its request no longer waits.
Settled == \A w \in Owner : wpc[w] = "finish" /\ curJob[w] \in Key => status[curJob[w]] \notin Waiting

Tried == \A k \in Key : status[k] \in Retryable => jobStatus[k] # "completed"

DispatchInv == StoreInv /\ Local /\ JobHasRow /\ Known /\ Settled /\ Tried /\ CutoverFence

\* What an invocation does to its own variables, and to no other's.
LEMMA LocalStep ==
  ASSUME Local, NEW w \in Owner, OutboxStep(w)
  PROVE  Local'
  <1> USE DEF Local, OutTypes, Hand, InHand, Place, Goto, Locals
  <1>1. CASE ReadGate(w) \/ RepairStep(w) \/ LeaseDone(w) \/ EndInvocation(w)
    BY <1>1 DEF ReadGate, RepairStep, LeaseDone, EndInvocation
  <1>2. CASE SelectCandidates(w)
    BY <1>2 DEF SelectCandidates
  <1>3. ASSUME NEW j \in Job, LeaseRow(w, j) PROVE Local'
    BY <1>3 DEF LeaseRow
  <1>4. ASSUME NEW j \in Job, TakeJob(w, j) PROVE Local'
    BY <1>4 DEF TakeJob
  <1>5. CASE LoadRequest(w) \/ Misconfigured(w) \/ Recheck(w)
    BY <1>5 DEF LoadRequest, Misconfigured, Recheck
  <1>6. ASSUME NEW x \in Run, DispatchAnswered(w, x) PROVE Local'
    BY <1>6 DEF DispatchAnswered
  <1>7. CASE DispatchFails(w) \/ MarkFailed(w) \/ BindRun(w) \/ CancelPost(w) \/ CancelFails(w)
    BY <1>7 DEF DispatchFails, MarkFailed, BindRun, CancelPost, CancelFails
  <1>8. CASE FinishJob(w) \/ RetryJob(w) \/ RetrySwallowed(w)
    BY <1>8 DEF FinishJob, RetryJob, RetrySwallowed, JobDone
  <1>9. CASE StatementThrows(w)
    BY <1>9 DEF StatementThrows
  <1>10. CASE Crash(w)
    BY <1>10 DEF Crash
  <1>11. QED
    BY <1>1, <1>2, <1>3, <1>4, <1>5, <1>6, <1>7, <1>8, <1>9, <1>10 DEF OutboxStep

\* An invocation writes the tables through the statements.
LEMMA OutboxStatement ==
  ASSUME Local, NEW w \in Owner, OutboxStep(w)
  PROVE  [StoreNext]_storeVars
  <1> USE DEF Local, OutTypes, Hand, InHand
  <1>1. CASE UNCHANGED storeVars
    BY <1>1
  <1>2. CASE RepairStep(w)
    <2>1. CASE RepairOutboxJobs(wEpoch[w])
      <3>1. wEpoch[w] = epoch
        BY <2>1 DEF RepairOutboxJobs, GateOpen
      <3>2. QED
        BY <2>1, <3>1 DEF StoreNext
    <2>2. QED
      BY <1>2, <2>1 DEF RepairStep
  <1>3. ASSUME NEW j \in Job, LeaseRow(w, j) PROVE [StoreNext]_storeVars
    <2>1. CASE LeaseOutboxJob(j, w, wEpoch[w])
      <3>1. wEpoch[w] = epoch
        BY <2>1 DEF LeaseOutboxJob, GateOpen
      <3>2. QED
        BY <2>1, <3>1 DEF StoreNext
    <2>2. QED
      BY <1>3, <2>1 DEF LeaseRow
  <1>4. CASE MarkFailed(w)
    BY <1>4 DEF MarkFailed, StoreNext
  <1>5. CASE BindRun(w)
    BY <1>5 DEF BindRun, StoreNext
  <1>6. CASE FinishJob(w)
    BY <1>6 DEF FinishJob, StoreNext
  <1>7. CASE RetryJob(w)
    BY <1>7 DEF RetryJob, StoreNext
  <1>8. QED
    BY <1>1, <1>2, <1>3, <1>4, <1>5, <1>6, <1>7
       DEF OutboxStep, ReadGate, SelectCandidates, LeaseDone, TakeJob, EndInvocation, LoadRequest,
           Misconfigured, Recheck, DispatchAnswered, DispatchFails, CancelPost, CancelFails,
           RetrySwallowed, StatementThrows, Crash

\* So do all the others.
LEMMA OthersStatement ==
  ASSUME StoreTypeOK, Others
  PROVE  [StoreNext]_storeVars
  <1>1. ASSUME NEW k \in Key, Callbacks(k) PROVE StoreNext
    BY <1>1 DEF Callbacks, StoreNext, Outcome
  <1>2. ASSUME NEW k \in Key, Admissions(k) PROVE StoreNext
    BY <1>2 DEF Admissions, StoreNext
  <1>3. CASE Lifecycle
    BY <1>3, SystemAssumption DEF Lifecycle, StoreNext, StoreTypeOK
  <1>4. CASE Pause \/ Reopen
    BY <1>4 DEF Pause, Reopen, StoreNext
  <1>5. CASE \E j \in Job : ExpireLease(j)
    BY <1>5 DEF StoreNext
  <1>6. QED
    BY <1>1, <1>2, <1>3, <1>4, <1>5 DEF Others

LEMMA StatementStep == StoreTypeOK /\ Local /\ [Next]_vars => [StoreNext]_storeVars
  BY OutboxStatement, OthersStatement DEF Next, RunEnds, vars

\* The tables are written by the statements of db.mjs only.
LEMMA LocalKept == Local /\ [Next]_vars => Local'
  <1> SUFFICES ASSUME Local, [Next]_vars PROVE Local'
    OBVIOUS
  <1>1. CASE \E w \in Owner : OutboxStep(w)
    BY <1>1, LocalStep
  <1>2. CASE UNCHANGED outboxVars
    BY <1>2 DEF outboxVars, Local, OutTypes, Hand
  <1>3. QED
    BY <1>1, <1>2 DEF Next, Others, RunEnds, vars

-----------------------------------------------------------------------------
(* What a step does to the jobs and to the gate.                           *)

LEMMA RemainCases ==
  ASSUME StoreTypeOK,
         \/ UNCHANGED jobStatus
         \/ \E J : Enqueue(J)
         \/ \E j \in Job : ExpireLease(j)
         \/ \E e : \E j \in Job, o \in Owner : LeaseOutboxJob(j, o, e)
  PROVE  JobsRemain
  <1>1. CASE \E J : Enqueue(J)
    BY <1>1 DEF Enqueue, JobsRemain
  <1>2. ASSUME NEW j \in Job, NEW o \in Owner, NEW e, LeaseOutboxJob(j, o, e) PROVE JobsRemain
    BY <1>2 DEF LeaseOutboxJob, JobsRemain, StoreTypeOK
  <1>3. CASE UNCHANGED jobStatus
    BY <1>3 DEF JobsRemain
  <1>4. QED
    BY <1>1, <1>2, <1>3 DEF ExpireLease

\* Only FinishJob and RetryJob end a lease.
LEMMA OutboxRemains ==
  ASSUME StoreTypeOK, Local, NEW w \in Owner, OutboxStep(w)
  PROVE  JobsRemain \/ FinishJob(w) \/ RetryJob(w)
  <1>1. CASE UNCHANGED storeVars
    BY <1>1, RemainCases DEF storeVars, jobVars
  <1>2. CASE RepairStep(w)
    BY <1>1, <1>2, RemainCases DEF RepairStep, RepairOutboxJobs
  <1>3. ASSUME NEW j \in Job, LeaseRow(w, j) PROVE JobsRemain
    <2>1. CASE LeaseOutboxJob(j, w, wEpoch[w])
      BY <2>1, RemainCases
    <2>2. CASE UNCHANGED storeVars
      BY <2>2, RemainCases DEF storeVars, jobVars
    <2>3. QED
      BY <1>3, <2>1, <2>2 DEF LeaseRow
  <1>4. CASE MarkFailed(w)
    BY <1>4, RemainCases DEF MarkFailed, CasMarkFailedDispatch, jobVars
  <1>5. CASE BindRun(w)
    BY <1>5, RemainCases DEF BindRun, ClaimWorkflowRunOrEnqueueOrphan, jobVars
  <1>6. QED
    BY <1>1, <1>2, <1>3, <1>4, <1>5
       DEF OutboxStep, ReadGate, SelectCandidates, LeaseDone, TakeJob, EndInvocation, LoadRequest,
           Misconfigured, Recheck, DispatchAnswered, DispatchFails, CancelPost, CancelFails,
           RetrySwallowed, StatementThrows, Crash

LEMMA OthersRemain ==
  ASSUME StoreTypeOK, Others
  PROVE  JobsRemain
  <1>1. ASSUME NEW k \in Key, Callbacks(k) PROVE JobsRemain
    BY <1>1, RemainCases DEF Callbacks, CasClaimExecutor, AuthorizeReviewRequestWithOutbox, CasMarkStarted,
       CasAbortRequest, CasCommitTerminalWithReceipt, CasWatchdogTerminal, jobVars
  <1>2. ASSUME NEW k \in Key, Admissions(k) PROVE JobsRemain
    BY <1>2, RemainCases DEF Admissions, AdmitReviewRequestWithOutbox
  <1>3. CASE Lifecycle
    BY <1>3, RemainCases DEF Lifecycle, SupersedeInstallationRequests, SupersedeRepositoryRequests,
       Supersede, WriteInstallation, jobVars
  <1>4. CASE Pause \/ Reopen
    BY <1>4, RemainCases DEF Pause, Reopen, SetGate, jobVars
  <1>5. CASE \E j \in Job : ExpireLease(j)
    BY <1>5, RemainCases
  <1>6. QED
    BY <1>1, <1>2, <1>3, <1>4, <1>5 DEF Others

LEMMA NextRemains ==
  StoreTypeOK /\ Local /\ [Next]_vars
    => JobsRemain \/ \E w \in Owner : FinishJob(w) \/ RetryJob(w)
  <1> SUFFICES ASSUME StoreTypeOK, Local, [Next]_vars
               PROVE  JobsRemain \/ \E w \in Owner : FinishJob(w) \/ RetryJob(w)
    OBVIOUS
  <1>1. CASE \E w \in Owner : OutboxStep(w)
    BY <1>1, OutboxRemains
  <1>2. CASE Others
    BY <1>2, OthersRemain
  <1>3. CASE UNCHANGED storeVars
    BY <1>3, RemainCases DEF storeVars, jobVars
  <1>4. QED
    BY <1>1, <1>2, <1>3 DEF Next, RunEnds, vars

\* Invocations never touch the gate.
LEMMA OutboxGate ==
  ASSUME NEW w \in Owner, OutboxStep(w)
  PROVE  UNCHANGED <<paused, epoch>>
  <1>1. CASE UNCHANGED storeVars
    BY <1>1 DEF storeVars, gateVars
  <1>2. CASE RepairStep(w)
    BY <1>1, <1>2 DEF RepairStep, RepairOutboxJobs, gateVars
  <1>3. ASSUME NEW j \in Job, LeaseRow(w, j) PROVE UNCHANGED <<paused, epoch>>
    BY <1>1, <1>3 DEF LeaseRow, LeaseOutboxJob, gateVars
  <1>4. CASE MarkFailed(w) \/ BindRun(w)
    BY <1>4 DEF MarkFailed, CasMarkFailedDispatch, BindRun, ClaimWorkflowRunOrEnqueueOrphan, gateVars
  <1>5. CASE FinishJob(w) \/ RetryJob(w)
    BY <1>5 DEF FinishJob, RetryJob, CompleteOutboxJob, RescheduleOutboxJob, Release, gateVars
  <1>6. QED
    BY <1>1, <1>2, <1>3, <1>4, <1>5
       DEF OutboxStep, ReadGate, SelectCandidates, LeaseDone, TakeJob, EndInvocation, LoadRequest,
           Misconfigured, Recheck, DispatchAnswered, DispatchFails, CancelPost, CancelFails,
           RetrySwallowed, StatementThrows, Crash

-----------------------------------------------------------------------------
(* The invariant.                                                          *)

LEMMA KnownStep ==
  ASSUME DispatchInv, [Next]_vars, RowMoves
  PROVE  Known'
  <1> USE DEF DispatchInv
  <1> DEFINE Has(v, k) == k \in batch[v] \cup todo[v] \/ curJob[v] = k
  <1>1. ASSUME \A v \in Owner, k \in Key :
                 k \in batch'[v] \cup todo'[v] \/ curJob'[v] = k => status[k] # "absent"
        PROVE  Known'
    BY <1>1 DEF Known, RowMoves
  <1>2. ASSUME NEW w \in Owner, SelectCandidates(w) PROVE Known'
    BY <1>1, <1>2 DEF SelectCandidates, Leasable, Known, JobHasRow, Local, OutTypes
  <1>3. ASSUME NEW w \in Owner, NEW j \in Job, LeaseRow(w, j) \/ TakeJob(w, j) PROVE Known'
    BY <1>1, <1>3 DEF LeaseRow, TakeJob, Known, Local, OutTypes
  <1>4. ASSUME NEW w \in Owner, FinishJob(w) \/ RetryJob(w) \/ RetrySwallowed(w) \/ Crash(w) PROVE Known'
    BY <1>1, <1>4, RowAssumption DEF FinishJob, RetryJob, RetrySwallowed, JobDone, Crash, Known, Local, OutTypes
  <1>5. CASE UNCHANGED <<batch, todo, curJob>>
    BY <1>1, <1>5 DEF Known
  <1>6. ASSUME NEW w \in Owner, OutboxStep(w) PROVE Known'
    BY <1>2, <1>3, <1>4, <1>5, <1>6
       DEF OutboxStep, ReadGate, RepairStep, LeaseDone, EndInvocation, LoadRequest,
           Misconfigured, Recheck, DispatchAnswered, DispatchFails, MarkFailed, BindRun, CancelPost,
           CancelFails, StatementThrows, Locals
  <1>7. QED
    BY <1>5, <1>6 DEF Next, Others, RunEnds, vars, outboxVars

LEMMA SettledStep ==
  ASSUME DispatchInv, [Next]_vars, RowMoves
  PROVE  Settled'
  <1> USE DEF DispatchInv, Local, OutTypes
  <1>1. ASSUME \A v \in Owner :
                 wpc'[v] = "finish" /\ curJob'[v] \in Key
                   => \/ wpc[v] = "finish" /\ curJob'[v] = curJob[v]
                      \/ status'[curJob'[v]] \notin Waiting
        PROVE  Settled'
    BY <1>1 DEF Settled, RowMoves
  <1>2. ASSUME NEW w \in Owner, LoadRequest(w) PROVE Settled'
    <2>1. curJob[w] \in Key /\ status[curJob[w]] # "absent"
      BY <1>2 DEF LoadRequest, Hand, Known
    <2>2. ~CanBindRun(curJob[w]) => status[curJob[w]] \notin Waiting
      BY <2>1 DEF CanBindRun, StoreInv, RunBinding, Waiting
    <2>3. QED
      BY <1>1, <1>2, <2>1, <2>2 DEF LoadRequest, Goto, Locals, storeVars, requestVars
  <1>3. ASSUME NEW w \in Owner, BindRun(w) PROVE Settled'
    <2>1. curJob[w] \in Key /\ status[curJob[w]] # "absent"
      BY <1>3 DEF BindRun, Hand, Known
    <2>2. status'[curJob[w]] \notin Waiting
      <3>1. CASE CanBindRun(curJob[w])
        BY <1>3, <2>1, <3>1 DEF BindRun, ClaimWorkflowRunOrEnqueueOrphan, SetStatus, Waiting, Retryable,
           StoreInv, StoreTypeOK
      <3>2. CASE ~CanBindRun(curJob[w])
        BY <1>3, <2>1, <3>2 DEF BindRun, ClaimWorkflowRunOrEnqueueOrphan, CanBindRun, Waiting,
           StoreInv, RunBinding
      <3>3. QED
        BY <3>1, <3>2
    <2>3. QED
      BY <1>1, <1>3, <2>1, <2>2 DEF BindRun, Goto
  <1>4. ASSUME NEW w \in Owner, CancelPost(w) PROVE Settled'
    BY <1>1, <1>4, RowAssumption DEF CancelPost, Goto, Locals
  <1>5. CASE UNCHANGED <<wpc, curJob>>
    BY <1>1, <1>5
  <1>6. ASSUME NEW w \in Owner,
               \/ ReadGate(w) \/ RepairStep(w) \/ SelectCandidates(w) \/ LeaseDone(w) \/ EndInvocation(w)
               \/ \E j \in Job : TakeJob(w, j)
        PROVE  Settled'
    BY <1>1, <1>6 DEF ReadGate, RepairStep, SelectCandidates, LeaseDone, EndInvocation, TakeJob, Goto, Locals
  <1>7. ASSUME NEW w \in Owner,
               \/ Misconfigured(w) \/ Recheck(w) \/ DispatchFails(w) \/ MarkFailed(w) \/ CancelFails(w)
               \/ StatementThrows(w) \/ \E x \in Run : DispatchAnswered(w, x)
        PROVE  Settled'
    BY <1>1, <1>7 DEF Misconfigured, Recheck, DispatchFails, MarkFailed, CancelFails, StatementThrows,
       DispatchAnswered, Goto, Locals
  <1>8. ASSUME NEW w \in Owner, FinishJob(w) \/ RetryJob(w) \/ RetrySwallowed(w) \/ Crash(w) PROVE Settled'
    BY <1>1, <1>8 DEF FinishJob, RetryJob, RetrySwallowed, JobDone, Crash, Goto
  <1>9. ASSUME NEW w \in Owner, NEW j \in Job, LeaseRow(w, j) PROVE Settled'
    BY <1>5, <1>9 DEF LeaseRow
  <1>10. ASSUME NEW w \in Owner, OutboxStep(w) PROVE Settled'
    BY <1>2, <1>3, <1>4, <1>6, <1>7, <1>8, <1>9, <1>10 DEF OutboxStep
  <1>11. QED
    BY <1>5, <1>10 DEF Next, Others, RunEnds, vars, outboxVars

\* A lease given back, and one that ends with its job.
LEMMA Releases ==
  ASSUME DispatchInv, NEW w \in Owner, FinishJob(w) \/ RetryJob(w)
  PROVE  /\ curJob[w] \in Job
         /\ \A j \in Job : jobStatus'[j] # jobStatus[j] => j = curJob[w] /\ HoldsLease(j, w)
         /\ RetryJob(w) => jobStatus'[curJob[w]] # "completed" \/ jobStatus' = jobStatus
  <1>1. curJob[w] \in Job
    BY DEF FinishJob, RetryJob, DispatchInv, Local, Hand, InHand
  <1>2. \E s \in {"pending", "completed"} :
           Release(curJob[w], w, s) /\ (RetryJob(w) => s = "pending")
    BY DEF FinishJob, RetryJob, CompleteOutboxJob, RescheduleOutboxJob
  <1>3. PICK s \in {"pending", "completed"} :
               Release(curJob[w], w, s) /\ (RetryJob(w) => s = "pending")
    BY <1>2
  <1>4. CASE HoldsLease(curJob[w], w)
    <2>1. jobStatus' = [jobStatus EXCEPT ![curJob[w]] = s]
      BY <1>3, <1>4 DEF Release
    <2>2. QED
      BY <1>1, <1>3, <1>4, <2>1 DEF DispatchInv, StoreInv, StoreTypeOK
  <1>5. CASE ~HoldsLease(curJob[w], w)
    <2>1. jobStatus' = jobStatus
      BY <1>3, <1>5 DEF Release, jobVars
    <2>2. QED
      BY <1>1, <2>1
  <1>6. QED
    BY <1>4, <1>5

LEMMA TriedStep ==
  ASSUME DispatchInv, [Next]_vars, RowMoves
  PROVE  Tried'
  <1> SUFFICES ASSUME NEW k \in Key, status'[k] \in Retryable, jobStatus'[k] = "completed"
               PROVE  FALSE
    BY DEF Tried
  <1>1. k \in Job /\ status[k] \in Waiting
    BY DEF Job, RowMoves, Waiting
  <1>2. jobStatus[k] # "completed"
    BY <1>1 DEF DispatchInv, Tried, JobHasRow, Waiting
  <1>3. PICK w \in Owner : FinishJob(w) \/ RetryJob(w)
    BY <1>1, <1>2, NextRemains DEF JobsRemain, DispatchInv, StoreInv
  <1>4. k = curJob[w]
    BY <1>1, <1>2, <1>3, Releases
  <1>5. CASE FinishJob(w)
    BY <1>1, <1>4, <1>5 DEF FinishJob, DispatchInv, Settled
  <1>6. CASE RetryJob(w)
    BY <1>2, <1>4, <1>6, Releases
  <1>7. QED
    BY <1>3, <1>5, <1>6

LEMMA FenceStep ==
  ASSUME Local, CutoverFence, [Next]_vars
  PROVE  CutoverFence'
  <1> USE DEF Local, OutTypes
  <1>1. ASSUME NEW w \in Owner, OutboxStep(w) PROVE CutoverFence'
    <2>1. UNCHANGED <<paused, epoch>>
      BY <1>1, OutboxGate
    <2>2. \A v \in Owner : wpc'[v] = "post" => \/ wpc[v] = "post" /\ wEpoch'[v] = wEpoch[v]
                                              \/ GateOpen(wEpoch'[v])
      <3>1. ASSUME wpc' = wpc \/ \E l \in Place \ {"post"} : Goto(w, l),
                   \A v \in Owner : wpc'[v] = "post" => wEpoch'[v] = wEpoch[v]
            PROVE  \A v \in Owner : wpc'[v] = "post" => wpc[v] = "post" /\ wEpoch'[v] = wEpoch[v]
        BY <3>1 DEF Goto
      <3>2. CASE Recheck(w)
        BY <3>2 DEF Recheck, Goto, Locals, MayExecute, MayExecuteLeasedOutboxJob
      <3>3. CASE ReadGate(w) \/ EndInvocation(w)
        BY <3>3 DEF ReadGate, EndInvocation, Goto
      <3>4. CASE Crash(w)
        BY <3>4 DEF Crash, Goto
      <3>5. CASE \/ RepairStep(w) \/ SelectCandidates(w) \/ LeaseDone(w)
                 \/ \E j \in Job : LeaseRow(w, j) \/ TakeJob(w, j)
        BY <3>1, <3>5 DEF RepairStep, SelectCandidates, LeaseRow, LeaseDone, TakeJob, Locals, Place, Goto
      <3>6. CASE \/ LoadRequest(w) \/ Misconfigured(w) \/ DispatchFails(w) \/ MarkFailed(w) \/ BindRun(w)
                 \/ \E x \in Run : DispatchAnswered(w, x)
        BY <3>1, <3>6 DEF LoadRequest, Misconfigured, DispatchFails, MarkFailed, BindRun, DispatchAnswered,
           Locals, Place, Goto
      <3>7. CASE \/ CancelPost(w) \/ CancelFails(w) \/ FinishJob(w) \/ RetryJob(w) \/ RetrySwallowed(w)
                 \/ StatementThrows(w)
        BY <3>1, <3>7 DEF CancelPost, CancelFails, FinishJob, RetryJob, RetrySwallowed, StatementThrows,
           JobDone, Locals, Place, Goto
      <3>8. QED
        BY <1>1, <3>2, <3>3, <3>4, <3>5, <3>6, <3>7 DEF OutboxStep
    <2>3. QED
      BY <2>1, <2>2 DEF CutoverFence, GateOpen
  <1>2. CASE Others
    <2>1. UNCHANGED <<wpc, wEpoch>>
      BY <1>2 DEF Others, outboxVars
    <2>2. UNCHANGED <<paused, epoch>> \/ paused' \/ \A w \in Owner : wpc[w] # "post"
      BY <1>2 DEF Others, Callbacks, CasClaimExecutor, AuthorizeReviewRequestWithOutbox, CasMarkStarted,
         CasAbortRequest, CasCommitTerminalWithReceipt, CasWatchdogTerminal, Admissions,
         AdmitReviewRequestWithOutbox, Lifecycle, SupersedeInstallationRequests,
         SupersedeRepositoryRequests, WriteInstallation, Pause, Reopen, SetGate, NoCallInFlight,
         ExpireLease, gateVars
    <2>3. QED
      BY <2>1, <2>2 DEF CutoverFence
  <1>3. CASE UNCHANGED <<storeVars, outboxVars>>
    BY <1>3 DEF CutoverFence, storeVars, gateVars, outboxVars
  <1>4. QED
    BY <1>1, <1>2, <1>3 DEF Next, RunEnds, vars

LEMMA DispatchInvStep == DispatchInv /\ [Next]_vars => DispatchInv'
  <1> SUFFICES ASSUME DispatchInv, [Next]_vars PROVE DispatchInv'
    OBVIOUS
  <1>1. [StoreNext]_storeVars
    BY StatementStep DEF DispatchInv, StoreInv
  <1>2. RowMoves
    BY <1>1, RowStep DEF DispatchInv
  <1>3. StoreInv' /\ JobHasRow'
    BY <1>1, <1>2, StoreInvStep DEF DispatchInv, RowMoves
  <1>4. Local' /\ CutoverFence'
    BY LocalKept, FenceStep DEF DispatchInv
  <1>5. Known' /\ Settled' /\ Tried'
    BY <1>2, KnownStep, SettledStep, TriedStep
  <1>6. QED
    BY <1>3, <1>4, <1>5 DEF DispatchInv

LEMMA DispatchInvInit == Init => DispatchInv
  <1> SUFFICES ASSUME Init PROVE DispatchInv
    OBVIOUS
  <1>1. StoreInv
    BY StoreInvInit DEF Init
  <1>2. Local /\ Known /\ Settled /\ CutoverFence
    BY RowAssumption DEF Init, OutboxInit, Local, OutTypes, Place, Hand, InHand, Known, Settled, CutoverFence, Job
  <1>3. JobHasRow /\ Tried
    BY DEF Init, StoreInit, NoRequests, JobHasRow, Tried, Retryable, Job
  <1>4. QED
    BY <1>1, <1>2, <1>3 DEF DispatchInv

LEMMA DispatchInvariant == Spec => []DispatchInv
  BY DispatchInvInit, DispatchInvStep, PTL DEF Spec

-----------------------------------------------------------------------------
(* The results.                                                            *)

\* Overlapping invocations and everybody else write the tables by the statements
\* of db.mjs only: all that is proved of the store holds here.
THEOREM DispatchUsesStore == Spec => StoreSpec
  <1>1. DispatchInv => StoreTypeOK /\ Local
    BY DEF DispatchInv, StoreInv
  <1>2. Init => StoreInit
    BY DEF Init
  <1>3. QED
    BY <1>1, <1>2, DispatchInvariant, StatementStep, PTL DEF Spec, StoreSpec

\* A request that waits for a run keeps a job that will be tried.
THEOREM WaitingIsNotForgotten == Spec => []NoLostDispatch
  <1>1. DispatchInv => NoLostDispatch
    BY DEF DispatchInv, StoreInv, StoreTypeOK, JobCoverage, Tried, NoLostDispatch, CanBindRun, Job
  <1>2. QED
    BY <1>1, DispatchInvariant, PTL

\* No GitHub call is made under the configuration of an earlier epoch.
THEOREM CutoverHolds == Spec => []CutoverFence
  <1>1. DispatchInv => CutoverFence
    BY DEF DispatchInv
  <1>2. QED
    BY <1>1, DispatchInvariant, PTL

\* A lease is ended by the invocation that holds it, at the end of its job.
THEOREM LeaseBelongsToItsHolder == Spec => LeaseIsExclusive
  <1> DEFINE Held(j) ==
        jobStatus[j] = "leased" /\ ~leaseExpired[j] /\ jobStatus'[j] # "leased"
          => LET w == leaseOwner[j]
             IN curJob[w] = j /\ wpc[w] \in {"finish", "retry", "reject"} /\ wpc'[w] = "work"
  <1>1. ASSUME DispatchInv, [Next]_vars, NEW j \in Job
        PROVE  Held(j)
    <2> SUFFICES ASSUME jobStatus[j] = "leased", jobStatus'[j] # "leased"
                 PROVE  /\ curJob[leaseOwner[j]] = j
                        /\ wpc[leaseOwner[j]] \in {"finish", "retry", "reject"}
                        /\ wpc'[leaseOwner[j]] = "work"
      OBVIOUS
    <2>1. PICK w \in Owner : FinishJob(w) \/ RetryJob(w)
      BY <1>1, NextRemains DEF JobsRemain, DispatchInv, StoreInv
    <2>2. j = curJob[w] /\ leaseOwner[j] = w
      BY <1>1, <2>1, Releases DEF HoldsLease
    <2>3. wpc[w] \in {"finish", "retry", "reject"} /\ wpc'[w] = "work"
      BY <1>1, <2>1 DEF FinishJob, RetryJob, JobDone, Goto, DispatchInv, Local, OutTypes
    <2>4. QED
      BY <2>2, <2>3
  <1>2. DispatchInv /\ [Next]_vars => [\A j \in Job : Held(j)]_vars
    BY <1>1
  <1>3. QED
    BY <1>2, DispatchInvariant, PTL DEF Spec, LeaseIsExclusive

-----------------------------------------------------------------------------
(* Runs that got lost: each costs a fault.                                 *)

\* A run that is bound or has a cancel job is known for good.
Tracked(x) == x \in RunsOf(Key) \/ jobStatus[x] # "absent"

\* A run that is neither known nor about to be bound.
Loose == {x \in Run : /\ runState[x] # "none" /\ ~Tracked(x)
                      /\ \A w \in Owner : ~(wpc[w] = "bind" /\ curRun[w] = x)}

LooseInv == /\ runState \in [Run -> {"none", "live", "completed"}]
            /\ faults \in Nat
            /\ IsFiniteSet(Loose) /\ Cardinality(Loose) <= faults

LEMMA TrackedForGood ==
  ASSUME StoreInv, [StoreNext]_storeVars, NEW x \in Run, Tracked(x)
  PROVE  Tracked(x)'
  <1>1. CASE x \in RunsOf(Key)
    <2>1. PICK k \in Key : boundRun[k] = x /\ x # None
      BY <1>1 DEF RunsOf
    <2>2. boundRun'[k] = x
      BY <2>1, PermanentStep DEF Permanent, storeVars, requestVars
    <2> QED
      BY <2>1, <2>2 DEF Tracked, RunsOf
  <1>2. CASE jobStatus[x] # "absent"
    <2>1. x \in Job
      BY DEF Job
    <2> QED
      BY <1>2, <2>1, PermanentStep DEF Tracked, Permanent, storeVars, jobVars
  <1> QED
    BY <1>1, <1>2 DEF Tracked

\* The batch binds the run, or leaves it to be cancelled.
LEMMA BindTracks ==
  ASSUME StoreInv, NEW k \in Key, NEW x \in Run, ClaimWorkflowRunOrEnqueueOrphan(k, x)
  PROVE  Tracked(x)'
  <1>1. StoreTypeOK /\ x # None /\ x \in Job
    BY RowAssumption DEF StoreInv, Job
  <1>2. CASE CanBindRun(k)
    <2>1. boundRun'[k] = x
      BY <1>1, <1>2 DEF ClaimWorkflowRunOrEnqueueOrphan, StoreTypeOK
    <2> QED
      BY <1>1, <2>1 DEF Tracked, RunsOf
  <1>3. CASE ~CanBindRun(k) /\ boundRun[k] = x
    <2>1. boundRun'[k] = x
      BY <1>3 DEF ClaimWorkflowRunOrEnqueueOrphan
    <2> QED
      BY <1>1, <2>1 DEF Tracked, RunsOf
  <1>4. CASE ~CanBindRun(k) /\ boundRun[k] # x
    <2>1. Enqueue({x})
      BY <1>4 DEF ClaimWorkflowRunOrEnqueueOrphan
    <2> QED
      BY <1>1, <2>1 DEF Tracked, Enqueue
  <1> QED
    BY <1>2, <1>3, <1>4

\* A step loses no run, or one, at the price of a fault.
LooseStep ==
  \/ Loose' \subseteq Loose /\ faults' \in Nat /\ faults' >= faults
  \/ faults' = faults + 1 /\ \E x \in Run : Loose' \subseteq Loose \cup {x}

LEMMA LooseCount ==
  ASSUME LooseInv, LooseStep, runState' \in [Run -> {"none", "live", "completed"}]
  PROVE  LooseInv'
  <1>1. CASE Loose' \subseteq Loose /\ faults' \in Nat /\ faults' >= faults
    <2>1. IsFiniteSet(Loose') /\ Cardinality(Loose') <= Cardinality(Loose)
      BY <1>1, FS_Subset DEF LooseInv
    <2>2. Cardinality(Loose') \in Nat /\ Cardinality(Loose) \in Nat
      BY <2>1, FS_CardinalityType DEF LooseInv
    <2> QED
      BY <1>1, <2>1, <2>2 DEF LooseInv
  <1>2. ASSUME NEW x \in Run, faults' = faults + 1, Loose' \subseteq Loose \cup {x}
        PROVE  LooseInv'
    <2>1. /\ IsFiniteSet(Loose \cup {x})
          /\ Cardinality(Loose \cup {x}) <= Cardinality(Loose) + 1
      <3>1. IsFiniteSet(Loose)
        BY DEF LooseInv
      <3>2. Cardinality(Loose) \in Nat
        BY <3>1, FS_CardinalityType
      <3>3. /\ IsFiniteSet(Loose \cup {x})
            /\ Cardinality(Loose \cup {x}) = IF x \in Loose THEN Cardinality(Loose) ELSE Cardinality(Loose) + 1
        BY <3>1, FS_AddElement, Zenon
      <3> QED
        BY <3>2, <3>3
    <2>2. IsFiniteSet(Loose') /\ Cardinality(Loose') <= Cardinality(Loose \cup {x})
      BY <1>2, <2>1, FS_Subset
    <2>3. /\ Cardinality(Loose') \in Nat /\ Cardinality(Loose) \in Nat
          /\ Cardinality(Loose \cup {x}) \in Nat
      BY <2>1, <2>2, FS_CardinalityType DEF LooseInv
    <2> QED
      BY <1>2, <2>1, <2>2, <2>3 DEF LooseInv
  <1> QED
    BY <1>1, <1>2 DEF LooseStep

\* What an invocation does to the runs it has created.
LEMMA OutboxLoose ==
  ASSUME DispatchInv, LooseInv, NEW w \in Owner, OutboxStep(w), [StoreNext]_storeVars
  PROVE  LooseStep /\ runState' \in [Run -> {"none", "live", "completed"}]
  <1> USE DEF DispatchInv, Local, OutTypes, Hand, InHand, LooseInv
  <1>0. \A x \in Run : Tracked(x) => Tracked(x)'
    BY TrackedForGood
  <1>1. ASSUME \A v \in Owner : wpc[v] = "bind" => wpc'[v] = "bind" /\ curRun'[v] = curRun[v],
               UNCHANGED runState
        PROVE  Loose' \subseteq Loose
    BY <1>0, <1>1 DEF Loose
  <1>2. ASSUME NEW x \in Run, NEW k, CreateRun(x, k),
               \A v \in Owner : wpc[v] = "bind" => wpc'[v] = "bind" /\ curRun'[v] = curRun[v]
        PROVE  /\ Loose' \subseteq Loose \cup {x}
               /\ wpc'[w] = "bind" /\ curRun'[w] = x => Loose' \subseteq Loose
               /\ runState' \in [Run -> {"none", "live", "completed"}]
    BY <1>0, <1>2 DEF Loose, CreateRun
  <1>3. ASSUME NEW x \in Run, curRun[w] = x, UNCHANGED runState,
               \A v \in Owner \ {w} : wpc[v] = "bind" => wpc'[v] = "bind" /\ curRun'[v] = curRun[v]
        PROVE  Loose' \subseteq Loose \cup {x} /\ (Tracked(x)' => Loose' \subseteq Loose)
    <2>1. ASSUME NEW y \in Loose', y # x PROVE y \in Loose
      <3>1. y \in Run /\ runState[y] # "none" /\ ~Tracked(y)
        BY <1>0, <1>3, <2>1 DEF Loose
      <3>2. \A v \in Owner : ~(wpc[v] = "bind" /\ curRun[v] = y)
        BY <1>3, <2>1 DEF Loose
      <3> QED
        BY <3>1, <3>2 DEF Loose
    <2>2. Tracked(x)' => x \notin Loose'
      BY DEF Loose
    <2> QED
      BY <2>1, <2>2
  <1>4. Fault => faults' = faults + 1
    BY DEF Fault
  <1>5. CASE wpc[w] # "bind" /\ UNCHANGED runState /\ (UNCHANGED faults \/ Fault)
             /\ \A v \in Owner \ {w} : wpc'[v] = wpc[v] /\ curRun'[v] = curRun[v]
    BY <1>1, <1>4, <1>5 DEF LooseStep
  <1>6. ASSUME NEW x \in Run, DispatchAnswered(w, x)
        PROVE  LooseStep /\ runState' \in [Run -> {"none", "live", "completed"}]
    BY <1>2, <1>6 DEF DispatchAnswered, Goto, LooseStep
  <1>7. CASE DispatchFails(w)
    <2>1. \A v \in Owner : wpc[v] = "bind" => wpc'[v] = "bind" /\ curRun'[v] = curRun[v]
      BY <1>7 DEF DispatchFails, Goto
    <2>2. CASE UNCHANGED <<runVars, faults>>
      BY <1>1, <2>1, <2>2 DEF runVars, LooseStep
    <2>3. ASSUME Fault, NEW x \in Run, CreateRun(x, curJob[w])
          PROVE  LooseStep /\ runState' \in [Run -> {"none", "live", "completed"}]
      BY <1>2, <1>4, <2>1, <2>3 DEF LooseStep
    <2> QED
      BY <1>7, <2>2, <2>3 DEF DispatchFails
  <1>8. CASE BindRun(w)
    <2>1. wpc[w] = "bind" /\ UNCHANGED runState /\ (UNCHANGED faults \/ Fault)
      BY <1>8 DEF BindRun, runVars
    <2>2. \A v \in Owner \ {w} : wpc'[v] = wpc[v] /\ curRun'[v] = curRun[v]
      BY <1>8 DEF BindRun, Goto
    <2>3. PICK x \in Run : curRun[w] = x
      BY <2>1
    <2>4. Tracked(x)'
      BY <1>8, <2>1, <2>3, BindTracks DEF BindRun
    <2> QED
      BY <1>3, <1>4, <2>1, <2>2, <2>3, <2>4 DEF LooseStep
  <1>9. CASE wpc[w] = "bind" /\ (StatementThrows(w) \/ Crash(w))
    <2>1. Fault /\ UNCHANGED runState
      BY <1>9 DEF StatementThrows, Crash, runVars
    <2>2. \A v \in Owner \ {w} : wpc'[v] = wpc[v] /\ curRun'[v] = curRun[v]
      BY <1>9 DEF StatementThrows, Crash, Goto
    <2>3. PICK x \in Run : curRun[w] = x
      BY <1>9
    <2> QED
      BY <1>3, <1>4, <2>1, <2>2, <2>3 DEF LooseStep
  <1>10. CASE wpc[w] # "bind" /\ (StatementThrows(w) \/ Crash(w))
    BY <1>5, <1>10 DEF StatementThrows, Crash, runVars, Goto
  <1>11. ASSUME NEW j \in Job, LeaseRow(w, j) \/ TakeJob(w, j)
         PROVE  LooseStep /\ runState' \in [Run -> {"none", "live", "completed"}]
    BY <1>5, <1>11 DEF LeaseRow, TakeJob, runVars, Goto
  <1>12. CASE FinishJob(w) \/ RetryJob(w) \/ RetrySwallowed(w)
    BY <1>5, <1>12 DEF FinishJob, RetryJob, RetrySwallowed, JobDone, runVars, Goto
  <1>13. CASE CancelPost(w) \/ CancelFails(w) \/ MarkFailed(w)
    BY <1>5, <1>13 DEF CancelPost, CancelFails, MarkFailed, AcceptCancel, runVars, Goto, Locals
  <1>14. CASE \/ ReadGate(w) \/ RepairStep(w) \/ SelectCandidates(w) \/ LeaseDone(w)
              \/ EndInvocation(w) \/ LoadRequest(w) \/ Misconfigured(w) \/ Recheck(w)
    BY <1>5, <1>14 DEF ReadGate, RepairStep, SelectCandidates, LeaseDone, EndInvocation, LoadRequest,
       Misconfigured, Recheck, runVars, Goto, Locals
  <1> QED
    BY <1>6, <1>7, <1>8, <1>9, <1>10, <1>11, <1>12, <1>13, <1>14 DEF OutboxStep

LEMMA LooseNext == DispatchInv /\ LooseInv /\ [Next]_vars => LooseInv'
  <1> SUFFICES ASSUME DispatchInv, LooseInv, [Next]_vars PROVE LooseInv'
    OBVIOUS
  <1>1. [StoreNext]_storeVars
    BY StatementStep DEF DispatchInv, StoreInv
  <1>2. CASE \E w \in Owner : OutboxStep(w)
    BY <1>1, <1>2, OutboxLoose, LooseCount
  <1>3. CASE UNCHANGED outboxVars /\ (UNCHANGED runVars \/ \E x \in Run : EndRun(x))
    <2>1. /\ runState' \in [Run -> {"none", "live", "completed"}]
          /\ \A x \in Run : runState'[x] # "none" => runState[x] # "none"
      BY <1>3 DEF LooseInv, runVars, EndRun
    <2>2. Loose' \subseteq Loose
      BY <1>1, <1>3, <2>1, TrackedForGood DEF Loose, outboxVars, DispatchInv
    <2> QED
      BY <1>3, <2>1, <2>2, LooseCount DEF LooseStep, LooseInv, outboxVars
  <1> QED
    BY <1>2, <1>3 DEF Next, Others, RunEnds, vars

\* Of the runs GitHub created for overlapping dispatches, every one is bound, or will be
\* cancelled, or is in the hands of an invocation, but for one per fault.
THEOREM NoRunGetsLost == Spec => []RunsAreTracked
  <1>1. Init => LooseInv
    <2> SUFFICES ASSUME Init PROVE LooseInv
      OBVIOUS
    <2>1. Loose = {} /\ faults = 0 /\ runState \in [Run -> {"none", "live", "completed"}]
      BY DEF Init, RunsInit, OutboxInit, Loose
    <2> QED
      BY <2>1, FS_EmptySet DEF LooseInv
  <1>2. DispatchInv /\ LooseInv => RunsAreTracked
    <2> SUFFICES ASSUME DispatchInv, LooseInv PROVE RunsAreTracked
      OBVIOUS
    <2>1. Untracked \subseteq Loose
      BY DEF Untracked, Loose, Tracked
    <2>2. IsFiniteSet(Untracked) /\ Cardinality(Untracked) <= Cardinality(Loose)
      BY <2>1, FS_Subset DEF LooseInv
    <2>3. Cardinality(Untracked) \in Nat /\ Cardinality(Loose) \in Nat
      BY <2>2, FS_CardinalityType DEF LooseInv
    <2> QED
      BY <2>2, <2>3 DEF RunsAreTracked, LooseInv
  <1> QED
    BY <1>1, <1>2, LooseNext, DispatchInvariant, PTL DEF Spec

=============================================================================
