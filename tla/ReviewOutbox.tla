---------------------------- MODULE ReviewOutbox ----------------------------
(***************************************************************************)
(* processOutbox (apps/grok-review-app/src/outbox.mjs): an invocation      *)
(* reads the cutover gate, repairs the outbox, leases a batch and executes *)
(* one job after the other, each a sequence of D1 statements and one GitHub*)
(* call.  Invocations overlap: a webhook's waitUntil and the cron may run  *)
(* at once, any of them may be slower than its lease, and the platform may *)
(* kill one between any two steps.                                         *)
(*                                                                         *)
(* An Owner is the lease owner of one invocation at a time.  When the      *)
(* invocation has ended no process acts under its old leases any more, so  *)
(* that a later invocation may go under the same name: it works only on    *)
(* jobs it leased itself.                                                  *)
(***************************************************************************)
EXTENDS WorkflowRuns

CONSTANTS
  BatchSize,  \* OUTBOX_BATCH_SIZE, the most jobs an invocation leases
  MaxFaults   \* bound: killed invocations, lost GitHub answers, lost D1 statements

ASSUME OutboxAssumption == BatchSize \in Nat \ {0} /\ MaxFaults \in Nat

VARIABLES
  wpc,       \* where each invocation is
  wEpoch,    \* the epoch it read when it began
  batch,     \* candidates of leaseOutboxJobs it has not tried to lease yet
  todo,      \* jobs it leased and has not begun
  curJob,    \* the job in hand
  curRun,    \* the run id GitHub answered to its dispatch
  faults     \* faults so far

outboxVars == <<wpc, wEpoch, batch, todo, curJob, curRun, faults>>

OutboxTypeOK ==
  /\ wpc \in [Owner -> {"idle", "repair", "select", "lease", "work", "load", "recheck",
                        "post", "bind", "failed", "finish", "retry", "reject"}]
  /\ wEpoch \in [Owner -> Nat]
  /\ batch \in [Owner -> SUBSET Job]
  /\ todo \in [Owner -> SUBSET Job]
  /\ curJob \in [Owner -> Job \cup {None}]
  /\ curRun \in [Owner -> Run \cup {None}]
  /\ faults \in 0..MaxFaults

OutboxInit ==
  /\ wpc = [w \in Owner |-> "idle"]
  /\ wEpoch = [w \in Owner |-> 0]
  /\ batch = [w \in Owner |-> {}]
  /\ todo = [w \in Owner |-> {}]
  /\ curJob = [w \in Owner |-> None]
  /\ curRun = [w \in Owner |-> None]
  /\ faults = 0

Goto(w, label) == wpc' = [wpc EXCEPT ![w] = label]

\* The invocation's own variables stay, apart from its place.
Locals == <<wEpoch, batch, todo, curJob, curRun, faults>>

-----------------------------------------------------------------------------
(* Opening: gate, repair, lease.                                           *)

ReadGate(w) ==
  /\ wpc[w] = "idle" /\ ~paused
  /\ Goto(w, "repair")
  /\ wEpoch' = [wEpoch EXCEPT ![w] = epoch]
  /\ UNCHANGED <<batch, todo, curJob, curRun, faults, storeVars, runVars>>

RepairStep(w) ==
  /\ wpc[w] = "repair"
  /\ \/ RepairOutboxJobs(wEpoch[w])
     \/ ~GateOpen(wEpoch[w]) /\ UNCHANGED storeVars
  /\ Goto(w, "select")
  /\ UNCHANGED <<Locals, runVars>>

\* The candidate query of leaseOutboxJobs: the batch is full, or it holds every
\* job that may be leased (which ones come first is not modelled).
SelectCandidates(w) ==
  LET ready == {j \in Job : GateOpen(wEpoch[w]) /\ Leasable(j)}
  IN /\ wpc[w] = "select"
     /\ \E S \in SUBSET ready :
          /\ S = ready \/ Cardinality(S) = BatchSize
          /\ Cardinality(S) <= BatchSize
          /\ batch' = [batch EXCEPT ![w] = S]
     /\ Goto(w, "lease")
     /\ UNCHANGED <<wEpoch, todo, curJob, curRun, faults, storeVars, runVars>>

\* Its loop: one conditional update per candidate.
LeaseRow(w, j) ==
  /\ wpc[w] = "lease" /\ j \in batch[w]
  /\ batch' = [batch EXCEPT ![w] = @ \ {j}]
  /\ \/ /\ LeaseOutboxJob(j, w, wEpoch[w])
        /\ todo' = [todo EXCEPT ![w] = @ \cup {j}]
     \/ /\ ~(GateOpen(wEpoch[w]) /\ Leasable(j))
        /\ UNCHANGED <<todo, storeVars>>
  /\ UNCHANGED <<wpc, wEpoch, curJob, curRun, faults, runVars>>

LeaseDone(w) ==
  /\ wpc[w] = "lease" /\ batch[w] = {}
  /\ Goto(w, "work")
  /\ UNCHANGED <<Locals, storeVars, runVars>>

-----------------------------------------------------------------------------
(* processLeasedJob.                                                       *)

MayExecute(w, j) == MayExecuteLeasedOutboxJob(j, w, wEpoch[w])

\* The next job of the batch, and the first rejectStaleCutoverJob.
TakeJob(w, j) ==
  /\ wpc[w] = "work" /\ j \in todo[w]
  /\ todo' = [todo EXCEPT ![w] = @ \ {j}]
  /\ curJob' = [curJob EXCEPT ![w] = j]
  /\ Goto(w, IF ~MayExecute(w, j) THEN "reject"
             ELSE IF j \in Key THEN "load" ELSE "recheck")
  /\ UNCHANGED <<wEpoch, batch, curRun, faults, storeVars, runVars>>

\* The batch is done (drainOutbox begins the next one as a new invocation).
EndInvocation(w) ==
  /\ wpc[w] = "work" /\ todo[w] = {}
  /\ Goto(w, "idle")
  /\ wEpoch' = [wEpoch EXCEPT ![w] = 0]
  /\ UNCHANGED <<batch, todo, curJob, curRun, faults, storeVars, runVars>>

\* Mutant of LoadRequest: a failed dispatch counts as obsolete.
LoadPendingOnly(w) ==
  /\ wpc[w] = "load"
  /\ Goto(w, IF status[curJob[w]] = "pending_dispatch" THEN "recheck" ELSE "finish")
  /\ UNCHANGED <<Locals, storeVars, runVars>>

\* processDispatchJob reads the request: an obsolete job is finished.
LoadRequest(w) ==
  /\ wpc[w] = "load"
  /\ Goto(w, IF CanBindRun(curJob[w]) THEN "recheck" ELSE "finish")
  /\ UNCHANGED <<Locals, storeVars, runVars>>

\* controlConfigReady is false in the deployment this invocation runs in.
Misconfigured(w) ==
  /\ \/ wpc[w] = "load" /\ CanBindRun(curJob[w]) /\ Goto(w, "failed")
     \/ wpc[w] = "recheck" /\ curJob[w] \in Run /\ Goto(w, "retry")
  /\ UNCHANGED <<Locals, storeVars, runVars>>

\* The second rejectStaleCutoverJob, right before the GitHub call.
Recheck(w) ==
  /\ wpc[w] = "recheck"
  /\ Goto(w, IF MayExecute(w, curJob[w]) THEN "post" ELSE "reject")
  /\ UNCHANGED <<Locals, storeVars, runVars>>

\* dispatchWorkflow, answered with the run id.
DispatchAnswered(w, x) ==
  /\ wpc[w] = "post" /\ curJob[w] \in Key
  /\ CreateRun(x, curJob[w])
  /\ curRun' = [curRun EXCEPT ![w] = x]
  /\ Goto(w, "bind")
  /\ UNCHANGED <<wEpoch, batch, todo, curJob, faults, storeVars>>

Fault == faults < MaxFaults /\ faults' = faults + 1

\* dispatchWorkflow, refused by GitHub or, as a fault, timed out or answered
\* without a usable run id: the run exists all the same.
DispatchFails(w) ==
  /\ wpc[w] = "post" /\ curJob[w] \in Key
  /\ \/ UNCHANGED <<runVars, faults>>
     \/ Fault /\ \E x \in Run : CreateRun(x, curJob[w])
  /\ Goto(w, "failed")
  /\ UNCHANGED <<wEpoch, batch, todo, curJob, curRun, storeVars>>

\* Mutant of MarkFailed: the job is finished although nothing was dispatched.
MarkFailedAndFinish(w) ==
  /\ wpc[w] = "failed"
  /\ CasMarkFailedDispatch(curJob[w])
  /\ Goto(w, "finish")
  /\ UNCHANGED <<Locals, runVars>>

MarkFailed(w) ==
  /\ wpc[w] = "failed"
  /\ CasMarkFailedDispatch(curJob[w])
  /\ Goto(w, "retry")
  /\ UNCHANGED <<Locals, runVars>>

\* The batch commits; the job is finished, or retried if D1's answer is lost.
BindRun(w) ==
  /\ wpc[w] = "bind"
  /\ ClaimWorkflowRunOrEnqueueOrphan(curJob[w], curRun[w])
  /\ \/ Goto(w, "finish") /\ UNCHANGED faults
     \/ Goto(w, "retry") /\ Fault
  /\ UNCHANGED <<wEpoch, batch, todo, curJob, curRun, runVars>>

\* cancelWorkflowRun: accepted, or 404/409/422 because there is nothing to stop.
CancelPost(w) ==
  /\ wpc[w] = "post" /\ curJob[w] \in Run
  /\ AcceptCancel(curJob[w])
  /\ Goto(w, "finish")
  /\ UNCHANGED <<Locals, storeVars>>

\* Mutant of CancelFails: a failed cancellation is not tried again.
CancelGivenUp(w) ==
  /\ wpc[w] = "post" /\ curJob[w] \in Run
  /\ Goto(w, "finish")
  /\ UNCHANGED <<Locals, runVars, storeVars>>

\* cancelWorkflowRun: no answer, or another error.
CancelFails(w) ==
  /\ wpc[w] = "post" /\ curJob[w] \in Run
  /\ AcceptCancel(curJob[w]) \/ UNCHANGED runVars
  /\ Goto(w, "retry")
  /\ UNCHANGED <<Locals, storeVars>>

JobDone(w) ==
  /\ Goto(w, "work")
  /\ curJob' = [curJob EXCEPT ![w] = None]
  /\ curRun' = [curRun EXCEPT ![w] = None]
  /\ UNCHANGED <<wEpoch, batch, todo>>

FinishJob(w) ==
  /\ wpc[w] = "finish"
  /\ CompleteOutboxJob(curJob[w], w)
  /\ JobDone(w)
  /\ UNCHANGED <<faults, runVars>>

\* retryJob: the lease is given back at once.
RetryJob(w) ==
  /\ wpc[w] \in {"retry", "reject"}
  /\ RescheduleOutboxJob(curJob[w], w)
  /\ JobDone(w)
  /\ UNCHANGED <<faults, runVars>>

\* After a rejection by the gate a failing write is swallowed, and the lease is
\* left to run out.
RetrySwallowed(w) ==
  /\ wpc[w] = "reject" /\ Fault
  /\ JobDone(w)
  /\ UNCHANGED <<storeVars, runVars>>

\* A D1 statement of the job throws without effect: its catch retries the job.
\* A gate check that throws counts as a refusal.
StatementThrows(w) ==
  /\ Fault
  /\ \/ wpc[w] \in {"load", "failed", "bind", "finish"} /\ Goto(w, "retry")
     \/ wpc[w] = "recheck" /\ Goto(w, "reject")
  /\ UNCHANGED <<wEpoch, batch, todo, curJob, curRun, storeVars, runVars>>

\* The platform kills the invocation, or a throw leaves processOutbox.
Crash(w) ==
  /\ wpc[w] # "idle" /\ Fault
  /\ Goto(w, "idle")
  /\ wEpoch' = [wEpoch EXCEPT ![w] = 0]
  /\ batch' = [batch EXCEPT ![w] = {}]
  /\ todo' = [todo EXCEPT ![w] = {}]
  /\ curJob' = [curJob EXCEPT ![w] = None]
  /\ curRun' = [curRun EXCEPT ![w] = None]
  /\ UNCHANGED <<storeVars, runVars>>

OutboxStep(w) ==
  \/ ReadGate(w) \/ RepairStep(w) \/ SelectCandidates(w) \/ LeaseDone(w)
  \/ \E j \in Job : LeaseRow(w, j) \/ TakeJob(w, j)
  \/ EndInvocation(w)
  \/ LoadRequest(w) \/ Misconfigured(w) \/ Recheck(w)
  \/ \E x \in Run : DispatchAnswered(w, x)
  \/ DispatchFails(w) \/ MarkFailed(w) \/ BindRun(w)
  \/ CancelPost(w) \/ CancelFails(w)
  \/ FinishJob(w) \/ RetryJob(w) \/ RetrySwallowed(w) \/ StatementThrows(w)
  \/ Crash(w)

\* The cron starts invocations for ever and lets each go on; GitHub answers, the
\* deployment is configured, and a job that keeps being tried succeeds in the
\* end.
workerVars == <<storeVars, runVars, outboxVars>>

WorkerFairness(w) ==
  /\ WF_workerVars(\/ ReadGate(w) \/ RepairStep(w) \/ SelectCandidates(w) \/ LeaseDone(w)
                   \/ (\E j \in Job : LeaseRow(w, j) \/ TakeJob(w, j)) \/ EndInvocation(w))
  /\ WF_workerVars(BindRun(w) \/ MarkFailed(w) \/ FinishJob(w) \/ RetryJob(w))
  /\ SF_workerVars(LoadRequest(w))
  /\ SF_workerVars(Recheck(w))
  /\ SF_workerVars(\E x \in Run : DispatchAnswered(w, x))
  /\ SF_workerVars(CancelPost(w))
=============================================================================
