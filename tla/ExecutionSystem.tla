-------------------------- MODULE ExecutionSystem ---------------------------
(***************************************************************************)
(* The runners and the watchdog with everything else that writes the       *)
(* database.  The outbox is reduced to its effects: a run is created for a *)
(* request, and some time later the run is bound to it, if ever.           *)
(***************************************************************************)
EXTENDS ReviewRunner, ReviewWatchdog

vars == <<storeVars, runVars, runnerVars, watchdogVars>>

Init == StoreInit /\ RunsInit /\ RunnerInit /\ WatchdogInit

-----------------------------------------------------------------------------
(* Everybody else.                                                         *)

Admit(k) == AdmitReviewRequestWithOutbox(k) /\ UNCHANGED <<runVars, runnerVars, watchdogVars>>

\* A dispatch reached GitHub: the request was waiting for a run when its job
\* was executed, and may have got another one since.
Dispatch(k, x) ==
  /\ status[k] # "absent"
  /\ CreateRun(x, k)
  /\ UNCHANGED <<storeVars, runnerVars, watchdogVars>>

\* The dispatching invocation binds the run, unless it failed.
Bind(x) ==
  /\ runState[x] # "none"
  /\ ClaimWorkflowRunOrEnqueueOrphan(runReq[x], x)
  /\ UNCHANGED <<runVars, runnerVars, watchdogVars>>

\* Installation events and repair.
Revoke ==
  /\ SupersedeInstallationRequests
  /\ UNCHANGED <<runVars, runnerVars, watchdogVars>>

Next ==
  \/ \E k \in Key : Admit(k) \/ \E x \in Run : Dispatch(k, x)
  \/ \E x \in Run : Bind(x)
  \/ Revoke
  \/ \E x \in Run : RunnerStep(x) /\ UNCHANGED watchdogVars
  \/ WatchdogStep /\ UNCHANGED runnerVars

Spec == Init /\ [][Next]_vars

-----------------------------------------------------------------------------
Live(x) == runState[x] = "live"

\* Two dispatches of a request may both become runs, and both may call back:
\* only one ever gets past its claim (the others have nothing to abort and exit).
OneExecutor ==
  \A x, y \in Run : /\ stage[x] \notin {"boot", "exit"} /\ stage[y] \notin {"boot", "exit"}
                    /\ runReq[x] = runReq[y]
                    => x = y

Publishing == {"authorized", "fenced", "checked", "started", "reporting"}

\* When two runs of one pull request are both past their authorization, the one
\* of the older request has already reported, or it was superseded and GitHub
\* has been or will be asked to cancel it: nothing relies on the older run
\* noticing by itself.
OlderPublisherIsStopped ==
  \A x, y \in Run :
    /\ Live(x) /\ stage[x] \in Publishing
    /\ Live(y) /\ stage[y] \in Publishing
    /\ runReq[x] \in Older(runReq[y])
    => \/ status[runReq[x]] \in Outcome
       \/ status[runReq[x]] = "superseded" /\ jobStatus[x] # "absent"

\* A run that left believing its completed review was recorded is right, however
\* many answers were lost and whatever arrived late.
AckedReviewIsRecorded ==
  \A x \in Run : stage[x] = "exit" /\ report[x] = "completed"
                   => receipt[runReq[x]] = "completed"

\* On its first attempt a run that is still at work finds its request as it left
\* it, superseded, or (when only the answer to its report was lost) reported:
\* neither the watchdog, which looks at GitHub and writes later, nor a late
\* callback ends a request under its run.  A re-run may meet both.
WorkIsProtected ==
  \A x \in Run :
    Live(x) /\ attempt[x] = 0 =>
      /\ stage[x] = "claimed"
           => status[runReq[x]] \in {"claimed", "superseded"}
      /\ stage[x] \in {"authorized", "fenced", "checked"}
           => authorizedAt[runReq[x]] /\ status[runReq[x]] \in {"claimed", "started", "superseded"}
      /\ stage[x] = "started"
           => status[runReq[x]] \in {"started", "superseded"}
      /\ stage[x] = "reporting"
           => status[runReq[x]] \in {"started", "superseded", report[x]}

-----------------------------------------------------------------------------
(* Fairness: a run ends (its job has a timeout), and that of the watchdog.  *)

Fairness == (\A x \in Run : WF_runVars(EndRun(x))) /\ WatchdogFairness

FairSpec == Spec /\ Fairness

\* A request that got a run ends, although the run may die at any point, its
\* callbacks may get lost, and nobody but the watchdog looks after it.
RequestEnds ==
  \A k \in Key : boundRun[k] # None ~> status[k] \in Terminal
=============================================================================
