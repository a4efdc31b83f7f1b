---------------------------- MODULE ReviewControl ---------------------------
(***************************************************************************)
(* The hosted review control plane: webhook handlers, outbox invocations,  *)
(* runners, the watchdog and the operator, all on one D1 database.         *)
(***************************************************************************)
EXTENDS ReviewOutbox, ReviewRunner, ReviewWebhook, ReviewWatchdog

CONSTANT MaxEpoch   \* bound: epochs the operator goes through

ASSUME ControlAssumption == MaxEpoch \in Nat \ {0}

vars == <<storeVars, runVars, outboxVars, runnerVars, webhookVars, watchdogVars>>

Init == /\ StoreInit /\ RunsInit /\ OutboxInit /\ RunnerInit
        /\ WebhookInit /\ WatchdogInit

\* The operator pauses dispatching, or opens it again, under a new epoch.
TurnGate ==
  /\ epoch < MaxEpoch
  /\ SetGate(~paused)
  /\ UNCHANGED <<runVars, outboxVars, runnerVars, webhookVars, watchdogVars>>

LeaseRunsOut(j) ==
  /\ ExpireLease(j)
  /\ UNCHANGED <<runVars, outboxVars, runnerVars, webhookVars, watchdogVars>>

Next ==
  \/ \E w \in Owner : OutboxStep(w) /\ UNCHANGED <<runnerVars, webhookVars, watchdogVars>>
  \/ \E x \in Run : RunnerStep(x) /\ UNCHANGED <<outboxVars, webhookVars, watchdogVars>>
  \/ \E h \in Handler : WebhookStep(h)
                          /\ UNCHANGED <<runVars, outboxVars, runnerVars, watchdogVars>>
  \/ WatchdogStep /\ UNCHANGED <<outboxVars, runnerVars, webhookVars>>
  \/ \E j \in Job : LeaseRunsOut(j)
  \/ TurnGate

Spec == Init /\ [][Next]_vars

TypeOK == /\ StoreTypeOK /\ RunsTypeOK /\ OutboxTypeOK /\ RunnerTypeOK
          /\ WebhookTypeOK /\ WatchdogTypeOK

-----------------------------------------------------------------------------
(* Fairness: that of the invocations and of the watchdog; runs end, leases  *)
(* run out, and the operator opens a paused gate again.                     *)

Fairness == /\ \A w \in Owner : WorkerFairness(w)
            /\ \A x \in Run : WF_runVars(EndRun(x))
            /\ WatchdogFairness
            /\ \A j \in Job : WF_vars(LeaseRunsOut(j))
            /\ WF_vars(paused /\ TurnGate)

\* A review that was admitted comes to an end: it is dispatched, executed and
\* reported, or superseded, or given up, whatever calls fail on the way.
ReviewConcludes ==
  \A k \in Key : status[k] \in Supersedable ~> status[k] \in Terminal
=============================================================================
