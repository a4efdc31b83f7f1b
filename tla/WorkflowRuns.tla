---------------------------- MODULE WorkflowRuns ----------------------------
(***************************************************************************)
(* GitHub Actions as the control plane uses it (github.mjs): a dispatch    *)
(* creates a run for a request, a cancel call asks for its end, a status   *)
(* call tells whether it is completed.  A run is the process that executes *)
(* the central runner; it may end at any time, and GitHub's "re-run" may   *)
(* start it again under the same run id.                                   *)
(***************************************************************************)
EXTENDS ReviewStore

CONSTANT MaxReruns   \* bound: how often a completed run is started again

ASSUME RunsAssumption == MaxReruns \in Nat

VARIABLES
  runState,     \* "none" until dispatched, then "live" or "completed"
  runReq,       \* the request named by the run's inputs
  cancelAsked,  \* GitHub accepted a cancel call for the run
  attempt       \* the run_attempt: how often it was started again

runVars == <<runState, runReq, cancelAsked, attempt>>

RunsTypeOK ==
  /\ runState \in [Run -> {"none", "live", "completed"}]
  /\ runReq \in [Run -> Key \cup {None}]
  /\ cancelAsked \in [Run -> BOOLEAN]
  /\ attempt \in [Run -> 0..MaxReruns]

RunsInit ==
  /\ runState = [x \in Run |-> "none"]
  /\ runReq = [x \in Run |-> None]
  /\ cancelAsked = [x \in Run |-> FALSE]
  /\ attempt = [x \in Run |-> 0]

\* POST .../dispatches is executed by GitHub: a run nobody saw before.
CreateRun(x, k) ==
  /\ runState[x] = "none"
  /\ runState' = [runState EXCEPT ![x] = "live"]
  /\ runReq' = [runReq EXCEPT ![x] = k]
  /\ UNCHANGED <<cancelAsked, attempt>>

\* POST .../cancel is executed by GitHub; a completed run answers 409.
AcceptCancel(x) ==
  /\ cancelAsked' = [cancelAsked EXCEPT ![x] = (runState[x] = "live") \/ cancelAsked[x]]
  /\ UNCHANGED <<runState, runReq, attempt>>

\* The job ends: normally, by a crash, the 30-minute timeout or a cancellation.
EndRun(x) ==
  /\ runState[x] = "live"
  /\ runState' = [runState EXCEPT ![x] = "completed"]
  /\ UNCHANGED <<runReq, cancelAsked, attempt>>

\* Somebody presses "Re-run" on a completed run.
StartAgain(x) ==
  /\ runState[x] = "completed" /\ attempt[x] < MaxReruns
  /\ runState' = [runState EXCEPT ![x] = "live"]
  /\ attempt' = [attempt EXCEPT ![x] = @ + 1]
  /\ UNCHANGED <<runReq, cancelAsked>>
=============================================================================
