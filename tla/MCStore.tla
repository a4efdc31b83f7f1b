------------------------------ MODULE MCStore ------------------------------
(***************************************************************************)
(* The store under an arbitrary client, and under one review with the life *)
(* of its run: each is explored from the same empty tables.                *)
(***************************************************************************)
EXTENDS ExecutionSystem

CONSTANTS k1, x1, p1, r1

VARIABLE part   \* whose steps are explored

MCPullOf == [k \in Key |-> p1]
MCRepoOf == [p \in Pull |-> r1]

\* Bounds of the client: the operator pauses once, and opens again, while the App
\* is installed for all repositories.
GateIsTurned == /\ epoch <= 3 /\ (paused <=> epoch = 2)
                /\ epoch > 1 => instState = "active" /\ selection = "all" /\ instRepos = {}

AnyClient == /\ StoreNext /\ GateIsTurned'
             /\ UNCHANGED <<runVars, runnerVars, watchdogVars>>

\* Bound of the review: it is the only one, with one run.
OneReview == /\ \A k \in Key \ {k1} : status[k] = "absent"
             /\ \A x \in Run \ {x1} : runState[x] = "none"

BoundedInit == NoInstallation /\ Init /\ part \in {"client", "review"}

BoundedNext == /\ \/ part = "client" /\ AnyClient
                  \/ part = "review" /\ Next /\ OneReview'
               /\ UNCHANGED part

BoundedSpec == BoundedInit /\ [][BoundedNext]_<<vars, part>>

\* The watchdog is fair, and so is the client's operator.  A client that leaves a
\* dispatched request alone for ever is not: its behaviours are about safety.
BoundedFairSpec == BoundedSpec /\ Fairness /\ WF_storeVars(paused /\ SetGate(FALSE))
=============================================================================
