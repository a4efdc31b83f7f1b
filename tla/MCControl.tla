------------------------------ MODULE MCControl ------------------------------
(* One review through the whole control plane.                              *)
EXTENDS ReviewControl

CONSTANTS k1, p1, r1, d1, d2

MCPullOf == [k \in Key |-> p1]
MCRepoOf == [p \in Pull |-> r1]

\* The review is asked for, and at some time the App is suspended.
MCEventOf ==
  [d \in {d1, d2} |-> [kind |-> IF d = d1 THEN "review" ELSE "suspend",
                       key |-> k1, parent |-> k1, sel |-> "all", repos |-> <<>>]]

\* The operator has not opened the gate yet.
Installed == /\ NoRequests /\ paused = TRUE /\ epoch = 1 /\ RunsInit /\ OutboxInit /\ RunnerInit
             /\ WebhookInit /\ WatchdogInit
             /\ instState = "active" /\ selection = "all" /\ instRepos = {}

InstalledFairSpec == Installed /\ [][Next]_vars /\ Fairness

=============================================================================
