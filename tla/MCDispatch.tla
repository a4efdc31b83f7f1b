------------------------------ MODULE MCDispatch ------------------------------
(* Instances of the dispatch system, on an App installed for all            *)
(* repositories.                                                            *)
EXTENDS DispatchSystem, TLC

CONSTANTS p1, r1

MCPullOf == [k \in Key |-> p1]
MCRepoOf == [p \in Pull |-> r1]
Sym == Permutations(Owner) \cup Permutations(Run)

Installed == /\ NoRequests /\ GateInit /\ RunsInit /\ OutboxInit
             /\ instState = "active" /\ selection = "all" /\ instRepos = {}

InstalledSpec == Installed /\ [][Next]_vars
InstalledFairSpec == InstalledSpec /\ Fairness
=============================================================================
