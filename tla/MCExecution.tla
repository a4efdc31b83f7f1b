----------------------------- MODULE MCExecution -----------------------------
(* Instances of the execution system.                                      *)
EXTENDS ExecutionSystem, TLC

CONSTANTS p1, r1

MCPullOf == [k \in Key |-> p1]
MCRepoOf == [p \in Pull |-> r1]
Sym == Permutations(Run)

\* Bound: nothing here looks at the installation.
NotInstalledInit == NoInstallation /\ Init
NotInstalledSpec == NotInstalledInit /\ [][Next]_vars
NotInstalledFairSpec == NotInstalledSpec /\ Fairness
=============================================================================
