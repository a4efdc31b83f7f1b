------------------------------- MODULE MCLock -------------------------------
(***************************************************************************)
(* The lock on a small instance.  Processes differ in nothing but their     *)
(* names, nor do inode numbers: of the processes that have done nothing so  *)
(* far, and of the numbers never used, it is always the same one that is    *)
(* next.                                                                    *)
(***************************************************************************)
EXTENDS StateLock

Unused(p)  == pc[p] = "idle" /\ made[p] = 0 /\ alive[p]
NextUnused == CHOOSE p \in Proc : Unused(p)
NextFree   == CHOOSE i \in Ino : dir[i].use = "free"

MCNext == /\ Next
          /\ \A p \in Proc : Unused(p) /\ ~Unused(p)' => p = NextUnused
          /\ path = None /\ path' # None => path' = NextFree

MCSpec == Init /\ [][MCNext]_lockVars /\ Fairness
=============================================================================
