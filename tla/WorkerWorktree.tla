---------------------------- MODULE WorkerWorktree ----------------------------
(***************************************************************************)
(* The Git worktree of a worker (worker-worktree.mjs) under the journal: a  *)
(* private parent directory, a checkout in it and its registration with     *)
(* Git, made and removed in several steps by host processes that may be     *)
(* slow or die, while the worker's provider edits the tree.  The host's     *)
(* scheduling is not part of this repository: any process may do whatever   *)
(* the journal lets it, except that one that reconciles waits until the     *)
(* process whose attempt is cleaned up (cleanupProvisioner) has died.       *)
(***************************************************************************)
EXTENDS WorkerJournal

CONSTANTS
  MaxCrashes   \* bound: host processes that die

ASSUME WorktreeAssumption == MaxCrashes \in Nat

VARIABLES
  parent,   \* the worker's directory exists
  root,     \* the checkout in it
  reg,      \* Git has a registration of the checkout
  unsafe,   \* the base holds a symlink that escapes: known after checkout
  pc,       \* what each host process does next
  fence,    \* the attempt it works for
  copy,     \* the revision of the journal it has read
  seen,     \* what it has observed of the tree
  undone    \* history: those whose tree one that had lost its attempt has removed since

treeVars == <<parent, root, reg, unsafe, pc, fence, copy, seen, undone>>
workerVars == <<journalVars, treeVars>>

\* "partial": git worktree add was not finished, or its removal; "edited" and "moved":
\* by the provider, which may commit.
Root == {"none", "partial", "clean", "edited", "moved"}
Step == {"idle", "mkdir", "register", "checkout", "identity", "preflight", "created", "failed",
         "classify", "again", "settle", "remove", "empty"}
Class == {"exact-clean-registered", "dirty", "mismatched", "occupied", "stale-registration",
          "absent"}

TreeTypeOK ==
  /\ parent \in BOOLEAN /\ root \in Root /\ reg \in BOOLEAN /\ unsafe \in BOOLEAN
  /\ pc \in [Proc -> Step] /\ fence \in [Proc -> 0..MaxFence] /\ copy \in [Proc -> 0..MaxRev]
  /\ seen \in [Proc -> [class : Class, parent : BOOLEAN]] /\ undone \subseteq Proc

TreeInit ==
  /\ parent = FALSE /\ root = "none" /\ reg = FALSE /\ unsafe \in BOOLEAN
  /\ pc = [p \in Proc |-> "idle"] /\ fence = [p \in Proc |-> 0] /\ copy = [p \in Proc |-> 0]
  /\ seen = [p \in Proc |-> [class |-> "absent", parent |-> FALSE]] /\ undone = {}

Goto(p, s) == pc' = [pc EXCEPT ![p] = s]
keepTree   == UNCHANGED <<parent, root, reg, unsafe>>
keepJournal == UNCHANGED journalVars

\* p has read the journal and acts on it; the attempt and revision it then knows.
Holds(p) == /\ fence' = [fence EXCEPT ![p] = journal'.fence]
            /\ copy' = [copy EXCEPT ![p] = journal'.rev]

-----------------------------------------------------------------------------
(* What is at the worker's path.                                           *)

\* assertManagedWorkerWorktree: adopted only when clean, at the base, and safe.
ExactClean == reg /\ root = "clean" /\ ~unsafe

\* classifyWorkerWorktreeEffect and, for "absent", captureWorkerWorktreeAbsenceProof.
Classify ==
  IF root = "none" THEN IF reg THEN "stale-registration" ELSE "absent"
  ELSE IF ~reg THEN "occupied"
  ELSE IF ExactClean THEN "exact-clean-registered"
  ELSE IF root \in {"clean", "edited"} THEN "dirty" ELSE "mismatched"

Observation == [class |-> Classify, parent |-> parent]

-----------------------------------------------------------------------------
(* createWorkerWorktree                                                    *)

\* git worktree remove --force: gone, refused, or given up half-way.
RemoveTree ==
  \/ root' = "none" /\ reg' = FALSE
  \/ UNCHANGED <<root, reg>>
  \/ root # "none" /\ root' = "partial" /\ reg' = FALSE

\* The processes that have made the tree, or have seen it, and go on from there.
WithTree == {q \in Proc : pc[q] \in {"checkout", "identity", "preflight", "created", "settle"}}

\* On its failure path p removes the tree, whosoever it is.
TakeAway(p) ==
  /\ RemoveTree
  /\ undone' = IF Actor(p, fence[p]) \/ UNCHANGED <<root, reg>> THEN undone
               ELSE undone \cup WithTree

StartProvisioning(p) ==
  /\ pc[p] = "idle"
  /\ StartAttempt(p, journal.rev) /\ Holds(p)
  /\ Goto(p, "mkdir")
  /\ keepTree /\ UNCHANGED <<alive, seen, undone>>

\* Mutant of MakeParent: a directory that is there is taken for a remnant and deleted.
MakeParentAnew(p) ==
  /\ pc[p] = "mkdir"
  /\ parent' = TRUE /\ root' = "none" /\ reg' = FALSE
  /\ Goto(p, "register")
  /\ keepJournal /\ UNCHANGED <<unsafe, fence, copy, seen, undone>>

MakeParent(p) ==
  /\ pc[p] = "mkdir"
  /\ parent' = TRUE
  /\ Goto(p, IF parent THEN "failed" ELSE "register")
  /\ keepJournal /\ UNCHANGED <<root, reg, unsafe, fence, copy, seen, undone>>

\* git worktree add refuses a path that is registered or occupied, or fails; the
\* parent is then removed, if it is empty.
RegisterWorktree(p) ==
  /\ pc[p] = "register"
  /\ \/ /\ ~reg /\ root = "none" /\ reg' = TRUE /\ root' = "partial" /\ parent' = TRUE
        /\ undone' = undone \ {p} /\ Goto(p, "checkout")
     \/ parent' = (parent /\ root # "none") /\ Goto(p, "failed") /\ UNCHANGED <<reg, root, undone>>
  /\ keepJournal /\ UNCHANGED <<unsafe, fence, copy, seen>>

\* When git fails it clears away the path it has begun with.
FinishCheckout(p) ==
  /\ pc[p] = "checkout"
  /\ \/ /\ root' = IF root = "partial" THEN "clean" ELSE root
        /\ Goto(p, "identity") /\ UNCHANGED <<parent, reg, undone>>
     \/ TakeAway(p) /\ parent' = (parent /\ root' # "none") /\ Goto(p, "failed")
  /\ keepJournal /\ UNCHANGED <<unsafe, fence, copy, seen>>

\* A checkout that is not at the base is removed, its parent stays; when a call that
\* reads it throws, it stays too.
CheckIdentity(p) ==
  /\ pc[p] = "identity"
  /\ \/ root \in {"partial", "clean", "edited"} /\ Goto(p, "preflight")
        /\ UNCHANGED <<root, reg, undone>>
     \/ Goto(p, "failed") /\ UNCHANGED <<root, reg, undone>>
     \/ root \notin {"clean", "edited"} /\ TakeAway(p) /\ Goto(p, "failed")
  /\ keepJournal /\ UNCHANGED <<parent, unsafe, fence, copy, seen>>

\* captureWorktreeEntries fails on a base that is unsafe, on a tree that changes
\* meanwhile, and whenever a call of git or of the file system does; whatever it
\* was, everything is removed.
Preflight(p) ==
  /\ pc[p] = "preflight"
  /\ \/ /\ root # "none" /\ (unsafe => root = "partial")
        /\ Goto(p, "created") /\ UNCHANGED <<parent, root, reg, undone>>
     \/ TakeAway(p) /\ parent' = (parent /\ root' # "none") /\ Goto(p, "failed")
  /\ keepJournal /\ UNCHANGED <<unsafe, fence, copy, seen>>

\* The tree that was made is published, of the journal as it is then, unless the
\* attempt is no longer current.
PublishReady(p) ==
  /\ pc[p] = "created"
  /\ \/ Publish(p, journal.rev, fence[p]) /\ Holds(p) /\ Goto(p, "idle")
     \/ ~(Actor(p, fence[p]) /\ journal.lease = "running")
        /\ Goto(p, "failed") /\ UNCHANGED <<journal, fence, copy>>
  /\ keepTree /\ UNCHANGED <<alive, seen, undone>>

\* The attempt ends: cleanup is planned by its holder, or somebody else has it.
EndAttempt(p) ==
  /\ pc[p] = "failed"
  /\ Goto(p, "idle")
  /\ \/ GiveUpAttempt(p, journal.rev, fence[p]) /\ Holds(p)
     \/ ~Actor(p, fence[p]) /\ UNCHANGED <<journal, fence, copy>>
  /\ keepTree /\ UNCHANGED <<alive, seen, undone>>

-----------------------------------------------------------------------------
(* Reclaim, cleanup and adoption                                           *)

\* A new attempt may make the tree itself, or give up what it finds.
TakeOver(p) ==
  /\ pc[p] = "idle"
  /\ Reclaim(p, journal.rev) /\ Holds(p)
  /\ \E s \in {"mkdir", "failed"} : Goto(p, s)
  /\ keepTree /\ UNCHANGED <<alive, seen, undone>>

PlanCleanup(p) ==
  /\ pc[p] = "idle"
  /\ Withdraw(journal.rev)
  /\ UNCHANGED <<alive, treeVars>>

CleanerIsGone(p) == journal.cleaner \in {None, p} \cup {q \in Proc : ~alive[q]}

Reconciling == {"again", "settle", "remove", "empty"}

\* One coordinator at a time: acquireWorkspaceProcessLease.
Reconcile(p) ==
  /\ pc[p] = "idle" /\ journal.state = "cleanup_pending" /\ CleanerIsGone(p)
  /\ \A q \in Proc : pc[q] \in Reconciling => ~alive[q]
  /\ copy' = [copy EXCEPT ![p] = journal.rev]
  /\ seen' = [seen EXCEPT ![p] = Observation] /\ undone' = undone \ {p}
  /\ Goto(p, IF Classify = "absent" THEN "again" ELSE "settle")
  /\ keepJournal /\ keepTree /\ UNCHANGED fence

\* Absence is observed twice; what changed in between is ambiguous.
ObserveAgain(p) ==
  /\ pc[p] = "again"
  /\ Goto(p, IF Observation = seen[p] THEN "settle" ELSE "idle")
  /\ keepJournal /\ keepTree /\ UNCHANGED <<fence, copy, seen, undone>>

\* What the observation allows: adoption of an exact tree, a new attempt or the end
\* on proven absence, otherwise removal, or failure.
Settle(p) ==
  /\ pc[p] = "settle"
  /\ \/ /\ seen[p].class = "exact-clean-registered" /\ Adopt(copy[p]) /\ Goto(p, "idle")
     \/ /\ seen[p].class = "absent" /\ Reissue(copy[p])
        /\ Goto(p, IF seen[p].parent THEN "empty" ELSE "idle")
     \/ seen[p].class = "absent" /\ Clean(copy[p]) /\ Goto(p, "idle")
     \/ seen[p].class # "absent" /\ journal.rev = copy[p]
        /\ Goto(p, "remove") /\ UNCHANGED journal
     \/ Fail(copy[p]) /\ Goto(p, "idle")
     \/ journal.rev # copy[p] /\ Goto(p, "idle") /\ UNCHANGED journal
  /\ keepTree /\ UNCHANGED <<alive, fence, copy, seen, undone>>

\* removeWorkerWorktree: only what Git has registered.
RemoveWorktree(p) ==
  /\ pc[p] = "remove"
  /\ IF root # "none" /\ reg THEN RemoveTree /\ parent' = (parent /\ root' # "none")
     ELSE UNCHANGED <<root, reg, parent>>
  /\ Goto(p, "idle")
  /\ keepJournal /\ UNCHANGED <<unsafe, fence, copy, seen, undone>>

\* removeEmptyWorkerWorktreeParent.
RemoveEmptyParent(p) ==
  /\ pc[p] = "empty"
  /\ parent' = (parent /\ root # "none")
  /\ Goto(p, "idle")
  /\ keepJournal /\ UNCHANGED <<root, reg, unsafe, fence, copy, seen, undone>>

ConfirmOrFail(p) ==
  /\ pc[p] = "idle"
  /\ Confirm(journal.rev) \/ (journal.state # "cleanup_pending" /\ Fail(journal.rev))
  /\ UNCHANGED <<alive, treeVars>>

-----------------------------------------------------------------------------
(* Everybody else.                                                         *)

\* The provider of a ready worker edits its tree, and may commit.
ProviderEdits ==
  /\ journal.state = "ready" /\ root \in {"clean", "edited"} /\ root' \in {"edited", "moved"}
  /\ keepJournal /\ UNCHANGED <<parent, reg, unsafe, pc, fence, copy, seen, undone>>

Crash(p) ==
  /\ alive[p] /\ Cardinality({q \in Proc : ~alive[q]}) < MaxCrashes
  /\ alive' = [alive EXCEPT ![p] = FALSE]
  /\ UNCHANGED <<journal, treeVars>>

HostStep(p) ==
  /\ alive[p]
  /\ \/ StartProvisioning(p) \/ MakeParent(p) \/ RegisterWorktree(p) \/ FinishCheckout(p)
     \/ CheckIdentity(p) \/ Preflight(p) \/ PublishReady(p) \/ EndAttempt(p)
     \/ TakeOver(p) \/ PlanCleanup(p) \/ Reconcile(p) \/ ObserveAgain(p) \/ Settle(p)
     \/ RemoveWorktree(p) \/ RemoveEmptyParent(p) \/ ConfirmOrFail(p)

WorktreeInit == JournalInit /\ TreeInit

WorktreeNext ==
  \/ \E p \in Proc : HostStep(p) \/ Crash(p)
  \/ LeaseRunsOut /\ UNCHANGED treeVars
  \/ ProviderEdits

WorktreeSpec == WorktreeInit /\ [][WorktreeNext]_workerVars

-----------------------------------------------------------------------------
\* A journal becomes ready only when the tree is there, registered, checked out at
\* the base, clean and safe, however many attempts, slow or dead, have worked on it:
\* but for one case, that after its publisher made or saw the tree a provisioner that
\* had lost its attempt took it away.  No step of any other process comes between.
ReadyIsExact ==
  [][journal.state # "ready" /\ journal'.state = "ready" =>
       ExactClean' \/ \E p \in undone : pc'[p] # pc[p]]_workerVars

\* Whoever removes the tree of a ready worker is a provisioner that has lost its
\* attempt to a lease that ran out and has not noticed: the removal on the failure
\* path of createWorkerWorktree is the one step the journal does not fence.
GivesUp(p) == pc[p] \in {"checkout", "identity", "preflight"} /\ pc'[p] = "failed"

TreeOutlivesOthers ==
  [][journal.state = "ready" /\ journal'.state = "ready" /\ root # "none" /\ root' = "none"
       => \E p \in Proc : alive[p] /\ GivesUp(p)]_workerVars
===============================================================================
