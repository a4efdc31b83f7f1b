----------------------------- MODULE WorkerJournal -----------------------------
(***************************************************************************)
(* The provisioning journal of a worker (worker-execution-binding.mjs): one *)
(* record per worker, each revision of which names the one before, with the *)
(* attempt that may provision the worker's tree.  The attempt has a fence   *)
(* that grows with every attempt, a holder, and a lease.  Timestamps are    *)
(* reduced to whether they are set; the lease to whether it has run out.    *)
(***************************************************************************)
EXTENDS Naturals, FiniteSets

CONSTANTS
  None,
  Proc,       \* the host processes that provision, reconcile and clean up
  MaxFence,   \* bound: attempts
  MaxRev      \* bound: revisions of the journal

ASSUME JournalAssumption == /\ IsFiniteSet(Proc) /\ None \notin Proc
                            /\ MaxFence \in Nat /\ MaxRev \in Nat

VARIABLES
  journal,    \* the durable journal
  alive       \* host processes

journalVars == <<journal, alive>>

JournalState == {"planned", "provisioning", "ready", "cleanup_pending", "reissue_planned",
                 "cleaned", "failed"}
Terminal     == {"cleaned", "failed"}

\* The fence stands for the attempt too: both are new together.
Journal == [state : JournalState, rev : 0..MaxRev, fence : 0..MaxFence,
            holder : Proc \cup {None}, cleaner : Proc \cup {None},
            lease : {"none", "running", "over"},
            provisioned : BOOLEAN, ready : BOOLEAN, cleanup : BOOLEAN, archived : BOOLEAN]

JournalTypeOK == journal \in Journal /\ alive \in [Proc -> BOOLEAN]

\* createProvisioningJournal.
Planned == [state |-> "planned", rev |-> 0, fence |-> 0, holder |-> None, cleaner |-> None,
            lease |-> "none", provisioned |-> FALSE, ready |-> FALSE, cleanup |-> FALSE,
            archived |-> FALSE]

JournalInit == journal = Planned /\ alive = [p \in Proc |-> TRUE]

-----------------------------------------------------------------------------
(* assertJournalStateShape: what every journal is checked for, before and    *)
(* after a transition.                                                       *)

HasAttempt(j) == j.fence > 0

LeaseShape(j) ==
  IF j.state = "provisioning"
    THEN j.holder # None /\ HasAttempt(j) /\ j.provisioned /\ j.lease # "none"
    ELSE j.holder = None /\ j.lease = "none"

ReissueShape(j) ==
  /\ j.archived => j.state # "planned" /\ j.fence >= 2
  /\ j.state = "reissue_planned" => j.archived

CleanerShape(j) ==
  (j.cleaner # None) = (/\ j.state \in {"cleanup_pending"} \cup Terminal
                        /\ j.cleanup /\ HasAttempt(j) /\ ~j.ready)

TimeShape(j) ==
  CASE j.state \in {"planned", "reissue_planned"} -> ~j.provisioned /\ ~j.ready /\ ~j.cleanup
    [] j.state = "provisioning"    -> j.provisioned /\ ~j.ready /\ ~j.cleanup
    [] j.state = "ready"           -> j.provisioned /\ j.ready /\ ~j.cleanup
    [] j.state \in {"cleanup_pending", "cleaned"} -> j.provisioned = HasAttempt(j) /\ j.cleanup
    [] j.state = "failed"          -> \/ j.archived /\ ~j.provisioned /\ ~j.cleanup
                                      \/ /\ j.provisioned = HasAttempt(j)
                                         /\ HasAttempt(j) => j.cleanup

Shape(j) == /\ (j.rev = 0) = (j.state = "planned")
            /\ LeaseShape(j) /\ ReissueShape(j) /\ CleanerShape(j) /\ TimeShape(j)

-----------------------------------------------------------------------------
(* transitionProvisioningJournal and reclaimProvisioningJournal: the next    *)
(* revision, by edge.                                                        *)

Revised(s) == [journal EXCEPT !.state = s, !.rev = @ + 1]

ToProvisioning(p) ==
  [Revised("provisioning") EXCEPT
     !.fence = IF journal.state = "reissue_planned" THEN @ ELSE @ + 1,
     !.holder = p, !.lease = "running", !.provisioned = TRUE]

ToReady == [Revised("ready") EXCEPT !.holder = None, !.lease = "none", !.ready = TRUE,
                                    !.cleaner = None, !.cleanup = FALSE]

ToCleanup == [Revised("cleanup_pending") EXCEPT
                !.cleanup = TRUE, !.cleaner = journal.holder, !.holder = None, !.lease = "none"]

ToReissue == [Revised("reissue_planned") EXCEPT
                !.fence = @ + 1, !.cleaner = None, !.provisioned = FALSE, !.cleanup = FALSE,
                !.archived = TRUE]

\* A transition is made of the revision the caller has read, on a legal edge.
Transition(rev, next) ==
  /\ rev = journal.rev
  /\ next.fence <= MaxFence /\ next.rev <= MaxRev
  /\ Shape(next)
  /\ journal' = next

\* assertProvisioningActor.
\* Mutant of Actor: the fence is not compared.
ActorOfAny(p, fence) == journal.state = "provisioning"

Actor(p, fence) ==
  journal.state = "provisioning" /\ fence = journal.fence /\ p = journal.holder

StartAttempt(p, rev) ==
  /\ journal.state \in {"planned", "reissue_planned"}
  /\ Transition(rev, ToProvisioning(p))

Publish(p, rev, fence) ==
  /\ Actor(p, fence) /\ journal.lease = "running"
  /\ Transition(rev, ToReady)

GiveUpAttempt(p, rev, fence) == Actor(p, fence) /\ Transition(rev, ToCleanup)

Withdraw(rev) == journal.state \in {"planned", "ready"} /\ Transition(rev, ToCleanup)

Adopt(rev) == journal.state = "cleanup_pending" /\ Transition(rev, ToReady)

Reissue(rev) ==
  /\ journal.state = "cleanup_pending" /\ ~journal.ready
  /\ Transition(rev, ToReissue)

\* The host may also confirm a reissue that is planned already.
Confirm(rev) == journal.state = "reissue_planned" /\ Transition(rev, Revised("reissue_planned"))

Clean(rev) == journal.state = "cleanup_pending" /\ Transition(rev, Revised("cleaned"))

Fail(rev) ==
  /\ journal.state \in {"planned", "reissue_planned", "cleanup_pending"}
  /\ Transition(rev, Revised("failed"))

\* assertReclaimEvidence: the holder is dead, or its lease has run out.
Reclaim(p, rev) ==
  /\ journal.state = "provisioning" /\ p # journal.holder
  /\ ~alive[journal.holder] \/ journal.lease = "over"
  /\ Transition(rev, ToProvisioning(p))

LeaseRunsOut ==
  /\ journal.lease = "running"
  /\ journal' = [journal EXCEPT !.lease = "over"]
  /\ UNCHANGED alive
===============================================================================
