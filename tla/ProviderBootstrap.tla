-------------------------- MODULE ProviderBootstrap --------------------------
(***************************************************************************)
(* How the plugin starts Grok and stops it (grok-provider.mjs,              *)
(* provider-bootstrap.mjs, recursion-guard.mjs).  The parent commits an     *)
(* intent and spawns a bootstrap, the leader of a process group of its own. *)
(* The bootstrap registers a guard on disk, starts Grok in its group, says  *)
(* that it is ready, and is promoted by the parent.  Parent, bootstrap and  *)
(* Grok may end at any point; a later call recovers what they left.  A      *)
(* launch is for a task, or for a controller that provisions a worktree.    *)
(***************************************************************************)
EXTENDS Naturals, FiniteSets

CONSTANTS
  MaxGen,         \* bound: launches, each a provider generation
  MaxEnds,        \* bound: parents and bootstraps that die
  MaxStuck        \* bound: process groups that outlive SIGKILL for a while

ASSUME ProviderAssumption == MaxGen \in Nat \ {0} /\ MaxEnds \in Nat /\ MaxStuck \in Nat

Gen == 1..MaxGen

VARIABLES
  job,      \* the durable job: launch, its kind and intent, recorded process, cleanup fence
  guard,    \* the generation that the guard file names, 0 without one
  boot,     \* the bootstrap of each generation
  grok,     \* generations whose Grok is alive
  launcher,   \* what the parent does next
  cred,     \* the staged credential is readable
  profile,  \* the staged agent profile is there
  prompted, \* generations that were given a prompt
  found,   \* what recovery found to terminate, once it has looked
  ends, stuck

providerVars == <<job, guard, boot, grok, launcher, cred, profile, prompted, found, ends, stuck>>

Intent == {"none", "pending", "registered", "no-child", "recovered"}
BootStage == {"none", "spec", "register", "spawn", "publish", "serve", "drain", "unregister", "gone"}
ParentStage == {"idle", "spawn", "identity", "activate", "ready", "event", "promote", "ack", "init",
                "session", "prompt", "answer", "finish", "cleanup", "unguard", "settle", "release",
                "retained", "dead"}

ProviderTypeOK ==
  /\ job \in [gen : 0..MaxGen, kind : {"task", "provision"}, intent : Intent,
              recorded : BOOLEAN, fenced : BOOLEAN]
  /\ guard \in 0..MaxGen
  /\ boot \in [Gen -> [at : BootStage, spec : BOOLEAN, said : {"nothing", "ready", "error"},
                       control : {"open", "written", "closed"}, promoted : BOOLEAN]]
  /\ grok \subseteq Gen
  /\ launcher \in [at : ParentStage, from : ParentStage]
  /\ cred \in BOOLEAN /\ profile \in BOOLEAN
  /\ prompted \subseteq Gen
  /\ found \in [known : BOOLEAN, gens : SUBSET Gen]
  /\ ends \in 0..MaxEnds /\ stuck \in 0..MaxStuck

ProviderInit ==
  /\ job = [gen |-> 0, kind |-> "task", intent |-> "none", recorded |-> FALSE, fenced |-> FALSE]
  /\ guard = 0
  /\ boot = [g \in Gen |-> [at |-> "none", spec |-> FALSE, said |-> "nothing", control |-> "open",
                            promoted |-> FALSE]]
  /\ grok = {}
  /\ launcher = [at |-> "idle", from |-> "idle"]
  /\ cred = FALSE /\ profile = FALSE
  /\ prompted = {}
  /\ found = [known |-> FALSE, gens |-> {}]
  /\ ends = 0 /\ stuck = 0

g0 == job.gen                                  \* the generation of the parent's launch
Provisioning == job.kind = "provision"

Alive(g)     == boot[g].at \notin {"none", "gone"}
GroupGone(g) == ~Alive(g) /\ g \notin grok      \* processGroupGone

To(s)        == launcher' = [launcher EXCEPT !.at = s]
FailAt(s)    == launcher' = [at |-> s, from |-> launcher.at]
BootTo(g, s) == boot' = [boot EXCEPT ![g].at = s]

-----------------------------------------------------------------------------
(* openProvider: the launch.                                               *)

\* providerLaunch.prepare commits a fresh intent; profile and, for a task, credential
\* are staged.
Prepare(kind) ==
  /\ launcher.at = "idle" /\ g0 < MaxGen
  /\ job' = [gen |-> g0 + 1, kind |-> kind, intent |-> "pending", recorded |-> FALSE, fenced |-> FALSE]
  /\ profile' = TRUE /\ cred' = (kind = "task")
  /\ To("spawn")
  /\ UNCHANGED <<guard, boot, grok, prompted, found, ends, stuck>>

\* The specification of a task is written at once, that of a controller once its
\* process is on record.
Spawn ==
  /\ launcher.at = "spawn"
  /\ boot' = [boot EXCEPT ![g0].at = "spec", ![g0].spec = ~Provisioning]
  /\ To("identity")
  /\ UNCHANGED <<job, guard, grok, cred, profile, prompted, found, ends, stuck>>

SpawnFails ==
  /\ launcher.at = "spawn"
  /\ job' = [job EXCEPT !.intent = "no-child"]
  /\ profile' = FALSE /\ cred' = FALSE
  /\ To("idle")
  /\ UNCHANGED <<guard, boot, grok, prompted, found, ends, stuck>>

\* captureSpawnIdentity: without a birth token the group is stopped, or retained.
CaptureIdentity ==
  /\ launcher.at = "identity"
  /\ To(IF Provisioning THEN "activate" ELSE "ready")
  /\ UNCHANGED <<job, guard, boot, grok, cred, profile, prompted, found, ends, stuck>>

NoIdentity ==
  /\ launcher.at = "identity"
  /\ \/ /\ boot' = [boot EXCEPT ![g0].at = "gone"] /\ grok' = grok \ {g0}
        /\ job' = [job EXCEPT !.intent = "no-child"]
        /\ profile' = FALSE /\ cred' = FALSE
        /\ To("idle") /\ UNCHANGED stuck
     \/ /\ stuck < MaxStuck /\ stuck' = stuck + 1 /\ ~GroupGone(g0)
        /\ To("retained") /\ UNCHANGED <<job, boot, grok, cred, profile>>
  /\ UNCHANGED <<guard, prompted, found, ends>>

\* providerLaunch.registerBootstrap puts the process on record; only then is the
\* controller's credential staged.
Activate ==
  /\ launcher.at = "activate"
  /\ cred' = TRUE /\ boot' = [boot EXCEPT ![g0].spec = TRUE]
  /\ To("ready")
  /\ UNCHANGED <<job, guard, grok, profile, prompted, found, ends, stuck>>

\* waitForProviderBootstrapReady and authenticateProviderBootstrapGuard.
SeeReady ==
  /\ launcher.at = "ready" /\ boot[g0].said = "ready"
  /\ IF guard = g0 /\ job.intent \in {"pending", "registered"} THEN To("event") ELSE FailAt("cleanup")
  /\ UNCHANGED <<job, guard, boot, grok, cred, profile, prompted, found, ends, stuck>>

\* The provider event makes the process durable in the job.
RecordProvider ==
  /\ launcher.at = "event"
  /\ job' = [job EXCEPT !.recorded = TRUE]
  /\ To("promote")
  /\ UNCHANGED <<guard, boot, grok, cred, profile, prompted, found, ends, stuck>>

Promote ==
  /\ launcher.at = "promote"
  /\ boot' = [boot EXCEPT ![g0].control = "written"]
  /\ To("ack")
  /\ UNCHANGED <<job, guard, grok, cred, profile, prompted, found, ends, stuck>>

SeePromoted ==
  /\ launcher.at = "ack" /\ boot[g0].promoted
  /\ To("init")
  /\ UNCHANGED <<job, guard, boot, grok, cred, profile, prompted, found, ends, stuck>>

\* The answer of a live Grok to "initialize"; a controller needs its credential no more.
Initialize ==
  /\ launcher.at = "init" /\ g0 \in grok
  /\ cred' = (cred /\ ~Provisioning)
  /\ To(IF Provisioning THEN "answer" ELSE "session")
  /\ UNCHANGED <<job, guard, boot, grok, profile, prompted, found, ends, stuck>>

-----------------------------------------------------------------------------
(* runProvider                                                             *)

\* authenticate and session/new; then the credential is revoked.
OpenSession ==
  /\ launcher.at = "session" /\ g0 \in grok
  /\ cred' = FALSE
  /\ To("prompt")
  /\ UNCHANGED <<job, guard, boot, grok, profile, prompted, found, ends, stuck>>

Prompt ==
  /\ launcher.at = "prompt"
  /\ prompted' = prompted \cup {g0}
  /\ To("answer")
  /\ UNCHANGED <<job, guard, boot, grok, cred, profile, found, ends, stuck>>

\* The turn ends, or anything after the promotion fails: an error, a timeout, a
\* cancellation, the end of Grok.  The credential is revoked and stdin closed.
EndTurn ==
  /\ launcher.at \in {"session", "prompt", "answer"}
  /\ cred' = FALSE
  /\ To("finish")
  /\ UNCHANGED <<job, guard, boot, grok, profile, prompted, found, ends, stuck>>

\* Before that every failure, timeout or cancellation leads to a cleanup.
StartFails ==
  /\ launcher.at \in {"activate", "ready", "event", "promote", "ack", "init"}
  /\ FailAt("cleanup")
  /\ UNCHANGED <<job, guard, boot, grok, cred, profile, prompted, found, ends, stuck>>

\* ensureChildExit: TERM leaves the group to the bootstrap, KILL ends it.
Exits(s) ==
  \/ /\ boot' = [boot EXCEPT ![g0].at = "gone"] /\ grok' = grok \ {g0}
     /\ To(s) /\ UNCHANGED <<stuck, cred>>
  \/ GroupGone(g0) /\ To(s) /\ UNCHANGED <<boot, grok, stuck, cred>>

Outlives ==
  /\ stuck < MaxStuck /\ stuck' = stuck + 1 /\ ~GroupGone(g0)
  /\ To("retained") /\ UNCHANGED <<boot, grok>>

\* The error of a cleanup carries the identity of what is left, and the credential is
\* kept; the one after a failed provider event carries none.
EnsureExit ==
  /\ \/ launcher.at = "cleanup" /\ Exits("unguard")
     \/ launcher.at = "cleanup" /\ Outlives /\ cred' = (cred /\ launcher.from # "event")
     \/ launcher.at = "finish" /\ Exits("release")
     \/ launcher.at = "finish" /\ Outlives /\ UNCHANGED cred
  /\ UNCHANGED <<job, guard, profile, prompted, found, ends>>

\* cleanupBoundBootstrapStart: the exact guard goes, then the profile.
Unguard ==
  /\ launcher.at = "unguard"
  /\ IF guard \in {0, g0} THEN guard' = 0 /\ profile' = FALSE /\ To("settle")
     ELSE To("retained") /\ UNCHANGED <<guard, profile>>
  /\ UNCHANGED <<job, boot, grok, cred, prompted, found, ends, stuck>>

\* recordBoundBootstrapNoChild; a task that failed once it was recorded keeps its intent.
SettleNoChild ==
  /\ launcher.at = "settle"
  /\ job' = IF Provisioning \/ launcher.from \in {"ready", "event"}
              THEN [job EXCEPT !.intent = "no-child"] ELSE job
  /\ cred' = FALSE
  /\ To("idle")
  /\ UNCHANGED <<guard, boot, grok, profile, prompted, found, ends, stuck>>

\* The finally block: a profile is kept when the guard is not the expected one.
ReleaseGuard ==
  /\ launcher.at = "release"
  /\ IF guard \in {0, g0} THEN guard' = 0 /\ profile' = FALSE ELSE UNCHANGED <<guard, profile>>
  /\ To("idle")
  /\ UNCHANGED <<job, boot, grok, cred, prompted, found, ends, stuck>>

-----------------------------------------------------------------------------
(* runProviderBootstrap                                                    *)

keepParent == UNCHANGED <<launcher, cred, profile, prompted, found, stuck>>

ParentGone == launcher.at = "dead"

\* The specification, or the end of its pipe.
ReadSpec(g) ==
  /\ boot[g].at = "spec" /\ (boot[g].spec \/ ParentGone \/ g # g0)
  /\ BootTo(g, IF boot[g].spec THEN "register" ELSE "gone")
  /\ keepParent /\ UNCHANGED <<job, guard, grok, ends>>

MayRegister(g) ==
  job.gen = g /\ ~job.fenced /\ job.intent \in {"pending", "registered"} /\ guard \in {0, g}

\* registerProviderGuard, with the intent under the lock of the workspace.
RegisterGuard(g) ==
  /\ boot[g].at = "register"
  /\ IF MayRegister(g)
       THEN /\ guard' = g /\ job' = [job EXCEPT !.intent = "registered"]
            /\ BootTo(g, "spawn")
       ELSE /\ boot' = [boot EXCEPT ![g].at = "gone", ![g].said = "error"]
            /\ UNCHANGED <<guard, job>>
  /\ keepParent /\ UNCHANGED <<grok, ends>>

\* The version is checked and Grok started, in the group.
SpawnGrok(g) ==
  /\ boot[g].at = "spawn"
  /\ \/ grok' = grok \cup {g} /\ BootTo(g, "publish")
     \/ boot' = [boot EXCEPT ![g].at = "gone", ![g].said = "error"] /\ UNCHANGED grok
  /\ keepParent /\ UNCHANGED <<job, guard, ends>>

SayReady(g) ==
  /\ boot[g].at = "publish"
  /\ boot' = IF g \in grok THEN [boot EXCEPT ![g].at = "serve", ![g].said = "ready"]
             ELSE [boot EXCEPT ![g].at = "drain", ![g].said = "error"]
  /\ keepParent /\ UNCHANGED <<job, guard, grok, ends>>

AcknowledgePromotion(g) ==
  /\ boot[g].at = "serve" /\ boot[g].control = "written" /\ ~boot[g].promoted
  /\ boot' = [boot EXCEPT ![g].promoted = TRUE]
  /\ keepParent /\ UNCHANGED <<job, guard, grok, ends>>

\* A closed pipe (of control before the promotion, of stdin after it), TERM from the
\* parent, or the end of Grok.
Stop(g) ==
  /\ boot[g].at = "serve"
  /\ \/ ParentGone \/ g # g0 \/ launcher.at \in {"cleanup", "finish"} \/ g \notin grok
  /\ BootTo(g, "drain")
  /\ keepParent /\ UNCHANGED <<job, guard, grok, ends>>

\* waitForDescendantsToDrain: TERM to the group, then KILL, which ends the bootstrap too.
Drain(g) ==
  /\ boot[g].at = "drain"
  /\ \/ g \in grok /\ grok' = grok \ {g} /\ UNCHANGED boot
     \/ g \in grok /\ grok' = grok \ {g} /\ BootTo(g, "gone")
     \/ g \notin grok /\ BootTo(g, IF boot[g].promoted THEN "unregister" ELSE "gone") /\ UNCHANGED grok
  /\ keepParent /\ UNCHANGED <<job, guard, ends>>

BootUnregister(g) ==
  /\ boot[g].at = "unregister"
  /\ guard' = IF guard = g THEN 0 ELSE guard
  /\ BootTo(g, "gone")
  /\ keepParent /\ UNCHANGED <<job, grok, ends>>

BootStep(g) == \/ ReadSpec(g) \/ RegisterGuard(g) \/ SpawnGrok(g) \/ SayReady(g)
               \/ AcknowledgePromotion(g) \/ Stop(g) \/ Drain(g) \/ BootUnregister(g)

-----------------------------------------------------------------------------
(* Ends, and what is done about them.                                      *)

GrokExits(g) ==
  /\ g \in grok /\ grok' = grok \ {g}
  /\ keepParent /\ UNCHANGED <<job, guard, boot, ends>>

BootDies(g) ==
  /\ Alive(g) /\ ends < MaxEnds /\ ends' = ends + 1
  /\ BootTo(g, "gone")
  /\ keepParent /\ UNCHANGED <<job, guard, grok>>

ParentDies ==
  /\ launcher.at \notin {"idle", "dead"} /\ ends < MaxEnds /\ ends' = ends + 1
  /\ To("dead")
  /\ UNCHANGED <<job, guard, boot, grok, cred, profile, prompted, found, stuck>>

\* Mutant of Scan: the leader alone is looked at.
ScanLeader ==
  /\ guard # 0 /\ ~Alive(guard) /\ guard' = 0
  /\ keepParent /\ UNCHANGED <<job, boot, grok, ends>>

\* hasForeignActiveProvider of the same owner removes the guard of a group that is gone.
Scan ==
  /\ guard # 0 /\ GroupGone(guard) /\ guard' = 0
  /\ keepParent /\ UNCHANGED <<job, boot, grok, ends>>

\* A later call fences the job ...
Fence ==
  /\ launcher.at \in {"retained", "dead"} /\ ~job.fenced
  /\ job' = [job EXCEPT !.fenced = TRUE]
  /\ keepParent /\ UNCHANGED <<guard, boot, grok, ends>>

\* ... asks resolveProviderCleanupTarget what there is to terminate ...
Resolve ==
  /\ job.fenced /\ launcher.at \in {"retained", "dead"} /\ ~found.known
  /\ found' = [known |-> TRUE, gens |-> IF job.recorded \/ guard = g0 THEN {g0} ELSE {}]
  /\ UNCHANGED <<job, guard, boot, grok, launcher, cred, profile, prompted, ends, stuck>>

\* ... terminates it (terminateOwnedProcess refuses a group whose leader is gone) ...
TerminateOwned ==
  /\ \E g \in found.gens : Alive(g) /\ BootTo(g, "gone") /\ grok' = grok \ {g}
  /\ keepParent /\ UNCHANGED <<job, guard, ends>>

\* ... and once that is gone deletes guard, credential and profile under the lock of the
\* workspace.
Recover ==
  /\ found.known /\ launcher.at \in {"retained", "dead"}
  /\ \A g \in found.gens : GroupGone(g)
  /\ job' = [job EXCEPT !.intent = "recovered"]
  /\ guard' = IF guard = g0 THEN 0 ELSE guard
  /\ cred' = FALSE /\ profile' = FALSE
  /\ found' = [known |-> FALSE, gens |-> {}]
  /\ To("idle")
  /\ UNCHANGED <<boot, grok, prompted, ends, stuck>>

ParentStep ==
  \/ \E kind \in {"task", "provision"} : Prepare(kind)
  \/ Spawn \/ SpawnFails \/ CaptureIdentity \/ NoIdentity \/ Activate \/ SeeReady
  \/ RecordProvider \/ Promote \/ SeePromoted \/ Initialize \/ OpenSession \/ Prompt \/ EndTurn
  \/ StartFails \/ EnsureExit \/ Unguard \/ SettleNoChild \/ ReleaseGuard

ProviderNext ==
  \/ ParentStep
  \/ \E g \in Gen : BootStep(g) \/ GrokExits(g) \/ BootDies(g)
  \/ ParentDies \/ Scan \/ Fence \/ Resolve \/ TerminateOwned \/ Recover

ProviderSpec == ProviderInit /\ [][ProviderNext]_providerVars

-----------------------------------------------------------------------------
\* As long as a Grok lives the guard names it and its agent profile is there, whichever
\* of its parent, its leader, recovery or a scan came first: nobody takes the workspace
\* for free of providers, or a file from a group that may still read it.
GrokIsCovered == \A g \in grok : guard = g /\ g = g0 /\ profile
===============================================================================
