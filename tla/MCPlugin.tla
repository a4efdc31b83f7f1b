------------------------------ MODULE MCPlugin ------------------------------
(***************************************************************************)
(* The local plugin in one run: the worktree of a worker, its artifact, the *)
(* host's decisions, the start of Grok, its credential, the client that talks  *)
(* to it, the walk over the metadata, the captures of the checkout and the  *)
(* job records.                                                             *)
(* The parts share no state, so each is explored from initial states of its *)
(* own: the instance is their sum.                                          *)
(***************************************************************************)
EXTENDS WorkerWorktree, WorkerArtifact, HostAction, ProviderBootstrap, AcpClient,
        MetadataWalk, TaskContext, JobRecords, TaskCredential

VARIABLES
  part,      \* the component that is explored
  reliable   \* every call of git is answered while the checkout is captured

Vars == <<workerVars, artifactVars, decisionVars, providerVars, acpVars, walkVars,
          contextVars, jobVars, credentialVars, part, reliable>>

Init == /\ WorktreeInit /\ ArtifactInit /\ DecisionInit /\ ProviderInit /\ AcpInit
        /\ WalkInit /\ ContextInit /\ JobsInit /\ CredentialInit
        /\ part \in {"tree", "artifact", "decision", "provider", "acp", "walk", "context",
                    "jobs", "credential"}
        /\ reliable \in BOOLEAN
        /\ ~reliable => part = "context" /\ setting.linked /\ setting.version = 2
        /\ ~reliable \/ tree # CleanTree => ~setting.many /\ setting.upstream = "none"
        /\ part # "tree" => ~unsafe
        /\ part # "credential" => purpose = "close"
        /\ part # "jobs" => record = [j \in Job |-> NoJob]
        /\ part # "walk" => nodes["config"].kind = "file" /\ nodes["link"].kind = "link"
        /\ part # "context" =>
             /\ tree = CleanTree /\ setting.linked /\ setting.version = 2
             /\ ~setting.many /\ setting.upstream = "none"

Others(p) ==
  /\ part = p /\ UNCHANGED <<part, reliable>>
  /\ p # "tree" => UNCHANGED workerVars
  /\ p # "artifact" => UNCHANGED artifactVars
  /\ p # "decision" => UNCHANGED decisionVars
  /\ p # "provider" => UNCHANGED providerVars
  /\ p # "acp" => UNCHANGED acpVars
  /\ p # "walk" => UNCHANGED walkVars
  /\ p # "context" => UNCHANGED contextVars
  /\ p # "jobs" => UNCHANGED jobVars
  /\ p # "credential" => UNCHANGED credentialVars

(* Processes differ in nothing but their names: of those that have done nothing  *)
(* so far, or are at rest, it is always the same one that begins.                *)
NotYetUsed(w) == alive[w] /\ pc[w] = "idle" /\ fence[w] = 0 /\ copy[w] = 0
FirstProcess ==
  \A w \in Proc : NotYetUsed(w) /\ ~NotYetUsed(w)' => w = CHOOSE q \in Proc : NotYetUsed(q)
FirstClient ==
  \A c \in Client : doing[c] = Idle /\ doing'[c] # Idle =>
    c = CHOOSE d \in Client : doing[d] = Idle

(* As many changes and turns as the bounds allow while git answers every call,   *)
(* and one change and one turn, of a task in a linked worktree, while a call of   *)
(* every capture may fail.                                                       *)
FewerWhenGitFails ==
  /\ reliable /\ half' # NoManifest => half'.failed = {}
  /\ ~reliable => changes' <= 1 /\ turn' <= 1

Next ==
  \/ Others("tree") /\ WorktreeNext /\ FirstProcess
  \/ Others("artifact") /\ ArtifactNext
  \/ Others("decision") /\ DecisionNext
  \/ Others("provider") /\ ProviderNext
  \/ Others("acp") /\ AcpNext
  \/ Others("walk") /\ WalkNext
  \/ Others("context") /\ ContextNext /\ FewerWhenGitFails
  \/ Others("jobs") /\ JobsNext /\ FirstClient
  \/ Others("credential") /\ CredentialNext

Spec == Init /\ [][Next]_Vars
=============================================================================
