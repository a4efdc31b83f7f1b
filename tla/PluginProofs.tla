---------------------------- MODULE PluginProofs ----------------------------
(***************************************************************************)
(* What holds of the local plugin for every number of launches, processes,  *)
(* callers, files and faults: the credential lent to Grok is revoked, a Grok *)
(* that lives is covered by its guard and its profile, the captures of the  *)
(* checkout show every write outside of the scope and nothing else; of a    *)
(* worker, the decision its owner makes for it, the artifact it publishes   *)
(* and the tree it works in; of the client of Grok, the one delivery of an  *)
(* uncontested answer; of the walk over Git's files, an identity of one     *)
(* instant.                                                                 *)
(***************************************************************************)
EXTENDS TaskCredential, ProviderBootstrap, TaskContext, WorkerWorktree, WorkerArtifact, HostAction,
        AcpClient, MetadataWalk, FiniteSetTheorems, WellFoundedInduction, TLAPS

-----------------------------------------------------------------------------
(* The credential.  A revocation is under way only once Grok can refresh no *)
(* more, so what it has emptied and unlinked stays so.                      *)

FileNames == [auth : Nat, staging : Nat, tmp : Nat]
Revoking == {"adopt", "temporary", "truncate", "unlink", "unlink-failed", "again", "revoked",
             "proved"}

CredentialTypeOK ==
  /\ purpose \in {"provision", "close"}
  /\ file \in FileNames
  /\ made \in Nat
  /\ secret \subseteq Nat \ {0}
  /\ fd \in [open : Nat, bound : Nat]
  /\ temporary \in Nat

NotStartedYet == stage \in {"idle", "link", "unstage"} => agent = "none"
AtRest        == agent \in {"none", "starting", "answered"} => file.tmp = 0
NoMoreRefresh == stage \in Revoking => MayRevoke
Unstaged      == stage \notin {"link", "unstage", "dead", "cleaned"} => file.staging = 0
ProvedAbsent  == stage = "proved" => file.auth = 0 /\ (Closing => file.tmp = 0)
CleanedAbsent == stage = "cleaned" => file.auth = 0 /\ agent \in {"none", "gone"}

CredentialInv ==
  /\ CredentialTypeOK
  /\ NotStartedYet /\ AtRest /\ NoMoreRefresh /\ Unstaged /\ ProvedAbsent /\ CleanedAbsent

LEMMA CredentialInitInv == CredentialInit => CredentialInv
  BY DEF CredentialInit, CredentialInv, CredentialTypeOK, FileNames, NotStartedYet, AtRest, NoMoreRefresh,
         Unstaged, ProvedAbsent, CleanedAbsent, Revoking, MayRevoke, Closing

\* The ways in which the names change.
LEMMA NamesChange ==
  ASSUME NEW f \in FileNames, NEW i \in Nat
  PROVE  /\ [f EXCEPT !.auth = i] \in FileNames
         /\ [f EXCEPT !.staging = i] \in FileNames
         /\ [f EXCEPT !.tmp = i] \in FileNames
         /\ [f EXCEPT !.auth = 0, !.staging = 0] \in FileNames
         /\ [f EXCEPT !.auth = i, !.tmp = 0] \in FileNames
  <1>1. /\ [f EXCEPT !.auth = i] \in FileNames
        /\ [f EXCEPT !.staging = i] \in FileNames
        /\ [f EXCEPT !.tmp = i] \in FileNames
    BY DEF FileNames
  <1>2. [f EXCEPT !.auth = 0, !.staging = 0] \in FileNames
    BY DEF FileNames
  <1>3. [f EXCEPT !.auth = i, !.tmp = 0] \in FileNames
    BY DEF FileNames
  <1> QED
    BY <1>1, <1>2, <1>3

LEMMA CredentialTypeNext ==
  ASSUME CredentialTypeOK, [CredentialNext]_credentialVars
  PROVE  CredentialTypeOK'
  <1> USE DEF CredentialTypeOK
  <1>f. /\ file.auth \in Nat /\ file.tmp \in Nat /\ fd.bound \in Nat /\ made + 1 \in Nat
        /\ made + 1 # 0 /\ 0 \in Nat
    BY DEF FileNames
  <1>0. secret' \subseteq Nat \ {0}
    <2>1. \/ secret' \subseteq secret
          \/ secret' = secret \cup {made + 1}
          \/ file.tmp # 0 /\ secret' = secret \cup {file.tmp}
      BY DEF CredentialNext, Refuse, Create, Link, Unstage, StageFails, GrokCreates, GrokWrites,
             GrokRenames, GrokAnswers, GrokStops, BeginRevoke, AdoptReplacement, RevokeTemporary,
             Truncate, UnlinkCredential, Prove, ControllerDies, CleanUp, Neutralize, credentialVars
    <2> QED
      BY <2>1, <1>f
  <1>1. file' \in FileNames
    <2>1. \/ UNCHANGED file
          \/ file' = [file EXCEPT !.auth = 0] \/ file' = [file EXCEPT !.auth = fd.bound]
          \/ file' = [file EXCEPT !.staging = 0] \/ file' = [file EXCEPT !.staging = made + 1]
          \/ file' = [file EXCEPT !.tmp = 0] \/ file' = [file EXCEPT !.tmp = made + 1]
          \/ file' = [file EXCEPT !.auth = 0, !.staging = 0]
          \/ file' = [file EXCEPT !.auth = file.tmp, !.tmp = 0]
      BY DEF CredentialNext, Refuse, Create, Link, Unstage, StageFails, GrokCreates, GrokWrites,
             GrokRenames, GrokAnswers, GrokStops, BeginRevoke, AdoptReplacement, RevokeTemporary,
             Truncate, UnlinkCredential, Prove, ControllerDies, CleanUp, credentialVars
    <2>2. /\ [file EXCEPT !.auth = 0] \in FileNames /\ [file EXCEPT !.auth = fd.bound] \in FileNames
          /\ [file EXCEPT !.staging = 0] \in FileNames /\ [file EXCEPT !.staging = made + 1] \in FileNames
          /\ [file EXCEPT !.tmp = 0] \in FileNames /\ [file EXCEPT !.tmp = made + 1] \in FileNames
          /\ [file EXCEPT !.auth = 0, !.staging = 0] \in FileNames
          /\ [file EXCEPT !.auth = file.tmp, !.tmp = 0] \in FileNames
      BY <1>f, NamesChange, Zenon
    <2> QED
      BY <2>1, <2>2
  <1>2. fd' \in [open : Nat, bound : Nat]
    <2>1. \/ UNCHANGED fd
          \/ fd' = [open |-> made + 1, bound |-> made + 1]
          \/ fd' = [open |-> file.auth, bound |-> file.auth]
          \/ fd' = [fd EXCEPT !.open = 0]
      BY DEF CredentialNext, Refuse, Create, Link, Unstage, StageFails, GrokCreates, GrokWrites,
             GrokRenames, GrokAnswers, GrokStops, BeginRevoke, AdoptReplacement, RevokeTemporary,
             Truncate, UnlinkCredential, Prove, ControllerDies, CleanUp, credentialVars
    <2> QED
      BY <2>1, <1>f
  <1>3. purpose' = purpose /\ made' \in Nat /\ temporary' \in Nat
    BY <1>f DEF CredentialNext, Refuse, Create, Link, Unstage, StageFails, GrokCreates, GrokWrites,
             GrokRenames, GrokAnswers, GrokStops, BeginRevoke, AdoptReplacement, RevokeTemporary,
             Truncate, UnlinkCredential, Prove, ControllerDies, CleanUp, TemporaryHandle,
             credentialVars
  <1> QED
    BY <1>0, <1>1, <1>2, <1>3

LEMMA CredentialNextInv ==
  ASSUME CredentialInv, [CredentialNext]_credentialVars
  PROVE  CredentialInv'
  <1>1. CredentialTypeOK'
    BY CredentialTypeNext DEF CredentialInv
  <1>2. (NotStartedYet /\ AtRest /\ NoMoreRefresh /\ Unstaged /\ ProvedAbsent /\ CleanedAbsent)'
    <2> USE DEF CredentialInv, CredentialTypeOK, FileNames, NotStartedYet, AtRest, NoMoreRefresh, Unstaged,
                ProvedAbsent, CleanedAbsent, Revoking, MayRevoke, Closing
    <2>1. CASE Refuse \/ Create \/ Link \/ Unstage \/ StageFails
      BY <2>1 DEF Refuse, Create, Link, Unstage, StageFails
    <2>2. CASE GrokCreates \/ GrokWrites \/ GrokRenames \/ GrokAnswers \/ GrokStops
      BY <2>2 DEF GrokCreates, GrokWrites, GrokRenames, GrokAnswers, GrokStops
    <2>3. CASE BeginRevoke \/ AdoptReplacement
      BY <2>3 DEF BeginRevoke, AdoptReplacement, Again
    <2>4. CASE RevokeTemporary
      BY <2>4 DEF RevokeTemporary, Again
    <2>5. CASE Truncate \/ UnlinkCredential
      BY <2>5 DEF Truncate, UnlinkCredential, Again
    <2>6. CASE Prove \/ ControllerDies \/ CleanUp
      BY <2>6 DEF Prove, ControllerDies, CleanUp
    <2>7. CASE UNCHANGED credentialVars
      BY <2>7 DEF credentialVars
    <2> QED
      BY <2>1, <2>2, <2>3, <2>4, <2>5, <2>6, <2>7 DEF CredentialNext
  <1> QED
    BY <1>1, <1>2 DEF CredentialInv

\* After a revocation that was proved no path leads to secret bytes, whatever Grok made
\* of the file and whichever attempts failed half-way (revokeCredential of
\* grok-provider.mjs); for every number of files and faults.
THEOREM CredentialIsRevoked == CredentialSpec => []RevokedIsGone
  <1>1. CredentialInv => RevokedIsGone
    BY DEF CredentialInv, CredentialTypeOK, FileNames, AtRest, NoMoreRefresh, Unstaged, ProvedAbsent,
           CleanedAbsent, RevokedIsGone, Revoking, MayRevoke
  <1> QED
    BY <1>1, CredentialInitInv, CredentialNextInv, PTL DEF CredentialSpec

-----------------------------------------------------------------------------
(* The launch.  A generation is covered from the moment its bootstrap has      *)
(* registered the guard, before its Grok is started, until its group is gone.  *)

Covered(g) == g \in grok \/ boot[g].at = "spawn"

\* What GrokIsCovered says, also of a Grok that is about to be started.
CoveredInv == \A g \in Gen : Covered(g) => guard = g /\ g = g0 /\ profile

\* The parent takes guard, profile and intent back only once the group is gone.
LauncherInv ==
  /\ launcher.at # "idle" => g0 \in Gen
  /\ launcher.at = "spawn" => boot[g0].at = "none" /\ profile
  /\ launcher.at \in {"unguard", "settle", "release"} => GroupGone(g0)
  /\ launcher.at = "idle" /\ g0 \in Gen =>
       /\ ~Covered(g0)
       /\ boot[g0].at \in {"none", "gone"} \/ job.intent = "recovered"

\* Generations to come have no bootstrap; one that is not yet, or no longer, at work has
\* no Grok.
BootInv ==
  \A g \in Gen :
    /\ g > g0 => boot[g].at = "none"
    /\ boot[g].at \in {"none", "spec", "register", "unregister"} => g \notin grok

\* A bootstrap that may still register finds its profile.
ReaderInv ==
  g0 \in Gen /\ boot[g0].at \in {"spec", "register"} /\ job.intent \in {"pending", "registered"} =>
    profile

\* What recovery found stays all there is, as the fence keeps everybody from registering.
FoundInv ==
  found.known =>
    /\ launcher.at \in {"retained", "dead"} /\ job.fenced
    /\ found.gens \subseteq {g0}
    /\ g0 \notin found.gens => ~Covered(g0)

ProviderInv ==
  /\ ProviderTypeOK
  /\ CoveredInv /\ LauncherInv /\ BootInv /\ ReaderInv /\ FoundInv

BootRecord == [at : BootStage, spec : BOOLEAN, said : {"nothing", "ready", "error"},
               control : {"open", "written", "closed"}, promoted : BOOLEAN]

\* What a step may make of the bootstrap of one generation, and of nothing else.
BootBecomes(g, r) ==
  /\ r \in BootRecord
  /\ boot' \in [Gen -> BootRecord]
  /\ boot'[g] = r
  /\ \A h \in Gen : h # g => boot'[h] = boot[h]

LEMMA BootChanges ==
  ASSUME ProviderTypeOK, NEW g \in Gen, NEW r \in BootRecord, boot' = [boot EXCEPT ![g] = r]
  PROVE  BootBecomes(g, r)
  BY DEF ProviderTypeOK, BootBecomes, BootRecord

LEMMA BootMoves ==
  ASSUME ProviderTypeOK, NEW g \in Gen, NEW s \in BootStage, BootTo(g, s)
  PROVE  /\ boot' \in [Gen -> BootRecord]
         /\ boot'[g].at = s
         /\ \A h \in Gen : h # g => boot'[h] = boot[h]
  <1> DEFINE r == [boot[g] EXCEPT !.at = s]
  <1>1. boot[g] \in BootRecord
    BY DEF ProviderTypeOK, BootRecord
  <1>2. r \in BootRecord /\ r.at = s
    BY <1>1 DEF BootRecord
  <1>3. boot' = [boot EXCEPT ![g] = r]
    BY DEF BootTo
  <1> HIDE DEF r
  <1> QED
    BY <1>2, <1>3, BootChanges DEF BootBecomes

Parts == [gen : 0..MaxGen, kind : {"task", "provision"}, intent : Intent,
          recorded : BOOLEAN, fenced : BOOLEAN]

\* To and FailAt lead to a stage of the parent, and to nothing else.
LEMMA ParentMoves ==
  ASSUME ProviderTypeOK, NEW s \in ParentStage, To(s) \/ FailAt(s)
  PROVE  launcher' \in [at : ParentStage, from : ParentStage] /\ launcher'.at = s
  <1>1. CASE To(s)
    BY <1>1 DEF ProviderTypeOK, To
  <1>2. CASE FailAt(s)
    BY <1>2 DEF ProviderTypeOK, FailAt
  <1> QED
    BY <1>1, <1>2

LEMMA ProviderInitInv == ProviderInit => ProviderInv
  <1> SUFFICES ASSUME ProviderInit PROVE ProviderInv
    OBVIOUS
  <1>1. ProviderTypeOK
    <2>1. boot \in [Gen -> BootRecord]
      BY DEF ProviderInit, BootRecord, BootStage
    <2>2. job \in Parts
      BY ProviderAssumption DEF ProviderInit, Parts, Intent
    <2>3. launcher \in [at : ParentStage, from : ParentStage]
      BY DEF ProviderInit, ParentStage
    <2>4. found \in [known : BOOLEAN, gens : SUBSET Gen]
      <3>1. {} \in SUBSET Gen /\ FALSE \in BOOLEAN
        OBVIOUS
      <3> QED
        BY <3>1 DEF ProviderInit
    <2>5. guard \in 0..MaxGen /\ ends \in 0..MaxEnds /\ stuck \in 0..MaxStuck
      BY ProviderAssumption DEF ProviderInit
    <2>6. cred \in BOOLEAN /\ profile \in BOOLEAN
      BY DEF ProviderInit
    <2>7. grok \subseteq Gen /\ prompted \subseteq Gen
      BY DEF ProviderInit
    <2> QED
      BY <2>1, <2>2, <2>3, <2>4, <2>5, <2>6, <2>7 DEF ProviderTypeOK, BootRecord, Parts
  <1>2. CoveredInv /\ LauncherInv /\ BootInv /\ ReaderInv /\ FoundInv
    BY ProviderAssumption DEF ProviderInit, CoveredInv, LauncherInv, BootInv, ReaderInv, FoundInv,
       Covered, g0, Gen
  <1> QED
    BY <1>1, <1>2 DEF ProviderInv

\* Steps of the parent that change nothing but its own progress, what it has recorded,
\* and the credential.
LEMMA QuietSteps ==
  ASSUME ProviderInv,
         \/ CaptureIdentity \/ SeeReady \/ RecordProvider \/ SeePromoted
         \/ Initialize \/ OpenSession \/ Prompt \/ EndTurn \/ StartFails
  PROVE  ProviderInv'
  <1> USE DEF ProviderInv
  <1>1. g0 \in Gen /\ launcher.at \notin {"idle", "retained", "dead"}
    BY DEF LauncherInv, CaptureIdentity, SeeReady, RecordProvider, SeePromoted, Initialize,
           OpenSession, Prompt, EndTurn, StartFails
  <1>2. /\ launcher' \in [at : ParentStage, from : ParentStage]
        /\ launcher'.at \in ParentStage \ {"idle", "spawn", "unguard", "settle", "release"}
    <2>1. \E s \in ParentStage \ {"idle", "spawn", "unguard", "settle", "release"} : To(s) \/ FailAt(s)
      BY DEF CaptureIdentity, SeeReady, RecordProvider, SeePromoted, Initialize,
             OpenSession, Prompt, EndTurn, StartFails, ParentStage
    <2> QED
      BY <2>1, ParentMoves
  <1>3. UNCHANGED <<boot, grok, guard, profile, found, ends, stuck>>
    BY DEF CaptureIdentity, SeeReady, RecordProvider, SeePromoted, Initialize,
             OpenSession, Prompt, EndTurn, StartFails
  <1>4. /\ job' \in Parts
        /\ job'.gen = job.gen /\ job'.intent = job.intent /\ job'.fenced = job.fenced
    <2>1. job' = job \/ job' = [job EXCEPT !.recorded = TRUE]
      BY DEF CaptureIdentity, SeeReady, RecordProvider, SeePromoted, Initialize,
             OpenSession, Prompt, EndTurn, StartFails
    <2> QED
      BY <2>1 DEF ProviderTypeOK, Parts
  <1>5. cred' \in BOOLEAN
    BY DEF ProviderTypeOK, CaptureIdentity, SeeReady, RecordProvider, SeePromoted, Initialize,
           OpenSession, Prompt, EndTurn, StartFails
  <1>6. prompted' \subseteq Gen
    BY <1>1 DEF ProviderTypeOK, CaptureIdentity, SeeReady, RecordProvider, SeePromoted, Initialize,
           OpenSession, Prompt, EndTurn, StartFails
  <1>7. ProviderTypeOK'
    BY <1>2, <1>3, <1>4, <1>5, <1>6 DEF ProviderTypeOK, Parts
  <1>8. (CoveredInv /\ LauncherInv /\ BootInv /\ ReaderInv /\ FoundInv)'
    BY <1>1, <1>2, <1>3, <1>4 DEF CoveredInv, LauncherInv, BootInv, ReaderInv, FoundInv, Covered, g0
  <1> QED
    BY <1>7, <1>8

\* Steps of the parent, of its end and of recovery that leave every group alone.
LEMMA LaunchSteps ==
  ASSUME ProviderInv, NEW kind \in {"task", "provision"}, Prepare(kind) \/ SpawnFails
  PROVE  ProviderInv'
  <1> USE DEF ProviderInv
  <1>1. UNCHANGED <<boot, grok, guard, prompted, found, ends, stuck>>
    BY DEF Prepare, SpawnFails
  <1>2. CASE Prepare(kind)
    <2>1. launcher' \in [at : ParentStage, from : ParentStage] /\ launcher'.at = "spawn"
      BY <1>2, ParentMoves DEF Prepare, ParentStage
    <2>2. job.gen \in 0..MaxGen /\ g0 < MaxGen /\ g0 + 1 \in Gen /\ g0 + 1 > g0
      BY <1>2, ProviderAssumption DEF Prepare, ProviderTypeOK, g0, Gen
    <2>3. job' \in Parts /\ job'.gen = g0 + 1
      BY <1>2, <2>2 DEF Prepare, Parts, Gen, Intent, g0
    <2>4. profile' = TRUE /\ cred' \in BOOLEAN /\ launcher.at = "idle"
      BY <1>2 DEF Prepare
    <2>5. ProviderTypeOK'
      BY <1>1, <2>1, <2>3, <2>4 DEF ProviderTypeOK, Parts
    <2>6. \A g \in Gen : ~Covered(g)
      BY <2>4 DEF CoveredInv, LauncherInv
    <2>7. ~found.known
      BY <2>4 DEF FoundInv
    <2>8. boot[g0 + 1].at = "none"
      BY <2>2 DEF BootInv
    <2>9. \A g \in Gen : g > g0 + 1 => g > g0
      BY <2>2 DEF g0, Gen
    <2>10. (CoveredInv /\ LauncherInv /\ BootInv /\ ReaderInv /\ FoundInv)'
      BY <1>1, <2>1, <2>2, <2>3, <2>4, <2>6, <2>7, <2>8, <2>9
      DEF CoveredInv, LauncherInv, BootInv, ReaderInv, FoundInv, Covered, g0
    <2> QED
      BY <2>5, <2>10
  <1>3. CASE SpawnFails
    <2>1. launcher' \in [at : ParentStage, from : ParentStage] /\ launcher'.at = "idle"
      BY <1>3, ParentMoves DEF SpawnFails, ParentStage
    <2>2. /\ job' \in Parts /\ job'.gen = job.gen /\ job'.intent = "no-child"
          /\ job'.fenced = job.fenced
      BY <1>3 DEF SpawnFails, ProviderTypeOK, Parts, Intent
    <2>3. profile' \in BOOLEAN /\ cred' \in BOOLEAN /\ launcher.at = "spawn"
      BY <1>3 DEF SpawnFails
    <2>4. ProviderTypeOK'
      BY <1>1, <2>1, <2>2, <2>3 DEF ProviderTypeOK, Parts
    <2>5. g0 \in Gen /\ boot[g0].at = "none" /\ ~found.known /\ ~Covered(g0)
      BY <2>3 DEF LauncherInv, FoundInv, BootInv, Covered
    <2>6. (CoveredInv /\ LauncherInv /\ BootInv /\ ReaderInv /\ FoundInv)'
      BY <1>1, <2>1, <2>2, <2>3, <2>5
      DEF CoveredInv, LauncherInv, BootInv, ReaderInv, FoundInv, Covered, g0
    <2> QED
      BY <2>4, <2>6
  <1> QED
    BY <1>2, <1>3

\* Steps of the parent on its bootstrap.
LEMMA HandSteps ==
  ASSUME ProviderInv, Spawn \/ Activate \/ Promote
  PROVE  ProviderInv'
  <1> USE DEF ProviderInv
  <1> DEFINE b == boot[g0]
  <1>1. g0 \in Gen /\ launcher.at \in {"spawn", "activate", "promote"}
    BY DEF Spawn, Activate, Promote, LauncherInv
  <1>2. b \in BootRecord
    BY <1>1 DEF ProviderTypeOK, BootRecord
  <1>3. UNCHANGED <<job, guard, grok, profile, prompted, found, ends, stuck>> /\ cred' \in BOOLEAN
    BY DEF Spawn, Activate, Promote, ProviderTypeOK
  <1>4. /\ launcher' \in [at : ParentStage, from : ParentStage]
        /\ launcher'.at \in {"identity", "ready", "ack"}
    BY ParentMoves DEF Spawn, Activate, Promote, ParentStage
  <1>5. \E r \in BootRecord :
          /\ boot' = [boot EXCEPT ![g0] = r]
          /\ r.at = b.at \/ (launcher.at = "spawn" /\ r.at = "spec")
    <2>1. CASE Spawn
      <3> DEFINE r == [b EXCEPT !.at = "spec", !.spec = ~Provisioning]
      <3>1. r \in BootRecord /\ r.at = "spec"
        BY <1>2 DEF BootRecord, BootStage
      <3>2. boot' = [boot EXCEPT ![g0] = r] /\ launcher.at = "spawn"
        BY <2>1 DEF Spawn
      <3> HIDE DEF r
      <3> QED
        BY <3>1, <3>2, Zenon
    <2>2. CASE Activate
      <3> DEFINE r == [b EXCEPT !.spec = TRUE]
      <3>1. r \in BootRecord /\ r.at = b.at
        BY <1>2 DEF BootRecord
      <3>2. boot' = [boot EXCEPT ![g0] = r]
        BY <2>2 DEF Activate
      <3> HIDE DEF r
      <3> QED
        BY <3>1, <3>2, Zenon
    <2>3. CASE Promote
      <3> DEFINE r == [b EXCEPT !.control = "written"]
      <3>1. r \in BootRecord /\ r.at = b.at
        BY <1>2 DEF BootRecord
      <3>2. boot' = [boot EXCEPT ![g0] = r]
        BY <2>3 DEF Promote
      <3> HIDE DEF r
      <3> QED
        BY <3>1, <3>2, Zenon
    <2> QED
      BY <2>1, <2>2, <2>3
  <1>6. PICK r \in BootRecord :
          /\ BootBecomes(g0, r)
          /\ r.at = b.at \/ (launcher.at = "spawn" /\ r.at = "spec")
    BY <1>1, <1>5, BootChanges
  <1>7. ProviderTypeOK'
    BY <1>3, <1>4, <1>6 DEF ProviderTypeOK, BootBecomes, BootRecord
  <1>8. /\ \A h \in Gen : h # g0 => boot'[h] = boot[h]
        /\ \/ boot'[g0].at = boot[g0].at
           \/ launcher.at = "spawn" /\ boot'[g0].at = "spec"
    BY <1>6 DEF BootBecomes
  <1>9. \A h \in Gen : Covered(h)' => Covered(h)
    BY <1>3, <1>8 DEF Covered
  <1>10. (CoveredInv /\ LauncherInv /\ FoundInv)'
    BY <1>1, <1>3, <1>4, <1>9 DEF CoveredInv, LauncherInv, FoundInv, g0
  <1>11. (BootInv /\ ReaderInv)'
    BY <1>1, <1>3, <1>8 DEF BootInv, ReaderInv, LauncherInv, g0, Gen
  <1> QED
    BY <1>7, <1>10, <1>11

\* Steps in which the parent waits for the end of the group, or gives up waiting.
LEMMA ExitSteps ==
  ASSUME ProviderInv, NoIdentity \/ EnsureExit
  PROVE  ProviderInv'
  <1> USE DEF ProviderInv
  <1>1. g0 \in Gen /\ launcher.at \in {"identity", "cleanup", "finish"} /\ ~found.known
    BY DEF NoIdentity, EnsureExit, LauncherInv, FoundInv
  <1>2. UNCHANGED <<guard, prompted, found, ends>> /\ cred' \in BOOLEAN /\ profile' \in BOOLEAN
    BY DEF NoIdentity, EnsureExit, Exits, Outlives, ProviderTypeOK
  <1>3. stuck' \in 0..MaxStuck
    BY ProviderAssumption DEF NoIdentity, EnsureExit, Exits, Outlives, ProviderTypeOK
  <1>4. /\ launcher' \in [at : ParentStage, from : ParentStage]
        /\ launcher'.at \in {"idle", "retained", "unguard", "release"}
    <2>1. \E s \in {"idle", "retained", "unguard", "release"} : To(s)
      BY DEF NoIdentity, EnsureExit, Exits, Outlives
    <2> QED
      BY <2>1, ParentMoves DEF ParentStage
  <1>5. job' \in Parts /\ job'.gen = job.gen /\ job'.fenced = job.fenced
    BY DEF NoIdentity, EnsureExit, ProviderTypeOK, Parts, Intent
  <1>6. CASE launcher'.at = "retained"
    <2>1. UNCHANGED <<job, boot, grok, profile>>
      <3>1. ~To("idle") /\ ~To("unguard") /\ ~To("release")
        BY <1>6, ParentMoves DEF ParentStage
      <3> QED
        BY <3>1 DEF NoIdentity, EnsureExit, Exits, Outlives
    <2>2. ProviderTypeOK'
      BY <1>2, <1>3, <1>4, <2>1 DEF ProviderTypeOK
    <2>3. (CoveredInv /\ LauncherInv /\ BootInv /\ ReaderInv /\ FoundInv)'
      BY <1>1, <1>2, <1>6, <2>1 DEF CoveredInv, LauncherInv, BootInv, ReaderInv, FoundInv, Covered, g0
    <2> QED
      BY <2>2, <2>3
  <1>7. CASE launcher'.at # "retained"
    <2>1. ~To("retained")
      BY <1>7, ParentMoves DEF ParentStage
    <2>2. \/ BootTo(g0, "gone") /\ grok' = grok \ {g0}
          \/ GroupGone(g0) /\ UNCHANGED <<boot, grok>>
      BY <2>1 DEF NoIdentity, EnsureExit, Exits, Outlives, BootTo
    <2>3. /\ boot' \in [Gen -> BootRecord] /\ grok' \subseteq Gen
          /\ boot'[g0].at \in {"none", "gone"} /\ g0 \notin grok'
          /\ \A h \in Gen : h # g0 => boot'[h] = boot[h] /\ (h \in grok' <=> h \in grok)
      <3>1. CASE BootTo(g0, "gone") /\ grok' = grok \ {g0}
        <4>1. "gone" \in BootStage
          BY DEF BootStage
        <4> QED
          BY <1>1, <3>1, <4>1, BootMoves DEF ProviderTypeOK
      <3>2. CASE GroupGone(g0) /\ UNCHANGED <<boot, grok>>
        BY <1>1, <3>2 DEF ProviderTypeOK, BootRecord, GroupGone, Alive
      <3> QED
        BY <2>2, <3>1, <3>2
    <2>4. job'.intent = "no-child" \/ UNCHANGED <<job, profile>>
      BY DEF NoIdentity, EnsureExit, ProviderTypeOK
    <2>5. ProviderTypeOK'
      BY <1>2, <1>3, <1>4, <1>5, <2>3 DEF ProviderTypeOK, BootRecord, Parts
    <2>6. \A h \in Gen : ~Covered(h)'
      BY <1>1, <2>3 DEF CoveredInv, Covered
    <2>7. (CoveredInv /\ FoundInv)'
      BY <1>1, <1>2, <2>6 DEF CoveredInv, FoundInv
    <2>8. LauncherInv'
      BY <1>1, <1>4, <1>5, <1>7, <2>3, <2>6 DEF LauncherInv, g0, GroupGone, Alive
    <2>9. (BootInv /\ ReaderInv)'
      BY <1>1, <1>5, <2>3 DEF BootInv, ReaderInv, g0, Gen
    <2> QED
      BY <2>5, <2>7, <2>8, <2>9
  <1> QED
    BY <1>6, <1>7

\* Steps in which the parent takes back what it had staged: its group is gone.
LEMMA ReleaseSteps ==
  ASSUME ProviderInv, Unguard \/ SettleNoChild \/ ReleaseGuard
  PROVE  ProviderInv'
  <1> USE DEF ProviderInv
  <1>1. /\ g0 \in Gen /\ GroupGone(g0) /\ ~found.known
        /\ launcher.at \in {"unguard", "settle", "release"}
    BY DEF Unguard, SettleNoChild, ReleaseGuard, LauncherInv, FoundInv
  <1>2. UNCHANGED <<boot, grok, prompted, found, ends, stuck>>
    BY DEF Unguard, SettleNoChild, ReleaseGuard
  <1>3. /\ launcher' \in [at : ParentStage, from : ParentStage]
        /\ launcher'.at \in {"settle", "retained", "idle"}
    <2>1. \E s \in {"settle", "retained", "idle"} : To(s)
      BY DEF Unguard, SettleNoChild, ReleaseGuard
    <2> QED
      BY <2>1, ParentMoves DEF ParentStage
  <1>4. job' \in Parts /\ job'.gen = job.gen /\ job'.fenced = job.fenced
    BY DEF Unguard, SettleNoChild, ReleaseGuard, ProviderTypeOK, Parts, Intent
  <1>5. cred' \in BOOLEAN /\ profile' \in BOOLEAN
    BY DEF Unguard, SettleNoChild, ReleaseGuard, ProviderTypeOK
  <1>6. guard' \in 0..MaxGen
    BY ProviderAssumption DEF Unguard, SettleNoChild, ReleaseGuard, ProviderTypeOK
  <1>7. ProviderTypeOK'
    BY <1>2, <1>3, <1>4, <1>5, <1>6 DEF ProviderTypeOK, Parts
  <1>8. \A h \in Gen : ~Covered(h) /\ ~Covered(h)'
    BY <1>1, <1>2 DEF CoveredInv, Covered, GroupGone, Alive
  <1>9. (CoveredInv /\ FoundInv)'
    BY <1>1, <1>2, <1>8 DEF CoveredInv, FoundInv
  <1>10. LauncherInv'
    BY <1>1, <1>2, <1>3, <1>4, <1>8 DEF LauncherInv, g0, GroupGone, Alive
  <1>11. (BootInv /\ ReaderInv)'
    BY <1>1, <1>2, <1>4 DEF BootInv, ReaderInv, g0, GroupGone, Alive
  <1> QED
    BY <1>7, <1>9, <1>10, <1>11

\* The end of the parent, a scan, and the first steps of recovery.
LEMMA RecoverySteps ==
  ASSUME ProviderInv, ParentDies \/ Scan \/ Fence \/ Resolve
  PROVE  ProviderInv'
  <1> USE DEF ProviderInv
  <1>1. UNCHANGED <<boot, grok, cred, profile, prompted, stuck>>
    BY DEF ParentDies, Scan, Fence, Resolve, keepParent
  <1>2. CASE ParentDies
    <2>1. launcher' \in [at : ParentStage, from : ParentStage] /\ launcher'.at = "dead"
      BY <1>2, ParentMoves DEF ParentDies, ParentStage
    <2>2. UNCHANGED <<job, guard, found>> /\ launcher.at # "idle"
      BY <1>2 DEF ParentDies
    <2>3. ends' \in 0..MaxEnds
      BY <1>2, ProviderAssumption DEF ParentDies, ProviderTypeOK
    <2>4. ProviderTypeOK'
      BY <1>1, <2>1, <2>2, <2>3 DEF ProviderTypeOK
    <2>5. (CoveredInv /\ LauncherInv /\ BootInv /\ ReaderInv /\ FoundInv)'
      BY <1>1, <2>1, <2>2 DEF CoveredInv, LauncherInv, BootInv, ReaderInv, FoundInv, Covered, g0
    <2> QED
      BY <2>4, <2>5
  <1>3. CASE Scan
    <2>1. UNCHANGED <<job, launcher, found, ends>> /\ guard' = 0 /\ GroupGone(guard)
      BY <1>3 DEF Scan, keepParent
    <2>2. ProviderTypeOK'
      BY <1>1, <2>1, ProviderAssumption DEF ProviderTypeOK
    <2>3. \A h \in Gen : ~Covered(h)
      BY <2>1 DEF CoveredInv, Covered, GroupGone, Alive
    <2>4. (CoveredInv /\ LauncherInv /\ BootInv /\ ReaderInv /\ FoundInv)'
      BY <1>1, <2>1, <2>3 DEF CoveredInv, LauncherInv, BootInv, ReaderInv, FoundInv, Covered, g0,
         GroupGone, Alive
    <2> QED
      BY <2>2, <2>4
  <1>4. CASE Fence
    <2>1. UNCHANGED <<guard, launcher, found, ends>>
      BY <1>4 DEF Fence, keepParent
    <2>2. job' \in Parts /\ job'.gen = job.gen /\ job'.intent = job.intent /\ job'.fenced
      BY <1>4 DEF Fence, ProviderTypeOK, Parts
    <2>3. ProviderTypeOK'
      BY <1>1, <2>1, <2>2 DEF ProviderTypeOK, Parts
    <2>4. (CoveredInv /\ LauncherInv /\ BootInv /\ ReaderInv /\ FoundInv)'
      BY <1>1, <2>1, <2>2 DEF CoveredInv, LauncherInv, BootInv, ReaderInv, FoundInv, Covered, g0,
         GroupGone, Alive
    <2> QED
      BY <2>3, <2>4
  <1>5. CASE Resolve
    <2>1. UNCHANGED <<job, guard, launcher, ends>> /\ g0 \in Gen
      BY <1>5 DEF Resolve, LauncherInv
    <2>2. /\ found'.known = TRUE /\ found'.gens \in {{}, {g0}}
          /\ found' \in [known : BOOLEAN, gens : SUBSET Gen]
      <3>1. {} \in SUBSET Gen /\ {g0} \in SUBSET Gen /\ TRUE \in BOOLEAN
        BY <2>1
      <3>2. \/ found' = [known |-> TRUE, gens |-> {g0}]
            \/ found' = [known |-> TRUE, gens |-> {}]
        BY <1>5 DEF Resolve
      <3>3. found'.known = TRUE /\ found'.gens \in {{}, {g0}}
        BY <3>2
      <3>4. /\ [known |-> TRUE, gens |-> {g0}] \in [known : BOOLEAN, gens : SUBSET Gen]
            /\ [known |-> TRUE, gens |-> {}] \in [known : BOOLEAN, gens : SUBSET Gen]
        BY <3>1, Zenon
      <3> QED
        BY <3>2, <3>3, <3>4, Zenon
    <2>3. g0 \notin found'.gens => guard # g0
      BY <1>5 DEF Resolve
    <2>4. launcher.at \in {"retained", "dead"} /\ job.fenced
      BY <1>5 DEF Resolve
    <2>5. ProviderTypeOK'
      BY <1>1, <2>1, <2>2 DEF ProviderTypeOK
    <2>6. (CoveredInv /\ LauncherInv /\ BootInv /\ ReaderInv)'
      BY <1>1, <2>1 DEF CoveredInv, LauncherInv, BootInv, ReaderInv, Covered, g0, GroupGone, Alive
    <2>7. FoundInv'
      BY <1>1, <2>1, <2>2, <2>3, <2>4 DEF FoundInv, CoveredInv, Covered, g0
    <2> QED
      BY <2>5, <2>6, <2>7
  <1> QED
    BY <1>2, <1>3, <1>4, <1>5

\* The last step of recovery: what it found is gone, and there is nothing else.
LEMMA RecoverStep ==
  ASSUME ProviderInv, Recover
  PROVE  ProviderInv'
  <1> USE DEF ProviderInv
  <1>1. UNCHANGED <<boot, grok, prompted, ends, stuck>> /\ g0 \in Gen
    BY DEF Recover, LauncherInv
  <1>2. ~Covered(g0)
    BY DEF Recover, FoundInv, Covered, GroupGone, Alive
  <1>3. launcher' \in [at : ParentStage, from : ParentStage] /\ launcher'.at = "idle"
    BY ParentMoves DEF Recover, ParentStage
  <1>4. job' \in Parts /\ job'.gen = job.gen /\ job'.intent = "recovered"
    BY DEF Recover, ProviderTypeOK, Parts, Intent
  <1>5. found' \in [known : BOOLEAN, gens : SUBSET Gen] /\ ~found'.known
    <2>1. {} \in SUBSET Gen /\ FALSE \in BOOLEAN
      OBVIOUS
    <2> QED
      BY <2>1 DEF Recover
  <1>6. guard' \in 0..MaxGen
    BY ProviderAssumption DEF Recover, ProviderTypeOK
  <1>7. cred' \in BOOLEAN /\ profile' \in BOOLEAN
    BY DEF Recover
  <1>8. ProviderTypeOK'
    BY <1>1, <1>3, <1>4, <1>5, <1>6, <1>7 DEF ProviderTypeOK, Parts
  <1>9. \A h \in Gen : ~Covered(h) /\ ~Covered(h)'
    BY <1>1, <1>2 DEF CoveredInv, Covered
  <1>10. (CoveredInv /\ LauncherInv /\ FoundInv)'
    BY <1>1, <1>3, <1>4, <1>5, <1>9 DEF CoveredInv, LauncherInv, FoundInv, g0
  <1>11. (BootInv /\ ReaderInv)'
    BY <1>1, <1>4 DEF BootInv, ReaderInv, g0
  <1> QED
    BY <1>8, <1>10, <1>11

\* What a step on one generation leaves alone.
BootOnly == UNCHANGED <<job, launcher, guard, cred, profile, prompted, found, stuck>>

\* A generation stays no nearer to a Grok than it was, or its Grok ends.
Recedes(g) ==
  /\ boot' \in [Gen -> BootRecord]
  /\ \A h \in Gen : h # g => boot'[h] = boot[h]
  /\ grok' \subseteq grok
  /\ Covered(g)' => Covered(g)
  /\ boot'[g].at \in {"none", "spec", "register"} => boot'[g].at = boot[g].at \/
       (boot[g].at = "spec" /\ boot'[g].at = "register")
  /\ boot'[g].at = "unregister" => g \notin grok'
  /\ boot[g].at \in {"none", "gone"} => boot'[g].at = boot[g].at
  /\ grok \ {g} \subseteq grok'

\* Such a step disturbs nothing: neither the launch nor recovery relies on a group.
LEMMA Receding ==
  ASSUME ProviderInv, NEW g \in Gen, Recedes(g), BootOnly, ends' \in 0..MaxEnds
  PROVE  ProviderInv'
  <1> USE DEF ProviderInv, BootOnly
  <1>1. ProviderTypeOK'
    BY DEF ProviderTypeOK, Recedes, BootRecord
  <1>2. \A h \in Gen : Covered(h)' => Covered(h)
    BY DEF Recedes, Covered
  <1>3. \A h \in Gen : GroupGone(h) => GroupGone(h)'
    BY DEF Recedes, GroupGone, Alive
  <1>4. \A h \in Gen : /\ boot[h].at = "none" => boot'[h].at = "none"
                       /\ boot[h].at \in {"none", "gone"} => boot'[h].at \in {"none", "gone"}
    BY DEF Recedes
  <1>5. (CoveredInv /\ FoundInv)'
    BY <1>2 DEF CoveredInv, FoundInv, LauncherInv, g0
  <1>6. LauncherInv'
    BY <1>2, <1>3, <1>4 DEF LauncherInv, g0
  <1>7. BootInv'
    BY <1>4 DEF BootInv, Recedes, g0
  <1>8. ReaderInv'
    BY DEF ReaderInv, Recedes, g0
  <1> QED
    BY <1>1, <1>5, <1>6, <1>7, <1>8

\* Steps of a bootstrap and ends that leave no generation nearer to a Grok.
LEMMA QuietBoot ==
  ASSUME ProviderInv, NEW g \in Gen,
         \/ ReadSpec(g) \/ SayReady(g) \/ AcknowledgePromotion(g) \/ Stop(g) \/ Drain(g)
         \/ GrokExits(g) \/ BootDies(g)
  PROVE  ProviderInv'
  <1> USE DEF ProviderInv
  <1>1. BootOnly
    BY DEF BootOnly, keepParent, ReadSpec, SayReady, AcknowledgePromotion, Stop, Drain, GrokExits,
           BootDies
  <1>2. ends' \in 0..MaxEnds
    BY ProviderAssumption DEF ReadSpec, SayReady, AcknowledgePromotion, Stop, Drain, GrokExits,
       BootDies, ProviderTypeOK
  <1>3. boot[g] \in BootRecord
    BY DEF ProviderTypeOK, BootRecord
  <1>4. CASE ReadSpec(g)
    <2>1. \E s \in {"register", "gone"} : BootTo(g, s)
      BY <1>4 DEF ReadSpec
    <2>2. boot[g].at = "spec" /\ grok' = grok
      BY <1>4 DEF ReadSpec
    <2>3. Recedes(g)
      BY <2>1, <2>2, BootMoves DEF Recedes, Covered, BootStage
    <2> QED
      BY <1>1, <1>2, <2>3, Receding
  <1>5. CASE SayReady(g)
    <2> DEFINE r == [boot[g] EXCEPT !.at = "serve", !.said = "ready"]
               q == [boot[g] EXCEPT !.at = "drain", !.said = "error"]
    <2>1. boot' = [boot EXCEPT ![g] = r] \/ boot' = [boot EXCEPT ![g] = q]
      BY <1>5 DEF SayReady
    <2>2. r \in BootRecord /\ r.at = "serve"
      BY <1>3 DEF BootRecord, BootStage
    <2>3. q \in BootRecord /\ q.at = "drain"
      BY <1>3 DEF BootRecord, BootStage
    <2> HIDE DEF r, q
    <2>4. BootBecomes(g, r) \/ BootBecomes(g, q)
      BY <2>1, <2>2, <2>3, BootChanges
    <2>5. boot[g].at = "publish" /\ grok' = grok
      BY <1>5 DEF SayReady
    <2>6. Recedes(g)
      BY <2>2, <2>3, <2>4, <2>5 DEF Recedes, Covered, BootBecomes
    <2> QED
      BY <1>1, <1>2, <2>6, Receding
  <1>6. CASE AcknowledgePromotion(g)
    <2> DEFINE r == [boot[g] EXCEPT !.promoted = TRUE]
    <2>1. boot' = [boot EXCEPT ![g] = r]
      BY <1>6 DEF AcknowledgePromotion
    <2>2. r \in BootRecord /\ r.at = boot[g].at
      BY <1>3 DEF BootRecord
    <2> HIDE DEF r
    <2>3. BootBecomes(g, r)
      BY <2>1, <2>2, BootChanges
    <2>4. boot[g].at = "serve" /\ grok' = grok
      BY <1>6 DEF AcknowledgePromotion
    <2>5. Recedes(g)
      BY <2>2, <2>3, <2>4 DEF Recedes, Covered, BootBecomes
    <2> QED
      BY <1>1, <1>2, <2>5, Receding
  <1>7. CASE Stop(g)
    <2>1. BootTo(g, "drain") /\ boot[g].at = "serve" /\ grok' = grok
      BY <1>7 DEF Stop
    <2>2. Recedes(g)
      BY <2>1, BootMoves DEF Recedes, Covered, BootStage
    <2> QED
      BY <1>1, <1>2, <2>2, Receding
  <1>8. CASE Drain(g)
    <2>1. boot[g].at = "drain" /\ grok' \in {grok, grok \ {g}}
      BY <1>8 DEF Drain
    <2>2. \/ boot' = boot
          \/ BootTo(g, "gone")
          \/ BootTo(g, "unregister") /\ g \notin grok'
      BY <1>8 DEF Drain
    <2>3. Recedes(g)
      BY <2>1, <2>2, BootMoves DEF Recedes, Covered, BootStage, ProviderTypeOK, BootRecord
    <2> QED
      BY <1>1, <1>2, <2>3, Receding
  <1>9. CASE GrokExits(g)
    <2>1. boot' = boot /\ grok' = grok \ {g}
      BY <1>9 DEF GrokExits
    <2>2. Recedes(g)
      BY <2>1 DEF Recedes, Covered, ProviderTypeOK, BootRecord
    <2> QED
      BY <1>1, <1>2, <2>2, Receding
  <1>10. CASE BootDies(g)
    <2>1. BootTo(g, "gone") /\ Alive(g) /\ grok' = grok
      BY <1>10 DEF BootDies
    <2>2. Recedes(g)
      BY <2>1, BootMoves DEF Recedes, Covered, Alive, BootStage
    <2> QED
      BY <1>1, <1>2, <2>2, Receding
  <1> QED
    BY <1>4, <1>5, <1>6, <1>7, <1>8, <1>9, <1>10

LEMMA TerminateStep ==
  ASSUME ProviderInv, TerminateOwned
  PROVE  ProviderInv'
  <1> USE DEF ProviderInv
  <1>1. PICK g \in found.gens : Alive(g) /\ BootTo(g, "gone") /\ grok' = grok \ {g}
    BY DEF TerminateOwned
  <1>2. g \in Gen
    BY DEF ProviderTypeOK
  <1>3. BootOnly /\ ends' \in 0..MaxEnds
    BY DEF TerminateOwned, BootOnly, keepParent, ProviderTypeOK
  <1>4. Recedes(g)
    BY <1>1, <1>2, BootMoves DEF Recedes, Covered, Alive, BootStage
  <1> QED
    BY <1>2, <1>3, <1>4, Receding

\* A bootstrap registers only for the launch that is under way, and then its profile is
\* there; otherwise it ends.
LEMMA RegisterStep ==
  ASSUME ProviderInv, NEW g \in Gen, RegisterGuard(g)
  PROVE  ProviderInv'
  <1> USE DEF ProviderInv
  <1>1. boot[g].at = "register" /\ boot[g] \in BootRecord
    BY DEF RegisterGuard, ProviderTypeOK, BootRecord
  <1>2. UNCHANGED <<launcher, cred, profile, prompted, found, stuck, grok, ends>>
    BY DEF RegisterGuard, keepParent
  <1>3. CASE MayRegister(g)
    <2>1. /\ guard' = g /\ job' = [job EXCEPT !.intent = "registered"] /\ BootTo(g, "spawn")
          /\ g0 = g /\ ~job.fenced /\ job.intent \in {"pending", "registered"}
      BY <1>3 DEF RegisterGuard, MayRegister, g0
    <2>2. /\ boot' \in [Gen -> BootRecord]
          /\ boot'[g].at = "spawn"
          /\ \A h \in Gen : h # g => boot'[h] = boot[h]
      BY <2>1, BootMoves DEF BootStage
    <2>3. /\ job' \in Parts /\ job'.gen = job.gen /\ job'.intent = "registered"
          /\ job'.fenced = job.fenced
      BY <2>1 DEF ProviderTypeOK, Parts, Intent
    <2>4. g \in 0..MaxGen
      BY DEF Gen
    <2>5. ProviderTypeOK'
      BY <1>2, <2>1, <2>2, <2>3, <2>4 DEF ProviderTypeOK, BootRecord, Parts
    <2>6. profile /\ ~found.known
      BY <1>1, <2>1 DEF ReaderInv, FoundInv
    <2>7. \A h \in Gen : h # g => ~Covered(h) /\ ~Covered(h)'
      BY <1>2, <2>1, <2>2 DEF CoveredInv, Covered
    <2>8. launcher.at \notin {"idle", "spawn", "unguard", "settle", "release"}
      BY <1>1, <2>1 DEF LauncherInv, GroupGone, Alive
    <2>9. (CoveredInv /\ LauncherInv /\ FoundInv)'
      BY <1>2, <2>1, <2>3, <2>6, <2>7, <2>8 DEF CoveredInv, LauncherInv, FoundInv, g0
    <2>10. (BootInv /\ ReaderInv)'
      BY <1>1, <1>2, <2>1, <2>2, <2>3 DEF BootInv, ReaderInv, g0, Gen
    <2> QED
      BY <2>5, <2>9, <2>10
  <1>4. CASE ~MayRegister(g)
    <2> DEFINE r == [boot[g] EXCEPT !.at = "gone", !.said = "error"]
    <2>1. boot' = [boot EXCEPT ![g] = r] /\ UNCHANGED <<guard, job>>
      BY <1>4 DEF RegisterGuard
    <2>2. r \in BootRecord /\ r.at = "gone"
      BY <1>1 DEF BootRecord, BootStage
    <2> HIDE DEF r
    <2>3. Recedes(g)
      BY <1>1, <1>2, <2>1, <2>2, BootChanges DEF Recedes, Covered, BootBecomes
    <2>4. BootOnly /\ ends' \in 0..MaxEnds
      BY <1>2, <2>1 DEF BootOnly, ProviderTypeOK
    <2> QED
      BY <2>3, <2>4, Receding
  <1> QED
    BY <1>3, <1>4

\* Grok starts under the guard of its own launch; without one the bootstrap ends.
LEMMA SpawnStep ==
  ASSUME ProviderInv, NEW g \in Gen, SpawnGrok(g)
  PROVE  ProviderInv'
  <1> USE DEF ProviderInv
  <1>1. boot[g].at = "spawn" /\ boot[g] \in BootRecord
    BY DEF SpawnGrok, ProviderTypeOK, BootRecord
  <1>2. BootOnly /\ ends' = ends /\ ends' \in 0..MaxEnds
    BY DEF SpawnGrok, keepParent, BootOnly, ProviderTypeOK
  <1>3. CASE grok' = grok \cup {g} /\ BootTo(g, "publish")
    <2>1. /\ boot' \in [Gen -> BootRecord]
          /\ boot'[g].at = "publish"
          /\ \A h \in Gen : h # g => boot'[h] = boot[h]
      BY <1>3, BootMoves DEF BootStage
    <2>2. ProviderTypeOK'
      BY <1>2, <1>3, <2>1 DEF ProviderTypeOK, BootRecord, BootOnly
    <2>3. \A h \in Gen : Covered(h)' => Covered(h)
      BY <1>1, <1>3, <2>1 DEF Covered
    <2>4. g = g0 /\ launcher.at \notin {"idle", "spawn", "unguard", "settle", "release"}
      BY <1>1 DEF CoveredInv, Covered, LauncherInv, GroupGone, Alive
    <2>5. (CoveredInv /\ LauncherInv /\ FoundInv)'
      BY <1>2, <2>3, <2>4 DEF CoveredInv, LauncherInv, FoundInv, BootOnly, g0
    <2>6. (BootInv /\ ReaderInv)'
      BY <1>2, <1>3, <2>1, <2>4 DEF BootInv, ReaderInv, g0, BootOnly, Gen
    <2> QED
      BY <2>2, <2>5, <2>6
  <1>4. CASE boot' = [boot EXCEPT ![g].at = "gone", ![g].said = "error"] /\ UNCHANGED grok
    <2> DEFINE r == [boot[g] EXCEPT !.at = "gone", !.said = "error"]
    <2>1. boot' = [boot EXCEPT ![g] = r] /\ grok' = grok
      BY <1>4
    <2>2. r \in BootRecord /\ r.at = "gone"
      BY <1>1 DEF BootRecord, BootStage
    <2> HIDE DEF r
    <2>3. Recedes(g)
      BY <1>1, <2>1, <2>2, BootChanges DEF Recedes, Covered, BootBecomes
    <2> QED
      BY <1>2, <2>3, Receding
  <1> QED
    BY <1>3, <1>4 DEF SpawnGrok

\* A promoted bootstrap unregisters its own guard, once its Grok is gone.
LEMMA UnregisterStep ==
  ASSUME ProviderInv, NEW g \in Gen, BootUnregister(g)
  PROVE  ProviderInv'
  <1> USE DEF ProviderInv
  <1>1. boot[g].at = "unregister" /\ g \notin grok
    BY DEF BootUnregister, BootInv
  <1>2. UNCHANGED <<job, launcher, cred, profile, prompted, found, stuck, grok, ends>>
    BY DEF BootUnregister, keepParent
  <1>3. /\ boot' \in [Gen -> BootRecord]
        /\ boot'[g].at = "gone"
        /\ \A h \in Gen : h # g => boot'[h] = boot[h]
    BY BootMoves DEF BootUnregister, BootStage
  <1>4. guard' \in 0..MaxGen /\ (guard' # guard => guard = g)
    BY ProviderAssumption DEF BootUnregister, ProviderTypeOK
  <1>5. ProviderTypeOK'
    BY <1>2, <1>3, <1>4 DEF ProviderTypeOK, BootRecord
  <1>6. ~Covered(g) /\ \A h \in Gen : Covered(h)' => Covered(h)
    BY <1>1, <1>2, <1>3 DEF Covered
  <1>7. (CoveredInv /\ FoundInv)'
    BY <1>2, <1>4, <1>6 DEF CoveredInv, FoundInv, LauncherInv, g0
  <1>8. LauncherInv'
    BY <1>1, <1>2, <1>3, <1>6 DEF LauncherInv, GroupGone, Alive, g0
  <1>9. (BootInv /\ ReaderInv)'
    BY <1>1, <1>2, <1>3 DEF BootInv, ReaderInv, g0
  <1> QED
    BY <1>5, <1>7, <1>8, <1>9

LEMMA ProviderNextInv ==
  ASSUME ProviderInv, [ProviderNext]_providerVars
  PROVE  ProviderInv'
  <1>1. CASE ParentStep
    BY <1>1, LaunchSteps, HandSteps, QuietSteps, ExitSteps, ReleaseSteps DEF ParentStep
  <1>2. ASSUME NEW g \in Gen, BootStep(g) \/ GrokExits(g) \/ BootDies(g)
        PROVE  ProviderInv'
    BY <1>2, QuietBoot, RegisterStep, SpawnStep, UnregisterStep DEF BootStep
  <1>3. CASE ParentDies \/ Scan \/ Fence \/ Resolve \/ TerminateOwned \/ Recover
    BY <1>3, RecoverySteps, TerminateStep, RecoverStep
  <1>4. CASE UNCHANGED providerVars
    BY <1>4 DEF providerVars, ProviderInv, ProviderTypeOK, CoveredInv, LauncherInv, BootInv,
       ReaderInv, FoundInv, Covered, GroupGone, Alive, g0
  <1> QED
    BY <1>1, <1>2, <1>3, <1>4 DEF ProviderNext

\* As long as a Grok lives the guard names it and its agent profile is there, whichever of
\* its parent, its leader, recovery or a scan came first (provider-bootstrap.mjs,
\* recursion-guard.mjs); for every number of launches, ends and stuck groups.
THEOREM LiveGrokIsCovered == ProviderSpec => []GrokIsCovered
  <1>1. ProviderInv => GrokIsCovered
    BY DEF ProviderInv, ProviderTypeOK, CoveredInv, Covered, GrokIsCovered
  <1> QED
    BY <1>1, ProviderInitInv, ProviderNextInv, PTL DEF ProviderSpec

-----------------------------------------------------------------------------
(* The task's context.  Every manifest that is compared stands for a reading *)
(* of a tree that was the checkout's once.                                   *)

Trees == [file : [File -> Nat], index : [File -> Nat], flags : SUBSET File,
          ignored : [Ignored -> [stamp : Nat, data : Nat]], head : Nat, config : Nat, hooks : Nat,
          ref : [Ref -> Nat], packed : BOOLEAN]

Readings == [at : Trees, failed : SUBSET GitCall]

Stands(m, t) == t \in Readings /\ \E av \in BOOLEAN, v \in {1, 2} : m = Manifest(t, av, v)

ContextTypeOK ==
  /\ tree \in Trees
  /\ half = NoManifest \/ half \in Readings
  /\ setting \in Setting /\ (setting.managed => ~setting.linked)
  /\ changes \in Nat

AcceptedStands == step \notin {"new", "verified", "broken"} => Stands(accepted, start)
DoneStands     == step \in {"judged", "checks"} => Stands(done, finish) /\ done.version = 2
JudgedStands   == step = "judged" =>
                    evidence = EvaluateScope(ObserveChangedPaths(accepted, done, FALSE))
VerifiedStands ==
  step = "verified" =>
    /\ Stands(done, start) /\ done.version = 2 /\ finish \in Readings
    /\ \E av \in BOOLEAN : evidence = ObserveChangedPaths(done, Manifest(finish, av, 2), TRUE)
NothingTaken   == step \in {"judged", "refused", "verified", "broken"} => half = NoManifest

ContextInv == /\ ContextTypeOK /\ AcceptedStands /\ DoneStands /\ JudgedStands
              /\ VerifiedStands /\ NothingTaken

\* A manifest depends on the setting of the task, which stays.
LEMMA ManifestStays ==
  ASSUME setting' = setting, NEW t, NEW av, NEW v
  PROVE  Manifest(t, av, v)' = Manifest(t, av, v)
  BY DEF Manifest, Relevant, Upstream

LEMMA StandsStays ==
  ASSUME setting' = setting, NEW m, NEW t
  PROVE  Stands(m, t)' <=> Stands(m, t)
  BY ManifestStays DEF Stands

\* What a manifest records, part by part.
LEMMA Recorded ==
  ASSUME NEW r, NEW av, NEW v, NEW m, m = Manifest(r, av, v)
  PROVE  /\ m.version = v /\ m.linked = setting.linked /\ m.head = Told(r, "head", r.at.head)
         /\ m.index = Told(r, "stage", r.at.index)
         /\ m.dirty = DirtySnapshot(r) /\ m.ignored = IgnoredSnapshot(r, Ignored)
         /\ m.lasting = IgnoredSnapshot(r, Lasting) /\ m.upstream = Upstream(r.at)
         /\ m.metadata = Told(r, "metadata", <<r.at.config, r.at.ref, r.at.packed>>)
         /\ m.task = <<r.at.config, r.at.hooks, FlagObservation(r.at), Keep(r.at.ref, Relevant),
                       m.refs.complete>>
         /\ m.refs.complete =
              (av /\ "metadata" \notin r.failed /\ setting.upstream # "unresolved")
         /\ m.refs.attributable = (m.refs.complete /\ ~setting.many)
         /\ m.refs.relevant = (IF m.refs.complete THEN Keep(r.at.ref, Relevant) ELSE << >>)
  BY DEF Manifest, ConfigIdentity, HooksIdentity

LEMMA VersionOf == ASSUME NEW r, NEW av, NEW v PROVE Manifest(r, av, v).version = v
  BY DEF Manifest

LEMMA SnapshotParts ==
  ASSUME NEW r, NEW names
  PROVE  /\ IgnoredSnapshot(r, names).digest =
              Told(r, "ignored", <<Prints(r.at, names), Cardinality(Extant(r.at, names))>>)
         /\ "ignored" \in r.failed => ~IgnoredSnapshot(r, names).attributable
  BY DEF IgnoredSnapshot

\* The parts that the comparisons read.
Consists(m, r) ==
  /\ m.linked = setting.linked /\ m.head = Told(r, "head", r.at.head)
  /\ m.index = Told(r, "stage", r.at.index) /\ m.dirty = DirtySnapshot(r)
  /\ m.ignored = IgnoredSnapshot(r, Ignored) /\ m.lasting = IgnoredSnapshot(r, Lasting)
  /\ m.upstream = Upstream(r.at)

LEMMA StandsParts ==
  ASSUME NEW m, NEW r, Stands(m, r)
  PROVE  r \in Readings /\ m.version \in {1, 2} /\ Consists(m, r)
  <1>1. PICK av \in BOOLEAN, v \in {1, 2} : m = Manifest(r, av, v)
    BY DEF Stands
  <1>2. m.version = v
    BY <1>1, VersionOf
  <1>3. Consists(m, r)
    BY <1>1 DEF Manifest, Consists
  <1> QED
    BY <1>2, <1>3 DEF Stands

\* The same answer, unless the call has failed in both readings, is of the same thing.
LEMMA SameTold ==
  ASSUME NEW r, NEW q, NEW c, NEW x, NEW y, Told(r, c, x) = Told(q, c, y)
  PROVE  c \in BothFail(r, q) \/ (x = y /\ c \notin r.failed /\ c \notin q.failed)
  BY DEF Told, BothFail

LEMMA SameKeep ==
  ASSUME NEW f, NEW g, NEW s, NEW r, Keep(f, s) = Keep(g, r)
  PROVE  s = r /\ \A x \in s : f[x] = g[x]
  <1>1. DOMAIN Keep(f, s) = s /\ DOMAIN Keep(g, r) = r
    BY DEF Keep
  <1>2. \A x \in s : Keep(f, s)[x] = f[x]
    BY DEF Keep
  <1>3. \A x \in r : Keep(g, r)[x] = g[x]
    BY DEF Keep
  <1> QED
    BY <1>1, <1>2, <1>3

LEMMA FileFinite == IsFiniteSet(File)
  <1>1. IsFiniteSet({}) /\ IsFiniteSet({"in"} \cup {})
    BY FS_EmptySet, FS_AddElement
  <1>2. IsFiniteSet(({"in"} \cup {}) \cup {"out"})
    BY <1>1, FS_AddElement
  <1>3. File = ({"in"} \cup {}) \cup {"out"}
    BY DEF File
  <1> QED
    BY <1>2, <1>3

\* No more names than are taken: every one is.
LEMMA AllFirst ==
  ASSUME NEW d, IsFiniteSet(d), NEW n \in Nat \ {0}, Cardinality(d) <= n
  PROVE  First(d, n) = d
  <1>1. ASSUME NEW g \in d
        PROVE  Cardinality({f \in d : Precedes(f, g)}) < n
    <2> DEFINE b == {f \in d : Precedes(f, g)}
    <2>1. b \subseteq d /\ b # d
      BY <1>1 DEF Precedes
    <2> HIDE DEF b
    <2>2. IsFiniteSet(b) /\ Cardinality(b) <= Cardinality(d) /\ Cardinality(d) # Cardinality(b)
      BY <2>1, FS_Subset
    <2>3. Cardinality(b) \in Nat /\ Cardinality(d) \in Nat
      BY <2>2, FS_CardinalityType
    <2>4. Cardinality(b) < n
      BY <2>2, <2>3
    <2> QED
      BY <2>4 DEF b
  <1> QED
    BY <1>1 DEF First

\* Metadata that is no drift, or that only supervises no drift.
LEMMA MetadataSame ==
  ASSUME NEW s \in Readings, NEW t \in Readings, NEW av \in BOOLEAN, NEW aw \in BOOLEAN,
         NEW v \in {1, 2}, NEW w \in {1, 2}, NEW m, NEW n,
         m = Manifest(s, av, v), n = Manifest(t, aw, w),
         (v = 2 /\ w = 2) \/ "metadata" \notin BothFail(s, t),
         ~IsDrift(ClassifyMetadata(m, n, FALSE))
  PROVE  /\ s.at.config = t.at.config /\ Keep(s.at.ref, Relevant) = Keep(t.at.ref, Relevant)
         /\ v = 2 /\ w = 2 => /\ s.at.hooks = t.at.hooks
                             /\ FlagObservation(s.at) = FlagObservation(t.at)
  <1>1. /\ m.version = v /\ n.version = w
        /\ m.metadata = Told(s, "metadata", <<s.at.config, s.at.ref, s.at.packed>>)
        /\ n.metadata = Told(t, "metadata", <<t.at.config, t.at.ref, t.at.packed>>)
        /\ m.task[1] = s.at.config /\ n.task[1] = t.at.config
        /\ m.task[2] = s.at.hooks /\ n.task[2] = t.at.hooks
        /\ m.task[3] = FlagObservation(s.at) /\ n.task[3] = FlagObservation(t.at)
        /\ m.task[4] = Keep(s.at.ref, Relevant) /\ n.task[4] = Keep(t.at.ref, Relevant)
    <2>1. /\ m.version = v /\ m.metadata = Told(s, "metadata", <<s.at.config, s.at.ref, s.at.packed>>)
          /\ m.task = <<s.at.config, s.at.hooks, FlagObservation(s.at),
                       Keep(s.at.ref, Relevant), m.refs.complete>>
      <3>1. m = Manifest(s, av, v)
        OBVIOUS
      <3> QED
        BY <3>1, Recorded
    <2>2. /\ n.version = w /\ n.metadata = Told(t, "metadata", <<t.at.config, t.at.ref, t.at.packed>>)
          /\ n.task = <<t.at.config, t.at.hooks, FlagObservation(t.at),
                       Keep(t.at.ref, Relevant), n.refs.complete>>
      <3>1. n = Manifest(t, aw, w)
        OBVIOUS
      <3> QED
        BY <3>1, Recorded
    <2> QED
      BY <2>1, <2>2
  <1>2. v = 1 \/ w = 1 => m.metadata = n.metadata
    BY <1>1 DEF ClassifyMetadata, IsDrift
  <1>3. v = 2 /\ w = 2 => m.task = n.task
    <2>1. v = 2 /\ w = 2 => Linked(m, n) \in {"tolerated", "unchanged"} \/ Primary(m, n) = "unchanged"
      BY <1>1 DEF ClassifyMetadata, IsDrift, Linked, Primary
    <2>2. Linked(m, n) \in {"tolerated", "unchanged"} => m.task = n.task
      BY DEF Linked
    <2>3. Primary(m, n) = "unchanged" => m.task = n.task
      BY DEF Primary
    <2> QED
      BY <2>1, <2>2, <2>3
  <1>4. m.metadata = n.metadata /\ "metadata" \notin BothFail(s, t)
          => s.at.config = t.at.config /\ s.at.ref = t.at.ref
    <2>1. m.metadata = n.metadata /\ "metadata" \notin BothFail(s, t)
            => <<s.at.config, s.at.ref, s.at.packed>> = <<t.at.config, t.at.ref, t.at.packed>>
      BY <1>1, SameTold
    <2> QED
      BY <2>1
  <1> QED
    BY <1>1, <1>2, <1>3, <1>4

\* A file of which nothing is said: it is as dirty as it was, and has the same answer.
LEMMA DirtySame ==
  ASSUME NEW s, NEW t, NEW f \in File,
         f \notin DirtyDrift(DirtySnapshot(s), DirtySnapshot(t)),
         "[DIRTY_OVERFLOW]" \notin DirtyDrift(DirtySnapshot(s), DirtySnapshot(t))
  PROVE  /\ f \in DOMAIN Dirty(s) <=> f \in DOMAIN Dirty(t)
         /\ f \in DOMAIN Dirty(s) => Dirty(s)[f] = Dirty(t)[f]
  <1> DEFINE m == DirtySnapshot(s)
             n == DirtySnapshot(t)
  <1>1. /\ m.digest = Dirty(s) /\ m.truncated = (Cardinality(DOMAIN Dirty(s)) > MaxDirty)
        /\ m.entries = Keep(Dirty(s), First(DOMAIN Dirty(s), MaxDirty))
        /\ n.digest = Dirty(t) /\ n.truncated = (Cardinality(DOMAIN Dirty(t)) > MaxDirty)
        /\ n.entries = Keep(Dirty(t), First(DOMAIN Dirty(t), MaxDirty))
    BY DEF DirtySnapshot
  <1>2. CASE m.digest = n.digest
    BY <1>1, <1>2
  <1>3. CASE m.digest # n.digest
    <2>1. ~m.truncated /\ ~n.truncated
      BY <1>3 DEF DirtyDrift, Mark
    <2>2. /\ IsFiniteSet(DOMAIN Dirty(s)) /\ IsFiniteSet(DOMAIN Dirty(t))
      <3>1. DOMAIN Dirty(s) \subseteq File /\ DOMAIN Dirty(t) \subseteq File
        BY DEF Dirty, DirtyFiles
      <3> QED
        BY <3>1, FileFinite, FS_Subset
    <2>3. Cardinality(DOMAIN Dirty(s)) \in Nat /\ Cardinality(DOMAIN Dirty(t)) \in Nat
      BY <2>2, FS_CardinalityType
    <2>4. Cardinality(DOMAIN Dirty(s)) <= MaxDirty /\ Cardinality(DOMAIN Dirty(t)) <= MaxDirty
      <3>1. ~(Cardinality(DOMAIN Dirty(s)) > MaxDirty) /\ ~(Cardinality(DOMAIN Dirty(t)) > MaxDirty)
        BY <1>1, <2>1
      <3>2. \A a, b \in Nat : ~(a > b) => a <= b
        OBVIOUS
      <3> QED
        BY <2>3, <3>1, <3>2, ContextAssumption
    <2>5. /\ First(DOMAIN Dirty(s), MaxDirty) = DOMAIN Dirty(s)
          /\ First(DOMAIN Dirty(t), MaxDirty) = DOMAIN Dirty(t)
      BY <2>2, <2>4, AllFirst, ContextAssumption
    <2>6. /\ DOMAIN m.entries = DOMAIN Dirty(s) /\ DOMAIN n.entries = DOMAIN Dirty(t)
          /\ \A x \in DOMAIN Dirty(s) : m.entries[x] = Dirty(s)[x]
          /\ \A x \in DOMAIN Dirty(t) : n.entries[x] = Dirty(t)[x]
      BY <1>1, <2>5 DEF Keep
    <2>7. f \notin Changed(m.entries, n.entries)
      BY DEF DirtyDrift
    <2> QED
      BY <2>6, <2>7 DEF Changed
  <1> QED
    BY <1>2, <1>3

\* Of ignored files that nothing is said of, the prints are the same.
LEMMA IgnoredSame ==
  ASSUME NEW s, NEW t, NEW names \in SUBSET Ignored,
         IgnoredDrift(IgnoredSnapshot(s, names), IgnoredSnapshot(t, names)) \subseteq {"in"}
  PROVE  SameIgnored(s, t, names)
  <1> DEFINE m == IgnoredSnapshot(s, names)
             n == IgnoredSnapshot(t, names)
             p == Prints(s.at, names)
             q == Prints(t.at, names)
  <1>1. /\ m.digest = Told(s, "ignored", <<p, Cardinality(Extant(s.at, names))>>)
        /\ n.digest = Told(t, "ignored", <<q, Cardinality(Extant(t.at, names))>>)
        /\ m.attributable => m.entries = p
        /\ n.attributable => n.entries = q
    BY DEF IgnoredSnapshot
  <1>2. /\ DOMAIN p = Listed(s.at, names) /\ DOMAIN q = Listed(t.at, names)
        /\ Listed(s.at, names) \subseteq Ignored /\ Listed(t.at, names) \subseteq Ignored
        /\ Hashed(s.at, names) \subseteq Listed(s.at, names)
        /\ Hashed(t.at, names) \subseteq Listed(t.at, names)
    BY DEF Prints, Hashed, Listed, First, Extant
  <1>3. "ignored" \in BothFail(s, t) \/ p = q
    <2>1. CASE m.digest = n.digest
      <3>1. \/ "ignored" \in BothFail(s, t)
            \/ <<p, Cardinality(Extant(s.at, names))>> = <<q, Cardinality(Extant(t.at, names))>>
        BY <1>1, <2>1, SameTold
      <3> QED
        BY <3>1
    <2>2. CASE m.digest # n.digest
      <3>1. m.attributable /\ n.attributable
        BY <2>2 DEF IgnoredDrift
      <3>2. Changed(p, q) \subseteq {"in"}
        BY <1>1, <2>2, <3>1 DEF IgnoredDrift
      <3>3. Changed(p, q) = {}
        BY <1>2, <3>2 DEF Changed, Ignored
      <3>4. DOMAIN p = DOMAIN q /\ \A x \in DOMAIN p : p[x] = q[x]
        BY <3>3 DEF Changed
      <3>5. p = [x \in DOMAIN p |-> p[x]] /\ q = [x \in DOMAIN q |-> q[x]]
        BY DEF Prints
      <3> HIDE DEF p, q
      <3> QED
        BY <3>4, <3>5
    <2> QED
      BY <2>1, <2>2
  <1>4. ASSUME p = q, NEW f \in Listed(s.at, names) \cup Listed(t.at, names)
        PROVE  /\ s.at.ignored[f].stamp = t.at.ignored[f].stamp
               /\ f \in Hashed(s.at, names) \cup Hashed(t.at, names)
                    => s.at.ignored[f].data = t.at.ignored[f].data
    <2>1. f \in Listed(s.at, names) /\ f \in Listed(t.at, names) /\ p[f] = q[f]
      BY <1>2, <1>4
    <2>2. /\ p[f] = [stamp |-> s.at.ignored[f].stamp,
                      data  |-> IF f \in Hashed(s.at, names) THEN {s.at.ignored[f].data} ELSE {}]
          /\ q[f] = [stamp |-> t.at.ignored[f].stamp,
                      data  |-> IF f \in Hashed(t.at, names) THEN {t.at.ignored[f].data} ELSE {}]
      BY <2>1 DEF Prints
    <2>3. /\ p[f].stamp = s.at.ignored[f].stamp /\ q[f].stamp = t.at.ignored[f].stamp
          /\ p[f].data = (IF f \in Hashed(s.at, names) THEN {s.at.ignored[f].data} ELSE {})
          /\ q[f].data = (IF f \in Hashed(t.at, names) THEN {t.at.ignored[f].data} ELSE {})
      BY <2>2
    <2> HIDE DEF p, q
    <2> QED
      BY <2>1, <2>3
  <1> QED
    BY <1>3, <1>4 DEF SameIgnored
-----------------------------------------------------------------------------
\* No evidence: nothing was written that the scope does not allow.
LEMMA NothingHidden ==
  ASSUME NEW s, NEW t, NEW m, NEW n, NEW verification \in BOOLEAN,
         Stands(m, s), Stands(n, t), n.version = 2,
         \/ m.version = 2
         \/ /\ s.at.flags \cup t.at.flags = {} /\ s.at.hooks = t.at.hooks
            /\ "metadata" \notin BothFail(s, t),
         ObserveChangedPaths(m, n, verification) \subseteq {"in"}
  PROVE  /\ SameTask(s, t)
         /\ \A f \in File \ ObserveChangedPaths(m, n, verification) : SameFile(s, t, f)
         /\ ~verification => SameIgnored(s, t, Ignored)
         /\ verification /\ m.version = 2 => SameIgnored(s, t, Lasting)
  <1> DEFINE drift == ObserveChangedPaths(m, n, verification)
  <1>1. PICK av \in BOOLEAN, v \in {1, 2} : m = Manifest(s, av, v)
    BY DEF Stands
  <1>2. PICK aw \in BOOLEAN, w \in {1, 2} : n = Manifest(t, aw, w)
    BY DEF Stands
  <1>3. /\ s \in Readings /\ t \in Readings
        /\ m.version = v /\ n.version = w /\ w = 2
        /\ m.head = Told(s, "head", s.at.head) /\ n.head = Told(t, "head", t.at.head)
        /\ m.index = Told(s, "stage", s.at.index) /\ n.index = Told(t, "stage", t.at.index)
        /\ m.dirty = DirtySnapshot(s) /\ n.dirty = DirtySnapshot(t)
        /\ m.ignored = IgnoredSnapshot(s, Ignored) /\ n.ignored = IgnoredSnapshot(t, Ignored)
        /\ m.lasting = IgnoredSnapshot(s, Lasting) /\ n.lasting = IgnoredSnapshot(t, Lasting)
    <2>1. /\ s \in Readings /\ t \in Readings /\ Consists(m, s) /\ Consists(n, t)
      BY StandsParts
    <2>2. m.version = v
      BY <1>1, VersionOf
    <2>3. n.version = w
      BY <1>2, VersionOf
    <2> QED
      BY <2>1, <2>2, <2>3 DEF Consists
  <1>4. /\ m.head = n.head /\ m.index = n.index
        /\ ~IsDrift(ClassifyMetadata(m, n, FALSE))
        /\ "[DIRTY_OVERFLOW]" \notin drift
    BY DEF ObserveChangedPaths, Mark
  <1>5. /\ s.at.config = t.at.config /\ Keep(s.at.ref, Relevant) = Keep(t.at.ref, Relevant)
        /\ v = 2 => s.at.hooks = t.at.hooks /\ FlagObservation(s.at) = FlagObservation(t.at)
    <2>1. /\ w = 2 /\ s \in Readings /\ t \in Readings
          /\ (v = 2 /\ w = 2) \/ "metadata" \notin BothFail(s, t)
      BY <1>3
    <2>2. ~IsDrift(ClassifyMetadata(m, n, FALSE))
      BY <1>4
    <2> HIDE DEF drift
    <2>3. /\ s.at.config = t.at.config /\ Keep(s.at.ref, Relevant) = Keep(t.at.ref, Relevant)
          /\ v = 2 /\ w = 2 => /\ s.at.hooks = t.at.hooks
                              /\ FlagObservation(s.at) = FlagObservation(t.at)
      BY <1>1, <1>2, <2>1, <2>2, MetadataSame
    <2> QED
      BY <2>1, <2>3
  <1>6. /\ s.at.flags = t.at.flags /\ s.at.hooks = t.at.hooks
        /\ \A f \in s.at.flags : s.at.file[f] = t.at.file[f]
    <2>1. CASE v = 2
      BY <1>5, <2>1, SameKeep DEF FlagObservation, Flagged
    <2>2. CASE v = 1
      <3>1. s.at.flags \cup t.at.flags = {} /\ s.at.hooks = t.at.hooks
        BY <1>3, <2>2
      <3>2. s.at.flags = {} /\ t.at.flags = {}
        BY <3>1
      <3> QED
        BY <3>1, <3>2
    <2> QED
      BY <2>1, <2>2
  <1>7. SameTask(s, t)
    <2>1. "head" \in BothFail(s, t) \/ s.at.head = t.at.head
      BY <1>3, <1>4, SameTold
    <2>2. "stage" \in BothFail(s, t) \/ s.at.index = t.at.index
      BY <1>3, <1>4, SameTold
    <2> QED
      BY <1>5, <1>6, <2>1, <2>2 DEF SameTask, SameControls
  <1>8. ASSUME NEW f \in File, f \notin drift, "status" \notin s.failed \cup t.failed,
               BothFail(s, t) \cap {"stage", f} = {}
        PROVE  s.at.file[f] = t.at.file[f]
    <2>1. DirtyDrift(m.dirty, n.dirty) \subseteq drift
      BY DEF ObserveChangedPaths
    <2> HIDE DEF drift
    <2>2. /\ f \in DOMAIN Dirty(s) <=> f \in DOMAIN Dirty(t)
          /\ f \in DOMAIN Dirty(s) => Dirty(s)[f] = Dirty(t)[f]
      BY <1>3, <1>4, <1>8, <2>1, DirtySame
    <2>3. s.at.index = t.at.index
      BY <1>7, <1>8 DEF SameTask
    <2>4. CASE f \in s.at.flags
      BY <1>6, <2>4
    <2>5. CASE f \notin s.at.flags /\ f \notin DOMAIN Dirty(s)
      <3>1. s.at.file[f] = s.at.index[f] /\ t.at.file[f] = t.at.index[f]
        BY <1>6, <1>8, <2>2, <2>5 DEF Dirty, DirtyFiles
      <3> QED
        BY <2>3, <3>1
    <2>6. CASE f \in DOMAIN Dirty(s)
      <3>1. Told(s, f, s.at.file[f]) = Told(t, f, t.at.file[f])
        BY <2>2, <2>6 DEF Dirty
      <3> QED
        BY <1>8, <3>1, SameTold
    <2> QED
      BY <2>4, <2>5, <2>6
  <1>9. \A f \in File \ drift : SameFile(s, t, f)
    BY <1>8 DEF SameFile
  <1>10. ~verification => SameIgnored(s, t, Ignored)
    <2>1. ~verification => IgnoredDrift(m.ignored, n.ignored) \subseteq {"in"}
      BY DEF ObserveChangedPaths
    <2> QED
      BY <1>3, <2>1, IgnoredSame
  <1>11. ASSUME verification, m.version = 2 PROVE SameIgnored(s, t, Lasting)
    <2>1. CASE Recognised(m) /\ Recognised(n)
      <3>1. IgnoredDrift(m.lasting, n.lasting) \subseteq drift
        BY <1>11, <2>1, Zenon DEF ObserveChangedPaths
      <3> QED
        BY <1>3, <3>1, IgnoredSame DEF Ignored, Lasting
    <2>2. CASE ~(Recognised(m) /\ Recognised(n))
      <3>1. IgnoredDrift(m.ignored, n.ignored) \subseteq drift
        BY <2>2, Zenon DEF ObserveChangedPaths
      <3>2. SameIgnored(s, t, Ignored)
        BY <1>3, <3>1, IgnoredSame
      <3>3. "ignored" \in s.failed \/ "ignored" \in t.failed
        <4>1. m.lasting.digest = {} \/ n.lasting.digest = {}
          BY <1>3, <1>11, <2>2 DEF Recognised
        <4>2. /\ m.lasting.digest = Told(s, "ignored", <<Prints(s.at, Lasting),
                                                        Cardinality(Extant(s.at, Lasting))>>)
              /\ n.lasting.digest = Told(t, "ignored", <<Prints(t.at, Lasting),
                                                        Cardinality(Extant(t.at, Lasting))>>)
          BY <1>3, SnapshotParts
        <4> QED
          BY ONLY <4>1, <4>2 DEF Told
      <3>4. m.ignored.digest = n.ignored.digest
        <4>1. ~m.ignored.attributable \/ ~n.ignored.attributable
          BY <1>3, <3>3, SnapshotParts
        <4>2. m.ignored.digest # n.ignored.digest
                => "[IGNORED_WORKTREE]" \in IgnoredDrift(m.ignored, n.ignored)
          BY <4>1 DEF IgnoredDrift
        <4> QED
          BY <3>1, <4>2
      <3>5. "ignored" \in BothFail(s, t)
        <4>1. /\ m.ignored.digest = Told(s, "ignored", <<Prints(s.at, Ignored),
                                                          Cardinality(Extant(s.at, Ignored))>>)
              /\ n.ignored.digest = Told(t, "ignored", <<Prints(t.at, Ignored),
                                                          Cardinality(Extant(t.at, Ignored))>>)
          BY <1>3, SnapshotParts
        <4>2. ASSUME NEW x, NEW y, Told(s, "ignored", x) = Told(t, "ignored", y)
              PROVE  "ignored" \in BothFail(s, t)
          BY <3>3, <4>2, SameTold
        <4> QED
          BY <3>4, <4>1, <4>2
      <3> QED
        BY <3>5 DEF SameIgnored
    <2> QED
      BY <2>1, <2>2
  <1> QED
    BY <1>7, <1>9, <1>10, <1>11

\* What is no change to the task is no evidence.
LEMMA NothingInvented ==
  ASSUME NEW s, NEW t, NEW m, NEW n, Stands(m, s), Stands(n, t),
         setting \in Setting, setting.managed => ~setting.linked,
         m.version = 2, n.version = 2, m.refs.attributable, n.refs.attributable,
         s.failed = t.failed, Same(s.at, t.at), s.at.file = t.at.file, s.at.ignored = t.at.ignored
  PROVE  /\ setting.linked \/ setting.managed => Compatible(m, n)
         /\ setting.linked => ObserveChangedPaths(m, n, FALSE) = {}
  <1>1. PICK av \in BOOLEAN, v \in {1, 2} : m = Manifest(s, av, v)
    BY DEF Stands
  <1>2. PICK aw \in BOOLEAN, w \in {1, 2} : n = Manifest(t, aw, w)
    BY DEF Stands
  <1>3. /\ m.head = Told(s, "head", s.at.head) /\ n.head = Told(t, "head", t.at.head)
        /\ m.index = Told(s, "stage", s.at.index) /\ n.index = Told(t, "stage", t.at.index)
        /\ m.dirty = DirtySnapshot(s) /\ n.dirty = DirtySnapshot(t)
        /\ m.ignored = IgnoredSnapshot(s, Ignored) /\ n.ignored = IgnoredSnapshot(t, Ignored)
        /\ m.upstream = Upstream(s.at) /\ n.upstream = Upstream(t.at)
        /\ m.linked = setting.linked /\ n.linked = setting.linked
    BY StandsParts DEF Consists
  <1>4. m.refs.complete = TRUE /\ n.refs.complete = TRUE
    BY <1>1, <1>2 DEF Manifest
  <1>5. m.task = n.task /\ m.refs.relevant = n.refs.relevant
    <2>1. FlagObservation(s.at) = FlagObservation(t.at)
      BY DEF Same, SameControls, FlagObservation, Flagged
    <2> QED
      BY <1>1, <1>2, <1>4, <2>1 DEF Manifest, ConfigIdentity, HooksIdentity, Same, SameControls
  <1>6. m.head = n.head /\ m.index = n.index
    BY <1>3 DEF Same, Told
  <1>7. m.dirty = n.dirty
    <2>1. Dirty(s) = Dirty(t)
      BY DEF Same, SameControls, Dirty, DirtyFiles, Told
    <2> QED
      BY <1>3, <2>1 DEF DirtySnapshot
  <1>8. m.ignored = n.ignored
    <2>1. Extant(s.at, Ignored) = Extant(t.at, Ignored)
      BY DEF Extant
    <2>2. Listed(s.at, Ignored) = Listed(t.at, Ignored)
      BY <2>1 DEF Listed
    <2>3. Hashed(s.at, Ignored) = Hashed(t.at, Ignored)
      BY <2>2 DEF Hashed
    <2>4. Prints(s.at, Ignored) = Prints(t.at, Ignored)
      BY <2>2, <2>3 DEF Prints
    <2> QED
      BY <1>3, <2>1, <2>4 DEF IgnoredSnapshot, Told
  <1>9. m.upstream = n.upstream
    <2>1. setting.upstream = "resolved" => s.at.ref["up"] = t.at.ref["up"]
      BY SameKeep DEF Same, SameControls, Relevant
    <2> QED
      BY <1>3, <2>1 DEF Upstream
  <1>10. setting.managed => ClassifyMetadata(m, n, setting.managed) \in {"tolerated", "unchanged"}
    BY <1>3, <1>5 DEF ClassifyMetadata, Supervisory
  <1>11. setting.linked => ClassifyMetadata(m, n, FALSE) \in {"tolerated", "unchanged"}
    BY <1>3, <1>4, <1>5 DEF ClassifyMetadata, Linked
  <1>12. setting.linked => setting.managed = FALSE
    BY DEF Setting
  <1>13. setting.linked \/ setting.managed => Compatible(m, n)
    <2>1. setting.linked \/ setting.managed => ~IsDrift(ClassifyMetadata(m, n, setting.managed))
      BY <1>10, <1>11, <1>12 DEF IsDrift
    <2> QED
      BY <1>6, <1>7, <1>8, <1>9, <2>1 DEF Compatible
  <1>14. DirtyDrift(m.dirty, n.dirty) = {} /\ IgnoredDrift(m.ignored, n.ignored) = {}
    BY <1>7, <1>8 DEF DirtyDrift, IgnoredDrift, Changed, Mark
  <1>15. setting.linked => ObserveChangedPaths(m, n, FALSE) = {}
    BY <1>6, <1>11, <1>14 DEF ObserveChangedPaths, Mark, IsDrift
  <1> QED
    BY <1>13, <1>15
-----------------------------------------------------------------------------
LEMMA ContextInitInv == ContextInit => ContextInv
  <1> SUFFICES ASSUME ContextInit PROVE ContextInv
    OBVIOUS
  <1>1. CleanTree \in Trees
    BY DEF CleanTree, Gone, Trees
  <1>2. tree \in Trees
    <2>1. /\ [CleanTree EXCEPT !.file["in"] = 1] \in Trees
          /\ [CleanTree EXCEPT !.ignored["log"] = [stamp |-> 1, data |-> 1]] \in Trees
          /\ [CleanTree EXCEPT !.ignored = [f \in Ignored |-> [stamp |-> 1, data |-> 1]]] \in Trees
          /\ [CleanTree EXCEPT !.flags = {"out"}, !.file["out"] = 1] \in Trees
      BY DEF CleanTree, Gone, Trees, File, Ignored
    <2> QED
      BY <1>1, <2>1 DEF ContextInit
  <1> QED
    BY <1>2 DEF ContextInit, ContextInv, ContextTypeOK, AcceptedStands, DoneStands, JudgedStands,
       VerifiedStands, NothingTaken

\* The checkout stays one, whoever changes it.
LEMMA TreeStays ==
  ASSUME ContextTypeOK, Work \/ LeaveIgnored \/ Churn
  PROVE  tree' \in Trees /\ changes' \in Nat
  <1> USE DEF ContextTypeOK
  <1>1. changes + 1 \in Nat /\ Values \subseteq Nat
    BY DEF Values
  <1>2. ASSUME NEW u, u \in Trees, Alter(u) PROVE tree' \in Trees /\ changes' \in Nat
    BY <1>1, <1>2 DEF Alter
  <1>3. CASE Work
    <2>1. \A f \in File, v \in Nat : [tree EXCEPT !.file[f] = v] \in Trees
      BY DEF Trees
    <2>2. \A f \in File : [tree EXCEPT !.index[f] = tree.file[f]] \in Trees
      BY DEF Trees
    <2>3. \A f \in File : [tree EXCEPT !.flags = (@ \ {f}) \cup ({f} \ @)] \in Trees
      BY DEF Trees
    <2>4. \A a \in Nat : [tree EXCEPT !.head = a, !.ref["own"] = a] \in Trees
      BY DEF Trees, Ref
    <2>5. \A a \in Nat : /\ [tree EXCEPT !.config = a] \in Trees
                         /\ [tree EXCEPT !.hooks = a] \in Trees
      BY DEF Trees
    <2>6. PICK u \in Trees : Alter(u)
      BY <1>1, <1>3, <2>1, <2>2, <2>3, <2>4, <2>5 DEF Work
    <2> QED
      BY <1>2, <2>6
  <1>4. CASE LeaveIgnored
    <2>1. \A i \in Ignored, v \in [stamp : Nat, data : Nat] :
            [tree EXCEPT !.ignored[i] = v] \in Trees
      BY DEF Trees
    <2>3. \A i \in Ignored : Written(tree.ignored[i]) \subseteq [stamp : Nat, data : Nat]
      <3>1. \A i \in Ignored : tree.ignored[i] \in [stamp : Nat, data : Nat]
        BY DEF Trees
      <3> QED
        BY <3>1 DEF Written, Gone
    <2>2. PICK u \in Trees : Alter(u)
      BY <1>4, <2>1, <2>3 DEF LeaveIgnored
    <2> QED
      BY <1>2, <2>2
  <1>5. CASE Churn
    <2>1. \A r \in Ref, a \in Nat : [tree EXCEPT !.ref[r] = a] \in Trees
      BY DEF Trees
    <2>2. [tree EXCEPT !.packed = ~tree.packed] \in Trees
      BY DEF Trees
    <2>3. PICK u \in Trees : Alter(u)
      BY <1>1, <1>5, <2>1, <2>2 DEF Churn, Ref
    <2> QED
      BY <1>2, <2>3
  <1> QED
    BY <1>3, <1>4, <1>5

\* A capture stands for the tree that it began with.
LEMMA CaptureStands ==
  ASSUME ContextTypeOK, half # NoManifest, NEW v \in {1, 2}
  PROVE  Stands(Captured(v), half) /\ Captured(v).version = v
  <1>1. (RefsHold /\ LooseRefsHold) \in BOOLEAN
    BY DEF RefsHold, LooseRefsHold
  <1>2. half \in Readings
    BY DEF ContextTypeOK
  <1> QED
    BY <1>1, <1>2 DEF Captured, Stands, Manifest

LEMMA ContextNextInv ==
  ASSUME ContextInv, [ContextNext]_contextVars
  PROVE  ContextInv'
  <1>1. setting' = setting
    BY DEF ContextNext, Work, LeaveIgnored, Churn, Alter, BeginCapture, CaptureThrows, Accept, Gate, GrokEnds, Judge,
       HostChecks, RecordVerification, Resume, contextVars
  <1>2. \A m, t : Stands(m, t)' <=> Stands(m, t)
    BY <1>1, StandsStays
  <1>3. ContextTypeOK'
    <2>1. CASE Work \/ LeaveIgnored \/ Churn
      BY <1>1, <2>1, TreeStays DEF ContextInv, ContextTypeOK, Work, LeaveIgnored, Churn, Alter
    <2>2. ASSUME BeginCapture PROVE half' \in Readings
      BY <2>2 DEF BeginCapture, Readings, ContextInv, ContextTypeOK
    <2>3. CASE ~(Work \/ LeaveIgnored \/ Churn)
      BY <1>1, <2>2, <2>3 DEF ContextInv, ContextTypeOK, ContextNext, BeginCapture, CaptureThrows, Accept, Gate, GrokEnds,
         Judge, HostChecks, RecordVerification, Resume, contextVars
    <2> QED
      BY <2>1, <2>3
  <1>4. ASSUME UNCHANGED <<step, accepted, done, evidence, start, finish>>,
               half' # half => step \in {"new", "accepted", "ran", "checks"}
        PROVE  ContextInv'
    <2>1. \A m, t : ObserveChangedPaths(m, t, FALSE)' = ObserveChangedPaths(m, t, FALSE)
      BY <1>1 DEF ObserveChangedPaths, ClassifyMetadata, Supervisory, Linked, Primary
    <2>2. (AcceptedStands /\ DoneStands)'
      BY <1>2, <1>4 DEF ContextInv, AcceptedStands, DoneStands
    <2>3. JudgedStands'
      BY <1>4 DEF ContextInv, JudgedStands
    <2>4. VerifiedStands'
      BY <1>2, <1>4, <1>1, ManifestStays DEF ContextInv, VerifiedStands
    <2>5. NothingTaken'
      BY <1>4 DEF ContextInv, NothingTaken
    <2> QED
      BY <1>3, <2>2, <2>3, <2>4, <2>5 DEF ContextInv
  <1>5. CASE Work \/ LeaveIgnored \/ Churn \/ BeginCapture \/ UNCHANGED contextVars
    BY <1>4, <1>5 DEF Work, LeaveIgnored, Churn, Alter, BeginCapture, contextVars
  <1>6. CASE Accept
    <2>1. setting.version \in {1, 2}
      BY DEF ContextInv, ContextTypeOK, Setting
    <2>2. Stands(accepted', start')
      BY <1>6, <2>1, CaptureStands DEF Accept, ContextInv
    <2> QED
      BY <1>2, <1>3, <1>6, <2>2 DEF Accept, ContextInv, AcceptedStands, DoneStands, JudgedStands,
         VerifiedStands, NothingTaken
  <1>7. CASE Gate
    BY <1>2, <1>3, <1>7 DEF Gate, ContextInv, AcceptedStands, DoneStands, JudgedStands,
       VerifiedStands, NothingTaken
  <1>8. CASE GrokEnds
    BY <1>2, <1>3, <1>8 DEF GrokEnds, ContextInv, AcceptedStands, DoneStands, JudgedStands,
       VerifiedStands, NothingTaken
  <1>9. CASE Judge
    <2>1. Stands(done', finish') /\ done'.version = 2
      BY <1>9, CaptureStands DEF Judge, ContextInv
    <2>2. evidence' = EvaluateScope(ObserveChangedPaths(accepted', done', FALSE))
      BY <1>9 DEF Judge
    <2> QED
      BY <1>2, <1>3, <1>9, <2>1, <2>2 DEF Judge, ContextInv, AcceptedStands, DoneStands, JudgedStands,
         VerifiedStands, NothingTaken
  <1>10. CASE HostChecks
    BY <1>2, <1>3, <1>10 DEF HostChecks, ContextInv, AcceptedStands, DoneStands, JudgedStands,
       VerifiedStands, NothingTaken
  <1>11. CASE RecordVerification
    <2>1. Stands(done', start') /\ done'.version = 2 /\ finish' \in Readings
      BY <1>11 DEF RecordVerification, ContextInv, ContextTypeOK, DoneStands
    <2>2. \E av \in BOOLEAN :
             evidence' = ObserveChangedPaths(done', Manifest(finish', av, 2), TRUE)
      <3>1. (RefsHold /\ LooseRefsHold) \in BOOLEAN
        BY DEF RefsHold, LooseRefsHold
      <3> QED
        BY <1>11, <3>1 DEF RecordVerification, Captured
    <2>3. VerifiedStands'
      BY <1>1, <1>2, <2>1, <2>2, ManifestStays DEF VerifiedStands
    <2> QED
      BY <1>3, <1>11, <2>3 DEF RecordVerification, ContextInv, AcceptedStands, DoneStands,
         JudgedStands, NothingTaken
  <1>13. CASE CaptureThrows
    BY <1>2, <1>3, <1>13 DEF CaptureThrows, ContextInv, AcceptedStands, DoneStands, JudgedStands,
       VerifiedStands, NothingTaken
  <1>12. CASE Resume
    BY <1>2, <1>3, <1>12 DEF Resume, ContextInv, AcceptedStands, DoneStands, JudgedStands,
       VerifiedStands, NothingTaken
  <1> QED
    BY <1>5, <1>6, <1>7, <1>8, <1>9, <1>10, <1>11, <1>12, <1>13 DEF ContextNext

\* A write outside of the scope leaves evidence, for any budgets, number of changes, of
\* runs of Grok, of references that move meanwhile and of calls of git that fail, but for
\* what the budgets and those calls leave unread (observeChangedPaths, evaluateScope).
THEOREM NoWriteHides == ContextSpec => []NoHiddenWrite
  <1>1. ContextInv => NoHiddenWrite
    <2> SUFFICES ASSUME ContextInv PROVE NoHiddenWrite
      OBVIOUS
    <2>1. ASSUME step = "judged", evidence = {},
                 \/ accepted.version = 2
                 \/ /\ start.at.flags \cup finish.at.flags = {} /\ start.at.hooks = finish.at.hooks
                    /\ "metadata" \notin BothFail(start, finish)
          PROVE  /\ SameTask(start, finish) /\ SameFile(start, finish, "out")
                 /\ SameIgnored(start, finish, Ignored)
      <3>1. Stands(accepted, start) /\ Stands(done, finish) /\ done.version = 2
        BY <2>1 DEF ContextInv, AcceptedStands, DoneStands
      <3>2. ObserveChangedPaths(accepted, done, FALSE) \subseteq {"in"}
        BY <2>1 DEF ContextInv, JudgedStands, EvaluateScope
      <3>3. "out" \in File \ ObserveChangedPaths(accepted, done, FALSE)
        BY <3>2 DEF File
      <3> QED
        BY <2>1, <3>1, <3>2, <3>3, NothingHidden
    <2>2. ASSUME step = "verified", evidence = {}
          PROVE  /\ SameTask(start, finish) /\ SameIgnored(start, finish, Lasting)
                 /\ \A f \in File : SameFile(start, finish, f)
      <3>1. PICK av \in BOOLEAN : evidence = ObserveChangedPaths(done, Manifest(finish, av, 2), TRUE)
        BY <2>2 DEF ContextInv, VerifiedStands
      <3>2. /\ Stands(done, start) /\ done.version = 2
            /\ Stands(Manifest(finish, av, 2), finish) /\ Manifest(finish, av, 2).version = 2
        <4>1. Stands(done, start) /\ done.version = 2 /\ finish \in Readings
          BY <2>2 DEF ContextInv, VerifiedStands
        <4>2. Stands(Manifest(finish, av, 2), finish)
          BY <4>1 DEF Stands
        <4>3. Manifest(finish, av, 2).version = 2
          BY DEF Manifest
        <4> QED
          BY <4>1, <4>2, <4>3
      <3>3. ObserveChangedPaths(done, Manifest(finish, av, 2), TRUE) = {}
        BY <2>2, <3>1
      <3> QED
        BY <3>2, <3>3, NothingHidden
    <2> QED
      BY <2>1, <2>2 DEF NoHiddenWrite
  <1> QED
    BY <1>1, ContextInitInv, ContextNextInv, PTL DEF ContextSpec

\* A task is neither stopped nor accused because other worktrees move or pack references, for
\* any number of changes and runs of Grok (classifyGitMetadata, assertContextCompatible).
THEOREM NobodyIsAccused == ContextSpec => NoFalseAlarm
  <1> DEFINE Innocent ==
        half # NoManifest /\ step' \in {"judged", "refused"}
        /\ (setting.linked \/ (setting.managed /\ step' = "refused"))
        /\ accepted.version = 2 /\ accepted.refs.attributable /\ Captured(2).refs.attributable
        /\ start.failed = half.failed /\ Same(start.at, half.at)
        /\ start.at.file = half.at.file /\ start.at.ignored = half.at.ignored
        => step' = "judged" /\ evidence' = {}
  <1>1. ASSUME ContextInv, [ContextNext]_contextVars PROVE Innocent
    <2> SUFFICES ASSUME half # NoManifest, step' \in {"judged", "refused"},
                        setting.linked \/ (setting.managed /\ step' = "refused"),
                        accepted.version = 2, accepted.refs.attributable,
                        Captured(2).refs.attributable,
                        start.failed = half.failed, Same(start.at, half.at),
                        start.at.file = half.at.file, start.at.ignored = half.at.ignored
                 PROVE  step' = "judged" /\ evidence' = {}
      OBVIOUS
    <2>1. step \notin {"judged", "refused"}
      BY <1>1 DEF ContextInv, NothingTaken
    <2>2. Gate \/ Judge
      BY <1>1, <2>1 DEF ContextNext, Work, LeaveIgnored, Churn, Alter, BeginCapture, CaptureThrows, Accept, GrokEnds,
         HostChecks, RecordVerification, Resume, contextVars
    <2>3. Stands(accepted, start) /\ Stands(Captured(2), half) /\ Captured(2).version = 2
      BY <1>1, <2>2, CaptureStands DEF ContextInv, AcceptedStands, Gate, Judge
    <2>4. /\ Compatible(accepted, Captured(2))
          /\ setting.linked => ObserveChangedPaths(accepted, Captured(2), FALSE) = {}
      <3>1. setting \in Setting /\ (setting.managed => ~setting.linked)
        BY <1>1 DEF ContextInv, ContextTypeOK
      <3> QED
        BY <2>3, <3>1, NothingInvented
    <2>5. ~Gate
      BY <2>1, <2>4 DEF Gate
    <2>6. Judge
      BY <2>2, <2>5
    <2> QED
      BY <2>4, <2>6 DEF Judge, EvaluateScope
  <1> QED
    BY <1>1, ContextInitInv, ContextNextInv, PTL DEF ContextSpec, NoFalseAlarm

-----------------------------------------------------------------------------
(* Host actions: one call is inside the workspace transaction at a time, and *)
(* what a call is about to record or to answer is what the job says.         *)

InsideHoldsLock == \A c \in Caller : call[c].at # "idle" => lock = c

RecordsTheDecision ==
  \A c \in Caller : call[c].at \in {"record", "return"} => decision = Wanted(c)

DecisionInv == DecisionTypeOK /\ InsideHoldsLock /\ RecordsTheDecision /\ OneDecision

\* What a caller wants is a decision, so it is not "no decision".
LEMMA WantedIsDecision ==
  ASSUME DecisionTypeOK, NEW c \in Caller
  PROVE  Wanted(c) \in Decision /\ Wanted(c) # Absent
  BY DecisionAssumption DEF DecisionTypeOK, Wanted, Decision, Call

LEMMA DecisionInitInv == DecisionInit => DecisionInv
  <1> SUFFICES ASSUME DecisionInit PROVE DecisionInv
    OBVIOUS
  <1>1. (CHOOSE k \in Key : TRUE) \in Key
    BY DecisionAssumption
  <1>2. DecisionTypeOK
    BY <1>1, DecisionAssumption DEF DecisionInit, DecisionTypeOK, Call, Verdict
  <1>3. InsideHoldsLock /\ RecordsTheDecision /\ OneDecision
    BY DEF DecisionInit, InsideHoldsLock, RecordsTheDecision, OneDecision
  <1>4. QED
    BY <1>2, <1>3 DEF DecisionInv

\* A call goes on to its next step, or ends and leaves the transaction.
Goes(c, s) == Go(c, s) /\ UNCHANGED lock

\* Moving a call on, or ending it, keeps everybody out of the transaction but one.
LEMMA MovesOn ==
  ASSUME DecisionTypeOK, InsideHoldsLock, NEW c \in Caller, call[c].at # "idle",
         NEW s \in {"idle", "read", "update", "record", "return"},
         Goes(c, s) \/ Done(c)
  PROVE  /\ call' \in [Caller -> Call] /\ lock' \in Caller \cup {Absent}
         /\ InsideHoldsLock'
         /\ \A b \in Caller : b # c => call'[b] = call[b] /\ call[b].at = "idle"
         /\ Wanted(c)' = Wanted(c)
         /\ Done(c) => call'[c].at = "idle"
         /\ Goes(c, s) => call'[c].at = s
  <1>1. call' \in [Caller -> Call]
    BY DEF DecisionTypeOK, Goes, Done, Go, Call
  <1>2. \A b \in Caller : b # c => call'[b] = call[b] /\ call[b].at = "idle"
    BY DEF DecisionTypeOK, InsideHoldsLock, Goes, Done, Go
  <1>3. Done(c) => call'[c].at = "idle"
    BY DEF DecisionTypeOK, Done, Go, Call
  <1>4. Goes(c, s) => call'[c].at = s
    BY DEF DecisionTypeOK, Goes, Go, Call
  <1>5. Wanted(c)' = Wanted(c)
    BY DEF DecisionTypeOK, Goes, Done, Go, Wanted, Call
  <1>6. InsideHoldsLock'
    BY <1>2, <1>3 DEF InsideHoldsLock, Goes, Done
  <1>7. lock' \in Caller \cup {Absent}
    BY DEF DecisionTypeOK, Goes, Done
  <1>8. QED
    BY <1>1, <1>2, <1>3, <1>4, <1>5, <1>6, <1>7

\* Every action keeps the invariant; the decision is written only where there is
\* none, when nobody can have been told one.
LEMMA DecisionStep == DecisionInv /\ [DecisionNext]_decisionVars => DecisionInv'
  <1> SUFFICES ASSUME DecisionInv, [DecisionNext]_decisionVars PROVE DecisionInv'
    OBVIOUS
  <1> USE DEF DecisionInv
  <1>1. ASSUME UNCHANGED <<decision, sidecar, lock, call, answers, calls, callerDeaths>>,
               request' \in {"none", "asked", "drifted"}
        PROVE  DecisionInv'
    BY <1>1 DEF DecisionTypeOK, InsideHoldsLock, RecordsTheDecision, OneDecision, Wanted
  <1>2. CASE Mint \/ Drift \/ UNCHANGED decisionVars
    BY <1>1, <1>2 DEF Mint, Drift, decisionVars, DecisionTypeOK
  <1>3. ASSUME NEW c \in Caller, NEW v \in Verdict, NEW k \in Key, Ask(c, v, k)
        PROVE  DecisionInv'
    <2>1. DecisionTypeOK'
      BY <1>3, DecisionAssumption DEF Ask, DecisionTypeOK, Call
    <2>2. \A b \in Caller : b # c => call'[b] = call[b] /\ call[b].at = "idle"
      BY <1>3, DecisionAssumption DEF Ask, DecisionTypeOK, InsideHoldsLock
    <2>3. call'[c].at = "read" /\ lock' = c
      BY <1>3 DEF Ask, DecisionTypeOK
    <2>4. InsideHoldsLock' /\ RecordsTheDecision'
      BY <2>2, <2>3 DEF InsideHoldsLock, RecordsTheDecision
    <2>5. OneDecision'
      BY <1>3 DEF Ask, OneDecision
    <2>6. QED
      BY <2>1, <2>4, <2>5
  <1>4. ASSUME NEW c \in Caller, ReadJob(c)
        PROVE  DecisionInv'
    <2> USE <1>4 DEF ReadJob
    <2>1. PICK s \in {"update", "record", "return"} :
            /\ Goes(c, s) \/ Done(c)
            /\ Goes(c, s) /\ s # "update" => decision = Wanted(c)
      BY DEF Goes, DecisionTypeOK, OneDecision, Wanted
    <2>2. DecisionTypeOK' /\ InsideHoldsLock'
      BY <2>1, MovesOn DEF DecisionTypeOK
    <2>3. RecordsTheDecision'
      BY <2>1, MovesOn DEF RecordsTheDecision
    <2>4. OneDecision'
      BY DEF OneDecision
    <2>5. QED
      BY <2>2, <2>3, <2>4
  <1>5. ASSUME NEW c \in Caller, UpdateJob(c)
        PROVE  DecisionInv'
    <2> USE <1>5 DEF UpdateJob
    <2>1. CASE request = "asked" /\ decision = Absent
      <3>1. Goes(c, "record") /\ decision' = Wanted(c)
        BY <2>1 DEF Goes
      <3>2. DecisionTypeOK' /\ InsideHoldsLock'
        BY <3>1, MovesOn, WantedIsDecision DEF DecisionTypeOK
      <3>3. RecordsTheDecision'
        BY <3>1, MovesOn DEF RecordsTheDecision
      <3>4. answers = {} /\ \A k \in Key : sidecar[k] = Absent
        BY <2>1, DecisionAssumption DEF OneDecision, DecisionTypeOK
      <3>5. OneDecision'
        BY <3>4 DEF OneDecision
      <3>6. QED
        BY <3>2, <3>3, <3>5
    <2>2. CASE ~(request = "asked" /\ decision = Absent)
      <3>1. Done(c) /\ decision' = decision
        BY <2>2
      <3>2. DecisionTypeOK' /\ InsideHoldsLock'
        BY <3>1, MovesOn DEF DecisionTypeOK
      <3>3. RecordsTheDecision'
        BY <3>1, MovesOn DEF RecordsTheDecision
      <3>4. OneDecision'
        BY <3>1 DEF OneDecision
      <3>5. QED
        BY <3>2, <3>3, <3>4
    <2>3. QED
      BY <2>1, <2>2
  <1>6. ASSUME NEW c \in Caller, WriteRecord(c)
        PROVE  DecisionInv'
    <2>1. Goes(c, "return") /\ decision = Wanted(c) /\ decision' = decision
      BY <1>6 DEF WriteRecord, Goes, RecordsTheDecision
    <2>2. DecisionTypeOK' /\ InsideHoldsLock'
      BY <1>6, <2>1, MovesOn, WantedIsDecision DEF WriteRecord, DecisionTypeOK
    <2>3. RecordsTheDecision'
      BY <1>6, <2>1, MovesOn DEF WriteRecord, RecordsTheDecision
    <2>4. OneDecision'
      BY <1>6, <2>1 DEF WriteRecord, OneDecision, DecisionTypeOK, Wanted
    <2>5. QED
      BY <2>2, <2>3, <2>4
  <1>7. ASSUME NEW c \in Caller, Answer(c)
        PROVE  DecisionInv'
    <2>1. Done(c) /\ decision = Wanted(c) /\ decision' = decision
      BY <1>7 DEF Answer, RecordsTheDecision
    <2>2. DecisionTypeOK' /\ InsideHoldsLock'
      BY <1>7, <2>1, MovesOn, WantedIsDecision DEF Answer, DecisionTypeOK
    <2>3. RecordsTheDecision'
      BY <1>7, <2>1, MovesOn DEF Answer, RecordsTheDecision
    <2>4. OneDecision'
      BY <1>7, <2>1 DEF Answer, OneDecision
    <2>5. QED
      BY <2>2, <2>3, <2>4
  <1>8. ASSUME NEW c \in Caller, CallerDies(c)
        PROVE  DecisionInv'
    <2>1. Done(c) /\ decision' = decision
      BY <1>8 DEF CallerDies
    <2>2. DecisionTypeOK' /\ InsideHoldsLock'
      BY <1>8, <2>1, MovesOn, DecisionAssumption DEF CallerDies, DecisionTypeOK
    <2>3. RecordsTheDecision'
      BY <1>8, <2>1, MovesOn DEF CallerDies, RecordsTheDecision
    <2>4. OneDecision'
      BY <1>8 DEF CallerDies, OneDecision
    <2>5. QED
      BY <2>2, <2>3, <2>4
  <1>9. QED
    BY <1>2, <1>3, <1>4, <1>5, <1>6, <1>7, <1>8 DEF DecisionNext

\* Whoever died between the decision in the job and the record of its key, every
\* caller that is answered hears the decision that is in the job
\* (decideHostActionRoleAdmission), however many callers and keys there are.
THEOREM OwnerDecidesOnce == DecisionSpec => []OneDecision
  <1>1. DecisionInv => OneDecision
    BY DEF DecisionInv
  <1>2. QED
    BY <1>1, DecisionInitInv, DecisionStep, PTL DEF DecisionSpec

-----------------------------------------------------------------------------
(* The artifact: a writer that has found nothing is the only one, and finds  *)
(* nothing else in the directory until it is done.                           *)

FoundNothing == {"open", "write", "publish"}

WriterHasBytes == writer.at # "idle" => writer.has \in Content

DirectoryIsOwn ==
  writer.at \in FoundNothing =>
    rec = {} /\ \A d \in Content : d # writer.has => tmp[d] = "none"

AtMostOneRecord == \A c, d \in rec : c = d

\* The host holds the record it has read, and applies no more often than it may.
HostHoldsRecord == host.at # "read" => rec = {host.has}

AppliesAreCounted ==
  /\ host.at \in {"read", "prepare", "parent"} => host.applies = 0
  /\ host.at = "apply" => host.applies < MaxApplies

NothingElseSeen == host.at \in {"bytes", "verified"} => ~host.print.other

ArtifactInv ==
  /\ ArtifactTypeOK
  /\ WriterHasBytes /\ DirectoryIsOwn /\ AtMostOneRecord
  /\ HostHoldsRecord /\ AppliesAreCounted /\ NothingElseSeen

WriterParts == WriterHasBytes /\ DirectoryIsOwn /\ AtMostOneRecord
HostParts   == HostHoldsRecord /\ AppliesAreCounted /\ NothingElseSeen

LEMMA ArtifactInitInv == ArtifactInit => ArtifactInv
  <1> SUFFICES ASSUME ArtifactInit PROVE ArtifactInv
    OBVIOUS
  <1>1. ArtifactTypeOK
    <2>1. 0 \in 0..MaxApplies /\ 0 \in 0..MaxEdits /\ 0 \in 0..MaxDeaths
      BY ArtifactAssumption
    <2>2. Untouched \in [target : Content \cup {Base, "user"}, other : BOOLEAN]
      BY DEF Untouched
    <2>3. QED
      BY <2>1, <2>2 DEF ArtifactInit, ArtifactTypeOK, WriterStep, HostStage
  <1>2. WriterHasBytes /\ DirectoryIsOwn /\ AtMostOneRecord
    BY DEF ArtifactInit, WriterHasBytes, DirectoryIsOwn, AtMostOneRecord, FoundNothing
  <1>3. HostHoldsRecord /\ AppliesAreCounted /\ NothingElseSeen
    BY DEF ArtifactInit, HostHoldsRecord, AppliesAreCounted, NothingElseSeen
  <1>4. QED
    BY <1>1, <1>2, <1>3 DEF ArtifactInv

\* What the writer does leaves the host's side alone, except that a record may
\* appear, and one appears only where there was none.
LEMMA WriterKeepsHost ==
  ASSUME ArtifactInv, keepHost, rec # {} => rec' = rec, rec' \subseteq Content
  PROVE  HostParts'
  BY DEF ArtifactInv, keepHost, HostParts, HostHoldsRecord, AppliesAreCounted, NothingElseSeen

\* What the host does leaves the writer's side alone.
LEMMA HostKeepsWriter ==
  ASSUME ArtifactInv, keepWriter
  PROVE  WriterParts'
  BY DEF ArtifactInv, keepWriter, WriterParts, WriterHasBytes, DirectoryIsOwn, AtMostOneRecord

\* Every step of the writer keeps its side, and no step replaces a record.
LEMMA WriterStepInv ==
  ASSUME ArtifactInv,
         Capture \/ Validate \/ ListDirectory \/ OpenTemporary \/ WriteTemporary
           \/ RenameTemporary \/ WriterDies
  PROVE  ArtifactTypeOK' /\ WriterParts' /\ (rec # {} => rec' = rec) /\ keepHost
  <1> USE DEF ArtifactInv, WriterParts, WriterHasBytes, DirectoryIsOwn, AtMostOneRecord,
              FoundNothing
  <1>1. ASSUME Capture \/ Validate \/ ListDirectory \/ OpenTemporary \/ WriteTemporary
                 \/ RenameTemporary \/ WriterDies,
               writer' \in [at : WriterStep, has : Content \cup {Base}],
               tmp' \in [Content -> {"none", "torn", "whole"}], rec' \subseteq Content
        PROVE  ArtifactTypeOK' /\ keepHost
    BY <1>1, ArtifactAssumption
    DEF ArtifactTypeOK, keepHost, keepDirectory, Capture, Validate, ListDirectory,
        OpenTemporary, WriteTemporary, RenameTemporary, WriterDies
  <1>2. ASSUME NEW s \in WriterStep, Write(s)
        PROVE  /\ writer' \in [at : WriterStep, has : Content \cup {Base}]
               /\ writer'.at = s /\ writer'.has = writer.has
    BY <1>2 DEF Write, ArtifactTypeOK
  <1>3. CASE Capture
    <2>1. writer' = [at |-> "validate", has |-> target] /\ target \in Content
      BY <1>3 DEF Capture, ArtifactTypeOK
    <2>2. UNCHANGED <<tmp, rec>>
      BY <1>3 DEF Capture, keepDirectory
    <2>3. ArtifactTypeOK' /\ keepHost
      BY <1>1, <1>3, <2>1, <2>2 DEF ArtifactTypeOK, WriterStep
    <2>4. QED
      BY <2>1, <2>2, <2>3
  <1>4. CASE Validate \/ WriterDies
    <2>1. PICK s \in {"list", "idle"} : Write(s) /\ (s = "list" => writer.at = "validate")
      BY <1>4 DEF Validate, WriterDies
    <2>2. UNCHANGED <<tmp, rec>>
      BY <1>4 DEF Validate, WriterDies, keepDirectory
    <2>3. /\ writer' \in [at : WriterStep, has : Content \cup {Base}]
          /\ writer'.at = s /\ writer'.has = writer.has
      BY <1>2, <2>1 DEF WriterStep
    <2>4. ArtifactTypeOK' /\ keepHost
      BY <1>1, <1>4, <2>2, <2>3 DEF ArtifactTypeOK
    <2>5. QED
      BY <2>1, <2>2, <2>3, <2>4
  <1>5. CASE ListDirectory
    <2> DEFINE c == writer.has
    <2>1. c \in Content
      BY <1>5 DEF ListDirectory
    <2>2. PICK s \in {"idle", "done", "publish", "open"} :
            Write(s) /\ (s \in FoundNothing => Other(c) = {} /\ c \notin rec)
      BY <1>5 DEF ListDirectory
    <2>3. UNCHANGED <<tmp, rec>>
      BY <1>5 DEF ListDirectory, keepDirectory
    <2>4. /\ writer' \in [at : WriterStep, has : Content \cup {Base}]
          /\ writer'.at = s /\ writer'.has = c
      BY <1>2, <2>2 DEF WriterStep
    <2>5. s \in FoundNothing => rec = {} /\ \A d \in Content : d # c => tmp[d] = "none"
      BY <2>1, <2>2 DEF Other, ArtifactTypeOK
    <2>6. ArtifactTypeOK' /\ keepHost
      BY <1>1, <1>5, <2>3, <2>4 DEF ArtifactTypeOK
    <2>7. QED
      BY <2>1, <2>3, <2>4, <2>5, <2>6
  <1>6. CASE OpenTemporary \/ WriteTemporary
    <2>1. PICK s \in {"write", "publish", "idle"} : Write(s)
      BY <1>6 DEF OpenTemporary, WriteTemporary
    <2>2. PICK f \in {"none", "torn", "whole"} : tmp' = [tmp EXCEPT ![writer.has] = f]
      BY <1>6 DEF OpenTemporary, WriteTemporary
    <2>3. writer.at \in FoundNothing /\ rec' = rec
      BY <1>6 DEF OpenTemporary, WriteTemporary
    <2>4. /\ writer' \in [at : WriterStep, has : Content \cup {Base}]
          /\ writer'.at = s /\ writer'.has = writer.has
      BY <1>2, <2>1 DEF WriterStep
    <2>5. tmp' \in [Content -> {"none", "torn", "whole"}]
      BY <2>2 DEF ArtifactTypeOK
    <2>6. \A d \in Content : d # writer.has => tmp'[d] = "none"
      BY <2>2, <2>3 DEF ArtifactTypeOK
    <2>7. ArtifactTypeOK' /\ keepHost
      BY <1>1, <1>6, <2>3, <2>4, <2>5 DEF ArtifactTypeOK
    <2>8. QED
      BY <2>3, <2>4, <2>6, <2>7
  <1>7. CASE RenameTemporary
    <2>1. Write("done") /\ writer.at = "publish" /\ writer.has \in Content
      BY <1>7 DEF RenameTemporary
    <2>2. tmp' = [tmp EXCEPT ![writer.has] = "none"] /\ rec = {} /\ rec' = {writer.has}
      BY <1>7, <2>1 DEF RenameTemporary
    <2>3. /\ writer' \in [at : WriterStep, has : Content \cup {Base}]
          /\ writer'.at = "done" /\ writer'.has = writer.has
      BY <1>2, <2>1 DEF WriterStep
    <2>4. ArtifactTypeOK' /\ keepHost
      BY <1>1, <1>7, <2>1, <2>2, <2>3 DEF ArtifactTypeOK
    <2>5. QED
      BY <2>1, <2>2, <2>3, <2>4
  <1>8. QED
    BY <1>3, <1>4, <1>5, <1>6, <1>7

\* Every step of the host keeps its side.
LEMMA HostStepInv ==
  ASSUME ArtifactInv,
         ReadArtifact \/ CompareWithTree \/ CheckParent \/ RequestApply \/ Inspect \/ InspectBytes
  PROVE  ArtifactTypeOK' /\ HostParts' /\ keepWriter
  <1> DEFINE HostType ==
        [at : HostStage, has : Content \cup {Base},
         print : [target : Content \cup {Base, "user"}, other : BOOLEAN], applies : 0..MaxApplies]
  <1> USE DEF ArtifactInv, HostParts, HostHoldsRecord, AppliesAreCounted, NothingElseSeen
  <1>1. ASSUME host' \in HostType, keepWriter, onTheWay' \subseteq Content,
               UNCHANGED <<parentTarget, parentOther>>
        PROVE  ArtifactTypeOK'
    BY <1>1 DEF ArtifactTypeOK, keepWriter
  <1>2. ASSUME NEW s \in HostStage, Host(s)
        PROVE  /\ host' \in HostType
               /\ host'.at = s /\ host'.has = host.has /\ host'.print = host.print
               /\ host'.applies = host.applies
    BY <1>2 DEF Host, ArtifactTypeOK
  <1>3. CASE ReadArtifact
    <2>1. PICK c \in rec : host' = [host EXCEPT !.at = "prepare", !.has = c]
      BY <1>3 DEF ReadArtifact
    <2>2. rec' = {c} /\ c \in Content
      <3>1. UNCHANGED rec
        BY <1>3 DEF ReadArtifact, keepWriter
      <3>2. QED
        BY <2>1, <3>1 DEF AtMostOneRecord, ArtifactTypeOK
    <2>3. /\ host' \in HostType /\ host'.at = "prepare" /\ host'.has = c
          /\ host'.applies = host.applies
      BY <2>1, <2>2 DEF ArtifactTypeOK, HostStage
    <2>4. QED
      BY <1>1, <1>3, <2>2, <2>3 DEF ReadArtifact, ArtifactTypeOK
  <1>4. CASE CompareWithTree \/ CheckParent
    <2>1. PICK s \in {"parent", "apply", "blocked"} : Host(s)
      BY <1>4 DEF CompareWithTree, CheckParent
    <2>2. /\ host' \in HostType /\ host'.at = s /\ host'.has = host.has
          /\ host'.applies = host.applies
      BY <1>2, <2>1 DEF HostStage
    <2>3. keepWriter /\ host.at \in {"prepare", "parent"}
      BY <1>4 DEF CompareWithTree, CheckParent
    <2>4. rec' = {host'.has} /\ host.applies = 0
      BY <2>2, <2>3 DEF keepWriter
    <2>5. QED
      BY <1>1, <1>4, <2>2, <2>3, <2>4, ArtifactAssumption
      DEF CompareWithTree, CheckParent, ArtifactTypeOK
  <1>5. CASE RequestApply
    <2>1. host' = [host EXCEPT !.at = "inspect", !.applies = host.applies + 1]
      BY <1>5 DEF RequestApply
    <2>2. host.has \in Content
      BY <1>5 DEF RequestApply, ArtifactTypeOK
    <2>3. host.applies + 1 \in 0..MaxApplies
      BY <1>5, ArtifactAssumption DEF RequestApply, ArtifactTypeOK
    <2>4. host' \in HostType /\ host'.at = "inspect" /\ host'.has = host.has
      BY <2>1, <2>3 DEF ArtifactTypeOK, HostStage
    <2>5. keepWriter /\ rec' = {host'.has} /\ onTheWay' \subseteq Content
      BY <1>5, <2>2, <2>4 DEF RequestApply, keepWriter, ArtifactTypeOK
    <2>6. QED
      BY <1>1, <1>5, <2>4, <2>5 DEF RequestApply
  <1>6. CASE Inspect
    <2>1. PICK s \in {"apply", "blocked", "bytes"} :
            /\ host' = [host EXCEPT !.print = Fingerprint, !.at = s]
            /\ s = "apply" => host.applies < MaxApplies
            /\ s = "bytes" => ~parentOther
      BY <1>6 DEF Inspect
    <2>2. Fingerprint \in [target : Content \cup {Base, "user"}, other : BOOLEAN]
      BY DEF Fingerprint, ArtifactTypeOK
    <2>3. /\ host' \in HostType /\ host'.at = s /\ host'.has = host.has
          /\ host'.print.other = parentOther /\ host'.applies = host.applies
      BY <2>1, <2>2 DEF ArtifactTypeOK, HostStage, Fingerprint
    <2>4. keepWriter /\ rec' = {host'.has}
      BY <1>6, <2>3 DEF Inspect, keepWriter
    <2>5. QED
      BY <1>1, <1>6, <2>1, <2>3, <2>4 DEF Inspect, ArtifactTypeOK
  <1>7. CASE InspectBytes
    <2>1. PICK s \in {"verified", "blocked"} : Host(s)
      BY <1>7 DEF InspectBytes
    <2>2. /\ host' \in HostType /\ host'.at = s /\ host'.has = host.has
          /\ host'.print = host.print
      BY <1>2, <2>1 DEF HostStage
    <2>3. keepWriter /\ rec' = {host'.has} /\ ~host.print.other
      BY <1>7, <2>2 DEF InspectBytes, keepWriter
    <2>4. QED
      BY <1>1, <1>7, <2>2, <2>3 DEF InspectBytes, ArtifactTypeOK
  <1>8. QED
    BY <1>3, <1>4, <1>5, <1>6, <1>7

\* The provider, the user and the answer of an apply touch neither side.
LEMMA OthersInv ==
  ASSUME ArtifactInv,
         \/ ProviderWrites \/ UserEdits \/ UNCHANGED artifactVars
         \/ \E c \in onTheWay : ApplyArrives(c)
  PROVE  ArtifactTypeOK' /\ UNCHANGED <<tmp, rec, writer, host>>
  <1> USE DEF ArtifactInv, ArtifactTypeOK
  <1>1. CASE ProviderWrites
    BY <1>1, ArtifactAssumption DEF ProviderWrites
  <1>2. CASE UserEdits
    <2>1. edits' \in 0..MaxEdits
      BY <1>2, ArtifactAssumption DEF UserEdits
    <2>2. parentTarget' \in Content \cup {Base, "user"}
      BY <1>2 DEF UserEdits
    <2>3. parentOther' \in BOOLEAN
      BY <1>2, Zenon DEF UserEdits
    <2>4. QED
      BY <1>2, <2>1, <2>2, <2>3 DEF UserEdits
  <1>3. CASE UNCHANGED artifactVars
    BY <1>3 DEF artifactVars
  <1>4. ASSUME NEW c \in onTheWay, ApplyArrives(c)
        PROVE  ArtifactTypeOK' /\ UNCHANGED <<tmp, rec, writer, host>>
    BY <1>4 DEF ApplyArrives
  <1>5. QED
    BY <1>1, <1>2, <1>3, <1>4

LEMMA ArtifactStep ==
  ArtifactInv /\ [ArtifactNext]_artifactVars => ArtifactInv' /\ (rec # {} => rec' = rec)
  <1> SUFFICES ASSUME ArtifactInv, [ArtifactNext]_artifactVars
               PROVE  ArtifactInv' /\ (rec # {} => rec' = rec)
    OBVIOUS
  <1>1. CASE Capture \/ Validate \/ ListDirectory \/ OpenTemporary \/ WriteTemporary
               \/ RenameTemporary \/ WriterDies
    <2>1. ArtifactTypeOK' /\ WriterParts' /\ (rec # {} => rec' = rec) /\ keepHost
      BY <1>1, WriterStepInv
    <2>2. HostParts'
      BY <2>1, WriterKeepsHost DEF ArtifactTypeOK
    <2>3. QED
      BY <2>1, <2>2 DEF ArtifactInv, WriterParts, HostParts
  <1>2. CASE ReadArtifact \/ CompareWithTree \/ CheckParent \/ RequestApply \/ Inspect
               \/ InspectBytes
    <2>1. ArtifactTypeOK' /\ HostParts' /\ keepWriter
      BY <1>2, HostStepInv
    <2>2. WriterParts' /\ rec' = rec
      BY <2>1, HostKeepsWriter DEF keepWriter
    <2>3. QED
      BY <2>1, <2>2 DEF ArtifactInv, WriterParts, HostParts
  <1>3. CASE \/ ProviderWrites \/ UserEdits \/ UNCHANGED artifactVars
             \/ \E c \in onTheWay : ApplyArrives(c)
    <2>1. ArtifactTypeOK' /\ UNCHANGED <<tmp, rec, writer, host>>
      BY <1>3, OthersInv
    <2>2. QED
      BY <2>1 DEF ArtifactInv, WriterHasBytes, DirectoryIsOwn, AtMostOneRecord,
                  HostHoldsRecord, AppliesAreCounted, NothingElseSeen
  <1>4. QED
    BY <1>1, <1>2, <1>3 DEF ArtifactNext

\* The first record of a worker stays, and stays the only one, whoever dies while
\* publishing it (atomicPublishArtifactRecord and the listing before it).
THEOREM ArtifactIsUnique == ArtifactSpec => OneArtifact
  <1>1. ArtifactSpec => []ArtifactInv
    BY ArtifactInitInv, ArtifactStep, PTL DEF ArtifactSpec
  <1>2. ArtifactInv /\ [ArtifactNext]_artifactVars => [rec # {} => rec' = rec]_artifactVars
    BY ArtifactStep
  <1>3. QED
    BY <1>1, <1>2, PTL DEF ArtifactSpec, OneArtifact

\* An integration that is verified is one of the artifact on record, seen in a
\* checkout with nothing else dirty (inspectWriteVerticalIntegration).
THEOREM VerificationIsOfRecord == ArtifactSpec => []VerifiedIsPublished
  <1>1. ArtifactSpec => []ArtifactInv
    BY ArtifactInitInv, ArtifactStep, PTL DEF ArtifactSpec
  <1>2. ArtifactInv => VerifiedIsPublished
    BY DEF ArtifactInv, HostHoldsRecord, NothingElseSeen, VerifiedIsPublished
  <1>3. QED
    BY <1>1, <1>2, PTL

-----------------------------------------------------------------------------
(* The worktree: one process reconciles at a time, and while it does nobody  *)
(* moves the journal; a tree once found exact, or made by the holder of the  *)
(* attempt, is touched by no process that comes too late but one on its      *)
(* failure path, and the history has whose tree that was.                    *)

\* Only the provider of a ready worker edits, and what was ready once stays so.
EditedIsReady == root \in {"edited", "moved"} => journal.ready

OneReconciler ==
  \A p, q \in Proc : alive[p] /\ alive[q] /\ pc[p] \in Reconciling /\ pc[q] \in Reconciling => p = q

Deciding == {"again", "settle", "remove"}

ReconcilerIsCurrent ==
  \A p \in Proc : alive[p] /\ pc[p] \in Deciding => journal.state = "cleanup_pending"

SettlesOnExact ==
  \A p \in Proc :
    alive[p] /\ pc[p] = "settle" /\ seen[p].class = "exact-clean-registered" /\ p \notin undone
      => ExactClean

\* What the holder of the attempt has made is there, step by step.
Made(p) == /\ reg /\ root \in {"partial", "clean"}
           /\ pc[p] # "checkout" => root = "clean"
           /\ pc[p] = "created" => ~unsafe

MadeIsExact ==
  \A p \in Proc :
    pc[p] \in {"checkout", "identity", "preflight", "created"} /\ Actor(p, fence[p]) /\ p \notin undone
      => Made(p)

WorkerType == JournalTypeOK /\ TreeTypeOK /\ Shape(journal)

WorkerInv ==
  /\ WorkerType
  /\ EditedIsReady
  /\ OneReconciler /\ ReconcilerIsCurrent /\ SettlesOnExact /\ MadeIsExact

-----------------------------------------------------------------------------
LEMMA WorkerInitInv == WorktreeInit => WorkerInv
  <1> SUFFICES ASSUME WorktreeInit PROVE WorkerInv
    OBVIOUS
  <1> USE JournalAssumption DEF WorktreeInit, JournalInit, TreeInit, Planned
  <1>1. JournalTypeOK
    BY DEF JournalTypeOK, Journal, JournalState
  <1>2. TreeTypeOK
    <2>1. 0 \in 0..MaxFence /\ 0 \in 0..MaxRev
      OBVIOUS
    <2>2. fence \in [Proc -> 0..MaxFence] /\ copy \in [Proc -> 0..MaxRev]
      BY <2>1
    <2>3. /\ pc \in [Proc -> Step] /\ parent \in BOOLEAN /\ root \in Root
          /\ reg \in BOOLEAN /\ unsafe \in BOOLEAN /\ undone \subseteq Proc
      BY DEF Root, Step
    <2>4. seen \in [Proc -> [class : Class, parent : BOOLEAN]]
      BY DEF Class
    <2>5. QED
      BY <2>2, <2>3, <2>4 DEF TreeTypeOK
  <1>3. Shape(journal)
    <2>1. LeaseShape(journal) /\ ReissueShape(journal) /\ TimeShape(journal)
      BY DEF LeaseShape, ReissueShape, TimeShape
    <2>2. CleanerShape(journal)
      BY DEF CleanerShape, Terminal
    <2>3. journal.rev = 0 /\ journal.state = "planned"
      OBVIOUS
    <2>4. QED
      BY <2>1, <2>2, <2>3 DEF Shape
  <1>4. EditedIsReady
    BY DEF EditedIsReady
  <1>5. OneReconciler /\ ReconcilerIsCurrent /\ SettlesOnExact /\ MadeIsExact
    BY DEF OneReconciler, ReconcilerIsCurrent, SettlesOnExact, MadeIsExact, Reconciling, Deciding
  <1>6. QED
    BY <1>1, <1>2, <1>3, <1>4, <1>5 DEF WorkerInv, WorkerType

\* The edges a journal may take.
Edge ==
  \E p \in Proc, rev \in Nat, f \in Nat :
    \/ StartAttempt(p, rev) \/ Publish(p, rev, f) \/ GiveUpAttempt(p, rev, f)
    \/ Withdraw(rev) \/ Adopt(rev) \/ Reissue(rev) \/ Confirm(rev) \/ Clean(rev)
    \/ Fail(rev) \/ Reclaim(p, rev)

\* What a revision is before its bounds are checked.
Draft == [state : JournalState, rev : Nat, fence : Nat,
          holder : Proc \cup {None}, cleaner : Proc \cup {None},
          lease : {"none", "running", "over"},
          provisioned : BOOLEAN, ready : BOOLEAN, cleanup : BOOLEAN, archived : BOOLEAN]

\* A revision keeps all that it does not set, and none unsets "ready".
LEMMA Drafts ==
  ASSUME journal \in Journal, NEW p \in Proc
  PROVE  /\ ToProvisioning(p) \in Draft /\ ToProvisioning(p).ready = journal.ready
         /\ ToProvisioning(p).holder = p
         /\ ToReady \in Draft /\ ToReady.ready
         /\ ToCleanup \in Draft /\ ToCleanup.ready = journal.ready
         /\ ToReissue \in Draft /\ ToReissue.ready = journal.ready
         /\ \A s \in {"reissue_planned", "cleaned", "failed"} :
              Revised(s) \in Draft /\ Revised(s).ready = journal.ready
  <1>1. journal.rev + 1 \in Nat /\ journal.fence + 1 \in Nat /\ journal.holder \in Proc \cup {None}
    BY JournalAssumption DEF Journal
  <1>2. \A s \in JournalState :
          /\ Revised(s) \in Draft /\ Revised(s).ready = journal.ready
          /\ Revised(s).fence = journal.fence
    <2> SUFFICES ASSUME NEW s \in JournalState
                 PROVE  /\ Revised(s) \in Draft /\ Revised(s).ready = journal.ready
                        /\ Revised(s).fence = journal.fence
      OBVIOUS
    <2>1. journal \in Draft
      BY JournalAssumption DEF Journal, Draft
    <2>2. QED
      BY <1>1, <2>1 DEF Draft, Revised
  <1>3. /\ ToProvisioning(p) \in Draft /\ ToProvisioning(p).ready = journal.ready
        /\ ToProvisioning(p).holder = p
    <2> DEFINE r == Revised("provisioning")
               f == IF journal.state = "reissue_planned" THEN r.fence ELSE r.fence + 1
    <2>1. r \in Draft /\ r.ready = journal.ready
      BY <1>2 DEF JournalState
    <2>2. f \in Nat
      BY <2>1 DEF Draft
    <2>3. ToProvisioning(p) = [r EXCEPT !.fence = f, !.holder = p, !.lease = "running",
                                        !.provisioned = TRUE]
      BY DEF ToProvisioning
    <2> HIDE DEF r, f
    <2>4. QED
      BY <2>1, <2>2, <2>3 DEF Draft
  <1>4. ToReady \in Draft /\ ToReady.ready
    <2>1. Revised("ready") \in Draft
      BY <1>2 DEF JournalState
    <2>2. QED
      BY <2>1 DEF ToReady, Draft
  <1>5. ToCleanup \in Draft /\ ToCleanup.ready = journal.ready
    <2>1. Revised("cleanup_pending") \in Draft /\ Revised("cleanup_pending").ready = journal.ready
      BY <1>2 DEF JournalState
    <2>2. QED
      BY <1>1, <2>1 DEF ToCleanup, Draft
  <1>6. ToReissue \in Draft /\ ToReissue.ready = journal.ready
    <2> DEFINE r == Revised("reissue_planned")
    <2>1. r \in Draft /\ r.ready = journal.ready /\ r.fence + 1 \in Nat
      BY <1>2, <1>1 DEF JournalState
    <2>2. ToReissue = [r EXCEPT !.fence = r.fence + 1, !.cleaner = None, !.provisioned = FALSE,
                                !.cleanup = FALSE, !.archived = TRUE]
      BY DEF ToReissue
    <2> HIDE DEF r
    <2>3. QED
      BY <2>1, <2>2 DEF Draft
  <1>7. QED
    BY <1>2, <1>3, <1>4, <1>5, <1>6 DEF JournalState

\* An edge leads to a well-formed journal that has not forgotten that it was ready.
LEMMA EdgeKeepsShape ==
  ASSUME journal \in Journal, Edge
  PROVE  journal' \in Journal /\ Shape(journal') /\ (journal.ready => journal'.ready)
  <1>1. PICK p \in Proc, rev \in Nat, f \in Nat :
          \/ StartAttempt(p, rev) \/ Publish(p, rev, f) \/ GiveUpAttempt(p, rev, f)
          \/ Withdraw(rev) \/ Adopt(rev) \/ Reissue(rev) \/ Confirm(rev) \/ Clean(rev)
          \/ Fail(rev) \/ Reclaim(p, rev)
    BY DEF Edge
  <1>2. PICK next \in Draft : Transition(rev, next) /\ (journal.ready => next.ready)
    <2> DEFINE Makes(n) == n \in Draft /\ Transition(rev, n) /\ (journal.ready => n.ready)
    <2>1. Makes(ToProvisioning(p)) \/ Makes(ToReady) \/ Makes(ToCleanup) \/ Makes(ToReissue)
            \/ \E s \in {"reissue_planned", "cleaned", "failed"} : Makes(Revised(s))
      BY <1>1, Drafts DEF StartAttempt, Publish, GiveUpAttempt, Withdraw, Adopt, Reissue,
                          Confirm, Clean, Fail, Reclaim
    <2> HIDE DEF Makes
    <2>2. \E n : Makes(n)
      BY <2>1
    <2>3. QED
      BY <2>2 DEF Makes
  <1>3. journal' = next /\ next.fence <= MaxFence /\ next.rev <= MaxRev /\ Shape(next)
    BY <1>2 DEF Transition
  <1>4. next \in Journal
    BY <1>3, JournalAssumption DEF Draft, Journal
  <1>5. QED
    BY <1>2, <1>3, <1>4

\* Moving one process on.
LEMMA Moves ==
  ASSUME TreeTypeOK, NEW p \in Proc, NEW s \in Step, Goto(p, s)
  PROVE  /\ pc' \in [Proc -> Step] /\ pc'[p] = s
         /\ \A q \in Proc : q # p => pc'[q] = pc[q]
  BY DEF TreeTypeOK, Goto

\* What a process knows of the journal after it has read it.
LEMMA HoldsIsTyped ==
  ASSUME TreeTypeOK, JournalTypeOK', NEW p \in Proc, Holds(p)
  PROVE  /\ fence' \in [Proc -> 0..MaxFence] /\ copy' \in [Proc -> 0..MaxRev]
         /\ \A q \in Proc : q # p => fence'[q] = fence[q]
  BY DEF TreeTypeOK, JournalTypeOK, Journal, Holds

\* A step of p that writes the journal and leaves the tree alone.
WritesJournal(p) ==
  /\ UNCHANGED <<alive, parent, root, reg, unsafe, seen, undone>>
  /\ Edge \/ UNCHANGED journal
  /\ fence' \in [Proc -> 0..MaxFence] /\ copy' \in [Proc -> 0..MaxRev]
  /\ pc' \in [Proc -> Step]
  /\ \A q \in Proc : q # p => pc'[q] = pc[q] /\ fence'[q] = fence[q]
  /\ pc'[p] \in {"idle", "mkdir", "failed", "empty", "remove"}
  /\ pc'[p] \in {"empty", "remove"} => pc[p] = "settle"
  /\ pc'[p] = "remove" => UNCHANGED journal
  /\ \/ UNCHANGED journal
     \/ /\ journal.state = "cleanup_pending" => pc[p] = "settle"
        /\ journal'.state = "provisioning" => journal'.holder = p

\* A step that takes nothing of the tree away.
Builds(p) == /\ reg => reg'
             /\ root = "clean" => root' = "clean"
             /\ root = "partial" => root' \in {"partial", "clean"}
             /\ undone \subseteq undone' \cup {p}

\* A step on the failure path.
Takes(p) == /\ pc'[p] = "failed" /\ undone \subseteq undone'
            /\ Actor(p, fence[p]) \/ WithTree \subseteq undone' \/ UNCHANGED <<root, reg>>

\* A step of p that works on the tree and leaves the journal alone.
WorksOnTree(p) ==
  /\ UNCHANGED <<journal, alive, unsafe, fence>>
  /\ TreeTypeOK'
  /\ \A q \in Proc : q # p => pc'[q] = pc[q] /\ seen'[q] = seen[q]
  /\ root' \in {"edited", "moved"} => root' = root
  /\ Builds(p) \/ Takes(p) \/ (pc[p] = "remove" /\ pc'[p] = "idle")
  /\ pc'[p] \in Reconciling =>
       \/ pc[p] \in Deciding
       \/ /\ journal.state = "cleanup_pending"
          /\ \A q \in Proc : pc[q] \in Reconciling => ~alive[q]
  /\ pc'[p] = "settle" /\ seen'[p].class = "exact-clean-registered" => ExactClean'
  /\ pc'[p] = "checkout" => reg' /\ root' = "partial"
  /\ pc'[p] = "identity" =>
       /\ pc[p] = "checkout" /\ UNCHANGED <<reg, undone>>
       /\ root \in {"partial", "clean"} => root' = "clean"
  /\ pc'[p] = "preflight" => pc[p] = "identity" /\ UNCHANGED <<root, reg, undone>>
  /\ pc'[p] = "created" =>
       pc[p] = "preflight" /\ UNCHANGED <<root, reg, undone>> /\ (unsafe => root = "partial")

-----------------------------------------------------------------------------
LEMMA JournalActions ==
  ASSUME WorkerInv, NEW p \in Proc, alive[p],
         \/ StartProvisioning(p) \/ PublishReady(p) \/ EndAttempt(p) \/ TakeOver(p)
         \/ PlanCleanup(p) \/ Settle(p) \/ ConfirmOrFail(p)
  PROVE  WritesJournal(p)
  <1> USE DEF WorkerInv, WorkerType
  <1>1. journal.rev \in Nat /\ fence[p] \in Nat /\ copy[p] \in Nat /\ pc[p] \in Step
    BY JournalAssumption DEF JournalTypeOK, Journal, TreeTypeOK
  <1>2. ASSUME journal' \in Journal, Holds(p), alive' = alive
        PROVE  /\ fence' \in [Proc -> 0..MaxFence] /\ copy' \in [Proc -> 0..MaxRev]
               /\ \A q \in Proc : q # p => fence'[q] = fence[q]
    BY <1>2, HoldsIsTyped DEF JournalTypeOK
  <1>3. Edge => journal' \in Journal
    BY EdgeKeepsShape DEF JournalTypeOK
  <1>4. CASE StartProvisioning(p) \/ TakeOver(p)
    <2>1. PICK s \in {"mkdir", "failed"} : Goto(p, s)
      BY <1>4 DEF StartProvisioning, TakeOver
    <2>2. Edge
      BY <1>1, <1>4 DEF StartProvisioning, TakeOver, Edge
    <2>3. Holds(p) /\ keepTree /\ UNCHANGED <<alive, seen, undone>> /\ pc[p] = "idle"
      BY <1>4 DEF StartProvisioning, TakeOver
    <2>4. journal'.holder = p /\ journal.state # "cleanup_pending"
      <3>1. journal' = ToProvisioning(p)
        BY <1>4 DEF StartProvisioning, TakeOver, StartAttempt, Reclaim, Transition
      <3>2. journal'.holder = p
        BY <3>1, Drafts DEF JournalTypeOK
      <3>3. QED
        BY <1>4, <3>2 DEF StartProvisioning, TakeOver, StartAttempt, Reclaim
    <2>5. QED
      BY <1>2, <1>3, <2>1, <2>2, <2>3, <2>4, Moves DEF WritesJournal, keepTree, Step
  <1>5. CASE PublishReady(p) \/ EndAttempt(p)
    <2>1. PICK s \in {"idle", "failed"} : Goto(p, s)
      BY <1>5 DEF PublishReady, EndAttempt
    <2>2. keepTree /\ UNCHANGED <<alive, seen, undone>> /\ pc[p] \in {"created", "failed"}
      BY <1>5 DEF PublishReady, EndAttempt
    <2>3. CASE UNCHANGED <<journal, fence, copy>>
      BY <2>1, <2>2, <2>3, Moves DEF WritesJournal, keepTree, Step, TreeTypeOK
    <2>4. CASE /\ Publish(p, journal.rev, fence[p]) \/ GiveUpAttempt(p, journal.rev, fence[p])
               /\ Holds(p)
      <3>1. Edge
        BY <1>1, <2>4 DEF Edge
      <3>2. journal'.state # "provisioning" /\ journal.state # "cleanup_pending"
        <4>1. journal' = ToReady \/ journal' = ToCleanup
          BY <2>4 DEF Publish, GiveUpAttempt, Transition
        <4>2. journal'.state \in {"ready", "cleanup_pending"}
          BY <4>1 DEF ToReady, ToCleanup, Revised, JournalTypeOK, Journal
        <4>3. QED
          BY <2>4, <4>2 DEF Publish, GiveUpAttempt, Actor
      <3>3. QED
        BY <1>2, <1>3, <2>1, <2>2, <2>4, <3>1, <3>2, Moves DEF WritesJournal, keepTree, Step
    <2>5. QED
      BY <1>5, <2>3, <2>4 DEF PublishReady, EndAttempt
  <1>6. CASE PlanCleanup(p) \/ ConfirmOrFail(p)
    <2>1. Edge
      BY <1>1, <1>6 DEF PlanCleanup, ConfirmOrFail, Edge
    <2>2. UNCHANGED <<alive, treeVars>> /\ pc[p] = "idle"
      BY <1>6 DEF PlanCleanup, ConfirmOrFail
    <2>3. journal'.state # "provisioning" /\ journal.state # "cleanup_pending"
      <3>1. \/ journal' = ToCleanup
            \/ \E s \in {"reissue_planned", "failed"} : journal' = Revised(s)
        BY <1>6 DEF PlanCleanup, ConfirmOrFail, Withdraw, Confirm, Fail, Transition
      <3>2. journal'.state \in {"cleanup_pending", "reissue_planned", "failed"}
        BY <3>1 DEF ToCleanup, Revised, JournalTypeOK, Journal
      <3>3. QED
        BY <1>6, <3>2 DEF PlanCleanup, ConfirmOrFail, Withdraw, Confirm
    <2>4. QED
      BY <2>1, <2>2, <2>3 DEF WritesJournal, treeVars, TreeTypeOK
  <1>7. CASE Settle(p)
    <2>1. keepTree /\ UNCHANGED <<alive, fence, copy, seen, undone>> /\ pc[p] = "settle"
      BY <1>7 DEF Settle
    <2>2. PICK s \in {"idle", "empty", "remove"} :
            Goto(p, s) /\ (s = "remove" => UNCHANGED journal)
      BY <1>7 DEF Settle
    <2>3. Edge \/ UNCHANGED journal
      BY <1>1, <1>7 DEF Settle, Edge
    <2>4. UNCHANGED journal \/ journal'.state # "provisioning"
      <3>1. \/ UNCHANGED journal \/ journal' = ToReady \/ journal' = ToReissue
            \/ \E t \in {"cleaned", "failed"} : journal' = Revised(t)
        BY <1>7 DEF Settle, Adopt, Reissue, Clean, Fail, Transition
      <3>2. UNCHANGED journal
              \/ journal'.state \in {"ready", "reissue_planned", "cleaned", "failed"}
        BY <3>1 DEF ToReady, ToReissue, Revised, JournalTypeOK, Journal
      <3>3. QED
        BY <3>2
    <2>5. QED
      BY <2>1, <2>2, <2>3, <2>4, Moves DEF WritesJournal, keepTree, Step, TreeTypeOK
  <1>8. QED
    BY <1>4, <1>5, <1>6, <1>7

LEMMA TreeActions ==
  ASSUME WorkerInv, NEW p \in Proc, alive[p],
         \/ MakeParent(p) \/ RegisterWorktree(p) \/ FinishCheckout(p) \/ CheckIdentity(p)
         \/ Preflight(p) \/ Reconcile(p) \/ ObserveAgain(p) \/ RemoveWorktree(p)
         \/ RemoveEmptyParent(p)
  PROVE  WorksOnTree(p)
  <1> USE DEF WorkerInv, WorkerType, TreeTypeOK, keepJournal, journalVars
  <1>1. ASSUME NEW s \in {"idle", "register", "checkout", "identity", "preflight", "created", "failed"},
               Goto(p, s), UNCHANGED <<journal, alive, unsafe, fence, copy, seen>>,
               parent' \in BOOLEAN, root' \in Root, reg' \in BOOLEAN, undone' \subseteq Proc,
               root' \in {"edited", "moved"} => root' = root,
               Builds(p) \/ Takes(p) \/ (pc[p] = "remove" /\ s = "idle"),
               s = "checkout" => reg' /\ root' = "partial",
               s = "identity" => /\ pc[p] = "checkout" /\ UNCHANGED <<reg, undone>>
                                 /\ root \in {"partial", "clean"} => root' = "clean",
               s = "preflight" => pc[p] = "identity" /\ UNCHANGED <<root, reg, undone>>,
               s = "created" => /\ pc[p] = "preflight" /\ UNCHANGED <<root, reg, undone>>
                                /\ unsafe => root = "partial"
        PROVE  WorksOnTree(p)
    <2>1. s \in Step /\ s \notin Reconciling \cup {"settle"}
      BY <1>1 DEF Step, Reconciling
    <2>2. pc' \in [Proc -> Step] /\ pc'[p] = s /\ \A q \in Proc : q # p => pc'[q] = pc[q]
      BY <1>1, <2>1, Moves
    <2>3. TreeTypeOK'
      BY <1>1, <2>2
    <2>4. QED
      BY <1>1, <2>1, <2>2, <2>3 DEF WorksOnTree
  <1>2. ASSUME RemoveTree PROVE root' \in Root /\ (root' \in {"edited", "moved"} => root' = root)
    <2>1. root' \in {"none", "partial"} \/ root' = root
      BY <1>2 DEF RemoveTree
    <2>2. QED
      BY <2>1 DEF Root
  <1>12. ASSUME RemoveTree PROVE reg' \in BOOLEAN
    BY <1>12, Zenon DEF RemoveTree
  <1>3. ASSUME TakeAway(p), Goto(p, "failed")
        PROVE  /\ root' \in Root /\ (root' \in {"edited", "moved"} => root' = root)
               /\ undone' \subseteq Proc /\ Takes(p)
    <2>1. pc'[p] = "failed"
      BY <1>3, Moves DEF Step
    <2>2. undone' \subseteq Proc /\ undone \subseteq undone'
      BY <1>3 DEF TakeAway, WithTree
    <2>3. Actor(p, fence[p]) \/ WithTree \subseteq undone' \/ UNCHANGED <<root, reg>>
      BY <1>3 DEF TakeAway
    <2>4. RemoveTree
      BY <1>3 DEF TakeAway
    <2>5. root' \in Root /\ (root' \in {"edited", "moved"} => root' = root)
      BY <1>2, <2>4
    <2>6. Takes(p)
      BY <1>3, <2>1, <2>2, <2>3 DEF Takes
    <2>7. QED
      BY <2>2, <2>5, <2>6
  <1>13. ASSUME TakeAway(p) PROVE reg' \in BOOLEAN
    BY <1>12, <1>13 DEF TakeAway
  <1>4. ASSUME parent' = (parent /\ root' # "none") \/ parent' = (parent /\ root # "none")
        PROVE  parent' \in BOOLEAN
    BY <1>4, Zenon
  <1>5. CASE MakeParent(p)
    <2>1. PICK s \in {"failed", "register"} : Goto(p, s)
      BY <1>5 DEF MakeParent
    <2>2. QED
      BY <1>1, <1>5, <2>1 DEF MakeParent, Builds
  <1>6. CASE RegisterWorktree(p)
    <2>1. CASE /\ ~reg /\ root = "none" /\ reg' = TRUE /\ root' = "partial" /\ parent' = TRUE
               /\ undone' = undone \ {p} /\ Goto(p, "checkout")
      BY <1>1, <1>6, <2>1 DEF RegisterWorktree, Builds, Root
    <2>2. CASE /\ parent' = (parent /\ root # "none") /\ Goto(p, "failed")
               /\ UNCHANGED <<reg, root, undone>>
      BY <1>1, <1>4, <1>6, <2>2 DEF RegisterWorktree, Builds
    <2>3. QED
      BY <1>6, <2>1, <2>2 DEF RegisterWorktree
  <1>7. CASE FinishCheckout(p) \/ CheckIdentity(p) \/ Preflight(p)
    <2>1. UNCHANGED <<journal, alive, unsafe, fence, copy, seen>>
      BY <1>7 DEF FinishCheckout, CheckIdentity, Preflight
    <2>2. CASE /\ TakeAway(p) /\ Goto(p, "failed")
               /\ parent' = (parent /\ root' # "none") \/ UNCHANGED parent
      <3>1. reg' \in BOOLEAN
        BY <1>13, <2>2
      <3>2. parent' \in BOOLEAN
        BY <1>4, <2>2
      <3>3. QED
        BY <1>1, <1>3, <2>1, <2>2, <3>1, <3>2
    <2>3. CASE /\ FinishCheckout(p) /\ root' = IF root = "partial" THEN "clean" ELSE root
               /\ Goto(p, "identity") /\ UNCHANGED <<parent, reg, undone>>
      BY <1>1, <2>1, <2>3 DEF FinishCheckout, Builds, Root
    <2>4. CASE /\ CheckIdentity(p)
               /\ Goto(p, "preflight") \/ Goto(p, "failed")
               /\ UNCHANGED <<parent, root, reg, undone>>
      BY <1>1, <2>1, <2>4 DEF CheckIdentity, Builds
    <2>5. CASE /\ Preflight(p) /\ Goto(p, "created") /\ (unsafe => root = "partial")
               /\ UNCHANGED <<parent, root, reg, undone>>
      BY <1>1, <2>1, <2>5 DEF Preflight, Builds
    <2>6. QED
      BY <1>7, <2>2, <2>3, <2>4, <2>5 DEF FinishCheckout, CheckIdentity, Preflight
  <1>8. CASE Reconcile(p)
    <2>1. PICK s \in {"again", "settle"} : Goto(p, s)
      BY <1>8 DEF Reconcile
    <2>2. /\ UNCHANGED <<journal, alive, parent, root, reg, unsafe, fence>>
          /\ journal.state = "cleanup_pending"
          /\ \A q \in Proc : pc[q] \in Reconciling => ~alive[q]
          /\ pc[p] = "idle" /\ undone' = undone \ {p}
      BY <1>8 DEF Reconcile, keepTree
    <2>3. Observation \in [class : Class, parent : BOOLEAN]
      BY DEF Observation, Classify, Class
    <2>4. seen' = [seen EXCEPT ![p] = Observation]
      BY <1>8 DEF Reconcile
    <2>5. /\ seen' \in [Proc -> [class : Class, parent : BOOLEAN]]
          /\ seen'[p] = Observation /\ \A q \in Proc : q # p => seen'[q] = seen[q]
      BY <2>3, <2>4
    <2>6. copy' \in [Proc -> 0..MaxRev]
      BY <1>8 DEF Reconcile, JournalTypeOK, Journal
    <2>7. seen'[p].class = "exact-clean-registered" => ExactClean'
      BY <2>2, <2>5 DEF Observation, Classify, ExactClean
    <2>8. pc' \in [Proc -> Step] /\ pc'[p] = s /\ \A q \in Proc : q # p => pc'[q] = pc[q]
      BY <2>1, Moves DEF Step
    <2>9. QED
      BY <2>1, <2>2, <2>5, <2>6, <2>7, <2>8 DEF WorksOnTree, Builds, ExactClean
  <1>9. CASE ObserveAgain(p)
    <2>1. PICK s \in {"settle", "idle"} :
            Goto(p, s) /\ (s = "settle" => Observation = seen[p])
      BY <1>9 DEF ObserveAgain
    <2>2. /\ UNCHANGED <<journal, alive, parent, root, reg, unsafe, fence, copy, seen, undone>>
          /\ pc[p] = "again"
      BY <1>9 DEF ObserveAgain, keepTree
    <2>3. s = "settle" /\ seen[p].class = "exact-clean-registered" => ExactClean
      BY <2>1 DEF Observation, Classify, ExactClean
    <2>4. pc' \in [Proc -> Step] /\ pc'[p] = s /\ \A q \in Proc : q # p => pc'[q] = pc[q]
      BY <2>1, Moves DEF Step
    <2>5. QED
      BY <2>1, <2>2, <2>3, <2>4 DEF WorksOnTree, Builds, ExactClean, Deciding
  <1>10. CASE RemoveWorktree(p) \/ RemoveEmptyParent(p)
    <2>1. Goto(p, "idle") /\ UNCHANGED <<journal, alive, unsafe, fence, copy, seen, undone>>
      BY <1>10 DEF RemoveWorktree, RemoveEmptyParent
    <2>2. CASE UNCHANGED <<root, reg>> /\ (UNCHANGED parent \/ parent' = (parent /\ root # "none"))
      BY <1>1, <1>4, <2>1, <2>2 DEF Builds
    <2>3. CASE RemoveTree /\ parent' = (parent /\ root' # "none") /\ pc[p] = "remove"
      <3>1. root' \in Root /\ (root' \in {"edited", "moved"} => root' = root)
        BY <1>2, <2>3
      <3>2. reg' \in BOOLEAN
        BY <1>12, <2>3
      <3>3. parent' \in BOOLEAN
        BY <1>4, <2>3
      <3>4. QED
        BY <1>1, <2>1, <2>3, <3>1, <3>2, <3>3
    <2>4. QED
      BY <1>10, <2>2, <2>3 DEF RemoveWorktree, RemoveEmptyParent
  <1>11. QED
    BY <1>5, <1>6, <1>7, <1>8, <1>9, <1>10

-----------------------------------------------------------------------------
\* A step that writes the journal keeps the invariant: nobody else is deciding when
\* the journal leaves "cleanup_pending", and only p itself can become the holder.
LEMMA WritesJournalInv ==
  ASSUME WorkerInv, NEW p \in Proc, alive[p], WritesJournal(p)
  PROVE  WorkerInv'
  <1> USE DEF WorkerInv, WorkerType, WritesJournal
  <1>1. journal' \in Journal /\ Shape(journal') /\ (journal.ready => journal'.ready)
    BY EdgeKeepsShape DEF JournalTypeOK
  <1>2. WorkerType'
    BY <1>1 DEF JournalTypeOK, TreeTypeOK, Shape, LeaseShape, ReissueShape, CleanerShape, TimeShape
  <1>3. EditedIsReady'
    BY <1>1 DEF EditedIsReady
  <1>4. \A q \in Proc : q # p /\ pc[p] = "settle" => ~(alive[q] /\ pc[q] \in Reconciling)
    BY DEF OneReconciler, Reconciling
  <1>5. OneReconciler'
    BY DEF OneReconciler, Reconciling
  <1>6. ReconcilerIsCurrent'
    <2> SUFFICES ASSUME NEW q \in Proc, alive[q], pc'[q] \in Deciding
                 PROVE  journal'.state = "cleanup_pending"
      BY DEF ReconcilerIsCurrent
    <2>1. CASE q = p
      BY <2>1 DEF ReconcilerIsCurrent, Deciding
    <2>2. CASE q # p
      BY <1>4, <2>2 DEF ReconcilerIsCurrent, Deciding, Reconciling
    <2>3. QED
      BY <2>1, <2>2
  <1>7. SettlesOnExact'
    BY DEF SettlesOnExact, ExactClean
  <1>8. MadeIsExact'
    <2> SUFFICES ASSUME NEW q \in Proc, q \notin undone, Actor(q, fence[q])',
                        pc'[q] \in {"checkout", "identity", "preflight", "created"}
                 PROVE  Made(q)'
      BY DEF MadeIsExact
    <2>1. q # p /\ pc'[q] = pc[q] /\ fence'[q] = fence[q]
      OBVIOUS
    <2>2. UNCHANGED journal
      BY <2>1 DEF Actor
    <2>3. Actor(q, fence[q])
      BY <2>1, <2>2 DEF Actor
    <2>4. QED
      BY <2>1, <2>3 DEF MadeIsExact, Made
  <1>9. QED
    BY <1>2, <1>3, <1>5, <1>6, <1>7, <1>8

\* A step on the tree keeps the invariant: the tree of another is left alone by all
\* but the process that reconciles, which is alone, and one on its failure path.
LEMMA WorksOnTreeInv ==
  ASSUME WorkerInv, NEW p \in Proc, alive[p], WorksOnTree(p)
  PROVE  WorkerInv'
  <1> USE DEF WorkerInv, WorkerType, WorksOnTree
  <1>1. WorkerType'
    BY DEF JournalTypeOK, Shape, LeaseShape, ReissueShape, CleanerShape, TimeShape, HasAttempt
  <1>2. EditedIsReady'
    BY DEF EditedIsReady
  <1>3. OneReconciler'
    <2>1. pc'[p] \in Reconciling =>
            \A q \in Proc : q # p => ~(alive[q] /\ pc[q] \in Reconciling)
      BY DEF OneReconciler, Deciding, Reconciling
    <2>2. QED
      BY <2>1 DEF OneReconciler
  <1>4. ReconcilerIsCurrent'
    BY DEF ReconcilerIsCurrent, Deciding, Reconciling
  <1>5. SettlesOnExact'
    <2> SUFFICES ASSUME NEW q \in Proc, alive[q], pc'[q] = "settle", q \notin undone', q # p,
                        seen'[q].class = "exact-clean-registered"
                 PROVE  ExactClean'
      BY DEF SettlesOnExact
    <2>1. pc[q] = "settle" /\ seen[q].class = "exact-clean-registered" /\ q \in WithTree
      BY DEF WithTree
    <2>2. pc[p] # "remove"
      BY <2>1 DEF OneReconciler, Reconciling
    <2>3. ~Actor(p, fence[p])
      BY <2>1 DEF ReconcilerIsCurrent, Deciding, Actor
    <2>4. CASE Builds(p)
      <3>1. ExactClean
        BY <2>1, <2>4 DEF SettlesOnExact, Builds
      <3>2. QED
        BY <2>4, <3>1 DEF Builds, ExactClean
    <2>5. CASE Takes(p)
      <3>1. q \notin undone /\ UNCHANGED <<root, reg>>
        BY <2>1, <2>3, <2>5 DEF Takes
      <3>2. QED
        BY <2>1, <3>1 DEF SettlesOnExact, ExactClean
    <2>6. QED
      BY <2>2, <2>4, <2>5
  <1>6. MadeIsExact'
    <2> SUFFICES ASSUME NEW q \in Proc, q \notin undone', Actor(q, fence[q])',
                        pc'[q] \in {"checkout", "identity", "preflight", "created"}
                 PROVE  Made(q)'
      BY DEF MadeIsExact
    <2>1. Actor(q, fence[q]) /\ journal.state = "provisioning"
      BY DEF Actor
    <2>2. CASE q = p
      <3>1. CASE pc'[q] = "checkout"
        BY <2>2, <3>1 DEF Made
      <3>2. CASE pc'[q] \in {"identity", "preflight", "created"}
        <4>1. pc[q] \in {"checkout", "identity", "preflight"} /\ q \notin undone
          BY <2>2, <3>2
        <4>2. Made(q)
          BY <2>1, <4>1 DEF MadeIsExact
        <4>3. QED
          BY <2>2, <3>2, <4>2 DEF Made
      <3>3. QED
        BY <3>1, <3>2
    <2>3. CASE q # p
      <3>1. pc'[q] = pc[q] /\ q \in WithTree
        BY <2>3 DEF WithTree
      <3>2. pc[p] # "remove"
        BY <2>1 DEF ReconcilerIsCurrent, Deciding
      <3>3. ~Actor(p, fence[p])
        BY <2>1, <2>3 DEF Actor
      <3>4. q \notin undone
        BY <2>3, <3>2 DEF Builds, Takes
      <3>5. Made(q)
        BY <2>1, <3>1, <3>4 DEF MadeIsExact
      <3>6. CASE Builds(p)
        BY <3>1, <3>5, <3>6 DEF Made, Builds
      <3>7. CASE Takes(p)
        BY <3>1, <3>3, <3>5, <3>7 DEF Made, Takes
      <3>8. QED
        BY <3>2, <3>6, <3>7
    <2>4. QED
      BY <2>2, <2>3
  <1>7. QED
    BY <1>1, <1>2, <1>3, <1>4, <1>5, <1>6

LEMMA WorktreeStep == WorkerInv /\ [WorktreeNext]_workerVars => WorkerInv'
  <1> SUFFICES ASSUME WorkerInv, [WorktreeNext]_workerVars PROVE WorkerInv'
    OBVIOUS
  <1>1. ASSUME NEW p \in Proc, HostStep(p) PROVE WorkerInv'
    <2>1. CASE \/ StartProvisioning(p) \/ PublishReady(p) \/ EndAttempt(p) \/ TakeOver(p)
               \/ PlanCleanup(p) \/ Settle(p) \/ ConfirmOrFail(p)
      BY <1>1, <2>1, JournalActions, WritesJournalInv DEF HostStep
    <2>2. CASE \/ MakeParent(p) \/ RegisterWorktree(p) \/ FinishCheckout(p) \/ CheckIdentity(p)
               \/ Preflight(p) \/ Reconcile(p) \/ ObserveAgain(p) \/ RemoveWorktree(p)
               \/ RemoveEmptyParent(p)
      BY <1>1, <2>2, TreeActions, WorksOnTreeInv DEF HostStep
    <2>3. QED
      BY <1>1, <2>1, <2>2 DEF HostStep
  <1>2. ASSUME NEW p \in Proc, Crash(p) PROVE WorkerInv'
    <2>1. alive' = [alive EXCEPT ![p] = FALSE] /\ UNCHANGED <<journal, treeVars>>
      BY <1>2 DEF Crash
    <2>2. alive' \in [Proc -> BOOLEAN] /\ \A q \in Proc : alive'[q] => alive[q]
      BY <2>1 DEF WorkerInv, WorkerType, JournalTypeOK
    <2>3. WorkerType'
      BY <2>1, <2>2 DEF WorkerInv, WorkerType, JournalTypeOK, TreeTypeOK, treeVars, Shape,
                        LeaseShape, ReissueShape, CleanerShape, TimeShape, HasAttempt
    <2>4. QED
      BY <2>1, <2>2, <2>3 DEF WorkerInv, EditedIsReady, OneReconciler, treeVars,
        ReconcilerIsCurrent, SettlesOnExact, MadeIsExact, Made, ExactClean, Actor
  <1>3. CASE LeaseRunsOut /\ UNCHANGED treeVars
    <2> DEFINE Unmoved(f) == journal'[f] = journal[f]
    <2>1. /\ journal.lease = "running" /\ journal' = [journal EXCEPT !.lease = "over"]
          /\ UNCHANGED <<alive, treeVars>>
      BY <1>3 DEF LeaseRunsOut
    <2>2. /\ journal' \in Journal /\ journal'.lease = "over"
          /\ \A f \in {"state", "rev", "fence", "holder", "cleaner", "provisioned", "ready",
                       "cleanup", "archived"} : Unmoved(f)
      BY <2>1 DEF WorkerInv, WorkerType, JournalTypeOK, Journal
    <2>3. Shape(journal')
      <3>1. Shape(journal)
        BY DEF WorkerInv, WorkerType
      <3>2. LeaseShape(journal') /\ ReissueShape(journal')
        BY <2>1, <2>2, <3>1 DEF Shape, LeaseShape, ReissueShape, HasAttempt
      <3>3. CleanerShape(journal')
        BY <2>2, <3>1 DEF Shape, CleanerShape, HasAttempt
      <3>4. TimeShape(journal')
        BY <2>2, <3>1 DEF Shape, TimeShape, HasAttempt
      <3>5. QED
        BY <2>2, <3>1, <3>2, <3>3, <3>4 DEF Shape
    <2>4. WorkerType'
      BY <2>1, <2>2, <2>3 DEF WorkerInv, WorkerType, JournalTypeOK, TreeTypeOK, treeVars, Shape,
        LeaseShape, ReissueShape, CleanerShape, TimeShape, HasAttempt
    <2>5. QED
      BY <2>1, <2>2, <2>4 DEF WorkerInv, EditedIsReady, OneReconciler, treeVars,
        ReconcilerIsCurrent, SettlesOnExact, MadeIsExact, Made, ExactClean, Actor
  <1>4. CASE ProviderEdits
    <2>1. /\ journal.state = "ready" /\ root' \in {"edited", "moved"} /\ root # "none"
          /\ UNCHANGED <<journal, alive, parent, reg, unsafe, pc, fence, copy, seen, undone>>
      BY <1>4 DEF ProviderEdits, keepJournal, journalVars
    <2>2. WorkerType'
      BY <2>1 DEF WorkerInv, WorkerType, JournalTypeOK, TreeTypeOK, Root, Shape,
                  LeaseShape, ReissueShape, CleanerShape, TimeShape, HasAttempt
    <2>3. journal.ready
      BY <2>1 DEF WorkerInv, WorkerType, Shape, TimeShape
    <2>4. QED
      BY <2>1, <2>2, <2>3 DEF WorkerInv, EditedIsReady, OneReconciler,
        ReconcilerIsCurrent, SettlesOnExact, MadeIsExact, Made, Actor, Deciding
  <1>5. CASE UNCHANGED workerVars
    BY <1>5 DEF workerVars, treeVars, journalVars, WorkerInv, WorkerType, JournalTypeOK, TreeTypeOK,
      Shape, LeaseShape, ReissueShape, CleanerShape, TimeShape, HasAttempt, EditedIsReady, OneReconciler, ReconcilerIsCurrent, SettlesOnExact, MadeIsExact, Made, ExactClean,
      Actor
  <1>6. QED
    BY <1>1, <1>2, <1>3, <1>4, <1>5 DEF WorktreeNext

-----------------------------------------------------------------------------
\* The step that makes a journal ready finds the tree exact, and leaves it so, unless
\* the tree of the process that makes it has been taken away.
LEMMA ReadyStep ==
  ASSUME WorkerInv, WorktreeNext, journal.state # "ready", journal'.state = "ready"
  PROVE  ExactClean' \/ \E p \in undone : pc'[p] # pc[p]
  <1>1. PICK p \in Proc : HostStep(p)
    <2>1. ~(LeaseRunsOut \/ ProviderEdits)
      BY DEF LeaseRunsOut, ProviderEdits, keepJournal, journalVars, WorkerInv, WorkerType,
             JournalTypeOK, Journal
    <2>2. \A p \in Proc : ~Crash(p)
      BY DEF Crash
    <2>3. QED
      BY <2>1, <2>2 DEF WorktreeNext
  <1>2. CASE \/ MakeParent(p) \/ RegisterWorktree(p) \/ FinishCheckout(p) \/ CheckIdentity(p)
             \/ Preflight(p) \/ Reconcile(p) \/ ObserveAgain(p) \/ RemoveWorktree(p)
             \/ RemoveEmptyParent(p)
    BY <1>1, <1>2, TreeActions DEF HostStep, WorksOnTree
  <1>3. CASE StartProvisioning(p) \/ TakeOver(p) \/ EndAttempt(p) \/ PlanCleanup(p) \/ ConfirmOrFail(p)
    <2>1. \/ UNCHANGED journal \/ journal' = ToProvisioning(p) \/ journal' = ToCleanup
          \/ \E s \in {"reissue_planned", "failed"} : journal' = Revised(s)
      BY <1>3 DEF StartProvisioning, TakeOver, EndAttempt, PlanCleanup, ConfirmOrFail,
                  StartAttempt, Reclaim, GiveUpAttempt, Withdraw, Confirm, Fail, Transition
    <2>2. QED
      BY <2>1 DEF ToProvisioning, ToCleanup, Revised, WorkerInv, WorkerType, JournalTypeOK, Journal
  <1>4. CASE PublishReady(p)
    <2>1. /\ pc[p] = "created" /\ Actor(p, fence[p]) /\ UNCHANGED <<root, reg, unsafe>>
          /\ Goto(p, "idle")
      BY <1>4 DEF PublishReady, Publish, keepTree
    <2>2. pc'[p] = "idle"
      BY <2>1 DEF WorkerInv, WorkerType, TreeTypeOK, Goto
    <2>3. QED
      BY <2>1, <2>2 DEF WorkerInv, MadeIsExact, Made, ExactClean
  <1>5. CASE Settle(p)
    <2>1. pc[p] = "settle" /\ alive[p] /\ UNCHANGED <<root, reg, unsafe>>
      BY <1>1, <1>5 DEF Settle, keepTree, HostStep
    <2>2. seen[p].class = "exact-clean-registered"
      <3>1. SUFFICES ASSUME \/ UNCHANGED journal \/ journal' = ToReissue
                            \/ \E s \in {"cleaned", "failed"} : journal' = Revised(s)
                     PROVE  FALSE
        BY <1>5 DEF Settle, Reissue, Clean, Fail, Transition
      <3>2. QED
        BY <3>1 DEF ToReissue, Revised, WorkerInv, WorkerType, JournalTypeOK, Journal
    <2>3. pc'[p] # "settle"
      BY <1>5 DEF Settle, WorkerInv, WorkerType, TreeTypeOK, Goto
    <2>4. QED
      BY <2>1, <2>2, <2>3 DEF WorkerInv, SettlesOnExact, ExactClean
  <1>6. QED
    BY <1>1, <1>2, <1>3, <1>4, <1>5 DEF HostStep

\* While the journal is ready, the only step that takes the tree away is one of a
\* provisioner on its way to "failed".
LEMMA RemovalStep ==
  ASSUME WorkerInv, WorktreeNext, journal.state = "ready", root # "none", root' = "none"
  PROVE  \E p \in Proc : alive[p] /\ GivesUp(p)
  <1>1. PICK p \in Proc : HostStep(p)
    <2>1. ~(LeaseRunsOut /\ UNCHANGED treeVars) /\ ~ProviderEdits
      BY DEF ProviderEdits, treeVars
    <2>2. \A p \in Proc : ~Crash(p)
      BY DEF Crash, treeVars
    <2>3. QED
      BY <2>1, <2>2 DEF WorktreeNext
  <1>2. FinishCheckout(p) \/ CheckIdentity(p) \/ Preflight(p) \/ RemoveWorktree(p)
    <2>1. ~(StartProvisioning(p) \/ PublishReady(p) \/ EndAttempt(p) \/ TakeOver(p) \/ Settle(p)
            \/ Reconcile(p) \/ ObserveAgain(p))
      BY DEF StartProvisioning, PublishReady, EndAttempt, TakeOver, Settle, Reconcile, ObserveAgain,
             keepTree
    <2>2. ~(PlanCleanup(p) \/ ConfirmOrFail(p))
      BY DEF PlanCleanup, ConfirmOrFail, treeVars
    <2>3. ~(MakeParent(p) \/ RegisterWorktree(p) \/ RemoveEmptyParent(p))
      BY DEF MakeParent, RegisterWorktree, RemoveEmptyParent
    <2>4. QED
      BY <1>1, <2>1, <2>2, <2>3 DEF HostStep
  <1>3. alive[p]
    BY <1>1 DEF HostStep
  <1>4. ~RemoveWorktree(p)
    BY <1>3 DEF RemoveWorktree, WorkerInv, ReconcilerIsCurrent, Deciding
  <1>5. pc[p] \in {"checkout", "identity", "preflight"} /\ Goto(p, "failed")
    BY <1>2, <1>4 DEF FinishCheckout, CheckIdentity, Preflight
  <1>6. GivesUp(p)
    BY <1>5 DEF GivesUp, WorkerInv, WorkerType, TreeTypeOK, Goto
  <1>7. QED
    BY <1>3, <1>6

LEMMA WorkerInvariant == WorktreeSpec => []WorkerInv
  BY WorkerInitInv, WorktreeStep, PTL DEF WorktreeSpec

\* A journal becomes ready only over an exact tree (createWorkerWorktree and the
\* adoption by the reconciler), however many processes are slow or dead, or over one
\* that a provisioner without an attempt has taken away from its publisher.
THEOREM ReadyTreeIsExact == WorktreeSpec => ReadyIsExact
  <1>1. WorkerInv /\ [WorktreeNext]_workerVars =>
          [journal.state # "ready" /\ journal'.state = "ready" =>
             ExactClean' \/ \E p \in undone : pc'[p] # pc[p]]_workerVars
    BY ReadyStep
  <1>2. QED
    BY <1>1, WorkerInvariant, PTL DEF WorktreeSpec, ReadyIsExact

\* A ready worker loses its tree only to a provisioner that was overtaken: no cleanup
\* and no reconciler does it, for they hold the journal in another state.
THEOREM OnlyTheOvertakenRemove == WorktreeSpec => TreeOutlivesOthers
  <1>1. WorkerInv /\ [WorktreeNext]_workerVars =>
          [journal.state = "ready" /\ journal'.state = "ready" /\ root # "none" /\ root' = "none"
             => \E p \in Proc : alive[p] /\ GivesUp(p)]_workerVars
    BY RemovalStep
  <1>2. QED
    BY <1>1, WorkerInvariant, PTL DEF WorktreeSpec, TreeOutlivesOthers

-----------------------------------------------------------------------------
(* The client of Grok: what a batch of frames leaves a request in, frame by frame. *)

\* A set of numbers that is not empty has a least one.
LEMMA SmallestNumber ==
  ASSUME NEW T \in SUBSET Nat, T # {}
  PROVE  \E m \in T : \A k \in T : m <= k
  <1> DEFINE R == {ss \in Nat \X Nat : ss[1] < ss[2]}
  <1>1. IsWellFoundedOn(R, Nat)
    BY NatLessThanWellFounded DEF OpToRel
  <1> HIDE DEF R
  <1>2. PICK m \in T : \A k \in T : ~(<<k, m>> \in R)
    BY <1>1, WFMin
  <1>3. \A k \in T : ~(k < m)
    BY <1>2 DEF R
  <1>4. QED
    BY <1>3

Outcome == {"unused", "reserved", "pending", "failed", "delivered"}
Parser  == [rpc : [Id -> Outcome \cup {"held"}], closed : BOOLEAN, stopped : BOOLEAN]

AcpTypeOK ==
  /\ rpc \in [Id -> Outcome]
  /\ recorded \subseteq Id /\ written \subseteq Id /\ uncontested \subseteq Id
  /\ closed \in BOOLEAN

WrittenIsRecorded == written \subseteq recorded
PendingIsWritten  == \A i \in Id : rpc[i] = "pending" => i \in written

AcpInv == AcpTypeOK /\ WrittenIsRecorded /\ PendingIsWritten /\ DeliveredIsUncontested

Settles(f) == f.kind \in {"answer", "error"}

\* A frame that leaves the transport open has an addressee that waits, or none to disturb.
LEMMA MessageIs ==
  ASSUME NEW st \in Parser, NEW f \in Frames, st.stopped => st.closed
  PROVE  LET m == Message(st, f)
         IN /\ m \in Parser /\ (m.stopped => m.closed)
            /\ \A j \in Id : m.rpc[j] \in {st.rpc[j], "failed", "held"}
            /\ ~m.closed =>
                 /\ ~st.closed /\ f.kind \notin {"stray", "garbage"}
                 /\ Settles(f) =>
                      /\ st.rpc[f.id] = "pending"
                      /\ \A j \in Id : m.rpc[j] = IF j # f.id THEN st.rpc[j]
                                                  ELSE IF f.kind = "answer" THEN "held" ELSE "failed"
                 /\ ~Settles(f) =>
                      /\ f.kind = "string" /\ st.rpc[f.id] \notin {"pending", "held"}
                      /\ \A j \in Id : m.rpc[j] = st.rpc[j]
  <1> DEFINE m == Message(st, f)
  <1>1. /\ f.kind \in {"answer", "error", "string", "stray", "garbage"}
        /\ f.kind \in {"answer", "error", "string"} => f.id \in Id
    BY DEF Frames
  <1>2. /\ Poison(st) \in Parser /\ Poison(st).closed /\ Poison(st).stopped = st.stopped
        /\ [Poison(st) EXCEPT !.stopped = TRUE] \in Parser
        /\ [Poison(st) EXCEPT !.stopped = TRUE].closed
        /\ \A j \in Id : Poison(st).rpc[j] \in {st.rpc[j], "failed"}
        /\ [Poison(st) EXCEPT !.stopped = TRUE].rpc = Poison(st).rpc
    BY DEF Poison, Parser, Condemn, Open, Outcome
  <1>3. ASSUME NEW i \in Id, NEW o \in {"held", "failed"}
        PROVE  /\ Put(st, i, o) \in Parser /\ Put(st, i, o).closed = st.closed
               /\ Put(st, i, o).stopped = st.stopped
               /\ \A j \in Id : Put(st, i, o).rpc[j] = IF j = i THEN o ELSE st.rpc[j]
    BY DEF Put, Parser, Outcome
  <1>4. CASE st.stopped
    <2>1. m = st
      BY <1>4 DEF Message
    <2> HIDE DEF m
    <2>2. QED
      BY <1>4, <2>1 DEF m
  <1>5. CASE ~st.stopped /\ f.kind = "garbage"
    <2>1. m = [Poison(st) EXCEPT !.stopped = TRUE]
      BY <1>5 DEF Message
    <2> HIDE DEF m
    <2>2. QED
      BY <1>2, <2>1 DEF m
  <1>6. CASE ~st.stopped /\ f.kind = "stray"
    <2>1. m = Poison(st)
      BY <1>6 DEF Message
    <2> HIDE DEF m
    <2>2. QED
      BY <1>2, <1>6, <2>1 DEF m
  <1>7. CASE ~st.stopped /\ f.kind = "string"
    <2>1. m = IF f.id \in Open(st.rpc) THEN Poison(st) ELSE st
      BY <1>7 DEF Message
    <2>2. f.id \notin Open(st.rpc) => st.rpc[f.id] \notin {"pending", "held"}
      BY <1>1, <1>7 DEF Open
    <2> HIDE DEF m
    <2>3. QED
      BY <1>2, <1>7, <2>1, <2>2 DEF m, Settles
  <1>8. CASE ~st.stopped /\ f.kind = "answer"
    <2>1. m = IF st.rpc[f.id] = "pending" THEN Put(st, f.id, "held") ELSE Poison(st)
      BY <1>8 DEF Message, HoldAnswer
    <2> HIDE DEF m
    <2>2. QED
      BY <1>1, <1>2, <1>3, <1>8, <2>1 DEF m, Settles
  <1>9. CASE ~st.stopped /\ f.kind = "error"
    <2>1. m = IF st.rpc[f.id] = "pending" THEN Put(st, f.id, "failed") ELSE Poison(st)
      BY <1>9 DEF Message
    <2> HIDE DEF m
    <2>2. QED
      BY <1>1, <1>2, <1>3, <1>9, <2>1 DEF m, Settles
  <1>10. QED
    BY <1>1, <1>4, <1>5, <1>6, <1>7, <1>8, <1>9

\* The parser goes from frame to frame.
LEMMA ParsedByFrames ==
  ASSUME NEW b, NEW N \in Nat, Len(b) = N
  PROVE  \E g : /\ g[0] = Unparsed
                /\ \A n \in 1..N : g[n] = Message(g[n - 1], b[n])
                /\ Parsed(b) = g[N]
  <1> DEFINE Follows(g, m) ==
               g = [n \in 0..m |-> IF n = 0 THEN Unparsed ELSE Message(g[n - 1], b[n])]
             Bad == {m \in 0..N : ~\E g : Follows(g, m)}
             after == CHOOSE g : Follows(g, N)
  <1>1. Parsed(b) = after[N]
    BY DEF Parsed
  <1>2. \E g : Follows(g, 0)
    <2>1. Follows([n \in 0..0 |-> Unparsed], 0)
      OBVIOUS
    <2>2. QED
      BY <2>1
  <1>3. ASSUME NEW m \in 1..N, \E g : Follows(g, m - 1)
        PROVE  \E g : Follows(g, m)
    <2>1. PICK g : Follows(g, m - 1)
      BY <1>3
    <2> DEFINE h == [n \in 0..m |-> IF n < m THEN g[n] ELSE Message(g[m - 1], b[m])]
    <2>2. ASSUME NEW n \in 0..m
          PROVE  h[n] = IF n = 0 THEN Unparsed ELSE Message(h[n - 1], b[n])
      <3>1. CASE n = 0
        <4>1. g[0] = Unparsed
          BY <2>1
        <4>2. QED
          BY <3>1, <4>1
      <3>2. CASE n # 0 /\ n < m
        <4>1. n \in 0..(m - 1) /\ h[n] = g[n] /\ h[n - 1] = g[n - 1]
          BY <3>2
        <4>2. g[n] = Message(g[n - 1], b[n])
          BY <2>1, <3>2, <4>1
        <4>3. QED
          BY <3>2, <4>1, <4>2
      <3>3. CASE n = m
        BY <3>3
      <3>4. QED
        BY <3>1, <3>2, <3>3
    <2>3. h = [n \in 0..m |-> h[n]]
      OBVIOUS
    <2> HIDE DEF h
    <2>4. Follows(h, m)
      BY <2>2, <2>3
    <2>5. QED
      BY <2>4
  <1>4. Follows(after, N) =>
          after[0] = Unparsed /\ \A n \in 1..N : after[n] = Message(after[n - 1], b[n])
    <2> HIDE DEF after
    <2>1. QED
      OBVIOUS
  <1> HIDE DEF Follows
  <1>5. Bad = {}
    <2> SUFFICES ASSUME Bad # {} PROVE FALSE
      OBVIOUS
    <2>1. Bad \in SUBSET Nat
      OBVIOUS
    <2> HIDE DEF Bad
    <2>2. PICK m \in Bad : \A k \in Bad : m <= k
      BY <2>1, SmallestNumber
    <2> USE DEF Bad
    <2>3. m \in 0..N /\ ~\E g : Follows(g, m)
      BY <2>2
    <2>4. CASE m = 0
      BY <1>2, <2>3, <2>4
    <2>5. CASE m # 0
      <3>1. m \in 1..N /\ m - 1 \in 0..N /\ ~(m <= m - 1)
        BY <2>3, <2>5
      <3>2. \E g : Follows(g, m - 1)
        BY <2>2, <3>1
      <3>3. QED
        BY <1>3, <2>3, <3>1, <3>2
    <2>6. QED
      BY <2>4, <2>5
  <1>6. Follows(after, N)
    <2>1. N \in 0..N
      OBVIOUS
    <2>2. \E g : Follows(g, N)
      BY <1>5, <2>1
    <2>3. QED
      BY <2>2
  <1>7. QED
    BY <1>1, <1>4, <1>6

\* What N frames have said when they leave the transport open: each request has one answer at most,
\* waited for it, and is held or failed by it; the others are as they were.
Unbroken(b, N, r) ==
  /\ \A k \in 1..N : b[k].kind \notin {"stray", "garbage"}
  /\ \A k \in 1..N : b[k].kind = "string" /\ rpc[b[k].id] = "pending" =>
       \E l \in 1..N : b[l].kind = "error" /\ b[l].id = b[k].id
  /\ \A k, l \in 1..N : Settles(b[k]) /\ Settles(b[l]) /\ b[k].id = b[l].id => k = l
  /\ \A k \in 1..N : Settles(b[k]) => rpc[b[k].id] = "pending"
  /\ \A i \in Id : \/ r[i] = rpc[i]
                    \/ \E k \in 1..N : /\ Settles(b[k]) /\ b[k].id = i
                                       /\ r[i] = IF b[k].kind = "answer" THEN "held" ELSE "failed"

LEMMA UnbrokenBatch ==
  ASSUME AcpTypeOK, NEW N \in Nat, NEW b \in [1..N -> Frames], NEW g,
         g[0] = Unparsed, \A n \in 1..N : g[n] = Message(g[n - 1], b[n])
  PROVE  /\ g[N] \in Parser
         /\ \A i \in Id : g[N].rpc[i] \in {rpc[i], "failed", "held"}
         /\ ~g[N].closed => Unbroken(b, N, g[N].rpc)
  <1> DEFINE Typed(n) == /\ g[n] \in Parser /\ (g[n].stopped => g[n].closed)
                         /\ \A i \in Id : g[n].rpc[i] \in {rpc[i], "failed", "held"}
             NoBroken(n) == \A k \in 1..n : b[k].kind \notin {"stray", "garbage"}
             Strings(n) == \A k \in 1..n : b[k].kind = "string" /\ rpc[b[k].id] = "pending" =>
                             \E l \in 1..n : b[l].kind = "error" /\ b[l].id = b[k].id
             Once(n) == \A k, l \in 1..n :
                          Settles(b[k]) /\ Settles(b[l]) /\ b[k].id = b[l].id => k = l
             Said(n) == \A k \in 1..n : Settles(b[k]) =>
                          /\ rpc[b[k].id] = "pending"
                          /\ g[n].rpc[b[k].id] = IF b[k].kind = "answer" THEN "held" ELSE "failed"
             Others(n) == \A i \in Id :
                            (\A k \in 1..n : Settles(b[k]) => b[k].id # i) => g[n].rpc[i] = rpc[i]
             Good(n) == Typed(n) /\ (~g[n].closed => NoBroken(n) /\ Strings(n) /\ Once(n)
                                                     /\ Said(n) /\ Others(n))
             Bad == {n \in 0..N : ~Good(n)}
  <1>1. Good(0)
    BY DEF Unparsed, Parser, AcpTypeOK
  <1>2. ASSUME NEW n \in 1..N, Good(n - 1) PROVE Good(n)
    <2> DEFINE st == g[n - 1]
               f == b[n]
    <2>1. f \in Frames /\ g[n] = Message(st, f) /\ st \in Parser /\ (st.stopped => st.closed)
      BY <1>2
    <2>2. /\ f.kind \in {"answer", "error", "string", "stray", "garbage"}
          /\ f.kind \in {"answer", "error", "string"} => f.id \in Id
      BY <2>1 DEF Frames
    <2> HIDE DEF st, f
    <2>3. /\ g[n] \in Parser /\ (g[n].stopped => g[n].closed)
          /\ \A j \in Id : g[n].rpc[j] \in {st.rpc[j], "failed", "held"}
          /\ ~g[n].closed =>
               /\ ~st.closed /\ f.kind \notin {"stray", "garbage"}
               /\ Settles(f) =>
                    /\ st.rpc[f.id] = "pending"
                    /\ \A j \in Id : g[n].rpc[j] = IF j # f.id THEN st.rpc[j]
                                                ELSE IF f.kind = "answer" THEN "held" ELSE "failed"
               /\ ~Settles(f) =>
                    /\ f.kind = "string" /\ st.rpc[f.id] \notin {"pending", "held"}
                    /\ \A j \in Id : g[n].rpc[j] = st.rpc[j]
      BY <2>1, MessageIs
    <2>13. Typed(n)
      <3>1. \A i \in Id : st.rpc[i] \in {rpc[i], "failed", "held"}
        BY <1>2 DEF st
      <3>2. QED
        BY <2>3, <3>1
    <2>4. SUFFICES ASSUME ~g[n].closed
                   PROVE  NoBroken(n) /\ Strings(n) /\ Once(n) /\ Said(n) /\ Others(n)
      BY <2>13
    <2>5. /\ NoBroken(n - 1) /\ Strings(n - 1) /\ Once(n - 1) /\ Others(n - 1)
          /\ \A k \in 1..(n - 1) : Settles(b[k]) =>
               /\ rpc[b[k].id] = "pending"
               /\ st.rpc[b[k].id] = IF b[k].kind = "answer" THEN "held" ELSE "failed"
          /\ \A i \in Id : (\A k \in 1..(n - 1) : Settles(b[k]) => b[k].id # i) => st.rpc[i] = rpc[i]
      BY <1>2, <2>3, <2>4 DEF st
    <2>6. \A k \in 1..n : (k \in 1..(n - 1) \/ k = n) /\ b[k] \in Frames
      OBVIOUS
    <2>7. \A k \in 1..(n - 1) : k \in 1..n
      OBVIOUS
    <2>8. \A k \in 1..N : Settles(b[k]) => b[k].id \in Id
      BY DEF Settles, Frames
    <2>9. NoBroken(n)
      BY <2>3, <2>4, <2>5, <2>6 DEF f
    <2>10. CASE Settles(f)
      <3>1. \A k \in 1..(n - 1) : Settles(b[k]) => b[k].id # f.id
        BY <2>3, <2>4, <2>5, <2>10
      <3>2. f.id \in Id /\ rpc[f.id] = "pending"
        BY <2>2, <2>3, <2>4, <2>5, <2>10, <3>1 DEF Settles
      <3>3. Once(n)
        BY <2>5, <2>6, <3>1 DEF f
      <3>4. Said(n)
        <4> SUFFICES ASSUME NEW k \in 1..n, Settles(b[k])
                     PROVE  /\ rpc[b[k].id] = "pending"
                            /\ g[n].rpc[b[k].id] = IF b[k].kind = "answer" THEN "held" ELSE "failed"
          OBVIOUS
        <4>1. CASE k = n
          BY <2>3, <2>4, <2>10, <3>2, <4>1 DEF f
        <4>2. CASE k # n
          <5>1. k \in 1..(n - 1) /\ k \in 1..N
            BY <2>6, <4>2
          <5>2. b[k].id \in Id /\ b[k].id # f.id
            BY <2>8, <3>1, <5>1
          <5>3. QED
            BY <2>3, <2>4, <2>5, <2>10, <5>1, <5>2
        <4>3. QED
          BY <4>1, <4>2
      <3>5. Others(n)
        BY <2>3, <2>4, <2>5, <2>7, <2>10 DEF f
      <3>6. Strings(n)
        BY <2>5, <2>6, <2>7, <2>10 DEF f, Settles
      <3>7. QED
        BY <2>9, <3>3, <3>4, <3>5, <3>6
    <2>11. CASE ~Settles(f)
      <3>1. Once(n)
        BY <2>5, <2>6, <2>11 DEF f
      <3>2. Said(n)
        <4> SUFFICES ASSUME NEW k \in 1..n, Settles(b[k])
                     PROVE  /\ rpc[b[k].id] = "pending"
                            /\ g[n].rpc[b[k].id] = IF b[k].kind = "answer" THEN "held" ELSE "failed"
          OBVIOUS
        <4>1. k \in 1..(n - 1) /\ k \in 1..N
          BY <2>6, <2>11 DEF f
        <4>2. b[k].id \in Id
          BY <2>8, <4>1
        <4>3. QED
          BY <2>3, <2>4, <2>5, <2>11, <4>1, <4>2
      <3>3. Others(n)
        BY <2>3, <2>4, <2>5, <2>7, <2>11 DEF f
      <3>4. rpc[f.id] = "pending" =>
              \E l \in 1..(n - 1) : b[l].kind = "error" /\ b[l].id = f.id
        <4> SUFFICES ASSUME rpc[f.id] = "pending"
                     PROVE  \E l \in 1..(n - 1) : b[l].kind = "error" /\ b[l].id = f.id
          OBVIOUS
        <4>1. f.id \in Id /\ st.rpc[f.id] \notin {"pending", "held"}
          BY <2>2, <2>3, <2>4, <2>11
        <4>2. PICK k \in 1..(n - 1) : Settles(b[k]) /\ b[k].id = f.id
          BY <2>5, <4>1
        <4>3. b[k].kind # "answer"
          BY <2>5, <4>1, <4>2
        <4>4. QED
          BY <4>2, <4>3 DEF Settles
      <3>5. Strings(n)
        BY <2>5, <2>6, <2>7, <3>4 DEF f
      <3>6. QED
        BY <2>9, <3>1, <3>2, <3>3, <3>5
    <2>12. QED
      BY <2>10, <2>11
  <1> HIDE DEF Good
  <1>3. Bad = {}
    <2> SUFFICES ASSUME Bad # {} PROVE FALSE
      OBVIOUS
    <2>1. Bad \in SUBSET Nat
      OBVIOUS
    <2> HIDE DEF Bad
    <2>2. PICK m \in Bad : \A k \in Bad : m <= k
      BY <2>1, SmallestNumber
    <2> USE DEF Bad
    <2>3. m \in 0..N /\ ~Good(m)
      BY <2>2
    <2>4. CASE m = 0
      BY <1>1, <2>3, <2>4
    <2>5. CASE m # 0
      <3>1. m \in 1..N /\ m - 1 \in 0..N /\ ~(m <= m - 1)
        BY <2>3, <2>5
      <3>2. Good(m - 1)
        BY <2>2, <3>1
      <3>3. QED
        BY <1>2, <2>3, <3>1, <3>2
    <2>6. QED
      BY <2>4, <2>5
  <1>4. Good(N)
    <2>1. N \in 0..N /\ N \notin Bad
      BY <1>3
    <2>2. QED
      BY <2>1
  <1>5. Typed(N)
    BY <1>4 DEF Good
  <1>6. ~g[N].closed => NoBroken(N) /\ Strings(N) /\ Once(N) /\ Said(N) /\ Others(N)
    BY <1>4 DEF Good
  <1>7. ~g[N].closed => Unbroken(b, N, g[N].rpc)
    BY <1>6 DEF Unbroken
  <1>8. QED
    BY <1>5, <1>7

LEMMA AcpInitInv == AcpInit => AcpInv
  BY DEF AcpInit, AcpInv, AcpTypeOK, Outcome, WrittenIsRecorded, PendingIsWritten,
         DeliveredIsUncontested

\* A batch delivers what it says once, and only if nothing in it is broken.
LEMMA BatchDelivers ==
  ASSUME AcpInv, NEW b \in Output, Data(b)
  PROVE  AcpInv'
  <1>1. PICK N \in 1..MaxFrames : b \in [1..N -> Frames]
    BY DEF Output
  <1>2. N \in Nat /\ DOMAIN b = 1..N
    BY <1>1
  <1>3. Len(b) = N
    <2>1. b \in Seq(Frames)
      BY <1>1, <1>2
    <2>2. QED
      BY <1>2, <2>1
  <1>4. PICK g : /\ g[0] = Unparsed /\ \A n \in 1..N : g[n] = Message(g[n - 1], b[n])
                 /\ Parsed(b) = g[N]
    BY <1>2, <1>3, ParsedByFrames
  <1>5. /\ rpc' = Microtasks(g[N]) /\ closed' = g[N].closed
        /\ uncontested' = uncontested \cup {i \in Id : SaysOnce(b, i)}
        /\ UNCHANGED <<recorded, written>>
    BY <1>4 DEF Data
  <1> DEFINE st == g[N]
  <1>6. /\ AcpTypeOK /\ st \in Parser
        /\ \A i \in Id : st.rpc[i] \in {rpc[i], "failed", "held"}
        /\ ~st.closed => Unbroken(b, N, st.rpc)
    <2>1. AcpTypeOK
      BY DEF AcpInv
    <2>2. QED
      BY <1>1, <1>2, <1>4, <2>1, UnbrokenBatch
  <1> HIDE DEF st
  <1>7. /\ \A i \in Id : rpc'[i] = IF st.rpc[i] # "held" THEN st.rpc[i]
                                   ELSE IF st.closed THEN "failed" ELSE "delivered"
        /\ rpc' \in [Id -> Outcome]
    <2>1. rpc' = Microtasks(st) /\ st \in Parser
      BY <1>5, <1>6 DEF st
    <2>2. QED
      BY <2>1 DEF Microtasks, Parser, Outcome
  <1>8. AcpTypeOK'
    BY <1>5, <1>6, <1>7 DEF AcpTypeOK, Parser, st
  <1>9. CASE st.closed
    <2>1. \A i \in Id : rpc'[i] \in {rpc[i], "failed"} /\ rpc'[i] \in Outcome
      BY <1>6, <1>7, <1>9
    <2>2. QED
      BY <1>5, <1>8, <2>1
      DEF AcpInv, PendingIsWritten, WrittenIsRecorded, DeliveredIsUncontested
  <1>10. CASE ~st.closed
    <2>1. /\ \A k \in 1..N : b[k].kind \notin {"stray", "garbage"}
          /\ \A k \in 1..N : b[k].kind = "string" /\ rpc[b[k].id] = "pending" =>
               \E l \in 1..N : b[l].kind = "error" /\ b[l].id = b[k].id
          /\ \A k, l \in 1..N : Settles(b[k]) /\ Settles(b[l]) /\ b[k].id = b[l].id => k = l
          /\ \A k \in 1..N : Settles(b[k]) => rpc[b[k].id] = "pending"
          /\ \A i \in Id : \/ st.rpc[i] = rpc[i]
                            \/ \E k \in 1..N :
                                 /\ Settles(b[k]) /\ b[k].id = i
                                 /\ st.rpc[i] = IF b[k].kind = "answer" THEN "held" ELSE "failed"
      BY <1>6, <1>10 DEF Unbroken
    <2>2. ASSUME NEW i \in Id, NEW k \in 1..N, b[k].kind = "answer", b[k].id = i
          PROVE  SaysOnce(b, i)
      <3> DEFINE of(j) == {m \in DOMAIN b : b[m].kind \in {"answer", "error"} /\ b[m].id = j}
      <3>1. k \in of(i)
        BY <1>2, <2>2
      <3>2. ASSUME NEW j \in Id
            PROVE  Cardinality(of(j)) <= 1 /\ (of(j) # {} => rpc[j] = "pending")
        <4>1. \A m \in of(j) : m \in 1..N /\ Settles(b[m]) /\ b[m].id = j
          BY <1>2 DEF Settles
        <4>2. \A m, n \in of(j) : m = n
          BY <2>1, <4>1
        <4>3. of(j) # {} => rpc[j] = "pending"
          BY <2>1, <4>1
        <4> HIDE DEF of
        <4>4. CASE of(j) = {}
          BY <4>4, FS_EmptySet
        <4>5. CASE of(j) # {}
          <5>1. PICK m : m \in of(j)
            BY <4>5
          <5>2. of(j) = {m}
            BY <4>2, <5>1
          <5>3. Cardinality(of(j)) = 1
            BY <5>2, FS_Singleton
          <5>4. QED
            BY <4>3, <5>3
        <4>6. QED
          BY <4>4, <4>5
      <3>3. ASSUME NEW m \in DOMAIN b
            PROVE  /\ b[m].kind \notin {"stray", "garbage"}
                   /\ b[m].kind = "string" /\ rpc[b[m].id] = "pending" =>
                        \E l \in of(b[m].id) : b[l].kind = "error"
        BY <1>2, <2>1
      <3>4. QED
        BY <2>2, <3>1, <3>2, <3>3 DEF SaysOnce
    <2>3. ASSUME NEW i \in Id, rpc'[i] = "delivered"
          PROVE  i \in uncontested' \cap written' \cap recorded'
      <3>1. CASE st.rpc[i] = rpc[i]
        <4>1. rpc[i] = "delivered"
          BY <1>6, <1>7, <2>3, <3>1 DEF AcpTypeOK, Outcome
        <4>2. QED
          BY <1>5, <4>1 DEF AcpInv, DeliveredIsUncontested
      <3>2. CASE st.rpc[i] # rpc[i]
        <4>1. PICK k \in 1..N :
                /\ Settles(b[k]) /\ b[k].id = i
                /\ st.rpc[i] = IF b[k].kind = "answer" THEN "held" ELSE "failed"
          BY <2>1, <3>2
        <4>2. b[k].kind = "answer"
          BY <1>7, <2>3, <4>1
        <4>3. SaysOnce(b, i) /\ rpc[i] = "pending"
          BY <2>1, <2>2, <4>1, <4>2
        <4>4. QED
          BY <1>5, <4>3 DEF AcpInv, PendingIsWritten, WrittenIsRecorded
      <3>3. QED
        BY <3>1, <3>2
    <2>4. DeliveredIsUncontested'
      BY <2>3 DEF DeliveredIsUncontested
    <2>5. PendingIsWritten' /\ WrittenIsRecorded'
      BY <1>5, <1>7, <2>1 DEF AcpInv, PendingIsWritten, WrittenIsRecorded
    <2>6. QED
      BY <1>8, <2>4, <2>5 DEF AcpInv
  <1>11. QED
    BY <1>9, <1>10

LEMMA AcpStep == AcpInv /\ [AcpNext]_acpVars => AcpInv'
  <1> SUFFICES ASSUME AcpInv, [AcpNext]_acpVars PROVE AcpInv'
    OBVIOUS
  <1> USE DEF AcpInv, AcpTypeOK, Outcome, WrittenIsRecorded, PendingIsWritten,
              DeliveredIsUncontested
  <1>1. CASE UNCHANGED acpVars
    BY <1>1 DEF acpVars
  <1>2. ASSUME NEW i \in Id, Reserve(i) PROVE AcpInv'
    BY <1>2 DEF Reserve
  <1>3. ASSUME NEW i \in Id, RecordInflight(i) PROVE AcpInv'
    BY <1>3 DEF RecordInflight
  <1>4. ASSUME NEW i \in Id, Dispatch(i) PROVE AcpInv'
    BY <1>4 DEF Dispatch, Condemn, Open
  <1>5. ASSUME NEW i \in Id, TimesOut(i) PROVE AcpInv'
    BY <1>5 DEF TimesOut
  <1>6. CASE ChildEnds
    BY <1>6 DEF ChildEnds, Condemn, Open
  <1>7. ASSUME NEW b \in Output, Data(b) PROVE AcpInv'
    BY <1>7, BatchDelivers
  <1>8. QED
    BY <1>1, <1>2, <1>3, <1>4, <1>5, <1>6, <1>7 DEF AcpNext

\* A result that was delivered is the one answer to a request that Grok could read, in a batch that
\* held no duplicate, colliding, unmatched or broken frame, however long the batches are: the parser
\* holds every answer back until the last frame of its batch (acp-client.mjs).
THEOREM DeliveriesAreUncontested == AcpSpec => []DeliveredIsUncontested
  <1>1. AcpInv => DeliveredIsUncontested
    BY DEF AcpInv
  <1>2. QED
    BY <1>1, AcpInitInv, AcpStep, PTL DEF AcpSpec

-----------------------------------------------------------------------------
(* The walk over Git's own files.  A path that has moved on from a node never  *)
(* shows its inode and version again, and a plain file that is not among the    *)
(* restored ones never its content: so what is found a second time as it was    *)
(* recorded was there in between, when the first pass had ended.  Of everything *)
(* that is recorded that is known, or it is still to be looked at.              *)

NodeRec == [kind : {"absent", "file", "dir", "link"}, ino : Nat, ver : Nat,
            data : Datum \cup Target \cup {"", "link"}]

\* What can be at a path.
Kinded(p, n) ==
  /\ n \in NodeRec
  /\ \/ n.kind = "absent"
     \/ p = "link" /\ n.kind = "link" /\ n.data \in Target \cup {"link"}
     \/ p = "hooks" /\ n.kind = "dir"
     \/ p \notin {"link", "hooks"} /\ n.kind = "file"

Task == {"visit", "open", "read", "accept", "resolve", "hops", "list", "close", "again"} \X Path

WalkTypeOK ==
  /\ writes \in Nat /\ again \in BOOLEAN
  /\ agenda \in Seq(Task) /\ listed \in Listings
  /\ nodes \in [Path -> NodeRec]
  /\ \A p \in Path : Kinded(p, nodes[p]) /\ nodes[p].ver <= writes
  /\ DOMAIN taken \subseteq Path /\ restored \subseteq Plain

\* The same node, but for the mode of a directory.
Sees(x, y) == Signature(y) = Signature(x) /\ (x.kind # "dir" => y.data = x.data)

\* A path that has moved on from a node never shows it again.
Later(x, y) == Sees(x, y) \/ y.kind = "absent" \/ y.ver > x.ver

\* What is compared at the end with what was recorded of a path.
AsTaken(p, n) == IF p \in Plain THEN Unaltered(n, taken[p]) ELSE Sees(taken[p], n)

\* What was recorded is still there, or has moved on.
TakenOK ==
  \A p \in DOMAIN taken :
    /\ Kinded(p, taken[p]) /\ taken[p].ver <= writes
    /\ taken[p].kind # "absent" => Later(taken[p], nodes[p])

\* What is read of the file that was opened is its content, or it has moved on.
HandleOK ==
  agenda # << >> /\ agenda[1][1] \in {"read", "accept"} =>
    /\ handle.node \in NodeRec /\ handle.node.kind = "file" /\ handle.node.ver <= writes
    /\ handle = [path |-> handle.path, node |-> handle.node, content |-> handle.content]
    /\ agenda[1][1] = "accept" /\ nodes[agenda[1][2]] = handle.node =>
         handle.content = handle.node.data

\* The listing is that of the directory for as long as the directory is the recorded one.
ListedOK ==
  /\ "hooks" \in DOMAIN taken /\ taken["hooks"].kind = "dir" /\ Sees(taken["hooks"], nodes["hooks"])
  /\ ~(agenda # << >> /\ agenda[1][1] = "list")
  => Names(nodes) = listed

-----------------------------------------------------------------------------
(* The stages of the first pass: what is still to be done, and what is recorded. *)

Kids == {listed[i] : i \in DOMAIN listed}
LinkTaken == taken["link"].kind = "link"
Reading == {"open", "read", "accept"}
RootsTaken ==
  /\ LinkTaken => taken["link"].data \in Target
  /\ DOMAIN taken \ {"hooks", "a", "b"} =
       {"config", "link"} \cup (IF LinkTaken THEN {taken["link"].data} ELSE {})

AtConfig == /\ Len(agenda) = 3 /\ DOMAIN taken = {}
            /\ agenda[1] \in ({"visit"} \cup Reading) \X {"config"}
            /\ agenda[2] = <<"visit", "link">> /\ agenda[3] = <<"visit", "hooks">>

AtLink == /\ Len(agenda) = 2 /\ DOMAIN taken = {"config"}
          /\ agenda[1] = <<"visit", "link">> /\ agenda[2] = <<"visit", "hooks">>

AtTarget == /\ Len(agenda) = 2 /\ DOMAIN taken = {"config", "link"} /\ LinkTaken
            /\ agenda[1] = <<"resolve", taken["link"].data>> /\ agenda[2] = <<"visit", "hooks">>

InTarget == /\ Len(agenda) = 3 /\ RootsTaken /\ LinkTaken /\ DOMAIN taken \cap {"hooks", "a", "b"} = {}
            /\ agenda[1] \in Reading \X {taken["link"].data}
            /\ agenda[2] = <<"hops", "link">> /\ agenda[3] = <<"visit", "hooks">>

AtHops == /\ Len(agenda) = 2 /\ RootsTaken /\ LinkTaken /\ DOMAIN taken \cap {"hooks", "a", "b"} = {}
          /\ agenda[1] = <<"hops", "link">> /\ agenda[2] = <<"visit", "hooks">>

AtHooks == /\ Len(agenda) = 1 /\ RootsTaken /\ DOMAIN taken \cap {"hooks", "a", "b"} = {}
           /\ agenda[1] = <<"visit", "hooks">>

AtList == /\ Len(agenda) = 1 /\ RootsTaken /\ DOMAIN taken \cap {"hooks", "a", "b"} = {"hooks"}
          /\ taken["hooks"].kind = "dir" /\ agenda[1] = <<"list", "hooks">>

AtKids ==
  /\ RootsTaken /\ taken["hooks"].kind = "dir"
  /\ "hooks" \in DOMAIN taken /\ DOMAIN taken \cap {"a", "b"} \subseteq Kids
  /\ Len(agenda) >= 1 /\ agenda[Len(agenda)] = <<"close", "hooks">>
  /\ \A i \in 1..(Len(agenda) - 1) :
       /\ agenda[i] \in ({"visit"} \cup Reading) \X Kids
       /\ i # 1 => agenda[i][1] = "visit"
  /\ \A c \in Kids : c \in DOMAIN taken \/ \E i \in 1..(Len(agenda) - 1) : agenda[i][2] = c

\* Everything is recorded.
Whole ==
  /\ RootsTaken /\ "hooks" \in DOMAIN taken
  /\ DOMAIN taken \cap {"a", "b"} = IF taken["hooks"].kind = "dir" THEN Kids ELSE {}

AtEnd == Whole /\ \A i \in 1..Len(agenda) : agenda[i] \in {"again"} \X (Kids \cap DOMAIN taken)

FirstPass ==
  \/ AtConfig \/ AtLink \/ AtTarget \/ InTarget \/ AtHops \/ AtHooks \/ AtList \/ AtKids \/ AtEnd

-----------------------------------------------------------------------------
(* The second pass: what has been looked at again was there at the instant. *)

ToDo(p) == \E i \in 1..Len(agenda) : agenda[i] = <<"again", p>>

LookedAtBefore(p) ==
  \/ AsTaken(p, instant[p])
  \/ p \notin Target /\ ToDo(p)
  \/ p \in Target /\ ToDo("link")
  \/ p \in {"a", "b"} /\ ToDo("hooks")

SecondPass ==
  /\ Whole
  /\ \A i \in 1..Len(agenda) : agenda[i] \in {"again"} \X DOMAIN taken
  /\ \A p \in DOMAIN taken \ restored : taken[p].kind # "absent" =>
       /\ AsTaken(p, nodes[p]) => AsTaken(p, instant[p])
       /\ LookedAtBefore(p)
  /\ taken["hooks"].kind = "dir" /\ Sees(taken["hooks"], instant["hooks"]) => Names(instant) = listed

GoingInv ==
  /\ WalkTypeOK /\ TakenOK /\ HandleOK /\ ListedOK
  /\ IF again THEN SecondPass ELSE FirstPass

WalkInv == (walked = "going" => GoingInv) /\ IdentityIsOfOneInstant

-----------------------------------------------------------------------------
\* The listing of a directory names the children that are there.
LEMMA NamesIs ==
  ASSUME NEW f
  PROVE  /\ Names(f) \in Listings
         /\ {Names(f)[i] : i \in DOMAIN Names(f)} = {c \in {"a", "b"} : f[c].kind # "absent"}
  <1> DEFINE There == {c \in {"a", "b"} : f[c].kind # "absent"}
  <1>1. There \in {{}, {"a"}, {"b"}, {"a", "b"}}
    OBVIOUS
  <1>2. /\ {(<< >>)[i] : i \in DOMAIN << >>} = {}
        /\ {(<<"a">>)[i] : i \in DOMAIN <<"a">>} = {"a"}
        /\ {(<<"b">>)[i] : i \in DOMAIN <<"b">>} = {"b"}
        /\ {Children[i] : i \in DOMAIN Children} = {"a", "b"}
    BY DEF Children
  <1>3. \E s \in Listings : {s[i] : i \in DOMAIN s} = There
    <2> HIDE DEF There
    <2> QED BY <1>1, <1>2 DEF Listings
  <1> HIDE DEF There
  <1>4. Names(f) = CHOOSE s \in Listings : {s[i] : i \in DOMAIN s} = There
    BY DEF Names, There
  <1>5. Names(f) \in Listings /\ {Names(f)[i] : i \in DOMAIN Names(f)} = There
    BY <1>3, <1>4
  <1> QED BY <1>5 DEF There

LEMMA NamesSame ==
  ASSUME NEW f, NEW g, \A c \in {"a", "b"} : (f[c].kind = "absent") <=> (g[c].kind = "absent")
  PROVE  Names(f) = Names(g)
  <1>1. {c \in {"a", "b"} : f[c].kind # "absent"} = {c \in {"a", "b"} : g[c].kind # "absent"}
    OBVIOUS
  <1> QED BY <1>1, Zenon DEF Names

\* A listing is a sequence of different children.
LEMMA ListingIs ==
  ASSUME NEW s \in Listings
  PROVE  /\ s \in Seq({"a", "b"}) /\ Len(s) \in 0..2
         /\ DOMAIN s = 1..Len(s) /\ (s = << >> <=> Len(s) = 0)
         /\ \A i, j \in 1..Len(s) : s[i] = s[j] => i = j
  <1>1. CASE s = << >>
    BY <1>1
  <1>2. CASE s = <<"a">>
    BY <1>2
  <1>3. CASE s = <<"b">>
    BY <1>3
  <1>4. CASE s = Children
    BY <1>4 DEF Children
  <1> QED BY <1>1, <1>2, <1>3, <1>4 DEF Listings

\* The tasks that replace the one at the head of the agenda.
LEMMA Replaced ==
  ASSUME NEW a \in Seq(Task), a # << >>, NEW s \in Seq(Task), NEW b, b = s \o Tail(a)
  PROVE  /\ b \in Seq(Task) /\ Len(b) = Len(s) + Len(a) - 1
         /\ \A i \in 1..Len(s) : b[i] = s[i]
         /\ \A i \in (Len(s) + 1)..Len(b) : b[i] = a[i - Len(s) + 1]
  <1>1. Tail(a) \in Seq(Task) /\ Len(Tail(a)) = Len(a) - 1 /\ Len(a) \in Nat \ {0}
    OBVIOUS
  <1>2. \A i \in 1..Len(Tail(a)) : Tail(a)[i] = a[i + 1]
    OBVIOUS
  <1>3. Len(s) \in Nat
    OBVIOUS
  <1> QED BY <1>1, <1>2, <1>3

LEMMA Popped ==
  ASSUME agenda \in Seq(Task), agenda # << >>, Then(<< >>)
  PROVE  /\ agenda' \in Seq(Task) /\ Len(agenda') = Len(agenda) - 1
         /\ \A i \in 1..Len(agenda') : agenda'[i] = agenda[i + 1]
  <1>1. << >> \in Seq(Task) /\ Len(<< >>) = 0
    OBVIOUS
  <1>2. agenda' = << >> \o Tail(agenda)
    BY DEF Then
  <1>3. /\ agenda' \in Seq(Task) /\ Len(agenda') = Len(<< >>) + Len(agenda) - 1
        /\ \A i \in (Len(<< >>) + 1)..Len(agenda') : agenda'[i] = agenda[i - Len(<< >>) + 1]
    BY <1>1, <1>2, Replaced
  <1>4. Len(agenda) \in Nat
    OBVIOUS
  <1> QED BY <1>1, <1>3, <1>4

LEMMA OneInstead ==
  ASSUME agenda \in Seq(Task), agenda # << >>, NEW t \in Task, Then(<< t >>)
  PROVE  /\ agenda' \in Seq(Task) /\ Len(agenda') = Len(agenda) /\ agenda'[1] = t
         /\ \A i \in 2..Len(agenda) : agenda'[i] = agenda[i]
  <1>1. << t >> \in Seq(Task) /\ Len(<< t >>) = 1 /\ (<< t >>)[1] = t
    OBVIOUS
  <1>2. agenda' = << t >> \o Tail(agenda)
    BY DEF Then
  <1>3. /\ agenda' \in Seq(Task) /\ Len(agenda') = Len(<< t >>) + Len(agenda) - 1
        /\ \A i \in 1..Len(<< t >>) : agenda'[i] = (<< t >>)[i]
        /\ \A i \in (Len(<< t >>) + 1)..Len(agenda') : agenda'[i] = agenda[i - Len(<< t >>) + 1]
    BY <1>1, <1>2, Replaced
  <1>4. Len(agenda) \in Nat \ {0}
    OBVIOUS
  <1> QED BY <1>1, <1>3, <1>4

LEMMA TwoInstead ==
  ASSUME agenda \in Seq(Task), agenda # << >>, NEW t \in Task, NEW u \in Task, Then(<< t, u >>)
  PROVE  /\ agenda' \in Seq(Task) /\ Len(agenda') = Len(agenda) + 1
         /\ agenda'[1] = t /\ agenda'[2] = u
         /\ \A i \in 3..Len(agenda') : agenda'[i] = agenda[i - 1]
  <1>1. << t, u >> \in Seq(Task) /\ Len(<< t, u >>) = 2 /\ (<< t, u >>)[1] = t /\ (<< t, u >>)[2] = u
    OBVIOUS
  <1>2. agenda' = << t, u >> \o Tail(agenda)
    BY DEF Then
  <1>3. /\ agenda' \in Seq(Task) /\ Len(agenda') = Len(<< t, u >>) + Len(agenda) - 1
        /\ \A i \in 1..Len(<< t, u >>) : agenda'[i] = (<< t, u >>)[i]
        /\ \A i \in (Len(<< t, u >>) + 1)..Len(agenda') :
             agenda'[i] = agenda[i - Len(<< t, u >>) + 1]
    BY <1>1, <1>2, Replaced
  <1>4. Len(agenda) \in Nat \ {0}
    OBVIOUS
  <1> QED BY <1>1, <1>3, <1>4

LEMMA AllInstead ==
  ASSUME agenda \in Seq(Task), agenda # << >>, NEW s \in Seq(Task), Then(s)
  PROVE  /\ agenda' \in Seq(Task) /\ Len(agenda') = Len(s) + Len(agenda) - 1
         /\ \A i \in 1..Len(s) : agenda'[i] = s[i]
         /\ \A i \in (Len(s) + 1)..Len(agenda') : agenda'[i] = agenda[i - Len(s) + 1]
  <1>1. agenda' = s \o Tail(agenda)
    BY DEF Then
  <1> QED BY <1>1, Replaced

LEMMA AgainsInstead ==
  ASSUME agenda \in Seq(Task), agenda # << >>, NEW s \in Listings, Then(Agains(s))
  PROVE  /\ agenda' \in Seq(Task) /\ Len(agenda') = Len(s) + Len(agenda) - 1
         /\ \A i \in 1..Len(s) : agenda'[i] = <<"again", s[i]>>
         /\ \A i \in (Len(s) + 1)..Len(agenda') : agenda'[i] = agenda[i - Len(s) + 1]
  <1>1. s \in Seq({"a", "b"}) /\ Len(s) \in 0..2
    BY ListingIs
  <1>2. /\ Agains(s) \in Seq(Task) /\ Len(Agains(s)) = Len(s)
        /\ \A i \in 1..Len(s) : Agains(s)[i] = <<"again", s[i]>>
    BY <1>1 DEF Agains, Task, Path, Plain
  <1> PICK tasks : tasks = Agains(s)
    OBVIOUS
  <1>3. /\ tasks \in Seq(Task) /\ Len(tasks) = Len(s) /\ Then(tasks)
        /\ \A i \in 1..Len(s) : tasks[i] = <<"again", s[i]>>
    BY <1>2
  <1> QED BY <1>3, AllInstead

\* The tasks of a listing: its children, then the directory itself.
LEMMA ListedTasks ==
  ASSUME NEW x \in Seq(Task), NEW y \in Task, NEW z, z = x \o << y >>
  PROVE  /\ z \in Seq(Task) /\ Len(z) = Len(x) + 1
         /\ \A i \in 1..Len(x) : z[i] = x[i]
         /\ z[Len(x) + 1] = y
  OBVIOUS

LEMMA ListedInstead ==
  ASSUME agenda \in Seq(Task), agenda # << >>, NEW x \in Seq(Task), NEW y \in Task,
         NEW z \in Seq(Task), Len(z) = Len(x) + 1, \A i \in 1..Len(x) : z[i] = x[i],
         z[Len(x) + 1] = y, Then(z)
  PROVE  /\ agenda' \in Seq(Task) /\ Len(agenda') = Len(x) + Len(agenda)
         /\ \A i \in 1..Len(x) : agenda'[i] = x[i]
         /\ agenda'[Len(x) + 1] = y
         /\ \A i \in (Len(x) + 2)..Len(agenda') : agenda'[i] = agenda[i - Len(x)]
  <1>1. /\ agenda' \in Seq(Task) /\ Len(agenda') = Len(z) + Len(agenda) - 1
        /\ \A i \in 1..Len(z) : agenda'[i] = z[i]
        /\ \A i \in (Len(z) + 1)..Len(agenda') : agenda'[i] = agenda[i - Len(z) + 1]
    BY AllInstead
  <1>2. Len(agenda) \in Nat /\ Len(x) \in Nat
    OBVIOUS
  <1>3. \A i \in (Len(x) + 2)..Len(agenda') : agenda'[i] = agenda[i - Len(x)]
    <2> TAKE i \in (Len(x) + 2)..Len(agenda')
    <2>1. i \in (Len(z) + 1)..Len(agenda') /\ i - Len(z) + 1 = i - Len(x)
      BY <1>1, <1>2
    <2> QED BY <2>1, <1>1
  <1> QED BY <1>1, <1>2, <1>3

LEMMA ChildrenInstead ==
  ASSUME agenda \in Seq(Task), agenda # << >>, NEW s \in Listings,
         Then(Visits(s) \o << <<"close", "hooks">> >>)
  PROVE  /\ agenda' \in Seq(Task) /\ Len(agenda') = Len(s) + Len(agenda)
         /\ \A i \in 1..Len(s) : agenda'[i] = <<"visit", s[i]>>
         /\ agenda'[Len(s) + 1] = <<"close", "hooks">>
         /\ \A i \in (Len(s) + 2)..Len(agenda') : agenda'[i] = agenda[i - Len(s)]
  <1>1. s \in Seq({"a", "b"}) /\ Len(s) \in 0..2
    BY ListingIs
  <1> DEFINE x == Visits(s)
             y == <<"close", "hooks">>
             z == x \o << y >>
  <1>2. /\ x \in Seq(Task) /\ Len(x) = Len(s)
        /\ \A i \in 1..Len(s) : x[i] = <<"visit", s[i]>>
    BY <1>1 DEF Visits, Task, Path, Plain
  <1>3. y \in Task
    BY DEF Task, Path
  <1>4. Then(z)
    OBVIOUS
  <1> HIDE DEF x, y
  <1>5. z \in Seq(Task) /\ Len(z) = Len(x) + 1 /\ z[Len(x) + 1] = y
        /\ \A i \in 1..Len(x) : z[i] = x[i]
    BY <1>2, <1>3, ListedTasks
  <1> HIDE DEF z
  <1>6. /\ agenda' \in Seq(Task) /\ Len(agenda') = Len(x) + Len(agenda)
        /\ \A i \in 1..Len(x) : agenda'[i] = x[i]
        /\ agenda'[Len(x) + 1] = y
        /\ \A i \in (Len(x) + 2)..Len(agenda') : agenda'[i] = agenda[i - Len(x)]
    BY <1>2, <1>3, <1>4, <1>5, ListedInstead
  <1> QED BY <1>2, <1>6 DEF y

LEMMA NodeIs ==
  ASSUME NEW v \in Nat, NEW d \in Datum, NEW k \in {"file", "dir"}
  PROVE  /\ Node(k, v, v, d) \in NodeRec /\ Node(k, v, v, d).kind = k
         /\ Node(k, v, v, d).ver = v
  BY DEF Node, NodeRec

LEMMA NoNodeIs == NoNode \in NodeRec /\ NoNode.kind = "absent" /\ NoNode.ver = 0
  BY DEF Node, NoNode, NodeRec

LEMMA NodeVersion ==
  ASSUME NEW n \in NodeRec, NEW v \in Nat
  PROVE  /\ [n EXCEPT !.ver = v] \in NodeRec /\ [n EXCEPT !.ver = v].ver = v
         /\ [n EXCEPT !.ver = v].kind = n.kind /\ [n EXCEPT !.ver = v].data = n.data
  BY DEF NodeRec

LEMMA NodeData ==
  ASSUME NEW n \in NodeRec, NEW v \in Nat, NEW d \in Datum
  PROVE  /\ [n EXCEPT !.ver = v, !.data = d] \in NodeRec /\ [n EXCEPT !.ver = v, !.data = d].ver = v
         /\ [n EXCEPT !.ver = v, !.data = d].kind = n.kind
  BY DEF NodeRec

\* A write leaves a path as it is, removes it or gives it a version of its own.  A
\* directory that is the same has the same names.  A recorded file that gets back what
\* was recorded of it is among the restored ones.
LEMMA WriteIs ==
  ASSUME WalkTypeOK, OthersWrite
  PROVE  /\ writes' = writes + 1 /\ nodes' \in [Path -> NodeRec]
         /\ \A p \in Path :
              /\ Kinded(p, nodes[p])' /\ nodes'[p].ver <= writes'
              /\ nodes'[p] = nodes[p] \/ nodes'[p].kind = "absent" \/ nodes'[p].ver = writes'
         /\ nodes'["hooks"].ver = writes' \/ Names(nodes') = Names(nodes)
         /\ restored \subseteq restored' /\ restored' \subseteq Plain
         /\ \A p \in (Plain \cap DOMAIN taken) \ restored' :
              Unaltered(nodes'[p], taken[p]) => Unaltered(nodes[p], taken[p])
         /\ UNCHANGED <<agenda, taken, handle, listed, again, walked, instant>>
  <1>1. /\ writes \in Nat /\ nodes \in [Path -> NodeRec]
        /\ \A p \in Path : Kinded(p, nodes[p]) /\ nodes[p].ver <= writes
    BY DEF WalkTypeOK
  <1>2. PICK p, node :
          /\ p \in Path /\ Change(p, node) /\ Kinded(p, node)
          /\ (node.kind = "absent" /\ node.ver = 0) \/ node.ver = writes + 1
    <2>0. Fresh \in Nat /\ Fresh = writes + 1
      BY <1>1 DEF Fresh
    <2>1. CASE \E p \in Path : Overwrite(p)
      <3> PICK p \in Path : Overwrite(p)
        BY <2>1
      <3> PICK d \in Datum : Change(p, [nodes[p] EXCEPT !.ver = Fresh, !.data = d])
        BY DEF Overwrite
      <3> DEFINE n == [nodes[p] EXCEPT !.ver = Fresh, !.data = d]
      <3>1. Kinded(p, n) /\ n.ver = writes + 1
        <4>1. Kinded(p, nodes[p]) /\ nodes[p].kind \in {"file", "dir"}
          BY <1>1 DEF Overwrite
        <4>2. nodes[p] \in NodeRec /\ Fresh \in Nat
          BY <4>1, <2>0 DEF Kinded
        <4>3. \A v \in Nat : \A e \in Datum :
                LET m == [nodes[p] EXCEPT !.ver = v, !.data = e]
                IN m \in NodeRec /\ m.ver = v /\ m.kind = nodes[p].kind
          BY <4>2, NodeData
        <4>4. n \in NodeRec /\ n.ver = Fresh /\ n.kind = nodes[p].kind
          BY <4>2, <4>3
        <4> HIDE DEF n
        <4> QED BY <4>1, <4>4, <2>0 DEF Kinded
      <3> QED BY <3>1
    <2>2. CASE \E p \in Path : Replace(p)
      <3> PICK p \in Path : Replace(p)
        BY <2>2
      <3> PICK d \in Datum : Change(p, Node("file", Fresh, Fresh, d))
        BY DEF Replace
      <3>1. Kinded(p, Node("file", Fresh, Fresh, d)) /\ Node("file", Fresh, Fresh, d).ver = writes + 1
        <4>1. p \notin {"link", "hooks"}
          BY DEF Replace
        <4>2. /\ Node("file", Fresh, Fresh, d) \in NodeRec
              /\ Node("file", Fresh, Fresh, d).ver = Fresh
              /\ Node("file", Fresh, Fresh, d).kind = "file"
          BY <2>0, NodeIs
        <4> QED BY <4>1, <4>2, <2>0 DEF Kinded
      <3> QED BY <3>1
    <2>3. CASE \E p \in Path : Remove(p)
      <3> PICK p \in Path : Remove(p)
        BY <2>3
      <3>1. Kinded(p, NoNode) /\ NoNode.kind = "absent" /\ NoNode.ver = 0
        <4>1. NoNode \in NodeRec /\ NoNode.kind = "absent" /\ NoNode.ver = 0
          BY NoNodeIs
        <4> QED BY <4>1 DEF Kinded
      <3> QED BY <3>1 DEF Remove
    <2>4. CASE Retarget
      <3> PICK t \in Target \cup {"link"} : Change("link", Node("link", Fresh, Fresh, t))
        BY <2>4 DEF Retarget
      <3>1. /\ Kinded("link", Node("link", Fresh, Fresh, t))
            /\ Node("link", Fresh, Fresh, t).ver = writes + 1 /\ "link" \in Path
        <4>1. /\ Node("link", Fresh, Fresh, t) \in NodeRec
              /\ Node("link", Fresh, Fresh, t).ver = Fresh
              /\ Node("link", Fresh, Fresh, t).kind = "link"
              /\ Node("link", Fresh, Fresh, t).data = t
          <5>1. t \in Target \cup {"link"} /\ Fresh \in Nat
            BY <2>0
          <5> HIDE DEF Fresh
          <5> QED BY <5>1 DEF Node, NodeRec
        <4> QED BY <4>1, <2>0 DEF Kinded, Path
      <3> QED BY <3>1
    <2>5. CASE Remake
      <3>1. Change("hooks", Node("dir", Fresh, Fresh, "d0"))
        BY <2>5 DEF Remake
      <3>2. /\ Kinded("hooks", Node("dir", Fresh, Fresh, "d0"))
            /\ Node("dir", Fresh, Fresh, "d0").ver = writes + 1 /\ "hooks" \in Path
        <4>1. /\ Node("dir", Fresh, Fresh, "d0") \in NodeRec
              /\ Node("dir", Fresh, Fresh, "d0").ver = Fresh
              /\ Node("dir", Fresh, Fresh, "d0").kind = "dir"
          BY <2>0, NodeIs DEF Datum
        <4> QED BY <4>1, <2>0 DEF Kinded, Path
      <3> QED BY <3>1, <3>2
    <2> QED BY <2>1, <2>2, <2>3, <2>4, <2>5 DEF OthersWrite
  <1>3. /\ writes' = writes + 1 /\ node \in NodeRec /\ p \in Path
        /\ UNCHANGED <<agenda, taken, handle, listed, again, walked, instant>>
    BY <1>2 DEF Change, Fresh, Kinded
  <1>4. "hooks" \in Path /\ "a" \in Path /\ "b" \in Path
    BY DEF Path, Plain
  <1>7. /\ restored \subseteq restored' /\ restored' \subseteq Plain
        /\ p \in (Plain \cap DOMAIN taken) \ restored' =>
             (Unaltered(node, taken[p]) => Unaltered(nodes[p], taken[p]))
    <2>1. restored \subseteq Plain
      BY DEF WalkTypeOK
    <2>2. restored' = IF Restores(p, node) THEN restored \cup {p} ELSE restored
      BY <1>2 DEF Change
    <2> QED BY <2>1, <2>2 DEF Restores
  <1>8. ASSUME nodes'[p] = node, \A q \in Path \ {p, "hooks"} : nodes'[q] = nodes[q]
        PROVE  \A q \in (Plain \cap DOMAIN taken) \ restored' :
                 Unaltered(nodes'[q], taken[q]) => Unaltered(nodes[q], taken[q])
    <2> TAKE q \in (Plain \cap DOMAIN taken) \ restored'
    <2>1. q \in Path /\ q # "hooks"
      BY DEF Path, Plain
    <2> QED BY <1>7, <1>8, <2>1
  <1>5. CASE p \in {"a", "b"} /\ (node.kind = "absent") # (nodes[p].kind = "absent")
    <2>1. nodes' = [nodes EXCEPT ![p] = node, !["hooks"].ver = writes + 1]
      BY <1>2, <1>5 DEF Change, Fresh
    <2>2. /\ nodes'["hooks"] = [nodes["hooks"] EXCEPT !.ver = writes + 1]
          /\ nodes'[p] = node /\ nodes' \in [Path -> NodeRec]
          /\ \A q \in Path \ {p, "hooks"} : nodes'[q] = nodes[q]
      <3>1. nodes["hooks"] \in NodeRec /\ writes + 1 \in Nat
        BY <1>1, <1>4
      <3>2. [nodes["hooks"] EXCEPT !.ver = writes + 1] \in NodeRec
        BY <3>1, NodeVersion
      <3> DEFINE m == [nodes["hooks"] EXCEPT !.ver = writes + 1]
      <3>3. nodes' = [[nodes EXCEPT ![p] = node] EXCEPT !["hooks"] = [@ EXCEPT !.ver = writes + 1]]
        BY <2>1
      <3>4. p # "hooks" /\ [nodes EXCEPT ![p] = node]["hooks"] = nodes["hooks"]
        BY <1>1, <1>4, <1>5
      <3>5. nodes' = [[nodes EXCEPT ![p] = node] EXCEPT !["hooks"] = m]
        BY <3>3, <3>4
      <3>6. m \in NodeRec
        BY <3>2
      <3> HIDE DEF m
      <3>7. /\ nodes'["hooks"] = m
            /\ nodes'[p] = node /\ nodes' \in [Path -> NodeRec]
            /\ \A q \in Path \ {p, "hooks"} : nodes'[q] = nodes[q]
        BY <1>1, <1>3, <1>4, <3>4, <3>5, <3>6
      <3> QED BY <3>7 DEF m
    <2>3. /\ nodes["hooks"] \in NodeRec /\ nodes'["hooks"].ver = writes + 1
          /\ nodes'["hooks"] \in NodeRec /\ nodes'["hooks"].kind = nodes["hooks"].kind
      <3>1. nodes["hooks"] \in NodeRec /\ writes + 1 \in Nat
        BY <1>1, <1>4
      <3> QED BY <3>1, <2>2, NodeVersion
    <2>4. Kinded("hooks", nodes["hooks"])' /\ nodes'["hooks"].ver <= writes'
      <3>1. Kinded("hooks", nodes["hooks"])
        BY <1>1, <1>4
      <3> QED BY <3>1, <1>1, <1>3, <2>3 DEF Kinded
    <2>6. ASSUME NEW q \in Path
          PROVE  /\ Kinded(q, nodes[q])' /\ nodes'[q].ver <= writes'
                 /\ nodes'[q] = nodes[q] \/ nodes'[q].kind = "absent" \/ nodes'[q].ver = writes'
      <3>1. CASE q = "hooks"
        BY <3>1, <2>3, <2>4, <1>3
      <3>2. CASE q = p
        <4>1. nodes'[q] = node /\ Kinded(q, node) /\ node.ver <= writes'
          BY <3>2, <2>2, <1>1, <1>2, <1>3
        <4> QED BY <4>1, <1>2, <1>3
      <3>3. CASE q \in Path \ {p, "hooks"}
        <4>1. nodes'[q] = nodes[q] /\ Kinded(q, nodes[q]) /\ nodes[q].ver <= writes
          BY <3>3, <2>2, <1>1
        <4>2. nodes[q].ver \in Nat
          BY <4>1 DEF Kinded, NodeRec
        <4> QED BY <4>1, <4>2, <1>1, <1>3
      <3> QED BY <3>1, <3>2, <3>3
    <2> QED BY <1>3, <1>7, <1>8, <2>2, <2>3, <2>6
  <1>6. CASE ~(p \in {"a", "b"} /\ (node.kind = "absent") # (nodes[p].kind = "absent"))
    <2>1. nodes' = [nodes EXCEPT ![p] = node]
      BY <1>2, <1>6 DEF Change
    <2>2. /\ nodes'[p] = node /\ nodes' \in [Path -> NodeRec]
          /\ \A q \in Path \ {p} : nodes'[q] = nodes[q]
      BY <1>1, <1>3, <2>1
    <2>3. Names(nodes') = Names(nodes)
      <3>1. \A c \in {"a", "b"} : (nodes'[c].kind = "absent") <=> (nodes[c].kind = "absent")
        BY <1>4, <1>6, <2>2
      <3> QED BY <3>1, NamesSame
    <2>4. ASSUME NEW q \in Path
          PROVE  /\ Kinded(q, nodes[q])' /\ nodes'[q].ver <= writes'
                 /\ nodes'[q] = nodes[q] \/ nodes'[q].kind = "absent" \/ nodes'[q].ver = writes'
      <3>2. CASE q = p
        <4>1. nodes'[q] = node /\ Kinded(q, node) /\ node.ver <= writes'
          BY <3>2, <2>2, <1>1, <1>2, <1>3
        <4> QED BY <4>1, <1>2, <1>3
      <3>3. CASE q \in Path \ {p}
        <4>1. nodes'[q] = nodes[q] /\ Kinded(q, nodes[q]) /\ nodes[q].ver <= writes
          BY <3>3, <2>2, <1>1
        <4>2. nodes[q].ver \in Nat
          BY <4>1 DEF Kinded, NodeRec
        <4> QED BY <4>1, <4>2, <1>1, <1>3
      <3> QED BY <3>2, <3>3
    <2>5. \A q \in Path \ {p, "hooks"} : nodes'[q] = nodes[q]
      BY <2>2
    <2> QED BY <1>3, <1>7, <1>8, <2>2, <2>3, <2>4, <2>5
  <1> QED BY <1>5, <1>6

LEMMA WriteStep ==
  ASSUME GoingInv, OthersWrite
  PROVE  GoingInv'
  <1>1. WalkTypeOK /\ TakenOK /\ HandleOK /\ ListedOK /\ (IF again THEN SecondPass ELSE FirstPass)
    BY DEF GoingInv
  <1>2. /\ writes' = writes + 1 /\ nodes' \in [Path -> NodeRec]
        /\ \A p \in Path :
             /\ Kinded(p, nodes[p])' /\ nodes'[p].ver <= writes'
             /\ nodes'[p] = nodes[p] \/ nodes'[p].kind = "absent" \/ nodes'[p].ver = writes'
        /\ nodes'["hooks"].ver = writes' \/ Names(nodes') = Names(nodes)
        /\ restored \subseteq restored' /\ restored' \subseteq Plain
        /\ \A p \in (Plain \cap DOMAIN taken) \ restored' :
             Unaltered(nodes'[p], taken[p]) => Unaltered(nodes[p], taken[p])
        /\ UNCHANGED <<agenda, taken, handle, listed, again, walked, instant>>
    BY <1>1, WriteIs
  <1>3. /\ writes \in Nat /\ agenda \in Seq(Task) /\ DOMAIN taken \subseteq Path
        /\ \A p \in Path : nodes[p] \in NodeRec /\ nodes[p].ver \in Nat /\ nodes[p].ver <= writes
    BY <1>1 DEF WalkTypeOK, Kinded, NodeRec
  <1>4. WalkTypeOK'
    BY <1>1, <1>2, <1>3 DEF WalkTypeOK
  <1>5. \A p \in DOMAIN taken : taken[p] \in NodeRec /\ taken[p].ver \in Nat /\ taken[p].ver <= writes
    BY <1>1 DEF TakenOK, Kinded, NodeRec
  <1>6. TakenOK'
    <2> SUFFICES ASSUME NEW p \in DOMAIN taken
                 PROVE  /\ Kinded(p, taken[p])' /\ taken[p].ver <= writes'
                        /\ taken[p].kind # "absent" => Later(taken[p], nodes'[p])
      BY <1>2 DEF TakenOK
    <2>1. Kinded(p, taken[p])'
      BY <1>1, <1>2 DEF TakenOK, Kinded
    <2>2. taken[p].kind # "absent" => Later(taken[p], nodes[p])
      BY <1>1 DEF TakenOK
    <2>3. p \in Path
      BY <1>3
    <2>4. taken[p].kind # "absent" => Later(taken[p], nodes'[p])
      BY <1>2, <1>3, <1>5, <2>2, <2>3 DEF Later, Sees, Signature
    <2> QED BY <1>2, <1>3, <1>5, <2>1, <2>4
  <1>7. HandleOK'
    <2> SUFFICES ASSUME agenda # << >>, agenda[1][1] \in {"read", "accept"}
                 PROVE  HandleOK'
      BY <1>2 DEF HandleOK
    <2> DEFINE q == agenda[1][2]
               n == handle.node
    <2>1. q \in Path
      BY <1>3 DEF Task
    <2>2. /\ n \in NodeRec /\ n.kind = "file" /\ n.ver <= writes
          /\ handle = [path |-> handle.path, node |-> n, content |-> handle.content]
          /\ agenda[1][1] = "accept" /\ nodes[q] = n => handle.content = n.data
      BY <1>1 DEF HandleOK
    <2> HIDE DEF q, n
    <2>3. n.ver \in Nat
      BY <2>2 DEF NodeRec
    <2>4. n.ver <= writes'
      BY <1>2, <1>3, <2>1, <2>2, <2>3
    <2>5. nodes'[q] = n => nodes[q] = n
      BY <1>2, <1>3, <2>1, <2>2, <2>3 
    <2> QED BY <1>2, <2>2, <2>4, <2>5 DEF HandleOK, q, n
  <1>8. ListedOK'
    <2>1. ASSUME "hooks" \in DOMAIN taken, taken["hooks"].kind = "dir", Sees(taken["hooks"], nodes'["hooks"])
          PROVE  Sees(taken["hooks"], nodes["hooks"]) /\ Names(nodes') = Names(nodes)
      <3>1. nodes'["hooks"].ver # writes' /\ nodes'["hooks"].kind # "absent"
        BY <1>2, <1>3, <1>5, <2>1 DEF Sees, Signature
      <3>2. nodes'["hooks"] = nodes["hooks"]
        BY <1>2, <3>1 DEF Path
      <3> QED BY <1>2, <2>1, <3>1, <3>2
    <2> QED BY <1>1, <1>2, <2>1 DEF ListedOK
  <1>9. IF again' THEN SecondPass' ELSE FirstPass'
    <2>1. CASE again
      <3>1. ASSUME NEW p \in DOMAIN taken \ restored', taken[p].kind # "absent", AsTaken(p, nodes[p])'
            PROVE  AsTaken(p, nodes[p])
        <4>1. CASE p \in Plain
          BY <1>2, <3>1, <4>1 DEF AsTaken
        <4>2. CASE p \notin Plain
          <5>1. Sees(taken[p], nodes'[p])
            BY <1>2, <3>1, <4>2 DEF AsTaken
          <5>2. nodes'[p] = nodes[p]
            BY <1>2, <1>3, <1>5, <3>1, <5>1 DEF Sees, Signature
          <5> QED BY <4>2, <5>1, <5>2 DEF AsTaken
        <4> QED BY <4>1, <4>2
      <3>2. Whole'
        BY <1>1, <1>2, <2>1 DEF SecondPass, Whole, RootsTaken, LinkTaken, Kids
      <3>3. \A p \in DOMAIN taken : LookedAtBefore(p) => LookedAtBefore(p)'
        BY <1>2 DEF LookedAtBefore, ToDo, AsTaken
      <3>4. \A p \in DOMAIN taken : AsTaken(p, instant[p])' <=> AsTaken(p, instant[p])
        BY <1>2 DEF AsTaken
      <3>5. SecondPass
        BY <1>1, <2>1
      <3>6. \A p \in DOMAIN taken' \ restored' : taken'[p].kind # "absent" =>
              (AsTaken(p, nodes[p])' => AsTaken(p, instant[p])') /\ LookedAtBefore(p)'
        BY <1>2, <3>1, <3>3, <3>4, <3>5 DEF SecondPass
      <3>7. \A i \in 1..Len(agenda') : agenda'[i] \in {"again"} \X DOMAIN taken'
        BY <1>2, <3>5 DEF SecondPass
      <3> QED BY <1>2, <2>1, <3>2, <3>5, <3>6, <3>7 DEF SecondPass
    <2>2. CASE ~again
      <3>1. FirstPass
        BY <1>1, <2>2
      <3>2. (AtConfig => AtConfig') /\ (AtLink => AtLink') /\ (AtTarget => AtTarget')
        BY <1>2 DEF AtConfig, AtLink, AtTarget, LinkTaken
      <3>3. (RootsTaken => RootsTaken') /\ (LinkTaken => LinkTaken') /\ Kids' = Kids
        BY <1>2 DEF RootsTaken, LinkTaken, Kids
      <3>4. (InTarget => InTarget') /\ (AtHops => AtHops') /\ (AtHooks => AtHooks') /\ (AtList => AtList')
        BY <1>2, <3>3 DEF InTarget, AtHops, AtHooks, AtList
      <3>5. AtKids => AtKids'
        BY <1>2, <3>3 DEF AtKids
      <3>6. AtEnd => AtEnd'
        BY <1>2, <3>3 DEF AtEnd, Whole
      <3> QED BY <1>2, <2>2, <3>1, <3>2, <3>4, <3>5, <3>6 DEF FirstPass
    <2> QED BY <1>2, <2>1, <2>2
  <1> QED BY <1>4, <1>6, <1>7, <1>8, <1>9 DEF GoingInv

-----------------------------------------------------------------------------
\* A step of the walk writes nothing: what was recorded stays as it was found.
LEMMA WalkKeeps ==
  ASSUME WalkTypeOK, TakenOK, Env, UNCHANGED <<taken, listed, again>>, agenda' \in Seq(Task)
  PROVE  WalkTypeOK' /\ TakenOK'
  <1>1. WalkTypeOK'
    BY DEF WalkTypeOK, Env, Kinded
  <1>2. TakenOK'
    BY DEF TakenOK, Env, Kinded, Later, Sees, Signature
  <1> QED BY <1>1, <1>2

\* What is recorded is what is there, or was before it moved on.
LEMMA NotedKeeps ==
  ASSUME WalkTypeOK, TakenOK, Env, again' = again, listed' \in Listings, agenda' \in Seq(Task),
         NEW p \in Path, NEW x, taken' = Noted(p, x), Kinded(p, x), x.ver <= writes,
         x.kind # "absent" => Later(x, nodes[p])
  PROVE  /\ WalkTypeOK' /\ TakenOK'
         /\ DOMAIN taken' = DOMAIN taken \cup {p} /\ taken'[p] = x
         /\ \A q \in DOMAIN taken \ {p} : taken'[q] = taken[q]
  <1>1. /\ DOMAIN taken' = DOMAIN taken \cup {p} /\ taken'[p] = x
        /\ \A q \in DOMAIN taken \ {p} : taken'[q] = taken[q]
    BY DEF Noted
  <1>2. WalkTypeOK'
    BY <1>1 DEF WalkTypeOK, Env, Kinded
  <1>3. TakenOK'
    <2> SUFFICES ASSUME NEW q \in DOMAIN taken'
                 PROVE  /\ Kinded(q, taken'[q]) /\ taken'[q].ver <= writes
                        /\ taken'[q].kind # "absent" => Later(taken'[q], nodes[q])
      BY DEF TakenOK, Env, Kinded, Later, Sees, Signature
    <2>1. CASE q = p
      BY <1>1, <2>1
    <2>2. CASE q # p
      BY <1>1, <2>2 DEF TakenOK
    <2> QED BY <2>1, <2>2
  <1> QED BY <1>1, <1>2, <1>3

\* ... of what is there it is so.
LEMMA NotedNow ==
  ASSUME WalkTypeOK, NEW p \in Path
  PROVE  Kinded(p, nodes[p]) /\ nodes[p].ver <= writes /\ Later(nodes[p], nodes[p])
  BY DEF WalkTypeOK, Later, Sees

LEMMA HeadIs ==
  ASSUME WalkTypeOK, NEW op, NEW p, Todo(op, p)
  PROVE  /\ agenda \in Seq(Task) /\ agenda # << >> /\ Len(agenda) \in Nat \ {0}
         /\ agenda[1] = <<op, p>> /\ agenda[1][1] = op /\ agenda[1][2] = p
         /\ op \in {"visit", "open", "read", "accept", "resolve", "hops", "list", "close", "again"}
         /\ p \in Path
  <1>1. agenda \in Seq(Task) /\ agenda # << >> /\ Head(agenda) = <<op, p>>
    BY DEF Todo, WalkTypeOK
  <1>2. Len(agenda) \in Nat \ {0} /\ agenda[1] = <<op, p>> /\ agenda[1] \in Task
    BY <1>1
  <1> QED BY <1>1, <1>2 DEF Task

LEMMA KidsIs ==
  ASSUME listed \in Listings
  PROVE  Kids \subseteq {"a", "b"} /\ Kids = {listed[i] : i \in 1..Len(listed)}
  BY ListingIs DEF Kids

-----------------------------------------------------------------------------
(* Where the walk is when it does something.                                *)

\* In the first pass nothing but the children is looked at again.
LEMMA StageOfVisit ==
  ASSUME GoingInv, NEW p, Todo("visit", p)
  PROVE  /\ ~again
         /\ \/ AtConfig /\ p = "config"
            \/ AtLink /\ p = "link"
            \/ AtHooks /\ p = "hooks"
            \/ AtKids /\ p \in Kids /\ Len(agenda) > 1
  <1>1. Len(agenda) \in Nat \ {0} /\ agenda[1] = <<"visit", p>>
    BY HeadIs DEF GoingInv
  <1>2. ~again
    BY <1>1 DEF GoingInv, SecondPass
  <1>3. FirstPass
    BY <1>2 DEF GoingInv
  <1>4. ~AtTarget /\ ~InTarget /\ ~AtHops /\ ~AtList
    BY <1>1 DEF AtTarget, InTarget, AtHops, AtList, Reading
  <1>5. ~AtEnd
    BY <1>1 DEF AtEnd
  <1>6. AtConfig => p = "config"
    BY <1>1 DEF AtConfig
  <1>7. AtLink => p = "link"
    BY <1>1 DEF AtLink
  <1>8. AtHooks => p = "hooks"
    BY <1>1 DEF AtHooks
  <1>9. AtKids => p \in Kids /\ Len(agenda) > 1
    BY <1>1 DEF AtKids
  <1> QED BY <1>2, <1>3, <1>4, <1>5, <1>6, <1>7, <1>8, <1>9 DEF FirstPass

LEMMA StageOfReading ==
  ASSUME GoingInv, NEW op \in Reading, NEW p, Todo(op, p)
  PROVE  /\ ~again
         /\ \/ AtConfig /\ p = "config"
            \/ InTarget /\ p = taken["link"].data
            \/ AtKids /\ p \in Kids /\ Len(agenda) > 1
  <1>1. Len(agenda) \in Nat \ {0} /\ agenda[1] = <<op, p>> /\ op \in {"open", "read", "accept"}
    BY HeadIs DEF GoingInv, Reading
  <1>2. ~again
    BY <1>1 DEF GoingInv, SecondPass
  <1>3. FirstPass
    BY <1>2 DEF GoingInv
  <1>4. ~AtLink /\ ~AtTarget /\ ~AtHops /\ ~AtHooks /\ ~AtList
    BY <1>1 DEF AtLink, AtTarget, AtHops, AtHooks, AtList
  <1>5. ~AtEnd
    BY <1>1 DEF AtEnd
  <1>6. AtConfig => p = "config"
    BY <1>1 DEF AtConfig
  <1>7. InTarget => p = taken["link"].data
    BY <1>1 DEF InTarget
  <1>9. AtKids => p \in Kids /\ Len(agenda) > 1
    BY <1>1 DEF AtKids
  <1> QED BY <1>2, <1>3, <1>4, <1>5, <1>6, <1>7, <1>9 DEF FirstPass

LEMMA StageOfOne ==
  ASSUME GoingInv, NEW op \in {"resolve", "hops", "list", "close"}, NEW p, Todo(op, p)
  PROVE  /\ ~again
         /\ \/ op = "resolve" /\ AtTarget /\ p = taken["link"].data
            \/ op = "hops" /\ AtHops
            \/ op = "list" /\ AtList /\ p = "hooks"
            \/ op = "close" /\ AtKids /\ p = "hooks" /\ Len(agenda) = 1
  <1>1. Len(agenda) \in Nat \ {0} /\ agenda[1] = <<op, p>>
    BY HeadIs DEF GoingInv
  <1>2. ~again
    BY <1>1 DEF GoingInv, SecondPass
  <1>3. FirstPass
    BY <1>2 DEF GoingInv
  <1>4. ~AtConfig /\ ~AtLink /\ ~InTarget /\ ~AtHooks
    BY <1>1 DEF AtConfig, AtLink, InTarget, AtHooks, Reading
  <1>5. ~AtEnd
    BY <1>1 DEF AtEnd
  <1>6. AtTarget => op = "resolve" /\ p = taken["link"].data
    BY <1>1 DEF AtTarget
  <1>7. AtHops => op = "hops"
    BY <1>1 DEF AtHops
  <1>8. AtList => op = "list" /\ p = "hooks"
    BY <1>1 DEF AtList
  <1>9. AtKids => op = "close" /\ p = "hooks" /\ Len(agenda) = 1
    <2> SUFFICES ASSUME AtKids
                 PROVE  op = "close" /\ p = "hooks" /\ Len(agenda) = 1
      OBVIOUS
    <2>1. CASE Len(agenda) = 1
      BY <1>1, <2>1 DEF AtKids
    <2>2. CASE Len(agenda) > 1
      <3>1. 1 \in 1..(Len(agenda) - 1)
        BY <1>1, <2>2
      <3>2. agenda[1] \in ({"visit"} \cup Reading) \X Kids
        BY <3>1 DEF AtKids
      <3> QED BY <1>1, <3>2 DEF Reading
    <2>3. Len(agenda) = 1 \/ Len(agenda) > 1
      <3> PICK n : n = Len(agenda)
        OBVIOUS
      <3>1. n \in Nat \ {0}
        BY <1>1
      <3>2. n = 1 \/ n > 1
        BY <3>1
      <3> QED BY <3>2
    <2> QED BY <2>1, <2>2, <2>3
  <1> QED BY <1>2, <1>3, <1>4, <1>5, <1>6, <1>7, <1>8, <1>9 DEF FirstPass

LEMMA StageOfAgain ==
  ASSUME GoingInv, NEW p, Todo("again", p)
  PROVE  /\ p \in DOMAIN taken
         /\ (again /\ SecondPass) \/ (~again /\ AtEnd /\ p \in Kids)
  <1>1. Len(agenda) \in Nat \ {0} /\ agenda[1] = <<"again", p>>
    BY HeadIs DEF GoingInv
  <1>2. CASE again
    BY <1>1, <1>2 DEF GoingInv, SecondPass
  <1>3. CASE ~again
    <2>1. FirstPass
      BY <1>3 DEF GoingInv
    <2>2. /\ ~AtConfig /\ ~AtLink /\ ~AtTarget /\ ~InTarget /\ ~AtHops /\ ~AtHooks /\ ~AtList
      BY <1>1 DEF AtConfig, AtLink, AtTarget, InTarget, AtHops, AtHooks, AtList, Reading
    <2>3. ~AtKids
      BY <1>1 DEF AtKids, Reading
    <2>4. AtEnd => p \in Kids \cap DOMAIN taken
      BY <1>1 DEF AtEnd
    <2> QED BY <1>3, <2>1, <2>2, <2>3, <2>4 DEF FirstPass
  <1> QED BY <1>2, <1>3

-----------------------------------------------------------------------------
(* The first pass, step by step.                                            *)

LEMMA StagesKeep ==
  ASSUME UNCHANGED <<taken, listed>>
  PROVE  (RootsTaken => RootsTaken') /\ (LinkTaken <=> LinkTaken') /\ Kids' = Kids
  BY DEF RootsTaken, LinkTaken, Kids

\* A file that is being read keeps its place.
LEMMA ReadingStage ==
  ASSUME UNCHANGED <<taken, listed>>, Len(agenda) \in Nat \ {0}, Len(agenda') = Len(agenda),
         NEW op \in Reading, NEW p, agenda'[1] = <<op, p>>, agenda[1][2] = p,
         \A i \in 2..Len(agenda) : agenda'[i] = agenda[i],
         \/ AtConfig /\ p = "config"
         \/ InTarget /\ p = taken["link"].data
         \/ AtKids /\ p \in Kids /\ Len(agenda) > 1
  PROVE  FirstPass'
  <1>1. (RootsTaken => RootsTaken') /\ (LinkTaken <=> LinkTaken') /\ Kids' = Kids
    BY StagesKeep
  <1>2. CASE AtConfig /\ p = "config"
    <2>1. AtConfig'
      BY <1>2 DEF AtConfig
    <2> QED BY <2>1 DEF FirstPass
  <1>3. CASE InTarget /\ p = taken["link"].data
    <2>1. InTarget'
      BY <1>1, <1>3 DEF InTarget
    <2> QED BY <2>1 DEF FirstPass
  <1>4. CASE AtKids /\ p \in Kids /\ Len(agenda) > 1
    <2> DEFINE n == Len(agenda)
    <2>1. /\ RootsTaken' /\ taken'["hooks"].kind = "dir"
          /\ "hooks" \in DOMAIN taken' /\ DOMAIN taken' \cap {"a", "b"} \subseteq Kids'
      BY <1>1, <1>4 DEF AtKids
    <2>2. n \in Nat /\ n > 1 /\ Len(agenda') = n
      BY <1>4
    <2> HIDE DEF n
    <2>3. agenda'[n] = <<"close", "hooks">>
      BY <1>4, <2>2 DEF AtKids, n
    <2>4. ASSUME NEW i \in 1..(n - 1)
          PROVE  /\ agenda'[i] \in ({"visit"} \cup Reading) \X Kids
                 /\ i # 1 => agenda'[i][1] = "visit"
      <3>1. CASE i = 1
        <4>1. <<op, p>> \in ({"visit"} \cup Reading) \X Kids
          BY <1>4
        <4> QED BY <3>1, <4>1
      <3>2. CASE i # 1
        <4>1. agenda'[i] = agenda[i]
          BY <2>2, <3>2 DEF n
        <4> QED BY <1>4, <4>1, <3>2 DEF AtKids, n
      <3> QED BY <3>1, <3>2
    <2>5. ASSUME NEW c \in Kids, c \notin DOMAIN taken
          PROVE  \E i \in 1..(n - 1) : agenda'[i][2] = c
      <3>1. CASE c = p
        <4>1. 1 \in 1..(n - 1) /\ agenda'[1][2] = c
          BY <2>2, <3>1
        <4> QED BY <4>1
      <3>2. CASE c # p
        <4>1. PICK i \in 1..(n - 1) : agenda[i][2] = c
          BY <1>4, <2>5 DEF AtKids, n
        <4>2. CASE i = 1
          BY <3>2, <4>1, <4>2
        <4>3. CASE i # 1
          BY <2>2, <4>1, <4>3 DEF n
        <4> QED BY <4>2, <4>3
      <3> QED BY <3>1, <3>2
    <2>6. AtKids'
      BY <1>1, <2>1, <2>2, <2>3, <2>4, <2>5 DEF AtKids
    <2> QED BY <2>6 DEF FirstPass
  <1> QED BY <1>2, <1>3, <1>4

LEMMA OpenFileStep ==
  ASSUME GoingInv, NEW p, OpenFile(p), walked' = "going"
  PROVE  GoingInv'
  <1>1. WalkTypeOK /\ TakenOK /\ ListedOK
    BY DEF GoingInv
  <1>2. /\ Todo("open", p) /\ Env /\ nodes[p].kind = "file"
        /\ handle' = [path |-> p, node |-> nodes[p], content |-> ""]
        /\ Then(<< <<"read", p>> >>) /\ UNCHANGED <<taken, listed, again, walked, instant>>
    BY DEF OpenFile, CondemnWalk
  <1>3. /\ agenda \in Seq(Task) /\ agenda # << >> /\ Len(agenda) \in Nat \ {0}
        /\ agenda[1][1] = "open" /\ agenda[1][2] = p /\ p \in Path
    BY <1>1, <1>2, HeadIs
  <1>4. <<"read", p>> \in Task /\ "read" \in Reading /\ "open" \in Reading
    BY <1>3 DEF Task, Reading
  <1>5. /\ agenda' \in Seq(Task) /\ Len(agenda') = Len(agenda) /\ agenda'[1] = <<"read", p>>
        /\ \A i \in 2..Len(agenda) : agenda'[i] = agenda[i]
    BY <1>2, <1>3, <1>4, OneInstead
  <1>6. WalkTypeOK' /\ TakenOK'
    BY <1>1, <1>2, <1>5, WalkKeeps
  <1>7. HandleOK'
    <2>1. nodes[p] \in NodeRec /\ nodes[p].ver <= writes
      BY <1>1, <1>3 DEF WalkTypeOK, Kinded
    <2>2. /\ handle'.node = nodes[p] /\ nodes[p].kind = "file" /\ handle'.path = p
          /\ handle' = [path |-> p, node |-> nodes[p], content |-> handle'.content]
      BY <1>2
    <2>3. agenda'[1][1] = "read" /\ agenda'[1][2] = p
      BY <1>5
    <2>4. writes' = writes /\ nodes' = nodes
      BY <1>2 DEF Env
    <2> QED BY <2>1, <2>2, <2>3, <2>4 DEF HandleOK
  <1>8. ListedOK'
    BY <1>1, <1>2, <1>3 DEF ListedOK, Env
  <1>9. ~again' /\ FirstPass'
    <2>1. /\ ~again
          /\ \/ AtConfig /\ p = "config"
             \/ InTarget /\ p = taken["link"].data
             \/ AtKids /\ p \in Kids /\ Len(agenda) > 1
      BY <1>2, <1>4, StageOfReading
    <2> QED BY <1>2, <1>3, <1>4, <1>5, <2>1, ReadingStage
  <1> QED BY <1>6, <1>7, <1>8, <1>9 DEF GoingInv

LEMMA ReadFileStep ==
  ASSUME GoingInv, NEW p, ReadFile(p), walked' = "going"
  PROVE  GoingInv'
  <1>1. WalkTypeOK /\ TakenOK /\ HandleOK /\ ListedOK
    BY DEF GoingInv
  <1>2. /\ Todo("read", p) /\ Env
        /\ handle' = [handle EXCEPT !.content = IF nodes[p].ino = handle.node.ino
                                                THEN nodes[p].data ELSE handle.node.data]
        /\ Then(<< <<"accept", p>> >>) /\ UNCHANGED <<taken, listed, again, walked, instant>>
    BY DEF ReadFile
  <1>3. /\ agenda \in Seq(Task) /\ agenda # << >> /\ Len(agenda) \in Nat \ {0}
        /\ agenda[1][1] = "read" /\ agenda[1][2] = p /\ p \in Path
    BY <1>1, <1>2, HeadIs
  <1>4. <<"accept", p>> \in Task /\ "accept" \in Reading /\ "read" \in Reading
    BY <1>3 DEF Task, Reading
  <1>5. /\ agenda' \in Seq(Task) /\ Len(agenda') = Len(agenda) /\ agenda'[1] = <<"accept", p>>
        /\ \A i \in 2..Len(agenda) : agenda'[i] = agenda[i]
    BY <1>2, <1>3, <1>4, OneInstead
  <1>6. WalkTypeOK' /\ TakenOK'
    BY <1>1, <1>2, <1>5, WalkKeeps
  <1>7. HandleOK'
    <2> DEFINE n == handle.node
               c == IF nodes[p].ino = n.ino THEN nodes[p].data ELSE n.data
    <2>1. /\ n \in NodeRec /\ n.kind = "file" /\ n.ver <= writes
          /\ handle = [path |-> handle.path, node |-> n, content |-> handle.content]
      BY <1>1, <1>3 DEF HandleOK
    <2>2. handle' = [path |-> handle.path, node |-> n, content |-> c]
      BY <1>2, <2>1
    <2>3. handle'.node = n /\ handle'.content = c /\ handle'.path = handle.path
      BY <2>2
    <2>4. nodes[p] = n => c = n.data
      OBVIOUS
    <2> HIDE DEF n, c
    <2> QED BY <1>2, <1>5, <2>1, <2>2, <2>3, <2>4 DEF HandleOK, Env
  <1>8. ListedOK'
    BY <1>1, <1>2, <1>3 DEF ListedOK, Env
  <1>9. ~again' /\ FirstPass'
    <2>1. /\ ~again
          /\ \/ AtConfig /\ p = "config"
             \/ InTarget /\ p = taken["link"].data
             \/ AtKids /\ p \in Kids /\ Len(agenda) > 1
      BY <1>2, <1>4, StageOfReading
    <2> QED BY <1>2, <1>3, <1>4, <1>5, <2>1, ReadingStage
  <1> QED BY <1>6, <1>7, <1>8, <1>9 DEF GoingInv

\* A child that was read is recorded; the others are still to be visited.
LEMMA ChildDone ==
  ASSUME AtKids, NEW p \in Kids, Len(agenda) \in Nat, Len(agenda) > 1, agenda[1][2] = p,
         WalkTypeOK, UNCHANGED listed, Len(agenda') = Len(agenda) - 1,
         \A i \in 1..Len(agenda') : agenda'[i] = agenda[i + 1],
         DOMAIN taken' = DOMAIN taken \cup {p}, p # "hooks", p # "link",
         \A q \in DOMAIN taken \ {p} : taken'[q] = taken[q]
  PROVE  /\ AtKids' /\ agenda' # << >>
         /\ agenda'[1][1] \notin {"read", "accept"}
  <1> PICK n : n = Len(agenda')
    OBVIOUS
  <1>1. /\ n \in Nat \ {0} /\ Len(agenda) = n + 1
        /\ \A i \in 1..n : agenda'[i] = agenda[i + 1]
    OBVIOUS
  <1>2. Kids' = Kids /\ p \in {"a", "b"}
    <2>1. listed \in Listings
      BY DEF WalkTypeOK
    <2>2. Kids \subseteq {"a", "b"}
      BY <2>1, KidsIs
    <2>3. Kids' = Kids
      BY DEF Kids
    <2> QED BY <2>2, <2>3
  <1>3. RootsTaken /\ "link" \in DOMAIN taken /\ "hooks" \in DOMAIN taken
    BY DEF AtKids, RootsTaken
  <1>4. taken'["link"] = taken["link"] /\ taken'["hooks"] = taken["hooks"]
    BY <1>3
  <1>5. RootsTaken'
    BY <1>2, <1>3, <1>4 DEF RootsTaken, LinkTaken
  <1>6. agenda'[n] = <<"close", "hooks">>
    BY <1>1 DEF AtKids
  <1>7. ASSUME NEW i \in 1..(n - 1)
        PROVE  agenda'[i] \in ({"visit"} \cup Reading) \X Kids /\ agenda'[i][1] = "visit"
    <2>1. i + 1 \in 1..(Len(agenda) - 1) /\ i + 1 # 1 /\ agenda'[i] = agenda[i + 1]
      BY <1>1
    <2> QED BY <2>1 DEF AtKids
  <1>8. ASSUME NEW c \in Kids, c \notin DOMAIN taken'
        PROVE  \E i \in 1..(n - 1) : agenda'[i][2] = c
    <2>1. PICK i \in 1..(Len(agenda) - 1) : agenda[i][2] = c
      BY <1>8 DEF AtKids
    <2>2. i # 1
      BY <1>8, <2>1
    <2>3. i - 1 \in 1..(n - 1) /\ agenda'[i - 1] = agenda[i]
      BY <1>1, <2>1, <2>2
    <2> QED BY <2>1, <2>3
  <1>9. AtKids'
    BY <1>1, <1>2, <1>3, <1>4, <1>5, <1>6, <1>7, <1>8 DEF AtKids
  <1>10. agenda'[1][1] \notin {"read", "accept"}
    <2>1. CASE n = 1
      BY <1>6, <2>1
    <2>2. CASE n # 1
      <3>1. 1 \in 1..(n - 1)
        BY <1>1, <2>2
      <3> QED BY <1>7, <3>1
    <2> QED BY <2>1, <2>2
  <1>11. agenda' # << >>
    BY <1>1
  <1> QED BY <1>9, <1>10, <1>11

\* What is read of a file is what is there, or the file has moved on.
LEMMA AcceptFileStep ==
  ASSUME GoingInv, NEW p, AcceptFile(p), walked' = "going"
  PROVE  GoingInv'
  <1>1. WalkTypeOK /\ TakenOK /\ HandleOK /\ ListedOK
    BY DEF GoingInv
  <1>2. /\ Todo("accept", p) /\ Env /\ nodes[p] = handle.node
        /\ taken' = Noted(p, [(IF p \in Target THEN taken[p] ELSE handle.node) EXCEPT
                                !.data = handle.content])
        /\ Then(<< >>) /\ UNCHANGED <<listed, again, walked, instant>>
    BY DEF AcceptFile, CondemnWalk
  <1>3. /\ agenda \in Seq(Task) /\ agenda # << >> /\ Len(agenda) \in Nat \ {0}
        /\ agenda[1][1] = "accept" /\ agenda[1][2] = p /\ p \in Path
    BY <1>1, <1>2, HeadIs
  <1>4. "accept" \in Reading
    BY DEF Reading
  <1>5. /\ agenda' \in Seq(Task) /\ Len(agenda') = Len(agenda) - 1
        /\ \A i \in 1..Len(agenda') : agenda'[i] = agenda[i + 1]
    BY <1>2, <1>3, Popped
  <1>9. /\ ~again
        /\ \/ AtConfig /\ p = "config"
           \/ InTarget /\ p = taken["link"].data
           \/ AtKids /\ p \in Kids /\ Len(agenda) > 1
    BY <1>2, <1>4, StageOfReading
  <1>6. /\ nodes[p] \in NodeRec /\ nodes[p].kind = "file" /\ nodes[p].ver <= writes
        /\ Kinded(p, nodes[p]) /\ handle.content = nodes[p].data
    <2>1. nodes[p].kind = "file" /\ handle.content = nodes[p].data
      BY <1>1, <1>2, <1>3 DEF HandleOK
    <2> QED BY <1>1, <1>3, <2>1 DEF WalkTypeOK
  <1> DEFINE y == IF p \in Target THEN taken[p] ELSE nodes[p]
             x == [y EXCEPT !.data = nodes[p].data]
  <1>13. p \in Target => p \in DOMAIN taken
    <2>1. CASE AtConfig /\ p = "config"
      BY <2>1 DEF Target
    <2>2. CASE InTarget /\ p = taken["link"].data
      BY <2>2 DEF InTarget, RootsTaken
    <2>3. CASE AtKids /\ p \in Kids
      <3>1. p \in {"a", "b"}
        BY <1>1, <2>3, KidsIs DEF WalkTypeOK
      <3> QED BY <3>1 DEF Target
    <2> QED BY <1>9, <2>1, <2>2, <2>3
  <1>14. /\ Kinded(p, y) /\ y.ver <= writes
         /\ y.kind # "absent" => Later(y, nodes[p])
         /\ p \notin Target => y = nodes[p]
    BY <1>1, <1>3, <1>6, <1>13, NotedNow DEF TakenOK
  <1> HIDE DEF y
  <1>15. /\ x \in NodeRec /\ x.kind = y.kind /\ x.ino = y.ino /\ x.ver = y.ver /\ x.data = nodes[p].data
    BY <1>6, <1>14 DEF Kinded, NodeRec
  <1> HIDE DEF x
  <1>8. p # "hooks" /\ p # "link"
    BY <1>6 DEF Kinded
  <1>16. Kinded(p, x) /\ x.ver <= writes /\ (x.kind # "absent" => Later(x, nodes[p]))
    <2>1. Kinded(p, x)
      BY <1>8, <1>14, <1>15 DEF Kinded
    <2> QED BY <1>14, <1>15, <2>1 DEF Later, Sees, Signature
  <1>17. taken' = Noted(p, x)
    BY <1>2, <1>6 DEF x, y
  <1>18. listed' \in Listings
    BY <1>1, <1>2 DEF WalkTypeOK
  <1>7. /\ WalkTypeOK' /\ TakenOK'
        /\ DOMAIN taken' = DOMAIN taken \cup {p}
        /\ \A q \in DOMAIN taken \ {p} : taken'[q] = taken[q]
    BY <1>1, <1>2, <1>3, <1>5, <1>16, <1>17, <1>18, NotedKeeps
  <1>10. FirstPass' /\ (agenda' # << >> => agenda'[1][1] \notin {"read", "accept"})
    <2>1. CASE AtConfig /\ p = "config"
      <3>1. /\ Len(agenda') = 2 /\ DOMAIN taken' = {"config"}
            /\ agenda'[1] = <<"visit", "link">> /\ agenda'[2] = <<"visit", "hooks">>
        BY <1>5, <1>7, <2>1 DEF AtConfig
      <3> QED BY <3>1 DEF AtLink, FirstPass
    <2>2. CASE InTarget /\ p = taken["link"].data
      <3>1. /\ Len(agenda') = 2
            /\ agenda'[1] = <<"hops", "link">> /\ agenda'[2] = <<"visit", "hooks">>
        BY <1>5, <2>2 DEF InTarget
      <3>2. "link" \in DOMAIN taken /\ p \in DOMAIN taken
        BY <2>2 DEF InTarget, RootsTaken, Target
      <3>3. /\ DOMAIN taken' = DOMAIN taken /\ taken'["link"] = taken["link"]
            /\ RootsTaken' /\ LinkTaken' /\ DOMAIN taken' \cap {"hooks", "a", "b"} = {}
        BY <1>7, <1>8, <2>2, <3>2 DEF InTarget, RootsTaken, LinkTaken
      <3> QED BY <3>1, <3>3 DEF AtHops, FirstPass
    <2>3. CASE AtKids /\ p \in Kids /\ Len(agenda) > 1
      <3>1. AtKids' /\ agenda' # << >> /\ agenda'[1][1] \notin {"read", "accept"}
        BY <1>1, <1>2, <1>3, <1>5, <1>7, <1>8, <2>3, ChildDone
      <3> QED BY <3>1 DEF FirstPass
    <2> QED BY <1>9, <2>1, <2>2, <2>3
  <1>11. HandleOK'
    BY <1>10 DEF HandleOK
  <1>12. ListedOK'
    BY <1>1, <1>2, <1>3, <1>7, <1>8 DEF ListedOK, Env
  <1> QED BY <1>2, <1>7, <1>9, <1>10, <1>11, <1>12 DEF GoingInv

\* A root that is absent, or was recorded as what it leads to.
LEMMA RootsStep ==
  ASSUME GoingInv, NEW p \in {"config", "link", "hooks"}, Todo("visit", p), Env,
         ~AtKids, taken' = Noted(p, nodes[p]), UNCHANGED <<listed, again>>,
         agenda' \in Seq(Task),
         \/ nodes[p].kind = "absent" /\ Then(<< >>)
         \/ nodes[p].kind = "link" /\ Then(<< <<"resolve", nodes[p].data>> >>)
         \/ nodes[p].kind = "dir" /\ Then(<< <<"list", p>> >>)
  PROVE  GoingInv'
  <1>1. WalkTypeOK /\ TakenOK /\ ListedOK /\ p \in Path
    BY DEF GoingInv, Path, Plain
  <1>2. /\ agenda \in Seq(Task) /\ agenda # << >> /\ Len(agenda) \in Nat \ {0}
        /\ agenda[1][1] = "visit"
    BY <1>1, HeadIs
  <1>3. /\ WalkTypeOK' /\ TakenOK'
        /\ DOMAIN taken' = DOMAIN taken \cup {p} /\ taken'[p] = nodes[p]
        /\ \A q \in DOMAIN taken \ {p} : taken'[q] = taken[q]
    <2>1. listed' \in Listings
      BY <1>1 DEF WalkTypeOK
    <2> QED BY <1>1, <2>1, NotedKeeps, NotedNow
  <1>4. Kinded(p, nodes[p])
    BY <1>1 DEF WalkTypeOK
  <1>5. /\ ~again
        /\ \/ AtConfig /\ p = "config"
           \/ AtLink /\ p = "link"
           \/ AtHooks /\ p = "hooks"
    BY StageOfVisit
  <1>6. CASE nodes[p].kind = "absent" /\ Then(<< >>)
    <2>1. /\ Len(agenda') = Len(agenda) - 1
          /\ \A i \in 1..Len(agenda') : agenda'[i] = agenda[i + 1]
      BY <1>2, <1>6, Popped
    <2>2. CASE AtConfig /\ p = "config"
      <3>1. /\ Len(agenda') = 2 /\ DOMAIN taken' = {"config"}
            /\ agenda'[1] = <<"visit", "link">> /\ agenda'[2] = <<"visit", "hooks">>
        BY <1>3, <2>1, <2>2 DEF AtConfig
      <3>2. AtLink'
        BY <3>1 DEF AtLink
      <3>3. HandleOK' /\ ListedOK'
        BY <3>1 DEF HandleOK, ListedOK
      <3> QED BY <1>3, <1>5, <3>2, <3>3 DEF GoingInv, FirstPass
    <2>3. CASE AtLink /\ p = "link"
      <3>1. /\ Len(agenda') = 1 /\ DOMAIN taken' = {"config", "link"}
            /\ agenda'[1] = <<"visit", "hooks">> /\ taken'["link"].kind = "absent"
        BY <1>3, <1>6, <2>1, <2>3 DEF AtLink
      <3>2. RootsTaken'
        BY <3>1 DEF RootsTaken, LinkTaken
      <3>3. AtHooks'
        BY <3>1, <3>2 DEF AtHooks
      <3>4. HandleOK' /\ ListedOK'
        BY <3>1 DEF HandleOK, ListedOK
      <3> QED BY <1>3, <1>5, <3>3, <3>4 DEF GoingInv, FirstPass
    <2>4. CASE AtHooks /\ p = "hooks"
      <3>1. Len(agenda') = 0 /\ taken'["hooks"].kind = "absent" /\ "hooks" \in DOMAIN taken'
        BY <1>3, <1>6, <2>1, <2>4 DEF AtHooks
      <3>2. DOMAIN taken' \cap {"a", "b"} = {}
        BY <1>3, <2>4 DEF AtHooks
      <3>3. RootsTaken'
        BY <1>3, <2>4 DEF AtHooks, RootsTaken, LinkTaken
      <3>4. Whole' /\ AtEnd'
        BY <3>1, <3>2, <3>3 DEF Whole, AtEnd
      <3>5. agenda' = << >>
        BY <3>1
      <3>6. HandleOK' /\ ListedOK'
        BY <3>1, <3>5 DEF HandleOK, ListedOK
      <3> QED BY <1>3, <1>5, <3>4, <3>6 DEF GoingInv, FirstPass
    <2> QED BY <1>5, <2>2, <2>3, <2>4
  <1>7. CASE nodes[p].kind = "link" /\ Then(<< <<"resolve", nodes[p].data>> >>)
    <2>1. AtLink /\ p = "link" /\ nodes[p].data \in Target \cup {"link"}
      BY <1>4, <1>5, <1>7 DEF Kinded
    <2> DEFINE t == nodes[p].data
    <2>2. <<"resolve", t>> \in Task
      BY <2>1 DEF Task, Path
    <2> HIDE DEF t
    <2>3. /\ Len(agenda') = Len(agenda) /\ agenda'[1] = <<"resolve", t>>
          /\ \A i \in 2..Len(agenda) : agenda'[i] = agenda[i]
      BY <1>2, <1>7, <2>2, OneInstead DEF t
    <2>4. /\ Len(agenda') = 2 /\ DOMAIN taken' = {"config", "link"}
          /\ agenda'[2] = <<"visit", "hooks">> /\ taken'["link"].kind = "link"
          /\ taken'["link"].data = t
      BY <1>3, <1>7, <2>1, <2>3 DEF AtLink, t
    <2>5. AtTarget'
      BY <2>3, <2>4 DEF AtTarget, LinkTaken
    <2>6. HandleOK' /\ ListedOK'
      BY <2>3, <2>4 DEF HandleOK, ListedOK
    <2> QED BY <1>3, <1>5, <2>5, <2>6 DEF GoingInv, FirstPass
  <1>8. CASE nodes[p].kind = "dir" /\ Then(<< <<"list", p>> >>)
    <2>1. AtHooks /\ p = "hooks"
      BY <1>4, <1>5, <1>8 DEF Kinded
    <2>2. <<"list", "hooks">> \in Task
      BY DEF Task, Path
    <2>3. Len(agenda') = Len(agenda) /\ agenda'[1] = <<"list", "hooks">>
      BY <1>2, <1>8, <2>1, <2>2, OneInstead
    <2>4. /\ Len(agenda') = 1 /\ taken'["hooks"].kind = "dir"
          /\ DOMAIN taken' \cap {"hooks", "a", "b"} = {"hooks"}
      BY <1>3, <1>8, <2>1, <2>3 DEF AtHooks
    <2>5. RootsTaken'
      BY <1>3, <2>1 DEF AtHooks, RootsTaken, LinkTaken
    <2>6. AtList'
      BY <2>3, <2>4, <2>5 DEF AtList
    <2>7. agenda' # << >>
      BY <2>4
    <2>8. HandleOK' /\ ListedOK'
      BY <2>3, <2>7 DEF HandleOK, ListedOK
    <2> QED BY <1>3, <1>5, <2>6, <2>8 DEF GoingInv, FirstPass
  <1> QED BY <1>6, <1>7, <1>8

LEMMA VisitStep ==
  ASSUME GoingInv, NEW p, Visit(p), walked' = "going"
  PROVE  GoingInv'
  <1> DEFINE n == nodes[p]
  <1>1. WalkTypeOK /\ TakenOK /\ ListedOK
    BY DEF GoingInv
  <1>2. /\ Todo("visit", p) /\ Env /\ UNCHANGED <<handle, listed, again, walked, instant>>
        /\ \/ n.kind = "absent" /\ p \notin {"a", "b"} /\ taken' = Noted(p, n) /\ Then(<< >>)
           \/ n.kind = "file" /\ Then(<< <<"open", p>> >>) /\ UNCHANGED taken
           \/ n.kind = "link" /\ taken' = Noted(p, n) /\ Then(<< <<"resolve", n.data>> >>)
           \/ n.kind = "dir" /\ taken' = Noted(p, n) /\ Then(<< <<"list", p>> >>)
    BY DEF Visit, CondemnWalk
  <1>3. /\ agenda \in Seq(Task) /\ agenda # << >> /\ Len(agenda) \in Nat \ {0}
        /\ agenda[1][1] = "visit" /\ agenda[1][2] = p /\ p \in Path
    BY <1>1, <1>2, HeadIs
  <1>4. Kinded(p, n)
    BY <1>1, <1>3 DEF WalkTypeOK
  <1>5. /\ ~again
        /\ \/ AtConfig /\ p = "config"
           \/ AtLink /\ p = "link"
           \/ AtHooks /\ p = "hooks"
           \/ AtKids /\ p \in Kids /\ Len(agenda) > 1
    BY <1>2, StageOfVisit
  <1>6. Kids \subseteq {"a", "b"}
    BY <1>1, KidsIs DEF WalkTypeOK
  <1>7. CASE n.kind = "file" /\ Then(<< <<"open", p>> >>) /\ UNCHANGED taken
    <2>1. <<"open", p>> \in Task /\ "open" \in Reading
      BY <1>3 DEF Task, Reading
    <2>2. /\ agenda' \in Seq(Task) /\ Len(agenda') = Len(agenda) /\ agenda'[1] = <<"open", p>>
          /\ \A i \in 2..Len(agenda) : agenda'[i] = agenda[i]
      BY <1>3, <1>7, <2>1, OneInstead
    <2>3. WalkTypeOK' /\ TakenOK'
      BY <1>1, <1>2, <1>7, <2>2, WalkKeeps
    <2>4. p # "link" /\ p # "hooks"
      BY <1>4, <1>7 DEF Kinded
    <2>5. FirstPass'
      BY <1>2, <1>3, <1>5, <1>7, <2>1, <2>2, <2>4, ReadingStage
    <2>6. HandleOK' /\ ListedOK'
      BY <1>1, <1>2, <1>3, <1>7, <2>2 DEF HandleOK, ListedOK, Env
    <2> QED BY <1>2, <1>5, <2>3, <2>5, <2>6 DEF GoingInv
  <1>8. CASE ~(n.kind = "file" /\ Then(<< <<"open", p>> >>) /\ UNCHANGED taken)
    <2>1. /\ taken' = Noted(p, n)
          /\ \/ n.kind = "absent" /\ p \notin {"a", "b"} /\ Then(<< >>)
             \/ n.kind = "link" /\ Then(<< <<"resolve", n.data>> >>)
             \/ n.kind = "dir" /\ Then(<< <<"list", p>> >>)
      BY <1>2, <1>8
    <2>2. p \notin {"a", "b"}
      BY <1>4, <2>1 DEF Kinded
    <2>3. p \in {"config", "link", "hooks"} /\ ~AtKids
      <3>1. p \notin Kids
        BY <1>6, <2>2
      <3>2. AtKids => p \in Kids
        <4>1. agenda[1] \in ({"visit"} \cup Reading) \X Kids \/ agenda[1] = <<"close", "hooks">>
              \/ ~AtKids
          BY <1>3 DEF AtKids
        <4> QED BY <1>3, <4>1
      <3> QED BY <1>5, <3>1, <3>2
    <2>4. agenda' \in Seq(Task)
      <3>1. CASE n.kind = "absent" /\ Then(<< >>)
        BY <1>3, <3>1, Popped
      <3>2. CASE n.kind = "link" /\ Then(<< <<"resolve", n.data>> >>)
        <4>1. <<"resolve", n.data>> \in Task
          BY <1>4, <3>2 DEF Kinded, Task, Path
        <4> QED BY <1>3, <3>2, <4>1, OneInstead
      <3>3. CASE n.kind = "dir" /\ Then(<< <<"list", p>> >>)
        <4>1. <<"list", p>> \in Task
          BY <1>3 DEF Task
        <4> QED BY <1>3, <3>3, <4>1, OneInstead
      <3> QED BY <2>1, <3>1, <3>2, <3>3
    <2> QED BY <1>2, <2>1, <2>3, <2>4, RootsStep
  <1> QED BY <1>7, <1>8

LEMMA ResolveLinkStep ==
  ASSUME GoingInv, NEW t, ResolveLink(t), walked' = "going"
  PROVE  GoingInv'
  <1>1. WalkTypeOK /\ TakenOK /\ ListedOK
    BY DEF GoingInv
  <1>2. /\ Todo("resolve", t) /\ Env /\ taken' = Noted(t, nodes[t])
        /\ Then(<< <<"open", t>>, <<"hops", "link">> >>)
        /\ UNCHANGED <<handle, listed, again, walked, instant>>
    BY DEF ResolveLink, CondemnWalk
  <1>3. /\ agenda \in Seq(Task) /\ agenda # << >> /\ Len(agenda) \in Nat \ {0}
        /\ agenda[1][1] = "resolve" /\ t \in Path
    BY <1>1, <1>2, HeadIs
  <1>4. ~again /\ AtTarget /\ t = taken["link"].data
    BY <1>2, StageOfOne
  <1>5. t \in Target
    <2>1. nodes[t].kind = "file"
      BY <1>2 DEF ResolveLink, CondemnWalk
    <2>2. Kinded("link", taken["link"])
      BY <1>1, <1>4 DEF TakenOK, AtTarget
    <2>3. t \in Target \cup {"link"}
      BY <1>4, <2>2 DEF Kinded, AtTarget, LinkTaken
    <2>4. Kinded("link", nodes["link"])
      BY <1>1 DEF WalkTypeOK, Path
    <2> QED BY <2>1, <2>3, <2>4 DEF Kinded
  <1>6. <<"open", t>> \in Task /\ <<"hops", "link">> \in Task
    BY <1>3 DEF Task, Path
  <1>7. /\ agenda' \in Seq(Task) /\ Len(agenda') = Len(agenda) + 1
        /\ agenda'[1] = <<"open", t>> /\ agenda'[2] = <<"hops", "link">>
        /\ \A i \in 3..Len(agenda') : agenda'[i] = agenda[i - 1]
    BY <1>2, <1>3, <1>6, TwoInstead
  <1>8. /\ WalkTypeOK' /\ TakenOK'
        /\ DOMAIN taken' = DOMAIN taken \cup {t} /\ taken'[t] = nodes[t]
        /\ \A q \in DOMAIN taken \ {t} : taken'[q] = taken[q]
    <2>1. listed' \in Listings
      BY <1>1, <1>2 DEF WalkTypeOK
    <2> QED BY <1>1, <1>2, <1>3, <1>7, <2>1, NotedKeeps, NotedNow
  <1>9. /\ DOMAIN taken' = {"config", "link", t} /\ taken'["link"] = taken["link"]
        /\ taken'["link"].kind = "link" /\ Len(agenda') = 3 /\ agenda'[3] = <<"visit", "hooks">>
    <2>1. t # "link" /\ Len(agenda) = 2 /\ agenda[2] = <<"visit", "hooks">>
      BY <1>4, <1>5 DEF Target, AtTarget
    <2>2. Len(agenda') = 3 /\ agenda'[3] = agenda[2]
      BY <1>7, <2>1
    <2> QED BY <1>4, <1>8, <2>1, <2>2 DEF AtTarget, LinkTaken
  <1>10. RootsTaken' /\ LinkTaken' /\ DOMAIN taken' \cap {"hooks", "a", "b"} = {}
    BY <1>4, <1>5, <1>9 DEF RootsTaken, LinkTaken, Target
  <1>11. InTarget'
    <2>1. agenda'[1] \in Reading \X {taken'["link"].data}
      BY <1>4, <1>7, <1>9 DEF Reading
    <2> QED BY <1>7, <1>9, <1>10, <2>1 DEF InTarget
  <1>12. HandleOK' /\ ListedOK'
    BY <1>7, <1>10 DEF HandleOK, ListedOK
  <1> QED BY <1>2, <1>4, <1>8, <1>11, <1>12 DEF GoingInv, FirstPass

LEMMA HopsStep ==
  ASSUME GoingInv, Hops, walked' = "going"
  PROVE  GoingInv'
  <1>1. WalkTypeOK /\ TakenOK /\ ListedOK
    BY DEF GoingInv
  <1>2. /\ Todo("hops", "link") /\ Env /\ Then(<< >>)
        /\ UNCHANGED <<taken, handle, listed, again, walked, instant>>
    BY DEF Hops, CondemnWalk
  <1>3. agenda \in Seq(Task) /\ agenda # << >> /\ Len(agenda) \in Nat \ {0}
    BY <1>1, <1>2, HeadIs
  <1>4. ~again /\ AtHops
    BY <1>2, StageOfOne
  <1>5. /\ agenda' \in Seq(Task) /\ Len(agenda') = Len(agenda) - 1
        /\ \A i \in 1..Len(agenda') : agenda'[i] = agenda[i + 1]
    BY <1>2, <1>3, Popped
  <1>6. WalkTypeOK' /\ TakenOK'
    BY <1>1, <1>2, <1>5, WalkKeeps
  <1>7. Len(agenda') = 1 /\ agenda'[1] = <<"visit", "hooks">>
    BY <1>4, <1>5 DEF AtHops
  <1>8. RootsTaken' /\ DOMAIN taken' \cap {"hooks", "a", "b"} = {}
    BY <1>2, <1>4, StagesKeep DEF AtHops
  <1>9. AtHooks'
    BY <1>7, <1>8 DEF AtHooks
  <1>10. HandleOK' /\ ListedOK'
    BY <1>7, <1>8 DEF HandleOK, ListedOK
  <1> QED BY <1>2, <1>4, <1>6, <1>9, <1>10 DEF GoingInv, FirstPass

LEMMA ListStep ==
  ASSUME GoingInv, NEW d, List(d), walked' = "going"
  PROVE  GoingInv'
  <1>1. WalkTypeOK /\ TakenOK
    BY DEF GoingInv
  <1>2. /\ Todo("list", d) /\ Env /\ nodes[d].kind = "dir" /\ listed' = Names(nodes)
        /\ taken' = Noted(d, [nodes[d] EXCEPT !.data = taken[d].data])
        /\ Then(Visits(Names(nodes)) \o << <<"close", d>> >>)
        /\ UNCHANGED <<handle, again, walked, instant>>
    BY DEF List, CondemnWalk
  <1>3. agenda \in Seq(Task) /\ agenda # << >> /\ Len(agenda) \in Nat \ {0}
    BY <1>1, <1>2, HeadIs
  <1>4. ~again /\ AtList /\ d = "hooks"
    BY <1>2, StageOfOne
  <1> DEFINE s == Names(nodes)
  <1>5. s \in Listings
    BY NamesIs
  <1>6. Then(Visits(s) \o << <<"close", "hooks">> >>) /\ listed' = s
    BY <1>2, <1>4
  <1>7. Names(nodes') = s
    BY <1>2 DEF Env
  <1> HIDE DEF s
  <1>8. /\ agenda' \in Seq(Task) /\ Len(agenda') = Len(s) + Len(agenda)
        /\ \A i \in 1..Len(s) : agenda'[i] = <<"visit", s[i]>>
        /\ agenda'[Len(s) + 1] = <<"close", "hooks">>
    BY <1>3, <1>5, <1>6, ChildrenInstead
  <1> PICK n : n = Len(s)
    OBVIOUS
  <1>9. /\ n \in Nat /\ Len(agenda') = n + 1 /\ DOMAIN s = 1..n
        /\ \A i \in 1..n : agenda'[i] = <<"visit", s[i]>>
        /\ agenda'[n + 1] = <<"close", "hooks">>
    <2>1. n \in Nat /\ DOMAIN s = 1..n
      BY <1>5, ListingIs
    <2>2. Len(agenda) = 1
      BY <1>4 DEF AtList
    <2> QED BY <1>8, <2>1, <2>2
  <1> DEFINE x == [nodes["hooks"] EXCEPT !.data = taken["hooks"].data]
  <1>20. "hooks" \in DOMAIN taken /\ "hooks" \in Path /\ nodes["hooks"].kind = "dir"
    BY <1>2, <1>4 DEF AtList, Path
  <1>21. /\ Kinded("hooks", taken["hooks"]) /\ Kinded("hooks", nodes["hooks"])
         /\ nodes["hooks"].ver <= writes
    BY <1>1, <1>20 DEF WalkTypeOK, TakenOK
  <1>22. /\ x \in NodeRec /\ Signature(x) = Signature(nodes["hooks"]) /\ x.kind = "dir"
         /\ x.ver = nodes["hooks"].ver
    BY <1>20, <1>21 DEF Kinded, NodeRec, Signature
  <1> HIDE DEF x
  <1>23. Kinded("hooks", x) /\ x.ver <= writes /\ Sees(x, nodes["hooks"]) /\ Later(x, nodes["hooks"])
    BY <1>21, <1>22 DEF Kinded, Later, Sees
  <1>10. /\ WalkTypeOK' /\ TakenOK' /\ DOMAIN taken' = DOMAIN taken /\ taken'["hooks"] = x
         /\ \A q \in DOMAIN taken \ {"hooks"} : taken'[q] = taken[q]
    <2>1. taken' = Noted("hooks", x)
      BY <1>2, <1>4 DEF x
    <2>2. /\ WalkTypeOK' /\ TakenOK' /\ DOMAIN taken' = DOMAIN taken \cup {"hooks"} /\ taken'["hooks"] = x
          /\ \A q \in DOMAIN taken \ {"hooks"} : taken'[q] = taken[q]
      BY <1>1, <1>2, <1>5, <1>6, <1>8, <1>20, <1>23, <2>1, NotedKeeps
    <2> QED BY <1>20, <2>2
  <1>11. Kids' = {s[i] : i \in 1..n}
    BY <1>6, <1>9 DEF Kids
  <1>12. ASSUME NEW i \in 1..n
         PROVE  agenda'[i] \in ({"visit"} \cup Reading) \X Kids' /\ agenda'[i][1] = "visit"
    <2>1. s[i] \in Kids' /\ agenda'[i] = <<"visit", s[i]>>
      BY <1>9, <1>11
    <2> QED BY <2>1
  <1>13. ASSUME NEW c \in Kids'
         PROVE  \E i \in 1..n : agenda'[i][2] = c
    BY <1>9, <1>11
  <1>14. RootsTaken'
    BY <1>4, <1>10 DEF AtList, RootsTaken, LinkTaken
  <1>15. /\ taken'["hooks"].kind = "dir" /\ "hooks" \in DOMAIN taken'
         /\ DOMAIN taken' \cap {"a", "b"} \subseteq Kids'
    BY <1>4, <1>10, <1>22 DEF AtList
  <1>16. AtKids'
    <2>1. Len(agenda') - 1 = n /\ Len(agenda') >= 1 /\ agenda'[Len(agenda')] = <<"close", "hooks">>
      BY <1>9
    <2> QED BY <1>12, <1>13, <1>14, <1>15, <2>1 DEF AtKids
  <1>17. agenda' # << >> => agenda'[1][1] \notin {"read", "accept", "list"}
    <2>1. CASE n = 0
      BY <1>9, <2>1
    <2>2. CASE n # 0
      <3>1. 1 \in 1..n
        BY <1>9, <2>2
      <3>2. agenda'[1][1] = "visit"
        BY <1>12, <3>1
      <3> QED BY <3>2
    <2> QED BY <2>1, <2>2
  <1>18. HandleOK'
    BY <1>17 DEF HandleOK
  <1>19. ListedOK'
    BY <1>6, <1>7 DEF ListedOK
  <1> QED BY <1>2, <1>4, <1>10, <1>16, <1>18, <1>19 DEF GoingInv, FirstPass

LEMMA CloseStep ==
  ASSUME GoingInv, NEW d, Close(d), walked' = "going"
  PROVE  GoingInv'
  <1>1. WalkTypeOK /\ TakenOK /\ ListedOK
    BY DEF GoingInv
  <1>2. /\ Todo("close", d) /\ Env /\ Then(Agains(listed))
        /\ UNCHANGED <<taken, handle, listed, again, walked, instant>>
    BY DEF Close, CondemnWalk
  <1>3. /\ agenda \in Seq(Task) /\ agenda # << >> /\ Len(agenda) \in Nat \ {0}
        /\ agenda[1][1] = "close"
    BY <1>1, <1>2, HeadIs
  <1>4. ~again /\ AtKids /\ d = "hooks" /\ Len(agenda) = 1
    BY <1>2, StageOfOne
  <1>5. listed \in Listings
    BY <1>1 DEF WalkTypeOK
  <1> PICK n : n = Len(listed)
    OBVIOUS
  <1>6. n \in Nat /\ DOMAIN listed = 1..n
    BY <1>5, ListingIs
  <1>7. /\ agenda' \in Seq(Task) /\ Len(agenda') = n
        /\ \A i \in 1..n : agenda'[i] = <<"again", listed[i]>>
    <2>1. /\ agenda' \in Seq(Task) /\ Len(agenda') = Len(listed) + Len(agenda) - 1
          /\ \A i \in 1..Len(listed) : agenda'[i] = <<"again", listed[i]>>
      BY <1>2, <1>3, <1>5, AgainsInstead
    <2> QED BY <1>4, <1>6, <2>1
  <1>8. WalkTypeOK' /\ TakenOK'
    BY <1>1, <1>2, <1>7, WalkKeeps
  <1>9. Kids \subseteq {"a", "b"} /\ Kids = {listed[i] : i \in 1..n}
    BY <1>5, KidsIs
  <1>10. Kids \subseteq DOMAIN taken
    BY <1>4 DEF AtKids
  <1>11. /\ RootsTaken /\ "hooks" \in DOMAIN taken /\ taken["hooks"].kind = "dir"
         /\ DOMAIN taken \cap {"a", "b"} = Kids
    BY <1>4, <1>9, <1>10 DEF AtKids
  <1>12. Whole'
    BY <1>2, <1>11 DEF Whole, RootsTaken, LinkTaken, Kids
  <1>13. ASSUME NEW i \in 1..n
         PROVE  agenda'[i] \in {"again"} \X (Kids' \cap DOMAIN taken') /\ agenda'[i][1] = "again"
    <2>1. listed[i] \in Kids' \cap DOMAIN taken' /\ agenda'[i] = <<"again", listed[i]>>
      BY <1>2, <1>7, <1>9, <1>10 DEF Kids
    <2> QED BY <2>1
  <1>14. AtEnd'
    BY <1>7, <1>12, <1>13 DEF AtEnd
  <1>15. agenda' # << >> => agenda'[1][1] = "again"
    <2>1. CASE n = 0
      BY <1>7, <2>1
    <2>2. CASE n # 0
      <3>1. 1 \in 1..n
        BY <1>6, <2>2
      <3> QED BY <1>13, <3>1
    <2> QED BY <2>1, <2>2
  <1>16. HandleOK'
    BY <1>15 DEF HandleOK
  <1>17. ListedOK'
    BY <1>1, <1>2, <1>3 DEF ListedOK, Env
  <1> QED BY <1>2, <1>4, <1>8, <1>14, <1>16, <1>17 DEF GoingInv, FirstPass

-----------------------------------------------------------------------------
(* The second pass.                                                         *)

\* What was recorded is there again with its inode and version: it has not moved on.
LEMMA SameIsThere ==
  ASSUME WalkTypeOK, TakenOK, NEW p \in DOMAIN taken, taken[p].kind # "absent",
         Signature(nodes[p]) = Signature(taken[p])
  PROVE  Sees(taken[p], nodes[p])
  <1>1. Later(taken[p], nodes[p]) /\ taken[p].ver \in Nat
    BY DEF TakenOK, Kinded, NodeRec
  <1>2. ~(nodes[p].ver > taken[p].ver) /\ nodes[p].kind # "absent"
    BY <1>1 DEF Signature
  <1> QED BY <1>1, <1>2 DEF Later

\* What the step puts in the place of the task, by the kind of what was recorded.
LEMMA AgainIs ==
  ASSUME GoingInv, NEW p, VisitAgain(p), walked' = "going"
  PROVE  /\ Todo("again", p) /\ Env /\ p \in DOMAIN taken
         /\ UNCHANGED <<taken, handle, listed, again, walked, instant>>
         /\ taken[p].kind # "absent" /\ p \notin Target => AsTaken(p, nodes[p])
         /\ \/ taken[p].kind \in {"absent", "file"} /\ Then(<< >>)
            \/ /\ taken[p].kind = "link" /\ p = "link" /\ HopsHold
               /\ taken[p].data \in Target \cup {"link"} /\ Then(<< <<"again", taken[p].data>> >>)
            \/ taken[p].kind = "dir" /\ p = "hooks" /\ Then(Agains(listed))
  <1> DEFINE n == taken[p]
  <1>1. WalkTypeOK /\ TakenOK
    BY DEF GoingInv
  <1>2. /\ Todo("again", p) /\ Env
        /\ UNCHANGED <<taken, handle, listed, again, walked, instant>>
        /\ CASE n.kind = "absent" -> nodes[p].kind = "absent"
             [] n.kind = "file" -> Unaltered(nodes[p], n)
             [] n.kind = "link" -> HopsHold
             [] n.kind = "dir" -> Signature(nodes[p]) = Signature(n) /\ Names(nodes) = listed
        /\ Then(CASE n.kind = "link" -> << <<"again", n.data>> >>
                  [] n.kind = "dir" -> Agains(listed)
                  [] OTHER -> << >>)
    BY Zenon DEF VisitAgain, CondemnWalk
  <1>3. p \in DOMAIN taken /\ p \in Path
    <2>1. p \in DOMAIN taken
      BY <1>2, StageOfAgain
    <2> QED BY <1>1, <2>1 DEF WalkTypeOK
  <1>4. Kinded(p, n)
    BY <1>1, <1>3 DEF TakenOK
  <1>5. CASE n.kind = "absent"
    <2>1. Then(<< >>)
      BY <1>2, <1>5
    <2> QED BY <1>2, <1>3, <1>5, <2>1
  <1>6. CASE n.kind = "file"
    <2>1. Then(<< >>) /\ Unaltered(nodes[p], n)
      BY <1>2, <1>6
    <2>2. p \in Plain \/ p \in Target
      BY <1>3, <1>4, <1>6 DEF Kinded, Path
    <2>3. p \notin Target => AsTaken(p, nodes[p])
      BY <2>1, <2>2 DEF AsTaken
    <2> QED BY <1>2, <1>3, <1>6, <2>1, <2>3
  <1>7. CASE n.kind = "link"
    <2>1. Then(<< <<"again", n.data>> >>) /\ HopsHold
      BY <1>2, <1>7
    <2>2. p = "link" /\ n.data \in Target \cup {"link"}
      BY <1>4, <1>7 DEF Kinded
    <2>3. AsTaken(p, nodes[p])
      BY <2>1, <2>2 DEF HopsHold, AsTaken, Plain, Sees
    <2> QED BY <1>2, <1>3, <1>7, <2>1, <2>2, <2>3
  <1>8. CASE n.kind = "dir"
    <2>1. Then(Agains(listed)) /\ Signature(nodes[p]) = Signature(n)
      BY <1>2, <1>8
    <2>2. p = "hooks"
      BY <1>4, <1>8 DEF Kinded
    <2>3. AsTaken(p, nodes[p])
      BY <1>8, <2>1, <2>2 DEF AsTaken, Plain, Sees
    <2> QED BY <1>2, <1>3, <1>8, <2>1, <2>2, <2>3
  <1>9. n.kind \in {"absent", "file", "link", "dir"}
    BY <1>4 DEF Kinded, NodeRec
  <1> QED BY <1>5, <1>6, <1>7, <1>8, <1>9

LEMMA AgainInFirst ==
  ASSUME GoingInv, NEW p, VisitAgain(p), walked' = "going", ~again
  PROVE  GoingInv'
  <1>1. WalkTypeOK /\ TakenOK /\ ListedOK
    BY DEF GoingInv
  <1>2. /\ Todo("again", p) /\ Env /\ p \in DOMAIN taken
        /\ UNCHANGED <<taken, handle, listed, again, walked, instant>>
    BY AgainIs
  <1>3. AtEnd /\ p \in Kids
    BY <1>2, StageOfAgain
  <1>4. Kids \subseteq {"a", "b"}
    BY <1>1, KidsIs DEF WalkTypeOK
  <1>5. Then(<< >>)
    BY <1>3, <1>4, AgainIs
  <1>6. /\ agenda \in Seq(Task) /\ agenda # << >> /\ Len(agenda) \in Nat \ {0}
        /\ agenda[1][1] = "again"
    BY <1>1, <1>2, HeadIs
  <1>7. /\ agenda' \in Seq(Task) /\ Len(agenda') = Len(agenda) - 1
        /\ \A i \in 1..Len(agenda') : agenda'[i] = agenda[i + 1]
    BY <1>5, <1>6, Popped
  <1>8. WalkTypeOK' /\ TakenOK'
    BY <1>1, <1>2, <1>7, WalkKeeps
  <1>9. Whole'
    BY <1>2, <1>3 DEF AtEnd, Whole, RootsTaken, LinkTaken, Kids
  <1>10. ASSUME NEW i \in 1..Len(agenda')
         PROVE  agenda'[i] \in {"again"} \X (Kids' \cap DOMAIN taken') /\ agenda'[i][1] = "again"
    <2>1. i + 1 \in 1..Len(agenda) /\ agenda'[i] = agenda[i + 1]
      BY <1>6, <1>7
    <2>2. agenda'[i] \in {"again"} \X (Kids \cap DOMAIN taken)
      BY <1>3, <2>1 DEF AtEnd
    <2> QED BY <1>2, <2>2 DEF Kids
  <1>11. AtEnd'
    BY <1>9, <1>10 DEF AtEnd
  <1>12. HandleOK'
    <2> SUFFICES ASSUME agenda' # << >>
                 PROVE  agenda'[1][1] = "again"
      BY DEF HandleOK
    <2>1. 1 \in 1..Len(agenda')
      BY <1>7
    <2> QED BY <1>10, <2>1
  <1>13. ListedOK'
    BY <1>1, <1>2, <1>6 DEF ListedOK, Env
  <1> QED BY <1>2, <1>8, <1>11, <1>12, <1>13 DEF GoingInv, FirstPass

\* Of the recorded paths those stay looked at, or to be looked at, that were so.
LEMMA StillLookedAt ==
  ASSUME SecondPass, WalkTypeOK, TakenOK, Env, NEW p \in DOMAIN taken,
         UNCHANGED <<taken, handle, listed, again, walked, instant>>,
         agenda[1] = <<"again", p>>, Len(agenda) \in Nat,
         taken[p].kind # "absent" /\ p \notin Target => AsTaken(p, nodes[p]),
         taken[p].kind = "link" => HopsHold,
         taken[p].kind = "dir" => \A c \in Kids : ToDo(c)',
         p = "link" => taken[p].kind \in {"link", "absent"},
         p = "hooks" => taken[p].kind \in {"dir", "absent"},
         \A i \in 2..Len(agenda) : \E j \in 1..Len(agenda') : agenda'[j] = agenda[i],
         NEW q \in DOMAIN taken \ restored, taken[q].kind # "absent"
  PROVE  LookedAtBefore(q)'
  <1>1. /\ LookedAtBefore(q)
        /\ AsTaken(q, nodes[q]) => AsTaken(q, instant[q])
        /\ Whole
    BY DEF SecondPass
  <1>7. AsTaken(q, instant[q]) => LookedAtBefore(q)'
    BY DEF LookedAtBefore, AsTaken
  <1>2. \A r : ToDo(r) => ToDo(r)' \/ r = p
    <2> SUFFICES ASSUME NEW r, ToDo(r)
                 PROVE  ToDo(r)' \/ r = p
      OBVIOUS
    <2>1. PICK i \in 1..Len(agenda) : agenda[i] = <<"again", r>>
      BY DEF ToDo
    <2>2. CASE i = 1
      BY <2>1, <2>2
    <2>3. CASE i # 1
      <3>1. i \in 2..Len(agenda)
        BY <2>1, <2>3
      <3> QED BY <2>1, <3>1 DEF ToDo
    <2> QED BY <2>2, <2>3
  <1>3. CASE AsTaken(q, instant[q])
    BY <1>3, <1>7
  <1>4. CASE q \notin Target /\ ToDo(q)
    <2>1. CASE q = p
      BY <1>1, <1>4, <1>7, <2>1
    <2> QED BY <1>2, <1>4, <2>1 DEF LookedAtBefore
  <1>5. CASE q \in Target /\ ToDo("link")
    <2>1. CASE p = "link"
      <3>1. taken["link"].kind = "link" /\ q = taken["link"].data
        BY <1>1, <1>5, <2>1 DEF Whole, RootsTaken, LinkTaken, Target
      <3>2. Sees(taken[q], nodes[q])
        BY <2>1, <3>1, SameIsThere DEF HopsHold
      <3>3. AsTaken(q, nodes[q])
        BY <1>5, <3>2 DEF AsTaken, Target, Plain
      <3> QED BY <1>1, <1>7, <3>3
    <2> QED BY <1>2, <1>5, <2>1 DEF LookedAtBefore
  <1>6. CASE q \in {"a", "b"} /\ ToDo("hooks")
    <2>1. CASE p = "hooks"
      <3>1. taken["hooks"].kind = "dir" /\ q \in Kids
        BY <1>1, <1>6, <2>1 DEF Whole
      <3>2. q \notin Target /\ ToDo(q)'
        BY <1>6, <2>1, <3>1 DEF Target
      <3> QED BY <3>2 DEF LookedAtBefore
    <2> QED BY <1>2, <1>6, <2>1 DEF LookedAtBefore
  <1> QED BY <1>1, <1>3, <1>4, <1>5, <1>6 DEF LookedAtBefore

LEMMA AgainInSecond ==
  ASSUME GoingInv, NEW p, VisitAgain(p), walked' = "going", again
  PROVE  GoingInv'
  <1>1. WalkTypeOK /\ TakenOK /\ ListedOK /\ SecondPass /\ Whole
    BY DEF GoingInv, SecondPass
  <1>2. /\ Todo("again", p) /\ Env /\ p \in DOMAIN taken
        /\ UNCHANGED <<taken, handle, listed, again, walked, instant>>
        /\ taken[p].kind # "absent" /\ p \notin Target => AsTaken(p, nodes[p])
        /\ \/ taken[p].kind \in {"absent", "file"} /\ Then(<< >>)
           \/ /\ taken[p].kind = "link" /\ p = "link" /\ HopsHold
              /\ taken[p].data \in Target \cup {"link"} /\ Then(<< <<"again", taken[p].data>> >>)
           \/ taken[p].kind = "dir" /\ p = "hooks" /\ Then(Agains(listed))
    BY AgainIs
  <1>3. /\ agenda \in Seq(Task) /\ agenda # << >> /\ Len(agenda) \in Nat \ {0}
        /\ agenda[1] = <<"again", p>>
    BY <1>1, <1>2, HeadIs
  <1>4. \A i \in 1..Len(agenda) : agenda[i] \in {"again"} \X DOMAIN taken
    BY <1>1 DEF SecondPass
  <1>5. /\ agenda' \in Seq(Task)
        /\ \A i \in 1..Len(agenda') : agenda'[i] \in {"again"} \X DOMAIN taken
        /\ \A i \in 2..Len(agenda) : \E j \in 1..Len(agenda') : agenda'[j] = agenda[i]
        /\ taken[p].kind = "dir" => \A c \in Kids : ToDo(c)'
    <2>1. CASE taken[p].kind \in {"absent", "file"} /\ Then(<< >>)
      <3>1. /\ agenda' \in Seq(Task) /\ Len(agenda') = Len(agenda) - 1
            /\ \A i \in 1..Len(agenda') : agenda'[i] = agenda[i + 1]
        BY <1>3, <2>1, Popped
      <3>2. \A i \in 2..Len(agenda) : i - 1 \in 1..Len(agenda') /\ agenda'[i - 1] = agenda[i]
        BY <1>3, <3>1
      <3>3. \A i \in 1..Len(agenda') : i + 1 \in 1..Len(agenda)
        BY <1>3, <3>1
      <3> QED BY <1>4, <2>1, <3>1, <3>2, <3>3
    <2>2. CASE /\ taken[p].kind = "link" /\ p = "link"
               /\ taken[p].data \in Target \cup {"link"} /\ Then(<< <<"again", taken[p].data>> >>)
      <3> DEFINE t == taken[p].data
      <3>1. t \in DOMAIN taken /\ t \in Path
        BY <1>1, <2>2 DEF Whole, RootsTaken, LinkTaken, Path
      <3>2. <<"again", t>> \in Task
        BY <3>1 DEF Task
      <3> HIDE DEF t
      <3>3. /\ agenda' \in Seq(Task) /\ Len(agenda') = Len(agenda) /\ agenda'[1] = <<"again", t>>
            /\ \A i \in 2..Len(agenda) : agenda'[i] = agenda[i]
        BY <1>3, <2>2, <3>2, OneInstead DEF t
      <3>4. ASSUME NEW i \in 1..Len(agenda')
            PROVE  agenda'[i] \in {"again"} \X DOMAIN taken
        <4>1. CASE i = 1
          <5>1. <<"again", t>> \in {"again"} \X DOMAIN taken
            BY <3>1
          <5> QED BY <3>3, <4>1, <5>1
        <4>2. CASE i # 1
          BY <1>3, <1>4, <3>3, <4>2
        <4> QED BY <4>1, <4>2
      <3>5. \A i \in 2..Len(agenda) : i \in 1..Len(agenda')
        BY <1>3, <3>3
      <3> QED BY <2>2, <3>3, <3>4, <3>5
    <2>3. CASE taken[p].kind = "dir" /\ p = "hooks" /\ Then(Agains(listed))
      <3>1. listed \in Listings
        BY <1>1 DEF WalkTypeOK
      <3> PICK n : n = Len(listed)
        OBVIOUS
      <3> PICK m : m = Len(agenda)
        OBVIOUS
      <3>2. n \in Nat /\ DOMAIN listed = 1..n /\ Kids = {listed[i] : i \in 1..n}
        BY <3>1, ListingIs, KidsIs
      <3>3. /\ agenda' \in Seq(Task) /\ Len(agenda') = n + m - 1
            /\ \A i \in 1..n : agenda'[i] = <<"again", listed[i]>>
            /\ \A i \in (n + 1)..Len(agenda') : agenda'[i] = agenda[i - n + 1]
        BY <1>3, <2>3, <3>1, AgainsInstead
      <3>4. m \in Nat \ {0}
        BY <1>3
      <3>5. Kids \subseteq DOMAIN taken
        BY <1>1, <2>3 DEF Whole
      <3>6. ASSUME NEW i \in 1..Len(agenda')
            PROVE  agenda'[i] \in {"again"} \X DOMAIN taken
        <4>1. CASE i <= n
          <5>1. listed[i] \in DOMAIN taken /\ agenda'[i] = <<"again", listed[i]>>
            BY <3>2, <3>3, <3>5, <4>1
          <5> QED BY <5>1
        <4>2. CASE i > n
          <5>1. i \in (n + 1)..Len(agenda') /\ i - n + 1 \in 1..m
            BY <3>2, <3>3, <3>4, <4>2
          <5> QED BY <1>4, <3>3, <5>1
        <4> QED BY <3>2, <4>1, <4>2
      <3>7. ASSUME NEW i \in 2..m
            PROVE  \E j \in 1..Len(agenda') : agenda'[j] = agenda[i]
        <4>1. i + n - 1 \in (n + 1)..Len(agenda') /\ (i + n - 1) - n + 1 = i
          BY <3>2, <3>3, <3>4
        <4>2. agenda'[i + n - 1] = agenda[i] /\ i + n - 1 \in 1..Len(agenda')
          BY <3>2, <3>3, <4>1
        <4> QED BY <4>2
      <3>8. ASSUME NEW c \in Kids
            PROVE  ToDo(c)'
        <4>1. PICK i \in 1..n : c = listed[i]
          BY <3>2
        <4>2. i \in 1..Len(agenda') /\ agenda'[i] = <<"again", c>>
          BY <3>2, <3>3, <3>4, <4>1
        <4> QED BY <4>2 DEF ToDo
      <3> QED BY <3>3, <3>6, <3>7, <3>8
    <2> QED BY <1>2, <2>1, <2>2, <2>3
  <1>6. WalkTypeOK' /\ TakenOK'
    BY <1>1, <1>2, <1>5, WalkKeeps
  <1>7. Whole'
    BY <1>1, <1>2 DEF Whole, RootsTaken, LinkTaken, Kids
  <1>8. /\ p = "link" => taken[p].kind \in {"link", "absent"}
        /\ p = "hooks" => taken[p].kind \in {"dir", "absent"}
        /\ taken[p].kind = "link" => HopsHold
    BY <1>1, <1>2 DEF TakenOK, Kinded
  <1>9. \A q \in DOMAIN taken \ restored : taken[q].kind # "absent" => LookedAtBefore(q)'
    BY <1>1, <1>2, <1>3, <1>5, <1>8, StillLookedAt
  <1>10. SecondPass'
    <2>1. /\ \A q \in DOMAIN taken \ restored : taken[q].kind # "absent" /\ AsTaken(q, nodes[q])
               => AsTaken(q, instant[q])
          /\ taken["hooks"].kind = "dir" /\ Sees(taken["hooks"], instant["hooks"]) => Names(instant) = listed
      BY <1>1 DEF SecondPass
    <2>2. \A q : (AsTaken(q, nodes[q])' <=> AsTaken(q, nodes[q])) /\ (AsTaken(q, instant[q])' <=> AsTaken(q, instant[q]))
      BY <1>2 DEF AsTaken, Env
    <2>3. restored' = restored /\ DOMAIN taken' = DOMAIN taken
      BY <1>2 DEF Env
    <2> QED BY <1>2, <1>5, <1>7, <1>9, <2>1, <2>2, <2>3 DEF SecondPass
  <1>11. HandleOK'
    <2> SUFFICES ASSUME agenda' # << >>
                 PROVE  agenda'[1][1] = "again"
      BY DEF HandleOK
    <2>1. 1 \in 1..Len(agenda')
      BY <1>5
    <2> QED BY <1>5, <2>1
  <1>12. ListedOK'
    <2>1. agenda[1][1] = "again"
      BY <1>3
    <2> QED BY <1>1, <1>2, <1>3, <2>1 DEF ListedOK, Env
  <1> QED BY <1>2, <1>6, <1>10, <1>11, <1>12 DEF GoingInv

\* When nothing is left to do in the first pass, everything is recorded.
LEMMA WitnessesStep ==
  ASSUME GoingInv, Witnesses
  PROVE  GoingInv'
  <1>1. WalkTypeOK /\ TakenOK /\ ListedOK /\ FirstPass
    BY DEF GoingInv, Witnesses
  <1>2. /\ agenda = << >> /\ Env /\ again' = TRUE /\ instant' = nodes /\ agenda' = Agains(Roots)
        /\ UNCHANGED <<taken, handle, listed, walked>>
    BY DEF Witnesses
  <1>3. Whole
    <2>1. Len(agenda) = 0
      BY <1>2
    <2>2. ~AtConfig /\ ~AtLink /\ ~AtTarget /\ ~InTarget /\ ~AtHops /\ ~AtHooks /\ ~AtList /\ ~AtKids
      BY <2>1 DEF AtConfig, AtLink, AtTarget, InTarget, AtHops, AtHooks, AtList, AtKids
    <2> QED BY <1>1, <2>2 DEF FirstPass, AtEnd
  <1>4. /\ agenda' \in Seq(Task) /\ Len(agenda') = 3
        /\ agenda'[1] = <<"again", "config">> /\ agenda'[2] = <<"again", "link">>
        /\ agenda'[3] = <<"again", "hooks">>
    <2>1. /\ Len(Roots) = 3 /\ Roots[1] = "config" /\ Roots[2] = "link" /\ Roots[3] = "hooks"
      BY DEF Roots
    <2>2. /\ agenda' = [i \in 1..3 |-> <<"again", Roots[i]>>]
      BY <1>2, <2>1 DEF Agains
    <2>3. \A i \in 1..3 : <<"again", Roots[i]>> \in Task
      BY <2>1 DEF Task, Path, Plain
    <2> HIDE DEF Roots
    <2> QED BY <2>1, <2>2, <2>3
  <1>5. {"config", "link", "hooks"} \subseteq DOMAIN taken
    BY <1>3 DEF Whole, RootsTaken
  <1>6. ASSUME NEW i \in 1..Len(agenda')
        PROVE  agenda'[i] \in {"again"} \X DOMAIN taken /\ agenda'[i][1] = "again"
    <2>1. /\ <<"again", "config">> \in {"again"} \X DOMAIN taken
          /\ <<"again", "link">> \in {"again"} \X DOMAIN taken
          /\ <<"again", "hooks">> \in {"again"} \X DOMAIN taken
      BY <1>5
    <2>2. i = 1 \/ i = 2 \/ i = 3
      BY <1>4
    <2> QED BY <1>4, <2>1, <2>2
  <1>7. ToDo("config")' /\ ToDo("link")' /\ ToDo("hooks")'
    BY <1>4 DEF ToDo
  <1>8. WalkTypeOK' /\ TakenOK'
    <2>1. WalkTypeOK'
      BY <1>1, <1>2, <1>4 DEF WalkTypeOK, Env, Kinded
    <2>2. TakenOK'
      BY <1>1, <1>2 DEF TakenOK, Env, Kinded, Later, Sees, Signature
    <2> QED BY <2>1, <2>2
  <1>9. ListedOK'
    BY <1>1, <1>2, <1>4 DEF ListedOK, Env
  <1>10. HandleOK'
    <2>1. 1 \in 1..Len(agenda')
      BY <1>4
    <2> QED BY <1>6, <2>1 DEF HandleOK
  <1>11. SecondPass'
    <2>1. Whole'
      BY <1>2, <1>3 DEF Whole, RootsTaken, LinkTaken, Kids
    <2>2. ASSUME NEW p \in DOMAIN taken
          PROVE  LookedAtBefore(p)'
      <3>1. p \in Path
        BY <1>1 DEF WalkTypeOK
      <3> QED BY <1>7, <3>1 DEF LookedAtBefore, Path, Plain
    <2>3. taken["hooks"].kind = "dir" /\ Sees(taken["hooks"], nodes["hooks"]) => Names(nodes) = listed
      BY <1>1, <1>2, <1>5 DEF ListedOK
    <2>4. \A p : AsTaken(p, nodes[p])' <=> AsTaken(p, instant[p])'
      BY <1>2 DEF AsTaken, Env
    <2> QED BY <1>2, <1>6, <2>1, <2>2, <2>3, <2>4 DEF SecondPass, Env
  <1> QED BY <1>2, <1>8, <1>9, <1>10, <1>11 DEF GoingInv

LEMMA FinishStep ==
  ASSUME GoingInv, Finish
  PROVE  IdentityIsOfOneInstant'
  <1>1. SecondPass /\ WalkTypeOK /\ agenda = << >> /\ UNCHANGED <<taken, listed, instant, restored>>
    BY DEF GoingInv, Finish, Env
  <1>2. \A p : ~ToDo(p)
    BY <1>1 DEF ToDo
  <1>3. \A p \in DOMAIN taken \ restored : taken[p].kind # "absent" => AsTaken(p, instant[p])
    BY <1>1, <1>2 DEF SecondPass, LookedAtBefore
  <1>4. \A p \in DOMAIN taken \ restored : taken[p].kind # "absent" =>
          instant[p].kind = taken[p].kind /\ (taken[p].kind # "dir" => instant[p].data = taken[p].data)
    BY <1>3 DEF AsTaken, Unaltered, Sees, Signature
  <1>5. ASSUME taken["hooks"].kind = "dir", NEW c \in {"a", "b"}
        PROVE  instant[c].kind # "absent" <=> c \in DOMAIN taken
    <2>1. "hooks" \in DOMAIN taken /\ DOMAIN taken \cap {"a", "b"} = Kids
      BY <1>1, <1>5 DEF SecondPass, Whole
    <2>2. "hooks" \notin restored /\ "hooks" \notin Plain
      BY <1>1 DEF WalkTypeOK, Plain
    <2>3. Sees(taken["hooks"], instant["hooks"])
      BY <1>3, <1>5, <2>1, <2>2 DEF AsTaken
    <2>4. Names(instant) = listed
      BY <1>1, <1>5, <2>3 DEF SecondPass
    <2>5. {Names(instant)[i] : i \in DOMAIN Names(instant)} = {k \in {"a", "b"} : instant[k].kind # "absent"}
      BY NamesIs
    <2> QED BY <2>1, <2>4, <2>5 DEF Kids
  <1> QED BY <1>1, <1>4, <1>5 DEF IdentityIsOfOneInstant

-----------------------------------------------------------------------------
LEMMA WalkInitInv == WalkInit => WalkInv
  <1> SUFFICES ASSUME WalkInit
               PROVE  WalkInv
    OBVIOUS
  <1>1. agenda = Visits(Roots) /\ taken = << >> /\ listed = << >> /\ again = FALSE /\ walked = "going"
    BY DEF WalkInit
  <1>2. /\ agenda \in Seq(Task) /\ Len(agenda) = 3
        /\ agenda[1] = <<"visit", "config">> /\ agenda[2] = <<"visit", "link">>
        /\ agenda[3] = <<"visit", "hooks">>
    <2>1. /\ Len(Roots) = 3 /\ Roots[1] = "config" /\ Roots[2] = "link" /\ Roots[3] = "hooks"
      BY DEF Roots
    <2>2. /\ agenda = [i \in 1..3 |-> <<"visit", Roots[i]>>]
      BY <1>1, <2>1 DEF Visits
    <2>3. \A i \in 1..3 : <<"visit", Roots[i]>> \in Task
      BY <2>1 DEF Task, Path, Plain
    <2> HIDE DEF Roots
    <2> QED BY <2>1, <2>2, <2>3
  <1>3. DOMAIN taken = {}
    BY <1>1
  <1>4. /\ nodes \in [Path -> {NoNode, Node("file", 0, 0, "d0"), Node("dir", 0, 0, "d0"),
                               Node("link", 0, 0, "t1")}]
        /\ nodes["config"].kind \in {"absent", "file"} /\ nodes["link"].kind \in {"absent", "link"}
        /\ nodes["hooks"].kind = "dir" /\ nodes["a"].kind = "file" /\ nodes["b"].kind = "absent"
        /\ \A t \in Target : nodes[t].kind = "file"
        /\ writes = 0 /\ restored = {}
    BY DEF WalkInit
  <1>5. \A m \in {NoNode, Node("file", 0, 0, "d0"), Node("dir", 0, 0, "d0"), Node("link", 0, 0, "t1")} :
          m \in NodeRec /\ m.ver = 0 /\ (m.kind = "link" => m.data \in Target \cup {"link"})
    <2>1. NoNode \in NodeRec /\ NoNode.ver = 0 /\ NoNode.kind = "absent"
      BY DEF NoNode, Node, NodeRec
    <2>2. /\ Node("file", 0, 0, "d0") \in NodeRec /\ Node("file", 0, 0, "d0").ver = 0
          /\ Node("file", 0, 0, "d0").kind = "file"
      BY DEF Node, NodeRec, Datum
    <2>3. /\ Node("dir", 0, 0, "d0") \in NodeRec /\ Node("dir", 0, 0, "d0").ver = 0
          /\ Node("dir", 0, 0, "d0").kind = "dir"
      BY DEF Node, NodeRec, Datum
    <2>4. /\ Node("link", 0, 0, "t1") \in NodeRec /\ Node("link", 0, 0, "t1").ver = 0
          /\ Node("link", 0, 0, "t1").data = "t1" /\ "t1" \in Target
      BY DEF Node, NodeRec, Target
    <2> QED BY <2>1, <2>2, <2>3, <2>4
  <1>6. nodes \in [Path -> NodeRec]
    BY <1>4, <1>5
  <1>7. ASSUME NEW p \in Path
        PROVE  Kinded(p, nodes[p]) /\ nodes[p].ver <= writes
    <2>1. nodes[p] \in NodeRec /\ nodes[p].ver = 0
          /\ (nodes[p].kind = "link" => nodes[p].data \in Target \cup {"link"})
      BY <1>4, <1>5
    <2>2. nodes[p].ver <= writes
      <3>1. writes = 0 /\ nodes[p].ver = 0
        BY <1>4, <2>1
      <3> QED BY <3>1
    <2>3. CASE p \in Target
      <3>1. nodes[p].kind = "file" /\ p \notin {"link", "hooks"}
        BY <1>4, <2>3 DEF Target
      <3> QED BY <2>1, <2>2, <3>1 DEF Kinded
    <2>4. CASE p \in {"config", "link", "hooks", "a", "b"}
      BY <1>4, <2>1, <2>2, <2>4 DEF Kinded
    <2> QED BY <2>3, <2>4 DEF Path, Plain
  <1>8. WalkTypeOK
    <2>1. listed \in Listings /\ writes \in Nat /\ again \in BOOLEAN /\ restored \subseteq Plain
      BY <1>1, <1>4 DEF Listings
    <2> QED BY <1>2, <1>3, <1>6, <1>7, <2>1 DEF WalkTypeOK
  <1>9. TakenOK /\ HandleOK /\ ListedOK
    BY <1>2, <1>3 DEF TakenOK, HandleOK, ListedOK
  <1>10. AtConfig
    BY <1>2, <1>3 DEF AtConfig
  <1> QED BY <1>1, <1>8, <1>9, <1>10 DEF WalkInv, GoingInv, FirstPass, IdentityIsOfOneInstant

LEMMA WalkStutter ==
  ASSUME WalkInv, UNCHANGED walkVars
  PROVE  WalkInv'
  <1>1. UNCHANGED <<nodes, writes, agenda, taken, handle, listed, again, walked, instant, restored>>
    BY DEF walkVars
  <1>2. IdentityIsOfOneInstant'
    BY <1>1 DEF WalkInv, IdentityIsOfOneInstant
  <1>3. SUFFICES ASSUME walked = "going"
                 PROVE  GoingInv'
    BY <1>1, <1>2 DEF WalkInv
  <1>4. WalkTypeOK /\ TakenOK /\ HandleOK /\ ListedOK /\ (IF again THEN SecondPass ELSE FirstPass)
    BY <1>3 DEF WalkInv, GoingInv
  <1>5. WalkTypeOK' /\ TakenOK'
    BY <1>1, <1>4 DEF WalkTypeOK, TakenOK, Kinded, Later, Sees, Signature
  <1>6. HandleOK' /\ ListedOK'
    BY <1>1, <1>4 DEF HandleOK, ListedOK, Sees, Signature
  <1>7. (RootsTaken => RootsTaken') /\ (LinkTaken <=> LinkTaken') /\ Kids' = Kids
    BY <1>1, StagesKeep
  <1>8. (Whole => Whole')
    BY <1>1, <1>7 DEF Whole
  <1>9. (AtConfig => AtConfig') /\ (AtLink => AtLink') /\ (AtTarget => AtTarget')
    BY <1>1, <1>7 DEF AtConfig, AtLink, AtTarget
  <1>10. (InTarget => InTarget') /\ (AtHops => AtHops') /\ (AtHooks => AtHooks') /\ (AtList => AtList')
    BY <1>1, <1>7 DEF InTarget, AtHops, AtHooks, AtList
  <1>11. (AtKids => AtKids') /\ (AtEnd => AtEnd')
    BY <1>1, <1>7, <1>8 DEF AtKids, AtEnd
  <1>12. FirstPass => FirstPass'
    BY <1>9, <1>10, <1>11 DEF FirstPass
  <1>13. SecondPass => SecondPass'
    <2>1. \A p : LookedAtBefore(p) => LookedAtBefore(p)'
      BY <1>1 DEF LookedAtBefore, ToDo, AsTaken
    <2>2. \A p : (AsTaken(p, nodes[p])' <=> AsTaken(p, nodes[p])) /\ (AsTaken(p, instant[p])' <=> AsTaken(p, instant[p]))
      BY <1>1 DEF AsTaken
    <2>3. Sees(taken["hooks"], instant["hooks"])' <=> Sees(taken["hooks"], instant["hooks"])
      BY <1>1
    <2> QED BY <1>1, <1>8, <2>1, <2>2, <2>3 DEF SecondPass
  <1> QED BY <1>1, <1>4, <1>5, <1>6, <1>12, <1>13 DEF GoingInv

LEMMA WalkStep ==
  ASSUME WalkInv, WalkNext
  PROVE  WalkInv'
  <1>1. walked = "going"
    BY DEF WalkNext, OthersWrite, Overwrite, Replace, Remove, Remake, Retarget, Change, Visit, ResolveLink,
           OpenFile, ReadFile, AcceptFile, Hops, List, Close, VisitAgain, Witnesses, Finish, Todo
  <1>2. GoingInv
    BY <1>1 DEF WalkInv
  <1>3. CASE walked' = "condemned"
    BY <1>3 DEF WalkInv, IdentityIsOfOneInstant
  <1>4. SUFFICES ASSUME walked' # "condemned"
                 PROVE  WalkInv'
    BY <1>3
  <1>5. walked' = "going" /\ GoingInv' => WalkInv'
    BY DEF WalkInv, IdentityIsOfOneInstant
  <1>6. CASE OthersWrite
    <2>1. walked' = "going"
      BY <1>1, <1>6 DEF OthersWrite, Overwrite, Replace, Remove, Remake, Retarget, Change
    <2>2. GoingInv'
      BY <1>2, <1>6, WriteStep
    <2> QED BY <1>5, <2>1, <2>2
  <1>7. CASE \E p \in Path : Visit(p) \/ ResolveLink(p) \/ OpenFile(p) \/ ReadFile(p) \/ AcceptFile(p)
                            \/ List(p) \/ Close(p) \/ VisitAgain(p)
    <2> PICK p \in Path : Visit(p) \/ ResolveLink(p) \/ OpenFile(p) \/ ReadFile(p) \/ AcceptFile(p)
                          \/ List(p) \/ Close(p) \/ VisitAgain(p)
      BY <1>7
    <2>1. CASE Visit(p)
      <3>1. walked' = "going"
        BY <1>1, <1>4, <2>1 DEF Visit, CondemnWalk
      <3> QED BY <1>2, <1>5, <2>1, <3>1, VisitStep
    <2>2. CASE ResolveLink(p)
      <3>1. walked' = "going"
        BY <1>1, <1>4, <2>2 DEF ResolveLink, CondemnWalk
      <3> QED BY <1>2, <1>5, <2>2, <3>1, ResolveLinkStep
    <2>3. CASE OpenFile(p)
      <3>1. walked' = "going"
        BY <1>1, <1>4, <2>3 DEF OpenFile, CondemnWalk
      <3> QED BY <1>2, <1>5, <2>3, <3>1, OpenFileStep
    <2>4. CASE ReadFile(p)
      <3>1. walked' = "going"
        BY <1>1, <2>4 DEF ReadFile
      <3> QED BY <1>2, <1>5, <2>4, <3>1, ReadFileStep
    <2>5. CASE AcceptFile(p)
      <3>1. walked' = "going"
        BY <1>1, <1>4, <2>5 DEF AcceptFile, CondemnWalk
      <3> QED BY <1>2, <1>5, <2>5, <3>1, AcceptFileStep
    <2>6. CASE List(p)
      <3>1. walked' = "going"
        BY <1>1, <1>4, <2>6 DEF List, CondemnWalk
      <3> QED BY <1>2, <1>5, <2>6, <3>1, ListStep
    <2>7. CASE Close(p)
      <3>1. walked' = "going"
        BY <1>1, <1>4, <2>7 DEF Close, CondemnWalk
      <3> QED BY <1>2, <1>5, <2>7, <3>1, CloseStep
    <2>8. CASE VisitAgain(p)
      <3>1. walked' = "going"
        BY <1>1, <1>4, <2>8 DEF VisitAgain, CondemnWalk
      <3>2. GoingInv'
        BY <1>2, <2>8, <3>1, AgainInFirst, AgainInSecond
      <3> QED BY <1>5, <3>1, <3>2
    <2> QED BY <2>1, <2>2, <2>3, <2>4, <2>5, <2>6, <2>7, <2>8
  <1>8. CASE Hops
    <2>1. walked' = "going"
      BY <1>1, <1>4, <1>8 DEF Hops, CondemnWalk
    <2> QED BY <1>2, <1>5, <1>8, <2>1, HopsStep
  <1>9. CASE Witnesses
    <2>1. walked' = "going"
      BY <1>1, <1>9 DEF Witnesses
    <2> QED BY <1>2, <1>5, <1>9, <2>1, WitnessesStep
  <1>10. CASE Finish
    <2>1. walked' = "complete"
      BY <1>4, <1>10 DEF Finish
    <2> QED BY <1>2, <1>10, <2>1, FinishStep DEF WalkInv
  <1> QED BY <1>6, <1>7, <1>8, <1>9, <1>10 DEF WalkNext

\* An identity is one of a state that existed, whatever is written while the walk goes on,
\* but for plain files that are given back what was recorded of them and the mode of a
\* directory (visitBoundedMetadataTree and the revalidation of its witnesses).
THEOREM IdentitiesAreOfOneInstant == WalkSpec => []IdentityIsOfOneInstant
  <1>1. WalkInit => WalkInv
    BY WalkInitInv
  <1>2. WalkInv /\ [WalkNext]_walkVars => WalkInv'
    BY WalkStep, WalkStutter
  <1>3. WalkInv => IdentityIsOfOneInstant
    BY DEF WalkInv
  <1> QED BY <1>1, <1>2, <1>3, PTL DEF WalkSpec

=============================================================================
