---------------------------- MODULE WorkerArtifact ----------------------------
(***************************************************************************)
(* What a write worker has made (worker-worktree.mjs): the bytes of the one *)
(* file it may change are captured into a record that is published under   *)
(* its digest, read by the host, compared with the tree again, applied to   *)
(* the user's checkout by the host's own tool, and looked for there.  The   *)
(* worker's provider may linger and still write, the user edits, the        *)
(* persisting process dies, the answer of the apply gets lost.              *)
(***************************************************************************)
EXTENDS Naturals, FiniteSets

CONSTANTS
  Content,     \* contents of target.txt other than that of the base; also their digests
  MaxEdits,    \* bound: edits of the provider, and of the user
  MaxDeaths,   \* bound: persisting processes that die
  MaxApplies   \* the apply and its bounded reissue

Base == "base"
ASSUME ArtifactAssumption ==
  /\ IsFiniteSet(Content) /\ Base \notin Content
  /\ MaxEdits \in Nat /\ MaxDeaths \in Nat /\ MaxApplies \in Nat \ {0}

VARIABLES
  target,     \* target.txt in the worker's tree
  tmp, rec,   \* the artifact directory: temporary files and records, by digest
  writer,     \* the persisting process: what it does next, and what it has captured
  host,       \* the integrating host: step, artifact read, fingerprint seen, applies
  parentTarget, parentOther,   \* the user's checkout: target.txt, and whether more is dirty
  onTheWay,   \* applies whose answer the host has not seen
  edits, deaths

artifactVars == <<target, tmp, rec, writer, host, parentTarget, parentOther, onTheWay, edits, deaths>>

WriterStep == {"idle", "validate", "list", "open", "write", "publish", "done"}
HostStage  == {"read", "prepare", "parent", "apply", "inspect", "bytes", "verified", "blocked"}

ArtifactTypeOK ==
  /\ target \in Content \cup {Base}
  /\ tmp \in [Content -> {"none", "torn", "whole"}] /\ rec \subseteq Content
  /\ writer \in [at : WriterStep, has : Content \cup {Base}]
  /\ host \in [at : HostStage, has : Content \cup {Base},
               print : [target : Content \cup {Base, "user"}, other : BOOLEAN], applies : 0..MaxApplies]
  /\ parentTarget \in Content \cup {Base, "user"} /\ parentOther \in BOOLEAN
  /\ onTheWay \subseteq Content
  /\ edits \in 0..MaxEdits /\ deaths \in 0..MaxDeaths

Fingerprint == [target |-> parentTarget, other |-> parentOther]   \* captureParentFingerprint
Untouched == [target |-> Base, other |-> FALSE]

ArtifactInit ==
  /\ target = Base
  /\ tmp = [c \in Content |-> "none"] /\ rec = {}
  /\ writer = [at |-> "idle", has |-> Base]
  /\ host = [at |-> "read", has |-> Base, print |-> Untouched, applies |-> 0]
  /\ parentTarget = Base /\ parentOther = FALSE
  /\ onTheWay = {} /\ edits = 0 /\ deaths = 0

-----------------------------------------------------------------------------
(* persistWriteWorkerArtifact                                              *)

keepHost == UNCHANGED <<host, parentTarget, parentOther, onTheWay, edits>>
keepDirectory == UNCHANGED <<tmp, rec>>

Write(s) == writer' = [writer EXCEPT !.at = s]

\* assertOnlyTargetChanged and the capture of bytes, patch and manifest.
Capture ==
  /\ writer.at = "idle" /\ target # Base
  /\ writer' = [at |-> "validate", has |-> target]
  /\ keepHost /\ keepDirectory /\ UNCHANGED <<target, deaths>>

\* validateArtifactForIntegration: the manifest is computed again from the tree.
Validate ==
  /\ writer.at = "validate"
  /\ Write(IF target = writer.has THEN "list" ELSE "idle")
  /\ keepHost /\ keepDirectory /\ UNCHANGED <<target, deaths>>

Other(c) == {d \in Content \ {c} : d \in rec \/ tmp[d] # "none"}

\* Mutant of ListDirectory: what belongs to another content is not looked at.
ListOwn ==
  /\ writer.at = "list"
  /\ LET c == writer.has
     IN Write(IF c \in rec THEN IF tmp[c] = "none" THEN "done" ELSE "idle"
              ELSE IF tmp[c] = "whole" THEN "publish"
              ELSE IF tmp[c] = "torn" THEN "idle" ELSE "open")
  /\ keepHost /\ keepDirectory /\ UNCHANGED <<target, deaths>>

\* An earlier publication of the same bytes is adopted, anything else is an error.
ListDirectory ==
  /\ writer.at = "list"
  /\ LET c == writer.has
     IN Write(IF Other(c) # {} THEN "idle"
              ELSE IF c \in rec THEN IF tmp[c] = "none" THEN "done" ELSE "idle"
              ELSE IF tmp[c] = "whole" THEN "publish"
              ELSE IF tmp[c] = "torn" THEN "idle" ELSE "open")
  /\ keepHost /\ keepDirectory /\ UNCHANGED <<target, deaths>>

\* atomicPublishArtifactRecord; a failure takes the temporary file away.
OpenTemporary ==
  /\ writer.at = "open"
  /\ tmp' = [tmp EXCEPT ![writer.has] = "torn"]
  /\ Write("write")
  /\ keepHost /\ UNCHANGED <<target, rec, deaths>>

WriteTemporary ==
  /\ writer.at = "write"
  /\ \/ tmp' = [tmp EXCEPT ![writer.has] = "whole"] /\ Write("publish")
     \/ tmp' = [tmp EXCEPT ![writer.has] = "none"] /\ Write("idle")
  /\ keepHost /\ UNCHANGED <<target, rec, deaths>>

RenameTemporary ==
  /\ writer.at = "publish"
  /\ tmp' = [tmp EXCEPT ![writer.has] = "none"]
  /\ rec' = rec \cup {writer.has}
  /\ Write("done")
  /\ keepHost /\ UNCHANGED <<target, deaths>>

\* The process dies; the artifact is asked for again.
WriterDies ==
  /\ writer.at # "idle" /\ deaths < MaxDeaths
  /\ deaths' = deaths + 1
  /\ Write("idle")
  /\ keepHost /\ keepDirectory /\ UNCHANGED target

-----------------------------------------------------------------------------
(* The host: readWriteWorkerArtifact, prepareIntegration, its own apply, and *)
(* inspectWriteVerticalIntegration.                                          *)

keepWriter == UNCHANGED <<target, tmp, rec, writer, edits, deaths>>

Host(s) == host' = [host EXCEPT !.at = s]

\* Mutant of ReadArtifact: temporary files are overlooked.
ReadAny ==
  /\ host.at = "read"
  /\ \E c \in rec \cup {d \in Content : tmp[d] # "none"} :
       host' = [host EXCEPT !.at = "prepare", !.has = c]
  /\ keepWriter /\ UNCHANGED <<parentTarget, parentOther, onTheWay>>

ReadArtifact ==
  /\ host.at = "read"
  /\ Cardinality(rec) = 1 /\ \A c \in Content : tmp[c] = "none"
  /\ \E c \in rec : host' = [host EXCEPT !.at = "prepare", !.has = c]
  /\ keepWriter /\ UNCHANGED <<parentTarget, parentOther, onTheWay>>

\* The artifact is computed again from the worker's tree ...
CompareWithTree ==
  /\ host.at = "prepare"
  /\ Host(IF target = host.has THEN "parent" ELSE "blocked")
  /\ keepWriter /\ UNCHANGED <<parentTarget, parentOther, onTheWay>>

\* ... and the user's checkout is as it was when the worker was planned, and clean.
CheckParent ==
  /\ host.at = "parent"
  /\ Host(IF Fingerprint = Untouched THEN "apply" ELSE "blocked")
  /\ keepWriter /\ UNCHANGED <<parentTarget, parentOther, onTheWay>>

RequestApply ==
  /\ host.at = "apply"
  /\ host' = [host EXCEPT !.at = "inspect", !.applies = @ + 1]
  /\ onTheWay' = onTheWay \cup {host.has}
  /\ keepWriter /\ UNCHANGED <<parentTarget, parentOther>>

\* The fingerprint comes first: unchanged, or exactly target.txt modified.
Inspect ==
  /\ host.at = "inspect"
  /\ host' = [host EXCEPT !.print = Fingerprint,
                          !.at = IF Fingerprint = Untouched
                                   THEN IF host.applies < MaxApplies THEN "apply" ELSE "blocked"
                                 ELSE IF parentTarget = Base \/ parentOther THEN "blocked"
                                 ELSE "bytes"]
  /\ keepWriter /\ UNCHANGED <<parentTarget, parentOther, onTheWay>>

\* The changed paths and the bytes are read after it.
InspectBytes ==
  /\ host.at = "bytes"
  /\ Host(IF parentTarget = host.has /\ ~parentOther THEN "verified" ELSE "blocked")
  /\ keepWriter /\ UNCHANGED <<parentTarget, parentOther, onTheWay>>

-----------------------------------------------------------------------------
(* Everybody else.                                                         *)

\* The provider, which may outlive the report that it has ended.
ProviderWrites ==
  /\ edits < MaxEdits /\ edits' = edits + 1
  /\ \E c \in Content : target' = c
  /\ UNCHANGED <<tmp, rec, writer, host, parentTarget, parentOther, onTheWay, deaths>>

UserEdits ==
  /\ edits < MaxEdits /\ edits' = edits + 1
  /\ \/ parentTarget' \in {Base, "user"} /\ UNCHANGED parentOther
     \/ parentOther' = ~parentOther /\ UNCHANGED parentTarget
  /\ UNCHANGED <<target, tmp, rec, writer, host, onTheWay, deaths>>

\* The patch applies to the content of the base alone.
ApplyArrives(c) ==
  /\ onTheWay' = onTheWay \ {c}
  /\ parentTarget' = IF parentTarget = Base THEN c ELSE parentTarget
  /\ UNCHANGED <<target, tmp, rec, writer, host, parentOther, edits, deaths>>

ArtifactNext ==
  \/ Capture \/ Validate \/ ListDirectory \/ OpenTemporary \/ WriteTemporary \/ RenameTemporary
  \/ WriterDies
  \/ ReadArtifact \/ CompareWithTree \/ CheckParent \/ RequestApply \/ Inspect \/ InspectBytes
  \/ ProviderWrites \/ UserEdits
  \/ \E c \in onTheWay : ApplyArrives(c)

ArtifactSpec == ArtifactInit /\ [][ArtifactNext]_artifactVars

-----------------------------------------------------------------------------
\* A worker has one artifact: whoever died while publishing it, and whatever the
\* provider has written since, no second one appears and the first one stays.
OneArtifact == [][rec # {} => rec' = rec]_artifactVars

\* A host that has verified its integration holds the one artifact on record, not
\* what was being published or what the provider has written since, and saw nothing
\* else dirty, although the user was editing and the answer of the apply was lost.
\* (That the fingerprint showed the same target is not so: the bytes are read later.)
VerifiedIsPublished ==
  host.at = "verified" => rec = {host.has} /\ ~host.print.other
===============================================================================
