---------------------------- MODULE TaskContext ----------------------------
(***************************************************************************)
(* The context manifests of a task (task-contract.mjs): the checkout is     *)
(* captured when a task is accepted, compared before Grok starts, captured  *)
(* again when Grok is done, and the two captures are what the runtime       *)
(* evidence and the scope violations are computed from; a later capture is  *)
(* compared for the host's checks, and for a task that is resumed.          *)
(*                                                                          *)
(* Other worktrees of the repository go on moving their branches, fetching  *)
(* and packing references.  A linked worktree tolerates that; a primary one *)
(* does not, unless it supervises a worker in a worktree of its own.        *)
(*                                                                          *)
(* A digest is the value it is computed from.  A capture reads files, index *)
(* and references, then goes through the references once more.  It goes on  *)
(* when a call of git fails, and of the ignored files it reads as many as   *)
(* its budgets allow.                                                       *)
(***************************************************************************)
EXTENDS Naturals, Sequences, FiniteSets

CONSTANTS
  NoManifest, \* no manifest yet; no upstream
  MaxDirty,   \* dirty entries that are kept one by one (500)
  MaxPaths,   \* MAX_IGNORED_PATHS
  MaxIgnored, \* MAX_IGNORED_ATTRIBUTABLE
  MaxHashed,  \* MAX_IGNORED_HASH_BYTES, in files: they are of one size
  MaxFailed,  \* bound: calls of git that fail in one capture
  MaxChanges, \* bound: changes to the checkout
  MaxTurns    \* bound: times that Grok runs

ASSUME ContextAssumption ==
  /\ MaxDirty \in Nat \ {0} /\ MaxIgnored \in Nat \ {0} /\ MaxChanges \in Nat /\ MaxTurns \in Nat
  /\ MaxPaths \in Nat /\ MaxIgnored <= MaxPaths /\ MaxHashed \in Nat /\ MaxFailed \in Nat

File == {"in", "out"}               \* tracked files; the scope of the task includes "in"
Ignored == {"cache", "log", "tmp"}  \* "cache" is under __pycache__
Lasting == {"log", "tmp"}
Ref == {"own", "up", "other"}

\* The calls of git: rev-parse HEAD, status, ls-files of the index and of the ignored
\* files, those that read the metadata, and hash-object for each file.
GitCall == {"head", "status", "stage", "ignored", "metadata"} \cup File

VARIABLES
  tree,     \* the checkout and its repository
  setting,  \* what the task is: [linked, managed, upstream, version, many]
  step,     \* where the task is
  half,     \* the first half of a capture: what it has read, which calls have failed
  accepted, \* the manifest that Grok must start from
  done,     \* the manifest captured when Grok was done
  evidence, \* the paths that are reported
  start,    \* history: the reading behind the manifest that is compared with
  finish,   \* history: the reading behind the last manifest
  turn,     \* times that Grok has run
  changes   \* changes so far

contextVars == <<tree, setting, step, half, accepted, done, evidence, start, finish, turn, changes>>

\* stamp is a file's time of change; a write can put it back.
Gone == [stamp |-> 0, data |-> 0]

\* flags are the files marked assume-unchanged; index is what is staged, config
\* stands for the configuration and the controls of a merge or rebase, hooks for
\* a directory of hooks outside of the repository, packed for how the references
\* are stored.
CleanTree == [file |-> [f \in File |-> 0], index |-> [f \in File |-> 0], flags |-> {},
          ignored |-> [f \in Ignored |-> Gone], head |-> 0, config |-> 0, hooks |-> 0,
          ref |-> [r \in Ref |-> 0], packed |-> FALSE]

Setting == [linked : BOOLEAN, managed : BOOLEAN, version : {1, 2}, many : BOOLEAN,
            upstream : {"none", "resolved", "unresolved"}]

ContextInit ==
  /\ tree \in {CleanTree, [CleanTree EXCEPT !.file["in"] = 1],
               [CleanTree EXCEPT !.ignored["log"] = [stamp |-> 1, data |-> 1]],
               [CleanTree EXCEPT !.ignored = [f \in Ignored |-> [stamp |-> 1, data |-> 1]]],
               [CleanTree EXCEPT !.flags = {"out"}, !.file["out"] = 1]}
  /\ setting \in {s \in Setting : /\ s.managed => ~s.linked
                                  /\ s.version = 1 \/ s.many => s.upstream = "none"
                                  /\ s.version = 1 => ~s.many}
  /\ step = "new" /\ half = NoManifest /\ accepted = NoManifest /\ done = NoManifest
  /\ evidence = {} /\ start = NoManifest /\ finish = NoManifest /\ turn = 0 /\ changes = 0

-----------------------------------------------------------------------------
(* What a manifest records.                                                 *)

Relevant == {"own"} \cup (IF setting.upstream = "resolved" THEN {"up"} ELSE {})

Keep(f, s) == [x \in s |-> f[x]]

\* What git has answered; nothing, when the call has failed.
Told(r, c, x) == IF c \in r.failed THEN {} ELSE {x}

\* The first n of the names in s.
Precedes(f, g) ==
  <<f, g>> \in {<<"in", "out">>, <<"cache", "log">>, <<"cache", "tmp">>, <<"log", "tmp">>}
First(s, n) == {g \in s : Cardinality({f \in s : Precedes(f, g)}) < n}

\* git status does not look at a file that is assumed unchanged.  Its output is read
\* whether or not it has failed.
DirtyFiles(t) == {f \in File \ t.flags : t.file[f] # t.index[f]}
Dirty(r) == [f \in IF "status" \in r.failed THEN {} ELSE DirtyFiles(r.at) |->
               Told(r, f, r.at.file[f])]

DirtySnapshot(r) ==
  [digest |-> Dirty(r), entries |-> Keep(Dirty(r), First(DOMAIN Dirty(r), MaxDirty)),
   truncated |-> Cardinality(DOMAIN Dirty(r)) > MaxDirty]

\* Of the ignored files that exist, the first MaxPaths are listed; the bytes of those
\* that fit in the budget are hashed, of the others size and time are taken.
Extant(t, names)  == {f \in names : t.ignored[f] # Gone}
Listed(t, names) == First(Extant(t, names), MaxPaths)
Hashed(t, names) == First(Listed(t, names), MaxHashed)
Prints(t, names) ==
  [f \in Listed(t, names) |->
     [stamp |-> t.ignored[f].stamp,
      data  |-> IF f \in Hashed(t, names) THEN {t.ignored[f].data} ELSE {}]]

\* All of the names, or those that are not test caches.
IgnoredSnapshot(r, names) ==
  LET there == Extant(r.at, names)
      attributable == "ignored" \notin r.failed /\ Cardinality(there) <= MaxIgnored
  IN [digest |-> Told(r, "ignored", <<Prints(r.at, names), Cardinality(there)>>),
      attributable |-> attributable,
      entries |-> IF attributable THEN Prints(r.at, names) ELSE << >>]

\* The bytes that a flag would hide belong to the task's metadata.
Flagged(t) == t.flags
FlagObservation(t) == Keep(t.file, Flagged(t))

ConfigIdentity(t) == t.config
HooksIdentity(t) == t.hooks

Upstream(t) == IF setting.upstream = "resolved" THEN t.ref["up"] ELSE NoManifest

\* complete is FALSE when the references or other metadata could not be read, when the
\* references moved meanwhile, or when the upstream has no name.
Manifest(r, available, version) ==
  LET t == r.at
      complete == available /\ "metadata" \notin r.failed /\ setting.upstream # "unresolved" IN
  [version |-> version, linked |-> setting.linked, head |-> Told(r, "head", t.head),
   index |-> Told(r, "stage", t.index), dirty |-> DirtySnapshot(r),
   ignored |-> IgnoredSnapshot(r, Ignored), lasting |-> IgnoredSnapshot(r, Lasting),
   upstream |-> Upstream(t), metadata |-> Told(r, "metadata", <<t.config, t.ref, t.packed>>),
   task |-> <<ConfigIdentity(t), HooksIdentity(t), FlagObservation(t),
            Keep(t.ref, Relevant), complete>>,
   refs |-> [complete |-> complete, attributable |-> complete /\ ~setting.many,
             relevant |-> IF complete THEN Keep(t.ref, Relevant) ELSE << >>,
             unrelated |-> IF complete THEN Keep(t.ref, Ref \ Relevant) ELSE << >>]]

-----------------------------------------------------------------------------
(* Two manifests compared.                                                  *)

\* SUPERVISORY_LINKED_WRITE: a primary control root whose worker writes elsewhere.
Supervisory(m, n) ==
  IF ~(m.refs.attributable /\ n.refs.attributable) \/ m.linked \/ n.linked THEN "fail_closed"
  ELSE IF m.task # n.task \/ m.refs.relevant # n.refs.relevant THEN "task_relevant"
  ELSE IF m.refs.unrelated # n.refs.unrelated \/ m.metadata # n.metadata THEN "tolerated"
  ELSE "unchanged"

Linked(m, n) ==
  IF ~(m.refs.attributable /\ n.refs.attributable) THEN "fail_closed"
  ELSE IF m.task # n.task THEN "task_relevant"
  ELSE IF m.refs.unrelated # n.refs.unrelated THEN "tolerated"
  ELSE "unchanged"

Primary(m, n) ==
  IF m.task # n.task \/ m.metadata # n.metadata \/ m.refs.unrelated # n.refs.unrelated
  THEN "task_relevant" ELSE "unchanged"

\* Mutant of ClassifyMetadata: a linked worktree compares the whole metadata too.
ClassifyMetadataStrictly(m, n, supervised) ==
  IF m.task = n.task /\ m.metadata = n.metadata THEN "unchanged" ELSE "task_relevant"

\* A manifest of version 1 has only the identity of the whole metadata.
ClassifyMetadata(m, n, supervised) ==
  IF 1 \in {m.version, n.version}
    THEN IF supervised THEN "fail_closed"
         ELSE IF m.metadata = n.metadata THEN "unchanged" ELSE "legacy"
  ELSE IF supervised THEN Supervisory(m, n)
  ELSE IF ~(m.refs.complete /\ n.refs.complete) \/ m.linked # n.linked THEN "fail_closed"
  ELSE IF m.linked THEN Linked(m, n)
  ELSE Primary(m, n)

IsDrift(class) == class \in {"fail_closed", "task_relevant", "legacy"}

Changed(d, e) == {x \in DOMAIN d \cup DOMAIN e :
                    ~(x \in DOMAIN d /\ x \in DOMAIN e /\ d[x] = e[x])}

Mark(condition, name) == IF condition THEN {name} ELSE {}

IgnoredDrift(m, n) ==
  IF m.digest = n.digest THEN {}
  ELSE IF m.attributable /\ n.attributable THEN Changed(m.entries, n.entries)
  ELSE {"[IGNORED_WORKTREE]"}

\* Mutant of DirtyDrift: the marker is set only when no path can be named.
DirtyDriftOrNamed(m, n) ==
  LET named == Changed(m.entries, n.entries)
  IN named \cup Mark(m.digest # n.digest /\ named = {}, "[DIRTY_OVERFLOW]")

DirtyDrift(m, n) ==
  LET named == Changed(m.entries, n.entries)
  IN named \cup Mark(m.digest # n.digest /\ (named = {} \/ m.truncated \/ n.truncated),
                     "[DIRTY_OVERFLOW]")

\* The observer of the host's checks leaves test caches out, if both manifests
\* have recorded the identity it needs.
Recognised(m) == m.version = 2 /\ m.lasting.digest # {}

ObserveChangedPaths(m, n, verification) ==
  DirtyDrift(m.dirty, n.dirty)
  \cup (IF verification /\ Recognised(m) /\ Recognised(n)
        THEN IgnoredDrift(m.lasting, n.lasting) ELSE IgnoredDrift(m.ignored, n.ignored))
  \cup Mark(m.head # n.head, "[HEAD]") \cup Mark(m.index # n.index, "[INDEX]")
  \cup Mark(IsDrift(ClassifyMetadata(m, n, FALSE)), "[GIT_METADATA]")

\* What is not in the scope, markers included.
EvaluateScope(paths) == paths \ {"in"}

\* assertContextCompatible, against a fresh capture.
Compatible(m, n) ==
  /\ m.head = n.head /\ m.index = n.index
  /\ ~IsDrift(ClassifyMetadata(m, n, setting.managed))
  /\ m.dirty.digest = n.dirty.digest /\ m.ignored.digest = n.ignored.digest
  /\ m.upstream = n.upstream

-----------------------------------------------------------------------------
(* The checkout changes.                                                    *)

Alter(t) == /\ changes < MaxChanges /\ changes' = changes + 1 /\ tree' = t /\ t # tree
            /\ UNCHANGED <<setting, step, half, accepted, done, evidence, start, finish, turn>>

Values == {0, changes + 2}

\* Grok while it runs; the user between two captures.
Work ==
  /\ step \in {"accepted", "running", "judged"} /\ half = NoManifest
  /\ \/ \E f \in File, v \in Values : Alter([tree EXCEPT !.file[f] = v])
     \/ \E f \in File : Alter([tree EXCEPT !.index[f] = tree.file[f]])
     \/ \E f \in File : Alter([tree EXCEPT !.flags = (@ \ {f}) \cup ({f} \ @)])
     \/ Alter([tree EXCEPT !.head = changes + 1, !.ref["own"] = changes + 1])
     \/ Alter([tree EXCEPT !.config = changes + 1])
     \/ Alter([tree EXCEPT !.hooks = changes + 1])

\* An ignored file is removed, or written; the time of its last change can be put back.
Written(old) == {Gone, [stamp |-> changes + 2, data |-> changes + 2],
                 [old EXCEPT !.data = IF old = Gone THEN 0 ELSE changes + 2]}

LeaveIgnored ==
  /\ step \in {"accepted", "running", "judged", "checks"} /\ half = NoManifest
  /\ \E i \in Ignored : \E v \in Written(tree.ignored[i]) : Alter([tree EXCEPT !.ignored[i] = v])

\* Other worktrees, at any time: a branch moves, the upstream is fetched, the
\* references are packed.
Churn ==
  \/ \E r \in {"up", "other"} : Alter([tree EXCEPT !.ref[r] = changes + 1])
  \/ Alter([tree EXCEPT !.packed = ~tree.packed])

-----------------------------------------------------------------------------
(* The task.                                                                *)

\* Any call of git may fail; the capture goes on.
BeginCapture ==
  /\ step \in {"new", "accepted", "ran", "checks"} /\ half = NoManifest
  /\ \E failed \in {c \in SUBSET GitCall : Cardinality(c) <= MaxFailed} :
        half' = [at |-> tree, failed |-> failed]
  /\ UNCHANGED <<tree, setting, step, accepted, done, evidence, start, finish, turn, changes>>

\* The references are gone through a second time; they must not have moved.
RefsHold == tree.ref = half.at.ref
LooseRefsHold == tree.packed = half.at.packed

Captured(version) == Manifest(half, RefsHold /\ LooseRefsHold, version)

\* When git cannot be run, or says more than its buffer holds, the capture throws.
CaptureThrows ==
  /\ half # NoManifest /\ half' = NoManifest /\ step' = "broken"
  /\ UNCHANGED <<tree, setting, accepted, done, evidence, start, finish, turn, changes>>

Accept ==
  /\ step = "new" /\ half # NoManifest /\ half' = NoManifest
  /\ accepted' = Captured(setting.version) /\ start' = half /\ step' = "accepted"
  /\ UNCHANGED <<tree, setting, done, evidence, finish, turn, changes>>

\* Before Grok starts; the stored manifest stays the one to compare with.
Gate ==
  /\ step = "accepted" /\ half # NoManifest /\ half' = NoManifest
  /\ step' = IF Compatible(accepted, Captured(2)) THEN "running" ELSE "refused"
  /\ finish' = half /\ turn' = turn + 1
  /\ UNCHANGED <<tree, setting, accepted, done, evidence, start, changes>>

GrokEnds ==
  /\ step = "running" /\ step' = "ran"
  /\ UNCHANGED <<tree, setting, half, accepted, done, evidence, start, finish, turn, changes>>

Judge ==
  /\ step = "ran" /\ half # NoManifest /\ half' = NoManifest
  /\ done' = Captured(2) /\ finish' = half
  /\ evidence' = EvaluateScope(ObserveChangedPaths(accepted, Captured(2), FALSE))
  /\ step' = "judged"
  /\ UNCHANGED <<tree, setting, accepted, start, turn, changes>>

HostChecks ==
  /\ step = "judged" /\ step' = "checks"
  /\ UNCHANGED <<tree, setting, half, accepted, done, evidence, start, finish, turn, changes>>

\* The host's verification is recorded against the manifest of the completion.
RecordVerification ==
  /\ step = "checks" /\ half # NoManifest /\ half' = NoManifest
  /\ evidence' = ObserveChangedPaths(done, Captured(2), TRUE)
  /\ start' = finish /\ finish' = half /\ step' = "verified"
  /\ UNCHANGED <<tree, setting, accepted, done, turn, changes>>

\* A resumed task must find the checkout that it was completed with.
Resume ==
  /\ step = "judged" /\ turn < MaxTurns /\ step' = "accepted"
  /\ accepted' = done /\ done' = NoManifest /\ start' = finish /\ evidence' = {}
  /\ UNCHANGED <<tree, setting, half, finish, turn, changes>>

ContextNext ==
  \/ Work \/ LeaveIgnored \/ Churn
  \/ BeginCapture \/ CaptureThrows \/ Accept \/ Gate \/ GrokEnds \/ Judge \/ HostChecks
  \/ RecordVerification \/ Resume

ContextSpec == ContextInit /\ [][ContextNext]_contextVars

-----------------------------------------------------------------------------
\* What the task is answerable for, in the tree s and the tree t.
SameControls(s, t) == /\ s.config = t.config /\ s.hooks = t.hooks /\ s.flags = t.flags
                      /\ Keep(s.ref, Relevant) = Keep(t.ref, Relevant)
Same(s, t) == s.head = t.head /\ s.index = t.index /\ SameControls(s, t)

\* What the readings s and t, if nothing is reported of them, leave no doubt of.  A
\* call that fails in both may hide what it was to tell; git status hides all that
\* is dirty when it fails in one.
BothFail(s, t) == s.failed \cap t.failed
SameTask(s, t) == /\ "head"  \in BothFail(s, t) \/ s.at.head  = t.at.head
                  /\ "stage" \in BothFail(s, t) \/ s.at.index = t.at.index
                  /\ SameControls(s.at, t.at)
SameFile(s, t, f) == \/ "status" \in s.failed \cup t.failed
                     \/ BothFail(s, t) \cap {"stage", f} # {}
                     \/ s.at.file[f] = t.at.file[f]
SameIgnored(s, t, names) ==
  \/ "ignored" \in BothFail(s, t)
  \/ \A f \in Listed(s.at, names) \cup Listed(t.at, names) :
       /\ s.at.ignored[f].stamp = t.at.ignored[f].stamp
       /\ f \in Hashed(s.at, names) \cup Hashed(t.at, names)
            => s.at.ignored[f].data = t.at.ignored[f].data

\* A write outside of the scope cannot hide: not behind an index flag, not among more
\* dirty or ignored files than are kept one by one, not under a reference that moves
\* meanwhile (observeChangedPaths, evaluateScope); the host's checks may leave nothing
\* but test caches.  It can in three ways: in an ignored file behind the first
\* MaxPaths, in one behind the budget of bytes when its size and time are put back,
\* and where a call of git that was to see it fails.  (A manifest of version 1 knows
\* neither index flags nor hooks outside of the repository.)
NoHiddenWrite ==
  /\ step = "judged" /\ evidence = {}
     /\ (\/ accepted.version = 2
         \/ /\ start.at.flags \cup finish.at.flags = {} /\ start.at.hooks = finish.at.hooks
            /\ "metadata" \notin BothFail(start, finish))
       => /\ SameTask(start, finish) /\ SameFile(start, finish, "out")
          /\ SameIgnored(start, finish, Ignored)
  /\ step = "verified" /\ evidence = {}
       => /\ SameTask(start, finish) /\ SameIgnored(start, finish, Lasting)
          /\ \A f \in File : SameFile(start, finish, f)

\* Nobody is accused of what other worktrees do: in a linked worktree, and in a
\* primary one that only supervises, a moved or packed reference that is not the
\* task's own leaves no evidence and does not stop a task from being started or
\* resumed, as long as both captures could attribute their references and the same
\* calls of git have failed in both.
NoFalseAlarm ==
  [][ /\ half # NoManifest /\ step' \in {"judged", "refused"}
      /\ setting.linked \/ (setting.managed /\ step' = "refused")
      /\ accepted.version = 2 /\ accepted.refs.attributable /\ Captured(2).refs.attributable
      /\ start.failed = half.failed /\ Same(start.at, half.at)
      /\ start.at.file = half.at.file /\ start.at.ignored = half.at.ignored
      => step' = "judged" /\ evidence' = {} ]_contextVars
=============================================================================
