----------------------------- MODULE JobRecords -----------------------------
(***************************************************************************)
(* The job records of a workspace of the local plugin (state.mjs): one       *)
(* private file per job, replaced by rename.  Admission, retention, the      *)
(* request to cancel and the start of a provider turn are transactions under *)
(* the lock of the workspace; an update of a record takes the lock of its     *)
(* job only.  Calls interleave at every file they read, write or unlink, and   *)
(* end with their process.  That a lock excludes its waiters and outlives no   *)
(* owner is the subject of StateLock; here it is taken in one step.           *)
(*                                                                           *)
(* The commands that run the jobs are not in the repository: what a job does *)
(* between two calls of the library is marked external.                      *)
(***************************************************************************)
EXTENDS Naturals, FiniteSets

CONSTANTS
  Job,         \* ids of jobs
  Lineage,     \* homes of the provider, which a job shares with the one it resumes
  Client,     \* processes that call the library
  NoJob,       \* no record, no parent, no owner of a lock
  Limit,       \* ordinary ended jobs that retention keeps
  MaxWork      \* bound on the calls that are begun

Writers == {"reader", "managed", "global", "invalid"}

Record == [writer : Writers, lineage : Lineage, parent : Job \cup {NoJob},
           status : {"active", "ended"}, cleaned : {"unset", "no", "yes"}]

ASSUME JobAssumption == NoJob \notin Job \cup Client \cup Record /\ Lineage # {}

VARIABLES
  record,      \* per job: its file, or NoJob
  marker,      \* jobs with the cancellation marker of their worker
  workspace,   \* the caller that holds the lock of the workspace
  held,        \* per job: the caller that holds its lock
  doing,       \* per caller: the call it is in
  runtime,     \* jobs with credentials and profile on disk
  busy,        \* jobs with a provider turn under way
  work         \* calls begun

jobVars == <<record, marker, workspace, held, doing, runtime, busy, work>>

Idle == [op |-> "idle"]
Existing == {j \in Job : record[j] # NoJob}
Active(r) == r.status = "active"

(***************************************************************************)
(* Admission.                                                              *)
(***************************************************************************)
(* A record without a usable lineage is an exclusive writer without one. *)
HasLineage(r) == r.writer # "invalid"
SameLineage(r, s) == HasLineage(r) /\ HasLineage(s) /\ r.lineage = s.lineage
Exclusive(r) == r.writer \in {"global", "invalid"}

(* An ended job does not fence its lineage. *)
ConflictsWhileActive(wanted, other) ==
  Active(other) /\ (SameLineage(wanted, other) \/ Exclusive(wanted) \/ Exclusive(other))

(* The execution root of a managed writer contains its id, so that two jobs *)
(* never have the same one.                                                 *)
Conflicts(wanted, other) ==
  IF Active(other)
  THEN SameLineage(wanted, other) \/ Exclusive(wanted) \/ Exclusive(other)
  ELSE other.cleaned # "yes" /\ (SameLineage(wanted, other) \/ other.writer = "invalid")

(***************************************************************************)
(* The calls.                                                              *)
(***************************************************************************)
MayBegin(c) == doing[c] = Idle /\ work < MaxWork
BeginCall(c, call) == work' = work + 1 /\ doing' = [doing EXCEPT ![c] = call]

Proceed(c, call) == doing' = [doing EXCEPT ![c] = call] /\ UNCHANGED work
Unlock(c) == held' = [j \in Job |-> IF held[j] = c THEN NoJob ELSE held[j]]
EndCall(c) ==
  /\ Proceed(c, Idle) /\ Unlock(c)
  /\ workspace' = IF workspace = c THEN NoJob ELSE workspace

EnterWorkspace(c) == MayBegin(c) /\ workspace = NoJob /\ workspace' = c

(* The list of the records: the names first, then one file after another. *)
Listing(op, wanted) ==
  [op |-> op, wanted |-> wanted, names |-> Existing, seen |-> {}]

(* Ids are random: an id is not used twice. *)
Unused == {j \in Job : /\ j \notin Existing \cup runtime \cup marker
                       /\ \A c \in Client : doing[c].op = "update" => doing[c].job # j}

BeginAdmit(c) ==
  /\ EnterWorkspace(c) /\ Unused # {}
  /\ \E w \in Writers, l \in Lineage, p \in Existing \cup {NoJob} :
    /\ Existing = {} => l = CHOOSE x \in Lineage : TRUE   \* the names of lineages say nothing
    /\ p # NoJob => HasLineage(record[p]) /\ l = record[p].lineage /\ w # "invalid"
    /\ BeginCall(c, Listing("admit", [job |-> CHOOSE j \in Unused : TRUE, writer |-> w,
                                     lineage |-> l, parent |-> p]))
  /\ UNCHANGED <<record, marker, held, runtime, busy>>

BeginRetain(c) ==
  /\ EnterWorkspace(c)
  /\ BeginCall(c, Listing("retain", NoJob))
  /\ UNCHANGED <<record, marker, held, runtime, busy>>

(* A file that is gone by now makes the list, and the call with it, fail. *)
ReadListed(c) ==
  /\ doing[c].op \in {"admit", "retain"}
  /\ \E j \in doing[c].names :
       IF record[j] = NoJob
       THEN EndCall(c)
       ELSE /\ Proceed(c, [doing[c] EXCEPT !.names = @ \ {j},
                                      !.seen = @ \cup {[job |-> j, record |-> record[j]]}])
            /\ UNCHANGED <<workspace, held>>
  /\ UNCHANGED <<record, marker, runtime, busy>>

Admit(c) ==
  LET call == doing[c]
      wanted == call.wanted
  IN /\ call.op = "admit" /\ call.names = {}
     /\ IF \E e \in call.seen : Conflicts(wanted, e.record)
        THEN UNCHANGED record
        ELSE record' = [record EXCEPT ![wanted.job] =
               [writer |-> wanted.writer, lineage |-> wanted.lineage,
                parent |-> wanted.parent, status |-> "active", cleaned |-> "unset"]]
     /\ EndCall(c)
     /\ UNCHANGED <<marker, runtime, busy>>

(***************************************************************************)
(* Retention.                                                              *)
(***************************************************************************)
Ordinary(list) == {e.job : e \in {e \in list : ~Active(e.record) /\ e.record.cleaned # "no"}}

(* The kept jobs alone, without those they resume. *)
KeptAlone(list, kept) == kept

(* Everything the kept jobs resume, at any distance: the least set that has them *)
(* and, with a listed job, the one it resumes.                                *)
Ancestors(list, kept) ==
  LET Closed(T) == \A e \in list : e.job \in T => e.record.parent \in T \cup {NoJob}
  IN {j \in Job : \A T \in SUBSET Job : kept \subseteq T /\ Closed(T) => j \in T}

(* Active jobs, ended ones that are not clean, and some of the others are kept. *)
Removable(list, some) ==
  LET others == {e.job : e \in list} \ Ordinary(list)
  IN Ordinary(list) \ Ancestors(list, others \cup some)

Retain(c) ==
  LET call == doing[c]
      list == call.seen
      ordinary == Ordinary(list)
      active == Cardinality({e \in list : Active(e.record)})
      room == IF active >= Limit THEN 0 ELSE Limit - active
  IN /\ call.op = "retain" /\ call.names = {}
     /\ \E some \in SUBSET ordinary :
          /\ Cardinality(some) = IF room < Cardinality(ordinary) THEN room
                                 ELSE Cardinality(ordinary)
          /\ Proceed(c, [op |-> "remove", jobs |-> Removable(list, some), rest |-> NoJob])
     /\ UNCHANGED <<record, marker, workspace, held, runtime, busy>>

(* The record of a job is unlinked first, its marker after that. *)
Unlink(c) ==
  LET call == doing[c]
  IN /\ call.op = "remove"
     /\ IF call.rest # NoJob
        THEN /\ marker' = marker \ {call.rest}
             /\ Proceed(c, [call EXCEPT !.rest = NoJob])
             /\ UNCHANGED <<record, workspace, held>>
        ELSE IF call.jobs = {}
        THEN EndCall(c) /\ UNCHANGED <<record, marker>>
        ELSE \E j \in call.jobs :
               /\ record' = [record EXCEPT ![j] = NoJob]
               /\ Proceed(c, [call EXCEPT !.jobs = @ \ {j}, !.rest = j])
               /\ UNCHANGED <<marker, workspace, held>>
     /\ UNCHANGED <<runtime, busy>>

(***************************************************************************)
(* Updates, cancellation and turns.                                        *)
(***************************************************************************)
(* What the commands change in a record: they end the job, record that its  *)
(* runtime is gone, or note something else.                                 *)
Mutated(j, r, what) ==
  CASE what = "end" /\ Active(r) /\ j \notin busy ->
         [r EXCEPT !.status = "ended", !.cleaned = IF j \in runtime THEN "no" ELSE "unset"]
    [] what = "clean" /\ ~Active(r) /\ r.cleaned = "no" /\ j \notin runtime ->
         [r EXCEPT !.cleaned = "yes"]
    [] OTHER -> r

(* An update waits for the lock of its job; the record must exist. *)
ReadForUpdate(c, j, what) ==
  /\ held[j] = NoJob
  /\ held' = [held EXCEPT ![j] = c]
  /\ record[j] # NoJob

BeginUpdate(c) ==
  /\ MayBegin(c)
  /\ \E j \in Job, what \in {"end", "clean", "note"} :
    /\ ReadForUpdate(c, j, what)
    /\ BeginCall(c, [op |-> "update", job |-> j, next |-> Mutated(j, record[j], what)])
    /\ UNCHANGED <<record, marker, workspace, runtime, busy>>

FinishUpdate(c) ==
  LET call == doing[c]
  IN /\ call.op = "update"
     /\ record' = [record EXCEPT ![call.job] = call.next]
     /\ EndCall(c)
     /\ UNCHANGED <<marker, runtime, busy>>

(* The marker is not ordered with the admission of turns. *)
BeginCancelUnlocked(c) ==
  \E j \in Existing :
    /\ MayBegin(c) /\ Active(record[j]) /\ UNCHANGED workspace
    /\ BeginCall(c, [op |-> "cancel", job |-> j])
    /\ UNCHANGED <<record, marker, held, runtime, busy>>

BeginCancel(c) ==
  \E j \in Existing :
    /\ Active(record[j]) /\ EnterWorkspace(c)
    /\ BeginCall(c, [op |-> "cancel", job |-> j])
    /\ UNCHANGED <<record, marker, held, runtime, busy>>

FinishCancel(c) ==
  /\ doing[c].op = "cancel"
  /\ marker' = marker \cup {doing[c].job}
  /\ EndCall(c)
  /\ UNCHANGED <<record, runtime, busy>>

(* A worker asks for its marker and then starts the turn in its record. *)
BeginTurn(c) ==
  \E j \in Existing \cap runtime :
    /\ j \notin busy /\ EnterWorkspace(c)
    /\ BeginCall(c, [op |-> "turn", job |-> j])
    /\ UNCHANGED <<record, marker, held, runtime, busy>>

CheckMarker(c) ==
  LET call == doing[c]
  IN /\ call.op = "turn"
     /\ IF call.job \in marker THEN EndCall(c)
        ELSE Proceed(c, [call EXCEPT !.op = "start"]) /\ UNCHANGED <<workspace, held>>
     /\ UNCHANGED <<record, marker, runtime, busy>>

StartTurn(c) ==
  LET j == doing[c].job
  IN /\ doing[c].op = "start" /\ held[j] = NoJob
     /\ busy' = IF record[j] # NoJob /\ Active(record[j]) THEN busy \cup {j} ELSE busy
     /\ EndCall(c)
     /\ UNCHANGED <<record, marker, runtime>>

(* External: the work of a job between its calls. *)
(* The process that ends a job is its worker, or has stopped it: nothing is     *)
(* prepared for a job whose end is being written.                              *)
Ending(j) == \E c \in Client : doing[c].op = "update" /\ doing[c].job = j /\ ~Active(doing[c].next)

PrepareRuntime(j) ==
  /\ record[j] # NoJob /\ Active(record[j]) /\ j \notin runtime /\ ~Ending(j)
  /\ runtime' = runtime \cup {j}
  /\ UNCHANGED <<record, marker, workspace, held, doing, busy, work>>

TurnEnds(j) ==
  /\ j \in busy
  /\ busy' = busy \ {j}
  /\ UNCHANGED <<record, marker, workspace, held, doing, runtime, work>>

CleanRuntime(j) ==
  /\ j \in runtime /\ record[j] # NoJob /\ ~Active(record[j])
  /\ runtime' = runtime \ {j}
  /\ UNCHANGED <<record, marker, workspace, held, doing, busy, work>>

CallDies(c) ==
  /\ doing[c] # Idle
  /\ EndCall(c)
  /\ UNCHANGED <<record, marker, runtime, busy>>

(* The workspace is new, or a job of an earlier session is in it. *)
Earlier ==
  [writer |-> "managed", lineage |-> CHOOSE l \in Lineage : TRUE, parent |-> NoJob,
   status |-> "ended", cleaned |-> "yes"]

JobsInit ==
  /\ \E old \in {{}, {CHOOSE j \in Job : TRUE}} :
       record = [j \in Job |-> IF j \in old THEN Earlier ELSE NoJob]
  /\ marker = {} /\ workspace = NoJob
  /\ held = [j \in Job |-> NoJob] /\ doing = [c \in Client |-> Idle]
  /\ runtime = {} /\ busy = {} /\ work = 0

JobsNext ==
  \/ \E c \in Client :
       \/ BeginAdmit(c) \/ BeginRetain(c) \/ ReadListed(c) \/ Admit(c) \/ Retain(c)
       \/ Unlink(c) \/ BeginUpdate(c) \/ FinishUpdate(c) \/ BeginCancel(c)
       \/ FinishCancel(c) \/ BeginTurn(c) \/ CheckMarker(c) \/ StartTurn(c) \/ CallDies(c)
  \/ \E j \in Job : PrepareRuntime(j) \/ TurnEnds(j) \/ CleanRuntime(j)
-----------------------------------------------------------------------------
(* No two jobs have a runtime in one home of the provider, and a writer whose *)
(* root is not its own works alone (admitJob, state.mjs 1366-1451: "A terminal *)
(* lineage remains fenced until its transient runtime cleanup is durably       *)
(* complete").                                                                 *)
RuntimeIsExclusive ==
  \A i, j \in runtime : i # j =>
    /\ record[i] # NoJob /\ record[j] # NoJob => ~SameLineage(record[i], record[j])
    /\ i \in busy /\ j \in busy => ~Exclusive(record[i])

(* A turn never starts once the marker of its worker is there: cancellation   *)
(* and the admission of a turn have one order (state.mjs 1554-1558).           *)
NoTurnAfterCancel == [][\A j \in marker : j \in busy' => j \in busy]_jobVars

(* Retention never takes away the job that an active one resumes (retain,     *)
(* state.mjs 1490-1530), whatever else is written meanwhile.                   *)
ResumedParentIsKept ==
  \A j \in Existing : Active(record[j]) /\ record[j].parent # NoJob =>
    record[record[j].parent] # NoJob
=============================================================================
