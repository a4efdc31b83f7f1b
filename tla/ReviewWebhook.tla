---------------------------- MODULE ReviewWebhook ---------------------------
(***************************************************************************)
(* The webhook side of the Worker (handleWebhook and routeWebhookEvent in  *)
(* webhook.mjs).  GitHub delivers an event under a delivery id, perhaps    *)
(* late, out of order or again; the Worker records the delivery, runs the  *)
(* statements its event asks for one after the other, and records that it  *)
(* was processed.  It may die in between: a delivery that is delivered     *)
(* again and was admitted but not processed is routed again.               *)
(***************************************************************************)
EXTENDS ReviewStore, Sequences

CONSTANTS
  Delivery,       \* delivery ids
  EventOf,        \* what each delivery says: [kind, key, parent, sel, repos]
  Handler,        \* handlers that may run at once
  MaxHookCrashes  \* bound: handlers that die half way

\* kind is "review" (pull_request or issue_comment, after its filters), "rerun"
\* (check_run of the check of parent), or an installation event.
InstallationKind == {"deleted", "suspend", "unsuspend", "created", "new_permissions_accepted"}
RepositoryKind   == {"added", "removed"}

ASSUME EventAssumption ==
  /\ EventOf \in [Delivery -> [kind : {"review", "rerun"} \cup InstallationKind
                                        \cup RepositoryKind,
                               key : Key, parent : Key,
                               sel : {"all", "selected"}, repos : Seq(Repo)]]
  /\ None \notin Delivery
  /\ MaxHookCrashes \in Nat

VARIABLES
  delivery,     \* webhook_deliveries.status, "new" when there is no row
  handling,     \* the delivery a handler works on, or None
  program,      \* the statements it has still to run; "route" before it knows them
  hookCrashes

webhookVars == <<delivery, handling, program, hookCrashes>>

Route == <<[op |-> "route"]>>

WebhookTypeOK ==
  /\ delivery \in [Delivery -> {"new", "admitted", "processed"}]
  /\ handling \in [Handler -> Delivery \cup {None}]
  /\ \A h \in Handler : program[h] # <<>> => handling[h] # None
  /\ hookCrashes \in 0..MaxHookCrashes

WebhookInit ==
  /\ delivery = [d \in Delivery |-> "new"]
  /\ handling = [h \in Handler |-> None]
  /\ program = [h \in Handler |-> <<>>]
  /\ hookCrashes = 0

-----------------------------------------------------------------------------
(* What the router decides to run, from the event and the rows it reads.   *)

Upsert(st, sel)   == [op |-> "upsert", state |-> st, sel |-> sel]
Ensure(sel)       == [op |-> "ensure", sel |-> sel]
SetSelection(sel) == [op |-> "set_selection", sel |-> sel]
ClearRepos        == [op |-> "clear"]
DeleteRow         == [op |-> "delete"]
AddRepo(r)        == [op |-> "add", repo |-> r]
RemoveRepo(r)     == [op |-> "remove", repo |-> r]
SupersedeAll      == [op |-> "supersede_all"]
SupersedeRepo(r)  == [op |-> "supersede_repo", repo |-> r]
RepairJobs        == [op |-> "repair"]
AdmitRequest(k)   == [op |-> "admit", key |-> k]

When(condition, s) == IF condition THEN <<s>> ELSE <<>>

\* A row says "all" and the event says "selected".
Narrowed(e) == instState # "absent" /\ selection = "all" /\ e.sel = "selected"

AddAll(rs)    == [i \in 1..Len(rs) |-> AddRepo(rs[i])]
RemoveAll(rs) == [i \in 1..2*Len(rs) |-> IF i % 2 = 1 THEN RemoveRepo(rs[(i + 1) \div 2])
                                          ELSE SupersedeRepo(rs[i \div 2])]

\* handleInstallation.
InstallationProgram(e) ==
  CASE e.kind = "deleted" -> <<SupersedeAll, ClearRepos, DeleteRow>>
    [] e.kind = "suspend" -> <<Upsert("suspended", e.sel), SupersedeAll>>
    [] OTHER -> <<Upsert("active", e.sel)>>
                  \o When(e.sel = "selected" /\ (e.kind = "created" \/ Narrowed(e)), ClearRepos)
                  \o AddAll(e.repos)
                  \o When(Narrowed(e), RepairJobs)

\* Mutant of RepositoriesProgram: the selection is written before the clearing.
SelectThenClear(e) ==
  <<Ensure(e.sel)>>
    \o When(instState # "absent" /\ selection # e.sel, SetSelection(e.sel))
    \o When(Narrowed(e), ClearRepos)
    \o (IF e.kind = "added" THEN AddAll(e.repos) ELSE RemoveAll(e.repos))

\* handleInstallationRepositories.
RepositoriesProgram(e) ==
  <<Ensure(e.sel)>>
    \o When(Narrowed(e), ClearRepos)
    \o When(instState # "absent" /\ selection # e.sel, SetSelection(e.sel))
    \o (IF e.sel # "selected" THEN <<>>
        ELSE IF e.kind = "added" THEN AddAll(e.repos) ELSE RemoveAll(e.repos))
    \o When(Narrowed(e), RepairJobs)

\* admitAndQueueReview; handleCheckRun requires that the check of the parent
\* request is the one on record.
ReviewProgram(e) ==
  When(/\ RepoAuthorized(KeyRepo(e.key))
       /\ e.kind = "rerun" => checkBound[e.parent] /\ PullOf[e.parent] = PullOf[e.key],
       AdmitRequest(e.key))

ProgramOf(e) == CASE e.kind \in InstallationKind -> InstallationProgram(e)
                  [] e.kind \in RepositoryKind   -> RepositoriesProgram(e)
                  [] OTHER                       -> ReviewProgram(e)

\* One statement.  The rows of installation_repositories refer to a row of
\* installations: adding one without it fails (see StatementFails).
Execute(s) ==
  \/ s.op = "upsert" /\ WriteInstallation(s.state, s.sel, instRepos)
  \/ s.op = "ensure" /\ IF instState = "absent"
                          THEN WriteInstallation("suspended", s.sel, instRepos)
                          ELSE UNCHANGED storeVars
  \/ s.op = "set_selection" /\ IF instState = "absent"
                                 THEN UNCHANGED storeVars
                                 ELSE WriteInstallation(instState, s.sel, instRepos)
  \/ s.op = "clear"  /\ WriteInstallation(instState, selection, {})
  \/ s.op = "delete" /\ WriteInstallation("absent", "selected", {})
  \/ s.op = "add"    /\ instState # "absent"
                     /\ WriteInstallation(instState, selection, instRepos \cup {s.repo})
  \/ s.op = "remove" /\ WriteInstallation(instState, selection, instRepos \ {s.repo})
  \/ s.op = "supersede_all"  /\ SupersedeInstallationRequests
  \/ s.op = "supersede_repo" /\ SupersedeRepositoryRequests(s.repo)
  \/ s.op = "repair" /\ IF paused THEN UNCHANGED storeVars ELSE RepairOutboxJobs(epoch)
  \/ s.op = "admit"  /\ AdmitReviewRequestWithOutbox(s.key)

-----------------------------------------------------------------------------
(* handleWebhook.                                                          *)

\* Mutant of Receive: the delivery counts as processed at once.
ReceiveAsProcessed(h, d) ==
  /\ handling[h] = None
  /\ delivery[d] # "processed"
  /\ delivery' = [delivery EXCEPT ![d] = "processed"]
  /\ handling' = [handling EXCEPT ![h] = d]
  /\ program' = [program EXCEPT ![h] = Route]
  /\ UNCHANGED <<hookCrashes, storeVars>>

\* admitDelivery: a new or unfinished delivery is routed, a processed one is a
\* replay without effect.
Receive(h, d) ==
  /\ handling[h] = None
  /\ delivery[d] # "processed"
  /\ delivery' = [delivery EXCEPT ![d] = "admitted"]
  /\ handling' = [handling EXCEPT ![h] = d]
  /\ program' = [program EXCEPT ![h] = Route]
  /\ UNCHANGED <<hookCrashes, storeVars>>

\* routeWebhookEvent: the reads that decide.
RouteEvent(h) ==
  /\ program[h] = Route
  /\ program' = [program EXCEPT ![h] = ProgramOf(EventOf[handling[h]])]
  /\ UNCHANGED <<delivery, handling, hookCrashes, storeVars>>

RunStatement(h) ==
  /\ program[h] # <<>> /\ program[h] # Route
  /\ Execute(Head(program[h]))
  /\ program' = [program EXCEPT ![h] = Tail(@)]
  /\ UNCHANGED <<delivery, handling, hookCrashes>>

MarkProcessed(h) ==
  /\ handling[h] # None /\ program[h] = <<>>
  /\ delivery' = [delivery EXCEPT ![handling[h]] = "processed"]
  /\ handling' = [handling EXCEPT ![h] = None]
  /\ UNCHANGED <<program, hookCrashes, storeVars>>

Forget(h) == /\ handling' = [handling EXCEPT ![h] = None]
             /\ program' = [program EXCEPT ![h] = <<>>]
             /\ UNCHANGED <<delivery, storeVars>>

\* The foreign key makes the statement throw: the answer is an error, and the
\* delivery stays admitted.
StatementFails(h) ==
  /\ program[h] # <<>> /\ Head(program[h]).op = "add" /\ instState = "absent"
  /\ Forget(h) /\ UNCHANGED hookCrashes

HandlerDies(h) ==
  /\ handling[h] # None /\ hookCrashes < MaxHookCrashes
  /\ hookCrashes' = hookCrashes + 1
  /\ Forget(h)

WebhookStep(h) ==
  \/ \E d \in Delivery : Receive(h, d)
  \/ RouteEvent(h) \/ RunStatement(h) \/ MarkProcessed(h)
  \/ StatementFails(h) \/ HandlerDies(h)

=============================================================================
