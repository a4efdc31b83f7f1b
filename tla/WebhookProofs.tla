--------------------------- MODULE WebhookProofs ---------------------------
(***************************************************************************)
(* The webhook handlers run statements of the store and nothing else, and  *)
(* an answered review event has left its request behind.                   *)
(***************************************************************************)
EXTENDS WebhookSystem, ReviewStoreProofs, SequenceTheorems, FiniteSetTheorems

\* What a handler can find in its program.
Statement ==
  [op : {"route", "clear", "delete", "supersede_all", "repair"}]
    \cup [op : {"upsert"}, state : {"active", "suspended"}, sel : {"all", "selected"}]
    \cup [op : {"ensure", "set_selection"}, sel : {"all", "selected"}]
    \cup [op : {"add", "remove", "supersede_repo"}, repo : Repo]
    \cup [op : {"admit"}, key : Key]

HandlersTyped ==
  /\ delivery \in [Delivery -> {"new", "admitted", "processed"}]
  /\ handling \in [Handler -> Delivery \cup {None}]
  /\ program \in [Handler -> Seq(Statement)]
  /\ \A h \in Handler : program[h] # <<>> => handling[h] \in Delivery

\* The tables of the store before the first event: any installation, no request.
Start == StoreInit /\ WebhookInit /\ overlapped = FALSE

-----------------------------------------------------------------------------
(* The programs the router writes.                                         *)

LEMMA StatementsTyped ==
  /\ \A st \in {"active", "suspended"}, sel \in {"all", "selected"} : Upsert(st, sel) \in Statement
  /\ \A sel \in {"all", "selected"} : Ensure(sel) \in Statement /\ SetSelection(sel) \in Statement
  /\ \A r \in Repo : /\ AddRepo(r) \in Statement
                     /\ RemoveRepo(r) \in Statement
                     /\ SupersedeRepo(r) \in Statement
  /\ \A k \in Key : AdmitRequest(k) \in Statement
  /\ {ClearRepos, DeleteRow, SupersedeAll, RepairJobs, [op |-> "route"]} \subseteq Statement
  BY DEF Statement, Upsert, Ensure, SetSelection, AddRepo, RemoveRepo, SupersedeRepo, AdmitRequest,
         ClearRepos, DeleteRow, SupersedeAll, RepairJobs

LEMMA WhenTyped ==
  ASSUME NEW c, NEW s \in Statement
  PROVE  When(c, s) \in Seq(Statement)
  BY DEF When

LEMMA AddAllTyped ==
  ASSUME NEW rs \in Seq(Repo)
  PROVE  AddAll(rs) \in Seq(Statement)
  <1>1. Len(rs) \in Nat /\ \A i \in 1..Len(rs) : rs[i] \in Repo
    BY LenProperties, ElementOfSeq
  <1>2. \A i \in 1..Len(rs) : AddRepo(rs[i]) \in Statement
    BY <1>1, StatementsTyped
  <1>3. AddAll(rs) \in [1..Len(rs) -> Statement]
    BY <1>2 DEF AddAll
  <1>4. QED
    BY <1>1, <1>3

LEMMA RemoveAllTyped ==
  ASSUME NEW rs \in Seq(Repo)
  PROVE  RemoveAll(rs) \in Seq(Statement)
  <1>1. Len(rs) \in Nat /\ \A i \in 1..Len(rs) : rs[i] \in Repo
    BY LenProperties, ElementOfSeq
  <1>2. ASSUME NEW i \in 1..2*Len(rs)
        PROVE  (IF i % 2 = 1 THEN RemoveRepo(rs[(i + 1) \div 2]) ELSE SupersedeRepo(rs[i \div 2]))
                 \in Statement
    <2>1. CASE i % 2 = 1
      <3>1. (i + 1) \div 2 \in 1..Len(rs)
        BY <1>1, <2>1
      <3>2. rs[(i + 1) \div 2] \in Repo
        BY <1>1, <3>1
      <3>3. QED
        BY <2>1, <3>2, StatementsTyped
    <2>2. CASE i % 2 # 1
      <3>1. i \div 2 \in 1..Len(rs)
        BY <1>1, <2>2
      <3>2. rs[i \div 2] \in Repo
        BY <1>1, <3>1
      <3>3. QED
        BY <2>2, <3>2, StatementsTyped
    <2>3. QED
      BY <2>1, <2>2
  <1>3. RemoveAll(rs) \in [1..2*Len(rs) -> Statement]
    BY <1>2 DEF RemoveAll
  <1>4. 2*Len(rs) \in Nat
    BY <1>1
  <1>5. QED
    BY <1>3, <1>4

LEMMA ProgramTyped ==
  ASSUME NEW d \in Delivery
  PROVE  ProgramOf(EventOf[d]) \in Seq(Statement)
  <1> DEFINE e == EventOf[d]
  <1>1. /\ e.key \in Key /\ e.sel \in {"all", "selected"} /\ e.repos \in Seq(Repo)
        /\ e.kind \in {"review", "rerun"} \cup InstallationKind \cup RepositoryKind
    BY EventAssumption
  <1> HIDE DEF e
  <1>2. InstallationProgram(e) \in Seq(Statement)
    <2>1. <<SupersedeAll, ClearRepos, DeleteRow>> \in Seq(Statement)
      BY StatementsTyped
    <2>2. <<Upsert("suspended", e.sel), SupersedeAll>> \in Seq(Statement)
      BY <1>1, StatementsTyped
    <2>3. <<Upsert("active", e.sel)>> \in Seq(Statement)
      BY <1>1, StatementsTyped
    <2> DEFINE a == <<Upsert("active", e.sel)>>
               b == When(e.sel = "selected" /\ (e.kind = "created" \/ Narrowed(e)), ClearRepos)
               c == AddAll(e.repos)
               f == When(Narrowed(e), RepairJobs)
    <2>4. b \in Seq(Statement) /\ c \in Seq(Statement) /\ f \in Seq(Statement)
      BY <1>1, StatementsTyped, WhenTyped, AddAllTyped
    <2>5. a \o b \o c \o f \in Seq(Statement)
      <3> HIDE DEF a, b, c, f
      <3>0. a \in Seq(Statement)
        BY <2>3 DEF a
      <3>1. a \o b \in Seq(Statement)
        BY <3>0, <2>4, ConcatProperties
      <3>2. a \o b \o c \in Seq(Statement)
        BY <3>1, <2>4, ConcatProperties
      <3>3. QED
        BY <3>2, <2>4, ConcatProperties
    <2>6. QED
      BY <2>1, <2>2, <2>5 DEF InstallationProgram
  <1>3. RepositoriesProgram(e) \in Seq(Statement)
    <2> DEFINE a == <<Ensure(e.sel)>>
               b == When(Narrowed(e), ClearRepos)
               c == When(instState # "absent" /\ selection # e.sel, SetSelection(e.sel))
               f == IF e.sel # "selected" THEN <<>>
                    ELSE IF e.kind = "added" THEN AddAll(e.repos) ELSE RemoveAll(e.repos)
               g == When(Narrowed(e), RepairJobs)
    <2>1. a \in Seq(Statement) /\ b \in Seq(Statement) /\ c \in Seq(Statement) /\ g \in Seq(Statement)
      BY <1>1, StatementsTyped, WhenTyped
    <2>2. f \in Seq(Statement)
      <3>1. AddAll(e.repos) \in Seq(Statement) /\ RemoveAll(e.repos) \in Seq(Statement)
        BY <1>1, AddAllTyped, RemoveAllTyped
      <3>2. QED
        BY <3>1
    <2>3. a \o b \o c \o f \o g \in Seq(Statement)
      <3> HIDE DEF a, b, c, f, g
      <3>1. a \o b \in Seq(Statement)
        BY <2>1, ConcatProperties
      <3>2. a \o b \o c \in Seq(Statement)
        BY <3>1, <2>1, ConcatProperties
      <3>3. a \o b \o c \o f \in Seq(Statement)
        BY <3>2, <2>2, ConcatProperties
      <3>4. QED
        BY <3>3, <2>1, ConcatProperties
    <2>4. QED
      BY <2>3 DEF RepositoriesProgram
  <1>4. ReviewProgram(e) \in Seq(Statement)
    BY <1>1, StatementsTyped, WhenTyped DEF ReviewProgram
  <1>5. QED
    BY <1>2, <1>3, <1>4 DEF ProgramOf, e

-----------------------------------------------------------------------------
(* Each step is a statement of the store, or none.                         *)

\* What a handler executes is one statement of db.mjs, or changes nothing.
LEMMA ExecuteIsStore ==
  ASSUME StoreTypeOK, NEW s \in Statement, Execute(s)
  PROVE  [StoreNext]_storeVars
  <1> DEFINE Written == \E st \in {"absent", "active", "suspended"}, sel \in {"all", "selected"},
                           repos \in SUBSET Repo : WriteInstallation(st, sel, repos)
  <1>0. /\ instState \in {"absent", "active", "suspended"} /\ selection \in {"all", "selected"}
        /\ instRepos \in SUBSET Repo /\ {} \in SUBSET Repo
    BY DEF StoreTypeOK
  <1>1. Written => StoreNext
    BY Zenon DEF StoreNext
  <1>2. ASSUME s.op = "upsert", WriteInstallation(s.state, s.sel, instRepos) PROVE Written
    <2>1. s.state \in {"active", "suspended"} /\ s.sel \in {"all", "selected"}
      BY <1>2 DEF Statement
    <2>2. QED
      BY <1>0, <1>2, <2>1
  <1>3. ASSUME s.op = "ensure", WriteInstallation("suspended", s.sel, instRepos) PROVE Written
    <2>1. s.sel \in {"all", "selected"}
      BY <1>3 DEF Statement
    <2>2. QED
      BY <1>0, <1>3, <2>1
  <1>4. ASSUME s.op = "set_selection", WriteInstallation(instState, s.sel, instRepos) PROVE Written
    <2>1. s.sel \in {"all", "selected"}
      BY <1>4 DEF Statement
    <2>2. QED
      BY <1>0, <1>4, <2>1
  <1>5. WriteInstallation(instState, selection, {}) => Written
    BY <1>0
  <1>6. WriteInstallation("absent", "selected", {}) => Written
    BY <1>0
  <1>7. ASSUME s.op = "add", WriteInstallation(instState, selection, instRepos \cup {s.repo}) PROVE Written
    <2>1. instRepos \cup {s.repo} \in SUBSET Repo
      BY <1>0, <1>7 DEF Statement
    <2>2. QED
      BY <1>0, <1>7, <2>1
  <1>8. ASSUME s.op = "remove", WriteInstallation(instState, selection, instRepos \ {s.repo}) PROVE Written
    <2>1. instRepos \ {s.repo} \in SUBSET Repo
      BY <1>0
    <2>2. QED
      BY <1>0, <1>8, <2>1
  <1>9. SupersedeInstallationRequests \/ RepairOutboxJobs(epoch) => StoreNext
    BY Zenon DEF StoreNext
  <1>10. ASSUME s.op = "supersede_repo", SupersedeRepositoryRequests(s.repo) PROVE StoreNext
    <2>1. s.repo \in Repo
      BY <1>10 DEF Statement
    <2>2. QED
      BY <1>10, <2>1, Zenon DEF StoreNext
  <1>11. ASSUME s.op = "admit", AdmitReviewRequestWithOutbox(s.key) PROVE StoreNext
    <2>1. s.key \in Key
      BY <1>11 DEF Statement
    <2>2. QED
      BY <1>11, <2>1, Zenon DEF StoreNext
  <1> HIDE DEF Written
  <1>12. QED
    BY <1>1, <1>2, <1>3, <1>4, <1>5, <1>6, <1>7, <1>8, <1>9, <1>10, <1>11 DEF Execute

LEMMA OthersAreStore == Others => [StoreNext]_storeVars
  BY DEF Others, StoreNext

\* A step of a handler writes the store by one statement at most.
LEMMA HandlerIsStore ==
  ASSUME StoreTypeOK, HandlersTyped, NEW h \in Handler, WebhookStep(h)
  PROVE  [StoreNext]_storeVars
  <1>1. ASSUME RunStatement(h) PROVE [StoreNext]_storeVars
    <2>1. program[h] \in Seq(Statement) /\ program[h] # <<>>
      BY <1>1 DEF HandlersTyped, RunStatement
    <2>2. Head(program[h]) \in Statement
      BY <2>1, HeadTailProperties
    <2>3. Execute(Head(program[h]))
      BY <1>1 DEF RunStatement
    <2>4. QED
      BY <2>2, <2>3, ExecuteIsStore
  <1>2. ASSUME ~RunStatement(h) PROVE UNCHANGED storeVars
    BY <1>2 DEF WebhookStep, Receive, RouteEvent, MarkProcessed, StatementFails, HandlerDies, Forget
  <1>3. QED
    BY <1>1, <1>2

LEMMA HandlersTypedInit == Start => HandlersTyped
  BY EmptySeq DEF Start, WebhookInit, HandlersTyped

\* A handler has a program only while it works on a delivery.
LEMMA HandlersTypedStep ==
  ASSUME HandlersTyped, [Next]_vars
  PROVE  HandlersTyped'
  <1>1. ASSUME NEW h \in Handler, WebhookStep(h) PROVE HandlersTyped'
    <2>1. <<>> \in Seq(Statement) /\ Route \in Seq(Statement)
      BY StatementsTyped DEF Route
    <2>2. ASSUME NEW d \in Delivery, Receive(h, d) PROVE HandlersTyped'
      BY <2>1, <2>2 DEF HandlersTyped, Receive
    <2>3. ASSUME RouteEvent(h) PROVE HandlersTyped'
      <3>1. handling[h] \in Delivery
        <4>1. Route # <<>>
          BY DEF Route
        <4>2. QED
          BY <2>3, <4>1 DEF HandlersTyped, RouteEvent
      <3>2. ProgramOf(EventOf[handling[h]]) \in Seq(Statement)
        BY <3>1, ProgramTyped
      <3>3. QED
        BY <2>3, <3>1, <3>2 DEF HandlersTyped, RouteEvent
    <2>4. ASSUME RunStatement(h) PROVE HandlersTyped'
      <3>1. Tail(program[h]) \in Seq(Statement) /\ handling[h] \in Delivery
        BY <2>4, HeadTailProperties DEF HandlersTyped, RunStatement
      <3>2. QED
        BY <2>4, <3>1 DEF HandlersTyped, RunStatement
    <2>5. ASSUME MarkProcessed(h) PROVE HandlersTyped'
      BY <2>5 DEF HandlersTyped, MarkProcessed
    <2>6. ASSUME Forget(h) PROVE HandlersTyped'
      BY <2>1, <2>6 DEF HandlersTyped, Forget
    <2>7. QED
      BY <1>1, <2>2, <2>3, <2>4, <2>5, <2>6 DEF WebhookStep, StatementFails, HandlerDies
  <1>2. ASSUME UNCHANGED webhookVars PROVE HandlersTyped'
    BY <1>2 DEF HandlersTyped, webhookVars
  <1>3. QED
    BY <1>1, <1>2 DEF Next, Others, vars

WebhookInv == StoreInv /\ HandlersTyped

LEMMA WebhookUses ==
  ASSUME WebhookInv, [Next]_vars
  PROVE  [StoreNext]_storeVars
  <1>1. StoreTypeOK /\ HandlersTyped
    BY DEF WebhookInv, StoreInv
  <1>2. QED
    BY <1>1, HandlerIsStore, OthersAreStore DEF Next, vars

LEMMA WebhookInvStep ==
  ASSUME WebhookInv, [Next]_vars
  PROVE  WebhookInv'
  BY WebhookUses, StoreInvStep, HandlersTypedStep DEF WebhookInv

\* Whatever events arrive in whatever order, and wherever a handler dies: the
\* webhook path (routeWebhookEvent) works on the database by the statements of
\* db.mjs alone, so everything the store guarantees holds of it.
THEOREM WebhookUsesStore ==
  Start /\ [][Next]_vars => StoreSpec
  <1>1. Start => StoreInit /\ WebhookInv
    BY HandlersTypedInit, StoreInvInit DEF Start, WebhookInv
  <1>2. WebhookInv /\ [Next]_vars => WebhookInv' /\ [StoreNext]_storeVars
    BY WebhookInvStep, WebhookUses
  <1>3. QED
    BY <1>1, <1>2, PTL DEF StoreSpec

-----------------------------------------------------------------------------
(* An answered review event is queued.                                     *)

\* Whenever a handler routes a review event, the repository is authorized.
RoutedWhenAuthorized ==
  \A h \in Handler : RouteEvent(h) /\ KindOf(handling[h]) = "review"
                       => RepoAuthorized(KeyRepo(EventOf[handling[h]].key))

\* How far a handler has come with a review event.
ReviewUnderWay(h) ==
  LET k == EventOf[handling[h]].key
  IN \/ program[h] = Route
     \/ program[h] = <<AdmitRequest(k)>>
     \/ program[h] = <<>> /\ status[k] # "absent"

ReviewsUnderWay ==
  \A h \in Handler : handling[h] \in Delivery /\ KindOf(handling[h]) = "review" => ReviewUnderWay(h)

QueueInv == WebhookInv /\ ReviewsUnderWay /\ ProcessedReviewIsQueued

\* A review that is routed while its repository is authorized is one statement.
LEMMA ReviewIsOneStatement ==
  ASSUME NEW d \in Delivery, KindOf(d) = "review", RepoAuthorized(KeyRepo(EventOf[d].key))
  PROVE  ProgramOf(EventOf[d]) = <<AdmitRequest(EventOf[d].key)>>
  BY DEF ProgramOf, InstallationKind, RepositoryKind, ReviewProgram, When, KindOf

\* The admitting statement leaves a row.
LEMMA AdmitLeavesRow ==
  ASSUME StoreTypeOK, NEW k \in Key, Execute(AdmitRequest(k))
  PROVE  status'[k] # "absent"
  BY DEF Execute, AdmitRequest, AdmitReviewRequestWithOutbox, StoreTypeOK

\* One step keeps the queue's promise.
LEMMA QueueInvStep ==
  ASSUME QueueInv, [Next]_vars, [RoutedWhenAuthorized]_vars
  PROVE  QueueInv'
  <1>1. WebhookInv' /\ [StoreNext]_storeVars /\ StoreInv /\ StoreTypeOK /\ HandlersTyped
    BY WebhookInvStep, WebhookUses DEF QueueInv, WebhookInv, StoreInv
  <1>2. \A k \in Key : status[k] # "absent" => status'[k] # "absent"
    BY <1>1, PermanentStep DEF Permanent, storeVars, requestVars
  <1>3. \A d \in Delivery : EventOf[d].key \in Key
    BY EventAssumption
  <1> DEFINE Goal == ReviewsUnderWay' /\ ProcessedReviewIsQueued'
  <1>4. ASSUME UNCHANGED webhookVars PROVE Goal
    BY <1>2, <1>3, <1>4 DEF QueueInv, ReviewsUnderWay, ReviewUnderWay, ProcessedReviewIsQueued, webhookVars,
       KindOf
  <1>5. ASSUME NEW h \in Handler, WebhookStep(h), [RoutedWhenAuthorized]_vars PROVE Goal
    <2> DEFINE Elsewhere == \A g \in Handler \ {h} : handling'[g] = handling[g] /\ program'[g] = program[g]
               Here == handling'[h] \in Delivery /\ KindOf(handling'[h]) = "review" => ReviewUnderWay(h)'
    <2>1. Elsewhere /\ Here => ReviewsUnderWay'
      BY <1>2, <1>3 DEF QueueInv, ReviewsUnderWay, ReviewUnderWay
    <2>2. delivery' = delivery => ProcessedReviewIsQueued'
      BY <1>2, <1>3 DEF QueueInv, ProcessedReviewIsQueued
    <2>3. ASSUME NEW d \in Delivery, Receive(h, d) PROVE Goal
      <3>1. Elsewhere
        BY <2>3, <1>1 DEF Receive, HandlersTyped
      <3>2. program'[h] = Route
        BY <2>3, <1>1 DEF Receive, HandlersTyped
      <3>3. Here
        BY <3>2 DEF ReviewUnderWay
      <3>4. \A c \in Delivery : delivery'[c] = "processed" => delivery[c] = "processed"
        BY <2>3, <1>1 DEF Receive, HandlersTyped
      <3>5. ProcessedReviewIsQueued'
        BY <3>4, <1>2, <1>3 DEF QueueInv, ProcessedReviewIsQueued
      <3>6. QED
        BY <2>1, <3>1, <3>3, <3>5
    <2>4. ASSUME RouteEvent(h) PROVE Goal
      <3>1. Elsewhere /\ handling' = handling /\ program'[h] = ProgramOf(EventOf[handling[h]])
            /\ delivery' = delivery
        BY <2>4, <1>1 DEF RouteEvent, HandlersTyped
      <3>2. ASSUME handling[h] \in Delivery, KindOf(handling[h]) = "review" PROVE ReviewUnderWay(h)'
        <4>1. RoutedWhenAuthorized \/ UNCHANGED vars
          BY <1>5
        <4>2. CASE UNCHANGED vars
          BY <4>2, <3>2 DEF vars, webhookVars, QueueInv, ReviewsUnderWay, ReviewUnderWay, storeVars, requestVars
        <4>3. CASE RoutedWhenAuthorized
          <5>1. RepoAuthorized(KeyRepo(EventOf[handling[h]].key))
            BY <4>3, <2>4, <3>2 DEF RoutedWhenAuthorized
          <5>2. program'[h] = <<AdmitRequest(EventOf[handling[h]].key)>>
            BY <5>1, <3>1, <3>2, ReviewIsOneStatement
          <5>3. QED
            BY <5>2, <3>1 DEF ReviewUnderWay
        <4>4. QED
          BY <4>1, <4>2, <4>3
      <3>3. QED
        BY <2>1, <2>2, <3>1, <3>2
    <2>5. ASSUME RunStatement(h) PROVE Goal
      <3>1. Elsewhere /\ handling' = handling /\ program'[h] = Tail(program[h]) /\ delivery' = delivery
        BY <2>5, <1>1 DEF RunStatement, HandlersTyped
      <3>2. ASSUME handling[h] \in Delivery, KindOf(handling[h]) = "review" PROVE ReviewUnderWay(h)'
        <4> DEFINE k == EventOf[handling[h]].key
        <4>1. program[h] = <<AdmitRequest(k)>>
          BY <2>5, <3>2 DEF QueueInv, ReviewsUnderWay, ReviewUnderWay, RunStatement
        <4>2. Head(program[h]) = AdmitRequest(k) /\ Tail(program[h]) = <<>>
          BY <4>1
        <4>3. Execute(AdmitRequest(k))
          BY <4>2, <2>5 DEF RunStatement
        <4>4. status'[k] # "absent"
          BY <4>3, <1>1, <1>3, <3>2, AdmitLeavesRow
        <4>5. QED
          BY <3>1, <4>2, <4>4 DEF ReviewUnderWay
      <3>3. QED
        BY <2>1, <2>2, <3>1, <3>2
    <2>6. ASSUME MarkProcessed(h) PROVE Goal
      <3>1. Elsewhere /\ handling'[h] = None /\ handling[h] \in Delivery
        BY <2>6, <1>1 DEF MarkProcessed, HandlersTyped
      <3>2. Here
        BY <3>1, EventAssumption
      <3>3. ASSUME NEW c \in Delivery, delivery'[c] = "processed", KindOf(c) = "review"
            PROVE  status'[EventOf[c].key] # "absent"
        <4>1. CASE c = handling[h]
          <5>1. program[h] = <<>>
            BY <2>6 DEF MarkProcessed
          <5>2. status[EventOf[c].key] # "absent"
            <6>1. ReviewUnderWay(h)
              BY <4>1, <3>3 DEF QueueInv, ReviewsUnderWay
            <6>2. Route # <<>> /\ <<AdmitRequest(EventOf[c].key)>> # <<>>
              BY DEF Route
            <6>3. QED
              BY <4>1, <5>1, <6>1, <6>2 DEF ReviewUnderWay
          <5>3. QED
            BY <5>2, <1>2, <1>3
        <4>2. CASE c # handling[h]
          <5>1. delivery[c] = "processed"
            BY <4>2, <3>3, <2>6, <1>1 DEF MarkProcessed, HandlersTyped
          <5>2. QED
            BY <5>1, <3>3, <1>2, <1>3 DEF QueueInv, ProcessedReviewIsQueued
        <4>3. QED
          BY <4>1, <4>2
      <3>4. ProcessedReviewIsQueued'
        BY <3>3 DEF ProcessedReviewIsQueued, KindOf
      <3>5. QED
        BY <2>1, <3>1, <3>2, <3>4
    <2>7. ASSUME Forget(h) PROVE Goal
      <3>1. Elsewhere /\ handling'[h] = None /\ delivery' = delivery
        BY <2>7, <1>1 DEF Forget, HandlersTyped
      <3>2. QED
        BY <2>1, <2>2, <3>1, EventAssumption
    <2>8. QED
      BY <1>5, <2>3, <2>4, <2>5, <2>6, <2>7 DEF WebhookStep, StatementFails, HandlerDies
  <1>6. Goal
    BY <1>4, <1>5 DEF Next, Others, vars
  <1>7. QED
    BY <1>1, <1>6 DEF QueueInv

LEMMA QueueInvInit == Start => QueueInv
  <1> SUFFICES ASSUME Start PROVE QueueInv
    OBVIOUS
  <1>1. WebhookInv
    BY HandlersTypedInit, StoreInvInit DEF Start, WebhookInv
  <1>2. ReviewsUnderWay
    BY EventAssumption DEF Start, WebhookInit, ReviewsUnderWay
  <1>3. ProcessedReviewIsQueued
    BY DEF Start, WebhookInit, ProcessedReviewIsQueued
  <1>4. QED
    BY <1>1, <1>2, <1>3 DEF QueueInv

\* A review event that was answered with success has left a request behind,
\* whichever handlers died half way and however often GitHub delivered it, provided
\* no handler ever routed such an event while its repository was not authorized.
THEOREM NoReviewGetsLost ==
  Start /\ [][Next]_vars /\ [][RoutedWhenAuthorized]_vars => []ProcessedReviewIsQueued
  <1>1. QueueInv /\ [Next]_vars /\ [RoutedWhenAuthorized]_vars => QueueInv'
    BY QueueInvStep
  <1>2. QueueInv => ProcessedReviewIsQueued
    BY DEF QueueInv
  <1>3. QED
    BY QueueInvInit, <1>1, <1>2, PTL

-----------------------------------------------------------------------------
(* No repository keeps a right from before the narrowing.                  *)

\* An installation event other than a new installation finds the selection already
\* narrowed: the narrowing itself arrives as an event about repositories.  (Without
\* this the property fails, see finding_narrowing.cfg.)
NarrowedByRepositoryEvent ==
  \A h \in Handler : RouteEvent(h) =>
    LET e == EventOf[handling[h]]
    IN e.kind \in InstallationKind \ {"created", "deleted"} => ~Narrowed(e)

Rights == selection = "selected" => instRepos \subseteq Granted

NewlySelected(d) == KindOf(d) = "created" /\ EventOf[d].sel = "selected"

HasClear(p) == \E i \in 1..Len(p) : p[i].op = "clear"

\* A delivery that will still clear the repositories before it is processed.
WillClear(d) == /\ delivery[d] = "admitted"
                /\ NewlySelected(d)
                /\ \A h \in Handler : handling[h] = d => program[h] = Route \/ HasClear(program[h])

\* What a routed program can still do, in the order of its statements.
Tame(p, d) ==
  LET e == EventOf[d]
  IN \A i \in 1..Len(p) :
       /\ p[i].op \in {"upsert", "ensure", "set_selection"} => p[i].sel = e.sel
       /\ p[i].op \in {"upsert", "ensure"} => i = 1
       /\ p[i].op = "delete" => i = Len(p)
       /\ p[i].op = "add" => /\ p[i].repo \in {e.repos[j] : j \in DOMAIN e.repos}
                             /\ e.kind # "removed"
                             /\ e.sel = "all" => p[1].op = "upsert" \/ selection = "all"
       /\ p[i].op = "set_selection" /\ e.sel = "selected"
            => \/ i = 1 /\ instRepos = {}
               \/ i > 1 /\ p[i-1].op = "clear"
       /\ p[i].op = "upsert" /\ e.sel = "selected"
            => \/ instState = "absent" \/ selection = "selected"
               \/ e.kind = "created" /\ Len(p) > 1 /\ p[2].op = "clear"

OneAtWork ==
  /\ \A g, h \in Busy : g = h
  /\ \A h \in Busy : /\ delivery[handling[h]] = "admitted"
                     /\ program[h] = Route \/ Tame(program[h], handling[h])
  /\ Rights \/ \E d \in Delivery : WillClear(d)

RightsInv == /\ overlapped \in BOOLEAN
             /\ instState = "absent" => instRepos = {}
             /\ ~overlapped => OneAtWork

\* The same of a statement that can come last: it writes no selection.
Mild(s, d) == \/ s.op \in {"repair", "remove", "supersede_repo"}
              \/ /\ s.op = "add"
                 /\ s.repo \in {EventOf[d].repos[j] : j \in DOMAIN EventOf[d].repos}
                 /\ EventOf[d].kind # "removed"

AllMild(p, d) == \A i \in 1..Len(p) : Mild(p[i], d)

LEMMA RepairIsMild ==
  ASSUME NEW c, NEW d
  PROVE  When(c, RepairJobs) \in Seq(Statement) /\ AllMild(When(c, RepairJobs), d)
  BY StatementsTyped, WhenTyped DEF When, RepairJobs, AllMild, Mild

LEMMA AddsAreMild ==
  ASSUME NEW d \in Delivery, EventOf[d].kind # "removed"
  PROVE  AllMild(AddAll(EventOf[d].repos), d)
  <1> DEFINE rs == EventOf[d].repos
  <1>1. rs \in Seq(Repo)
    BY EventAssumption
  <1>2. Len(rs) \in Nat /\ DOMAIN rs = 1..Len(rs)
    BY <1>1, LenProperties
  <1>3. Len(AddAll(rs)) = Len(rs) /\ \A i \in 1..Len(rs) : AddAll(rs)[i] = AddRepo(rs[i])
    BY <1>2 DEF AddAll
  <1>4. \A i \in 1..Len(rs) : rs[i] \in {rs[j] : j \in DOMAIN rs}
    BY <1>2
  <1>5. \A i \in 1..Len(rs) : AddRepo(rs[i]).op = "add" /\ AddRepo(rs[i]).repo = rs[i]
    BY DEF AddRepo
  <1>6. QED
    BY <1>3, <1>4, <1>5 DEF AllMild, Mild

LEMMA RemovesAreMild ==
  ASSUME NEW d \in Delivery
  PROVE  AllMild(RemoveAll(EventOf[d].repos), d)
  <1> DEFINE rs == EventOf[d].repos
  <1>1. rs \in Seq(Repo)
    BY EventAssumption
  <1>2. 2*Len(rs) \in Nat
    BY <1>1, LenProperties
  <1>3. /\ Len(RemoveAll(rs)) = 2*Len(rs)
        /\ \A i \in 1..2*Len(rs) : RemoveAll(rs)[i].op \in {"remove", "supersede_repo"}
    BY <1>2 DEF RemoveAll, RemoveRepo, SupersedeRepo
  <1>4. QED
    BY <1>3 DEF AllMild, Mild

LEMMA MildConcat ==
  ASSUME NEW d, NEW p \in Seq(Statement), NEW q \in Seq(Statement), AllMild(p, d), AllMild(q, d)
  PROVE  p \o q \in Seq(Statement) /\ AllMild(p \o q, d)
  <1>1. Len(p) \in Nat /\ Len(q) \in Nat
    BY LenProperties
  <1>2. QED
    BY <1>1, ConcatProperties DEF AllMild

\* Statements that write no selection may follow any tame program.
LEMMA TameConcat ==
  ASSUME NEW d, NEW p \in Seq(Statement), NEW q \in Seq(Statement), Tame(p, d), AllMild(q, d),
         p # <<>>,
         \A i \in 1..Len(p) : p[i].op # "delete",
         EventOf[d].sel = "all" => p[1].op = "upsert" \/ \A i \in 1..Len(q) : q[i].op # "add"
  PROVE  Tame(p \o q, d)
  <1>1. Len(p) \in Nat \ {0} /\ Len(q) \in Nat
    BY LenProperties, EmptySeq
  <1>2. /\ Len(p \o q) = Len(p) + Len(q)
        /\ \A i \in 1..Len(p \o q) : (p \o q)[i] = IF i <= Len(p) THEN p[i] ELSE q[i - Len(p)]
    BY ConcatProperties
  <1> DEFINE r == p \o q
             e == EventOf[d]
  <1> HIDE DEF r, e
  <1>3. r[1] = p[1] /\ (Len(p) > 1 => r[2] = p[2])
    BY <1>1, <1>2 DEF r
  <1>4. ASSUME NEW i \in 1..Len(r)
        PROVE  /\ r[i].op \in {"upsert", "ensure", "set_selection"} => r[i].sel = e.sel
               /\ r[i].op \in {"upsert", "ensure"} => i = 1
               /\ r[i].op = "delete" => i = Len(r)
               /\ r[i].op = "add" => /\ r[i].repo \in {e.repos[j] : j \in DOMAIN e.repos}
                                     /\ e.kind # "removed"
                                     /\ e.sel = "all" => r[1].op = "upsert" \/ selection = "all"
               /\ r[i].op = "set_selection" /\ e.sel = "selected"
                    => \/ i = 1 /\ instRepos = {}
                       \/ i > 1 /\ r[i-1].op = "clear"
               /\ r[i].op = "upsert" /\ e.sel = "selected"
                    => \/ instState = "absent" \/ selection = "selected"
                       \/ e.kind = "created" /\ Len(r) > 1 /\ r[2].op = "clear"
    <2>1. CASE i <= Len(p)
      <3>1. i \in 1..Len(p) /\ r[i] = p[i] /\ (i > 1 => r[i-1] = p[i-1])
        BY <1>1, <1>2, <2>1 DEF r
      <3>2. Len(p) > 1 => Len(r) > 1
        BY <1>1, <1>2 DEF r
      <3>3. QED
        BY <3>1, <3>2, <1>3 DEF Tame, e
    <2>2. CASE ~(i <= Len(p))
      <3>1. i - Len(p) \in 1..Len(q) /\ r[i] = q[i - Len(p)]
        BY <1>1, <1>2, <2>2 DEF r
      <3>2. Mild(r[i], d)
        BY <3>1 DEF AllMild
      <3>3. QED
        BY <3>1, <3>2, <1>3 DEF Mild, e
    <2>3. QED
      BY <2>1, <2>2
  <1>5. QED
    BY <1>4 DEF Tame, r, e

\* Short sequences, one after the other.
LEMMA OneStatement ==
  ASSUME NEW a
  PROVE  <<a>> \o <<>> = <<a>>
  <1>1. <<a>> \in Seq({a})
    OBVIOUS
  <1>2. QED
    BY <1>1, ConcatEmptySeq

LEMMA TwoStatements ==
  ASSUME NEW a, NEW b
  PROVE  <<a>> \o <<b>> = <<a, b>>
  <1> DEFINE S == {a, b}
  <1> DEFINE r == <<a>> \o <<b>>
             t == <<a, b>>
  <1>1. <<a>> \in Seq(S) /\ <<b>> \in Seq(S) /\ t \in Seq(S) /\ Len(t) = 2
    OBVIOUS
  <1>2. Len(r) = 2 /\ \A i \in 1..2 : r[i] = t[i]
    BY <1>1, ConcatProperties
  <1>3. r \in Seq(S)
    BY <1>1, ConcatProperties
  <1> HIDE DEF r, t
  <1>4. QED
    BY <1>1, <1>2, <1>3, SeqEqual DEF r, t

LEMMA ThreeStatements ==
  ASSUME NEW a, NEW b, NEW c
  PROVE  <<a, b>> \o <<c>> = <<a, b, c>>
  <1> DEFINE S == {a, b, c}
  <1> DEFINE r == <<a, b>> \o <<c>>
             t == <<a, b, c>>
  <1>1. <<a, b>> \in Seq(S) /\ <<c>> \in Seq(S) /\ t \in Seq(S) /\ Len(t) = 3
    OBVIOUS
  <1>2. Len(r) = 3 /\ \A i \in 1..3 : r[i] = t[i]
    BY <1>1, ConcatProperties
  <1>3. r \in Seq(S)
    BY <1>1, ConcatProperties
  <1> HIDE DEF r, t
  <1>4. QED
    BY <1>1, <1>2, <1>3, SeqEqual DEF r, t

\* Every program the router writes is tame, and that of a new installation for
\* selected repositories clears them.
LEMMA ProgramIsTame ==
  ASSUME StoreTypeOK, NEW d \in Delivery,
         EventOf[d].kind \in InstallationKind \ {"created", "deleted"} => ~Narrowed(EventOf[d])
  PROVE  /\ Tame(ProgramOf(EventOf[d]), d)
         /\ NewlySelected(d) => HasClear(ProgramOf(EventOf[d]))
  <1> DEFINE e == EventOf[d]
  <1>1. /\ e.key \in Key /\ e.sel \in {"all", "selected"} /\ e.repos \in Seq(Repo)
        /\ e.kind \in {"review", "rerun"} \cup InstallationKind \cup RepositoryKind
    BY EventAssumption
  <1>2. selection \in {"all", "selected"} /\ instState \in {"absent", "active", "suspended"}
    BY DEF StoreTypeOK
  <1>a. ASSUME NEW f, f.kind \in InstallationKind PROVE ProgramOf(f) = InstallationProgram(f)
    BY <1>a DEF ProgramOf, InstallationKind, RepositoryKind
  <1>b. ASSUME NEW f, f.kind \in RepositoryKind PROVE ProgramOf(f) = RepositoriesProgram(f)
    BY <1>b DEF ProgramOf, InstallationKind, RepositoryKind
  <1>c. ASSUME NEW f, f.kind = "suspend"
        PROVE  InstallationProgram(f) = <<Upsert("suspended", f.sel), SupersedeAll>>
    BY <1>c DEF InstallationProgram
  <1>d. ASSUME NEW f, f.kind # "suspend", f.kind # "deleted"
        PROVE  InstallationProgram(f)
                 = <<Upsert("active", f.sel)>>
                     \o When(f.sel = "selected" /\ (f.kind = "created" \/ Narrowed(f)), ClearRepos)
                     \o AddAll(f.repos)
                     \o When(Narrowed(f), RepairJobs)
    BY <1>d DEF InstallationProgram
  <1>3. CASE e.kind = "deleted"
    <2>1. ProgramOf(e) = <<SupersedeAll, ClearRepos, DeleteRow>>
      <3>1. ProgramOf(e) = InstallationProgram(e)
        BY <1>3, <1>a DEF InstallationKind
      <3>2. QED
        BY <1>3, <3>1 DEF InstallationProgram
    <2>2. Tame(<<SupersedeAll, ClearRepos, DeleteRow>>, d)
      BY DEF Tame, SupersedeAll, ClearRepos, DeleteRow
    <2>3. ~NewlySelected(d)
      BY <1>3 DEF NewlySelected, KindOf
    <2>4. QED
      BY <2>1, <2>2, <2>3
  <1>4. CASE e.kind = "suspend"
    <2>1. ProgramOf(e) = <<Upsert("suspended", e.sel), SupersedeAll>>
      BY <1>4, <1>a, <1>c DEF InstallationKind
    <2>2. e.sel = "selected" => instState = "absent" \/ selection = "selected"
      BY <1>2, <1>4 DEF InstallationKind, Narrowed
    <2>3. Tame(<<Upsert("suspended", e.sel), SupersedeAll>>, d)
      BY <2>2 DEF Tame, SupersedeAll, Upsert
    <2>4. ~NewlySelected(d)
      BY <1>4 DEF NewlySelected, KindOf
    <2>5. QED
      BY <2>1, <2>3, <2>4
  <1>5. CASE e.kind \in {"unsuspend", "created", "new_permissions_accepted"}
    <2> DEFINE u == Upsert("active", e.sel)
               clears == e.sel = "selected" /\ (e.kind = "created" \/ Narrowed(e))
               p == IF clears THEN <<u, ClearRepos>> ELSE <<u>>
               q == AddAll(e.repos) \o When(Narrowed(e), RepairJobs)
    <2>1. ProgramOf(e) = <<u>> \o When(clears, ClearRepos) \o AddAll(e.repos) \o When(Narrowed(e), RepairJobs)
      <3>1. ProgramOf(e) = InstallationProgram(e)
        BY <1>5, <1>a DEF InstallationKind
      <3>2. QED
        BY <1>5, <3>1, <1>d
    <2>2. <<u>> \o When(clears, ClearRepos) = p
      <3>1. <<u>> \o <<ClearRepos>> = <<u, ClearRepos>> /\ <<u>> \o <<>> = <<u>>
        BY TwoStatements, OneStatement
      <3>2. When(clears, ClearRepos) = IF clears THEN <<ClearRepos>> ELSE <<>>
        BY DEF When
      <3> HIDE DEF clears, u
      <3>3. QED
        BY <3>1, <3>2
    <2>3. p \in Seq(Statement)
      BY <1>1, StatementsTyped
    <2>4. AddAll(e.repos) \in Seq(Statement) /\ When(Narrowed(e), RepairJobs) \in Seq(Statement)
      BY <1>1, AddAllTyped, RepairIsMild
    <2>5. ProgramOf(e) = p \o q
      <3> DEFINE b == AddAll(e.repos)
                 c == When(Narrowed(e), RepairJobs)
      <3> HIDE DEF p, b, c
      <3>1. (p \o b) \o c = p \o (b \o c)
        BY <2>3, <2>4, ConcatAssociative DEF b, c
      <3>2. QED
        BY <2>1, <2>2, <3>1 DEF b, c
    <2>6. q \in Seq(Statement) /\ AllMild(q, d)
      BY <1>5, <2>4, AddsAreMild, RepairIsMild, MildConcat
    <2>7. e.sel = "selected" /\ ~clears => instState = "absent" \/ selection = "selected"
      BY <1>2, <1>5 DEF InstallationKind, Narrowed
    <2>8. e.sel = "selected" /\ clears
            => instState = "absent" \/ selection = "selected" \/ e.kind = "created"
      BY <1>2, <1>5 DEF InstallationKind, Narrowed
    <2>9. u.op = "upsert" /\ u.sel = e.sel /\ ClearRepos.op = "clear"
      BY DEF Upsert, ClearRepos
    <2>10. Tame(p, d) /\ p # <<>> /\ p[1].op = "upsert" /\ \A i \in 1..Len(p) : p[i].op # "delete"
      <3> HIDE DEF u, clears
      <3>1. CASE clears
        <4>1. p = <<u, ClearRepos>>
          BY <3>1
        <4> HIDE DEF p
        <4>2. QED
          BY <4>1, <3>1, <2>8, <2>9 DEF Tame
      <3>2. CASE ~clears
        <4>1. p = <<u>>
          BY <3>2
        <4> HIDE DEF p
        <4>2. QED
          BY <4>1, <3>2, <2>7, <2>9 DEF Tame
      <3>3. QED
        BY <3>1, <3>2
    <2>11. Tame(p \o q, d)
      <3> HIDE DEF p, q
      <3>1. QED
        BY <2>3, <2>6, <2>10, TameConcat
    <2>12. NewlySelected(d) => HasClear(p \o q)
      <3> SUFFICES ASSUME NewlySelected(d) PROVE HasClear(p \o q)
        OBVIOUS
      <3>1. p = <<u, ClearRepos>>
        BY DEF NewlySelected, KindOf
      <3> HIDE DEF p, q, u, e
      <3>2. Len(p) = 2 /\ p[2].op = "clear"
        BY <3>1, <2>9
      <3>3. Len(q) \in Nat
        BY <2>6, LenProperties
      <3>4. 2 \in 1..Len(p \o q) /\ (p \o q)[2] = p[2]
        <4>1. /\ Len(p \o q) = Len(p) + Len(q)
              /\ \A i \in 1..Len(p) + Len(q) : (p \o q)[i] = IF i <= Len(p) THEN p[i] ELSE q[i - Len(p)]
          BY <2>3, <2>6, ConcatProperties
        <4>2. QED
          BY <4>1, <3>2, <3>3
      <3>5. QED
        BY <3>2, <3>4 DEF HasClear
    <2>13. QED
      BY <2>5, <2>11, <2>12
  <1>6. CASE e.kind \in RepositoryKind
    <2> DEFINE cleared == Narrowed(e)
               setting == instState # "absent" /\ selection # e.sel
               p == IF cleared THEN <<Ensure(e.sel), ClearRepos, SetSelection(e.sel)>>
                    ELSE IF setting THEN <<Ensure(e.sel), SetSelection(e.sel)>>
                    ELSE <<Ensure(e.sel)>>
               f == IF e.sel # "selected" THEN <<>>
                    ELSE IF e.kind = "added" THEN AddAll(e.repos) ELSE RemoveAll(e.repos)
               q == f \o When(cleared, RepairJobs)
    <2>1. ProgramOf(e) = <<Ensure(e.sel)>> \o When(cleared, ClearRepos) \o When(setting, SetSelection(e.sel))
                           \o f \o When(cleared, RepairJobs)
      BY <1>6, <1>b DEF RepositoriesProgram
    <2>2. cleared => setting
      BY DEF Narrowed
    <2>3. <<Ensure(e.sel)>> \o When(cleared, ClearRepos) \o When(setting, SetSelection(e.sel)) = p
      <3> DEFINE a == Ensure(e.sel)
                 b == SetSelection(e.sel)
      <3>1. /\ <<a>> \o <<ClearRepos>> = <<a, ClearRepos>> /\ <<a>> \o <<>> = <<a>>
            /\ <<a, ClearRepos>> \o <<b>> = <<a, ClearRepos, b>> /\ <<a>> \o <<b>> = <<a, b>>
        <4> HIDE DEF a, b
        <4>1. <<a>> \o <<ClearRepos>> = <<a, ClearRepos>> /\ <<a>> \o <<b>> = <<a, b>>
          BY TwoStatements
        <4>2. <<a>> \o <<>> = <<a>>
          BY OneStatement
        <4>3. <<a, ClearRepos>> \o <<b>> = <<a, ClearRepos, b>>
          BY ThreeStatements
        <4>4. QED
          BY <4>1, <4>2, <4>3
      <3>2. /\ When(cleared, ClearRepos) = IF cleared THEN <<ClearRepos>> ELSE <<>>
            /\ When(setting, b) = IF setting THEN <<b>> ELSE <<>>
        BY DEF When
      <3> HIDE DEF cleared, setting, a, b
      <3>3. CASE cleared
        BY <2>2, <3>1, <3>2, <3>3 DEF a, b
      <3>4. CASE ~cleared /\ setting
        BY <3>1, <3>2, <3>4 DEF a, b
      <3>5. CASE ~cleared /\ ~setting
        BY <3>1, <3>2, <3>5 DEF a, b
      <3>6. QED
        BY <3>3, <3>4, <3>5
    <2>4. p \in Seq(Statement)
      BY <1>1, StatementsTyped
    <2>5. AddAll(e.repos) \in Seq(Statement) /\ RemoveAll(e.repos) \in Seq(Statement)
      BY <1>1, AddAllTyped, RemoveAllTyped
    <2>6. AllMild(AddAll(e.repos), d) \/ e.kind = "removed"
      BY AddsAreMild
    <2>7. AllMild(RemoveAll(e.repos), d)
      BY RemovesAreMild
    <2>8. f \in Seq(Statement) /\ AllMild(f, d) /\ (e.sel = "all" => f = <<>>)
      <3>1. <<>> \in Seq(Statement) /\ AllMild(<<>>, d)
        BY EmptySeq DEF AllMild
      <3>2. QED
        BY <3>1, <2>5, <2>6, <2>7
    <2>9. When(cleared, RepairJobs) \in Seq(Statement) /\ AllMild(When(cleared, RepairJobs), d)
      BY RepairIsMild
    <2>10. ProgramOf(e) = p \o q
      <3> DEFINE c == When(cleared, RepairJobs)
      <3> HIDE DEF p, f, c
      <3>1. (p \o f) \o c = p \o (f \o c)
        BY <2>4, <2>8, <2>9, ConcatAssociative DEF c
      <3>2. QED
        BY <2>1, <2>3, <3>1 DEF c
    <2>11. q \in Seq(Statement) /\ AllMild(q, d)
      <3> HIDE DEF f, cleared
      <3>1. QED
        BY <2>8, <2>9, MildConcat
    <2>12. /\ Ensure(e.sel).op = "ensure" /\ Ensure(e.sel).sel = e.sel /\ ClearRepos.op = "clear"
           /\ SetSelection(e.sel).op = "set_selection" /\ SetSelection(e.sel).sel = e.sel
      BY DEF Ensure, ClearRepos, SetSelection
    <2>13. e.sel = "selected" /\ setting => cleared
      BY <1>2 DEF Narrowed
    <2>14. Tame(p, d) /\ p # <<>> /\ \A i \in 1..Len(p) : p[i].op # "delete"
      <3>1. CASE cleared
        <4>1. p = <<Ensure(e.sel), ClearRepos, SetSelection(e.sel)>>
          BY <3>1
        <4> HIDE DEF p, cleared, setting
        <4>2. QED
          BY <4>1, <2>12 DEF Tame
      <3>2. CASE ~cleared /\ setting
        <4>1. p = <<Ensure(e.sel), SetSelection(e.sel)>> /\ e.sel # "selected"
          BY <3>2, <2>13
        <4> HIDE DEF p, cleared, setting
        <4>2. QED
          BY <4>1, <2>12 DEF Tame
      <3>3. CASE ~cleared /\ ~setting
        <4>1. p = <<Ensure(e.sel)>>
          BY <3>3
        <4> HIDE DEF p, cleared, setting
        <4>2. QED
          BY <4>1, <2>12 DEF Tame
      <3>4. QED
        BY <3>1, <3>2, <3>3
    <2>15. e.sel = "all" => \A i \in 1..Len(q) : q[i].op # "add"
      <3> SUFFICES ASSUME e.sel = "all" PROVE \A i \in 1..Len(q) : q[i].op # "add"
        OBVIOUS
      <3>1. q = When(cleared, RepairJobs)
        <4> HIDE DEF f, cleared
        <4>1. QED
          BY <2>8, <2>9, ConcatEmptySeq
      <3> HIDE DEF q
      <3>2. QED
        BY <3>1 DEF When, RepairJobs
    <2>16. Tame(p \o q, d)
      <3> HIDE DEF p, q
      <3>1. QED
        BY <2>4, <2>11, <2>14, <2>15, TameConcat
    <2>17. ~NewlySelected(d)
      BY <1>6 DEF NewlySelected, KindOf, RepositoryKind
    <2>18. QED
      BY <2>10, <2>16, <2>17
  <1>7. CASE e.kind \in {"review", "rerun"}
    <2>1. ProgramOf(e) = ReviewProgram(e)
      BY <1>7 DEF ProgramOf, InstallationKind, RepositoryKind
    <2>2. ReviewProgram(e) = <<>> \/ ReviewProgram(e) = <<AdmitRequest(e.key)>>
      BY DEF ReviewProgram, When
    <2>3. Tame(<<>>, d) /\ Tame(<<AdmitRequest(e.key)>>, d)
      BY DEF Tame, AdmitRequest
    <2>4. ~NewlySelected(d)
      BY <1>7 DEF NewlySelected, KindOf
    <2>5. QED
      BY <2>1, <2>2, <2>3, <2>4
  <1>8. QED
    BY <1>1, <1>3, <1>4, <1>5, <1>6, <1>7 DEF InstallationKind

\* What a statement does to the tables of the installation.
Installs(s) ==
  /\ instRepos' # instRepos => s.op \in {"clear", "delete", "add", "remove"}
  /\ selection' # selection => s.op \in {"upsert", "ensure", "set_selection", "delete"}
  /\ instState' # instState => s.op \in {"upsert", "ensure", "delete"}
  /\ s.op = "upsert" => selection' = s.sel /\ instState' # "absent"
  /\ s.op = "ensure" => IF instState = "absent" THEN selection' = s.sel /\ instState' # "absent"
                        ELSE selection' = selection /\ instState' = instState
  /\ s.op = "set_selection" => selection' \in {selection, s.sel}
  /\ s.op = "add" => instState # "absent" /\ instRepos' = instRepos \cup {s.repo}
  /\ s.op = "remove" => instRepos' \subseteq instRepos
  /\ s.op \in {"clear", "delete"} => instRepos' = {}
  /\ s.op = "delete" => selection' = "selected"

LEMMA StatementInstalls ==
  ASSUME NEW s \in Statement, StoreTypeOK, Execute(s)
  PROVE  Installs(s)
  <1>0. s.op \in {"route", "clear", "delete", "supersede_all", "repair", "upsert", "ensure",
                  "set_selection", "add", "remove", "supersede_repo", "admit"}
        /\ (s.op = "upsert" => s.state # "absent")
    BY DEF Statement
  <1>1. CASE s.op \in {"upsert", "ensure", "set_selection"}
    BY <1>0, <1>1 DEF Execute, WriteInstallation, Installs, storeVars, instVars
  <1>2. CASE s.op \in {"clear", "delete"}
    BY <1>0, <1>2 DEF Execute, WriteInstallation, Installs
  <1>3. CASE s.op \in {"add", "remove"}
    BY <1>0, <1>3 DEF Execute, WriteInstallation, Installs
  <1>4. CASE s.op \notin {"upsert", "ensure", "set_selection", "clear", "delete", "add", "remove"}
    <2>1. UNCHANGED instVars
      BY <1>0, <1>4 DEF Execute, SupersedeInstallationRequests, SupersedeRepositoryRequests,
         RepairOutboxJobs, AdmitReviewRequestWithOutbox, storeVars
    <2>2. QED
      BY <2>1, <1>4 DEF Installs, instVars
  <1>5. QED
    BY <1>1, <1>2, <1>3, <1>4

\* The rest of a tame program is tame when its first statement has run.
LEMMA TameTail ==
  ASSUME NEW d \in Delivery, NEW p \in Seq(Statement), p # <<>>, Tame(p, d), StoreTypeOK,
         Installs(Head(p))
  PROVE  Tame(Tail(p), d)'
  <1> DEFINE q == Tail(p)
             e == EventOf[d]
  <1>1. /\ Len(p) \in Nat \ {0} /\ q \in Seq(Statement) /\ Len(q) = Len(p) - 1
        /\ \A i \in 1..Len(q) : q[i] = p[i+1]
    BY HeadTailProperties, LenProperties, EmptySeq
  <1>2. Head(p) = p[1]
    OBVIOUS
  <1>3. e.sel \in {"all", "selected"}
    BY EventAssumption
  <1> HIDE DEF q, e
  <1>4. ASSUME NEW i \in 1..Len(q)
        PROVE  /\ i + 1 \in 1..Len(p) /\ i + 1 # 1 /\ 1 \in 1..Len(p)
               /\ q[i] = p[i+1] /\ (i > 1 => q[i-1] = p[i])
    BY <1>1
  <1>5. ASSUME NEW i \in 1..Len(q)
        PROVE  /\ q[i].op \in {"upsert", "ensure", "set_selection"} => q[i].sel = e.sel
               /\ q[i].op \notin {"upsert", "ensure"}
               /\ q[i].op = "delete" => i = Len(q)
    BY <1>1, <1>4 DEF Tame, e
  <1>6. ASSUME NEW i \in 1..Len(q), q[i].op = "add"
        PROVE  /\ q[i].repo \in {e.repos[j] : j \in DOMAIN e.repos}
               /\ e.kind # "removed"
               /\ e.sel = "all" => selection' = "all"
    <2>1. /\ q[i].repo \in {e.repos[j] : j \in DOMAIN e.repos} /\ e.kind # "removed"
          /\ e.sel = "all" => p[1].op = "upsert" \/ selection = "all"
      BY <1>4, <1>6 DEF Tame, e
    <2>2. p[1].op # "delete" /\ (p[1].op \in {"upsert", "ensure", "set_selection"} => p[1].sel = e.sel)
      BY <1>1, <1>4 DEF Tame, e
    <2>3. QED
      BY <2>1, <2>2, <1>2 DEF Installs
  <1>7. ASSUME NEW i \in 1..Len(q), q[i].op = "set_selection", e.sel = "selected"
        PROVE  \/ i = 1 /\ instRepos' = {}
               \/ i > 1 /\ q[i-1].op = "clear"
    <2>1. p[i].op = "clear"
      BY <1>1, <1>4, <1>7 DEF Tame, e
    <2>2. QED
      BY <1>1, <1>2, <1>4, <2>1 DEF Installs
  <1>8. QED
    BY <1>5, <1>6, <1>7 DEF Tame, e, q

\* The first statement of a tame program grants nothing that its event does not,
\* unless it is the narrowing of a new installation, which a clearing follows.
LEMMA TameHead ==
  ASSUME NEW d \in Delivery, NEW p \in Seq(Statement), p # <<>>, Tame(p, d), StoreTypeOK,
         instState = "absent" => instRepos = {}, delivery[d] # "new", delivery' = delivery, Rights,
         Installs(Head(p))
  PROVE  Rights' \/ (NewlySelected(d) /\ Len(p) > 1 /\ p[2].op = "clear")
  <1> DEFINE e == EventOf[d]
             s == p[1]
  <1>1. Len(p) \in Nat /\ 1 \in 1..Len(p) /\ Head(p) = s
    BY LenProperties, EmptySeq
  <1>2. Installs(s)
    BY <1>1
  <1>3. Granted' = Granted
    BY DEF Granted, KindOf
  <1>4. e.sel \in {"all", "selected"} /\ selection \in {"all", "selected"}
    BY EventAssumption DEF StoreTypeOK
  <1>5. /\ s.op \in {"upsert", "ensure", "set_selection"} => s.sel = e.sel
        /\ s.op = "set_selection" /\ e.sel = "selected" => instRepos = {}
        /\ s.op = "upsert" /\ e.sel = "selected"
             => \/ instState = "absent" \/ selection = "selected"
                \/ NewlySelected(d) /\ Len(p) > 1 /\ p[2].op = "clear"
    BY <1>1 DEF Tame, NewlySelected, KindOf
  <1>6. CASE s.op = "add"
    <2>1. instRepos' = instRepos \cup {s.repo} /\ selection' = selection
      BY <1>2, <1>6 DEF Installs
    <2>2. s.repo \in {e.repos[j] : j \in DOMAIN e.repos} /\ e.kind # "removed"
          /\ (e.sel = "all" => selection = "all")
      BY <1>1, <1>6 DEF Tame
    <2>3. ASSUME e.sel = "selected" PROVE s.repo \in Granted
      BY <2>2, <2>3 DEF Granted, KindOf
    <2> HIDE DEF e, s
    <2>4. QED
      BY <2>1, <2>2, <2>3, <1>3, <1>4 DEF Rights
  <1>11. (instRepos' = instRepos \/ instRepos' = {} \/ instRepos' \subseteq instRepos)
         /\ (selection' = "selected" => selection = "selected" \/ instRepos = {} \/ instRepos' = {})
           => Rights'
    BY <1>3 DEF Rights
  <1> HIDE DEF s, e
  <1>7. CASE s.op = "upsert"
    BY <1>2, <1>4, <1>5, <1>7, <1>11 DEF Installs
  <1>8. CASE s.op \in {"ensure", "set_selection"}
    BY <1>2, <1>4, <1>5, <1>8, <1>11 DEF Installs
  <1>9. CASE s.op \notin {"add", "upsert", "ensure", "set_selection"}
    BY <1>2, <1>9, <1>11 DEF Installs
  <1>10. QED
    BY <1>6, <1>7, <1>8, <1>9

\* At most one handler is at work after a step that lets no two overlap.
LEMMA StillOne ==
  ASSUME NEW h \in Handler, \A f, g \in Busy : f = g, Busy' \subseteq Busy \cup {h},
         ~(Cardinality(Busy') > 1)
  PROVE  \A f, g \in Busy' : f = g
  <1> SUFFICES ASSUME NEW f \in Busy', NEW g \in Busy', f # g PROVE FALSE
    OBVIOUS
  <1>1. Busy' = {f, g}
    BY Zenon
  <1>2. Cardinality({f}) = 1 /\ IsFiniteSet({f})
    BY FS_Singleton
  <1>3. Cardinality({f} \cup {g}) = 2
    BY <1>2, FS_AddElement
  <1>4. {f, g} = {f} \cup {g}
    OBVIOUS
  <1>5. Cardinality(Busy') = 2
    BY <1>1, <1>3, <1>4
  <1>6. QED
    BY <1>5

\* The program of a handler in the next state.
LEMMA TameNext ==
  ASSUME NEW h, NEW p, NEW c, program'[h] = p, handling'[h] = c, Tame(p, c)'
  PROVE  Tame(program[h], handling[h])'
  BY DEF Tame

LEMMA TameUnchanged ==
  ASSUME NEW p, NEW c, Tame(p, c), UNCHANGED instVars
  PROVE  Tame(p, c)'
  BY DEF Tame, instVars

RightsFullInv == WebhookInv /\ RightsInv

\* One step of a handler while none overlaps.
LEMMA RightsHandlerStep ==
  ASSUME WebhookInv, instState = "absent" => instRepos = {}, OneAtWork,
         NEW h \in Handler, WebhookStep(h), ~(Cardinality(Busy') > 1),
         NarrowedByRepositoryEvent \/ ~RouteEvent(h)
  PROVE  OneAtWork'
  <1>1. StoreTypeOK /\ HandlersTyped
    BY DEF WebhookInv, StoreInv
  <1> DEFINE Elsewhere == \A g \in Handler \ {h} : handling'[g] = handling[g] /\ program'[g] = program[g]
  <1>2. None \notin Delivery /\ Route # <<>>
    BY EventAssumption DEF Route
  <1>3. \A f, g \in Busy : f = g
    BY DEF OneAtWork
  <1>4. \A g \in Handler : g \in Busy <=> handling[g] \in Delivery
    BY <1>1, <1>2 DEF Busy, HandlersTyped
  <1>5. ASSUME Elsewhere PROVE \A f, g \in Busy' : f = g
    <2>1. Busy' \subseteq Busy \cup {h}
      BY <1>5 DEF Busy
    <2>2. QED
      BY <2>1, <1>3, StillOne
  \* When h rests there is nobody else at work, and when h works neither.
  <1>6. ASSUME Elsewhere, h \in Busy \/ h \in Busy' PROVE Busy' \subseteq {h} /\ Busy \subseteq {h}
    <2>1. Busy \subseteq Busy' \cup {h}
      BY <1>6 DEF Busy
    <2>2. \A f, g \in Busy' : f = g
      BY <1>5, <1>6
    <2>3. Busy' \subseteq Busy \cup {h}
      BY <1>6 DEF Busy
    <2>4. QED
      BY <2>1, <2>2, <2>3, <1>3, <1>6
  <1>7. ASSUME UNCHANGED instVars,
               \A d \in Delivery : delivery[d] # "new" => delivery'[d] # "new"
        PROVE  Rights => Rights'
    <2>1. Granted \subseteq Granted'
      BY <1>7 DEF Granted, KindOf
    <2>2. QED
      BY <2>1, <1>7 DEF Rights, instVars
  <1>8. ASSUME NEW d \in Delivery, Receive(h, d) PROVE OneAtWork'
    <2>1. /\ Elsewhere /\ handling[h] = None /\ handling'[h] = d /\ program'[h] = Route
          /\ delivery' = [delivery EXCEPT ![d] = "admitted"]
          /\ UNCHANGED storeVars
      BY <1>8, <1>1 DEF Receive, HandlersTyped
    <2>2. h \in Busy' /\ h \notin Busy
      BY <2>1, <1>2 DEF Busy
    <2>3. Busy' \subseteq {h} /\ Busy = {}
      BY <1>6, <2>1, <2>2
    <2>4. \A c \in Delivery : delivery'[c] = IF c = d THEN "admitted" ELSE delivery[c]
      BY <2>1, <1>1 DEF HandlersTyped
    <2>5. Rights => Rights'
      BY <1>7, <2>1, <2>4 DEF storeVars
    <2>6. \A c \in Delivery : WillClear(c) => WillClear(c)'
      BY <2>1, <2>4, <1>1 DEF WillClear, HandlersTyped
    <2>7. QED
      BY <1>5, <2>1, <2>3, <2>4, <2>5, <2>6 DEF OneAtWork
  <1>9. ASSUME RouteEvent(h) PROVE OneAtWork'
    <2>1. /\ Elsewhere /\ handling' = handling /\ delivery' = delivery
          /\ program'[h] = ProgramOf(EventOf[handling[h]])
          /\ UNCHANGED storeVars /\ handling[h] \in Delivery
      BY <1>9, <1>1, <1>2 DEF RouteEvent, HandlersTyped
    <2>2. h \in Busy /\ h \in Busy'
      BY <2>1, <1>2 DEF Busy
    <2>3. Busy' \subseteq {h}
      BY <1>6, <2>1, <2>2
    <2> DEFINE d == handling[h]
    <2>4. EventOf[d].kind \in InstallationKind \ {"created", "deleted"} => ~Narrowed(EventOf[d])
      BY <1>9 DEF NarrowedByRepositoryEvent
    <2>5. Tame(ProgramOf(EventOf[d]), d) /\ (NewlySelected(d) => HasClear(ProgramOf(EventOf[d])))
      BY <1>1, <2>1, <2>4, ProgramIsTame
    <2>6. Tame(program[h], handling[h])'
      <3>1. PICK p : p = ProgramOf(EventOf[d])
        OBVIOUS
      <3>2. PICK c : c = d
        OBVIOUS
      <3>3. Tame(p, c)
        BY <2>5, <3>1, <3>2
      <3>4. program'[h] = p /\ handling'[h] = c /\ UNCHANGED instVars
        BY <2>1, <3>1, <3>2 DEF storeVars
      <3>5. QED
        BY <3>3, <3>4, TameNext, TameUnchanged
    <2>7. Rights => Rights'
      BY <1>7, <2>1 DEF storeVars
    <2>8. \A c \in Delivery : WillClear(c) => WillClear(c)'
      <3> SUFFICES ASSUME NEW c \in Delivery, WillClear(c) PROVE WillClear(c)'
        OBVIOUS
      <3>1. c = d => HasClear(program[h])'
        BY <2>1, <2>5 DEF WillClear, HasClear
      <3>2. QED
        BY <2>1, <3>1 DEF WillClear
    <2>9. delivery'[handling'[h]] = "admitted"
      BY <2>1, <2>2 DEF OneAtWork
    <2>10. QED
      BY <1>5, <2>1, <2>3, <2>6, <2>7, <2>8, <2>9 DEF OneAtWork
  <1>10. ASSUME RunStatement(h) PROVE OneAtWork'
    <2>1. /\ Elsewhere /\ handling' = handling /\ delivery' = delivery
          /\ program[h] # <<>> /\ program[h] # Route /\ program'[h] = Tail(program[h])
          /\ Execute(Head(program[h])) /\ handling[h] \in Delivery
          /\ program[h] \in Seq(Statement)
      BY <1>10, <1>1 DEF RunStatement, HandlersTyped
    <2>2. h \in Busy /\ h \in Busy'
      BY <2>1, <1>2 DEF Busy
    <2>3. Busy' \subseteq {h} /\ Busy \subseteq {h}
      BY <1>6, <2>1, <2>2
    <2>4. PICK p \in Seq(Statement) : p = program[h]
      BY <2>1
    <2>5. PICK d \in Delivery : d = handling[h]
      BY <2>1
    <2>6. Tame(p, d) /\ delivery[d] = "admitted"
      BY <2>1, <2>2, <2>4, <2>5 DEF OneAtWork
    <2>7. Installs(Head(p))
      <3>1. Head(p) \in Statement /\ Execute(Head(p))
        BY <2>1, <2>4, HeadTailProperties
      <3>2. QED
        BY <3>1, <1>1, StatementInstalls
    <2>8. Tame(program[h], handling[h])'
      <3>1. Tame(Tail(p), d)'
        BY <2>1, <2>4, <2>6, <2>7, <1>1, TameTail
      <3>2. program'[h] = Tail(p) /\ handling'[h] = d
        BY <2>1, <2>4, <2>5
      <3>3. QED
        BY <3>1, <3>2, TameNext
    <2>9. /\ Len(p) \in Nat \ {0} /\ Head(p) = p[1] /\ Len(Tail(p)) = Len(p) - 1
          /\ \A i \in 1..Len(Tail(p)) : Tail(p)[i] = p[i+1]
      BY <2>1, <2>4, HeadTailProperties, LenProperties, EmptySeq
    <2>10. ASSUME NEW i \in 2..Len(p), p[i].op = "clear" PROVE HasClear(program[h])'
      <3>1. i - 1 \in 1..Len(Tail(p)) /\ Tail(p)[i - 1] = p[i]
        BY <2>9, <2>10
      <3>2. program'[h] = Tail(p)
        BY <2>1, <2>4
      <3>3. QED
        BY <3>1, <3>2, <2>10 DEF HasClear
    <2>11. CASE Rights
      <3>1. Rights' \/ (NewlySelected(d) /\ Len(p) > 1 /\ p[2].op = "clear")
        BY <2>1, <2>4, <2>6, <2>7, <2>11, <1>1, TameHead
      <3>2. ASSUME NewlySelected(d), Len(p) > 1, p[2].op = "clear" PROVE WillClear(d)'
        <4>1. HasClear(program[h])'
          <5>1. 2 \in 2..Len(p)
            BY <3>2, <2>9
          <5>2. QED
            BY <5>1, <2>10, <3>2
        <4>2. \A g \in Handler : handling'[g] = d => g = h
          BY <2>3, <1>2 DEF Busy
        <4>3. delivery'[d] = "admitted"
          BY <2>1, <2>6
        <4>4. NewlySelected(d)'
          BY <3>2 DEF NewlySelected, KindOf
        <4>5. QED
          BY <4>1, <4>2, <4>3, <4>4 DEF WillClear
      <3>3. QED
        BY <3>1, <3>2, <1>5, <2>1, <2>3, <2>5, <2>6, <2>8 DEF OneAtWork
    <2>12. CASE ~Rights
      <3>1. PICK c \in Delivery : WillClear(c)
        BY <2>12 DEF OneAtWork
      <3>2. CASE p[1].op = "clear"
        <4>1. instRepos' = {}
          BY <3>2, <2>7, <2>9 DEF Installs
        <4>2. Rights'
          BY <4>1 DEF Rights
        <4>3. QED
          BY <4>2, <1>5, <2>1, <2>3, <2>5, <2>6, <2>8 DEF OneAtWork
      <3>3. CASE p[1].op # "clear"
        <4>1. ASSUME handling[h] = c PROVE HasClear(program[h])'
          <5>1. HasClear(p)
            BY <4>1, <3>1, <2>1, <2>4 DEF WillClear
          <5>2. PICK i \in 1..Len(p) : p[i].op = "clear"
            BY <5>1 DEF HasClear
          <5>3. i \in 2..Len(p)
            BY <5>2, <3>3, <2>9
          <5>4. QED
            BY <5>2, <5>3, <2>10
        <4>2. \A g \in Handler : handling'[g] = c => program'[g] = Route \/ HasClear(program[g])'
          <5> SUFFICES ASSUME NEW g \in Handler, handling'[g] = c
                       PROVE  program'[g] = Route \/ HasClear(program[g])'
            OBVIOUS
          <5>1. g = h
            BY <2>3, <1>2 DEF Busy
          <5>2. QED
            BY <5>1, <4>1, <2>1
        <4>3. delivery'[c] = "admitted" /\ NewlySelected(c)'
          BY <3>1, <2>1 DEF WillClear, NewlySelected, KindOf
        <4>4. WillClear(c)'
          BY <4>2, <4>3 DEF WillClear
        <4>5. QED
          BY <4>4, <1>5, <2>1, <2>3, <2>5, <2>6, <2>8 DEF OneAtWork
      <3>4. QED
        BY <3>2, <3>3
    <2>13. QED
      BY <2>11, <2>12
  <1>11. ASSUME MarkProcessed(h) PROVE OneAtWork'
    <2>1. /\ Elsewhere /\ handling[h] \in Delivery /\ handling'[h] = None /\ program[h] = <<>>
          /\ program' = program /\ delivery' = [delivery EXCEPT ![handling[h]] = "processed"]
          /\ UNCHANGED storeVars
      BY <1>11, <1>1 DEF MarkProcessed, HandlersTyped
    <2>2. h \in Busy /\ h \notin Busy'
      BY <2>1, <1>2 DEF Busy
    <2>3. Busy' = {}
      BY <1>6, <2>1, <2>2
    <2>4. \A c \in Delivery : delivery'[c] = IF c = handling[h] THEN "processed" ELSE delivery[c]
      BY <2>1, <1>1 DEF HandlersTyped
    <2>5. Rights => Rights'
      BY <1>7, <2>1, <2>4 DEF storeVars
    <2>6. \A c \in Delivery : WillClear(c) => WillClear(c)'
      <3> SUFFICES ASSUME NEW c \in Delivery, WillClear(c) PROVE WillClear(c)'
        OBVIOUS
      <3>1. ~HasClear(<<>>)
        BY DEF HasClear
      <3>2. c # handling[h]
        BY <2>1, <3>1, <1>2 DEF WillClear
      <3>3. delivery'[c] = "admitted"
        BY <2>4, <3>2 DEF WillClear
      <3>4. \A g \in Handler : handling'[g] # c
        BY <2>3, <1>2 DEF Busy
      <3>5. QED
        BY <3>3, <3>4 DEF WillClear, NewlySelected, KindOf
    <2>7. QED
      BY <2>3, <2>5, <2>6 DEF OneAtWork
  <1>12. ASSUME Forget(h) PROVE OneAtWork'
    <2>1. /\ Elsewhere /\ handling'[h] = None /\ UNCHANGED <<delivery, storeVars>>
      BY <1>12, <1>1 DEF Forget, HandlersTyped
    <2>2. h \notin Busy' /\ Busy' \subseteq Busy
      BY <2>1 DEF Busy
    <2>3. Rights => Rights'
      BY <1>7, <2>1 DEF storeVars
    <2>4. \A c \in Delivery : WillClear(c) => WillClear(c)'
      BY <2>1, <1>2 DEF WillClear, NewlySelected, KindOf, HasClear
    <2>5. \A g \in Busy' : Tame(program[g], handling[g])' \/ program'[g] = Route
      <3> SUFFICES ASSUME NEW g \in Busy' PROVE Tame(program[g], handling[g])' \/ program'[g] = Route
        OBVIOUS
      <3>1. g \in Busy /\ program'[g] = program[g] /\ handling'[g] = handling[g] /\ UNCHANGED instVars
        BY <2>1, <2>2 DEF storeVars, Busy
      <3>2. program[g] = Route \/ Tame(program[g], handling[g])
        BY <3>1 DEF OneAtWork
      <3>3. CASE Tame(program[g], handling[g])
        <4>1. PICK p : p = program[g]
          OBVIOUS
        <4>2. PICK c : c = handling[g]
          OBVIOUS
        <4>3. QED
          BY <3>1, <3>3, <4>1, <4>2, TameNext, TameUnchanged
      <3>4. QED
        BY <3>1, <3>2, <3>3
    <2>6. \A g \in Busy' : delivery'[handling'[g]] = "admitted"
      BY <2>1, <2>2 DEF OneAtWork, Busy
    <2>7. QED
      BY <1>5, <2>1, <2>3, <2>4, <2>5, <2>6 DEF OneAtWork
  <1>13. QED
    BY <1>8, <1>9, <1>10, <1>11, <1>12 DEF WebhookStep, StatementFails, HandlerDies

\* No statement of a handler leaves repositories without an installation.
LEMMA RightsHaveRow ==
  ASSUME WebhookInv, instState = "absent" => instRepos = {}, NEW h \in Handler, WebhookStep(h)
  PROVE  instState' = "absent" => instRepos' = {}
  <1>1. StoreTypeOK /\ HandlersTyped
    BY DEF WebhookInv, StoreInv
  <1>2. ASSUME RunStatement(h) PROVE instState' = "absent" => instRepos' = {}
    <2>1. program[h] \in Seq(Statement) /\ program[h] # <<>> /\ Execute(Head(program[h]))
      BY <1>1, <1>2 DEF HandlersTyped, RunStatement
    <2>2. Head(program[h]) \in Statement
      BY <2>1, HeadTailProperties
    <2>3. Installs(Head(program[h]))
      BY <1>1, <2>1, <2>2, StatementInstalls
    <2>4. QED
      BY <2>3 DEF Installs
  <1>3. ASSUME ~RunStatement(h) PROVE UNCHANGED storeVars
    BY <1>3 DEF WebhookStep, Receive, RouteEvent, MarkProcessed, StatementFails, HandlerDies, Forget
  <1>4. QED
    BY <1>2, <1>3 DEF storeVars, instVars

\* The runs and the outbox touch neither the installation nor the handlers.
LEMMA RightsStutter ==
  ASSUME RightsInv, UNCHANGED <<instVars, webhookVars, overlapped>>
  PROVE  RightsInv'
  <1>1. Granted' = Granted /\ Busy' = Busy /\ (Rights => Rights')
    BY DEF Granted, KindOf, Busy, Rights, instVars, webhookVars
  <1>2. \A d \in Delivery : WillClear(d) => WillClear(d)'
    BY DEF WillClear, NewlySelected, KindOf, HasClear, webhookVars
  <1>3. ASSUME OneAtWork, NEW h \in Busy
        PROVE  /\ delivery'[handling'[h]] = "admitted"
               /\ program'[h] = Route \/ Tame(program[h], handling[h])'
    <2>1. PICK p : p = program[h]
      OBVIOUS
    <2>2. PICK c : c = handling[h]
      OBVIOUS
    <2>3. program'[h] = p /\ handling'[h] = c /\ delivery' = delivery
      BY <2>1, <2>2 DEF webhookVars
    <2>4. delivery[c] = "admitted" /\ (p = Route \/ Tame(p, c))
      BY <1>3, <2>1, <2>2 DEF OneAtWork
    <2>5. QED
      BY <2>3, <2>4, TameNext, TameUnchanged
  <1>4. OneAtWork => OneAtWork'
    BY <1>1, <1>2, <1>3 DEF OneAtWork
  <1>5. QED
    BY <1>4 DEF RightsInv, instVars

LEMMA RightsInvStep ==
  ASSUME RightsFullInv, [Next]_vars, [NarrowedByRepositoryEvent]_vars
  PROVE  RightsFullInv'
  <1>1. WebhookInv' /\ WebhookInv
    BY WebhookInvStep DEF RightsFullInv
  <1>2. ASSUME UNCHANGED <<instVars, webhookVars, overlapped>> PROVE RightsFullInv'
    BY <1>1, <1>2, RightsStutter DEF RightsFullInv
  <1>3. ASSUME NEW h \in Handler, WebhookStep(h), Next PROVE RightsFullInv'
    <2>1. instState' = "absent" => instRepos' = {}
      BY <1>1, <1>3, RightsHaveRow DEF RightsFullInv, RightsInv
    <2>2. ASSUME ~overlapped' PROVE OneAtWork'
      <3>1. ~overlapped /\ ~(Cardinality(Busy') > 1)
        BY <1>3, <2>2 DEF Next
      <3>2. CASE NarrowedByRepositoryEvent
        BY <1>1, <1>3, <3>1, <3>2, RightsHandlerStep DEF RightsFullInv, RightsInv
      <3>3. CASE UNCHANGED vars
        <4>1. UNCHANGED <<instVars, webhookVars, overlapped>>
          BY <3>3 DEF vars, storeVars
        <4>2. QED
          BY <4>1, <3>1, RightsStutter, <2>2 DEF RightsFullInv, RightsInv
      <3>4. QED
        BY <3>2, <3>3
    <2>3. overlapped' \in BOOLEAN
      BY <1>3, Zenon DEF Next
    <2>4. QED
      BY <1>1, <2>1, <2>2, <2>3 DEF RightsFullInv, RightsInv
  <1>4. ASSUME Others, overlapped' = (overlapped \/ Cardinality(Busy') > 1) PROVE RightsFullInv'
    <2>1. UNCHANGED <<instVars, webhookVars>>
      BY <1>4 DEF Others, RepairOutboxJobs, ClaimWorkflowRunOrEnqueueOrphan, CasClaimExecutor,
         AuthorizeReviewRequestWithOutbox, CasMarkStarted
    <2>2. overlapped' \in BOOLEAN /\ (overlapped => overlapped')
      BY <1>4, Zenon
    <2>3. CASE overlapped'
      BY <1>1, <2>1, <2>2, <2>3 DEF RightsFullInv, RightsInv, instVars
    <2>4. CASE ~overlapped'
      <3>1. overlapped \in BOOLEAN /\ ~overlapped
        BY <2>2, <2>4 DEF RightsFullInv, RightsInv
      <3>2. overlapped' = overlapped
        BY <2>2, <2>4, <3>1
      <3>3. QED
        BY <1>2, <2>1, <3>2
    <2>5. QED
      BY <2>3, <2>4
  <1>5. CASE UNCHANGED vars
    <2>1. UNCHANGED <<instVars, webhookVars, overlapped>>
      BY <1>5 DEF vars, storeVars
    <2>2. QED
      BY <2>1, <1>2
  <1>6. QED
    BY <1>3, <1>4, <1>5 DEF Next

\* When an installation was narrowed to selected repositories, every event is processed
\* and no two handlers ever overlapped, no repository keeps an authorization from the
\* time before, wherever handlers died; provided the narrowing came as an event about
\* repositories (handleInstallationRepositories) or a new installation.
THEOREM NarrowingIsComplete ==
  Spec /\ [][NarrowedByRepositoryEvent]_vars => []NoStaleRights
  <1>1. Init => RightsFullInv
    <2> SUFFICES ASSUME Init PROVE RightsFullInv
      OBVIOUS
    <2>1. Start
      BY DEF Init, Start
    <2>2. WebhookInv
      BY <2>1, HandlersTypedInit, StoreInvInit DEF Start, WebhookInv
    <2>3. instRepos = {} /\ Busy = {}
      BY EventAssumption DEF Init, NoInstallation, WebhookInit, Busy
    <2>4. RightsInv
      BY <2>3 DEF RightsInv, OneAtWork, Rights, Init
    <2>5. QED
      BY <2>2, <2>4 DEF RightsFullInv
  <1>2. RightsFullInv /\ [Next]_vars /\ [NarrowedByRepositoryEvent]_vars => RightsFullInv'
    BY RightsInvStep
  <1>3. RightsFullInv => NoStaleRights
    BY DEF RightsFullInv, RightsInv, OneAtWork, NoStaleRights, Settled, WillClear, Rights
  <1>4. QED
    BY <1>1, <1>2, <1>3, PTL DEF Spec

=============================================================================
