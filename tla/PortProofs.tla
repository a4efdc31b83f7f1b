----------------------------- MODULE PortProofs -----------------------------
(***************************************************************************)
(* The port of the control plane, whose batches are statements run one     *)
(* after the other: it keeps the ledger of reviews, and whatever its single *)
(* statements and half-run handlers leave behind, one repair makes good.    *)
(***************************************************************************)
EXTENDS ControlPlane, SequenceTheorems, TLAPS

RowStatus == {"absent", "pending_dispatch", "failed_dispatch", "dispatched", "claimed", "started",
              "completed", "failed", "cancelled", "superseded"}
Rows == [id : Nat, status : RowStatus, run : Run \cup {None}, check : BOOLEAN, authorized : BOOLEAN]
Jobs == [status : {"absent", "pending", "leased", "completed"}, owner : Owner \cup {None},
         expired : BOOLEAN]

Tables == [request : [Key -> Rows], lastId : Nat, job : [JobKey -> Jobs],
           receipt : [Key -> Outcome \cup {"none"}],
           installation : {"absent", "active", "suspended"}, selection : {"all", "selected"},
           repos : SUBSET Repo]

USE DEF Retryable, Supersedable, Outcome, Terminal, JobKey

-----------------------------------------------------------------------------
(* What the statements do to tables.                                       *)

\* No job disappears.
JobsStay(d, e) == \A j \in JobKey : d.job[j] # NoJob => e.job[j] # NoJob

SameRows(d, e) == e.request = d.request /\ e.lastId = d.lastId /\ e.receipt = d.receipt
SameInstallation(d, e) ==
  e.installation = d.installation /\ e.selection = d.selection /\ e.repos = d.repos

LEMMA RowTypes == NoRow \in Rows /\ NoJob \in Jobs /\ Queued \in Jobs /\ Queued # NoJob
  BY DEF NoRow, NoJob, Queued, Rows, Jobs, RowStatus

\* INSERT OR IGNORE.
LEMMA InsertJobsDoes ==
  ASSUME NEW d \in Tables, NEW J
  PROVE  /\ InsertJobs(d, J) \in Tables
         /\ SameRows(d, InsertJobs(d, J)) /\ SameInstallation(d, InsertJobs(d, J))
         /\ JobsStay(d, InsertJobs(d, J))
         /\ \A j \in J \cap JobKey : InsertJobs(d, J).job[j] # NoJob
  <1> DEFINE new == [j \in JobKey |-> IF j \in J /\ d.job[j] = NoJob THEN Queued ELSE d.job[j]]
  <1>1. new \in [JobKey -> Jobs]
    BY RowTypes DEF Tables
  <1>2. \A j \in JobKey : /\ d.job[j] # NoJob => new[j] # NoJob
                          /\ j \in J => new[j] # NoJob
    BY RowTypes
  <1>3. InsertJobs(d, J) = [d EXCEPT !.job = new]
    BY DEF InsertJobs
  <1> HIDE DEF new
  <1>4. QED
    BY <1>1, <1>2, <1>3 DEF Tables, SameRows, SameInstallation, JobsStay

\* A row in another status.
WithStatus(r, s) == [r EXCEPT !.status = s]

LEMMA WithStatusDoes ==
  ASSUME NEW r \in Rows, NEW s \in RowStatus
  PROVE  /\ WithStatus(r, s) \in Rows
         /\ WithStatus(r, s).status = s
         /\ WithStatus(r, s).id = r.id /\ WithStatus(r, s).run = r.run
         /\ WithStatus(r, s).check = r.check /\ WithStatus(r, s).authorized = r.authorized
  BY DEF WithStatus, Rows

\* A status update of the rows K.
LEMMA SetStatusDoes ==
  ASSUME NEW d \in Tables, NEW K \in SUBSET Key, NEW s \in RowStatus
  PROVE  /\ SetStatus(d, K, s) \in Tables
         /\ \A k \in K : SetStatus(d, K, s).request[k] = WithStatus(d.request[k], s)
         /\ \A k \in Key \ K : SetStatus(d, K, s).request[k] = d.request[k]
         /\ SetStatus(d, K, s).lastId = d.lastId
         /\ SetStatus(d, K, s).receipt = d.receipt
         /\ SetStatus(d, K, s).job = d.job
         /\ SameInstallation(d, SetStatus(d, K, s))
  <1> DEFINE new == [k \in Key |-> IF k \in K THEN WithStatus(d.request[k], s)
                                              ELSE d.request[k]]
  <1>1. \A k \in Key : d.request[k] \in Rows
    BY DEF Tables
  <1>2. \A k \in Key : WithStatus(d.request[k], s) \in Rows
    BY <1>1, WithStatusDoes
  <1>3. new \in [Key -> Rows]
    BY <1>1, <1>2
  <1>4. /\ \A k \in K : new[k] = WithStatus(d.request[k], s)
        /\ \A k \in Key \ K : new[k] = d.request[k]
    OBVIOUS
  <1>5. SetStatus(d, K, s) = [d EXCEPT !.request = new]
    BY DEF SetStatus, WithStatus
  <1> HIDE DEF new
  <1>6. QED
    BY <1>3, <1>4, <1>5 DEF Tables, SameInstallation

\* The rows of e are those of d, but that the rows K, which could be, are superseded.
Superseded(d, e, K) ==
  /\ \A k \in Key : e.request[k] = IF k \in K /\ d.request[k].status \in Supersedable
                                     THEN WithStatus(d.request[k], "superseded")
                                     ELSE d.request[k]
  /\ e.lastId = d.lastId /\ e.receipt = d.receipt

\* A run in a row is a key of the outbox.
LEMMA RunsAreJobs ==
  ASSUME NEW d \in Tables, NEW K \in SUBSET Key
  PROVE  RunsOf(d, K) \subseteq JobKey
  BY DEF RunsOf, Tables, Rows

LEMMA MarkSupersededDoes ==
  ASSUME NEW d \in Tables, NEW K \in SUBSET Key
  PROVE  /\ MarkSuperseded(d, K) \in Tables
         /\ Superseded(d, MarkSuperseded(d, K), K)
         /\ MarkSuperseded(d, K).job = d.job
         /\ SameInstallation(d, MarkSuperseded(d, K))
  <1>1. PICK hit \in SUBSET Key : hit = K \cap InStatus(d, Supersedable)
    BY DEF InStatus
  <1>2. \A k \in Key : k \in hit <=> k \in K /\ d.request[k].status \in Supersedable
    BY <1>1 DEF InStatus
  <1>3. PICK e : e = SetStatus(d, hit, "superseded")
    OBVIOUS
  <1>4. MarkSuperseded(d, K) = e /\ "superseded" \in RowStatus
    BY <1>1, <1>3 DEF MarkSuperseded, RowStatus
  <1>5. /\ e \in Tables
        /\ \A k \in hit : e.request[k] = WithStatus(d.request[k], "superseded")
        /\ \A k \in Key \ hit : e.request[k] = d.request[k]
        /\ e.lastId = d.lastId /\ e.receipt = d.receipt /\ e.job = d.job /\ SameInstallation(d, e)
    <2> HIDE DEF Supersedable, Retryable, Outcome, Terminal, JobKey
    <2>1. hit \in SUBSET Key /\ "superseded" \in RowStatus
      BY <1>4
    <2>2. QED
      BY <1>3, <2>1, SetStatusDoes, Zenon
  <1>6. Superseded(d, e, K)
    BY <1>2, <1>5 DEF Superseded
  <1>7. QED
    BY <1>4, <1>5, <1>6

\* The statements of a supersession: the cancel jobs are inserted for the rows that the
\* next statement marks.
LEMMA SupersessionDoes ==
  ASSUME NEW d \in Tables, NEW K \in SUBSET Key
  PROVE  /\ Supersession(d, K) \in Tables
         /\ Superseded(d, Supersession(d, K), K)
         /\ SameInstallation(d, Supersession(d, K))
         /\ JobsStay(d, Supersession(d, K))
         /\ \A k \in K : d.request[k].status \in Supersedable /\ d.request[k].run # None =>
                           Supersession(d, K).job[d.request[k].run] # NoJob
  <1> DEFINE hit == K \cap InStatus(d, Supersedable)
             c == CancelJobsFor(d, hit)
  <1>1. hit \in SUBSET Key /\ \A k \in K : d.request[k].status \in Supersedable => k \in hit
    BY DEF InStatus
  <1>2. RunsOf(d, hit) \subseteq JobKey
    BY <1>1, RunsAreJobs
  <1>3. /\ c \in Tables /\ SameRows(d, c) /\ SameInstallation(d, c) /\ JobsStay(d, c)
        /\ \A j \in RunsOf(d, hit) : c.job[j] # NoJob
    BY <1>2, InsertJobsDoes DEF CancelJobsFor
  <1>4. Supersession(d, K) = MarkSuperseded(c, K)
    BY DEF Supersession
  <1>5. \A k \in hit : d.request[k].run # None => d.request[k].run \in RunsOf(d, hit)
    BY DEF RunsOf
  <1> HIDE DEF c, hit
  <1>6. /\ MarkSuperseded(c, K) \in Tables
        /\ Superseded(c, MarkSuperseded(c, K), K)
        /\ MarkSuperseded(c, K).job = c.job
        /\ SameInstallation(c, MarkSuperseded(c, K))
    BY <1>3, MarkSupersededDoes
  <1>7. Superseded(d, MarkSuperseded(c, K), K)
    BY <1>3, <1>6 DEF Superseded, SameRows
  <1>8. SameInstallation(d, MarkSuperseded(c, K)) /\ JobsStay(d, MarkSuperseded(c, K))
    BY <1>3, <1>6 DEF SameInstallation, JobsStay
  <1>9. QED
    BY <1>1, <1>3, <1>4, <1>5, <1>6, <1>7, <1>8

LEMMA AuthorizedKeys ==
  ASSUME NEW d
  PROVE  Authorized(d) \in SUBSET Key
  BY DEF Authorized

\* The batch of repairOutboxJobs, statement by statement.
LEMMA RepairDoes ==
  ASSUME NEW d \in Tables
  PROVE  /\ Repair(d) \in Tables
         /\ Superseded(d, Repair(d), Key \ Authorized(d))
         /\ SameInstallation(d, Repair(d))
         /\ JobsStay(d, Repair(d))
         /\ \A k \in Waiting(Repair(d)) : Repair(d).job[k] # NoJob
         /\ Uncancelled(Repair(d)) = {}
  <1> DEFINE a == Supersession(d, Key \ Authorized(d))
             b == DispatchJobFor(a, Authorized(a))
             K == InStatus(b, {"superseded"})
             c == CancelJobsFor(b, K)
  <1>1. /\ a \in Tables /\ Superseded(d, a, Key \ Authorized(d))
        /\ SameInstallation(d, a) /\ JobsStay(d, a)
    BY SupersessionDoes, AuthorizedKeys
  <1>2. Authorized(a) = Authorized(d)
    BY <1>1 DEF Authorized, SameInstallation
  <1>3. /\ b \in Tables /\ SameRows(a, b) /\ SameInstallation(a, b) /\ JobsStay(a, b)
        /\ \A j \in Authorized(a) \cap Waiting(a) : b.job[j] # NoJob
    <2>1. Authorized(a) \cap Waiting(a) \subseteq JobKey
      BY DEF Authorized
    <2> HIDE DEF a
    <2>2. QED
      BY <1>1, <2>1, InsertJobsDoes DEF DispatchJobFor
  <1>4. K \in SUBSET Key
    BY DEF InStatus
  <1>5. RunsOf(b, K) \subseteq JobKey
    BY <1>3, <1>4, RunsAreJobs
  <1>6. /\ c \in Tables /\ SameRows(b, c) /\ SameInstallation(b, c) /\ JobsStay(b, c)
        /\ \A j \in RunsOf(b, K) : c.job[j] # NoJob
    <2> HIDE DEF b, K
    <2> QED BY <1>3, <1>5, InsertJobsDoes DEF CancelJobsFor
  <1>7. Repair(d) = c
    BY DEF Repair
  <1>8. Waiting(a) \subseteq Authorized(a)
    <2>1. ASSUME NEW k \in Waiting(a), k \notin Authorized(d) PROVE FALSE
      <3>1. k \in Key /\ a.request[k].status \in Retryable
        BY <2>1 DEF Waiting, InStatus
      <3>2. a.request[k] = IF d.request[k].status \in Supersedable
                             THEN WithStatus(d.request[k], "superseded") ELSE d.request[k]
        BY <1>1, <2>1, <3>1 DEF Superseded
      <3>3. d.request[k] \in Rows
        BY <3>1 DEF Tables
      <3> HIDE DEF a
      <3>4. QED
        BY <3>1, <3>2, <3>3, WithStatusDoes DEF RowStatus
    <2>2. QED
      BY <2>1, <1>2
  <1> HIDE DEF a, b, c, K
  <1>9. Superseded(d, c, Key \ Authorized(d)) /\ SameInstallation(d, c) /\ JobsStay(d, c)
    BY <1>1, <1>3, <1>6 DEF Superseded, SameRows, SameInstallation, JobsStay
  <1>10. Waiting(c) = Waiting(a) /\ Waiting(c) \subseteq Key
    BY <1>3, <1>6 DEF Waiting, InStatus, SameRows
  <1>11. \A k \in Waiting(c) : c.job[k] # NoJob
    BY <1>3, <1>6, <1>8, <1>10 DEF JobsStay
  <1>12. Uncancelled(c) = {}
    <2>1. ASSUME NEW k \in Uncancelled(c) PROVE FALSE
      <3>1. PICK x \in RunsOf(c, {k}) : c.job[x] = NoJob
        BY <2>1 DEF Uncancelled
      <3>2. k \in K
        BY <2>1, <1>6 DEF Uncancelled, InStatus, K, SameRows
      <3>3. x = b.request[k].run /\ x # None
        BY <3>1, <1>6 DEF RunsOf, SameRows
      <3>4. x \in RunsOf(b, K)
        BY <3>2, <3>3 DEF RunsOf
      <3>5. QED
        BY <3>1, <3>4, <1>6
    <2>2. QED
      BY <2>1
  <1>13. QED
    BY <1>6, <1>7, <1>9, <1>11, <1>12

\* What one repair promises, for any tables.
LEMMA RepairMakesGood ==
  ASSUME NEW d \in Tables
  PROVE  Repaired(Repair(d))
  <1>1. Authorized(Repair(d)) = Authorized(d)
    BY RepairDoes DEF Authorized, SameInstallation
  <1>2. ASSUME NEW k \in InStatus(Repair(d), Supersedable), k \notin Authorized(d) PROVE FALSE
    <2>1. k \in Key /\ Repair(d).request[k].status \in Supersedable
      BY <1>2 DEF InStatus
    <2>2. Repair(d).request[k] = IF d.request[k].status \in Supersedable
                                   THEN WithStatus(d.request[k], "superseded") ELSE d.request[k]
      BY RepairDoes, <1>2, <2>1 DEF Superseded
    <2>3. d.request[k] \in Rows
      BY <2>1 DEF Tables
    <2>4. QED
      BY <2>1, <2>2, <2>3, WithStatusDoes DEF RowStatus
  <1>3. QED
    BY <1>1, <1>2, RepairDoes DEF Repaired

-----------------------------------------------------------------------------
(* The kinds of steps that rows of requests make.                          *)

\* Of the rows only that of k changes, and not its id.
OnlyRow(d, e, k) ==
  /\ \A o \in Key \ {k} : e.request[o] = d.request[o]
  /\ e.request[k].id = d.request[k].id
  /\ e.lastId = d.lastId

SameAuthority(d, e, k) == e.request[k].authorized = d.request[k].authorized
SameRun(d, e, k)       == e.request[k].run = d.request[k].run

Inserts(d, e, k) ==
  /\ d.request[k] = NoRow
  /\ \A o \in Key \ {k} : e.request[o] = d.request[o]
  /\ e.request[k] = [NoRow EXCEPT !.id = d.lastId + 1, !.status = "pending_dispatch"]
  /\ e.lastId = d.lastId + 1 /\ e.receipt = d.receipt

Binds(d, e, k, x) ==
  /\ OnlyRow(d, e, k) /\ SameAuthority(d, e, k) /\ e.receipt = d.receipt
  /\ d.request[k].status \in Retryable /\ d.request[k].run = None
  /\ \A o \in Key : d.request[o].run # x
  /\ e.request[k].status = "dispatched" /\ e.request[k].run = x

\* The row moves on towards its end.
Advances(d, e, k) ==
  /\ OnlyRow(d, e, k) /\ SameAuthority(d, e, k) /\ SameRun(d, e, k) /\ e.receipt = d.receipt
  /\ d.request[k].status \in Supersedable /\ e.request[k].status \in Supersedable

GivesUp(d, e, k, s) ==
  /\ OnlyRow(d, e, k) /\ SameAuthority(d, e, k) /\ SameRun(d, e, k) /\ e.receipt = d.receipt
  /\ d.request[k].status \in Supersedable /\ d.request[k].run # None
  /\ e.request[k].status = s

Reports(d, e, k, s) ==
  /\ OnlyRow(d, e, k) /\ SameAuthority(d, e, k) /\ SameRun(d, e, k)
  /\ d.request[k].status \in Supersedable /\ d.request[k].authorized
  /\ e.request[k].status = s
  /\ e.receipt = [d.receipt EXCEPT ![k] = s]

\* The row of k is authorized, and older rows are superseded.
Authorizes(d, e, k) ==
  /\ d.request[k].status = "claimed" /\ d.request[k].run # None /\ ~d.request[k].authorized
  /\ e.request[k].status = "claimed" /\ SameRun(d, e, k) /\ e.request[k].authorized
  /\ e.request[k].id = d.request[k].id
  /\ \A o \in Key \ {k} :
        e.request[o] = IF o \in Older(d, k) /\ d.request[o].status \in Supersedable
                         THEN WithStatus(d.request[o], "superseded") ELSE d.request[o]
  /\ e.lastId = d.lastId /\ e.receipt = d.receipt

RowStep(d, e) ==
  \/ SameRows(d, e)
  \/ \E K \in SUBSET Key : Superseded(d, e, K)
  \/ \E k \in Key : Inserts(d, e, k) \/ Advances(d, e, k) \/ Authorizes(d, e, k)
  \/ \E k \in Key, x \in Run : Binds(d, e, k, x)
  \/ \E k \in Key, s \in {"failed", "cancelled"} : GivesUp(d, e, k, s)
  \/ \E k \in Key, s \in Outcome : Reports(d, e, k, s)

\* A request that is superseded in the step has the cancellation of its run queued.
Cancels(d, e) ==
  \A k \in Key : e.request[k].status = "superseded" /\ d.request[k].status # "superseded"
                   /\ e.request[k].run # None => e.job[e.request[k].run] # NoJob

\* What a step of the port does to the tables.
GoodStep(d, e) == e \in Tables /\ RowStep(d, e) /\ JobsStay(d, e) /\ Cancels(d, e)

\* Nothing is superseded by a step of these kinds, so there is nothing to cancel.
LEMMA QuietStep ==
  ASSUME NEW d, NEW e,
         \/ SameRows(d, e)
         \/ \E k \in Key : Inserts(d, e, k) \/ Advances(d, e, k)
         \/ \E k \in Key, x \in Run : Binds(d, e, k, x)
         \/ \E k \in Key, s \in Outcome : GivesUp(d, e, k, s) \/ Reports(d, e, k, s)
  PROVE  Cancels(d, e)
  <1> USE DEF Cancels
  <1>1. CASE SameRows(d, e)
    BY <1>1 DEF SameRows
  <1>2. ASSUME NEW k \in Key, Inserts(d, e, k) PROVE Cancels(d, e)
    BY <1>2 DEF Inserts, NoRow
  <1>3. ASSUME NEW k \in Key, Advances(d, e, k) PROVE Cancels(d, e)
    BY <1>3 DEF Advances, OnlyRow
  <1>4. ASSUME NEW k \in Key, NEW x \in Run, Binds(d, e, k, x) PROVE Cancels(d, e)
    BY <1>4 DEF Binds, OnlyRow
  <1>5. ASSUME NEW k \in Key, NEW s \in Outcome, GivesUp(d, e, k, s) \/ Reports(d, e, k, s)
        PROVE Cancels(d, e)
    BY <1>5 DEF GivesUp, Reports, OnlyRow
  <1>6. QED
    BY <1>1, <1>2, <1>3, <1>4, <1>5

\* Statements that insert jobs, change leases or the installation.
LEMMA SameRowsGood ==
  ASSUME NEW d, NEW e \in Tables, SameRows(d, e), JobsStay(d, e)
  PROVE  GoodStep(d, e)
  BY QuietStep DEF GoodStep, RowStep

LEMMA InsertJobsGood ==
  ASSUME NEW d \in Tables, NEW J
  PROVE  GoodStep(d, InsertJobs(d, J))
  BY InsertJobsDoes, SameRowsGood

\* A good step that leaves jobs and installation alone, followed by an insertion of jobs.
LEMMA ThenInsertJobs ==
  ASSUME NEW d \in Tables, NEW m \in Tables, NEW J, m.job = d.job,
         \/ SameRows(d, m)
         \/ \E k \in Key : Inserts(d, m, k)
         \/ \E k \in Key, x \in Run : Binds(d, m, k, x)
  PROVE  GoodStep(d, InsertJobs(m, J))
  <1>1. PICK e : e = InsertJobs(m, J)
    OBVIOUS
  <1>2. e \in Tables /\ SameRows(m, e) /\ JobsStay(m, e)
    BY <1>1, InsertJobsDoes
  <1>3. JobsStay(d, e)
    BY <1>2 DEF JobsStay
  <1>4. \/ SameRows(d, e)
        \/ \E k \in Key : Inserts(d, e, k)
        \/ \E k \in Key, x \in Run : Binds(d, e, k, x)
    BY <1>2 DEF SameRows, Inserts, Binds, OnlyRow, SameAuthority
  <1>5. RowStep(d, e) /\ Cancels(d, e)
    BY <1>4, QuietStep DEF RowStep
  <1>6. QED
    BY <1>1, <1>2, <1>3, <1>5 DEF GoodStep

\* A supersession cancels the runs of what it supersedes.
LEMMA SupersessionGood ==
  ASSUME NEW d \in Tables, NEW K \in SUBSET Key
  PROVE  GoodStep(d, Supersession(d, K))
  <1>1. PICK e : e = Supersession(d, K)
    OBVIOUS
  <1>2. /\ e \in Tables /\ Superseded(d, e, K) /\ JobsStay(d, e)
        /\ \A k \in K : d.request[k].status \in Supersedable /\ d.request[k].run # None =>
                          e.job[d.request[k].run] # NoJob
    BY <1>1, SupersessionDoes
  <1>3. ASSUME NEW k \in Key, e.request[k].status = "superseded", d.request[k].status # "superseded",
               e.request[k].run # None
        PROVE  e.job[e.request[k].run] # NoJob
    <2>1. k \in K /\ d.request[k].status \in Supersedable
          /\ e.request[k] = WithStatus(d.request[k], "superseded")
      BY <1>2, <1>3 DEF Superseded
    <2>2. e.request[k].run = d.request[k].run
      BY <2>1, WithStatusDoes DEF Tables, RowStatus
    <2>3. QED
      BY <1>2, <1>3, <2>1, <2>2
  <1>4. QED
    BY <1>1, <1>2, <1>3 DEF GoodStep, RowStep, Cancels

LEMMA RepairGood ==
  ASSUME NEW d \in Tables
  PROVE  GoodStep(d, Repair(d))
  <1>1. PICK e : e = Repair(d)
    OBVIOUS
  <1>2. /\ e \in Tables /\ Superseded(d, e, Key \ Authorized(d)) /\ JobsStay(d, e)
        /\ Uncancelled(e) = {}
    BY <1>1, RepairDoes
  <1>3. ASSUME NEW k \in Key, e.request[k].status = "superseded", e.request[k].run # None
        PROVE  e.job[e.request[k].run] # NoJob
    <2>1. k \in InStatus(e, {"superseded"}) /\ e.request[k].run \in RunsOf(e, {k})
      BY <1>3 DEF InStatus, RunsOf
    <2>2. QED
      BY <1>2, <2>1 DEF Uncancelled
  <1>4. Key \ Authorized(d) \in SUBSET Key
    OBVIOUS
  <1>5. QED
    BY <1>1, <1>2, <1>3, <1>4 DEF GoodStep, RowStep, Cancels

\* The three statements of the authorization, one after the other: the second and the
\* third find the row as the first has left it.
LEMMA AuthorizeGood ==
  ASSUME NEW d \in Tables, NEW k \in Key, NEW x \in Run, x # None, NEW same \in BOOLEAN
  PROVE  GoodStep(d, Authorize(d, k, x, same))
  <1> DEFINE may == d.request[k].status = "claimed" /\ d.request[k].run = x /\ ~d.request[k].authorized
  <1>0. \A o \in Key : d.request[o] \in Rows
    BY DEF Tables
  <1>1. CASE ~may
    <2>1. PICK K : Authorize(d, k, x, same) = Supersession(d, K) /\ K \in SUBSET Key
      <3>1. Authorize(d, k, x, same) =
              Supersession(d, IF /\ d.request[k].status = "claimed" /\ d.request[k].run = x
                                 /\ d.request[k].authorized /\ same
                                THEN Older(d, k) ELSE {})
        BY <1>1 DEF Authorize
      <3>2. Older(d, k) \in SUBSET Key
        BY DEF Older
      <3>3. QED
        BY <3>1, <3>2
    <2>2. QED
      BY <2>1, SupersessionGood
  <1>2. CASE may
    <2>1. PICK m : m = [d EXCEPT !.request[k].authorized = TRUE]
      OBVIOUS
    <2>2. /\ m \in Tables /\ m.lastId = d.lastId /\ m.receipt = d.receipt /\ m.job = d.job
          /\ m.request = [d.request EXCEPT ![k].authorized = TRUE]
      BY <2>1, <1>0 DEF Tables, Rows
    <2>3. /\ m.request[k].status = "claimed" /\ m.request[k].run = x /\ m.request[k].authorized
          /\ m.request[k].id = d.request[k].id
          /\ \A o \in Key \ {k} : m.request[o] = d.request[o]
      BY <1>0, <1>2, <2>2 DEF Tables, Rows
    <2>4. Older(m, k) = Older(d, k) /\ Older(m, k) \in SUBSET Key /\ k \notin Older(d, k)
      BY <1>0, <2>3 DEF Older, Rows
    <2>5. Authorize(d, k, x, same) = Supersession(m, Older(m, k))
      BY <1>2, <2>1, <2>3 DEF Authorize
    <2>6. PICK e : e = Supersession(m, Older(m, k))
      OBVIOUS
    <2>7. /\ e \in Tables /\ Superseded(m, e, Older(d, k)) /\ JobsStay(m, e)
          /\ GoodStep(m, e)
      BY <2>2, <2>4, <2>6, SupersessionDoes, SupersessionGood
    <2>8. e.request[k] = m.request[k]
      BY <2>4, <2>7 DEF Superseded
    <2>9. Authorizes(d, e, k)
      <3>1. \A o \in Key \ {k} :
              e.request[o] = IF o \in Older(d, k) /\ d.request[o].status \in Supersedable
                               THEN WithStatus(d.request[o], "superseded") ELSE d.request[o]
        BY <2>3, <2>7 DEF Superseded
      <3>2. e.lastId = d.lastId /\ e.receipt = d.receipt
        BY <2>2, <2>7 DEF Superseded
      <3>3. QED
        BY <1>2, <2>3, <2>8, <3>1, <3>2 DEF Authorizes, SameRun
    <2>10. JobsStay(d, e)
      BY <2>2, <2>7 DEF JobsStay
    <2>11. Cancels(d, e)
      BY <2>3, <2>7, <2>8 DEF Cancels, GoodStep
    <2>12. QED
      BY <2>5, <2>6, <2>7, <2>9, <2>10, <2>11 DEF GoodStep, RowStep
  <1>3. QED
    BY <1>1, <1>2

-----------------------------------------------------------------------------
(* The statements of the client, one by one.                               *)

\* An update of one row that moves its status.
LEMMA StatusGood ==
  ASSUME NEW d \in Tables, NEW k \in Key, NEW s \in RowStatus, d.request[k].status \in Supersedable,
         \/ s \in Supersedable
         \/ s \in {"failed", "cancelled"} /\ d.request[k].run # None
  PROVE  GoodStep(d, SetStatus(d, {k}, s))
  <1>1. PICK e : e = SetStatus(d, {k}, s)
    OBVIOUS
  <1>2. {k} \in SUBSET Key
    OBVIOUS
  <1>3. /\ e \in Tables
        /\ e.request[k] = WithStatus(d.request[k], s)
        /\ \A o \in Key \ {k} : e.request[o] = d.request[o]
        /\ e.lastId = d.lastId /\ e.receipt = d.receipt /\ e.job = d.job
    BY <1>1, <1>2, SetStatusDoes
  <1>4. d.request[k] \in Rows
    BY DEF Tables
  <1>5. /\ OnlyRow(d, e, k) /\ SameAuthority(d, e, k) /\ SameRun(d, e, k)
        /\ e.request[k].status = s
    BY <1>3, <1>4, WithStatusDoes DEF OnlyRow, SameAuthority, SameRun
  <1>6. Advances(d, e, k) \/ (s \in {"failed", "cancelled"} /\ GivesUp(d, e, k, s))
    BY <1>3, <1>5 DEF Advances, GivesUp
  <1>7. RowStep(d, e)
    BY <1>6 DEF RowStep
  <1>8. Cancels(d, e)
    BY <1>6, QuietStep
  <1>9. JobsStay(d, e)
    BY <1>3 DEF JobsStay
  <1>10. QED
    BY <1>1, <1>3, <1>7, <1>8, <1>9 DEF GoodStep

\* No row is left to update.
LEMMA NoStatusGood ==
  ASSUME NEW d \in Tables, NEW s \in RowStatus
  PROVE  GoodStep(d, SetStatus(d, {}, s))
  <1>2. PICK K \in SUBSET Key : K = {}
    OBVIOUS
  <1>1. PICK e : e = SetStatus(d, K, s)
    OBVIOUS
  <1>3. /\ e \in Tables /\ \A o \in Key : e.request[o] = d.request[o]
        /\ e.lastId = d.lastId /\ e.receipt = d.receipt /\ e.job = d.job
    <2> HIDE DEF Supersedable, Retryable, Outcome, Terminal, JobKey
    <2>1. /\ e \in Tables /\ \A o \in Key \ K : e.request[o] = d.request[o]
          /\ e.lastId = d.lastId /\ e.receipt = d.receipt /\ e.job = d.job
      BY <1>1, SetStatusDoes, Zenon
    <2>2. QED
      BY <1>2, <2>1
  <1>4. e.request = d.request
    BY <1>3 DEF Tables
  <1>5. SameRows(d, e) /\ JobsStay(d, e)
    BY <1>3, <1>4 DEF SameRows, JobsStay
  <1>6. QED
    BY <1>1, <1>2, <1>3, <1>5, SameRowsGood

LEMMA InsertRequestDoes ==
  ASSUME NEW d \in Tables, NEW k \in Key
  PROVE  /\ InsertRequest(d, k) \in Tables
         /\ InsertRequest(d, k).job = d.job
         /\ SameRows(d, InsertRequest(d, k)) \/ Inserts(d, InsertRequest(d, k), k)
  <1>1. CASE d.request[k] # NoRow
    BY <1>1 DEF InsertRequest, SameRows
  <1>2. CASE d.request[k] = NoRow
    <2>1. PICK row : row = [NoRow EXCEPT !.id = d.lastId + 1, !.status = "pending_dispatch"]
      OBVIOUS
    <2>0. d.lastId \in Nat /\ d.lastId + 1 \in Nat
      BY DEF Tables
    <2>2. row \in Rows
      BY <2>0, <2>1 DEF NoRow, Rows, RowStatus
    <2>3. PICK e : e = [d EXCEPT !.request = [@ EXCEPT ![k] = row], !.lastId = @ + 1]
      OBVIOUS
    <2>4. InsertRequest(d, k) = e
      BY <1>2, <2>1, <2>3 DEF InsertRequest, Tables
    <2>5. /\ e \in Tables /\ e.job = d.job /\ e.receipt = d.receipt /\ e.lastId = d.lastId + 1
          /\ e.request = [d.request EXCEPT ![k] = row]
      BY <2>0, <2>2, <2>3 DEF Tables
    <2>6. e.request[k] = row /\ \A o \in Key \ {k} : e.request[o] = d.request[o]
      BY <2>5 DEF Tables
    <2>7. QED
      BY <1>2, <2>1, <2>4, <2>5, <2>6 DEF Inserts
  <1>3. QED
    BY <1>1, <1>2

LEMMA BindRunDoes ==
  ASSUME NEW d \in Tables, NEW k \in Key, NEW x \in Run, x # None,
         k \in Waiting(d) => x \notin RunsOf(d, Key \ {k})
  PROVE  /\ BindRun(d, k, x) \in Tables
         /\ BindRun(d, k, x).job = d.job
         /\ SameRows(d, BindRun(d, k, x)) \/ Binds(d, BindRun(d, k, x), k, x)
  <1>1. CASE k \notin Waiting(d)
    BY <1>1 DEF BindRun, SameRows
  <1>2. CASE k \in Waiting(d)
    <2>0. d.request[k] \in Rows
      BY DEF Tables
    <2>1. PICK row : row = [d.request[k] EXCEPT !.status = "dispatched", !.run = x]
      OBVIOUS
    <2>2. /\ row \in Rows /\ row.id = d.request[k].id /\ row.authorized = d.request[k].authorized
          /\ row.status = "dispatched" /\ row.run = x
      BY <2>0, <2>1 DEF Rows, RowStatus
    <2>3. PICK e : e = [d EXCEPT !.request = [@ EXCEPT ![k] = row]]
      OBVIOUS
    <2>4. BindRun(d, k, x) = e
      <3>1. PICK m : m = [d EXCEPT !.request[k].status = "dispatched"]
        OBVIOUS
      <3>2. m.request[k] = [d.request[k] EXCEPT !.status = "dispatched"]
        BY <3>1 DEF Tables
      <3>3. m.request = [d.request EXCEPT ![k] = m.request[k]]
        BY <3>1, <3>2 DEF Tables
      <3>4. [m.request EXCEPT ![k].run = x] = [d.request EXCEPT ![k] = row]
        <4>1. row = [m.request[k] EXCEPT !.run = x]
          BY <2>0, <2>1, <3>2 DEF Rows
        <4>2. QED
          BY <3>3, <4>1 DEF Tables
      <3>5. BindRun(d, k, x) = [m EXCEPT !.request[k].run = x]
        BY <1>2, <3>1 DEF BindRun
      <3>6. QED
        BY <2>3, <3>1, <3>4, <3>5 DEF Tables
    <2>5. /\ e \in Tables /\ e.job = d.job /\ e.receipt = d.receipt /\ e.lastId = d.lastId
          /\ e.request = [d.request EXCEPT ![k] = row]
      BY <2>2, <2>3 DEF Tables
    <2>6. e.request[k] = row /\ \A o \in Key \ {k} : e.request[o] = d.request[o]
      BY <2>5 DEF Tables
    <2>7. \A o \in Key : d.request[o].run # x
      BY <1>2 DEF RunsOf, Waiting
    <2>8. d.request[k].status \in Retryable /\ d.request[k].run = None
      BY <1>2 DEF Waiting, InStatus
    <2>9. QED
      BY <2>2, <2>4, <2>5, <2>6, <2>7, <2>8 DEF Binds, OnlyRow, SameAuthority
  <1>3. QED
    BY <1>1, <1>2

\* What is written by one statement to the row of a request that is still open.
LEMMA RowGood ==
  ASSUME NEW d \in Tables, NEW k \in Key, NEW row \in Rows, NEW e,
         e = [d EXCEPT !.request = [@ EXCEPT ![k] = row]],
         row.id = d.request[k].id, row.run = d.request[k].run,
         row.authorized = d.request[k].authorized,
         d.request[k].status \in Supersedable, row.status \in Supersedable
  PROVE  GoodStep(d, e)
  <1>1. /\ e \in Tables /\ e.job = d.job /\ e.receipt = d.receipt /\ e.lastId = d.lastId
        /\ e.request = [d.request EXCEPT ![k] = row]
    BY DEF Tables
  <1>2. e.request[k] = row /\ \A o \in Key \ {k} : e.request[o] = d.request[o]
    BY <1>1 DEF Tables
  <1>3. Advances(d, e, k)
    BY <1>1, <1>2 DEF Advances, OnlyRow, SameAuthority, SameRun
  <1>4. RowStep(d, e) /\ Cancels(d, e) /\ JobsStay(d, e)
    BY <1>1, <1>3, QuietStep DEF RowStep, JobsStay
  <1>5. QED
    BY <1>1, <1>4 DEF GoodStep

\* casCommitTerminalWithReceipt.
LEMMA CommitGood ==
  ASSUME NEW k \in Key, NEW x \in Run, NEW s \in Outcome, NEW c \in BOOLEAN, db \in Tables,
         CasCommitTerminalWithReceipt(k, x, s, c)
  PROVE  GoodStep(db, db')
  <1>0. db.request[k] \in Rows /\ s \in RowStatus
    BY DEF Tables, RowStatus
  <1>1. PICK m : m = [db EXCEPT !.receipt[k] = s, !.request[k].check = @ \/ c]
    OBVIOUS
  <1>2. PICK row : row = [db.request[k] EXCEPT !.check = @ \/ c]
    OBVIOUS
  <1>3. /\ row \in Rows /\ row.id = db.request[k].id /\ row.run = db.request[k].run
        /\ row.authorized = db.request[k].authorized
    BY <1>0, <1>2 DEF Rows
  <1>4. m = [db EXCEPT !.receipt = [@ EXCEPT ![k] = s], !.request = [@ EXCEPT ![k] = row]]
    BY <1>1, <1>2 DEF Tables
  <1>5. /\ m \in Tables /\ m.job = db.job /\ m.lastId = db.lastId
        /\ m.receipt = [db.receipt EXCEPT ![k] = s]
        /\ m.request = [db.request EXCEPT ![k] = row]
    BY <1>3, <1>4 DEF Tables
  <1>6. m.request[k] = row /\ \A o \in Key \ {k} : m.request[o] = db.request[o]
    BY <1>5 DEF Tables
  <1>7. PICK K \in SUBSET Key : K = {k}
    OBVIOUS
  <1>8. PICK e : e = SetStatus(m, K, s)
    OBVIOUS
  <1>9. db' = e
    BY <1>1, <1>7, <1>8 DEF CasCommitTerminalWithReceipt, Client
  <1>10. /\ e \in Tables
         /\ \A o \in K : e.request[o] = WithStatus(m.request[o], s)
         /\ \A o \in Key \ K : e.request[o] = m.request[o]
         /\ e.lastId = m.lastId /\ e.receipt = m.receipt /\ e.job = m.job
    <2> HIDE DEF Supersedable, Retryable, Outcome, Terminal, JobKey
    <2>1. m \in Tables /\ K \in SUBSET Key /\ s \in RowStatus
      BY <1>0, <1>5
    <2>2. QED
      BY <1>8, <2>1, SetStatusDoes, Zenon
  <1>11. e.request[k] = WithStatus(row, s)
    BY <1>6, <1>7, <1>10
  <1>12. /\ e.request[k].id = db.request[k].id /\ e.request[k].run = db.request[k].run
         /\ e.request[k].authorized = db.request[k].authorized /\ e.request[k].status = s
    BY <1>0, <1>3, <1>11, WithStatusDoes
  <1>13. \A o \in Key \ {k} : e.request[o] = db.request[o]
    BY <1>6, <1>7, <1>10
  <1>14. db.request[k].status \in Supersedable /\ db.request[k].authorized
    BY DEF CasCommitTerminalWithReceipt, ExecutedBy, InStatus
  <1>15. Reports(db, e, k, s)
    BY <1>5, <1>10, <1>12, <1>13, <1>14 DEF Reports, OnlyRow, SameAuthority, SameRun
  <1>16. RowStep(db, e) /\ Cancels(db, e) /\ JobsStay(db, e)
    BY <1>5, <1>10, <1>15, QuietStep DEF RowStep, JobsStay
  <1>17. QED
    BY <1>9, <1>10, <1>16 DEF GoodStep

\* A change of a job that is there leaves it there.
LEMMA JobGood ==
  ASSUME NEW d \in Tables, NEW j \in JobKey, NEW job \in Jobs, job.status # "absent", NEW e,
         e = [d EXCEPT !.job = [@ EXCEPT ![j] = job]]
  PROVE  GoodStep(d, e)
  <1>1. e \in Tables /\ SameRows(d, e) /\ e.job = [d.job EXCEPT ![j] = job]
    BY DEF Tables, SameRows
  <1>2. job # NoJob
    BY DEF NoJob
  <1>3. JobsStay(d, e)
    BY <1>1, <1>2 DEF JobsStay, Tables
  <1>4. QED
    BY <1>1, <1>3, SameRowsGood

LEMMA RequestStepGood ==
  ASSUME db \in Tables, RequestStep,
         \A k \in Key : ~CasMarkRequestSuperseded(k)
  PROVE  GoodStep(db, db')
  <1> USE DEF Client
  <1>0. \A k \in Key : db.request[k] \in Rows
    BY DEF Tables
  <1>1. ASSUME NEW k \in Key, InsertReviewRequest(k) PROVE GoodStep(db, db')
    <2>1. /\ db' \in Tables /\ db'.job = db.job
          /\ SameRows(db, db') \/ Inserts(db, db', k)
      BY <1>1, InsertRequestDoes DEF InsertReviewRequest
    <2>2. RowStep(db, db') /\ Cancels(db, db') /\ JobsStay(db, db')
      BY <2>1, QuietStep DEF RowStep, JobsStay
    <2>3. QED
      BY <2>1, <2>2 DEF GoodStep
  <1>2. ASSUME NEW k \in Key, AdmitReviewRequestWithOutbox(k) PROVE GoodStep(db, db')
    <2>1. PICK m : m = InsertRequest(db, k)
      OBVIOUS
    <2>2. m \in Tables /\ m.job = db.job /\ (SameRows(db, m) \/ Inserts(db, m, k))
      BY <2>1, InsertRequestDoes
    <2>3. db' = InsertJobs(m, {k} \cap Waiting(m))
      BY <1>2, <2>1 DEF AdmitReviewRequestWithOutbox, DispatchJobFor
    <2>4. QED
      BY <2>2, <2>3, ThenInsertJobs
  <1>3. ASSUME NEW k \in Key, CasMarkFailedDispatch(k) PROVE GoodStep(db, db')
    <2>1. "failed_dispatch" \in RowStatus /\ "failed_dispatch" \in Supersedable
      BY DEF RowStatus
    <2>2. db' = SetStatus(db, {k} \cap InStatus(db, Retryable), "failed_dispatch")
      BY <1>3 DEF CasMarkFailedDispatch
    <2>3. CASE db.request[k].status \in Retryable
      <3>1. {k} \cap InStatus(db, Retryable) = {k} /\ db.request[k].status \in Supersedable
        BY <2>3 DEF InStatus
      <3>2. QED
        BY <2>1, <2>2, <3>1, StatusGood
    <2>4. CASE db.request[k].status \notin Retryable
      <3>1. {k} \cap InStatus(db, Retryable) = {}
        BY <2>4 DEF InStatus
      <3>2. QED
        BY <2>1, <2>2, <3>1, NoStatusGood
    <2>5. QED
      BY <2>3, <2>4
  <1>4. ASSUME NEW p \in Pull, NEW K \in SUBSET Key, SupersedePrRequestsWithOutbox(p, K)
        PROVE  GoodStep(db, db')
    BY <1>4, SupersessionGood DEF SupersedePrRequestsWithOutbox
  <1>5. ASSUME NEW k \in Key, NEW x \in Run, AuthorizeReviewRequestWithOutbox(k, x)
        PROVE  GoodStep(db, db')
    <2>1. x # None
      BY PortAssumption
    <2>2. QED
      BY <1>5, <2>1, AuthorizeGood DEF AuthorizeReviewRequestWithOutbox
  <1>6. ASSUME NEW k \in Key, NEW x \in Run, ~Collides(k, x)
        PROVE  /\ BindRun(db, k, x) \in Tables
               /\ BindRun(db, k, x).job = db.job
               /\ SameRows(db, BindRun(db, k, x)) \/ Binds(db, BindRun(db, k, x), k, x)
    <2>1. x # None /\ (k \in Waiting(db) => x \notin RunsOf(db, Key \ {k}))
      BY <1>6, PortAssumption DEF Collides
    <2>2. QED
      BY <2>1, BindRunDoes
  <1>7. ASSUME NEW k \in Key, NEW x \in Run, CasClaimWorkflowRun(k, x) PROVE GoodStep(db, db')
    <2>1. /\ db' \in Tables /\ db'.job = db.job
          /\ SameRows(db, db') \/ Binds(db, db', k, x)
      BY <1>6, <1>7 DEF CasClaimWorkflowRun
    <2>2. RowStep(db, db') /\ Cancels(db, db') /\ JobsStay(db, db')
      BY <2>1, QuietStep DEF RowStep, JobsStay
    <2>3. QED
      BY <2>1, <2>2 DEF GoodStep
  <1>8. ASSUME NEW k \in Key, NEW x \in Run, ClaimWorkflowRunOrEnqueueOrphan(k, x)
        PROVE GoodStep(db, db')
    <2>1. PICK m : m = BindRun(db, k, x)
      OBVIOUS
    <2>2. m \in Tables /\ m.job = db.job /\ (SameRows(db, m) \/ Binds(db, m, k, x))
      BY <1>6, <1>8, <2>1 DEF ClaimWorkflowRunOrEnqueueOrphan
    <2>3. PICK J : db' = InsertJobs(m, J)
      BY <1>8, <2>1 DEF ClaimWorkflowRunOrEnqueueOrphan
    <2>4. QED
      BY <2>2, <2>3, ThenInsertJobs
  <1>9. ASSUME NEW k \in Key, NEW x \in Run, CasClaimExecutor(k, x) PROVE GoodStep(db, db')
    <2>1. db.request[k].status \in Supersedable /\ "claimed" \in RowStatus
      BY <1>9 DEF CasClaimExecutor, ExecutedBy, InStatus, RowStatus
    <2>2. QED
      BY <1>9, <2>1, StatusGood DEF CasClaimExecutor
  <1>10. ASSUME NEW k \in Key, NEW x \in Run, CasMarkStarted(k, x) PROVE GoodStep(db, db')
    <2>1. db.request[k].status \in Supersedable
      BY <1>10 DEF CasMarkStarted, ExecutedBy, InStatus
    <2>2. PICK row : row = [db.request[k] EXCEPT !.status = "started", !.check = TRUE]
      OBVIOUS
    <2>3. /\ row \in Rows /\ row.id = db.request[k].id /\ row.run = db.request[k].run
          /\ row.authorized = db.request[k].authorized /\ row.status = "started"
      BY <1>0, <2>2 DEF Rows, RowStatus
    <2>4. db' = [db EXCEPT !.request = [@ EXCEPT ![k] = row]]
      <3>1. PICK m : m = [db EXCEPT !.request[k].status = "started"]
        OBVIOUS
      <3>2. m.request[k] = [db.request[k] EXCEPT !.status = "started"]
        BY <3>1 DEF Tables
      <3>3. m.request = [db.request EXCEPT ![k] = m.request[k]]
        BY <3>1, <3>2 DEF Tables
      <3>4. [m.request EXCEPT ![k].check = TRUE] = [db.request EXCEPT ![k] = row]
        <4>1. row = [m.request[k] EXCEPT !.check = TRUE]
          BY <1>0, <2>2, <3>2 DEF Rows
        <4>2. QED
          BY <3>3, <4>1 DEF Tables
      <3>5. db' = [m EXCEPT !.request[k].check = TRUE]
        BY <1>10, <3>1 DEF CasMarkStarted
      <3>6. QED
        BY <3>1, <3>4, <3>5 DEF Tables
    <2>5. QED
      BY <2>1, <2>3, <2>4, RowGood
  <1>11. ASSUME NEW k \in Key, NEW x \in Run, NEW s \in {"failed", "cancelled"}, NEW c \in BOOLEAN,
                CasAbortRequest(k, x, s, c)
         PROVE  GoodStep(db, db')
    <2>1. db.request[k].status \in Supersedable /\ s \in RowStatus /\ db.request[k].run # None
      BY <1>11, PortAssumption DEF CasAbortRequest, ExecutedBy, InStatus, RowStatus
    <2>2. QED
      BY <1>11, <2>1, StatusGood DEF CasAbortRequest
  <1>12. ASSUME NEW k \in Key, NEW x \in Run, NEW s \in {"failed", "cancelled"},
                CasWatchdogTerminal(k, x, s)
         PROVE  GoodStep(db, db')
    <2>1. db.request[k].status \in Supersedable /\ s \in RowStatus /\ db.request[k].run # None
      BY <1>12, PortAssumption DEF CasWatchdogTerminal, ExecutedBy, InStatus, RowStatus
    <2>2. QED
      BY <1>12, <2>1, StatusGood DEF CasWatchdogTerminal
  <1>13. ASSUME NEW k \in Key, NEW x \in Run, NEW s \in Outcome, NEW c \in BOOLEAN,
                CasCommitTerminalWithReceipt(k, x, s, c)
         PROVE  GoodStep(db, db')
    BY <1>13, CommitGood
  <1>14. \A s \in Outcome : s # "completed" => s \in {"failed", "cancelled"}
    OBVIOUS
  <1>15. QED
    <2> HIDE DEF Client
    <2>1. CASE \E k \in Key : \/ InsertReviewRequest(k) \/ AdmitReviewRequestWithOutbox(k)
                              \/ CasMarkRequestSuperseded(k) \/ CasMarkFailedDispatch(k)
      BY <2>1, <1>1, <1>2, <1>3
    <2>2. CASE \E p \in Pull, k \in Key : \/ SupersedePrRequestsWithOutbox(p, {k})
                                          \/ SupersedePrRequestsWithOutbox(p, {})
      BY <2>2, <1>4
    <2>3. ASSUME NEW k \in Key, NEW x \in Run,
                 \/ AuthorizeReviewRequestWithOutbox(k, x)
                 \/ CasClaimWorkflowRun(k, x) \/ ClaimWorkflowRunOrEnqueueOrphan(k, x)
                 \/ CasClaimExecutor(k, x) \/ CasMarkStarted(k, x)
                 \/ \E s \in Outcome, c \in BOOLEAN :
                       \/ CasCommitTerminalWithReceipt(k, x, s, c)
                       \/ s # "completed" /\ (CasAbortRequest(k, x, s, c) \/ CasWatchdogTerminal(k, x, s))
          PROVE  GoodStep(db, db')
      BY <2>3, <1>5, <1>7, <1>8, <1>9, <1>10, <1>11, <1>12, <1>13, <1>14
    <2>4. QED
      BY <2>1, <2>2, <2>3 DEF RequestStep

\* The single statement that cancels nothing.
LEMMA CasMarkRequestSupersededDoes ==
  ASSUME db \in Tables, NEW k \in Key, CasMarkRequestSuperseded(k)
  PROVE  db' \in Tables /\ RowStep(db, db') /\ JobsStay(db, db')
  <1>1. PICK K \in SUBSET Key : K = {k}
    OBVIOUS
  <1>2. db' = MarkSuperseded(db, K)
    BY <1>1 DEF CasMarkRequestSuperseded, Client
  <1>3. db' \in Tables /\ Superseded(db, db', K) /\ db'.job = db.job
    BY <1>2, MarkSupersededDoes
  <1>4. QED
    BY <1>3 DEF RowStep, JobsStay

LEMMA OutboxStepGood ==
  ASSUME db \in Tables, OutboxStep
  PROVE  GoodStep(db, db')
  <1> USE DEF Client
  <1>1. CASE RepairOutboxJobs
    BY <1>1, RepairGood DEF RepairOutboxJobs
  <1>2. ASSUME NEW x \in Run, EnqueueCancelOutboxJob(x) PROVE GoodStep(db, db')
    BY <1>2, InsertJobsGood DEF EnqueueCancelOutboxJob
  <1>3. ASSUME NEW j \in JobKey, ExpireLease(j) PROVE GoodStep(db, db')
    <2>1. PICK job : job = [db.job[j] EXCEPT !.expired = TRUE]
      OBVIOUS
    <2>2. job \in Jobs /\ job.status # "absent"
      BY <1>3, <2>1 DEF ExpireLease, Tables, Jobs
    <2>3. db' = [db EXCEPT !.job = [@ EXCEPT ![j] = job]]
      BY <1>3, <2>1 DEF ExpireLease, Tables
    <2>4. QED
      BY <2>2, <2>3, JobGood
  <1>4. ASSUME NEW j \in JobKey, NEW o \in Owner, LeaseOutboxJob(j, o) PROVE GoodStep(db, db')
    <2>1. PICK job : job = [status |-> "leased", owner |-> o, expired |-> FALSE]
      OBVIOUS
    <2>2. job \in Jobs /\ job.status # "absent"
      BY <2>1 DEF Jobs
    <2>3. db' = [db EXCEPT !.job = [@ EXCEPT ![j] = job]]
      BY <1>4, <2>1 DEF LeaseOutboxJob
    <2>4. QED
      BY <2>2, <2>3, JobGood
  <1>5. ASSUME NEW j \in JobKey, NEW o \in Owner, NEW s \in {"pending", "completed"}, Release(j, o, s)
        PROVE  GoodStep(db, db')
    <2>1. PICK job : job = [NoJob EXCEPT !.status = s]
      OBVIOUS
    <2>2. job \in Jobs /\ job.status # "absent"
      BY <2>1 DEF Jobs, NoJob
    <2>3. db' = [db EXCEPT !.job = [@ EXCEPT ![j] = job]]
      BY <1>5, <2>1 DEF Release
    <2>4. QED
      BY <2>2, <2>3, JobGood
  <1>6. QED
    BY <1>1, <1>2, <1>3, <1>4, <1>5 DEF OutboxStep, CompleteOutboxJob, RescheduleOutboxJob

-----------------------------------------------------------------------------
(* The handlers.                                                           *)

\* What a handler can find in its program.
Statements ==
  {<<"supersede_all">>, <<"clear">>, <<"delete">>}
    \cup ({"upsert"} \X {"active", "suspended"} \X {"all", "selected"})
    \cup ({"ensure", "set_selection"} \X {"all", "selected"})
    \cup ({"add", "remove", "supersede_repo"} \X Repo)

PortTypeOK == db \in Tables /\ program \in [Handler -> Seq(Statements)]

LEMMA StatementsTyped ==
  /\ {<<"supersede_all">>, <<"clear">>, <<"delete">>} \subseteq Statements
  /\ \A st \in {"active", "suspended"}, sel \in {"all", "selected"} :
        <<"upsert", st, sel>> \in Statements
  /\ \A sel \in {"all", "selected"} : /\ <<"ensure", sel>> \in Statements
                                      /\ <<"set_selection", sel>> \in Statements
  /\ \A r \in Repo : /\ <<"add", r>> \in Statements /\ <<"remove", r>> \in Statements
                     /\ <<"supersede_repo", r>> \in Statements
  BY DEF Statements

LEMMA ShortPrograms ==
  ASSUME NEW a \in Statements, NEW b \in Statements, NEW c \in Statements
  PROVE  /\ <<>> \in Seq(Statements) /\ <<a>> \in Seq(Statements)
         /\ <<a, b>> \in Seq(Statements) /\ <<a, b, c>> \in Seq(Statements)
  OBVIOUS

LEMMA WhenTyped ==
  ASSUME NEW c, NEW s \in Statements
  PROVE  When(c, s) \in Seq(Statements)
  BY DEF When

LEMMA EachTyped ==
  ASSUME NEW op \in {"add", "remove"}, NEW rs \in Seq(Repo)
  PROVE  Each(op, rs) \in Seq(Statements)
  <1>1. Len(rs) \in Nat /\ \A i \in 1..Len(rs) : rs[i] \in Repo
    BY LenProperties, ElementOfSeq
  <1>2. \A i \in 1..Len(rs) : <<op, rs[i]>> \in Statements
    BY <1>1, StatementsTyped
  <1>3. Each(op, rs) \in [1..Len(rs) -> Statements]
    BY <1>2 DEF Each
  <1>4. QED
    BY <1>1, <1>3

\* The programs of the two handlers.
LEMMA HandleInstallationTyped ==
  ASSUME NEW e \in Event
  PROVE  HandleInstallation(e) \in Seq(Statements)
  <1>1. e.sel \in {"all", "selected"} /\ e.repos \in Seq(Repo)
    BY PortAssumption
  <1>2. <<<<"supersede_all">>, <<"clear">>, <<"delete">>>> \in Seq(Statements)
    <2>1. /\ <<"supersede_all">> \in Statements /\ <<"clear">> \in Statements
          /\ <<"delete">> \in Statements
      BY StatementsTyped
    <2>2. QED
      BY <2>1, ShortPrograms
  <1>3. <<<<"upsert", "suspended", e.sel>>, <<"supersede_all">>>> \in Seq(Statements)
    <2>1. <<"upsert", "suspended", e.sel>> \in Statements /\ <<"supersede_all">> \in Statements
      BY <1>1, StatementsTyped
    <2>2. QED
      BY <2>1, ShortPrograms
  <1> DEFINE a == <<<<"upsert", "active", e.sel>>>>
             b == When(e.sel = "selected" /\ (e.kind = "created" \/ Narrows(e)), <<"clear">>)
             c == IF e.sel = "selected" THEN Each("add", e.repos) ELSE <<>>
  <1>4. a \in Seq(Statements) /\ b \in Seq(Statements) /\ c \in Seq(Statements)
    <2>1. <<"upsert", "active", e.sel>> \in Statements /\ <<"clear">> \in Statements
      BY <1>1, StatementsTyped
    <2>2. a \in Seq(Statements)
      BY <2>1, ShortPrograms
    <2>3. b \in Seq(Statements)
      BY <2>1, WhenTyped
    <2>4. c \in Seq(Statements)
      BY <1>1, EachTyped
    <2>5. QED
      BY <2>2, <2>3, <2>4
  <1>5. a \o b \o c \in Seq(Statements)
    <2> HIDE DEF a, b, c
    <2>1. a \o b \in Seq(Statements)
      BY <1>4, ConcatProperties
    <2>2. QED
      BY <1>4, <2>1, ConcatProperties
  <1>6. QED
    BY <1>2, <1>3, <1>5 DEF HandleInstallation

LEMMA HandleRepositoriesTyped ==
  ASSUME NEW e \in Event
  PROVE  HandleInstallationRepositories(e) \in Seq(Statements)
  <1>1. e.sel \in {"all", "selected"} /\ e.repos \in Seq(Repo)
    BY PortAssumption
  <1> DEFINE a == <<<<"ensure", e.sel>>>>
             b == When(Narrows(e), <<"clear">>)
             c == When(db.installation # "absent" /\ db.selection # e.sel, <<"set_selection", e.sel>>)
             f == IF e.sel # "selected" THEN <<>>
                  ELSE IF e.kind = "added" THEN Each("add", e.repos) ELSE Each("remove", e.repos)
  <1>2. a \in Seq(Statements) /\ b \in Seq(Statements) /\ c \in Seq(Statements)
    <2>1. /\ <<"ensure", e.sel>> \in Statements /\ <<"clear">> \in Statements
          /\ <<"set_selection", e.sel>> \in Statements
      BY <1>1, StatementsTyped
    <2>2. a \in Seq(Statements)
      BY <2>1, ShortPrograms
    <2>3. b \in Seq(Statements) /\ c \in Seq(Statements)
      BY <2>1, WhenTyped
    <2>4. QED
      BY <2>2, <2>3
  <1>3. f \in Seq(Statements)
    BY <1>1, EachTyped
  <1>4. a \o b \o c \o f \in Seq(Statements)
    <2> HIDE DEF a, b, c, f
    <2>1. a \o b \in Seq(Statements)
      BY <1>2, ConcatProperties
    <2>2. a \o b \o c \in Seq(Statements)
      BY <1>2, <2>1, ConcatProperties
    <2>3. QED
      BY <1>3, <2>2, ConcatProperties
  <1>5. QED
    BY <1>4 DEF HandleInstallationRepositories

\* What the statements do, by their names.
LEMMA StatementCases ==
  ASSUME NEW d \in Tables, NEW s
  PROVE  /\ s[1] = "clear" => Statement(d, s) = [d EXCEPT !.repos = {}]
         /\ s[1] = "delete" =>
              Statement(d, s) = [d EXCEPT !.installation = "absent", !.selection = "selected"]
         /\ s[1] = "upsert" =>
              Statement(d, s) = [d EXCEPT !.installation = s[2], !.selection = s[3]]
         /\ s[1] = "ensure" =>
              Statement(d, s) = IF d.installation # "absent" THEN d
                                ELSE [d EXCEPT !.installation = "suspended", !.selection = s[2]]
         /\ s[1] = "set_selection" =>
              Statement(d, s) = IF d.installation = "absent" THEN d ELSE [d EXCEPT !.selection = s[2]]
         /\ s[1] = "add" => Statement(d, s) = [d EXCEPT !.repos = @ \cup {s[2]}]
         /\ s[1] = "remove" => Statement(d, s) = [d EXCEPT !.repos = @ \ {s[2]}]
         /\ s[1] = "supersede_repo" =>
              \E K \in SUBSET Key : Statement(d, s) = Supersession(d, K)
         /\ s[1] = "supersede_all" => Statement(d, s) = Supersession(d, Key)
  BY DEF Statement

\* A removal is expanded into its supersession and its deletion by the first step.
LEMMA StatementGood ==
  ASSUME NEW d \in Tables, NEW s \in Statements
  PROVE  GoodStep(d, Statement(d, s))
  <1>1. PICK e : e = Statement(d, s)
    OBVIOUS
  <1>2. CASE s = <<"supersede_all">>
    <2>1. s[1] = "supersede_all"
      BY <1>2
    <2>2. e = Supersession(d, Key)
      BY <1>1, <2>1, StatementCases
    <2>3. Key \in SUBSET Key
      OBVIOUS
    <2>4. QED
      BY <1>1, <2>2, <2>3, SupersessionGood
  <1>3. ASSUME NEW r \in Repo, s = <<"supersede_repo", r>> PROVE GoodStep(d, e)
    <2>0. s[1] = "supersede_repo"
      BY <1>3
    <2>1. PICK K \in SUBSET Key : Statement(d, s) = Supersession(d, K)
      BY <2>0, StatementCases
    <2>2. e = Supersession(d, K)
      BY <1>1, <2>1
    <2>3. QED
      BY <2>2, SupersessionGood
  <1>4. ASSUME e \in Tables, SameRows(d, e), e.job = d.job PROVE GoodStep(d, e)
    BY <1>4, SameRowsGood DEF JobsStay
  <1>5. CASE s = <<"clear">> \/ s = <<"delete">>
    <2>0. s[1] = "clear" \/ s[1] = "delete"
      BY <1>5
    <2>3. \/ e = [d EXCEPT !.repos = {}]
          \/ e = [d EXCEPT !.installation = "absent", !.selection = "selected"]
      BY <1>1, <2>0, StatementCases
    <2>1. e \in Tables /\ SameRows(d, e) /\ e.job = d.job
      BY <2>3 DEF Tables, SameRows
    <2>2. QED
      BY <2>1, <1>4, <1>1
  <1>6. ASSUME NEW st \in {"active", "suspended"}, NEW sel \in {"all", "selected"},
               s = <<"upsert", st, sel>>
        PROVE  GoodStep(d, e)
    <2>1. e = [d EXCEPT !.installation = st, !.selection = sel]
      <3>1. s[1] = "upsert" /\ s[2] = st /\ s[3] = sel
        BY <1>6
      <3>2. QED
        BY <1>1, <3>1, StatementCases
    <2>2. e \in Tables /\ SameRows(d, e) /\ e.job = d.job
      BY <2>1 DEF Tables, SameRows
    <2>3. QED
      BY <2>2, <1>4
  <1>7. ASSUME NEW sel \in {"all", "selected"}, s = <<"ensure", sel>> \/ s = <<"set_selection", sel>>
        PROVE  GoodStep(d, e)
    <2>1. \/ e = d
          \/ e = [d EXCEPT !.installation = "suspended", !.selection = sel]
          \/ e = [d EXCEPT !.selection = sel]
      <3>1. (s[1] = "ensure" \/ s[1] = "set_selection") /\ s[2] = sel
        BY <1>7
      <3>2. QED
        BY <1>1, <3>1, StatementCases
    <2>2. e \in Tables /\ SameRows(d, e) /\ e.job = d.job
      BY <2>1 DEF Tables, SameRows
    <2>3. QED
      BY <2>2, <1>4
  <1>8. ASSUME NEW r \in Repo, s = <<"add", r>> \/ s = <<"remove", r>> PROVE GoodStep(d, e)
    <2>1. \/ e = [d EXCEPT !.repos = @ \cup {r}]
          \/ e = [d EXCEPT !.repos = @ \ {r}]
      <3>1. (s[1] = "add" \/ s[1] = "remove") /\ s[2] = r
        BY <1>8
      <3>2. QED
        BY <1>1, <3>1, StatementCases
    <2>2. e \in Tables /\ SameRows(d, e) /\ e.job = d.job
      BY <2>1 DEF Tables, SameRows
    <2>3. QED
      BY <2>2, <1>4
  <1>9. \/ s \in {<<"supersede_all">>, <<"clear">>, <<"delete">>}
        \/ \E st \in {"active", "suspended"}, sel \in {"all", "selected"} : s = <<"upsert", st, sel>>
        \/ \E sel \in {"all", "selected"} : s = <<"ensure", sel>> \/ s = <<"set_selection", sel>>
        \/ \E r \in Repo : s = <<"add", r>> \/ s = <<"remove", r>> \/ s = <<"supersede_repo", r>>
    BY DEF Statements
  <1>10. QED
    BY <1>1, <1>2, <1>3, <1>5, <1>6, <1>7, <1>8, <1>9

LEMMA ExpandTyped ==
  ASSUME NEW p \in Seq(Statements), p # <<>>
  PROVE  Expand(p) \in Seq(Statements)
  <1>1. Tail(p) \in Seq(Statements) /\ Head(p) \in Statements
    BY HeadTailProperties
  <1>2. CASE Head(p)[1] = "remove"
    <2>1. PICK r \in Repo : Head(p) = <<"remove", r>>
      BY <1>1, <1>2 DEF Statements
    <2>2. PICK s \in Statements : s = <<"supersede_repo", r>>
      BY StatementsTyped
    <2>3. Head(p)[2] = r
      BY <2>1
    <2>4. Expand(p) = <<s>> \o Tail(p)
      BY <1>2, <2>2, <2>3 DEF Expand
    <2>5. <<s>> \in Seq(Statements)
      BY <2>2, ShortPrograms
    <2>6. QED
      BY <1>1, <2>4, <2>5, ConcatProperties
  <1>3. CASE Head(p)[1] # "remove"
    BY <1>1, <1>3 DEF Expand
  <1>4. QED
    BY <1>2, <1>3

\* Every step leaves the tables typed and makes a good step on them, or is the single
\* statement that cancels nothing, or leaves them alone.
LEMMA StepDoes ==
  ASSUME PortTypeOK, Next
  PROVE  /\ PortTypeOK'
         /\ \/ db' = db
            \/ GoodStep(db, db')
            \/ /\ \E k \in Key : CasMarkRequestSuperseded(k)
               /\ RowStep(db, db') /\ JobsStay(db, db')
  <1> USE DEF PortTypeOK
  <1>1. CASE \E k \in Key : CasMarkRequestSuperseded(k)
    <2>1. PICK k \in Key : CasMarkRequestSuperseded(k)
      BY <1>1
    <2>2. db' \in Tables /\ RowStep(db, db') /\ JobsStay(db, db')
      BY <2>1, CasMarkRequestSupersededDoes
    <2>3. program' = program
      BY <2>1 DEF CasMarkRequestSuperseded, Client
    <2>4. QED
      BY <1>1, <2>2, <2>3
  <1>2. CASE RequestStep /\ \A k \in Key : ~CasMarkRequestSuperseded(k)
    <2>1. GoodStep(db, db')
      BY <1>2, RequestStepGood
    <2>2. program' = program
      <3>1. \A d : Client(d) => program' = program
        BY DEF Client
      <3>2. ASSUME NEW k \in Key,
                   \/ InsertReviewRequest(k) \/ AdmitReviewRequestWithOutbox(k)
                   \/ CasMarkRequestSuperseded(k) \/ CasMarkFailedDispatch(k)
            PROVE  program' = program
        BY <3>1, <3>2 DEF InsertReviewRequest, AdmitReviewRequestWithOutbox,
           CasMarkRequestSuperseded, CasMarkFailedDispatch
      <3>3. ASSUME NEW p \in Pull, NEW K, SupersedePrRequestsWithOutbox(p, K)
            PROVE  program' = program
        BY <3>1, <3>3 DEF SupersedePrRequestsWithOutbox
      <3>4. ASSUME NEW k \in Key, NEW x \in Run,
                   \/ AuthorizeReviewRequestWithOutbox(k, x)
                   \/ CasClaimWorkflowRun(k, x) \/ ClaimWorkflowRunOrEnqueueOrphan(k, x)
                   \/ CasClaimExecutor(k, x) \/ CasMarkStarted(k, x)
            PROVE  program' = program
        BY <3>1, <3>4, Zenon DEF AuthorizeReviewRequestWithOutbox, CasClaimWorkflowRun,
           ClaimWorkflowRunOrEnqueueOrphan, CasClaimExecutor, CasMarkStarted
      <3>5. ASSUME NEW k \in Key, NEW x \in Run, NEW s, NEW c,
                   \/ CasCommitTerminalWithReceipt(k, x, s, c)
                   \/ CasAbortRequest(k, x, s, c) \/ CasWatchdogTerminal(k, x, s)
            PROVE  program' = program
        BY <3>1, <3>5, Zenon DEF CasCommitTerminalWithReceipt, CasAbortRequest, CasWatchdogTerminal
      <3>6. QED
        BY <1>2, <3>2, <3>3, <3>4, <3>5, Zenon DEF RequestStep
    <2>3. QED
      BY <2>1, <2>2 DEF GoodStep
  <1>3. CASE OutboxStep
    <2>1. GoodStep(db, db')
      BY <1>3, OutboxStepGood
    <2>2. program' = program
      BY <1>3 DEF OutboxStep, Client, RepairOutboxJobs, EnqueueCancelOutboxJob, ExpireLease,
         LeaseOutboxJob, CompleteOutboxJob, RescheduleOutboxJob, Release
    <2>3. QED
      BY <2>1, <2>2 DEF GoodStep
  <1>4. ASSUME NEW h \in Handler, RouteWebhookEvent(h) PROVE PortTypeOK' /\ db' = db
    <2>1. PICK p \in Seq(Statements) : program' = [program EXCEPT ![h] = p]
      BY <1>4, HandleInstallationTyped, HandleRepositoriesTyped DEF RouteWebhookEvent
    <2>2. QED
      BY <1>4, <2>1 DEF RouteWebhookEvent
  <1>5. ASSUME NEW h \in Handler, RunStatement(h) PROVE PortTypeOK' /\ GoodStep(db, db')
    <2>1. program[h] \in Seq(Statements) /\ program[h] # <<>>
      BY <1>5 DEF RunStatement
    <2>2. Head(program[h]) \in Statements
      BY <2>1, HeadTailProperties
    <2>3. GoodStep(db, db')
      BY <1>5, <2>2, StatementGood DEF RunStatement
    <2>4. Expand(program[h]) \in Seq(Statements)
      BY <2>1, ExpandTyped
    <2>5. program' = [program EXCEPT ![h] = Expand(program[h])]
      BY <1>5 DEF RunStatement
    <2>6. QED
      BY <2>3, <2>4, <2>5 DEF GoodStep
  <1>6. ASSUME NEW h \in Handler, HandlerFails(h) PROVE PortTypeOK' /\ db' = db
    <2>1. <<>> \in Seq(Statements)
      OBVIOUS
    <2>2. QED
      BY <1>6, <2>1 DEF HandlerFails
  <1>7. QED
    <2> HIDE DEF PortTypeOK
    <2>1. CASE WebhookStep
      BY <2>1, <1>4, <1>5, <1>6 DEF WebhookStep
    <2>2. QED
      BY <1>1, <1>2, <1>3, <2>1 DEF Next, PortTypeOK

LEMMA PortTypeInit == ASSUME Init PROVE PortTypeOK
  <1>1. db.request \in [Key -> Rows] /\ db.job \in [JobKey -> Jobs]
    BY RowTypes DEF Init
  <1>2. db \in Tables
    BY <1>1 DEF Init, Tables
  <1>3. <<>> \in Seq(Statements)
    OBVIOUS
  <1>4. QED
    BY <1>2, <1>3 DEF Init, PortTypeOK

\* The tables and the programs of the handlers keep their types.
LEMMA PortTypes == Spec => []PortTypeOK
  <1>1. PortTypeOK /\ [Next]_vars => PortTypeOK'
    BY StepDoes DEF vars, PortTypeOK
  <1>2. QED
    BY <1>1, PortTypeInit, PTL DEF Spec

-----------------------------------------------------------------------------
(* Repair, and the runs of superseded requests.                            *)

\* One repair makes good whatever single statements, and handlers that stopped
\* half way, have left behind: nothing open outside the authorized repositories,
\* a job for each request that waits, a cancellation for each superseded run.
THEOREM RepairMakesAllGood == Spec => []RepairRestores
  <1>1. PortTypeOK => RepairRestores
    BY RepairMakesGood DEF PortTypeOK, RepairRestores
  <1>2. QED
    BY <1>1, PortTypes, PTL

\* A superseded row keeps its status and its run.
LEMMA SupersededStays ==
  ASSUME NEW d \in Tables, NEW e, RowStep(d, e), NEW k \in Key, d.request[k].status = "superseded"
  PROVE  e.request[k] = d.request[k]
  <1>1. ASSUME NEW o \in Key, OnlyRow(d, e, o), d.request[o].status # "superseded"
        PROVE  e.request[k] = d.request[k]
    BY <1>1 DEF OnlyRow
  <1>2. ASSUME NEW o \in Key, Inserts(d, e, o) PROVE e.request[k] = d.request[k]
    BY <1>2 DEF Inserts, NoRow
  <1>3. ASSUME NEW o \in Key, Authorizes(d, e, o) PROVE e.request[k] = d.request[k]
    BY <1>3 DEF Authorizes
  <1>4. ASSUME NEW K \in SUBSET Key, Superseded(d, e, K) PROVE e.request[k] = d.request[k]
    BY <1>4 DEF Superseded
  <1>5. CASE SameRows(d, e)
    BY <1>5 DEF SameRows
  <1>6. ASSUME NEW o \in Key, Advances(d, e, o) PROVE e.request[k] = d.request[k]
    BY <1>6, <1>1 DEF Advances
  <1>7. ASSUME NEW o \in Key, NEW x \in Run, Binds(d, e, o, x) PROVE e.request[k] = d.request[k]
    BY <1>7, <1>1 DEF Binds
  <1>8. ASSUME NEW o \in Key, NEW s \in Outcome, GivesUp(d, e, o, s) \/ Reports(d, e, o, s)
        PROVE  e.request[k] = d.request[k]
    BY <1>8, <1>1 DEF GivesUp, Reports
  <1>9. QED
    BY <1>2, <1>3, <1>4, <1>5, <1>6, <1>7, <1>8 DEF RowStep

LEMMA GoodStepCancels ==
  ASSUME NEW d \in Tables, NEW e, GoodStep(d, e)
  PROVE  Uncancelled(e) \subseteq Uncancelled(d)
  <1> SUFFICES ASSUME NEW k \in Uncancelled(e) PROVE k \in Uncancelled(d)
    OBVIOUS
  <1>1. k \in Key /\ e.request[k].status = "superseded"
    BY DEF Uncancelled, InStatus
  <1>2. PICK x \in RunsOf(e, {k}) : e.job[x] = NoJob
    BY DEF Uncancelled
  <1>3. x = e.request[k].run /\ x # None
    BY <1>2 DEF RunsOf
  <1>4. d.request[k].status = "superseded"
    BY <1>1, <1>2, <1>3 DEF GoodStep, Cancels
  <1>5. e.request[k] = d.request[k]
    BY <1>1, <1>4, SupersededStays DEF GoodStep
  <1>6. x \in JobKey /\ x \in RunsOf(d, {k})
    BY <1>1, <1>3, <1>5 DEF RunsOf, Tables, Rows
  <1>7. d.job[x] = NoJob
    BY <1>2, <1>6 DEF GoodStep, JobsStay
  <1>8. QED
    BY <1>1, <1>4, <1>6, <1>7 DEF Uncancelled, InStatus

\* Whatever supersedes a request, but for casMarkRequestSuperseded, queues the
\* cancellation of its run in the same transaction, and no cancellation is lost.
THEOREM NoRunIsLeftRunning == Spec => NoRunIsForgotten
  <1> DEFINE Step == \/ \E k \in Key : CasMarkRequestSuperseded(k)
                     \/ Uncancelled(db') \subseteq Uncancelled(db)
  <1>1. PortTypeOK /\ [Next]_vars => [Step]_vars
    <2>1. ASSUME PortTypeOK, Next PROVE Step
      <3>1. CASE db' = db
        BY <3>1
      <3>2. CASE GoodStep(db, db')
        BY <2>1, <3>2, GoodStepCancels DEF PortTypeOK
      <3>3. CASE \E k \in Key : CasMarkRequestSuperseded(k)
        BY <3>3
      <3> HIDE DEF Step
      <3>4. QED
        BY <2>1, <3>1, <3>2, <3>3, StepDoes
    <2> HIDE DEF Step
    <2>2. QED
      BY <2>1
  <1>2. QED
    BY <1>1, PortTypes, PTL DEF Spec, NoRunIsForgotten

-----------------------------------------------------------------------------
(* The fence, and the ledger.                                              *)

\* AUTOINCREMENT: no row has an id above the last one, and there is no id without a row.
IdsInOrder(d) ==
  \A k \in Key : /\ d.request[k].id <= d.lastId
                 /\ d.request[k].status # "absent" => d.request[k].id # 0
                 /\ d.request[k].status = "absent" => d.request[k] = NoRow

\* The requests of a pull request that are older than an authorized one are over.
OlderAreOver(d) ==
  \A k \in Key : d.request[k].authorized =>
    \A o \in Older(d, k) : d.request[o].id # 0 => d.request[o].status \in Terminal

RowsInv(d) == IdsInOrder(d) /\ OlderAreOver(d)

PortInv == PortTypeOK /\ RowsInv(db)

\* A step that only moves the status of one row, not from a terminal one.
LEMMA OnlyRowKeeps ==
  ASSUME NEW d \in Tables, NEW e \in Tables, RowsInv(d), NEW k \in Key, OnlyRow(d, e, k),
         SameAuthority(d, e, k), d.request[k].status \in Supersedable, e.request[k].status # "absent"
  PROVE  RowsInv(e)
  <1> USE DEF RowsInv, OnlyRow, SameAuthority
  <1>1. IdsInOrder(e)
    BY DEF IdsInOrder, Tables, Rows
  <1>2. \A o \in Key : e.request[o].id = d.request[o].id /\ e.request[o].authorized = d.request[o].authorized
    OBVIOUS
  <1>3. ASSUME NEW l \in Key, e.request[l].authorized, NEW o \in Older(e, l), e.request[o].id # 0
        PROVE  e.request[o].status \in Terminal
    <2>1. o \in Older(d, l) /\ o \in Key
      BY <1>2, <1>3 DEF Older
    <2>2. d.request[o].status \in Terminal
      BY <1>2, <1>3, <2>1 DEF OlderAreOver
    <2>3. QED
      BY <2>1, <2>2
  <1>4. QED
    BY <1>1, <1>3 DEF OlderAreOver

\* So do rows that end: with their status only.
LEMMA SupersededKeeps ==
  ASSUME NEW d \in Tables, NEW e \in Tables, RowsInv(d), NEW K \in SUBSET Key, Superseded(d, e, K)
  PROVE  RowsInv(e)
  <1> USE DEF RowsInv
  <1>1. ASSUME NEW k \in Key
        PROVE  /\ e.request[k].id = d.request[k].id
               /\ e.request[k].authorized = d.request[k].authorized
               /\ \/ e.request[k] = d.request[k]
                  \/ e.request[k].status = "superseded" /\ d.request[k].status \in Supersedable
    <2>1. d.request[k] \in Rows /\ "superseded" \in RowStatus
      BY DEF Tables, RowStatus
    <2>2. QED
      BY <2>1, WithStatusDoes DEF Superseded
  <1>2. IdsInOrder(e)
    BY <1>1 DEF IdsInOrder, Superseded
  <1>3. ASSUME NEW l \in Key, e.request[l].authorized, NEW o \in Older(e, l), e.request[o].id # 0
        PROVE  e.request[o].status \in Terminal
    <2>1. o \in Older(d, l) /\ o \in Key
      BY <1>1, <1>3 DEF Older
    <2>2. d.request[o].status \in Terminal
      BY <1>1, <1>3, <2>1 DEF OlderAreOver
    <2>3. QED
      BY <1>1, <2>1, <2>2
  <1>4. QED
    BY <1>2, <1>3 DEF OlderAreOver

\* The new row has the highest id: it is older than none.
LEMMA InsertsKeeps ==
  ASSUME NEW d \in Tables, NEW e \in Tables, RowsInv(d), NEW k \in Key, Inserts(d, e, k)
  PROVE  RowsInv(e)
  <1> USE DEF RowsInv
  <1>0. /\ e.request[k].id = d.lastId + 1 /\ e.request[k].status = "pending_dispatch"
        /\ ~e.request[k].authorized /\ d.lastId \in Nat /\ e.lastId = d.lastId + 1
        /\ \A o \in Key \ {k} : e.request[o] = d.request[o]
    BY DEF Inserts, NoRow, Tables
  <1>2. \A o \in Key : d.request[o].id \in Nat /\ e.request[o].id \in Nat
    BY DEF Tables, Rows
  <1>1. IdsInOrder(e)
    BY <1>0, <1>2 DEF IdsInOrder
  <1>3. ASSUME NEW l \in Key, e.request[l].authorized, NEW o \in Older(e, l), e.request[o].id # 0
        PROVE  e.request[o].status \in Terminal
    <2>1. l # k /\ e.request[l] = d.request[l] /\ e.request[l].id <= d.lastId
      BY <1>0, <1>3 DEF IdsInOrder
    <2>2. o \in Key /\ o # k
      BY <1>0, <1>2, <2>1 DEF Older
    <2>3. e.request[o] = d.request[o] /\ o \in Older(d, l)
      BY <1>0, <2>1, <2>2 DEF Older
    <2>4. QED
      BY <1>3, <2>1, <2>3 DEF OlderAreOver
  <1>4. QED
    BY <1>1, <1>3 DEF OlderAreOver

\* The authorization leaves behind what the fence requires.
LEMMA AuthorizesKeeps ==
  ASSUME NEW d \in Tables, NEW e \in Tables, RowsInv(d), NEW k \in Key, Authorizes(d, e, k)
  PROVE  RowsInv(e)
  <1> USE DEF RowsInv
  <1>1. ASSUME NEW o \in Key \ {k}
        PROVE  /\ e.request[o].id = d.request[o].id
               /\ e.request[o].authorized = d.request[o].authorized
               /\ \/ e.request[o] = d.request[o]
                  \/ e.request[o].status = "superseded" /\ d.request[o].status \in Supersedable
               /\ o \in Older(d, k) => e.request[o].status \notin Supersedable
    <2>1. d.request[o] \in Rows /\ "superseded" \in RowStatus
      BY DEF Tables, RowStatus
    <2>2. QED
      BY <2>1, WithStatusDoes DEF Authorizes
  <1>2. /\ e.request[k].id = d.request[k].id /\ e.request[k].status = "claimed"
        /\ d.request[k].status = "claimed" /\ e.lastId = d.lastId
    BY DEF Authorizes
  <1>3. IdsInOrder(e)
    BY <1>1, <1>2 DEF IdsInOrder
  <1>4. \A o \in Key : e.request[o].id = d.request[o].id
    BY <1>1, <1>2
  <1>5. ASSUME NEW l \in Key, e.request[l].authorized, NEW o \in Older(e, l), e.request[o].id # 0
        PROVE  e.request[o].status \in Terminal
    <2>1. o \in Older(d, l) /\ o \in Key
      BY <1>4, <1>5 DEF Older
    <2>2. CASE l = k
      <3>1. o # k
        BY <2>1, <2>2 DEF Older, Tables, Rows
      <3>2. e.request[o].status \notin Supersedable /\ e.request[o].status # "absent"
        BY <1>1, <1>3, <1>5, <2>1, <2>2, <3>1 DEF IdsInOrder, NoRow
      <3>3. e.request[o].status \in RowStatus
        BY <2>1 DEF Tables, Rows
      <3>4. QED
        BY <3>2, <3>3 DEF RowStatus
    <2>3. CASE l # k
      <3>1. d.request[o].status \in Terminal
        BY <1>1, <1>4, <1>5, <2>1, <2>3 DEF OlderAreOver
      <3>2. QED
        BY <1>1, <1>2, <2>1, <3>1
    <2>4. QED
      BY <2>2, <2>3
  <1>6. QED
    BY <1>3, <1>5 DEF OlderAreOver

LEMMA RowStepKeeps ==
  ASSUME NEW d \in Tables, NEW e \in Tables, RowsInv(d), RowStep(d, e)
  PROVE  RowsInv(e)
  <1>1. CASE SameRows(d, e)
    BY <1>1 DEF SameRows, RowsInv, IdsInOrder, OlderAreOver, Older
  <1>2. ASSUME NEW k \in Key, Advances(d, e, k) PROVE RowsInv(e)
    BY <1>2, OnlyRowKeeps DEF Advances
  <1>3. ASSUME NEW k \in Key, NEW x \in Run, Binds(d, e, k, x) PROVE RowsInv(e)
    BY <1>3, OnlyRowKeeps DEF Binds
  <1>4. ASSUME NEW k \in Key, NEW s \in Outcome, GivesUp(d, e, k, s) \/ Reports(d, e, k, s)
        PROVE  RowsInv(e)
    BY <1>4, OnlyRowKeeps DEF GivesUp, Reports
  <1>5. QED
    BY <1>1, <1>2, <1>3, <1>4, SupersededKeeps, InsertsKeeps, AuthorizesKeeps DEF RowStep

LEMMA PortInvariant == Spec => []PortInv
  <1>1. Init => PortInv
    <2>1. Init => RowsInv(db)
      BY DEF Init, RowsInv, IdsInOrder, OlderAreOver, NoRow
    <2>2. QED
      BY <2>1, PortTypeInit DEF PortInv
  <1>2. PortInv /\ [Next]_vars => PortInv'
    <2>1. ASSUME PortInv, Next PROVE PortInv'
      <3>1. PortTypeOK' /\ (db' = db \/ RowStep(db, db'))
        BY <2>1, StepDoes DEF PortInv, GoodStep
      <3>2. RowsInv(db')
        BY <2>1, <3>1, RowStepKeeps DEF PortInv, PortTypeOK
      <3>3. RowsInv(db)' <=> RowsInv(db')
        BY DEF RowsInv, IdsInOrder, OlderAreOver, Older
      <3>4. QED
        BY <3>1, <3>2, <3>3 DEF PortInv
    <2>2. ASSUME PortInv, UNCHANGED vars PROVE PortInv'
      BY <2>2 DEF PortInv, PortTypeOK, RowsInv, IdsInOrder, OlderAreOver, Older, vars
    <2>3. QED
      BY <2>1, <2>2
  <1>3. QED
    BY <1>1, <1>2, PTL DEF Spec

\* What the ledger's variables stand for.
Rank(d)       == [k \in Key |-> d.request[k].id]
Executor(d)   == [k \in Key |-> d.request[k].run]
Authorised(d) == {k \in Key : d.request[k].authorized}
Verdict(d)    == [k \in Key |-> IF d.request[k].status \in Terminal
                                  THEN d.request[k].status ELSE "open"]
Reported(d)   == {k \in Key : d.receipt[k] # "none"}

LedgerUnchanged == /\ Rank(db') = Rank(db) /\ Executor(db') = Executor(db)
                   /\ Authorised(db') = Authorised(db) /\ Verdict(db') = Verdict(db)
                   /\ Reported(db') = Reported(db)

LEMMA PortLedgerStutter == LedgerUnchanged => UNCHANGED Ledger!ledgerVars
  BY DEF LedgerUnchanged, Ledger!ledgerVars, Rank, Executor, Authorised, Verdict, Reported

\* The empty tables are the empty ledger.
LEMMA PortLedgerInit == Init => Ledger!Init
  BY DEF Init, Ledger!Init, NoRow

LEMMA PortLedgerAdmit ==
  ASSUME PortInv, NEW k \in Key, Inserts(db, db', k)
  PROVE  Ledger!Admit(k)
  <1> USE DEF PortInv, PortTypeOK
  <1>0. /\ db'.request[k].id = db.lastId + 1 /\ db'.request[k].status = "pending_dispatch"
        /\ db'.request[k].run = None /\ ~db'.request[k].authorized /\ db'.receipt = db.receipt
        /\ db.request[k].id = 0 /\ db.request[k].status = "absent"
        /\ db.request[k].run = None /\ ~db.request[k].authorized
        /\ \A o \in Key \ {k} : db'.request[o] = db.request[o]
        /\ db.lastId \in Nat /\ \A o \in Key : db.request[o].id \in Nat
    BY DEF Inserts, NoRow, Tables, Rows
  <1>6. \A o \in Key : db.request[o].id <= db.lastId
    BY DEF RowsInv, IdsInOrder
  <1>7. PICK n \in Nat : n = db.lastId + 1
    BY <1>0
  <1>8. \A o \in Key : db.request[o].id < n
    BY <1>0, <1>6, <1>7
  <1>1. Rank(db') = [Rank(db) EXCEPT ![k] = n]
    BY <1>0, <1>7 DEF Rank
  <1>2. Executor(db') = Executor(db) /\ Authorised(db') = Authorised(db)
    BY <1>0 DEF Executor, Authorised
  <1>3. Verdict(db') = Verdict(db) /\ Reported(db') = Reported(db)
    BY <1>0 DEF Verdict, Reported
  <1>4. /\ Rank(db)[k] = 0
        /\ Rank(db') = [Rank(db) EXCEPT ![k] = Rank(db')[k]]
        /\ Rank(db')[k] \in Nat /\ \A o \in Key : Rank(db)[o] < Rank(db')[k]
    <2>1. Rank(db')[k] = n /\ Rank(db)[k] = 0
      BY <1>0, <1>7 DEF Rank
    <2>2. \A o \in Key : Rank(db)[o] < n
      BY <1>8 DEF Rank
    <2>3. QED
      BY <1>1, <2>1, <2>2
  <1>5. QED
    BY <1>2, <1>3, <1>4 DEF Ledger!Admit, Rank, Executor, Authorised, Verdict, Reported

LEMMA PortLedgerAssign ==
  ASSUME PortInv, NEW k \in Key, NEW x \in Run, Binds(db, db', k, x)
  PROVE  Ledger!Assign(k, x)
  <1> USE DEF PortInv, PortTypeOK
  <1>1. Executor(db') = [Executor(db) EXCEPT ![k] = x] /\ Executor(db)[k] = None
        /\ \A o \in Key : Executor(db)[o] # x
    BY DEF Binds, OnlyRow, Executor
  <1>2. Rank(db') = Rank(db) /\ Authorised(db') = Authorised(db) /\ Reported(db') = Reported(db)
    BY DEF Binds, OnlyRow, SameAuthority, Rank, Authorised, Reported
  <1>3. Verdict(db') = Verdict(db) /\ Verdict(db)[k] = "open"
    BY DEF Binds, OnlyRow, Verdict
  <1>4. Rank(db)[k] # 0
    BY DEF Binds, Rank, RowsInv, IdsInOrder
  <1>5. QED
    BY <1>1, <1>2, <1>3, <1>4 DEF Ledger!Assign, Rank, Executor, Authorised, Verdict, Reported

\* The fence makes the ledger's guard hold: a request below an authorized one is over.
LEMMA PortLedgerAuthorize ==
  ASSUME PortInv, NEW k \in Key, Authorizes(db, db', k)
  PROVE  Ledger!Authorize(k)
  <1> USE DEF PortInv, PortTypeOK
  <1>0. \A o \in Key : db.request[o] \in Rows
    BY DEF Tables
  <1>1. ASSUME NEW o \in Key \ {k}
        PROVE  /\ db'.request[o].id = db.request[o].id
               /\ db'.request[o].run = db.request[o].run
               /\ db'.request[o].authorized = db.request[o].authorized
               /\ db'.request[o].status =
                    IF o \in Older(db, k) /\ db.request[o].status \in Supersedable
                      THEN "superseded" ELSE db.request[o].status
    <2>1. "superseded" \in RowStatus
      BY DEF RowStatus
    <2>2. QED
      BY <1>0, <2>1, WithStatusDoes DEF Authorizes
  <1>2. /\ db.request[k].status = "claimed" /\ db.request[k].run # None /\ ~db.request[k].authorized
        /\ db'.request[k].status = "claimed" /\ db'.request[k].run = db.request[k].run
        /\ db'.request[k].authorized /\ db'.request[k].id = db.request[k].id
        /\ db'.receipt = db.receipt
    BY DEF Authorizes, SameRun
  <1>3. Rank(db') = Rank(db) /\ Executor(db') = Executor(db) /\ Reported(db') = Reported(db)
    BY <1>1, <1>2 DEF Rank, Executor, Reported
  <1>4. Authorised(db') = Authorised(db) \cup {k} /\ k \notin Authorised(db)
    BY <1>1, <1>2 DEF Authorised
  <1>5. Verdict(db)[k] = "open" /\ Executor(db)[k] # None
    BY <1>2 DEF Verdict, Executor
  <1>6. ASSUME NEW o \in Key
        PROVE  Ledger!Before(o, k) /\ Verdict(db)[o] = "open" <=>
                 o \in Older(db, k) /\ db.request[o].status \in Supersedable
    <2>1. Ledger!Before(o, k) <=> o \in Older(db, k) /\ db.request[o].id # 0
      BY DEF Ledger!Before, Older
    <2>2. db.request[o].status \in Supersedable => db.request[o].id # 0 /\ Verdict(db)[o] = "open"
      BY DEF RowsInv, IdsInOrder, Verdict
    <2>3. db.request[o].id # 0 /\ Verdict(db)[o] = "open" => db.request[o].status \in Supersedable
      <3>1. db.request[o].id # 0 => db.request[o].status # "absent"
        BY DEF RowsInv, IdsInOrder, NoRow
      <3>2. Verdict(db)[o] = "open" => db.request[o].status \notin Terminal
        BY DEF Verdict
      <3>3. db.request[o].status \in RowStatus
        BY <1>0 DEF Rows
      <3>4. QED
        BY <3>1, <3>2, <3>3 DEF RowStatus
    <2>4. QED
      BY <2>1, <2>2, <2>3
  <1>7. Verdict(db') = [o \in Key |-> IF Ledger!Before(o, k) /\ Verdict(db)[o] = "open"
                                        THEN "superseded" ELSE Verdict(db)[o]]
    <2>1. ASSUME NEW o \in Key
          PROVE  Verdict(db')[o] = IF Ledger!Before(o, k) /\ Verdict(db)[o] = "open"
                                     THEN "superseded" ELSE Verdict(db)[o]
      <3>1. k \notin Older(db, k)
        BY <1>0 DEF Older, Rows
      <3>2. CASE o = k
        BY <1>2, <1>5, <1>6, <3>1, <3>2 DEF Verdict
      <3>3. CASE o # k
        BY <1>1, <1>6, <3>3 DEF Verdict
      <3>4. QED
        BY <3>2, <3>3
    <2>2. QED
      BY <2>1 DEF Verdict
  <1>8. \A o \in Authorised(db) : ~Ledger!Before(k, o)
    <2>1. ASSUME NEW o \in Authorised(db), Ledger!Before(k, o) PROVE FALSE
      <3>1. k \in Older(db, o) /\ o \in Key /\ db.request[o].authorized /\ db.request[k].id # 0
        BY <2>1 DEF Ledger!Before, Older, Authorised
      <3>2. QED
        BY <1>2, <3>1 DEF RowsInv, OlderAreOver
    <2>2. QED
      BY <2>1
  <1>9. QED
    BY <1>3, <1>4, <1>5, <1>7, <1>8
    DEF Ledger!Authorize, Rank, Executor, Authorised, Verdict, Reported

LEMMA PortLedgerReport ==
  ASSUME PortInv, NEW k \in Key, NEW s \in Outcome, Reports(db, db', k, s)
  PROVE  Ledger!Report(k, s)
  <1> USE DEF PortInv, PortTypeOK
  <1>1. Rank(db') = Rank(db) /\ Executor(db') = Executor(db) /\ Authorised(db') = Authorised(db)
    BY DEF Reports, OnlyRow, SameAuthority, SameRun, Rank, Executor, Authorised
  <1>2. Verdict(db') = [Verdict(db) EXCEPT ![k] = s] /\ Verdict(db)[k] = "open"
    BY DEF Reports, OnlyRow, Verdict
  <1>3. Reported(db') = Reported(db) \cup {k} /\ k \in Authorised(db)
    BY DEF Reports, Reported, Authorised, Tables
  <1>4. QED
    BY <1>1, <1>2, <1>3 DEF Ledger!Report, Rank, Executor, Authorised, Verdict, Reported

LEMMA PortLedgerGiveUp ==
  ASSUME PortInv, NEW k \in Key, NEW s \in {"failed", "cancelled"}, GivesUp(db, db', k, s)
  PROVE  Ledger!GiveUp(k, s)
  <1>1. Rank(db') = Rank(db) /\ Executor(db') = Executor(db) /\ Authorised(db') = Authorised(db)
        /\ Executor(db)[k] # None
    BY DEF GivesUp, OnlyRow, SameAuthority, SameRun, Rank, Executor, Authorised
  <1>2. Verdict(db') = [Verdict(db) EXCEPT ![k] = s] /\ Verdict(db)[k] = "open"
    BY DEF GivesUp, OnlyRow, Verdict
  <1>3. Reported(db') = Reported(db)
    BY DEF GivesUp, Reported
  <1>4. QED
    BY <1>1, <1>2, <1>3 DEF Ledger!GiveUp, Rank, Executor, Authorised, Verdict, Reported

LEMMA PortLedgerDrop ==
  ASSUME PortInv, NEW K \in SUBSET Key, Superseded(db, db', K)
  PROVE  \E T \in SUBSET Key : Ledger!Drop(T)
  <1> USE DEF PortInv, PortTypeOK
  <1>1. PICK T \in SUBSET Key : T = {k \in K : db.request[k].status \in Supersedable}
    OBVIOUS
  <1>2. ASSUME NEW k \in Key
        PROVE  /\ db'.request[k].id = db.request[k].id /\ db'.request[k].run = db.request[k].run
               /\ db'.request[k].authorized = db.request[k].authorized
               /\ db'.request[k].status = IF k \in T THEN "superseded" ELSE db.request[k].status
    <2>1. db.request[k] \in Rows /\ "superseded" \in RowStatus
      BY DEF Tables, RowStatus
    <2>2. QED
      BY <1>1, <2>1, WithStatusDoes DEF Superseded
  <1>3. Rank(db') = Rank(db) /\ Executor(db') = Executor(db) /\ Authorised(db') = Authorised(db)
    BY <1>2 DEF Rank, Executor, Authorised
  <1>4. Reported(db') = Reported(db)
    BY DEF Superseded, Reported
  <1>5. Verdict(db') = [k \in Key |-> IF k \in T THEN "superseded" ELSE Verdict(db)[k]]
    BY <1>2 DEF Verdict
  <1>6. \A k \in T : Rank(db)[k] # 0 /\ Verdict(db)[k] = "open"
    BY <1>1 DEF Rank, Verdict, RowsInv, IdsInOrder
  <1>7. Ledger!Drop(T)
    BY <1>3, <1>4, <1>5, <1>6 DEF Ledger!Drop, Rank, Executor, Authorised, Verdict, Reported
  <1>8. QED
    BY <1>7

\* Every step of the port is one of the ledger, or the ledger does not see it.
LEMMA PortLedgerStep == PortInv /\ [Next]_vars => [Ledger!Next]_Ledger!ledgerVars
  <1> SUFFICES ASSUME PortInv, [Next]_vars PROVE [Ledger!Next]_Ledger!ledgerVars
    OBVIOUS
  <1>1. CASE db' = db
    BY <1>1, PortLedgerStutter DEF LedgerUnchanged
  <1>2. CASE SameRows(db, db')
    <2>1. LedgerUnchanged
      BY <1>2 DEF SameRows, LedgerUnchanged, Rank, Executor, Authorised, Verdict, Reported
    <2>2. QED
      BY <2>1, PortLedgerStutter
  <1>3. ASSUME NEW k \in Key, Advances(db, db', k) PROVE [Ledger!Next]_Ledger!ledgerVars
    <2>1. LedgerUnchanged
      BY <1>3 DEF Advances, OnlyRow, SameAuthority, SameRun, LedgerUnchanged, Rank, Executor,
                  Authorised, Verdict, Reported
    <2>2. QED
      BY <2>1, PortLedgerStutter
  <1>4. ASSUME RowStep(db, db') PROVE [Ledger!Next]_Ledger!ledgerVars
    <2>1. ASSUME NEW K \in SUBSET Key, Superseded(db, db', K) PROVE Ledger!Next
      BY <2>1, PortLedgerDrop DEF Ledger!Next
    <2>2. ASSUME NEW k \in Key, Inserts(db, db', k) \/ Authorizes(db, db', k) PROVE Ledger!Next
      BY <2>2, PortLedgerAdmit, PortLedgerAuthorize DEF Ledger!Next
    <2>3. ASSUME NEW k \in Key, NEW x \in Run, Binds(db, db', k, x) PROVE Ledger!Next
      BY <2>3, PortLedgerAssign DEF Ledger!Next
    <2>4. ASSUME NEW k \in Key, NEW s \in {"failed", "cancelled"}, GivesUp(db, db', k, s)
          PROVE Ledger!Next
      BY <2>4, PortLedgerGiveUp DEF Ledger!Next
    <2>5. ASSUME NEW k \in Key, NEW s \in Outcome, Reports(db, db', k, s) PROVE Ledger!Next
      BY <2>5, PortLedgerReport DEF Ledger!Next
    <2>6. QED
      BY <1>2, <1>3, <1>4, <2>1, <2>2, <2>3, <2>4, <2>5 DEF RowStep
  <1>5. QED
    BY <1>1, <1>4, StepDoes DEF PortInv, GoodStep, vars

\* The port keeps the ledger that the deployed store keeps: the statements of its
\* batches, run one after the other on what the ones before have left, amount to one step
\* of it, and its single statements are steps of it.
THEOREM PortImplementsLedger == Spec => PortKeepsLedger
  BY PortLedgerInit, PortLedgerStep, PortInvariant, PTL DEF Spec, PortKeepsLedger, Ledger!Spec

=============================================================================
