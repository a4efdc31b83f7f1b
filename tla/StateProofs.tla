---------------------------- MODULE StateProofs ----------------------------
(***************************************************************************)
(* The job records of a workspace and its lock (state.mjs): two jobs never *)
(* have their runtimes in one home of the provider, no turn starts once    *)
(* its job was cancelled, and nobody takes the lock of a live holder,      *)
(* whatever calls interleave and whichever processes die.                  *)
(***************************************************************************)
EXTENDS JobRecords, StateLock, FiniteSetTheorems, TLAPS

JobsSpec == JobsInit /\ [][JobsNext]_jobVars

Wanted == [job : Job, writer : Writers, lineage : Lineage, parent : Job \cup {NoJob}]
Entry  == [job : Job, record : Record]

Call == {Idle}
          \cup [op : {"admit"}, wanted : Wanted, names : SUBSET Job, seen : SUBSET Entry]
          \cup [op : {"retain"}, wanted : {NoJob}, names : SUBSET Job, seen : SUBSET Entry]
          \cup [op : {"remove"}, jobs : SUBSET Job, rest : Job \cup {NoJob}]
          \cup [op : {"update"}, job : Job, next : Record]
          \cup [op : {"cancel", "turn", "start"}, job : Job]

UnderLock == {"admit", "retain", "remove", "cancel", "turn", "start"}

JobsTypeOK ==
  /\ record \in [Job -> Record \cup {NoJob}]
  /\ marker \subseteq Job
  /\ workspace \in Client \cup {NoJob}
  /\ held \in [Job -> Client \cup {NoJob}]
  /\ doing \in [Client -> Call]
  /\ runtime \subseteq Job
  /\ busy \subseteq Job

\* A transaction on the workspace has its lock.
OneTransaction == \A c \in Client : doing[c].op \in UnderLock => workspace = c

\* A turn is about to start only for a job that is not cancelled.
StartsUncancelled == \A c \in Client : doing[c].op = "start" => doing[c].job \notin marker

-----------------------------------------------------------------------------
(* The strengthening of RuntimeIsExclusive.                                *)

\* What no update changes.
SameJob(r, s) == r.writer = s.writer /\ r.lineage = s.lineage /\ r.parent = s.parent

\* The job is over and has nothing on disk: it can be admitted against or removed.
Settled(j) == j \notin runtime /\ (record[j] # NoJob => ~Active(record[j]))

Fencing(j) == record[j] # NoJob /\ (Active(record[j]) \/ j \in runtime)

RecordsFence ==
  /\ runtime \subseteq Existing
  /\ \A j \in runtime : ~Active(record[j]) => record[j].cleaned = "no"
  /\ \A j \in busy : record[j] # NoJob /\ Active(record[j])
  /\ \A i, j \in Job : i # j /\ Fencing(i) /\ Fencing(j) => ~SameLineage(record[i], record[j])
  /\ \A i, j \in Existing : i # j /\ Active(record[i]) /\ Active(record[j]) => ~Exclusive(record[i])

\* An update that was read writes the same job, and ends it only while no turn runs.
UpdateOK(c) ==
  LET j == doing[c].job
      next == doing[c].next
  IN doing[c].op = "update" =>
       /\ held[j] = c
       /\ record[j] # NoJob =>
            /\ SameJob(next, record[j])
            /\ Active(next) => Active(record[j])
            /\ ~Active(next) /\ Active(record[j]) => j \notin busy
       /\ record[j] = NoJob => ~Active(next)
       /\ ~Active(next) /\ j \in runtime => next.cleaned = "no"

\* What a listed record says of its job is still true where it matters.
StillTrue(e) ==
  LET j == e.job
  IN /\ record[j] # NoJob /\ SameJob(e.record, record[j])
     /\ ~Active(e.record) => ~Active(record[j])
     /\ ~Active(e.record) /\ e.record.cleaned # "no" => Settled(j)

ListOK(c) ==
  doing[c].op \in {"admit", "retain"} =>
    /\ \A e \in doing[c].seen : StillTrue(e)
    /\ \A j \in Existing : \/ j \in doing[c].names
                           \/ \E e \in doing[c].seen : e.job = j
                           \/ Settled(j)

AdmitOK(c) ==
  LET j == doing[c].wanted.job
  IN doing[c].op = "admit" =>
       /\ record[j] = NoJob /\ j \notin runtime
       /\ \A d \in Client : doing[d].op = "update" => doing[d].job # j

RemoveOK(c) == doing[c].op = "remove" => \A j \in doing[c].jobs : Settled(j)

CallsOK == \A c \in Client : UpdateOK(c) /\ ListOK(c) /\ AdmitOK(c) /\ RemoveOK(c)

JobsInv == JobsTypeOK /\ OneTransaction /\ StartsUncancelled /\ RecordsFence /\ CallsOK

-----------------------------------------------------------------------------
(* Types.                                                                  *)

LEMMA CallParts ==
  ASSUME NEW x \in Call
  PROVE  /\ x.op \in UnderLock \cup {"idle", "update"}
         /\ x.op = "admit" => x \in [op : {"admit"}, wanted : Wanted, names : SUBSET Job, seen : SUBSET Entry]
         /\ x.op = "retain" =>
              x \in [op : {"retain"}, wanted : {NoJob}, names : SUBSET Job, seen : SUBSET Entry]
         /\ x.op = "remove" => x \in [op : {"remove"}, jobs : SUBSET Job, rest : Job \cup {NoJob}]
         /\ x.op = "update" => x \in [op : {"update"}, job : Job, next : Record]
         /\ x.op \in {"cancel", "turn", "start"} => x \in [op : {"cancel", "turn", "start"}, job : Job]
         /\ x.op = "idle" => x = Idle
  BY DEF Call, Idle, UnderLock

\* The end of a call lets its locks go.
LEMMA EndOfCall ==
  ASSUME JobsTypeOK, NEW c \in Client, EndCall(c)
  PROVE  /\ doing' \in [Client -> Call]
         /\ doing'[c] = Idle /\ \A d \in Client \ {c} : doing'[d] = doing[d]
         /\ held' \in [Job -> Client \cup {NoJob}]
         /\ \A j \in Job : held'[j] = IF held[j] = c THEN NoJob ELSE held[j]
         /\ workspace' \in Client \cup {NoJob}
         /\ workspace # c => workspace' = workspace
  BY DEF EndCall, Proceed, Unlock, JobsTypeOK, Call

\* A call goes on.
LEMMA CallGoesOn ==
  ASSUME JobsTypeOK, NEW c \in Client, NEW x \in Call, doing' = [doing EXCEPT ![c] = x]
  PROVE  /\ doing' \in [Client -> Call]
         /\ doing'[c] = x /\ \A d \in Client \ {c} : doing'[d] = doing[d]
  BY DEF JobsTypeOK

\* An update keeps the job, and is read as Mutated says.
LEMMA MutatedIs ==
  ASSUME JobsTypeOK, NEW j \in Job, NEW r \in Record, NEW what \in {"end", "clean", "note"}
  PROVE  LET m == Mutated(j, r, what)
         IN /\ m \in Record /\ SameJob(m, r)
            /\ Active(m) => Active(r)
            /\ ~Active(m) /\ Active(r) => j \notin busy /\ (j \in runtime => m.cleaned = "no")
            /\ ~Active(r) => m = r \/ (j \notin runtime /\ ~Active(m))
  <1> DEFINE ended == [r EXCEPT !.status = "ended", !.cleaned = IF j \in runtime THEN "no" ELSE "unset"]
             clean == [r EXCEPT !.cleaned = "yes"]
             m == Mutated(j, r, what)
  <1>1. /\ ended \in Record /\ SameJob(ended, r) /\ ~Active(ended)
        /\ j \in runtime => ended.cleaned = "no"
    BY DEF Record, SameJob, Active
  <1>2. clean \in Record /\ SameJob(clean, r) /\ (Active(clean) <=> Active(r))
    BY DEF Record, SameJob, Active
  <1>3. SameJob(r, r)
    BY DEF SameJob
  <1>4. CASE what = "end" /\ Active(r) /\ j \notin busy
    <2>1. m = ended
      BY <1>4 DEF Mutated
    <2> HIDE DEF m, ended
    <2>2. QED
      BY <1>1, <1>4, <2>1 DEF m
  <1>5. CASE what = "clean" /\ ~Active(r) /\ r.cleaned = "no" /\ j \notin runtime
    <2>1. m = clean
      BY <1>5 DEF Mutated
    <2> HIDE DEF m, clean
    <2>2. QED
      BY <1>2, <1>5, <2>1 DEF m
  <1>6. CASE /\ ~(what = "end" /\ Active(r) /\ j \notin busy)
             /\ ~(what = "clean" /\ ~Active(r) /\ r.cleaned = "no" /\ j \notin runtime)
    <2>1. m = r
      BY <1>6 DEF Mutated
    <2> HIDE DEF m
    <2>2. QED
      BY <1>3, <2>1 DEF m
  <1>7. QED
    BY <1>4, <1>5, <1>6

LEMMA JobsTypeInit == JobsInit => JobsTypeOK
  <1> SUFFICES ASSUME JobsInit PROVE JobsTypeOK
    OBVIOUS
  <1>1. (CHOOSE l \in Lineage : TRUE) \in Lineage
    BY JobAssumption
  <1>2. Earlier \in Record
    BY <1>1 DEF Earlier, Record, Writers
  <1>3. Idle \in Call
    BY DEF Call
  <1>4. record \in [Job -> Record \cup {NoJob}]
    BY <1>2 DEF JobsInit
  <1>5. QED
    BY <1>3, <1>4 DEF JobsInit, JobsTypeOK

-----------------------------------------------------------------------------
(* Calls that leave the records, the runtimes and the turns alone.         *)

World == <<record, runtime, busy>>

CallOK(c) == UpdateOK(c) /\ ListOK(c) /\ AdmitOK(c) /\ RemoveOK(c)

\* What holds of a call does not depend on where the others are,
LEMMA OthersFrame ==
  ASSUME JobsInv, UNCHANGED World, NEW c \in Client,
         \A d \in Client \ {c} : doing'[d] = doing[d],
         \A j \in Job, d \in Client \ {c} : held[j] = d => held'[j] = d,
         doing'[c].op = "update" => record[doing'[c].job] # NoJob
  PROVE  \A d \in Client \ {c} : CallOK(d)'
  <1> SUFFICES ASSUME NEW d \in Client \ {c} PROVE CallOK(d)'
    OBVIOUS
  <1>1. doing'[d] = doing[d] /\ CallOK(d) /\ doing[d] \in Call /\ UNCHANGED <<record, runtime, busy>>
    BY DEF JobsInv, CallsOK, CallOK, JobsTypeOK, World
  <1>2. UpdateOK(d)'
    <2>1. doing[d].op = "update" => doing[d].job \in Job
      BY <1>1, CallParts
    <2>2. QED
      BY <1>1, <2>1 DEF UpdateOK, CallOK
  <1>3. ListOK(d)'
    BY <1>1 DEF ListOK, CallOK, StillTrue, Settled, Existing
  <1>4. AdmitOK(d)'
    <2>1. \A b \in Client : doing'[b].op = "update" => doing'[b] = doing[b] \/ record[doing'[b].job] # NoJob
      OBVIOUS
    <2>2. QED
      BY <1>1, <2>1 DEF AdmitOK, CallOK
  <1>5. RemoveOK(d)'
    BY <1>1 DEF RemoveOK, CallOK, Settled
  <1>6. QED
    BY <1>2, <1>3, <1>4, <1>5 DEF CallOK

LEMMA FenceFrame ==
  ASSUME RecordsFence, UNCHANGED World
  PROVE  RecordsFence'
  BY DEF RecordsFence, World, Existing, Fencing

\* Whoever enters the workspace finds nobody there.
LEMMA EnterAlone ==
  ASSUME JobsTypeOK, OneTransaction, NEW c \in Client, workspace = NoJob
  PROVE  \A d \in Client : doing[d].op \notin UnderLock
  BY JobAssumption DEF OneTransaction

\* A caller that is alone under the lock, or ends there, keeps it so.
LEMMA TransactionKept ==
  ASSUME JobsTypeOK, OneTransaction, NEW c \in Client,
         \A d \in Client \ {c} : doing'[d] = doing[d],
         \/ workspace' = workspace /\ (doing'[c].op \in UnderLock => workspace = c)
         \/ workspace = NoJob /\ workspace' = c
         \/ workspace = c /\ doing'[c].op \notin UnderLock
  PROVE  OneTransaction'
  BY EnterAlone, JobAssumption DEF OneTransaction

\* The end of a call, its own effect aside.
LEMMA EndKeeps ==
  ASSUME JobsInv, NEW c \in Client, EndCall(c), UNCHANGED <<World, marker>>
  PROVE  JobsInv'
  <1>1. /\ doing' \in [Client -> Call] /\ doing'[c] = Idle
        /\ \A d \in Client \ {c} : doing'[d] = doing[d]
        /\ held' \in [Job -> Client \cup {NoJob}]
        /\ \A j \in Job : held'[j] = IF held[j] = c THEN NoJob ELSE held[j]
        /\ workspace' \in Client \cup {NoJob}
        /\ workspace # c => workspace' = workspace
    BY EndOfCall DEF JobsInv
  <1>2. doing'[c].op = "idle"
    BY <1>1 DEF Idle
  <1>3. JobsTypeOK'
    BY <1>1 DEF JobsInv, JobsTypeOK, World
  <1>4. OneTransaction'
    BY <1>1, <1>2, TransactionKept DEF JobsInv, UnderLock
  <1>5. StartsUncancelled'
    BY <1>1, <1>2 DEF JobsInv, StartsUncancelled
  <1>6. RecordsFence'
    BY FenceFrame DEF JobsInv
  <1>7. \A d \in Client \ {c} : CallOK(d)'
    BY <1>1, <1>2, OthersFrame
  <1>8. CallOK(c)'
    BY <1>2 DEF CallOK, UpdateOK, ListOK, AdmitOK, RemoveOK
  <1>9. QED
    BY <1>3, <1>4, <1>5, <1>6, <1>7, <1>8 DEF JobsInv, CallsOK, CallOK

\* A call that goes on under the lock of the workspace, or takes it.
LEMMA GoingOn ==
  ASSUME JobsInv, NEW c \in Client, NEW x \in Call, UNCHANGED <<World, marker, held>>,
         doing' = [doing EXCEPT ![c] = x],
         x.op \in UnderLock,
         \/ workspace = NoJob /\ workspace' = c
         \/ workspace = c /\ workspace' = c,
         x.op = "start" => x.job \notin marker,
         CallOK(c)'
  PROVE  JobsInv'
  <1>1. /\ doing' \in [Client -> Call] /\ doing'[c] = x
        /\ \A d \in Client \ {c} : doing'[d] = doing[d]
    BY CallGoesOn DEF JobsInv
  <1>2. JobsTypeOK'
    BY <1>1 DEF JobsInv, JobsTypeOK, World
  <1>3. OneTransaction'
    BY <1>1, TransactionKept DEF JobsInv
  <1>4. StartsUncancelled'
    BY <1>1 DEF JobsInv, StartsUncancelled
  <1>5. RecordsFence'
    BY FenceFrame DEF JobsInv
  <1>6. doing'[c].op # "update"
    BY <1>1 DEF UnderLock
  <1>7. \A d \in Client \ {c} : CallOK(d)'
    BY <1>1, <1>6, OthersFrame
  <1>8. QED
    BY <1>2, <1>3, <1>4, <1>5, <1>7 DEF JobsInv, CallsOK, CallOK

\* The beginnings of calls.
LEMMA BeginAdmitKeeps ==
  ASSUME JobsInv, NEW c \in Client, BeginAdmit(c)
  PROVE  JobsInv'
  <1>1. PICK w \in Writers, l \in Lineage, p \in Existing \cup {NoJob} :
          doing' = [doing EXCEPT ![c] =
            Listing("admit", [job |-> CHOOSE j \in Unused : TRUE, writer |-> w, lineage |-> l, parent |-> p])]
    BY DEF BeginAdmit, BeginCall
  <1> DEFINE j == CHOOSE k \in Unused : TRUE
             x == Listing("admit", [job |-> j, writer |-> w, lineage |-> l, parent |-> p])
  <1>2. j \in Unused
    BY DEF BeginAdmit
  <1>3. /\ j \in Job /\ record[j] = NoJob /\ j \notin runtime
        /\ \A d \in Client : doing[d].op = "update" => doing[d].job # j
    BY <1>2 DEF Unused, Existing
  <1> HIDE DEF j
  <1>4. x \in Call /\ x.op = "admit" /\ x.wanted.job = j /\ x.names = Existing /\ x.seen = {}
    BY <1>3 DEF Call, Listing, Wanted, Existing
  <1>5. doing' = [doing EXCEPT ![c] = x]
    BY <1>1 DEF j
  <1> HIDE DEF x
  <1>6. UNCHANGED <<World, marker, held>> /\ workspace = NoJob /\ workspace' = c
    BY DEF BeginAdmit, EnterWorkspace, World
  <1>7. doing'[c] = x /\ \A d \in Client \ {c} : doing'[d] = doing[d]
    BY <1>4, <1>5, CallGoesOn DEF JobsInv
  <1>8. CallOK(c)'
    BY <1>3, <1>4, <1>6, <1>7 DEF CallOK, UpdateOK, ListOK, AdmitOK, RemoveOK, World, Existing
  <1>9. QED
    BY <1>4, <1>5, <1>6, <1>8, GoingOn DEF UnderLock

LEMMA BeginRetainKeeps ==
  ASSUME JobsInv, NEW c \in Client, BeginRetain(c)
  PROVE  JobsInv'
  <1> DEFINE x == Listing("retain", NoJob)
  <1>1. x \in Call /\ x.op = "retain" /\ x.names = Existing /\ x.seen = {}
    BY DEF Call, Listing, Existing
  <1>2. doing' = [doing EXCEPT ![c] = x]
    BY DEF BeginRetain, BeginCall
  <1> HIDE DEF x
  <1>3. UNCHANGED <<World, marker, held>> /\ workspace = NoJob /\ workspace' = c
    BY DEF BeginRetain, EnterWorkspace, World
  <1>4. doing'[c] = x
    BY <1>1, <1>2, CallGoesOn DEF JobsInv
  <1>5. CallOK(c)'
    BY <1>1, <1>3, <1>4 DEF CallOK, UpdateOK, ListOK, AdmitOK, RemoveOK, World, Existing
  <1>6. QED
    BY <1>1, <1>2, <1>3, <1>5, GoingOn DEF UnderLock

\* A call that only names a job.
LEMMA NamingKeeps ==
  ASSUME JobsInv, NEW c \in Client, NEW op \in {"cancel", "turn", "start"}, NEW j \in Job,
         UNCHANGED <<World, marker, held>>,
         doing' = [doing EXCEPT ![c] = [op |-> op, job |-> j]],
         \/ workspace = NoJob /\ workspace' = c
         \/ workspace = c /\ workspace' = c,
         op = "start" => j \notin marker
  PROVE  JobsInv'
  <1> DEFINE x == [op |-> op, job |-> j]
  <1>1. x \in Call /\ x.op = op /\ x.job = j
    BY DEF Call
  <1> HIDE DEF x
  <1>2. doing'[c] = x
    BY <1>1, CallGoesOn DEF JobsInv, x
  <1>3. CallOK(c)'
    BY <1>1, <1>2 DEF CallOK, UpdateOK, ListOK, AdmitOK, RemoveOK
  <1>4. QED
    BY <1>1, <1>3, GoingOn DEF UnderLock, x

LEMMA BeginCancelKeeps ==
  ASSUME JobsInv, NEW c \in Client, BeginCancel(c)
  PROVE  JobsInv'
  <1>1. PICK j \in Existing : /\ EnterWorkspace(c) /\ BeginCall(c, [op |-> "cancel", job |-> j])
                              /\ UNCHANGED <<record, marker, held, runtime, busy>>
    BY DEF BeginCancel
  <1>2. j \in Job
    BY DEF Existing
  <1>3. QED
    BY <1>1, <1>2, NamingKeeps DEF EnterWorkspace, BeginCall, World

LEMMA BeginTurnKeeps ==
  ASSUME JobsInv, NEW c \in Client, BeginTurn(c)
  PROVE  JobsInv'
  <1>1. PICK j \in Existing : /\ EnterWorkspace(c) /\ BeginCall(c, [op |-> "turn", job |-> j])
                              /\ UNCHANGED <<record, marker, held, runtime, busy>>
    BY DEF BeginTurn
  <1>2. j \in Job
    BY DEF Existing
  <1>3. QED
    BY <1>1, <1>2, NamingKeeps DEF EnterWorkspace, BeginCall, World

LEMMA CheckMarkerKeeps ==
  ASSUME JobsInv, NEW c \in Client, CheckMarker(c)
  PROVE  JobsInv'
  <1> DEFINE j == doing[c].job
  <1>1. doing[c] \in [op : {"cancel", "turn", "start"}, job : Job] /\ doing[c].op = "turn"
        /\ workspace = c
    BY CallParts DEF CheckMarker, JobsInv, JobsTypeOK, OneTransaction, UnderLock
  <1>2. CASE j \in marker
    BY <1>2, EndKeeps DEF CheckMarker, World
  <1>3. CASE j \notin marker
    <2>1. doing' = [doing EXCEPT ![c] = [doing[c] EXCEPT !.op = "start"]]
      BY <1>3 DEF CheckMarker, Proceed
    <2>2. [doing[c] EXCEPT !.op = "start"] = [op |-> "start", job |-> j]
      BY <1>1
    <2>3. UNCHANGED <<World, marker, held>> /\ workspace' = c /\ j \in Job
      BY <1>1, <1>3 DEF CheckMarker, World
    <2> HIDE DEF j
    <2>4. QED
      BY <1>1, <1>3, <2>1, <2>2, <2>3, NamingKeeps
  <1>4. QED
    BY <1>2, <1>3

\* The marker of a cancelled job is written while no turn is about to start.
LEMMA FinishCancelKeeps ==
  ASSUME JobsInv, NEW c \in Client, FinishCancel(c)
  PROVE  JobsInv'
  <1>1. doing[c].op = "cancel" /\ EndCall(c) /\ UNCHANGED World /\ marker' = marker \cup {doing[c].job}
    BY DEF FinishCancel, World
  <1>2. doing[c].job \in Job /\ workspace = c
    BY <1>1, CallParts DEF JobsInv, JobsTypeOK, OneTransaction, UnderLock
  <1>3. /\ doing' \in [Client -> Call] /\ doing'[c] = Idle
        /\ \A d \in Client \ {c} : doing'[d] = doing[d]
        /\ held' \in [Job -> Client \cup {NoJob}]
        /\ \A j \in Job : held'[j] = IF held[j] = c THEN NoJob ELSE held[j]
        /\ workspace' \in Client \cup {NoJob}
    BY <1>1, EndOfCall DEF JobsInv
  <1>4. doing'[c].op = "idle"
    BY <1>3 DEF Idle
  <1>5. JobsTypeOK'
    BY <1>1, <1>2, <1>3 DEF JobsInv, JobsTypeOK, World
  <1>6. OneTransaction'
    BY <1>2, <1>3, <1>4, TransactionKept DEF JobsInv, UnderLock
  <1>7. StartsUncancelled'
    BY <1>2, <1>3, <1>4 DEF StartsUncancelled, JobsInv, OneTransaction, UnderLock
  <1>8. RecordsFence'
    BY <1>1, FenceFrame DEF JobsInv
  <1>9. \A d \in Client \ {c} : CallOK(d)'
    BY <1>1, <1>3, <1>4, OthersFrame
  <1>10. CallOK(c)'
    BY <1>4 DEF CallOK, UpdateOK, ListOK, AdmitOK, RemoveOK
  <1>11. QED
    BY <1>5, <1>6, <1>7, <1>8, <1>9, <1>10 DEF JobsInv, CallsOK, CallOK

\* A file of the list is read while nobody else admits or removes.
LEMMA ReadListedKeeps ==
  ASSUME JobsInv, NEW c \in Client, ReadListed(c)
  PROVE  JobsInv'
  <1>1. doing[c].op \in {"admit", "retain"} /\ UNCHANGED <<World, marker>>
    BY DEF ReadListed, World
  <1>2. workspace = c /\ doing[c] \in Call /\ CallOK(c)
    BY <1>1 DEF JobsInv, OneTransaction, UnderLock, JobsTypeOK, CallsOK, CallOK
  <1>3. PICK j \in doing[c].names :
          IF record[j] = NoJob
          THEN EndCall(c)
          ELSE /\ Proceed(c, [doing[c] EXCEPT !.names = @ \ {j},
                                              !.seen = @ \cup {[job |-> j, record |-> record[j]]}])
               /\ UNCHANGED <<workspace, held>>
    BY Zenon DEF ReadListed
  <1>4. doing[c].names \subseteq Job /\ doing[c].seen \subseteq Entry
    BY <1>1, <1>2, CallParts
  <1>5. CASE record[j] = NoJob
    BY <1>1, <1>3, <1>5, EndKeeps
  <1>6. CASE record[j] # NoJob
    <2> DEFINE new == [job |-> j, record |-> record[j]]
               x == [doing[c] EXCEPT !.names = @ \ {j}, !.seen = @ \cup {new}]
    <2>1. j \in Job /\ record[j] \in Record /\ new \in Entry /\ new.job = j /\ new.record = record[j]
      BY <1>3, <1>4, <1>6 DEF JobsInv, JobsTypeOK, Entry
    <2>2. StillTrue(new)
      BY <1>6, <2>1 DEF StillTrue, SameJob, Settled, JobsInv, RecordsFence
    <2> HIDE DEF new
    <2>3. /\ x \in Call /\ x.op = doing[c].op /\ x.names = doing[c].names \ {j}
          /\ x.seen = doing[c].seen \cup {new}
          /\ x.op = "admit" => x.wanted = doing[c].wanted
      <3>1. CASE doing[c].op = "admit"
        <4>1. doing[c] \in [op : {"admit"}, wanted : Wanted, names : SUBSET Job, seen : SUBSET Entry]
          BY <3>1, <1>2, CallParts
        <4>2. x \in [op : {"admit"}, wanted : Wanted, names : SUBSET Job, seen : SUBSET Entry]
          BY <4>1, <2>1
        <4>3. x \in Call
          BY <4>2 DEF Call
        <4>4. QED
          BY <4>1, <4>3
      <3>2. CASE doing[c].op = "retain"
        <4>1. doing[c] \in [op : {"retain"}, wanted : {NoJob}, names : SUBSET Job, seen : SUBSET Entry]
          BY <3>2, <1>2, CallParts
        <4>2. x \in [op : {"retain"}, wanted : {NoJob}, names : SUBSET Job, seen : SUBSET Entry]
          BY <4>1, <2>1
        <4>3. x \in Call
          BY <4>2 DEF Call
        <4>4. QED
          BY <3>2, <4>1, <4>3
      <3>3. QED
        BY <1>1, <3>1, <3>2
    <2>4. doing' = [doing EXCEPT ![c] = x] /\ UNCHANGED <<workspace, held>>
      BY <1>3, <1>6 DEF Proceed, new
    <2> HIDE DEF x
    <2>5. doing'[c] = x /\ \A d \in Client \ {c} : doing'[d] = doing[d]
      BY <2>3, <2>4, CallGoesOn DEF JobsInv
    <2>6. x.op \in {"admit", "retain"}
      BY <1>1, <2>3
    <2>7. ListOK(c)'
      <3>1. \A e \in x.seen : StillTrue(e)'
        BY <1>1, <1>2, <2>2, <2>3 DEF CallOK, ListOK, StillTrue, Settled, World
      <3>2. \A i \in Existing : \/ i \in x.names
                                \/ \E e \in x.seen : e.job = i
                                \/ Settled(i)
        BY <1>1, <1>2, <2>1, <2>3 DEF CallOK, ListOK
      <3>3. QED
        BY <1>1, <2>5, <3>1, <3>2 DEF ListOK, Existing, Settled, World
    <2>8. AdmitOK(c)'
      <3> SUFFICES ASSUME x.op = "admit" PROVE AdmitOK(c)'
        BY <2>5 DEF AdmitOK
      <3>1. /\ record[x.wanted.job] = NoJob /\ x.wanted.job \notin runtime
            /\ \A d \in Client : doing[d].op = "update" => doing[d].job # x.wanted.job
        BY <1>2, <2>3 DEF CallOK, AdmitOK
      <3>2. QED
        BY <1>1, <2>5, <3>1 DEF AdmitOK, World
    <2>9. CallOK(c)'
      BY <2>5, <2>6, <2>7, <2>8 DEF CallOK, UpdateOK, RemoveOK
    <2>10. QED
      BY <1>1, <1>2, <2>3, <2>4, <2>6, <2>9, GoingOn DEF UnderLock
  <1>7. QED
    BY <1>5, <1>6

\* Retention chooses among the jobs that are over and clean.
LEMMA RetainKeeps ==
  ASSUME JobsInv, NEW c \in Client, Retain(c)
  PROVE  JobsInv'
  <1>1. /\ doing[c].op = "retain" /\ UNCHANGED <<World, marker, held, workspace>>
        /\ \E some \in SUBSET Ordinary(doing[c].seen) :
             Proceed(c, [op |-> "remove", jobs |-> Removable(doing[c].seen, some), rest |-> NoJob])
    BY DEF Retain, World
  <1>2. workspace = c /\ doing[c] \in Call /\ CallOK(c)
    BY <1>1 DEF JobsInv, OneTransaction, UnderLock, JobsTypeOK, CallsOK, CallOK
  <1>3. PICK some : Proceed(c, [op |-> "remove", jobs |-> Removable(doing[c].seen, some), rest |-> NoJob])
    BY <1>1
  <1> DEFINE S == Removable(doing[c].seen, some)
             x == [op |-> "remove", jobs |-> S, rest |-> NoJob]
  <1>4. S \subseteq Ordinary(doing[c].seen)
    BY DEF Removable
  <1>5. doing[c].seen \subseteq Entry
    BY <1>1, <1>2, CallParts
  <1>6. S \subseteq Job /\ \A j \in S : Settled(j)
    BY <1>1, <1>2, <1>4, <1>5 DEF Ordinary, Entry, CallOK, ListOK, StillTrue
  <1> HIDE DEF S
  <1>7. x \in Call /\ x.op = "remove" /\ x.jobs = S
    BY <1>6 DEF Call
  <1>8. doing' = [doing EXCEPT ![c] = x]
    BY <1>3 DEF Proceed, S
  <1> HIDE DEF x
  <1>9. doing'[c] = x
    BY <1>7, <1>8, CallGoesOn DEF JobsInv
  <1>10. RemoveOK(c)'
    BY <1>1, <1>6, <1>7, <1>9 DEF RemoveOK, Settled, World
  <1>11. CallOK(c)'
    BY <1>7, <1>9, <1>10 DEF CallOK, UpdateOK, ListOK, AdmitOK
  <1>12. QED
    BY <1>1, <1>2, <1>7, <1>8, <1>11, GoingOn DEF UnderLock

\* An update is read under the lock of its job.
LEMMA BeginUpdateKeeps ==
  ASSUME JobsInv, NEW c \in Client, BeginUpdate(c)
  PROVE  JobsInv'
  <1>1. PICK j \in Job, what \in {"end", "clean", "note"} :
          /\ MayBegin(c) /\ ReadForUpdate(c, j, what)
          /\ BeginCall(c, [op |-> "update", job |-> j, next |-> Mutated(j, record[j], what)])
          /\ UNCHANGED <<record, marker, workspace, runtime, busy>>
    BY DEF BeginUpdate
  <1> DEFINE m == Mutated(j, record[j], what)
             x == [op |-> "update", job |-> j, next |-> m]
  <1>2. record[j] # NoJob /\ record[j] \in Record /\ held[j] = NoJob
        /\ held' = [held EXCEPT ![j] = c] /\ doing[c] = Idle
    BY <1>1 DEF ReadForUpdate, MayBegin, JobsInv, JobsTypeOK
  <1>3. /\ m \in Record /\ SameJob(m, record[j])
        /\ Active(m) => Active(record[j])
        /\ ~Active(m) /\ Active(record[j]) => j \notin busy /\ (j \in runtime => m.cleaned = "no")
        /\ ~Active(record[j]) => m = record[j] \/ (j \notin runtime /\ ~Active(m))
    BY <1>2, MutatedIs DEF JobsInv
  <1> HIDE DEF m
  <1>4. x \in Call /\ x.op = "update" /\ x.job = j /\ x.next = m
    BY <1>3 DEF Call
  <1>5. doing' = [doing EXCEPT ![c] = x] /\ UNCHANGED <<World, marker, workspace>>
    BY <1>1 DEF BeginCall, World, m
  <1> HIDE DEF x
  <1>6. /\ doing' \in [Client -> Call] /\ doing'[c] = x
        /\ \A d \in Client \ {c} : doing'[d] = doing[d]
    BY <1>4, <1>5, CallGoesOn DEF JobsInv
  <1>7. /\ held' \in [Job -> Client \cup {NoJob}] /\ held'[j] = c
        /\ \A i \in Job, d \in Client : held[i] = d => held'[i] = d
    BY <1>2, JobAssumption DEF JobsInv, JobsTypeOK
  <1>8. JobsTypeOK'
    BY <1>5, <1>6, <1>7 DEF JobsInv, JobsTypeOK, World
  <1>9. OneTransaction' /\ StartsUncancelled'
    BY <1>4, <1>5, <1>6 DEF JobsInv, OneTransaction, StartsUncancelled, UnderLock
  <1>10. RecordsFence'
    BY <1>5, FenceFrame DEF JobsInv
  <1>11. \A d \in Client \ {c} : CallOK(d)'
    BY <1>2, <1>4, <1>5, <1>6, <1>7, OthersFrame
  <1>12. UpdateOK(c)'
    <2>1. ~Active(m) /\ j \in runtime => m.cleaned = "no"
      BY <1>2, <1>3 DEF JobsInv, RecordsFence
    <2>2. UNCHANGED <<record, runtime, busy>>
      BY <1>5 DEF World
    <2>3. QED
      BY <1>2, <1>3, <1>4, <1>6, <1>7, <2>1, <2>2 DEF UpdateOK
  <1>13. CallOK(c)'
    BY <1>4, <1>6, <1>12 DEF CallOK, ListOK, AdmitOK, RemoveOK
  <1>14. QED
    BY <1>8, <1>9, <1>10, <1>11, <1>13 DEF JobsInv, CallsOK, CallOK

-----------------------------------------------------------------------------
(* Calls that write records.                                               *)

\* The ends of calls that write: what does not depend on the record written.
LEMMA WriteEnds ==
  ASSUME JobsInv, NEW c \in Client, EndCall(c),
         record' \in [Job -> Record \cup {NoJob}], UNCHANGED <<marker, runtime, busy>>
  PROVE  /\ JobsTypeOK' /\ OneTransaction' /\ StartsUncancelled'
         /\ doing'[c] = Idle /\ doing'[c].op = "idle"
         /\ \A d \in Client \ {c} : doing'[d] = doing[d]
         /\ \A i \in Job : held'[i] = IF held[i] = c THEN NoJob ELSE held[i]
  <1>1. /\ doing' \in [Client -> Call] /\ doing'[c] = Idle
        /\ \A d \in Client \ {c} : doing'[d] = doing[d]
        /\ held' \in [Job -> Client \cup {NoJob}]
        /\ \A i \in Job : held'[i] = IF held[i] = c THEN NoJob ELSE held[i]
        /\ workspace' \in Client \cup {NoJob}
        /\ workspace # c => workspace' = workspace
    BY EndOfCall DEF JobsInv
  <1>2. doing'[c].op = "idle"
    BY <1>1 DEF Idle
  <1>3. JobsTypeOK'
    BY <1>1 DEF JobsInv, JobsTypeOK
  <1>4. OneTransaction'
    BY <1>1, <1>2, TransactionKept DEF JobsInv, UnderLock
  <1>5. StartsUncancelled'
    BY <1>1, <1>2 DEF JobsInv, StartsUncancelled
  <1>6. QED
    BY <1>1, <1>2, <1>3, <1>4, <1>5

\* A job is admitted past every one that fences its lineage.
LEMMA AdmitKeeps ==
  ASSUME JobsInv, NEW c \in Client, Admit(c)
  PROVE  JobsInv'
  <1> DEFINE w == doing[c].wanted
             looked == doing[c].seen
             j == w.job
             r == [writer |-> w.writer, lineage |-> w.lineage, parent |-> w.parent,
                   status |-> "active", cleaned |-> "unset"]
  <1>1. /\ doing[c].op = "admit" /\ doing[c].names = {} /\ EndCall(c)
        /\ UNCHANGED <<marker, runtime, busy>>
        /\ IF \E e \in looked : Conflicts(w, e.record) THEN UNCHANGED record
           ELSE record' = [record EXCEPT ![j] = r]
    BY DEF Admit
  <1>2. workspace = c /\ doing[c] \in Call /\ CallOK(c)
    BY <1>1 DEF JobsInv, OneTransaction, UnderLock, JobsTypeOK, CallsOK, CallOK
  <1>3. w \in Wanted /\ looked \subseteq Entry
    BY <1>1, <1>2, CallParts
  <1>4. CASE \E e \in looked : Conflicts(w, e.record)
    BY <1>1, <1>4, EndKeeps DEF World
  <1>5. CASE ~\E e \in looked : Conflicts(w, e.record)
    <2>1. j \in Job /\ r \in Record
      BY <1>3 DEF Wanted, Record
    <2>2. /\ r.writer = w.writer /\ r.lineage = w.lineage /\ Active(r) /\ r # NoJob
      BY <2>1, JobAssumption DEF Active
    <2>3. record' = [record EXCEPT ![j] = r]
      BY <1>1, <1>5
    <2> HIDE DEF r
    <2>4. /\ record[j] = NoJob /\ j \notin runtime
          /\ \A d \in Client : doing[d].op = "update" => doing[d].job # j
      BY <1>1, <1>2 DEF CallOK, AdmitOK
    <2>5. ASSUME NEW i \in Existing, ~Settled(i)
          PROVE  ~SameLineage(r, record[i])
                 /\ (Active(record[i]) => ~Exclusive(r) /\ ~Exclusive(record[i]))
      <3>1. PICK e \in looked : e.job = i
        BY <1>1, <1>2, <2>5 DEF CallOK, ListOK
      <3>2. StillTrue(e) /\ ~Conflicts(w, e.record)
        BY <1>1, <1>2, <1>5, <3>1 DEF CallOK, ListOK
      <3>3. /\ SameJob(e.record, record[i])
            /\ ~Active(e.record) => ~Active(record[i]) /\ e.record.cleaned = "no"
        BY <2>5, <3>1, <3>2 DEF StillTrue
      <3>4. CASE Active(e.record)
        <4>1. ~SameLineage(w, e.record) /\ ~Exclusive(w) /\ ~Exclusive(e.record)
          BY <3>2, <3>4 DEF Conflicts
        <4>2. QED
          BY <2>2, <3>3, <4>1 DEF SameLineage, HasLineage, Exclusive, SameJob
      <3>5. CASE ~Active(e.record)
        <4>1. ~SameLineage(w, e.record)
          BY <3>2, <3>3, <3>5 DEF Conflicts
        <4>2. QED
          BY <2>2, <3>3, <3>5, <4>1 DEF SameLineage, HasLineage, SameJob
      <3>6. QED
        BY <3>4, <3>5
    <2>6. /\ JobsTypeOK' /\ OneTransaction' /\ StartsUncancelled'
          /\ doing'[c] = Idle /\ doing'[c].op = "idle" /\ CallOK(c)'
          /\ \A d \in Client \ {c} : doing'[d] = doing[d]
          /\ \A i \in Job : held'[i] = IF held[i] = c THEN NoJob ELSE held[i]
          /\ \A i \in Job : record'[i] = IF i = j THEN r ELSE record[i]
      <3> HIDE DEF j
      <3>1. /\ record' \in [Job -> Record \cup {NoJob}]
            /\ \A i \in Job : record'[i] = IF i = j THEN r ELSE record[i]
        BY <2>1, <2>3 DEF JobsInv, JobsTypeOK
      <3>2. EndCall(c) /\ UNCHANGED <<marker, runtime, busy>>
        BY <1>1
      <3>3. /\ JobsTypeOK' /\ OneTransaction' /\ StartsUncancelled'
            /\ doing'[c] = Idle /\ doing'[c].op = "idle"
            /\ \A d \in Client \ {c} : doing'[d] = doing[d]
            /\ \A i \in Job : held'[i] = IF held[i] = c THEN NoJob ELSE held[i]
        BY <3>1, <3>2, WriteEnds
      <3>4. CallOK(c)'
        BY <3>3 DEF CallOK, UpdateOK, ListOK, AdmitOK, RemoveOK
      <3>5. QED
        BY <3>1, <3>3, <3>4
    <2> HIDE DEF j
    <2>7. RecordsFence'
      <3>1. RecordsFence
        BY DEF JobsInv
      <3>2. \A i \in Job \ {j} : Fencing(i)' => Fencing(i) /\ ~Settled(i) /\ i \in Existing
        BY <1>1, <2>6 DEF Fencing, Settled, Existing
      <3>3. runtime' \subseteq Existing' /\ (\A i \in runtime' : ~Active(record'[i]) => record'[i].cleaned = "no")
            /\ \A i \in busy' : record'[i] # NoJob /\ Active(record'[i])
        BY <1>1, <2>2, <2>4, <2>6, <3>1 DEF RecordsFence, Existing, JobsInv, JobsTypeOK
      <3>4. ASSUME NEW i \in Job, NEW k \in Job, i # k, Fencing(i)', Fencing(k)'
            PROVE  ~SameLineage(record'[i], record'[k])
        <4>1. CASE i # j /\ k # j
          BY <2>6, <3>1, <3>2, <3>4, <4>1 DEF RecordsFence
        <4>2. CASE i = j
          BY <2>5, <2>6, <3>2, <3>4, <4>2
        <4>3. CASE k = j
          <5>1. ~SameLineage(r, record[i])
            BY <2>5, <3>2, <3>4, <4>3
          <5>2. QED
            BY <2>6, <3>4, <4>3, <5>1 DEF SameLineage
        <4>4. QED
          BY <4>1, <4>2, <4>3
      <3>5. ASSUME NEW i \in Existing', NEW k \in Existing', i # k, Active(record'[i]), Active(record'[k])
            PROVE  ~Exclusive(record'[i])
        <4>1. i \in Job /\ k \in Job /\ Fencing(i)' /\ Fencing(k)'
          BY <3>5 DEF Existing, Fencing
        <4>2. CASE i # j /\ k # j
          BY <2>6, <3>1, <3>2, <3>5, <4>1, <4>2 DEF RecordsFence
        <4>3. CASE i = j
          BY <2>5, <2>6, <3>2, <3>5, <4>1, <4>3
        <4>4. CASE k = j
          BY <2>5, <2>6, <3>2, <3>5, <4>1, <4>4
        <4>5. QED
          BY <4>2, <4>3, <4>4
      <3>6. QED
        BY <3>3, <3>4, <3>5 DEF RecordsFence
    <2>8. ASSUME NEW d \in Client \ {c} PROVE CallOK(d)'
      <3>1. doing[d].op \notin UnderLock /\ doing'[d] = doing[d] /\ doing[d] \in Call /\ CallOK(d)
        BY <1>2, <2>6 DEF JobsInv, OneTransaction, JobsTypeOK, CallsOK, CallOK
      <3>2. doing[d].op = "update" => doing[d].job \in Job \ {j}
        BY <2>4, <3>1, CallParts
      <3>3. UpdateOK(d)'
        BY <1>1, <2>6, <3>1, <3>2 DEF CallOK, UpdateOK
      <3>4. QED
        BY <3>1, <3>3 DEF CallOK, ListOK, AdmitOK, RemoveOK, UnderLock
    <2>9. QED
      BY <2>6, <2>7, <2>8 DEF JobsInv, CallsOK, CallOK
  <1>6. QED
    BY <1>4, <1>5

\* A record that is unlinked fences nobody, nor does the update that may bring it back.
LEMMA UnlinkKeeps ==
  ASSUME JobsInv, NEW c \in Client, Unlink(c)
  PROVE  JobsInv'
  <1>1. doing[c].op = "remove" /\ UNCHANGED <<runtime, busy>>
    BY DEF Unlink
  <1>2. workspace = c /\ doing[c] \in Call /\ CallOK(c)
        /\ doing[c] \in [op : {"remove"}, jobs : SUBSET Job, rest : Job \cup {NoJob}]
    BY <1>1, CallParts DEF JobsInv, OneTransaction, UnderLock, JobsTypeOK, CallsOK, CallOK
  <1>3. CASE doing[c].rest # NoJob
    <2> DEFINE x == [doing[c] EXCEPT !.rest = NoJob]
    <2>1. /\ marker' = marker \ {doing[c].rest} /\ doing' = [doing EXCEPT ![c] = x]
          /\ UNCHANGED <<record, workspace, held>>
      BY <1>3 DEF Unlink, Proceed
    <2>2. x \in Call /\ x.op = "remove" /\ x.jobs = doing[c].jobs
      BY <1>2 DEF Call
    <2> HIDE DEF x
    <2>3. /\ doing' \in [Client -> Call] /\ doing'[c] = x
          /\ \A d \in Client \ {c} : doing'[d] = doing[d]
      BY <2>1, <2>2, CallGoesOn DEF JobsInv
    <2>4. UNCHANGED World
      BY <1>1, <2>1 DEF World
    <2>5. JobsTypeOK'
      BY <1>1, <2>1, <2>3 DEF JobsInv, JobsTypeOK
    <2>6. OneTransaction' /\ StartsUncancelled'
      BY <1>2, <2>1, <2>2, <2>3 DEF JobsInv, OneTransaction, StartsUncancelled
    <2>7. RecordsFence'
      BY <2>4, FenceFrame DEF JobsInv
    <2>8. \A d \in Client \ {c} : CallOK(d)'
      BY <2>1, <2>2, <2>3, <2>4, OthersFrame
    <2>9. RemoveOK(c)'
      BY <1>1, <1>2, <2>1, <2>2, <2>3 DEF CallOK, RemoveOK, Settled
    <2>10. CallOK(c)'
      BY <2>2, <2>3, <2>9 DEF CallOK, UpdateOK, ListOK, AdmitOK
    <2>11. QED
      BY <2>5, <2>6, <2>7, <2>8, <2>10 DEF JobsInv, CallsOK, CallOK
  <1>4. CASE doing[c].rest = NoJob /\ doing[c].jobs = {}
    BY <1>1, <1>4, EndKeeps DEF Unlink, World
  <1>5. CASE doing[c].rest = NoJob /\ doing[c].jobs # {}
    <2>1. PICK j \in doing[c].jobs :
            /\ record' = [record EXCEPT ![j] = NoJob]
            /\ Proceed(c, [doing[c] EXCEPT !.jobs = @ \ {j}, !.rest = j])
            /\ UNCHANGED <<marker, workspace, held>>
      BY <1>5 DEF Unlink
    <2> DEFINE x == [doing[c] EXCEPT !.jobs = @ \ {j}, !.rest = j]
    <2>2. j \in Job /\ Settled(j)
      BY <1>1, <1>2, <2>1 DEF CallOK, RemoveOK
    <2>3. x \in Call /\ x.op = "remove" /\ x.jobs = doing[c].jobs \ {j}
      BY <1>2, <2>2 DEF Call
    <2>4. doing' = [doing EXCEPT ![c] = x]
      BY <2>1 DEF Proceed
    <2> HIDE DEF x
    <2>5. /\ doing' \in [Client -> Call] /\ doing'[c] = x
          /\ \A d \in Client \ {c} : doing'[d] = doing[d]
      BY <2>3, <2>4, CallGoesOn DEF JobsInv
    <2>6. /\ record' \in [Job -> Record \cup {NoJob}]
          /\ \A i \in Job : record'[i] = IF i = j THEN NoJob ELSE record[i]
      BY <2>1 DEF JobsInv, JobsTypeOK
    <2>7. JobsTypeOK'
      BY <1>1, <2>1, <2>5, <2>6 DEF JobsInv, JobsTypeOK
    <2>8. OneTransaction' /\ StartsUncancelled'
      BY <1>2, <2>1, <2>3, <2>5 DEF JobsInv, OneTransaction, StartsUncancelled
    <2>9. RecordsFence'
      <3>1. j \notin runtime /\ j \notin busy
        BY <2>2 DEF Settled, JobsInv, RecordsFence
      <3>2. \A i \in Job : Fencing(i)' => Fencing(i) /\ record'[i] = record[i]
        BY <1>1, <2>6 DEF Fencing
      <3>3. \A i \in Existing' : i \in Existing /\ record'[i] = record[i]
        BY <2>6 DEF Existing
      <3>4. runtime' \subseteq Existing'
        BY <1>1, <2>6, <3>1 DEF RecordsFence, JobsInv, Existing, JobsTypeOK
      <3>5. \A i \in runtime' \cup busy' : record'[i] = record[i]
        BY <1>1, <2>6, <3>1 DEF JobsInv, JobsTypeOK
      <3>6. QED
        BY <1>1, <3>2, <3>3, <3>4, <3>5 DEF RecordsFence, JobsInv
    <2>10. ASSUME NEW d \in Client \ {c} PROVE CallOK(d)'
      <3>1. doing[d].op \notin UnderLock /\ doing'[d] = doing[d] /\ doing[d] \in Call /\ CallOK(d)
        BY <1>2, <2>5 DEF JobsInv, OneTransaction, JobsTypeOK, CallsOK, CallOK
      <3>2. doing[d].op = "update" => doing[d].job \in Job
        BY <3>1, CallParts
      <3>3. UpdateOK(d)'
        BY <1>1, <2>1, <2>2, <2>6, <3>1, <3>2 DEF CallOK, UpdateOK, Settled
      <3>4. QED
        BY <3>1, <3>3 DEF CallOK, ListOK, AdmitOK, RemoveOK, UnderLock
    <2>11. RemoveOK(c)'
      <3>1. \A i \in x.jobs : i \in Job /\ Settled(i)
        BY <1>1, <1>2, <2>3 DEF CallOK, RemoveOK
      <3>2. QED
        BY <1>1, <2>5, <2>6, <3>1 DEF RemoveOK, Settled
    <2>12. CallOK(c)'
      BY <2>3, <2>5, <2>11 DEF CallOK, UpdateOK, ListOK, AdmitOK
    <2>13. QED
      BY <2>7, <2>8, <2>9, <2>10, <2>12 DEF JobsInv, CallsOK, CallOK
  <1>6. QED
    BY <1>3, <1>4, <1>5

\* An update is written while nobody else writes its job; it ends a job and never revives one.
LEMMA FinishUpdateKeeps ==
  ASSUME JobsInv, NEW c \in Client, FinishUpdate(c)
  PROVE  JobsInv'
  <1>1. /\ doing[c].op = "update" /\ EndCall(c) /\ UNCHANGED <<marker, runtime, busy>>
        /\ record' = [record EXCEPT ![doing[c].job] = doing[c].next]
    BY DEF FinishUpdate
  <1>2. doing[c] \in Call /\ UpdateOK(c) /\ RecordsFence
    BY DEF JobsInv, JobsTypeOK, CallsOK
  <1>3. doing[c].job \in Job /\ doing[c].next \in Record
    BY <1>1, <1>2, CallParts
  <1>4. PICK j \in Job : j = doing[c].job
    BY <1>3
  <1>5. PICK r \in Record : r = doing[c].next
    BY <1>3
  <1>6. /\ held[j] = c
        /\ record[j] # NoJob =>
             /\ SameJob(r, record[j])
             /\ Active(r) => Active(record[j])
             /\ ~Active(r) /\ Active(record[j]) => j \notin busy
        /\ record[j] = NoJob => ~Active(r)
        /\ ~Active(r) /\ j \in runtime => r.cleaned = "no"
    BY <1>1, <1>2, <1>4, <1>5 DEF UpdateOK
  <1>7. record[j] = NoJob => j \notin runtime /\ j \notin busy
    BY <1>2 DEF RecordsFence, Existing
  <1>8. r # NoJob
    BY JobAssumption
  <1>9. /\ record' \in [Job -> Record \cup {NoJob}]
        /\ \A i \in Job : record'[i] = IF i = j THEN r ELSE record[i]
    BY <1>1, <1>4, <1>5 DEF JobsInv, JobsTypeOK
  <1>10. /\ JobsTypeOK' /\ OneTransaction' /\ StartsUncancelled'
         /\ doing'[c] = Idle /\ doing'[c].op = "idle"
         /\ \A d \in Client \ {c} : doing'[d] = doing[d]
         /\ \A i \in Job : held'[i] = IF held[i] = c THEN NoJob ELSE held[i]
    BY <1>1, <1>9, WriteEnds
  <1>11. \A i \in Job : Settled(i) => Settled(i)'
    BY <1>1, <1>6, <1>9 DEF Settled
  <1>12. RecordsFence'
    <2>1. \A i \in Job : Fencing(i)' => Fencing(i) /\ SameJob(record'[i], record[i])
      BY <1>1, <1>6, <1>7, <1>9 DEF Fencing, SameJob
    <2>2. runtime' \subseteq Existing'
      BY <1>1, <1>2, <1>8, <1>9 DEF RecordsFence, Existing
    <2>3. \A i \in runtime' : ~Active(record'[i]) => record'[i].cleaned = "no"
      BY <1>1, <1>2, <1>6, <1>9 DEF RecordsFence, JobsInv, JobsTypeOK
    <2>4. \A i \in busy' : record'[i] # NoJob /\ Active(record'[i])
      BY <1>1, <1>2, <1>6, <1>8, <1>9 DEF RecordsFence, JobsInv, JobsTypeOK
    <2>5. ASSUME NEW i \in Job, NEW k \in Job, i # k, Fencing(i)', Fencing(k)'
          PROVE  ~SameLineage(record'[i], record'[k])
      <3>1. ~SameLineage(record[i], record[k])
        BY <1>2, <2>1, <2>5 DEF RecordsFence
      <3>2. SameJob(record'[i], record[i]) /\ SameJob(record'[k], record[k])
        BY <2>1, <2>5
      <3>3. QED
        BY <3>1, <3>2 DEF SameLineage, HasLineage, SameJob
    <2>6. ASSUME NEW i \in Existing', NEW k \in Existing', i # k, Active(record'[i]), Active(record'[k])
          PROVE  ~Exclusive(record'[i])
      <3>1. i \in Job /\ k \in Job /\ Fencing(i)' /\ Fencing(k)'
        BY <2>6 DEF Existing, Fencing
      <3>2. \A n \in {i, k} : n \in Existing /\ Active(record[n]) /\ SameJob(record'[n], record[n])
        <4>1. \A n \in {i, k} : record[n] # NoJob /\ SameJob(record'[n], record[n])
          BY <2>1, <3>1 DEF Fencing
        <4>2. \A n \in {i, k} : Active(record[n])
          BY <1>6, <1>9, <2>6, <3>1, <4>1
        <4>3. QED
          BY <3>1, <4>1, <4>2 DEF Existing
      <3>3. ~Exclusive(record[i])
        BY <1>2, <2>6, <3>2 DEF RecordsFence
      <3>4. QED
        BY <3>2, <3>3 DEF Exclusive, SameJob
    <2>7. QED
      BY <2>2, <2>3, <2>4, <2>5, <2>6 DEF RecordsFence
  <1>13. ASSUME NEW d \in Client \ {c} PROVE CallOK(d)'
    <2>1. doing'[d] = doing[d] /\ doing[d] \in Call /\ CallOK(d)
      BY <1>10 DEF JobsInv, JobsTypeOK, CallsOK, CallOK
    <2>2. UpdateOK(d)'
      <3>1. doing[d].op = "update" => doing[d].job \in Job /\ doing[d].job # j
        BY <1>6, <2>1, CallParts DEF CallOK, UpdateOK
      <3>2. QED
        BY <1>1, <1>9, <1>10, <2>1, <3>1 DEF CallOK, UpdateOK
    <2>3. ListOK(d)'
      <3>1. SUFFICES ASSUME doing[d].op \in {"admit", "retain"} PROVE ListOK(d)'
        BY <2>1 DEF ListOK
      <3>2. doing[d].seen \subseteq Entry
        BY <2>1, <3>1, CallParts
      <3>3. ASSUME NEW e \in doing[d].seen PROVE StillTrue(e)'
        <4>1. e.job \in Job /\ StillTrue(e)
          BY <2>1, <3>1, <3>2 DEF Entry, CallOK, ListOK
        <4>2. CASE e.job = j
          BY <1>6, <1>8, <1>9, <1>11, <4>1, <4>2 DEF StillTrue, SameJob
        <4>3. CASE e.job # j
          BY <1>9, <1>11, <4>1, <4>3 DEF StillTrue
        <4>4. QED
          BY <4>2, <4>3
      <3>4. ASSUME NEW k \in Existing'
            PROVE  \/ k \in doing[d].names
                   \/ \E e \in doing[d].seen : e.job = k
                   \/ Settled(k)'
        <4>1. k \in Job
          BY DEF Existing
        <4>2. CASE k \in Existing
          BY <1>11, <2>1, <3>1, <4>1, <4>2 DEF CallOK, ListOK
        <4>3. CASE k \notin Existing
          <5>1. k = j /\ record[j] = NoJob
            BY <1>9, <3>4, <4>1, <4>3 DEF Existing
          <5>2. QED
            BY <1>1, <1>6, <1>7, <1>9, <5>1 DEF Settled
        <4>4. QED
          BY <4>2, <4>3
      <3>5. QED
        BY <2>1, <3>3, <3>4 DEF ListOK
    <2>4. AdmitOK(d)'
      <3>1. \A b \in Client : doing'[b].op = "update" => doing'[b] = doing[b]
        BY <1>10
      <3>2. doing[d].op = "admit" => doing[d].wanted.job \in Job
        BY <2>1, CallParts DEF Wanted
      <3>3. doing[d].op = "admit" => doing[d].wanted.job # j
        BY <1>1, <1>4, <2>1 DEF CallOK, AdmitOK
      <3>4. QED
        BY <1>1, <1>9, <2>1, <3>1, <3>2, <3>3 DEF CallOK, AdmitOK
    <2>5. RemoveOK(d)'
      BY <1>11, <2>1, CallParts DEF CallOK, RemoveOK
    <2>6. QED
      BY <2>2, <2>3, <2>4, <2>5 DEF CallOK
  <1>14. CallOK(c)'
    BY <1>10 DEF CallOK, UpdateOK, ListOK, AdmitOK, RemoveOK
  <1>15. QED
    BY <1>10, <1>12, <1>13, <1>14 DEF JobsInv, CallsOK, CallOK

\* A turn starts where no update is pending, in a job that is active and not cancelled.
LEMMA StartTurnKeeps ==
  ASSUME JobsInv, NEW c \in Client, StartTurn(c)
  PROVE  JobsInv'
  <1>1. /\ doing[c].op = "start" /\ held[doing[c].job] = NoJob /\ EndCall(c)
        /\ UNCHANGED <<record, marker, runtime>>
    BY DEF StartTurn
  <1>2. doing[c].job \in Job
    BY <1>1, CallParts DEF JobsInv, JobsTypeOK
  <1>3. PICK j \in Job : j = doing[c].job
    BY <1>2
  <1>4. busy' = busy \/ (busy' = busy \cup {j} /\ record[j] # NoJob /\ Active(record[j]))
    BY <1>3 DEF StartTurn
  <1>5. /\ doing' \in [Client -> Call] /\ doing'[c] = Idle
        /\ \A d \in Client \ {c} : doing'[d] = doing[d]
        /\ held' \in [Job -> Client \cup {NoJob}]
        /\ \A i \in Job : held'[i] = IF held[i] = c THEN NoJob ELSE held[i]
        /\ workspace' \in Client \cup {NoJob}
        /\ workspace # c => workspace' = workspace
    BY <1>1, EndOfCall DEF JobsInv
  <1>6. doing'[c].op = "idle"
    BY <1>5 DEF Idle
  <1>7. JobsTypeOK'
    BY <1>1, <1>4, <1>5 DEF JobsInv, JobsTypeOK
  <1>8. OneTransaction'
    BY <1>1, <1>5, <1>6, TransactionKept DEF JobsInv, UnderLock
  <1>9. StartsUncancelled'
    BY <1>1, <1>5, <1>6 DEF JobsInv, StartsUncancelled
  <1>10. RecordsFence'
    BY <1>1, <1>4 DEF JobsInv, RecordsFence, Existing, Fencing
  <1>11. ASSUME NEW d \in Client \ {c} PROVE CallOK(d)'
    <2>1. doing'[d] = doing[d] /\ doing[d] \in Call /\ CallOK(d)
      BY <1>5 DEF JobsInv, JobsTypeOK, CallsOK, CallOK
    <2>2. UpdateOK(d)'
      <3>1. doing[d].op = "update" => doing[d].job \in Job /\ doing[d].job # j /\ held[doing[d].job] = d
        BY <1>1, <1>3, <2>1, CallParts, JobAssumption DEF CallOK, UpdateOK
      <3>2. QED
        BY <1>1, <1>4, <1>5, <2>1, <3>1 DEF CallOK, UpdateOK
    <2>3. ListOK(d)'
      BY <1>1, <2>1 DEF CallOK, ListOK, StillTrue, Settled, Existing
    <2>4. AdmitOK(d)'
      <3>1. \A b \in Client : doing'[b].op = "update" => doing'[b] = doing[b]
        BY <1>5, <1>6
      <3>2. QED
        BY <1>1, <2>1, <3>1 DEF CallOK, AdmitOK
    <2>5. RemoveOK(d)'
      BY <1>1, <2>1 DEF CallOK, RemoveOK, Settled
    <2>6. QED
      BY <2>2, <2>3, <2>4, <2>5 DEF CallOK
  <1>12. CallOK(c)'
    BY <1>6 DEF CallOK, UpdateOK, ListOK, AdmitOK, RemoveOK
  <1>13. QED
    BY <1>7, <1>8, <1>9, <1>10, <1>11, <1>12 DEF JobsInv, CallsOK, CallOK

-----------------------------------------------------------------------------
(* The work of the jobs.                                                   *)

\* A runtime is prepared for an active job that nobody is ending.
LEMMA PrepareRuntimeKeeps ==
  ASSUME JobsInv, NEW j \in Job, PrepareRuntime(j)
  PROVE  JobsInv'
  <1>1. /\ record[j] # NoJob /\ Active(record[j]) /\ ~Ending(j)
        /\ runtime' = runtime \cup {j}
        /\ UNCHANGED <<record, marker, workspace, held, doing, busy>>
    BY DEF PrepareRuntime
  <1>2. JobsTypeOK' /\ OneTransaction' /\ StartsUncancelled'
    BY <1>1 DEF JobsInv, JobsTypeOK, OneTransaction, StartsUncancelled
  <1>3. RecordsFence'
    <2>1. \A i \in Job : Fencing(i)' => Fencing(i)
      BY <1>1 DEF Fencing
    <2>2. QED
      BY <1>1, <2>1 DEF JobsInv, RecordsFence, Existing
  <1>4. \A i \in Job : Settled(i) => Settled(i)'
    BY <1>1 DEF Settled
  <1>5. ASSUME NEW d \in Client PROVE CallOK(d)'
    <2>1. doing'[d] = doing[d] /\ doing[d] \in Call /\ CallOK(d)
      BY <1>1 DEF JobsInv, JobsTypeOK, CallsOK, CallOK
    <2>2. UpdateOK(d)'
      <3>1. doing[d].op = "update" /\ ~Active(doing[d].next) => doing[d].job # j
        BY <1>1 DEF Ending
      <3>2. QED
        BY <1>1, <2>1, <3>1 DEF CallOK, UpdateOK
    <2>3. ListOK(d)'
      <3>1. \A e : e.job \in Job /\ StillTrue(e) => StillTrue(e)'
        BY <1>1, <1>4 DEF StillTrue
      <3>2. doing[d].op \in {"admit", "retain"} => doing[d].seen \subseteq Entry
        BY <2>1, CallParts
      <3>3. QED
        BY <1>1, <1>4, <2>1, <3>1, <3>2 DEF CallOK, ListOK, Entry, Existing
    <2>4. AdmitOK(d)'
      BY <1>1, <2>1 DEF CallOK, AdmitOK
    <2>5. RemoveOK(d)'
      BY <1>1, <1>4, <2>1, CallParts DEF CallOK, RemoveOK
    <2>6. QED
      BY <2>2, <2>3, <2>4, <2>5 DEF CallOK
  <1>6. QED
    BY <1>2, <1>3, <1>5 DEF JobsInv, CallsOK, CallOK

\* A turn ends.
LEMMA TurnEndsKeeps ==
  ASSUME JobsInv, NEW j \in Job, TurnEnds(j)
  PROVE  JobsInv'
  <1>1. busy' = busy \ {j} /\ UNCHANGED <<record, marker, workspace, held, doing, runtime>>
    BY DEF TurnEnds
  <1>2. JobsTypeOK' /\ OneTransaction' /\ StartsUncancelled'
    BY <1>1 DEF JobsInv, JobsTypeOK, OneTransaction, StartsUncancelled
  <1>3. RecordsFence'
    BY <1>1 DEF JobsInv, RecordsFence, Existing, Fencing
  <1>4. ASSUME NEW d \in Client PROVE CallOK(d)'
    <2>1. CallOK(d)
      BY DEF JobsInv, CallsOK, CallOK
    <2>2. UpdateOK(d)'
      BY <1>1, <2>1 DEF CallOK, UpdateOK
    <2>3. ListOK(d)' /\ AdmitOK(d)' /\ RemoveOK(d)'
      BY <1>1, <2>1 DEF CallOK, ListOK, AdmitOK, RemoveOK, StillTrue, Settled, Existing
    <2>4. QED
      BY <2>2, <2>3 DEF CallOK
  <1>5. QED
    BY <1>2, <1>3, <1>4 DEF JobsInv, CallsOK, CallOK

\* The runtime of an ended job is taken away.
LEMMA CleanRuntimeKeeps ==
  ASSUME JobsInv, NEW j \in Job, CleanRuntime(j)
  PROVE  JobsInv'
  <1>1. /\ record[j] # NoJob /\ ~Active(record[j])
        /\ runtime' = runtime \ {j}
        /\ UNCHANGED <<record, marker, workspace, held, doing, busy>>
    BY DEF CleanRuntime
  <1>2. JobsTypeOK' /\ OneTransaction' /\ StartsUncancelled'
    BY <1>1 DEF JobsInv, JobsTypeOK, OneTransaction, StartsUncancelled
  <1>3. RecordsFence'
    <2>1. \A i \in Job : Fencing(i)' => Fencing(i)
      BY <1>1 DEF Fencing
    <2>2. QED
      BY <1>1, <2>1 DEF JobsInv, RecordsFence, Existing
  <1>4. \A i \in Job : Settled(i) => Settled(i)'
    BY <1>1 DEF Settled
  <1>5. ASSUME NEW d \in Client PROVE CallOK(d)'
    <2>1. doing'[d] = doing[d] /\ doing[d] \in Call /\ CallOK(d)
      BY <1>1 DEF JobsInv, JobsTypeOK, CallsOK, CallOK
    <2>2. UpdateOK(d)'
      BY <1>1, <2>1 DEF CallOK, UpdateOK
    <2>3. ListOK(d)'
      <3>1. \A e : e.job \in Job /\ StillTrue(e) => StillTrue(e)'
        BY <1>1, <1>4 DEF StillTrue
      <3>2. doing[d].op \in {"admit", "retain"} => doing[d].seen \subseteq Entry
        BY <2>1, CallParts
      <3>3. QED
        BY <1>1, <1>4, <2>1, <3>1, <3>2 DEF CallOK, ListOK, Entry, Existing
    <2>4. AdmitOK(d)'
      BY <1>1, <2>1 DEF CallOK, AdmitOK
    <2>5. RemoveOK(d)'
      BY <1>1, <1>4, <2>1, CallParts DEF CallOK, RemoveOK
    <2>6. QED
      BY <2>2, <2>3, <2>4, <2>5 DEF CallOK
  <1>6. QED
    BY <1>2, <1>3, <1>5 DEF JobsInv, CallsOK, CallOK

\* A process that dies has done nothing more, and its locks go.
LEMMA CallDiesKeeps ==
  ASSUME JobsInv, NEW c \in Client, CallDies(c)
  PROVE  JobsInv'
  BY EndKeeps DEF CallDies, World

-----------------------------------------------------------------------------
(* The invariant, and what it says.                                        *)

LEMMA JobsInvInit == JobsInit => JobsInv
  <1> SUFFICES ASSUME JobsInit PROVE JobsInv
    OBVIOUS
  <1>1. JobsTypeOK
    BY JobsTypeInit
  <1>2. PICK old \in {{}, {CHOOSE j \in Job : TRUE}} :
          record = [j \in Job |-> IF j \in old THEN Earlier ELSE NoJob]
    BY DEF JobsInit
  <1>3. \A j \in Job : record[j] # NoJob => ~Active(record[j])
    BY <1>2 DEF Earlier, Active
  <1>4. runtime = {} /\ busy = {} /\ \A c \in Client : doing[c] = Idle
    BY DEF JobsInit
  <1>5. \A c \in Client : doing[c].op = "idle"
    BY <1>4 DEF Idle
  <1>6. RecordsFence
    BY <1>3, <1>4 DEF RecordsFence, Existing, Fencing
  <1>7. OneTransaction /\ StartsUncancelled
    BY <1>5 DEF OneTransaction, StartsUncancelled, UnderLock
  <1>8. CallsOK
    BY <1>5 DEF CallsOK, UpdateOK, ListOK, AdmitOK, RemoveOK
  <1>9. QED
    BY <1>1, <1>6, <1>7, <1>8 DEF JobsInv

LEMMA JobsInvStep == JobsInv /\ [JobsNext]_jobVars => JobsInv'
  <1> SUFFICES ASSUME JobsInv, [JobsNext]_jobVars PROVE JobsInv'
    OBVIOUS
  <1>1. CASE UNCHANGED jobVars
    <2>1. UNCHANGED <<record, marker, workspace, held, doing, runtime, busy>>
      BY <1>1 DEF jobVars
    <2>2. JobsTypeOK' /\ OneTransaction' /\ StartsUncancelled'
      BY <2>1 DEF JobsInv, JobsTypeOK, OneTransaction, StartsUncancelled
    <2>3. RecordsFence'
      BY <2>1 DEF JobsInv, RecordsFence, Existing, Fencing
    <2>4. ASSUME NEW d \in Client PROVE CallOK(d)'
      <3>1. CallOK(d)
        BY DEF JobsInv, CallsOK, CallOK
      <3>2. UpdateOK(d)'
        BY <2>1, <3>1 DEF CallOK, UpdateOK
      <3>3. ListOK(d)' /\ AdmitOK(d)' /\ RemoveOK(d)'
        BY <2>1, <3>1 DEF CallOK, ListOK, AdmitOK, RemoveOK, StillTrue, Settled, Existing
      <3>4. QED
        BY <3>2, <3>3 DEF CallOK
    <2>5. QED
      BY <2>2, <2>3, <2>4 DEF JobsInv, CallsOK, CallOK
  <1>2. ASSUME NEW c \in Client,
               \/ BeginAdmit(c) \/ BeginRetain(c) \/ ReadListed(c) \/ Admit(c) \/ Retain(c)
               \/ Unlink(c) \/ BeginUpdate(c) \/ FinishUpdate(c) \/ BeginCancel(c)
               \/ FinishCancel(c) \/ BeginTurn(c) \/ CheckMarker(c) \/ StartTurn(c) \/ CallDies(c)
        PROVE  JobsInv'
    BY <1>2, BeginAdmitKeeps, BeginRetainKeeps, ReadListedKeeps, AdmitKeeps, RetainKeeps,
       UnlinkKeeps, BeginUpdateKeeps, FinishUpdateKeeps, BeginCancelKeeps, FinishCancelKeeps,
       BeginTurnKeeps, CheckMarkerKeeps, StartTurnKeeps, CallDiesKeeps
  <1>3. ASSUME NEW j \in Job, PrepareRuntime(j) \/ TurnEnds(j) \/ CleanRuntime(j)
        PROVE  JobsInv'
    BY <1>3, PrepareRuntimeKeeps, TurnEndsKeeps, CleanRuntimeKeeps
  <1>4. QED
    BY <1>1, <1>2, <1>3 DEF JobsNext

LEMMA JobsInvariant == JobsSpec => []JobsInv
  <1>1. QED
    BY JobsInvInit, JobsInvStep, PTL DEF JobsSpec

\* No two jobs have a runtime in one home of the provider, and a writer whose root is not its own
\* works alone: what a listing saw of a job stays true until the transaction it is for has ended,
\* because an update ends a job and never revives one (admitJob, state.mjs 1366-1451).
THEOREM RuntimesAreExclusive == JobsSpec => []RuntimeIsExclusive
  <1>1. JobsInv => RuntimeIsExclusive
    BY DEF JobsInv, RecordsFence, Fencing, Existing, RuntimeIsExclusive
  <1>2. QED
    BY <1>1, JobsInvariant, PTL

\* A turn starts only in a job whose marker is not there: from the look at the marker to the start
\* the workspace is held, and the request to cancel waits for it (state.mjs 1554-1600).
THEOREM NoTurnStartsAfterCancel == JobsSpec => NoTurnAfterCancel
  <1>1. JobsInv /\ [JobsNext]_jobVars => [\A j \in marker : j \in busy' => j \in busy]_jobVars
    <2> SUFFICES ASSUME JobsInv, JobsNext, NEW j \in marker, j \in busy' PROVE j \in busy
      OBVIOUS
    <2>1. CASE UNCHANGED busy
      BY <2>1
    <2>2. ASSUME NEW c \in Client, StartTurn(c) PROVE j \in busy
      <3>1. doing[c].job \notin marker
        BY <2>2 DEF StartTurn, JobsInv, StartsUncancelled
      <3>2. QED
        BY <2>2, <3>1 DEF StartTurn
    <2>3. ASSUME NEW k \in Job, TurnEnds(k) PROVE j \in busy
      BY <2>3 DEF TurnEnds
    <2>4. QED
      BY <2>1, <2>2, <2>3 DEF JobsNext, BeginAdmit, BeginRetain, ReadListed, Admit, Retain, Unlink,
         BeginUpdate, FinishUpdate, BeginCancel, FinishCancel, BeginTurn, CheckMarker, CallDies,
         PrepareRuntime, CleanRuntime
  <1>2. QED
    BY <1>1, JobsInvariant, PTL DEF JobsSpec, NoTurnAfterCancel

-----------------------------------------------------------------------------
(* The strengthening of ResumedParentIsKept, on top of JobsInv.            *)

\* The job that an admission resumes is there, as nobody else has the workspace,
AdmitsFromKept ==
  \A c \in Client : doing[c].op = "admit" /\ doing[c].wanted.parent # NoJob =>
    record[doing[c].wanted.parent] # NoJob

\* and retention has chosen no job that an active one resumes.
RemovesUnresumed ==
  \A c \in Client : doing[c].op = "remove" =>
    \A j \in Existing : Active(record[j]) => record[j].parent \notin doing[c].jobs

ParentInv == ResumedParentIsKept /\ AdmitsFromKept /\ RemovesUnresumed

\* The job that a kept one resumes is kept.
LEMMA AncestorsClosed ==
  ASSUME NEW list, NEW kept, NEW e \in list, e.job \in kept, e.record.parent \in Job
  PROVE  e.record.parent \in Ancestors(list, kept)
  BY JobAssumption DEF Ancestors

\* A step that leaves the records alone, and begins no admission and no removal.
LEMMA ParentFrame ==
  ASSUME ParentInv, UNCHANGED record,
         \A d \in Client : \/ doing'[d] = doing[d]
                           \/ doing'[d].op \notin {"admit", "remove"}
                           \/ doing'[d].op = "admit" /\ doing[d].op = "admit"
                                /\ doing'[d].wanted = doing[d].wanted
                           \/ doing'[d].op = "remove" /\ doing[d].op = "remove"
                                /\ doing'[d].jobs \subseteq doing[d].jobs
  PROVE  ParentInv'
  <1>1. ResumedParentIsKept'
    BY DEF ParentInv, ResumedParentIsKept, Existing
  <1>2. AdmitsFromKept'
    BY DEF ParentInv, AdmitsFromKept
  <1>3. RemovesUnresumed'
    BY DEF ParentInv, RemovesUnresumed, Existing
  <1>4. QED
    BY <1>1, <1>2, <1>3 DEF ParentInv

\* The end of a call that wrote nothing.
LEMMA ParentEnd ==
  ASSUME JobsInv, ParentInv, NEW c \in Client, EndCall(c), UNCHANGED record
  PROVE  ParentInv'
  BY EndOfCall, ParentFrame DEF JobsInv, Idle

\* A call that begins, or goes on, with neither an admission nor a removal.
LEMMA ParentGoesOn ==
  ASSUME JobsInv, ParentInv, NEW c \in Client, NEW x, UNCHANGED record,
         doing' = [doing EXCEPT ![c] = x],
         x.op \notin {"admit", "remove"}
  PROVE  ParentInv'
  <1>1. doing'[c] = x /\ \A d \in Client \ {c} : doing'[d] = doing[d]
    BY DEF JobsInv, JobsTypeOK
  <1>2. QED
    BY <1>1, ParentFrame

LEMMA ParentBeginAdmit ==
  ASSUME JobsInv, ParentInv, NEW c \in Client, BeginAdmit(c)
  PROVE  ParentInv'
  <1>1. PICK w \in Writers, l \in Lineage, p \in Existing \cup {NoJob} :
          doing' = [doing EXCEPT ![c] =
            Listing("admit", [job |-> CHOOSE j \in Unused : TRUE, writer |-> w, lineage |-> l, parent |-> p])]
    BY DEF BeginAdmit, BeginCall
  <1> DEFINE x == Listing("admit", [job |-> CHOOSE j \in Unused : TRUE, writer |-> w,
                                    lineage |-> l, parent |-> p])
  <1>2. x.op = "admit" /\ x.wanted.parent = p
    BY DEF Listing
  <1> HIDE DEF x
  <1>3. doing'[c] = x /\ \A d \in Client \ {c} : doing'[d] = doing[d]
    BY <1>1 DEF JobsInv, JobsTypeOK, x
  <1>4. UNCHANGED record
    BY DEF BeginAdmit
  <1>5. ResumedParentIsKept'
    BY <1>4 DEF ParentInv, ResumedParentIsKept, Existing
  <1>6. AdmitsFromKept'
    BY <1>2, <1>3, <1>4 DEF ParentInv, AdmitsFromKept, Existing
  <1>7. RemovesUnresumed'
    BY <1>2, <1>3, <1>4 DEF ParentInv, RemovesUnresumed, Existing
  <1>8. QED
    BY <1>5, <1>6, <1>7 DEF ParentInv

LEMMA ParentReadListed ==
  ASSUME JobsInv, ParentInv, NEW c \in Client, ReadListed(c)
  PROVE  ParentInv'
  <1>1. doing[c].op \in {"admit", "retain"} /\ UNCHANGED record
    BY DEF ReadListed
  <1>2. doing[c] \in Call
    BY DEF JobsInv, JobsTypeOK
  <1>3. PICK j \in doing[c].names :
          IF record[j] = NoJob
          THEN EndCall(c)
          ELSE /\ Proceed(c, [doing[c] EXCEPT !.names = @ \ {j},
                                              !.seen = @ \cup {[job |-> j, record |-> record[j]]}])
               /\ UNCHANGED <<workspace, held>>
    BY Zenon DEF ReadListed
  <1>4. CASE record[j] = NoJob
    BY <1>1, <1>3, <1>4, ParentEnd
  <1>5. CASE record[j] # NoJob
    <2> DEFINE x == [doing[c] EXCEPT !.names = @ \ {j},
                                     !.seen = @ \cup {[job |-> j, record |-> record[j]]}]
    <2>1. doing' = [doing EXCEPT ![c] = x]
      BY <1>3, <1>5 DEF Proceed
    <2>2. x.op = doing[c].op /\ (doing[c].op = "admit" => x.wanted = doing[c].wanted)
      <3>1. CASE doing[c].op = "admit"
        <4>1. doing[c] \in [op : {"admit"}, wanted : Wanted, names : SUBSET Job, seen : SUBSET Entry]
          BY <3>1, <1>2, CallParts
        <4>2. QED
          BY <4>1
      <3>2. CASE doing[c].op = "retain"
        <4>1. doing[c] \in [op : {"retain"}, wanted : {NoJob}, names : SUBSET Job, seen : SUBSET Entry]
          BY <3>2, <1>2, CallParts
        <4>2. QED
          BY <3>2, <4>1
      <3>3. QED
        BY <1>1, <3>1, <3>2
    <2> HIDE DEF x
    <2>3. doing'[c] = x /\ \A d \in Client \ {c} : doing'[d] = doing[d]
      BY <2>1 DEF JobsInv, JobsTypeOK
    <2>4. QED
      BY <1>1, <2>2, <2>3, ParentFrame
  <1>6. QED
    BY <1>4, <1>5

\* Whoever is under the lock of the workspace is alone there.
LEMMA OthersOutside ==
  ASSUME JobsInv, NEW c \in Client, doing[c].op \in UnderLock
  PROVE  workspace = c /\ \A d \in Client \ {c} : doing[d].op \notin UnderLock
  BY DEF JobsInv, OneTransaction

\* An admitted job resumes one that is there, and nobody removes it meanwhile.
LEMMA ParentAdmit ==
  ASSUME JobsInv, ParentInv, NEW c \in Client, Admit(c)
  PROVE  ParentInv'
  <1> DEFINE w == doing[c].wanted
             j == w.job
             r == [writer |-> w.writer, lineage |-> w.lineage, parent |-> w.parent,
                   status |-> "active", cleaned |-> "unset"]
  <1>1. doing[c].op = "admit" /\ EndCall(c)
        /\ (UNCHANGED record \/ record' = [record EXCEPT ![j] = r])
    BY DEF Admit
  <1>2. CASE UNCHANGED record
    BY <1>1, <1>2, ParentEnd
  <1>3. CASE record' = [record EXCEPT ![j] = r]
    <2>1. w \in Wanted
      BY <1>1, CallParts DEF JobsInv, JobsTypeOK
    <2>2. j \in Job /\ w.parent \in Job \cup {NoJob} /\ r \in Record
      BY <2>1 DEF Wanted, Record
    <2>3. r.parent = w.parent /\ r # NoJob
      BY <2>2, JobAssumption
    <2> HIDE DEF r
    <2>4. \A i \in Job : record'[i] = IF i = j THEN r ELSE record[i]
      BY <1>3, <2>2 DEF JobsInv, JobsTypeOK
    <2>5. w.parent # NoJob => record[w.parent] # NoJob
      BY <1>1 DEF ParentInv, AdmitsFromKept
    <2>6. \A d \in Client : doing'[d].op \notin {"admit", "remove"}
      <3>1. doing'[c] = Idle /\ \A d \in Client \ {c} : doing'[d] = doing[d]
        BY <1>1, EndOfCall DEF JobsInv
      <3>2. QED
        BY <1>1, <3>1, OthersOutside DEF UnderLock, Idle
    <2>7. ResumedParentIsKept'
      <3> SUFFICES ASSUME NEW i \in Existing', record'[i].parent # NoJob, Active(record'[i])
                   PROVE  record'[record'[i].parent] # NoJob
        BY DEF ResumedParentIsKept
      <3>1. i \in Job
        BY DEF Existing
      <3>2. record'[i].parent \in Job /\ record[record'[i].parent] # NoJob
        <4>1. CASE i = j
          BY <2>2, <2>3, <2>4, <2>5, <3>1, <4>1
        <4>2. CASE i # j
          <5>1. record'[i] = record[i] /\ i \in Existing
            BY <2>4, <3>1, <4>2 DEF Existing
          <5>2. record[i] \in Record
            BY <5>1 DEF JobsInv, JobsTypeOK, Existing
          <5>3. QED
            BY <5>1, <5>2 DEF ParentInv, ResumedParentIsKept, Record
        <4>3. QED
          BY <4>1, <4>2
      <3>3. QED
        BY <2>3, <2>4, <3>2
    <2>8. AdmitsFromKept' /\ RemovesUnresumed'
      BY <2>6 DEF AdmitsFromKept, RemovesUnresumed
    <2>9. QED
      BY <2>7, <2>8 DEF ParentInv
  <1>4. QED
    BY <1>1, <1>2, <1>3

\* An active job is on the list as active, and with it what it resumes is kept.
LEMMA ParentRetain ==
  ASSUME JobsInv, ParentInv, NEW c \in Client, Retain(c)
  PROVE  ParentInv'
  <1>1. /\ doing[c].op = "retain" /\ doing[c].names = {} /\ UNCHANGED record
        /\ \E some \in SUBSET Ordinary(doing[c].seen) :
             Proceed(c, [op |-> "remove", jobs |-> Removable(doing[c].seen, some), rest |-> NoJob])
    BY DEF Retain
  <1>2. PICK some : Proceed(c, [op |-> "remove", jobs |-> Removable(doing[c].seen, some), rest |-> NoJob])
    BY <1>1
  <1> DEFINE list == doing[c].seen
             S == Removable(list, some)
             x == [op |-> "remove", jobs |-> S, rest |-> NoJob]
  <1>3. ASSUME NEW j \in Existing, Active(record[j]) PROVE record[j].parent \notin S
    <2>1. ListOK(c)
      BY DEF JobsInv, CallsOK
    <2>2. PICK e \in list : e.job = j
      BY <1>1, <1>3, <2>1 DEF ListOK, Settled, Existing
    <2>3. \A f \in list : f.job = j => Active(f.record) /\ f.record.parent = record[j].parent
      BY <1>1, <1>3, <2>1 DEF ListOK, StillTrue, SameJob
    <2>4. j \notin Ordinary(list)
      BY <2>3 DEF Ordinary
    <2>5. j \in {f.job : f \in list} \ Ordinary(list)
      BY <2>2, <2>4
    <2>6. CASE record[j].parent \in Job
      BY <2>2, <2>3, <2>5, <2>6, AncestorsClosed DEF Removable
    <2>7. CASE record[j].parent \notin Job
      <3>1. list \subseteq Entry
        BY <1>1, CallParts DEF JobsInv, JobsTypeOK
      <3>2. QED
        BY <2>7, <3>1 DEF Removable, Ordinary, Entry
    <2>8. QED
      BY <2>6, <2>7
  <1> HIDE DEF S
  <1>4. x.op = "remove" /\ x.jobs = S /\ doing' = [doing EXCEPT ![c] = x]
    BY <1>2 DEF Proceed, S
  <1> HIDE DEF x
  <1>5. doing'[c] = x /\ \A d \in Client \ {c} : doing'[d] = doing[d]
    BY <1>4 DEF JobsInv, JobsTypeOK
  <1>6. ResumedParentIsKept'
    BY <1>1 DEF ParentInv, ResumedParentIsKept, Existing
  <1>7. AdmitsFromKept'
    BY <1>1, <1>4, <1>5 DEF ParentInv, AdmitsFromKept
  <1>8. RemovesUnresumed'
    BY <1>1, <1>3, <1>4, <1>5 DEF ParentInv, RemovesUnresumed, Existing
  <1>9. QED
    BY <1>6, <1>7, <1>8 DEF ParentInv

\* What is unlinked was chosen, and no active job resumes it.
LEMMA ParentUnlink ==
  ASSUME JobsInv, ParentInv, NEW c \in Client, Unlink(c)
  PROVE  ParentInv'
  <1>1. doing[c].op = "remove" /\ doing[c] \in Call
    BY DEF Unlink, JobsInv, JobsTypeOK
  <1>2. doing[c] \in [op : {"remove"}, jobs : SUBSET Job, rest : Job \cup {NoJob}]
    BY <1>1, CallParts
  <1>3. CASE doing[c].rest # NoJob
    <2> DEFINE x == [doing[c] EXCEPT !.rest = NoJob]
    <2>1. doing' = [doing EXCEPT ![c] = x] /\ UNCHANGED record
      BY <1>3 DEF Unlink, Proceed
    <2>2. x.op = "remove" /\ x.jobs = doing[c].jobs
      BY <1>2
    <2> HIDE DEF x
    <2>3. doing'[c] = x /\ \A d \in Client \ {c} : doing'[d] = doing[d]
      BY <2>1 DEF JobsInv, JobsTypeOK
    <2>4. QED
      BY <1>1, <2>1, <2>2, <2>3, ParentFrame
  <1>4. CASE doing[c].rest = NoJob /\ doing[c].jobs = {}
    BY <1>4, ParentEnd DEF Unlink
  <1>5. CASE doing[c].rest = NoJob /\ doing[c].jobs # {}
    <2>1. PICK j \in doing[c].jobs :
            /\ record' = [record EXCEPT ![j] = NoJob]
            /\ Proceed(c, [doing[c] EXCEPT !.jobs = @ \ {j}, !.rest = j])
      BY <1>5 DEF Unlink
    <2> DEFINE x == [doing[c] EXCEPT !.jobs = @ \ {j}, !.rest = j]
    <2>2. x.op = "remove" /\ x.jobs = doing[c].jobs \ {j} /\ doing' = [doing EXCEPT ![c] = x]
      BY <1>2, <2>1 DEF Proceed
    <2> HIDE DEF x
    <2>3. doing'[c] = x /\ \A d \in Client \ {c} : doing'[d] = doing[d]
      BY <2>2 DEF JobsInv, JobsTypeOK
    <2>4. \A i \in Job : record'[i] = IF i = j THEN NoJob ELSE record[i]
      BY <1>2, <2>1 DEF JobsInv, JobsTypeOK
    <2>5. \A i \in Existing' : i \in Existing /\ record'[i] = record[i]
      BY <2>4 DEF Existing
    <2>6. \A i \in Existing : Active(record[i]) => record[i].parent # j
      BY <1>1 DEF ParentInv, RemovesUnresumed
    <2>7. ResumedParentIsKept'
      <3> SUFFICES ASSUME NEW i \in Existing', Active(record'[i]), record'[i].parent # NoJob
                   PROVE  record'[record'[i].parent] # NoJob
        BY DEF ResumedParentIsKept
      <3>1. i \in Existing /\ record'[i] = record[i] /\ record[i].parent # j
        BY <2>5, <2>6
      <3>2. record[i] \in Record
        BY <3>1 DEF JobsInv, JobsTypeOK, Existing
      <3>3. record[i].parent \in Job /\ record[record[i].parent] # NoJob
        BY <3>1, <3>2 DEF ParentInv, ResumedParentIsKept, Record
      <3>4. QED
        BY <2>4, <3>1, <3>3
    <2>8. \A d \in Client \ {c} : doing'[d].op \notin {"admit", "remove"}
      BY <1>1, <2>3, OthersOutside DEF UnderLock
    <2>9. AdmitsFromKept'
      BY <2>2, <2>3, <2>8 DEF AdmitsFromKept
    <2>10. RemovesUnresumed'
      <3> SUFFICES ASSUME NEW i \in Existing', Active(record'[i])
                   PROVE  record'[i].parent \notin doing'[c].jobs
        BY <2>8 DEF RemovesUnresumed
      <3>1. i \in Existing /\ record'[i] = record[i]
        BY <2>5
      <3>2. QED
        BY <1>1, <2>2, <2>3, <3>1 DEF ParentInv, RemovesUnresumed
    <2>11. QED
      BY <2>7, <2>9, <2>10 DEF ParentInv
  <1>6. QED
    BY <1>3, <1>4, <1>5

\* An update neither revives a job nor changes what it resumes, and it takes no record away.
LEMMA ParentFinishUpdate ==
  ASSUME JobsInv, ParentInv, NEW c \in Client, FinishUpdate(c)
  PROVE  ParentInv'
  <1>1. /\ doing[c].op = "update" /\ record' = [record EXCEPT ![doing[c].job] = doing[c].next]
        /\ EndCall(c)
    BY DEF FinishUpdate
  <1>2. doing[c].job \in Job /\ doing[c].next \in Record /\ UpdateOK(c)
    BY <1>1, CallParts DEF JobsInv, JobsTypeOK, CallsOK
  <1>3. PICK j \in Job : j = doing[c].job
    BY <1>2
  <1>4. PICK next \in Record : next = doing[c].next
    BY <1>2
  <1>5. \A i \in Job : record'[i] = IF i = j THEN next ELSE record[i]
    BY <1>1, <1>3, <1>4 DEF JobsInv, JobsTypeOK
  <1>6. next # NoJob
    BY JobAssumption
  <1>7. Active(next) => record[j] # NoJob /\ Active(record[j]) /\ next.parent = record[j].parent
    BY <1>1, <1>2, <1>3, <1>4 DEF UpdateOK, SameJob
  <1>8. ASSUME NEW i \in Existing', Active(record'[i])
        PROVE  i \in Existing /\ Active(record[i]) /\ record'[i].parent = record[i].parent
    BY <1>5, <1>7, <1>8 DEF Existing
  <1>9. \A i \in Job : record[i] # NoJob => record'[i] # NoJob
    BY <1>5, <1>6
  <1>10. /\ doing'[c] = Idle
         /\ \A d \in Client \ {c} : doing'[d] = doing[d]
    BY <1>1, EndOfCall DEF JobsInv
  <1>11. doing'[c].op = "idle"
    BY <1>10 DEF Idle
  <1>12. ResumedParentIsKept'
    <2> SUFFICES ASSUME NEW i \in Existing', Active(record'[i]), record'[i].parent # NoJob
                 PROVE  record'[record'[i].parent] # NoJob
      BY DEF ResumedParentIsKept
    <2>1. i \in Existing /\ Active(record[i]) /\ record'[i].parent = record[i].parent
      BY <1>8
    <2>2. record[i] \in Record
      BY <2>1 DEF JobsInv, JobsTypeOK, Existing
    <2>3. record[i].parent \in Job /\ record[record[i].parent] # NoJob
      BY <2>1, <2>2 DEF ParentInv, ResumedParentIsKept, Record
    <2>4. QED
      BY <1>9, <2>1, <2>3
  <1>13. AdmitsFromKept'
    <2> SUFFICES ASSUME NEW d \in Client, doing'[d].op = "admit", doing'[d].wanted.parent # NoJob
                 PROVE  record'[doing'[d].wanted.parent] # NoJob
      BY DEF AdmitsFromKept
    <2>1. doing'[d] = doing[d] /\ doing[d] \in Call
      BY <1>10, <1>11 DEF JobsInv, JobsTypeOK
    <2>2. doing[d].wanted \in Wanted
      BY <2>1, CallParts
    <2>3. doing[d].wanted.parent \in Job
      BY <2>1, <2>2 DEF Wanted
    <2>4. QED
      BY <1>9, <2>1, <2>3 DEF ParentInv, AdmitsFromKept
  <1>14. RemovesUnresumed'
    BY <1>8, <1>10, <1>11 DEF ParentInv, RemovesUnresumed
  <1>15. QED
    BY <1>12, <1>13, <1>14 DEF ParentInv

\* The other beginnings.
LEMMA ParentBegins ==
  ASSUME JobsInv, ParentInv, NEW c \in Client,
         BeginRetain(c) \/ BeginUpdate(c) \/ BeginCancel(c) \/ BeginTurn(c)
  PROVE  ParentInv'
  <1>1. CASE BeginRetain(c)
    <2>1. Listing("retain", NoJob).op = "retain"
      BY DEF Listing
    <2>2. doing' = [doing EXCEPT ![c] = Listing("retain", NoJob)] /\ UNCHANGED record
      BY <1>1 DEF BeginRetain, BeginCall
    <2>3. QED
      BY <2>1, <2>2, ParentGoesOn
  <1>2. CASE BeginUpdate(c)
    <2>1. PICK j \in Job, what \in {"end", "clean", "note"} :
            /\ BeginCall(c, [op |-> "update", job |-> j, next |-> Mutated(j, record[j], what)])
            /\ UNCHANGED record
      BY <1>2 DEF BeginUpdate
    <2> DEFINE x == [op |-> "update", job |-> j, next |-> Mutated(j, record[j], what)]
    <2>2. x.op = "update" /\ doing' = [doing EXCEPT ![c] = x]
      BY <2>1 DEF BeginCall
    <2> HIDE DEF x
    <2>3. QED
      BY <2>1, <2>2, ParentGoesOn
  <1>3. CASE BeginCancel(c) \/ BeginTurn(c)
    <2>1. \E op \in {"cancel", "turn"}, j \in Job :
            BeginCall(c, [op |-> op, job |-> j]) /\ UNCHANGED record
      <3>1. CASE BeginCancel(c)
        <4>1. PICK j \in Existing : BeginCall(c, [op |-> "cancel", job |-> j]) /\ UNCHANGED record
          BY <3>1 DEF BeginCancel
        <4>2. QED
          BY <4>1 DEF Existing
      <3>2. CASE BeginTurn(c)
        <4>1. PICK j \in Existing \cap runtime :
                BeginCall(c, [op |-> "turn", job |-> j]) /\ UNCHANGED record
          BY <3>2 DEF BeginTurn
        <4>2. QED
          BY <4>1 DEF Existing
      <3>3. QED
        BY <1>3, <3>1, <3>2
    <2>2. PICK op \in {"cancel", "turn"}, j \in Job :
            BeginCall(c, [op |-> op, job |-> j]) /\ UNCHANGED record
      BY <2>1
    <2> DEFINE x == [op |-> op, job |-> j]
    <2>3. x.op = op /\ doing' = [doing EXCEPT ![c] = x]
      BY <2>2 DEF BeginCall
    <2> HIDE DEF x
    <2>4. QED
      BY <2>2, <2>3, ParentGoesOn
  <1>4. QED
    BY <1>1, <1>2, <1>3

LEMMA ParentCheckMarker ==
  ASSUME JobsInv, ParentInv, NEW c \in Client, CheckMarker(c)
  PROVE  ParentInv'
  <1>1. doing[c] \in [op : {"cancel", "turn", "start"}, job : Job] /\ UNCHANGED record
    BY CallParts DEF CheckMarker, JobsInv, JobsTypeOK
  <1>2. CASE EndCall(c)
    BY <1>1, <1>2, ParentEnd
  <1>3. CASE Proceed(c, [doing[c] EXCEPT !.op = "start"])
    <2> DEFINE x == [doing[c] EXCEPT !.op = "start"]
    <2>1. x.op = "start" /\ doing' = [doing EXCEPT ![c] = x]
      BY <1>1, <1>3 DEF Proceed
    <2> HIDE DEF x
    <2>2. QED
      BY <1>1, <2>1, ParentGoesOn
  <1>4. QED
    BY <1>2, <1>3 DEF CheckMarker

LEMMA ParentInvInit == JobsInit => ParentInv
  <1> SUFFICES ASSUME JobsInit PROVE ParentInv
    OBVIOUS
  <1>1. \A j \in Job : record[j] # NoJob => ~Active(record[j])
    BY DEF JobsInit, Earlier, Active
  <1>2. \A c \in Client : doing[c].op = "idle"
    BY DEF JobsInit, Idle
  <1>3. QED
    BY <1>1, <1>2 DEF ParentInv, ResumedParentIsKept, AdmitsFromKept, RemovesUnresumed, Existing

LEMMA ParentInvStep == JobsInv /\ ParentInv /\ [JobsNext]_jobVars => ParentInv'
  <1> SUFFICES ASSUME JobsInv, ParentInv, [JobsNext]_jobVars PROVE ParentInv'
    OBVIOUS
  <1>1. CASE UNCHANGED <<record, doing>>
    BY <1>1, ParentFrame
  <1>2. ASSUME NEW c \in Client, BeginAdmit(c) \/ ReadListed(c) \/ Admit(c) \/ Retain(c) \/ Unlink(c)
                                 \/ FinishUpdate(c) \/ CheckMarker(c)
        PROVE  ParentInv'
    BY <1>2, ParentBeginAdmit, ParentReadListed, ParentAdmit, ParentRetain, ParentUnlink,
       ParentFinishUpdate, ParentCheckMarker
  <1>3. ASSUME NEW c \in Client, BeginRetain(c) \/ BeginUpdate(c) \/ BeginCancel(c) \/ BeginTurn(c)
        PROVE  ParentInv'
    BY <1>3, ParentBegins
  <1>4. ASSUME NEW c \in Client, FinishCancel(c) \/ StartTurn(c) \/ CallDies(c)
        PROVE  ParentInv'
    BY <1>4, ParentEnd DEF FinishCancel, StartTurn, CallDies
  <1>5. ASSUME NEW j \in Job, PrepareRuntime(j) \/ TurnEnds(j) \/ CleanRuntime(j)
        PROVE  ParentInv'
    BY <1>1, <1>5 DEF PrepareRuntime, TurnEnds, CleanRuntime
  <1>6. CASE UNCHANGED jobVars
    BY <1>1, <1>6 DEF jobVars
  <1>7. QED
    BY <1>2, <1>3, <1>4, <1>5, <1>6 DEF JobsNext

\* Retention never takes away the job that an active one resumes: every active job is on its list
\* as active, whatever updates end jobs meanwhile, no job is admitted while it removes, and the
\* file of a job it chose cannot become active again (retain, state.mjs 1490-1530).
THEOREM ParentsAreKept == JobsSpec => []ResumedParentIsKept
  <1>1. JobsInv /\ ParentInv /\ [JobsNext]_jobVars => ParentInv'
    BY ParentInvStep
  <1>2. ParentInv => ResumedParentIsKept
    BY DEF ParentInv
  <1>3. QED
    BY <1>1, <1>2, ParentInvInit, JobsInvariant, PTL DEF JobsSpec

-----------------------------------------------------------------------------
(* The lock.  A process that is making a lock, holds one or releases it has  *)
(* its directory at the path; whoever moves a directory to reclaim it has    *)
(* its transition there, and nobody is busy with the directory any more.     *)

Looks(p, s) == pc[p] \in Looking /\ my[p].after = s

\* A process that is making a lock, holds one or releases it.
Busy(p) == \/ pc[p] \in Making \cup {"held"} \/ Looks(p, "check")
           \/ ~Reclaims(p) /\ pc[p] \in {"leave"} \cup Looking \cup Claim \cup Taking

\* Its maker is not busy with the directory any more.
Over(i) == LET m == dir[i].maker
           IN ~(alive[m.by] /\ made[m.by] = m.token /\ Busy(m.by))

\* The directory at the path is the one in use.
PathInv ==
  \A i \in Ino :
    /\ dir[i].use = "live" <=> path = i
    /\ dir[i].use # "free" => /\ dir[i].maker \in Maker
                              /\ dir[i].maker.token <= made[dir[i].maker.by]

\* A record is its maker's, and of the directory it is in.
RecordOf(o, i) == o.ino = i /\ dir[i].maker = [by |-> o.by, token |-> o.token]
RecordsInv ==
  \A i \in Ino : /\ dir[i].owner # None => RecordOf(dir[i].owner, i)
                 /\ \A t \in dir[i].tmp : RecordOf(t, i)

RestsEmpty(p) == pc[p] \in {"idle", "try"} => my[p] = AtRest

\* A busy process that lives has its own directory at the path.
BusyAt(p) ==
  alive[p] /\ Busy(p) =>
    /\ path # None /\ dir[path].maker = [by |-> p, token |-> made[p]]
    /\ pc[p] # "stat" => Gen(p).ino = path
    /\ IF pc[p] \in {"stat", "tmp", "link"} THEN dir[path].owner = None
       ELSE dir[path].owner = Mine(p)
    /\ pc[p] = "link" => Mine(p) \in dir[path].tmp
    /\ pc[p] = "held" => ~Reclaims(p)

\* Where the calls of a process return.
ReturnsRight(p) ==
  /\ pc[p] \in Looking => my[p].after # "rename"
  /\ pc[p] \in {"ownStat", "ownTrans"} => my[p].after \in {"recheck", "rename"}
  /\ pc[p] = "leave" \/ Looks(p, "leave") => ~Reclaims(p)

\* What was found is of directories that were there.
FoundBefore(p) ==
  pc[p] # "frozen" =>
    /\ Look(p).ino # None => /\ Look(p).ino \in Ino /\ dir[Look(p).ino].use # "free"
                             /\ Look(p).maker = dir[Look(p).ino].maker
    /\ Look(p).owner # None => /\ dir[Look(p).owner.ino].use # "free"
                               /\ RecordOf(Look(p).owner, Look(p).owner.ino)

\* A directory that is reclaimed is over, or will be found to have an owner.
Reclaiming(p) == alive[p] /\ Reclaims(p)
Condemned(p) ==
  Reclaiming(p) /\ (pc[p] \in Claim \cup Taking \/ Looks(p, "recheck")) =>
    LET i == Gen(p).ino
    IN /\ i \in Ino /\ dir[i].use # "free"
       /\ \/ Over(i) \/ dir[i].use = "retired"
          \/ dir[i].owner # None /\ (Gen(p).owner = None \/ Gen(p).owner.ino # i)

\* The second look is at that directory: without an owner it is over.
LookedAgain(p) ==
  Reclaiming(p) =>
    /\ pc[p] \in {"list", "temp"} /\ my[p].after = "recheck" => Over(Gen(p).ino)
    /\ pc[p] = "recheck" => \/ Over(Gen(p).ino)
                            \/ Look(p).owner # None /\ Look(p).owner.ino = Gen(p).ino
    /\ pc[p] = "rename" \/ (pc[p] \in {"ownStat", "ownTrans"} /\ my[p].after = "rename")
         => Over(Gen(p).ino)

\* A transition that was placed stays, and the directory with it, until its process moves on.
Placed(p) ==
  /\ alive[p] /\ (pc[p] \in {"confirm"} \cup Taking \/ Looks(p, "recheck")) =>
       /\ path # None /\ dir[path].trans = MyTransition(p)
       /\ pc[p] # "confirm" => Seen(p) = MyTransition(p)
  /\ alive[p] /\ \/ pc[p] \in {"ownTrans", "recheck", "rename"} \/ Looks(p, "recheck")
                 \/ pc[p] = "ownStat" /\ my[p].after = "rename"
       => At(p)

\* The transition that is cleared is of a dead process and nobody else clears it.
ClearsDead(p) ==
  alive[p] /\ pc[p] \in {"pin", "pinned", "unpin", "drop"} =>
    /\ Seen(p) \in Transition /\ ~alive[Seen(p).by]
    /\ pc[p] = "pin" /\ TransitionAt # None /\ TransitionAt.by = Seen(p).by => TransitionAt = Seen(p)
    /\ pc[p] \in {"pinned", "unpin"} => /\ path # None /\ dir[path].trans = Seen(p)
                                        /\ Seen(p).by \in dir[path].witness
    /\ pc[p] = "drop" /\ TransitionAt # None => TransitionAt.by # Seen(p).by

Clearing(p) == alive[p] /\ pc[p] \in {"pinned", "unpin"}
OneClears   == \A p, q \in Proc : Clearing(p) /\ Clearing(q) => p = q

LocalInv(p) == /\ RestsEmpty(p) /\ BusyAt(p) /\ ReturnsRight(p) /\ FoundBefore(p) /\ Condemned(p)
               /\ LookedAgain(p) /\ Placed(p) /\ ClearsDead(p)

LockInv == /\ LockTypeOK /\ PathInv /\ RecordsInv
           /\ (\A p \in Proc : LocalInv(p)) /\ OneClears
-----------------------------------------------------------------------------
LEMMA LockInitInv == Init => LockInv
  <1> SUFFICES ASSUME Init PROVE LockInv
    OBVIOUS
  <1> USE LockAssumption DEF Init
  <1>f. Free \in Directory /\ Free.owner = None /\ Free.tmp = {} /\ Free.use = "free"
    BY DEF Directory, Free
  <1>r. AtRest \in Local /\ AtRest.look = NoLook
    BY DEF Local, AtRest, NoGen, NoLook
  <1>1. LockTypeOK
    BY <1>f, <1>r DEF LockTypeOK, Stage
  <1>2. PathInv /\ RecordsInv
    BY <1>f DEF PathInv, RecordsInv
  <1>3. ASSUME NEW p \in Proc PROVE LocalInv(p)
    <2>1. pc[p] = "idle" /\ my[p] = AtRest
      OBVIOUS
    <2>2. ~Busy(p) /\ RestsEmpty(p) /\ ReturnsRight(p)
      BY <2>1 DEF Busy, Looks, RestsEmpty, ReturnsRight, Making, Looking, Claim, Taking
    <2>3. FoundBefore(p)
      BY <2>1, <1>r DEF FoundBefore, Look, NoLook
    <2>4. BusyAt(p) /\ Condemned(p) /\ LookedAgain(p) /\ Placed(p) /\ ClearsDead(p)
      BY <2>1, <2>2 DEF BusyAt, Condemned, LookedAgain, Placed, ClearsDead, Looks, Looking, Claim, Taking
    <2> QED
      BY <2>2, <2>3, <2>4 DEF LocalInv
  <1>4. OneClears
    BY DEF OneClears, Clearing
  <1> QED
    BY <1>1, <1>2, <1>3, <1>4 DEF LockInv

-----------------------------------------------------------------------------
(* Types.                                                                    *)

Gens  == [ino : Ino \cup {None}, owner : Owner \cup {None}]
Views == [ino : Ino \cup {None}, maker : Maker \cup {None}, owner : Owner \cup {None},
          temp : Owner \cup {None}]

LEMMA LocalFields ==
  ASSUME NEW m \in Local
  PROVE  /\ m.gen \in Gens /\ m.look \in Views /\ m.seen \in Transition \cup {None}
         /\ \A g \in Gens : [m EXCEPT !.gen = g] \in Local
         /\ \A v \in Views : [m EXCEPT !.look = v] \in Local
         /\ \A k \in {"reclaim", "release", "abandon"} : [m EXCEPT !.mode = k] \in Local
         /\ \A t \in Transition \cup {None} : [m EXCEPT !.seen = t] \in Local
         /\ [m EXCEPT !.again = TRUE] \in Local
         /\ \A a \in {"judge", "check", "leave", "recheck", "rename"} : [m EXCEPT !.after = a] \in Local
  BY DEF Local, Gens, Views

LEMMA Rests ==
  /\ AtRest \in Local /\ NoGen \in Gens /\ NoLook \in Views
  /\ AtRest.gen = NoGen /\ AtRest.mode = "reclaim" /\ AtRest.look = NoLook /\ AtRest.seen = None
  /\ AtRest.after = "judge"
  BY DEF Local, AtRest, NoGen, NoLook, Gens, Views

\* What a change of some fields leaves alone.
Alike(n, m) == n.gen = m.gen /\ n.mode = m.mode /\ n.seen = m.seen /\ n.after = m.after

\* What one call leaves for the next has the generation and the mode, and nothing else.
LEMMA Keeps ==
  ASSUME LockTypeOK, NEW p \in Proc
  PROVE  /\ Kept(p) \in Local /\ Kept(p).gen = Gen(p) /\ Kept(p).mode = my[p].mode
         /\ Kept(p).look = NoLook /\ Kept(p).seen = None
  <1>1. my[p] \in Local /\ my[p].mode \in {"reclaim", "release", "abandon"}
    BY DEF LockTypeOK, Local
  <1>2. Gen(p) \in Gens
    BY <1>1, LocalFields DEF Gen
  <1>3. ASSUME NEW m \in Local, m.look = NoLook, m.seen = None,
               Kept(p) = [m EXCEPT !.gen = Gen(p), !.mode = my[p].mode]
        PROVE  /\ Kept(p) \in Local /\ Kept(p).gen = Gen(p) /\ Kept(p).mode = my[p].mode
               /\ Kept(p).look = NoLook /\ Kept(p).seen = None
    BY <1>1, <1>2, <1>3 DEF Local, Gens
  <1>4. AtRest \in Local /\ AtRest.look = NoLook /\ AtRest.seen = None
    BY Rests
  <1> QED
    BY <1>3, <1>4 DEF Kept

\* A process goes to a step with what it has in its variables.
LEMMA Goes ==
  ASSUME LockTypeOK, NEW p \in Proc, NEW s \in Stage, NEW m \in Local, To(p, s, m)
  PROVE  /\ pc' \in [Proc -> Stage] /\ my' \in [Proc -> Local] /\ pc'[p] = s /\ my'[p] = m
         /\ \A r \in Proc : r # p => pc'[r] = pc[r] /\ my'[r] = my[r]
  BY DEF LockTypeOK, To

\* Where a step of a process leads: the possible next steps and local variables.
LEMMA StepGoes ==
  ASSUME LockTypeOK, NEW p \in Proc, Step(p), pc[p] = "stat" => made[p] \in 1..MaxTries
  PROVE  \E s \in Stage, m \in Local : To(p, s, m)
  <1>t. /\ path \in Ino \cup {None} /\ dir \in [Ino -> Directory] /\ my[p] \in Local
        /\ my[p].after \in {"judge", "check", "leave", "recheck", "rename"}
        /\ my[p].after \in Stage
        /\ Kept(p) \in Local /\ AtRest \in Local
    BY Keeps, Rests DEF LockTypeOK, Local, Stage, Taking, Making
  <1>s. {"idle", "try", "judge", "held", "leave", "frozen"} \cup Making \cup Looking \cup Claim
          \cup Taking \subseteq Stage
    BY DEF Stage
  <1>g. \A s \in Stage : Goto(p, s) => \E m \in Local : To(p, s, m)
    BY <1>t DEF Goto
  <1>r. \A s \in Stage : Rest(p, s) => \E m \in Local : To(p, s, m)
    BY <1>t DEF Rest
  <1> USE <1>t, <1>s
  <1>l. Leaving(p) => \E s \in Stage, m \in Local : To(p, s, m)
    BY LocalFields DEF Leaving, Looking
  <1>a. Abandon(p) => \E s \in Stage, m \in Local : To(p, s, m)
    BY LocalFields DEF Abandon, Looking
  <1>f. Failed(p) \/ NotMoved(p) \/ GivenUp(p) => \E s \in Stage, m \in Local : To(p, s, m)
    BY <1>r, <1>l DEF Failed, NotMoved, GivenUp
  <1> DEFINE Going == \E s \in Stage, m \in Local : To(p, s, m)
  <1>e. /\ \A v \in Views : [my[p] EXCEPT !.look = v] \in Local
        /\ \A v \in Views, a \in {"judge", "check", "leave", "recheck", "rename"} :
              [my[p] EXCEPT !.look = v, !.after = a] \in Local
        /\ Look(p) \in Views /\ Gen(p) \in Gens /\ Seen(p) \in Transition \cup {None}
    BY DEF Local, Views, Gens, Look, Gen, Seen
  <1>o. /\ OwnerAt \in Owner \cup {None} /\ TemporariesAt \subseteq Owner
        /\ TransitionAt \in Transition \cup {None}
    BY DEF OwnerAt, TemporariesAt, TransitionAt, Directory
  <1>1. CASE StatLock(p)
    <2>1. CASE path = None
      BY <1>1, <2>1, <1>g DEF StatLock
    <2>2. CASE path # None
      <3>1. [my[p] EXCEPT !.look.ino = path, !.look.maker = dir[path].maker] \in Local
        BY <2>2 DEF Local, Directory
      <3> QED
        BY <1>1, <2>2, <3>1 DEF StatLock, Looking
    <2> QED
      BY <2>1, <2>2
  <1>2. CASE ReadOwner(p)
    <2>1. CASE OwnerAt # None
      <3>1. [my[p] EXCEPT !.look.owner = OwnerAt] \in Local
        BY <1>o DEF Local
      <3> QED
        BY <1>2, <2>1, <3>1 DEF ReadOwner
    <2>2. CASE OwnerAt = None
      BY <1>2, <2>2, <1>g DEF ReadOwner, Looking
    <2> QED
      BY <2>1, <2>2
  <1>3. CASE ListOwners(p)
    <2>1. ASSUME NEW t \in TemporariesAt, To(p, "temp", [my[p] EXCEPT !.look.temp = t]) PROVE Going
      <3>1. [my[p] EXCEPT !.look.temp = t] \in Local
        BY <1>o DEF Local
      <3> QED
        BY <2>1, <3>1 DEF Looking
    <2> QED
      BY <1>3, <2>1, <1>g DEF ListOwners
  <1>4. CASE ReadTemporary(p)
    <2>1. \A o \in Owner \cup {None} : [my[p] EXCEPT !.look.temp = None, !.look.owner = o] \in Local
      BY DEF Local
    <2>2. PICK o \in Owner \cup {None} : To(p, my[p].after, [my[p] EXCEPT !.look.temp = None, !.look.owner = o])
      BY <1>4, <1>o, <1>e DEF ReadTemporary, Views
    <2> QED
      BY <2>1, <2>2
  <1>5. CASE StartTry(p) \/ CheckTransition(p) \/ FindLock(p) \/ JudgeLock(p)
    <2>1. StartTry(p) \/ FindLock(p) => \E s \in Stage : Goto(p, s)
      BY DEF StartTry, FindLock, Looking
    <2>2. CheckTransition(p) => Going
      <3>1. [my[p] EXCEPT !.mode = "release"] \in Local
        BY LocalFields
      <3> QED
        BY <3>1, <1>a DEF CheckTransition
    <2>3. JudgeLock(p) => Going
      <3>0. [ino |-> Look(p).ino, owner |-> Look(p).owner] \in Gens
        BY <1>e DEF Gens, Views
      <3>1. [AtRest EXCEPT !.gen = [ino |-> Look(p).ino, owner |-> Look(p).owner]] \in Local
        BY <3>0, LocalFields, Rests
      <3> QED
        BY <3>1, <1>r DEF JudgeLock, Claim
    <2> QED
      BY <1>5, <2>1, <2>2, <2>3, <1>g
  <1>6. CASE MakeDirectory(p)
    BY <1>6, <1>g DEF MakeDirectory, Making
  <1>7. CASE StatDirectory(p)
    <2>1. CASE path = None
      BY <1>7, <2>1, <1>r DEF StatDirectory
    <2>2. CASE path # None /\ made[p] \in 1..MaxTries
      <3>1. [Mine(p) EXCEPT !.ino = path] \in Owner
        BY <2>2 DEF Mine, Owner
      <3>2. [ino |-> path, owner |-> [Mine(p) EXCEPT !.ino = path]] \in Gens
        BY <3>1 DEF Gens
      <3> QED
        BY <1>7, <2>2, <3>2, LocalFields DEF StatDirectory, Making
    <2> QED
      BY <1>7, <2>1, <2>2 DEF StatDirectory
  <1>8. CASE WriteOwner(p) \/ CheckOwner(p)
    BY <1>8, <1>a, <1>g DEF WriteOwner, CheckOwner, Making
  <1>9. CASE LinkOwner(p) \/ SweepTemporary(p)
    <2>1. [my[p] EXCEPT !.mode = "abandon"] \in Local
      BY LocalFields
    <2>2. \A a \in {"leave", "check"} : [my[p] EXCEPT !.after = a] \in Local
      BY LocalFields
    <2> QED
      BY <1>9, <1>g, <2>1, <2>2 DEF LinkOwner, SweepTemporary, Making, Looking
  <1>10. CASE Release(p) \/ Leave(p) \/ ClaimTransition(p) \/ PlaceTransition(p)
    BY <1>10, <1>l, <1>r, <1>g, <1>f DEF Release, Leave, ClaimTransition, PlaceTransition, Claim
  <1>11. CASE ReadExisting(p) \/ PinTransition(p) \/ ReadPinned(p)
    <2>1. [my[p] EXCEPT !.seen = TransitionAt] \in Local
      BY <1>o, LocalFields
    <2> QED
      BY <1>11, <1>g, <1>f, <2>1 DEF ReadExisting, PinTransition, ReadPinned, Claim
  <1>12. CASE UnlinkTransition(p) \/ DropWitness(p)
    <2>1. [my[p] EXCEPT !.again = TRUE] \in Local /\ [Kept(p) EXCEPT !.again = TRUE] \in Local
      BY LocalFields
    <2> QED
      BY <1>12, <1>f, <2>1 DEF UnlinkTransition, DropWitness, Claim
  <1>13. CASE ReadClaimed(p)
    <2>1. [Kept(p) EXCEPT !.seen = TransitionAt, !.after = "recheck"] \in Local
      BY <1>o DEF Local
    <2> QED
      BY <1>13, <2>1 DEF ReadClaimed, Taking
  <1>14. CASE StatOwned(p) \/ OwnTransition(p) \/ Withdraw(p) \/ EraseTransition(p)
    BY <1>14, <1>g, <1>f DEF StatOwned, OwnTransition, Withdraw, EraseTransition, Taking, Looking
  <1>15. CASE Recheck(p)
    <2>1. [my[p] EXCEPT !.look = NoLook, !.after = "rename"] \in Local
      BY <1>e, Rests
    <2> QED
      BY <1>15, <2>1 DEF Recheck, Taking
  <1>16. CASE Rename(p)
    <2>1. path # None => [my[p] EXCEPT !.look.ino = path] \in Local
      BY DEF Local
    <2> QED
      BY <1>16, <1>f, <2>1 DEF Rename
  <1>17. CASE Frozen(p)
    BY <1>17, <1>r DEF Frozen
  <1> QED
    BY <1>1, <1>2, <1>3, <1>4, <1>5, <1>6, <1>7, <1>8, <1>9, <1>10, <1>11, <1>12, <1>13, <1>14, <1>15, <1>16,
       <1>17 DEF Step, Work, Inspect, Acquire, Move

\* What the invariant says of the process that takes the step.
LEMMA Working ==
  ASSUME LockInv, NEW p \in Proc, alive[p]
  PROVE  /\ Busy(p) => /\ path \in Ino /\ dir[path].use = "live" /\ made[p] \in 1..MaxTries
                       /\ dir[path].maker = [by |-> p, token |-> made[p]]
                       /\ pc[p] # "stat" => Gen(p).ino = path /\ Mine(p) \in Owner
         /\ pc[p] \in Claim \cup Taking \/ Looks(p, "recheck") =>
              Gen(p).ino \in Ino /\ MyTransition(p) \in Transition
         /\ MyTransition(p).by = p /\ None \notin Ino /\ None \notin Transition /\ None \notin Owner
         /\ ~Busy(p) => Reclaims(p) \/ pc[p] \notin Claim \cup Taking \cup Looking
  <1>l. /\ BusyAt(p) /\ Condemned(p) /\ LockTypeOK /\ path \in Ino \cup {None}
    BY DEF LockInv, LocalInv, LockTypeOK
  <1>1. ASSUME Busy(p)
        PROVE  /\ path \in Ino /\ dir[path].use = "live" /\ made[p] \in 1..MaxTries
               /\ dir[path].maker = [by |-> p, token |-> made[p]]
               /\ pc[p] # "stat" => Gen(p).ino = path
    <2>1. /\ path \in Ino /\ dir[path].maker = [by |-> p, token |-> made[p]]
          /\ pc[p] # "stat" => Gen(p).ino = path
      BY <1>l, <1>1 DEF BusyAt
    <2>2. dir[path].use = "live"
      BY <2>1 DEF LockInv, PathInv
    <2>3. dir[path].maker \in Maker
      BY <2>1, <2>2 DEF LockInv, PathInv
    <2>4. made[p] \in 1..MaxTries
      BY <2>1, <2>3 DEF Maker
    <2> QED
      BY <2>1, <2>2, <2>4
  <1>2. Busy(p) /\ pc[p] # "stat" => Mine(p) \in Owner
    BY <1>1 DEF Mine, Owner
  <1>3. pc[p] \in Claim \cup Taking \/ Looks(p, "recheck") => Busy(p) \/ Reclaims(p)
    BY DEF Busy, Looks
  <1>4. (pc[p] \in Claim \cup Taking \/ Looks(p, "recheck")) /\ Reclaims(p) => Gen(p).ino \in Ino
    BY <1>l DEF Condemned, Reclaiming
  <1>5. (pc[p] \in Claim \cup Taking \/ Looks(p, "recheck")) /\ ~Reclaims(p) => Gen(p).ino \in Ino
    BY <1>1, <1>3 DEF Claim, Taking, Looks, Looking
  <1>6. Gen(p).ino \in Ino => MyTransition(p) \in Transition
    BY DEF MyTransition, Transition, Kind
  <1>7. MyTransition(p).by = p
    BY DEF MyTransition
  <1>8. ~Busy(p) => Reclaims(p) \/ pc[p] \notin Claim \cup Taking \cup Looking
    BY DEF Busy
  <1> QED
    BY <1>1, <1>2, <1>4, <1>5, <1>6, <1>7, <1>8, LockAssumption

LEMMA DirectoryFields ==
  ASSUME dir \in [Ino -> Directory], NEW i \in Ino
  PROVE  /\ \A t \in SUBSET Owner : [dir EXCEPT ![i].tmp = t] \in [Ino -> Directory]
         /\ \A o \in Owner : [dir EXCEPT ![i].owner = o] \in [Ino -> Directory]
         /\ \A t \in Transition \cup {None} : [dir EXCEPT ![i].trans = t] \in [Ino -> Directory]
         /\ \A w \in SUBSET Proc : [dir EXCEPT ![i].witness = w] \in [Ino -> Directory]
         /\ [dir EXCEPT ![i].use = "retired"] \in [Ino -> Directory]
         /\ dir[i].tmp \subseteq Owner /\ dir[i].witness \subseteq Proc
         /\ dir[i].owner \in Owner \cup {None} /\ dir[i].trans \in Transition \cup {None}
  <1>1. dir[i] \in Directory
    OBVIOUS
  <1>2. /\ \A t \in SUBSET Owner : [dir[i] EXCEPT !.tmp = t] \in Directory
        /\ \A o \in Owner : [dir[i] EXCEPT !.owner = o] \in Directory
        /\ \A t \in Transition \cup {None} : [dir[i] EXCEPT !.trans = t] \in Directory
        /\ \A w \in SUBSET Proc : [dir[i] EXCEPT !.witness = w] \in Directory
        /\ [dir[i] EXCEPT !.use = "retired"] \in Directory
    BY <1>1 DEF Directory
  <1>3. \A d \in Directory : [dir EXCEPT ![i] = d] \in [Ino -> Directory]
    OBVIOUS
  <1>4. dir[i].tmp \subseteq Owner /\ dir[i].witness \subseteq Proc
        /\ dir[i].owner \in Owner \cup {None} /\ dir[i].trans \in Transition \cup {None}
    BY <1>1 DEF Directory
  <1> QED
    BY <1>2, <1>3, <1>4

LEMMA LockTypeStep ==
  ASSUME LockInv, ~Reuse, NEW p \in Proc, Step(p) \/ Crash(p)
  PROVE  LockTypeOK'
  <1> USE LockAssumption
  <1>t. /\ path \in Ino \cup {None} /\ dir \in [Ino -> Directory] /\ pc \in [Proc -> Stage]
        /\ my \in [Proc -> Local] /\ made \in [Proc -> 0..MaxTries]
        /\ alive \in [Proc -> BOOLEAN] /\ LockTypeOK
    BY DEF LockInv, LockTypeOK
  <1>1. CASE Crash(p)
    BY <1>t, <1>1 DEF Crash, LockTypeOK
  <1>2. CASE Step(p)
    <2>a. alive[p] /\ (StartTry(p) \/ Work(p))
      BY <1>2 DEF Step
    <2>1. pc' \in [Proc -> Stage] /\ my' \in [Proc -> Local]
      <3>1. pc[p] = "stat" => made[p] \in 1..MaxTries
        BY <2>a, Working DEF Busy, Making
      <3>2. PICK s \in Stage, m \in Local : To(p, s, m)
        BY <1>2, <1>t, <3>1, StepGoes
      <3> QED
        BY <1>t, <3>2, Goes
    <2>2. CASE MakeDirectory(p)
      <3>1. New(p) \in Directory
        <4>1. Free \in Directory /\ [by |-> p, token |-> made[p] + 1] \in Maker
          BY <1>t, <2>2 DEF Free, Directory, Maker, MakeDirectory
        <4>2. ASSUME NEW f \in Directory, NEW m \in Maker
              PROVE  [f EXCEPT !.use = "live", !.maker = m] \in Directory
          BY DEF Directory
        <4> QED
          BY <4>1, <4>2 DEF New
      <3> QED
        BY <1>t, <2>1, <2>2, <3>1 DEF MakeDirectory, LockTypeOK
    <2>3. CASE Rename(p)
      BY <1>t, <2>1, <2>3, DirectoryFields DEF Rename, LockTypeOK
    <2>4. ASSUME UNCHANGED <<path, made, alive>>, dir' \in [Ino -> Directory] PROVE LockTypeOK'
      BY <1>t, <2>1, <2>4 DEF LockTypeOK
    <2>5. CASE WriteOwner(p) \/ LinkOwner(p) \/ SweepTemporary(p)
      <3>1. path \in Ino /\ Mine(p) \in Owner
        BY <2>a, <2>5, Working DEF Busy, Making, WriteOwner, LinkOwner, SweepTemporary
      <3>2. /\ dir[path].tmp \cup {Mine(p)} \in SUBSET Owner /\ dir[path].tmp \ {Mine(p)} \in SUBSET Owner
        BY <1>t, <3>1, DirectoryFields
      <3>3. /\ [dir EXCEPT ![path].tmp = dir[path].tmp \cup {Mine(p)}] \in [Ino -> Directory]
            /\ [dir EXCEPT ![path].tmp = dir[path].tmp \ {Mine(p)}] \in [Ino -> Directory]
            /\ [dir EXCEPT ![path].owner = Mine(p)] \in [Ino -> Directory]
        BY <1>t, <3>1, <3>2, DirectoryFields
      <3>4. dir' \in [Ino -> Directory]
        BY <1>t, <2>5, <3>3 DEF WriteOwner, LinkOwner, SweepTemporary
      <3> QED
        BY <2>4, <2>5, <3>4 DEF WriteOwner, LinkOwner, SweepTemporary
    <2>6. CASE PlaceTransition(p) \/ UnlinkTransition(p) \/ EraseTransition(p)
      <3>1. pc[p] = "place" => MyTransition(p) \in Transition
        BY <2>a, Working DEF Claim
      <3>2. /\ path # None => [dir EXCEPT ![path].trans = None] \in [Ino -> Directory]
            /\ path # None /\ pc[p] = "place" =>
                 [dir EXCEPT ![path].trans = MyTransition(p)] \in [Ino -> Directory]
        BY <1>t, <3>1, DirectoryFields
      <3>3. dir' \in [Ino -> Directory]
        BY <1>t, <2>6, <3>2 DEF PlaceTransition, UnlinkTransition, EraseTransition, Unlinked
      <3> QED
        BY <2>4, <2>6, <3>3 DEF PlaceTransition, UnlinkTransition, EraseTransition
    <2>7. CASE PinTransition(p) \/ DropWitness(p)
      <3>1. Seen(p).by \in Proc
        BY <2>a, <2>7 DEF LockInv, LocalInv, ClearsDead, PinTransition, DropWitness, Transition
      <3>2. path # None => /\ dir[path].witness \cup {Seen(p).by} \in SUBSET Proc
                           /\ dir[path].witness \ {Seen(p).by} \in SUBSET Proc
        BY <1>t, <3>1, DirectoryFields
      <3>3. path = None => TransitionAt = None
        BY DEF TransitionAt
      <3>4. path # None =>
              /\ [dir EXCEPT ![path].witness = dir[path].witness \cup {Seen(p).by}] \in [Ino -> Directory]
              /\ [dir EXCEPT ![path].witness = dir[path].witness \ {Seen(p).by}] \in [Ino -> Directory]
        BY <1>t, <3>2, DirectoryFields
      <3>5. dir' \in [Ino -> Directory]
        BY <1>t, <2>7, <3>3, <3>4 DEF PinTransition, DropWitness
      <3> QED
        BY <2>4, <2>7, <3>5 DEF PinTransition, DropWitness
    <2>8. CASE Frozen(p)
      <3>1. dir' = dir
        BY <2>8 DEF Frozen
      <3> QED
        BY <1>t, <2>4, <2>8, <3>1 DEF Frozen
    <2>9. CASE \/ Inspect(p) \/ StartTry(p) \/ StatDirectory(p) \/ CheckOwner(p) \/ CheckTransition(p)
               \/ FindLock(p) \/ JudgeLock(p) \/ Release(p) \/ Leave(p) \/ ClaimTransition(p)
      BY <1>t, <2>4, <2>9 DEF Inspect, StatLock, ReadOwner, ListOwners, ReadTemporary, StartTry,
         StatDirectory, CheckOwner, CheckTransition, FindLock, JudgeLock, Release, Leave, ClaimTransition
    <2>10. CASE \/ ReadExisting(p) \/ ReadPinned(p) \/ ReadClaimed(p) \/ StatOwned(p)
                \/ OwnTransition(p) \/ Withdraw(p) \/ Recheck(p)
      BY <1>t, <2>4, <2>10 DEF ReadExisting, ReadPinned, ReadClaimed, StatOwned, OwnTransition, Withdraw,
         Recheck
    <2> QED
      BY <2>a, <2>2, <2>3, <2>5, <2>6, <2>7, <2>8, <2>9, <2>10 DEF Work, Acquire, Move
  <1> QED
    BY <1>1, <1>2


\* The calls of inspectLock: what each finds.
LEMMA InspectSteps ==
  ASSUME LockTypeOK, NEW p \in Proc, Inspect(p)
  PROVE  /\ UNCHANGED <<path, dir, made, alive>> /\ Alike(my'[p], my[p]) /\ pc[p] \in Looking
         /\ \/ /\ pc[p] = "look" /\ path = None /\ pc'[p] = my[p].after /\ my'[p].look = my[p].look
            \/ /\ pc[p] = "look" /\ path # None /\ pc'[p] = "owner" /\ my'[p].look.ino = path
               /\ my'[p].look.maker = dir[path].maker /\ my'[p].look.owner = my[p].look.owner
            \/ /\ pc[p] = "owner" /\ path # None /\ dir[path].owner # None /\ pc'[p] = my[p].after
               /\ my'[p].look.ino = my[p].look.ino /\ my'[p].look.maker = my[p].look.maker
               /\ my'[p].look.owner = dir[path].owner
            \/ /\ pc[p] = "owner" /\ OwnerAt = None /\ pc'[p] = "list" /\ my'[p].look = my[p].look
            \/ /\ pc[p] = "list" /\ pc'[p] \in {"temp", my[p].after}
               /\ my'[p].look.ino = my[p].look.ino /\ my'[p].look.maker = my[p].look.maker
               /\ my'[p].look.owner = my[p].look.owner
            \/ /\ pc[p] = "temp" /\ pc'[p] = my[p].after
               /\ my'[p].look.ino = my[p].look.ino /\ my'[p].look.maker = my[p].look.maker
               /\ my'[p].look.owner = None \/ my'[p].look.owner \in TemporariesAt
  <1>l. my[p] \in Local /\ Alike(my[p], my[p])
    BY DEF LockTypeOK, Alike
  <1>t. \A s, m : To(p, s, m) => pc'[p] = s /\ my'[p] = m
    BY DEF LockTypeOK, To
  <1>1. CASE StatLock(p)
    <2>1. CASE path = None
      BY <1>l, <1>t, <1>1, <2>1 DEF StatLock, Goto, Looking
    <2>2. CASE path # None
      <3> DEFINE m == [my[p] EXCEPT !.look.ino = path, !.look.maker = dir[path].maker]
      <3>1. Alike(m, my[p]) /\ m.look.ino = path /\ m.look.maker = dir[path].maker
            /\ m.look.owner = my[p].look.owner
        BY <1>l DEF Local, Alike
      <3>2. pc[p] = "look" /\ pc'[p] = "owner" /\ my'[p] = m
        BY <1>t, <1>1, <2>2 DEF StatLock
      <3> HIDE DEF m
      <3> QED
        BY <1>1, <2>2, <3>1, <3>2 DEF StatLock, Looking
    <2> QED
      BY <2>1, <2>2
  <1>2. CASE ReadOwner(p)
    <2>1. CASE OwnerAt = None
      BY <1>l, <1>t, <1>2, <2>1 DEF ReadOwner, Goto, Looking
    <2>2. CASE OwnerAt # None
      <3> DEFINE m == [my[p] EXCEPT !.look.owner = OwnerAt]
      <3>1. /\ Alike(m, my[p]) /\ m.look.ino = my[p].look.ino /\ m.look.maker = my[p].look.maker
            /\ m.look.owner = OwnerAt
        BY <1>l DEF Local, Alike
      <3>2. pc[p] = "owner" /\ pc'[p] = my[p].after /\ my'[p] = m
        BY <1>t, <1>2, <2>2 DEF ReadOwner
      <3>3. path # None /\ dir[path].owner = OwnerAt
        BY <2>2 DEF OwnerAt
      <3> HIDE DEF m
      <3> QED
        BY <1>2, <2>2, <3>1, <3>2, <3>3 DEF ReadOwner, Looking
    <2> QED
      BY <2>1, <2>2
  <1>3. CASE ListOwners(p)
    <2>1. ASSUME NEW t \in TemporariesAt, To(p, "temp", [my[p] EXCEPT !.look.temp = t])
          PROVE  /\ Alike(my'[p], my[p]) /\ pc'[p] = "temp"
                 /\ my'[p].look.ino = my[p].look.ino /\ my'[p].look.maker = my[p].look.maker
                 /\ my'[p].look.owner = my[p].look.owner
      <3> DEFINE m == [my[p] EXCEPT !.look.temp = t]
      <3>1. /\ Alike(m, my[p]) /\ m.look.ino = my[p].look.ino /\ m.look.maker = my[p].look.maker
            /\ m.look.owner = my[p].look.owner
        BY <1>l DEF Local, Alike
      <3>2. pc'[p] = "temp" /\ my'[p] = m
        BY <1>t, <2>1
      <3> HIDE DEF m
      <3> QED
        BY <3>1, <3>2
    <2>2. ASSUME Goto(p, my[p].after)
          PROVE  pc'[p] = my[p].after /\ my'[p] = my[p]
      BY <1>t, <2>2 DEF Goto
    <2> QED
      BY <1>l, <1>3, <2>1, <2>2 DEF ListOwners, Looking
  <1>4. CASE ReadTemporary(p)
    <2>1. PICK o : /\ o = None \/ o \in TemporariesAt
                   /\ To(p, my[p].after, [my[p] EXCEPT !.look.temp = None, !.look.owner = o])
      BY <1>4 DEF ReadTemporary
    <2> DEFINE m == [my[p] EXCEPT !.look.temp = None, !.look.owner = o]
    <2>2. /\ Alike(m, my[p]) /\ m.look.ino = my[p].look.ino /\ m.look.maker = my[p].look.maker
          /\ m.look.owner = o
      BY <1>l DEF Local, Alike
    <2>3. pc[p] = "temp" /\ pc'[p] = my[p].after /\ my'[p] = m
      BY <1>t, <1>4, <2>1 DEF ReadTemporary
    <2> HIDE DEF m
    <2> QED
      BY <1>4, <2>1, <2>2, <2>3 DEF ReadTemporary, Looking
  <1> QED
    BY <1>1, <1>2, <1>3, <1>4 DEF Inspect

-----------------------------------------------------------------------------
(* What a step leaves alone.                                                 *)

\* The process r has not taken the step.
Idles(r) == pc'[r] = pc[r] /\ my'[r] = my[r] /\ made'[r] = made[r]

LEMMA OnlyOneMoves ==
  ASSUME LockInv, NEW p \in Proc, Step(p)
  PROVE  /\ alive[p] /\ alive' = alive
         /\ \A r \in Proc : r # p => Idles(r)
         /\ \A r \in Proc : made[r] \in Nat /\ (made'[r] = made[r] \/ MakeDirectory(p))
  <1>1. alive[p] /\ (StartTry(p) \/ Work(p))
    BY DEF Step
  <1>2. LockTypeOK /\ made \in [Proc -> 0..MaxTries] /\ MaxTries \in Nat
    BY LockAssumption DEF LockInv, LockTypeOK
  <1>3. pc[p] = "stat" => made[p] \in 1..MaxTries
    BY <1>1, Working DEF Busy, Making
  <1>4. PICK s \in Stage, m \in Local : To(p, s, m)
    BY <1>2, <1>3, StepGoes
  <1>5. \A r \in Proc : r # p => pc'[r] = pc[r] /\ my'[r] = my[r]
    BY <1>2, <1>4, Goes
  <1>6. alive' = alive /\ (UNCHANGED made \/ MakeDirectory(p))
    <2>1. CASE Inspect(p) \/ Release(p) \/ StartTry(p)
      BY <2>1 DEF Inspect, StatLock, ReadOwner, ListOwners, ReadTemporary, StartTry, Release
    <2>2. CASE Acquire(p)
      BY <2>2 DEF Acquire, MakeDirectory, StatDirectory, WriteOwner, LinkOwner, SweepTemporary, CheckOwner,
         CheckTransition, FindLock, JudgeLock
    <2>3. CASE Move(p)
      BY <2>3 DEF Move, Leave, ClaimTransition, PlaceTransition, ReadExisting, PinTransition, ReadPinned,
         UnlinkTransition, DropWitness, ReadClaimed, StatOwned, OwnTransition, Withdraw, EraseTransition,
         Recheck, Rename, Frozen
    <2> QED
      BY <1>1, <2>1, <2>2, <2>3 DEF Work
  <1>7. \A r \in Proc : r # p => made'[r] = made[r]
    BY <1>2, <1>6 DEF MakeDirectory
  <1> QED
    BY <1>1, <1>2, <1>5, <1>6, <1>7 DEF Idles

\* Who is busy has made a directory.
LEMMA BusyFrom ==
  ASSUME LockInv, NEW p \in Proc, Step(p), ~MakeDirectory(p), ~Busy(p)
  PROVE  ~Busy(p)'
  <1>l. /\ RestsEmpty(p) /\ ReturnsRight(p) /\ LockTypeOK /\ my \in [Proc -> Local] /\ pc \in [Proc -> Stage]
        /\ my[p].after \in {"judge", "check", "leave", "recheck", "rename"}
    BY DEF LockInv, LocalInv, LockTypeOK, Local
  <1>r. \A s : Rest(p, s) => pc'[p] = s /\ my'[p].mode = "reclaim" /\ my'[p].after = "judge"
    BY <1>l, Rests DEF Rest, To
  <1>g. \A s : Goto(p, s) => pc'[p] = s /\ my'[p] = my[p]
    BY <1>l DEF Goto, To
  <1>f. Reclaims(p) /\ (Failed(p) \/ NotMoved(p) \/ GivenUp(p)) =>
          pc'[p] \in {"try", "idle"} /\ my'[p].mode = "reclaim"
    BY <1>r DEF Failed, NotMoved, GivenUp
  <1>i. pc[p] \notin Making \cup {"held"}
    BY DEF Busy
  <1>m. pc[p] \in {"leave"} \cup Looking \cup Claim \cup Taking => Reclaims(p)
    BY DEF Busy
  <1>k. pc[p] \in Looking => my[p].after # "check"
    BY DEF Busy, Looks
  <1>e. ASSUME my'[p].mode = "reclaim", pc'[p] \notin Making \cup {"held"},
               pc'[p] \in Looking => my'[p].after # "check"
        PROVE  ~Busy(p)'
    BY <1>e DEF Busy, Looks, Reclaims
  <1>c. (pc[p] \in Claim \cup Taking \cup Looking => pc[p] \notin Making) /\ Kept(p).mode = my[p].mode
    BY <1>l, Keeps DEF Claim, Taking, Looking, Making
  <1>1. CASE StartTry(p) \/ FindLock(p) \/ JudgeLock(p) \/ Frozen(p)
    <2>1. CASE StartTry(p) \/ FindLock(p)
      <3>1. my'[p] = AtRest /\ pc'[p] \in {"try", "look"}
        BY <1>l, <1>g, <2>1 DEF StartTry, FindLock, RestsEmpty
      <3> QED
        BY <1>e, <3>1, Rests DEF Making, Looking
    <2>2. CASE JudgeLock(p)
      <3>1. [AtRest EXCEPT !.gen = [ino |-> Look(p).ino, owner |-> Look(p).owner]].mode = "reclaim"
        BY Rests DEF Local
      <3>2. my'[p].mode = "reclaim" /\ pc'[p] \in {"claim", "try", "idle"}
        BY <1>l, <1>r, <2>2, <3>1 DEF JudgeLock, To
      <3> QED
        BY <1>e, <3>2 DEF Making, Looking
    <2>3. CASE Frozen(p)
      <3>1. my'[p].mode = "reclaim" /\ pc'[p] \in {"try", "idle"}
        BY <1>r, <2>3 DEF Frozen
      <3> QED
        BY <1>e, <3>1 DEF Making, Looking
    <2> QED
      BY <1>1, <2>1, <2>2, <2>3
  <1>2. CASE Inspect(p)
    <2>1. pc[p] \in Looking /\ my'[p].mode = my[p].mode /\ my'[p].after = my[p].after
          /\ pc'[p] \in {"owner", "list", "temp", my[p].after}
      BY <1>l, <1>2, InspectSteps DEF Alike
    <2> QED
      BY <1>e, <1>m, <1>k, <2>1, <1>l DEF Reclaims, Looking, Making, Busy, Looks
  <1>3. CASE Leave(p) \/ Recheck(p) \/ Rename(p)
    <2>0. /\ [my[p] EXCEPT !.look = NoLook, !.after = "rename"].mode = my[p].mode
          /\ [my[p] EXCEPT !.look.ino = path].mode = my[p].mode
      BY <1>l DEF Local
    <2>1. my'[p].mode = "reclaim" /\ pc'[p] \in {"claim", "idle", "try", "ownStat", "withdraw", "frozen"}
      BY <1>l, <1>3, <1>m, <1>c, <1>r, <1>f, <2>0 DEF Leave, Recheck, Rename, To, Reclaims, Taking
    <2> QED
      BY <1>e, <2>1 DEF Making, Looking
  <1>4. CASE ClaimTransition(p) \/ PlaceTransition(p) \/ ReadExisting(p) \/ PinTransition(p) \/ ReadPinned(p)
    <2>1. my'[p].mode = "reclaim" /\ pc'[p] \in Claim \cup {"idle", "try"}
      BY <1>l, <1>4, <1>m, <1>g, <1>f DEF ClaimTransition, PlaceTransition, ReadExisting, PinTransition,
         ReadPinned, To, Local, Reclaims, Claim
    <2> QED
      BY <1>e, <2>1 DEF Making, Looking, Claim
  <1>5. CASE UnlinkTransition(p) \/ DropWitness(p) \/ ReadClaimed(p)
    <2>1. /\ [my[p] EXCEPT !.again = TRUE].mode = my[p].mode
          /\ [Kept(p) EXCEPT !.again = TRUE].mode = my[p].mode
          /\ [Kept(p) EXCEPT !.seen = TransitionAt, !.after = "recheck"].mode = my[p].mode
      BY <1>l, Keeps DEF Local
    <2>2. my'[p].mode = "reclaim" /\ pc'[p] \in Claim \cup {"idle", "try", "withdraw", "ownStat"}
      BY <1>l, <1>5, <1>m, <1>f, <2>1 DEF UnlinkTransition, DropWitness, ReadClaimed, To, Reclaims, Claim
    <2> QED
      BY <1>e, <2>2 DEF Making, Looking, Claim
  <1>6. CASE StatOwned(p) \/ OwnTransition(p) \/ Withdraw(p) \/ EraseTransition(p)
    <2>1. /\ my'[p].mode = "reclaim"
          /\ pc'[p] \in {"ownTrans", "withdraw", "erase", "rename", "idle", "try", "look"}
          /\ pc'[p] = "look" => my'[p].after = "recheck"
      BY <1>l, <1>6, <1>m, <1>g, <1>f DEF StatOwned, OwnTransition, Withdraw, EraseTransition, Reclaims, Taking
    <2> QED
      BY <1>e, <2>1 DEF Making, Looking
  <1>7. CASE \/ StatDirectory(p) \/ WriteOwner(p) \/ LinkOwner(p) \/ SweepTemporary(p) \/ CheckOwner(p)
             \/ CheckTransition(p) \/ Release(p)
    BY <1>7, <1>i DEF StatDirectory, WriteOwner, LinkOwner, SweepTemporary, CheckOwner, CheckTransition,
       Release, Making
  <1> QED
    BY <1>1, <1>2, <1>3, <1>4, <1>5, <1>6, <1>7 DEF Step, Work, Acquire, Move

\* A directory that nobody is busy with stays so: a process makes every directory with a new token.
LEMMA OverStays ==
  ASSUME LockInv, NEW p \in Proc, Step(p) \/ Crash(p), NEW i \in Ino, dir[i].use # "free",
         dir'[i].maker = dir[i].maker, Over(i)
  PROVE  Over(i)'
  <1> DEFINE m == dir[i].maker
  <1>1. m.by \in Proc /\ m.token \in Nat /\ m.token <= made[m.by]
    BY LockAssumption DEF LockInv, PathInv, Maker
  <1>2. ~(alive[m.by] /\ made[m.by] = m.token /\ Busy(m.by))
    BY DEF Over
  <1>3. (~(alive[m.by] /\ made[m.by] = m.token /\ Busy(m.by)))' => Over(i)'
    BY DEF Over
  <1>4. m' = m
    OBVIOUS
  <1> HIDE DEF m
  <1>5. CASE Crash(p)
    <2>1. UNCHANGED <<pc, my, made>> /\ (alive'[m.by] => alive[m.by])
      BY <1>1, <1>5 DEF Crash, LockInv, LockTypeOK
    <2>2. Busy(m.by)' => Busy(m.by)
      BY <1>1, <1>4, <2>1 DEF Busy, Looks, Reclaims
    <2> QED
      BY <1>2, <1>3, <1>4, <2>1, <2>2
  <1>6. CASE Step(p) /\ m.by # p
    <2>1. alive' = alive /\ Idles(m.by)
      BY <1>1, <1>6, OnlyOneMoves
    <2>2. Busy(m.by)' => Busy(m.by)
      BY <1>1, <1>4, <2>1 DEF Busy, Looks, Reclaims, Idles
    <2> QED
      BY <1>2, <1>3, <1>4, <2>1, <2>2 DEF Idles
  <1>7. CASE Step(p) /\ m.by = p
    <2>1. alive[p] /\ alive' = alive /\ made[p] \in Nat /\ (made'[p] = made[p] \/ MakeDirectory(p))
      BY <1>7, OnlyOneMoves
    <2>2. CASE MakeDirectory(p)
      <3>1. made'[p] = made[p] + 1
        BY <2>2 DEF MakeDirectory, LockInv, LockTypeOK
      <3>2. made'[p] # m.token
        BY <1>1, <1>7, <2>1, <3>1
      <3> QED
        BY <1>3, <1>4, <1>7, <3>2
    <2>3. CASE ~MakeDirectory(p)
      <3>1. Busy(p)' => Busy(p)
        BY <1>7, <2>3, BusyFrom
      <3> QED
        BY <1>2, <1>3, <1>4, <1>7, <2>1, <2>3, <3>1
    <2> QED
      BY <2>2, <2>3
  <1> QED
    BY <1>5, <1>6, <1>7

\* Directories stay what they were, and where they were, and so do published owners.
SameDirectories ==
  /\ path' = path
  /\ \A i \in Ino : /\ dir'[i].use = dir[i].use /\ dir'[i].maker = dir[i].maker
                    /\ dir[i].owner # None => dir'[i].owner = dir[i].owner

SameRecords     == \A i \in Ino : dir'[i].owner = dir[i].owner /\ dir'[i].tmp = dir[i].tmp
SameTransitions == \A i \in Ino : dir'[i].trans = dir[i].trans /\ dir'[i].witness = dir[i].witness

LEMMA OthersGoOn ==
  ASSUME LockInv, NEW p \in Proc, Step(p), NEW r \in Proc, r # p, SameDirectories,
         SameRecords \/ Busy(p)
  PROVE  /\ RestsEmpty(r)' /\ BusyAt(r)' /\ ReturnsRight(r)' /\ FoundBefore(r)' /\ Condemned(r)'
         /\ LookedAgain(r)'
  <1>1. alive[p] /\ alive' = alive /\ Idles(r)
    BY OnlyOneMoves
  <1>2. /\ RestsEmpty(r) /\ BusyAt(r) /\ ReturnsRight(r) /\ FoundBefore(r) /\ Condemned(r) /\ LookedAgain(r)
        /\ path \in Ino \cup {None} /\ my[r] \in Local
    BY DEF LockInv, LocalInv, LockTypeOK
  <1>3. (Busy(r)' <=> Busy(r)) /\ \A s : Looks(r, s)' <=> Looks(r, s)
    BY <1>1 DEF Busy, Looks, Reclaims, Idles
  <1>4. RestsEmpty(r)' /\ ReturnsRight(r)'
    BY <1>1, <1>2, <1>3 DEF RestsEmpty, ReturnsRight, Idles, Reclaims
  <1>5. BusyAt(r)'
    <2>1. CASE Busy(p)
      <3>1. alive[r] /\ Busy(r) => path # None /\ dir[path].maker = [by |-> r, token |-> made[r]]
        BY <1>2 DEF BusyAt
      <3>2. dir[path].maker = [by |-> p, token |-> made[p]]
        BY <1>1, <2>1, Working
      <3>3. ~(alive[r] /\ Busy(r))
        BY <3>1, <3>2
      <3> QED
        BY <1>1, <1>3, <3>3 DEF BusyAt
    <2>2. CASE SameRecords
      BY <1>1, <1>2, <1>3, <2>2 DEF BusyAt, SameDirectories, SameRecords, Idles, Mine, Gen, Reclaims
    <2> QED
      BY <2>1, <2>2
  <1>6. FoundBefore(r)'
    <2>1. my[r].look.owner # None => my[r].look.owner.ino \in Ino
      BY <1>2, LockAssumption DEF Local, Owner
    <2> QED
      BY <1>1, <1>2, <2>1 DEF FoundBefore, Look, RecordOf, Idles, SameDirectories
  <1>7. \A i \in Ino : dir[i].use # "free" /\ Over(i) => Over(i)'
    BY OverStays DEF SameDirectories
  <1>8. Condemned(r)'
    <2> SUFFICES ASSUME (Reclaiming(r) /\ (pc[r] \in Claim \cup Taking \/ Looks(r, "recheck")))'
                 PROVE  (LET i == Gen(r).ino
                         IN /\ i \in Ino /\ dir[i].use # "free"
                            /\ \/ Over(i) \/ dir[i].use = "retired"
                               \/ dir[i].owner # None /\ (Gen(r).owner = None \/ Gen(r).owner.ino # i))'
      BY DEF Condemned
    <2>1. Reclaiming(r) /\ (pc[r] \in Claim \cup Taking \/ Looks(r, "recheck"))
      BY <1>1, <1>3 DEF Idles, Reclaiming, Reclaims
    <2>2. Gen(r)' = Gen(r)
      BY <1>1 DEF Idles, Gen
    <2> QED
      BY <1>2, <1>7, <2>1, <2>2 DEF Condemned, SameDirectories
  <1>9. LookedAgain(r)'
    <2> SUFFICES ASSUME Reclaiming(r)' PROVE LookedAgain(r)'
      BY DEF LookedAgain
    <2>1. Reclaiming(r) /\ Gen(r)' = Gen(r) /\ Look(r)' = Look(r)
      BY <1>1 DEF Idles, Reclaiming, Reclaims, Gen, Look
    <2>2. pc[r] \in Taking \/ Looks(r, "recheck") => Gen(r).ino \in Ino /\ dir[Gen(r).ino].use # "free"
      BY <1>2, <2>1 DEF Condemned
    <2>3. (pc[r] \in Taking \/ Looks(r, "recheck")) /\ Over(Gen(r).ino) => Over(Gen(r).ino)'
      BY <1>7, <2>1, <2>2
    <2> QED
      BY <1>1, <1>2, <2>1, <2>3 DEF LookedAgain, Idles, Taking, Looks, Looking
  <1> QED
    BY <1>4, <1>5, <1>6, <1>8, <1>9

LEMMA OthersMove ==
  ASSUME LockInv, NEW p \in Proc, Step(p), NEW r \in Proc, r # p, SameDirectories, SameTransitions
  PROVE  Placed(r)' /\ ClearsDead(r)'
  <1>1. alive' = alive /\ Idles(r) /\ path \in Ino \cup {None}
    BY OnlyOneMoves DEF LockInv, LockTypeOK
  <1>2. Placed(r) /\ ClearsDead(r)
    BY DEF LockInv, LocalInv
  <1>3. MyTransition(r)' = MyTransition(r) /\ (At(r)' <=> At(r)) /\ Seen(r)' = Seen(r)
    BY <1>1 DEF MyTransition, At, Idles, Gen, Reclaims, Seen, SameDirectories
  <1>4. Placed(r)'
    BY <1>1, <1>2, <1>3 DEF Placed, Idles, Looks, SameDirectories, SameTransitions
  <1>5. ClearsDead(r)'
    BY <1>1, <1>2, <1>3 DEF ClearsDead, Idles, TransitionAt, SameDirectories, SameTransitions
  <1> QED
    BY <1>4, <1>5

LEMMA SamePathInv ==
  ASSUME LockInv, NEW p \in Proc, Step(p), ~MakeDirectory(p), SameDirectories
  PROVE  PathInv'
  <1>1. \A r \in Proc : made'[r] = made[r]
    BY OnlyOneMoves
  <1>2. \A i \in Ino : dir[i].use # "free" => dir[i].maker.by \in Proc
    BY DEF LockInv, PathInv, Maker
  <1> QED
    BY <1>1, <1>2 DEF LockInv, PathInv, SameDirectories

LEMMA StepInv ==
  ASSUME LockInv, LockTypeOK', NEW p \in Proc, Step(p), PathInv', RecordsInv', LocalInv(p)',
         \A r \in Proc : r # p => LocalInv(r)',
         Clearing(p)' => Clearing(p) \/ \A r \in Proc : ~Clearing(r)
  PROVE  LockInv'
  <1>1. \A r \in Proc : r # p => (Clearing(r)' <=> Clearing(r))
    BY OnlyOneMoves DEF Clearing, Idles
  <1>2. OneClears'
    BY <1>1 DEF OneClears, LockInv
  <1>3. \A r \in Proc : LocalInv(r)'
    OBVIOUS
  <1> QED
    BY <1>2, <1>3 DEF LockInv

\* A step that changes nothing but the variables of its process.
LEMMA QuietStep ==
  ASSUME LockInv, LockTypeOK', NEW p \in Proc, Step(p), ~MakeDirectory(p), UNCHANGED <<path, dir>>,
         LocalInv(p)', Clearing(p)' => Clearing(p)
  PROVE  LockInv'
  <1>1. SameDirectories /\ SameRecords /\ SameTransitions
    BY DEF SameDirectories, SameRecords, SameTransitions
  <1>2. ASSUME NEW r \in Proc, r # p PROVE LocalInv(r)'
    BY <1>1, <1>2, OthersGoOn, OthersMove DEF LocalInv
  <1>3. RecordsInv'
    BY DEF LockInv, RecordsInv, RecordOf
  <1> QED
    BY <1>1, <1>2, <1>3, SamePathInv, StepInv

-----------------------------------------------------------------------------
(* Looking: what a process finds is of directories that were there.          *)

LEMMA InspectInv ==
  ASSUME LockInv, LockTypeOK', NEW p \in Proc, Step(p), Inspect(p)
  PROVE  LockInv'
  <1>s. /\ path' = path /\ dir' = dir /\ made' = made /\ alive' = alive /\ pc[p] \in Looking /\ Gen(p)' = Gen(p)
        /\ Seen(p)' = Seen(p) /\ (Reclaims(p)' <=> Reclaims(p)) /\ my'[p].after = my[p].after
        /\ pc'[p] \in {"owner", "list", "temp", my[p].after}
    BY InspectSteps DEF LockInv, Alike, Gen, Seen, Reclaims
  <1>l. /\ BusyAt(p) /\ ReturnsRight(p) /\ FoundBefore(p) /\ Condemned(p) /\ LookedAgain(p) /\ Placed(p)
        /\ path \in Ino \cup {None} /\ my[p] \in Local
        /\ my[p].after \in {"judge", "check", "leave", "recheck", "rename"} /\ LockTypeOK
    BY DEF LockInv, LocalInv, LockTypeOK, Local
  <1>a. my[p].after \in {"judge", "check", "leave", "recheck"} /\ alive[p] /\ ~MakeDirectory(p)
    BY <1>s, <1>l DEF ReturnsRight, Step, MakeDirectory, Looking
  <1>p. path # None => path \in Ino /\ dir[path].use = "live"
    BY <1>l DEF LockInv, PathInv
  <1>o. \A i \in Ino : dir[i].use # "free" /\ Over(i) => Over(i)'
    BY <1>s, OverStays
  <1>1. RestsEmpty(p)' /\ ReturnsRight(p)' /\ ClearsDead(p)' /\ ~Clearing(p)'
    BY <1>s, <1>l, <1>a DEF RestsEmpty, ReturnsRight, ClearsDead, Clearing, Looks, Looking
  <1>2. BusyAt(p)'
    <2>1. Busy(p)' => Busy(p)
      BY <1>a, BusyFrom
    <2>2. Mine(p)' = Mine(p)
      BY <1>s DEF Mine
    <2>3. pc[p] \notin {"stat", "tmp", "link"} /\ pc'[p] \notin {"stat", "tmp", "link", "held"}
      BY <1>s, <1>a DEF Looking
    <2>4. Busy(p) => /\ path # None /\ dir[path].maker = [by |-> p, token |-> made[p]]
                     /\ Gen(p).ino = path /\ dir[path].owner = Mine(p)
      BY <1>l, <1>a, <2>3 DEF BusyAt
    <2> QED
      BY <1>s, <2>1, <2>2, <2>3, <2>4 DEF BusyAt
  <1>3. FoundBefore(p)'
    <2>1. FoundBefore(p) /\ pc[p] # "frozen"
      BY <1>s, <1>l DEF Looking
    <2>2. my[p].look.owner # None => my[p].look.owner.ino \in Ino
      BY <1>l, LockAssumption DEF Local, Owner
    <2>3. path # None => /\ dir[path].owner # None => RecordOf(dir[path].owner, dir[path].owner.ino)
                                                        /\ dir[path].owner.ino = path
                         /\ \A t \in dir[path].tmp : RecordOf(t, t.ino) /\ t.ino = path
      <3>1. \A t : RecordOf(t, path) => t.ino = path /\ RecordOf(t, t.ino)
        BY DEF RecordOf
      <3> QED
        BY <1>p, <3>1 DEF LockInv, RecordsInv
    <2>4. my'[p].look.ino # None => /\ my'[p].look.ino \in Ino /\ dir[my'[p].look.ino].use # "free"
                                    /\ my'[p].look.maker = dir[my'[p].look.ino].maker
      BY <1>l, <1>p, <2>1, InspectSteps DEF FoundBefore, Look
    <2>5. my'[p].look.owner # None => /\ dir[my'[p].look.owner.ino].use # "free"
                                      /\ RecordOf(my'[p].look.owner, my'[p].look.owner.ino)
      BY <1>l, <1>p, <2>1, <2>3, InspectSteps DEF FoundBefore, Look, TemporariesAt
    <2> QED
      BY <1>s, <2>4, <2>5 DEF FoundBefore, Look, RecordOf
  <1>4. Condemned(p)'
    <2> SUFFICES ASSUME (Reclaiming(p) /\ (pc[p] \in Claim \cup Taking \/ Looks(p, "recheck")))'
                 PROVE  (LET i == Gen(p).ino
                         IN /\ i \in Ino /\ dir[i].use # "free"
                            /\ \/ Over(i) \/ dir[i].use = "retired"
                               \/ dir[i].owner # None /\ (Gen(p).owner = None \/ Gen(p).owner.ino # i))'
      BY DEF Condemned
    <2>1. Reclaiming(p) /\ Looks(p, "recheck")
      BY <1>s, <1>a DEF Reclaiming, Looks, Claim, Taking, Looking
    <2> QED
      BY <1>s, <1>l, <1>o, <2>1 DEF Condemned
  <1>5. Placed(p)'
    <2>1. MyTransition(p)' = MyTransition(p) /\ (At(p)' <=> At(p))
      BY <1>s DEF MyTransition, At
    <2>2. pc'[p] \in {"confirm", "ownStat", "ownTrans"} \cup Taking \/ Looks(p, "recheck")'
            => Looks(p, "recheck")
      BY <1>s, <1>a DEF Looks, Taking, Looking
    <2>3. pc'[p] # "confirm" /\ pc[p] # "confirm"
      BY <1>s, <1>a DEF Looking
    <2> QED
      BY <1>s, <1>a, <1>l, <2>1, <2>2, <2>3 DEF Placed, Taking
  <1>6. LookedAgain(p)'
    <2> SUFFICES ASSUME Reclaiming(p)' PROVE LookedAgain(p)'
      BY DEF LookedAgain
    <2>1. Reclaiming(p) /\ pc'[p] \notin {"rename", "ownStat", "ownTrans"}
      BY <1>s, <1>a DEF Reclaiming
    <2>2. CASE my[p].after # "recheck"
      BY <1>s, <1>a, <2>1, <2>2 DEF LookedAgain
    <2>3. CASE my[p].after = "recheck"
      <3> DEFINE i == Gen(p).ino
      <3>1. Looks(p, "recheck") /\ path = i /\ path # None /\ i \in Ino /\ dir[i].use = "live"
        BY <1>s, <1>a, <1>l, <1>p, <2>3 DEF Looks, Placed, At
      <3>2. Over(i) \/ (dir[i].owner # None /\ (Gen(p).owner = None \/ Gen(p).owner.ino # i))
        BY <1>l, <2>1, <3>1 DEF Condemned
      <3>3. Over(i) => Over(i)'
        BY <1>s, <1>o, <3>1
      <3>4. pc[p] = "owner" /\ pc'[p] = "list" => Over(i)
        <4>1. ASSUME OwnerAt = None PROVE Over(i)
          BY <3>1, <3>2, <4>1 DEF OwnerAt
        <4> QED
          BY <1>l, <2>3, <4>1, InspectSteps
      <3>5. pc[p] \in {"list", "temp"} => Over(i)
        BY <1>l, <2>1, <2>3 DEF LookedAgain
      <3>6. pc'[p] = "recheck" => \/ Over(i)
                                  \/ my'[p].look.owner # None /\ my'[p].look.owner.ino = i
        <4>1. dir[i].owner # None => dir[i].owner.ino = i
          BY <3>1 DEF LockInv, RecordsInv, RecordOf
        <4> QED
          BY <1>l, <2>3, <3>1, <3>5, <4>1, InspectSteps
      <3>7. pc'[p] \in {"list", "temp"} => Over(i)
        BY <1>l, <2>3, <3>4, <3>5, InspectSteps
      <3>8. i' = i /\ Look(p)' = my'[p].look
        BY <1>s DEF Look
      <3> HIDE DEF i
      <3>9. /\ pc'[p] \in {"list", "temp"} => Over(i)'
            /\ pc'[p] = "recheck" => \/ Over(i)'
                                     \/ Look(p)'.owner # None /\ Look(p)'.owner.ino = i
        BY <3>3, <3>6, <3>7, <3>8
      <3> QED
        BY <2>1, <3>8, <3>9 DEF LookedAgain, i
    <2> QED
      BY <2>2, <2>3
  <1> QED
    BY <1>s, <1>a, <1>1, <1>2, <1>3, <1>4, <1>5, <1>6, QuietStep DEF LocalInv

-----------------------------------------------------------------------------
(* What holds of a process that goes on, or gives up.                        *)

LEMMA RestInv ==
  ASSUME LockInv, NEW p \in Proc, pc'[p] \in {"idle", "try"}, my'[p] = AtRest
  PROVE  LocalInv(p)' /\ ~Clearing(p)'
  <1>1. ~Busy(p)' /\ RestsEmpty(p)' /\ ReturnsRight(p)'
    BY DEF Busy, Looks, RestsEmpty, ReturnsRight, Making, Looking, Claim, Taking
  <1>2. FoundBefore(p)'
    BY Rests DEF FoundBefore, Look, NoLook
  <1>3. Condemned(p)' /\ LookedAgain(p)' /\ Placed(p)' /\ ClearsDead(p)' /\ ~Clearing(p)'
    BY DEF Condemned, LookedAgain, Placed, ClearsDead, Clearing, Looks, Looking, Claim, Taking
  <1> QED
    BY <1>1, <1>2, <1>3 DEF LocalInv, BusyAt

LEMMA BusyGoesOn ==
  ASSUME LockInv, NEW p \in Proc, Step(p), ~MakeDirectory(p), SameDirectories, Gen(p)' = Gen(p),
         pc[p] \notin {"stat", "tmp", "link"}, pc'[p] \notin {"stat", "tmp", "link"},
         pc'[p] = "held" => ~Reclaims(p)'
  PROVE  BusyAt(p)'
  <1>1. alive[p] /\ made'[p] = made[p]
    BY OnlyOneMoves
  <1>2. Busy(p)' => Busy(p)
    BY BusyFrom
  <1>3. BusyAt(p) /\ None \notin Ino
    BY LockAssumption DEF LockInv, LocalInv
  <1>4. Busy(p) => /\ path \in Ino /\ dir[path].maker = [by |-> p, token |-> made[p]]
                   /\ Gen(p).ino = path /\ dir[path].owner = Mine(p) /\ Mine(p) \in Owner
    BY <1>1, <1>3, Working DEF BusyAt
  <1>5. Mine(p)' = Mine(p)
    BY <1>1 DEF Mine
  <1>6. Busy(p) => dir'[path].owner = Mine(p)
    BY <1>4, LockAssumption DEF SameDirectories
  <1> QED
    BY <1>1, <1>2, <1>3, <1>4, <1>5, <1>6 DEF BusyAt, SameDirectories

LEMMA CondemnedGoesOn ==
  ASSUME LockInv, NEW p \in Proc, Step(p), SameDirectories, Gen(p)' = Gen(p),
         Reclaims(p)' => Reclaims(p), pc[p] \in Claim \cup Taking \/ Looks(p, "recheck")
  PROVE  Condemned(p)'
  <1>1. alive[p] /\ Condemned(p)
    BY OnlyOneMoves DEF LockInv, LocalInv
  <1>2. \A i \in Ino : dir[i].use # "free" /\ Over(i) => Over(i)'
    BY OverStays DEF SameDirectories
  <1>3. Reclaiming(p)' => Reclaiming(p)
    BY <1>1 DEF Reclaiming
  <1> SUFFICES ASSUME Reclaiming(p)'
               PROVE  (LET i == Gen(p).ino
                       IN /\ i \in Ino /\ dir[i].use # "free"
                          /\ \/ Over(i) \/ dir[i].use = "retired"
                             \/ dir[i].owner # None /\ (Gen(p).owner = None \/ Gen(p).owner.ino # i))'
    BY DEF Condemned
  <1> QED
    BY <1>1, <1>2, <1>3 DEF Condemned, SameDirectories

LEMMA FoundGoesOn ==
  ASSUME LockInv, NEW p \in Proc, SameDirectories, pc[p] # "frozen",
         my'[p].look \in {my[p].look, NoLook}
  PROVE  FoundBefore(p)'
  <1>1. FoundBefore(p) /\ my[p] \in Local
    BY DEF LockInv, LocalInv, LockTypeOK
  <1>2. my[p].look.owner # None => my[p].look.owner.ino \in Ino
    BY <1>1, LockAssumption DEF Local, Owner
  <1>3. NoLook.ino = None /\ NoLook.owner = None
    BY DEF NoLook
  <1> QED
    BY <1>1, <1>2, <1>3 DEF FoundBefore, Look, RecordOf, SameDirectories

\* Who goes to give a lock up still has it.
LEMMA LeavingInv ==
  ASSUME LockInv, NEW p \in Proc, Step(p), ~MakeDirectory(p), SameDirectories,
         pc[p] \notin {"stat", "tmp", "link", "frozen"}, Abandon(p) \/ (Leaving(p) /\ ~Reclaims(p))
  PROVE  LocalInv(p)' /\ ~Clearing(p)'
  <1>l. my[p] \in Local /\ LockTypeOK
    BY DEF LockInv, LockTypeOK
  <1>1. /\ pc'[p] = "look" /\ Gen(p)' = Gen(p) /\ ~Reclaims(p)' /\ my'[p].look = NoLook
        /\ my'[p].after = "leave"
    <2>1. Kept(p) \in Local /\ Kept(p).gen = Gen(p) /\ Kept(p).mode = my[p].mode /\ Kept(p).look = NoLook
      BY <1>l, Keeps
    <2>2. \A s, m : To(p, s, m) => pc'[p] = s /\ my'[p] = m
      BY <1>l DEF To, LockTypeOK
    <2>3. CASE Abandon(p)
      <3> DEFINE m == [Kept(p) EXCEPT !.mode = "abandon", !.after = "leave"]
      <3>1. m.gen = Gen(p) /\ m.mode = "abandon" /\ m.look = NoLook /\ m.after = "leave"
        BY <2>1 DEF Local
      <3> QED
        BY <2>2, <2>3, <3>1 DEF Abandon, Gen, Reclaims
    <2>4. CASE Leaving(p) /\ ~Reclaims(p)
      <3> DEFINE m == [Kept(p) EXCEPT !.after = "leave"]
      <3>1. m.gen = Gen(p) /\ m.mode = my[p].mode /\ m.look = NoLook /\ m.after = "leave"
        BY <2>1 DEF Local
      <3> QED
        BY <2>2, <2>4, <3>1 DEF Leaving, Gen, Reclaims
    <2> QED
      BY <2>3, <2>4
  <1>2. RestsEmpty(p)' /\ ReturnsRight(p)' /\ ClearsDead(p)' /\ ~Clearing(p)' /\ Placed(p)'
    BY <1>1 DEF RestsEmpty, ReturnsRight, ClearsDead, Clearing, Placed, Looks, Looking, Taking
  <1>3. Condemned(p)' /\ LookedAgain(p)'
    BY <1>1 DEF Condemned, LookedAgain, Reclaiming
  <1> QED
    BY <1>1, <1>2, <1>3, BusyGoesOn, FoundGoesOn DEF LocalInv

LEMMA FailedInv ==
  ASSUME LockInv, NEW p \in Proc, Step(p), ~MakeDirectory(p), SameDirectories,
         pc[p] \in Claim \cup Taking, Failed(p) \/ NotMoved(p) \/ GivenUp(p)
  PROVE  LocalInv(p)' /\ ~Clearing(p)'
  <1>1. ASSUME NEW s \in {"idle", "try"}, Rest(p, s) PROVE LocalInv(p)' /\ ~Clearing(p)'
    <2>1. pc'[p] = s /\ my'[p] = AtRest
      BY <1>1 DEF Rest, To, LockInv, LockTypeOK
    <2> QED
      BY <2>1, RestInv
  <1>2. Leaving(p) /\ ~Reclaims(p) => LocalInv(p)' /\ ~Clearing(p)'
    BY LeavingInv DEF Claim, Taking
  <1> QED
    BY <1>1, <1>2 DEF Failed, NotMoved, GivenUp

-----------------------------------------------------------------------------
(* Acquiring, but for the files that are written.                            *)

LEMMA AcquireInv ==
  ASSUME LockInv, LockTypeOK', NEW p \in Proc, Step(p),
         \/ StartTry(p) \/ FindLock(p) \/ StatDirectory(p) \/ CheckOwner(p) \/ CheckTransition(p)
         \/ Release(p) \/ Leave(p)
  PROVE  LockInv'
  <1>s. /\ path' = path /\ dir' = dir /\ made' = made /\ alive' = alive /\ alive[p]
        /\ pc[p] \in {"idle", "try", "stat", "check", "exists", "held", "leave"} /\ ~MakeDirectory(p)
    BY OnlyOneMoves DEF StartTry, FindLock, StatDirectory, CheckOwner, CheckTransition, Release, Leave,
       MakeDirectory
  <1>d. SameDirectories
    BY <1>s DEF SameDirectories
  <1>l. /\ RestsEmpty(p) /\ BusyAt(p) /\ ReturnsRight(p) /\ path \in Ino \cup {None} /\ my[p] \in Local
        /\ LockTypeOK
    BY DEF LockInv, LocalInv, LockTypeOK
  <1>t. /\ \A s, m : To(p, s, m) => pc'[p] = s /\ my'[p] = m
        /\ \A s : Goto(p, s) => pc'[p] = s /\ my'[p] = my[p]
    BY <1>l DEF LockTypeOK, To, Goto
  <1>r. \A s \in {"idle", "try"} : Rest(p, s) => LocalInv(p)' /\ ~Clearing(p)'
    BY <1>t, RestInv DEF Rest
  <1>q. SUFFICES LocalInv(p)' /\ ~Clearing(p)'
    BY <1>s, QuietStep
  <1>v. ASSUME pc'[p] \in {"look", "tmp", "exists", "held", "claim"}, pc'[p] = "look" => my'[p].after = "judge",
               Reclaims(p)' => pc'[p] # "claim"
        PROVE  RestsEmpty(p)' /\ ReturnsRight(p)' /\ Condemned(p)' /\ LookedAgain(p)' /\ Placed(p)'
               /\ ClearsDead(p)' /\ ~Clearing(p)'
    BY <1>v DEF RestsEmpty, ReturnsRight, Condemned, LookedAgain, Placed, ClearsDead, Clearing, Reclaiming,
       Looks, Looking, Claim, Taking
  <1>1. CASE StartTry(p)
    BY <1>1, <1>l, <1>t, RestInv DEF StartTry, RestsEmpty
  <1>2. CASE FindLock(p)
    <2>1. pc'[p] = "look" /\ my'[p] = AtRest /\ my[p] = AtRest /\ pc[p] = "try"
      BY <1>2, <1>l, <1>t DEF FindLock, RestsEmpty
    <2>2. Gen(p)' = Gen(p) /\ my'[p].look = my[p].look /\ my'[p].after = "judge"
      BY <2>1, Rests DEF Gen
    <2> QED
      BY <1>s, <1>d, <1>v, <2>1, <2>2, BusyGoesOn, FoundGoesOn DEF LocalInv
  <1>3. CASE StatDirectory(p)
    <2>1. path # None /\ dir[path].owner = None /\ dir[path].maker = [by |-> p, token |-> made[p]]
      BY <1>3, <1>s, <1>l DEF StatDirectory, BusyAt, Busy, Making
    <2> DEFINE m == [my[p] EXCEPT !.gen = [ino |-> path, owner |-> [Mine(p) EXCEPT !.ino = path]]]
    <2>2. m.gen.ino = path /\ m.mode = my[p].mode /\ m.look = my[p].look
      BY <1>l DEF Local
    <2>3. pc'[p] = "tmp" /\ my'[p] = m
      BY <1>3, <1>t, <2>1 DEF StatDirectory
    <2> HIDE DEF m
    <2>4. BusyAt(p)'
      BY <1>s, <2>1, <2>2, <2>3 DEF BusyAt, Gen
    <2>5. FoundBefore(p)'
      BY <1>s, <1>d, <2>2, <2>3, FoundGoesOn
    <2> QED
      BY <1>v, <2>3, <2>4, <2>5 DEF LocalInv
  <1>4. CASE CheckOwner(p)
    <2>1. CASE Abandon(p)
      BY <1>s, <1>d, <1>4, <2>1, LeavingInv DEF CheckOwner
    <2>2. CASE To(p, "exists", Kept(p))
      <3>1. pc'[p] = "exists" /\ my'[p] = Kept(p)
        BY <1>t, <2>2
      <3>2. Gen(p)' = Gen(p) /\ my'[p].look = NoLook
        BY <1>l, <3>1, Keeps DEF Gen
      <3> QED
        BY <1>s, <1>d, <1>v, <1>4, <3>1, <3>2, BusyGoesOn, FoundGoesOn DEF LocalInv, CheckOwner
    <2> QED
      BY <1>4, <2>1, <2>2 DEF CheckOwner
  <1>5. CASE CheckTransition(p)
    <2>1. CASE Abandon(p)
      BY <1>s, <1>d, <1>5, <2>1, LeavingInv DEF CheckTransition
    <2>2. CASE To(p, "held", [my[p] EXCEPT !.mode = "release"])
      <3> DEFINE m == [my[p] EXCEPT !.mode = "release"]
      <3>1. m.gen = my[p].gen /\ m.look = my[p].look /\ m.mode = "release"
        BY <1>l DEF Local
      <3>2. pc'[p] = "held" /\ my'[p] = m
        BY <1>t, <2>2
      <3> HIDE DEF m
      <3>3. Gen(p)' = Gen(p) /\ ~Reclaims(p)'
        BY <3>1, <3>2 DEF Gen, Reclaims
      <3> QED
        BY <1>s, <1>d, <1>v, <1>5, <3>1, <3>2, <3>3, BusyGoesOn, FoundGoesOn DEF LocalInv, CheckTransition
    <2> QED
      BY <1>5, <2>1, <2>2 DEF CheckTransition
  <1>6. CASE Release(p)
    <2>1. ~Reclaims(p)
      BY <1>s, <1>l, <1>6 DEF Release, BusyAt, Busy
    <2> QED
      BY <1>s, <1>d, <1>6, <2>1, LeavingInv DEF Release
  <1>7. CASE Leave(p)
    <2>1. ~Reclaims(p)
      BY <1>l, <1>7 DEF Leave, ReturnsRight
    <2>2. CASE Rest(p, "idle")
      BY <1>r, <2>2
    <2>3. CASE To(p, "claim", Kept(p))
      <3>1. pc'[p] = "claim" /\ my'[p] = Kept(p)
        BY <1>t, <2>3
      <3>2. Gen(p)' = Gen(p) /\ my'[p].look = NoLook /\ ~Reclaims(p)'
        BY <1>l, <2>1, <3>1, Keeps DEF Gen, Reclaims
      <3> QED
        BY <1>s, <1>d, <1>v, <1>7, <3>1, <3>2, BusyGoesOn, FoundGoesOn DEF LocalInv, Leave
    <2> QED
      BY <1>7, <2>2, <2>3 DEF Leave
  <1> QED
    BY <1>1, <1>2, <1>3, <1>4, <1>5, <1>6, <1>7

\* What is judged to be reclaimable is over, or has an owner that was not found.
LEMMA JudgeInv ==
  ASSUME LockInv, LockTypeOK', ~SlowMakers, NEW p \in Proc, Step(p), JudgeLock(p)
  PROVE  LockInv'
  <1>s. /\ path' = path /\ dir' = dir /\ made' = made /\ alive' = alive /\ alive[p]
        /\ pc[p] = "judge" /\ ~MakeDirectory(p)
    BY OnlyOneMoves DEF JudgeLock, MakeDirectory
  <1>l. /\ FoundBefore(p) /\ path \in Ino \cup {None} /\ my[p] \in Local /\ LockTypeOK
        /\ \A r \in Proc : BusyAt(r)
    BY DEF LockInv, LocalInv, LockTypeOK
  <1>t. \A s, m : To(p, s, m) => pc'[p] = s /\ my'[p] = m
    BY <1>l DEF LockTypeOK, To
  <1>q. SUFFICES LocalInv(p)' /\ ~Clearing(p)'
    BY <1>s, QuietStep
  <1>1. CASE Rest(p, "try") \/ Rest(p, "idle")
    BY <1>1, <1>t, RestInv DEF Rest
  <1>2. CASE /\ Look(p).ino # None /\ Reclaimable(Look(p))
             /\ To(p, "claim", [AtRest EXCEPT !.gen = [ino |-> Look(p).ino, owner |-> Look(p).owner]])
    <2>0. PICK i, o : i = Look(p).ino /\ o = Look(p).owner
      OBVIOUS
    <2>1. /\ i \in Ino /\ dir[i].use # "free" /\ Look(p).maker = dir[i].maker
          /\ o # None => RecordOf(o, o.ino)
      BY <1>s, <1>l, <1>2, <2>0 DEF FoundBefore
    <2>2. dir[i].maker.by \in Proc /\ dir[i].maker \in Maker /\ dir[i].use \in {"live", "retired"}
      BY <1>l, <2>1 DEF LockInv, PathInv, Maker, LockTypeOK, Directory
    <2>3. Over(i) \/ dir[i].use = "retired" \/ (dir[i].owner # None /\ (o = None \/ o.ino # i))
      <3>1. CASE o # None /\ o.ino = i
        <4>1. ~alive[o.by] /\ dir[i].maker.by = o.by
          BY <1>2, <2>0, <2>1, <3>1 DEF Reclaimable, RecordOf
        <4> QED
          BY <4>1 DEF Over
      <3>2. CASE ~(o # None /\ o.ino = i) /\ dir[i].use = "live" /\ ~Over(i)
        <4> DEFINE r == dir[i].maker.by
        <4>1. r \in Proc /\ alive[r] /\ made[r] = dir[i].maker.token /\ Busy(r)
          BY <2>2, <3>2 DEF Over
        <4>2. path = i
          BY <2>1, <3>2 DEF LockInv, PathInv
        <4>3. ~Young(dir[i].maker)
          BY <1>2, <2>0, <2>1, <3>2 DEF Reclaimable
        <4>4. pc[r] \notin Making
          BY <4>1, <4>3 DEF Young
        <4>5. dir[i].owner = Mine(r)
          BY <1>l, <4>1, <4>2, <4>4 DEF BusyAt, Making
        <4>6. Mine(r) # None
          BY <4>1, <4>4, Working, LockAssumption DEF Making
        <4> QED
          BY <3>2, <4>5, <4>6
      <3> QED
        BY <2>2, <3>1, <3>2
    <2>4. Over(i) => Over(i)'
      BY <1>s, <2>1, OverStays
    <2> DEFINE m == [AtRest EXCEPT !.gen = [ino |-> i, owner |-> o]]
    <2>5. m.gen.ino = i /\ m.gen.owner = o /\ m.look = NoLook
      BY Rests DEF Local
    <2>6. pc'[p] = "claim" /\ my'[p] = m
      BY <1>2, <1>t, <2>0
    <2> HIDE DEF m
    <2>7. Gen(p)'.ino = i /\ Gen(p)'.owner = o
      BY <2>5, <2>6 DEF Gen
    <2>8. \/ Over(i)' \/ dir'[i].use = "retired"
          \/ dir'[i].owner # None /\ (Gen(p)'.owner = None \/ Gen(p)'.owner.ino # i)
      BY <1>s, <2>3, <2>4, <2>7
    <2>9. Condemned(p)'
      BY <1>s, <2>1, <2>7, <2>8 DEF Condemned
    <2>10. RestsEmpty(p)' /\ ReturnsRight(p)' /\ LookedAgain(p)' /\ Placed(p)' /\ ClearsDead(p)'
           /\ ~Clearing(p)'
      BY <2>6 DEF RestsEmpty, ReturnsRight, LookedAgain, Placed, ClearsDead, Clearing, Looks, Looking, Taking
    <2>11. FoundBefore(p)'
      BY <1>s, <2>5, <2>6, FoundGoesOn DEF SameDirectories
    <2>12. ~Busy(p)'
      BY <1>s, BusyFrom DEF Busy, Looks, Making, Looking, Claim, Taking
    <2> QED
      BY <2>9, <2>10, <2>11, <2>12 DEF LocalInv, BusyAt
  <1> QED
    BY <1>1, <1>2 DEF JudgeLock

-----------------------------------------------------------------------------
(* The owner record.                                                         *)

LEMMA OwnerInv ==
  ASSUME LockInv, LockTypeOK', NEW p \in Proc, Step(p), WriteOwner(p) \/ LinkOwner(p) \/ SweepTemporary(p)
  PROVE  LockInv'
  <1>s. /\ path' = path /\ made' = made /\ alive' = alive /\ alive[p]
        /\ pc[p] \in {"tmp", "link", "sweep"} /\ ~MakeDirectory(p)
    BY OnlyOneMoves DEF WriteOwner, LinkOwner, SweepTemporary, MakeDirectory
  <1>l. /\ BusyAt(p) /\ my[p] \in Local /\ LockTypeOK /\ dir \in [Ino -> Directory]
        /\ dir' \in [Ino -> Directory]
    BY DEF LockInv, LocalInv, LockTypeOK
  <1>b. /\ Busy(p) /\ path \in Ino /\ path # None /\ Gen(p).ino = path /\ Mine(p) \in Owner /\ Mine(p) # None
        /\ dir[path].maker = [by |-> p, token |-> made[p]]
    BY <1>s, Working, LockAssumption DEF Busy, Making
  <1>t. /\ \A s, m : To(p, s, m) => pc'[p] = s /\ my'[p] = m
        /\ \A s : Goto(p, s) => pc'[p] = s /\ my'[p] = my[p]
    BY <1>l DEF LockTypeOK, To, Goto
  <1>r. RecordOf(Mine(p), path)
    BY <1>b DEF RecordOf, Mine
  <1>o. /\ pc[p] \in {"tmp", "link"} => dir[path].owner = None
        /\ pc[p] = "link" => Mine(p) \in dir[path].tmp
        /\ pc[p] = "sweep" => dir[path].owner = Mine(p)
    BY <1>s, <1>l, <1>b DEF BusyAt
  <1>f. \A i \in Ino : dir[i] \in Directory
    BY <1>l
  <1>e. /\ \A i \in Ino : /\ dir'[i].use = dir[i].use /\ dir'[i].maker = dir[i].maker
                          /\ dir'[i].trans = dir[i].trans /\ dir'[i].witness = dir[i].witness
                          /\ i # path => dir'[i].owner = dir[i].owner /\ dir'[i].tmp = dir[i].tmp
        /\ dir'[path].owner = IF pc[p] = "tmp" THEN None ELSE Mine(p)
        /\ dir'[path].tmp \subseteq dir[path].tmp \cup {Mine(p)}
        /\ pc[p] = "tmp" => Mine(p) \in dir'[path].tmp
    <2>1. CASE WriteOwner(p)
      <3>1. dir' = [dir EXCEPT ![path].tmp = @ \cup {Mine(p)}] /\ pc[p] = "tmp"
        BY <1>b, <2>1 DEF WriteOwner
      <3> QED
        BY <1>b, <1>o, <1>l, <1>f, <3>1 DEF Directory
    <2>2. CASE LinkOwner(p)
      <3>1. dir' = [dir EXCEPT ![path].owner = Mine(p)] /\ pc[p] = "link"
        BY <1>b, <1>o, <2>2 DEF LinkOwner, TemporariesAt, OwnerAt
      <3> QED
        BY <1>b, <1>l, <1>f, <3>1 DEF Directory
    <2>3. CASE SweepTemporary(p)
      <3>1. dir' = [dir EXCEPT ![path].tmp = @ \ {Mine(p)}] /\ pc[p] = "sweep"
        BY <1>b, <2>3 DEF SweepTemporary
      <3> QED
        BY <1>b, <1>o, <1>l, <1>f, <3>1 DEF Directory
    <2> QED
      BY <2>1, <2>2, <2>3
  <1>d. SameDirectories /\ SameTransitions
    BY <1>s, <1>o, <1>e DEF SameDirectories, SameTransitions
  <1>1. RecordsInv'
    <2>1. \A i \in Ino : \A t : RecordOf(t, i)' <=> RecordOf(t, i)
      BY <1>e DEF RecordOf
    <2>2. ASSUME NEW i \in Ino
          PROVE  (dir[i].owner # None => RecordOf(dir[i].owner, i))' /\ (\A t \in dir[i].tmp : RecordOf(t, i))'
      <3>0. dir[i].owner # None => RecordOf(dir[i].owner, i)
        BY DEF LockInv, RecordsInv
      <3>1. \A t \in dir[i].tmp : RecordOf(t, i)
        BY DEF LockInv, RecordsInv
      <3>2. dir'[i].owner \in {None, dir[i].owner} \/ (i = path /\ dir'[i].owner = Mine(p))
        BY <1>e
      <3>3. dir'[i].tmp \subseteq dir[i].tmp \/ (i = path /\ dir'[i].tmp \subseteq dir[i].tmp \cup {Mine(p)})
        BY <1>e
      <3>4. dir'[i].owner # None => RecordOf(dir'[i].owner, i)
        BY <1>r, <3>0, <3>2
      <3>5. \A t \in dir'[i].tmp : RecordOf(t, i)
        BY <1>r, <3>1, <3>3
      <3>6. dir'[i].maker = dir[i].maker
        BY <1>e
      <3> QED
        BY <3>4, <3>5, <3>6 DEF RecordOf
    <2> QED
      BY <2>2 DEF RecordsInv
  <1>v. ASSUME pc'[p] \in {"look", "link", "sweep"}, pc'[p] = "look" => my'[p].after \in {"leave", "check"},
               pc'[p] = "look" /\ my'[p].after = "leave" => ~Reclaims(p)'
        PROVE  RestsEmpty(p)' /\ ReturnsRight(p)' /\ Condemned(p)' /\ LookedAgain(p)' /\ Placed(p)'
               /\ ClearsDead(p)' /\ ~Clearing(p)'
    BY <1>v DEF RestsEmpty, ReturnsRight, Condemned, LookedAgain, Placed, ClearsDead, Clearing, Reclaiming,
       Looks, Looking, Claim, Taking
  <1>2. LocalInv(p)' /\ ~Clearing(p)'
    <2>1. CASE WriteOwner(p)
      <3>1. pc'[p] = "link" /\ my'[p] = my[p] /\ pc[p] = "tmp"
        BY <1>b, <1>t, <2>1 DEF WriteOwner
      <3>2. Mine(p)' = Mine(p) /\ Gen(p)' = Gen(p)
        BY <1>s, <3>1 DEF Mine, Gen
      <3>3. BusyAt(p)'
        BY <1>s, <1>b, <1>e, <3>1, <3>2 DEF BusyAt
      <3> QED
        BY <1>v, <1>d, <3>1, <3>3, FoundGoesOn DEF LocalInv
    <2>2. CASE LinkOwner(p)
      <3>1. pc'[p] = "sweep" /\ my'[p] = my[p] /\ pc[p] = "link"
        BY <1>b, <1>o, <1>t, <2>2 DEF LinkOwner, TemporariesAt, OwnerAt
      <3>2. Mine(p)' = Mine(p) /\ Gen(p)' = Gen(p)
        BY <1>s, <3>1 DEF Mine, Gen
      <3>3. BusyAt(p)'
        BY <1>s, <1>b, <1>e, <3>1, <3>2 DEF BusyAt
      <3> QED
        BY <1>v, <1>d, <3>1, <3>3, FoundGoesOn DEF LocalInv
    <2>3. CASE SweepTemporary(p)
      <3>1. PICK a \in {"leave", "check"} : /\ a = "leave" => ~Reclaims(p)
                                           /\ To(p, "look", [my[p] EXCEPT !.after = a])
        BY <2>3 DEF SweepTemporary, Reclaims
      <3> DEFINE m == [my[p] EXCEPT !.after = a]
      <3>2. m.gen = my[p].gen /\ m.look = my[p].look /\ m.mode = my[p].mode /\ m.after = a
        BY <1>l DEF Local
      <3>3. pc'[p] = "look" /\ my'[p] = m /\ pc[p] = "sweep"
        BY <1>t, <2>3, <3>1 DEF SweepTemporary
      <3> HIDE DEF m
      <3>4. Gen(p)' = Gen(p) /\ (Reclaims(p)' <=> Reclaims(p))
        BY <3>2, <3>3 DEF Gen, Reclaims
      <3> QED
        BY <1>s, <1>d, <1>v, <3>1, <3>2, <3>3, <3>4, BusyGoesOn, FoundGoesOn DEF LocalInv
    <2> QED
      BY <2>1, <2>2, <2>3
  <1>3. ASSUME NEW r \in Proc, r # p PROVE LocalInv(r)'
    BY <1>b, <1>d, <1>3, OthersGoOn, OthersMove DEF LocalInv
  <1> QED
    BY <1>s, <1>d, <1>1, <1>2, <1>3, SamePathInv, StepInv

-----------------------------------------------------------------------------
(* The transition.                                                           *)

\* The process is still at moving a directory.
LEMMA MovesOn ==
  ASSUME LockInv, NEW p \in Proc, Step(p), ~MakeDirectory(p), SameDirectories, Gen(p)' = Gen(p),
         Reclaims(p)' <=> Reclaims(p), pc[p] \in Claim \cup Taking, my'[p].look \in {my[p].look, NoLook},
         pc'[p] \in Claim \cup Taking \/ (pc'[p] = "look" /\ my'[p].after = "recheck"),
         pc'[p] \in {"ownStat", "ownTrans"} => my'[p].after \in {"recheck", "rename"},
         LookedAgain(p)', Placed(p)', ClearsDead(p)'
  PROVE  LocalInv(p)'
  <1>1. RestsEmpty(p)' /\ ReturnsRight(p)'
    BY DEF RestsEmpty, ReturnsRight, Looks, Claim, Taking, Looking
  <1>2. BusyAt(p)'
    BY BusyGoesOn DEF Claim, Taking
  <1>3. Condemned(p)'
    BY CondemnedGoesOn
  <1>4. FoundBefore(p)'
    BY FoundGoesOn DEF Claim, Taking
  <1> QED
    BY <1>1, <1>2, <1>3, <1>4 DEF LocalInv

\* What the invariant says of a process that moves a directory.
LEMMA Moving ==
  ASSUME LockInv, NEW p \in Proc, alive[p], pc[p] \in Claim \cup Taking
  PROVE  /\ pc[p] = "confirm" \/ pc[p] \in Taking =>
              path \in Ino /\ path # None /\ TransitionAt = MyTransition(p) /\ TransitionAt # None
         /\ pc[p] \in Taking => Seen(p) = MyTransition(p)
         /\ MyTransition(p).target = Gen(p).ino /\ MyTransition(p).by = p
         /\ MyTransition(p) # None /\ MyTransition(p) \in Transition
  <1>1. Placed(p) /\ path \in Ino \cup {None}
    BY DEF LockInv, LocalInv, LockTypeOK
  <1>2. MyTransition(p) \in Transition /\ MyTransition(p).by = p /\ None \notin Transition
    BY Working
  <1>3. MyTransition(p).target = Gen(p).ino
    BY DEF MyTransition
  <1> QED
    BY <1>1, <1>2, <1>3 DEF Placed, TransitionAt, Taking

LEMMA ClaimInv ==
  ASSUME LockInv, LockTypeOK', NEW p \in Proc, Step(p), UNCHANGED dir,
         \/ ClaimTransition(p) \/ PlaceTransition(p) \/ ReadExisting(p) \/ PinTransition(p) \/ ReadPinned(p)
         \/ ReadClaimed(p) \/ StatOwned(p) \/ OwnTransition(p) \/ Withdraw(p) \/ Recheck(p)
  PROVE  LockInv'
  <1>s. /\ path' = path /\ dir' = dir /\ made' = made /\ alive' = alive /\ alive[p]
        /\ pc[p] \in Claim \cup Taking /\ ~MakeDirectory(p)
    BY OnlyOneMoves DEF ClaimTransition, PlaceTransition, ReadExisting, PinTransition, ReadPinned, ReadClaimed,
       StatOwned, OwnTransition, Withdraw, Recheck, MakeDirectory, Claim, Taking
  <1>d. SameDirectories
    BY <1>s DEF SameDirectories
  <1>l. /\ Condemned(p) /\ LookedAgain(p) /\ Placed(p) /\ ClearsDead(p) /\ ReturnsRight(p)
        /\ path \in Ino \cup {None} /\ my[p] \in Local /\ LockTypeOK
        /\ my[p].after \in {"judge", "check", "leave", "recheck", "rename"}
    BY DEF LockInv, LocalInv, LockTypeOK, Local
  <1>t. /\ \A s, m : To(p, s, m) => pc'[p] = s /\ my'[p] = m
        /\ \A s : Goto(p, s) => pc'[p] = s /\ my'[p] = my[p]
    BY <1>l DEF LockTypeOK, To, Goto
  <1>a. TransitionAt' = TransitionAt /\ (path # None => TransitionAt = dir[path].trans)
        /\ (path = None => TransitionAt = None) /\ TransitionAt \in Transition \cup {None}
    BY <1>s, <1>l DEF TransitionAt, LockTypeOK, Directory
  <1>f. Failed(p) \/ NotMoved(p) \/ GivenUp(p) => LocalInv(p)' /\ ~Clearing(p)'
    BY <1>s, <1>d, FailedInv
  <1>q. SUFFICES LocalInv(p)' /\ (Clearing(p)' => Clearing(p))
    BY <1>s, QuietStep
  \* ... when it goes on with what it has.
  <1>g. ASSUME Gen(p)' = Gen(p), Reclaims(p)' <=> Reclaims(p), my'[p].look \in {my[p].look, NoLook},
               pc'[p] \in Claim \cup Taking \/ (pc'[p] = "look" /\ my'[p].after = "recheck"),
               pc'[p] \in {"ownStat", "ownTrans"} => my'[p].after \in {"recheck", "rename"},
               LookedAgain(p)', Placed(p)', ClearsDead(p)', Clearing(p)' => Clearing(p)
        PROVE  LocalInv(p)' /\ (Clearing(p)' => Clearing(p))
    BY <1>g, <1>s, <1>d, MovesOn
  <1>m. Gen(p)' = Gen(p) /\ (Reclaims(p)' <=> Reclaims(p)) =>
          MyTransition(p)' = MyTransition(p) /\ (At(p)' <=> At(p))
    BY <1>s DEF MyTransition, At
  <1>k. my'[p] = my[p] => Gen(p)' = Gen(p) /\ (Reclaims(p)' <=> Reclaims(p)) /\ Seen(p)' = Seen(p)
    BY DEF Gen, Reclaims, Seen
  <1>c. pc'[p] \in Claim \ {"confirm"} => LookedAgain(p)' /\ Placed(p)'
    BY DEF LookedAgain, Placed, Looks, Looking, Claim, Taking
  <1>h. pc'[p] \notin {"pin", "pinned", "unpin", "drop"} => ClearsDead(p)' /\ ~Clearing(p)'
    BY DEF ClearsDead, Clearing
  <1>1. CASE ClaimTransition(p)
    <2>1. CASE Failed(p)
      BY <1>f, <2>1
    <2>2. CASE Goto(p, "place")
      BY <1>g, <1>k, <1>c, <1>h, <1>t, <2>2 DEF Claim
    <2> QED
      BY <1>1, <2>1, <2>2 DEF ClaimTransition
  <1>2. CASE PlaceTransition(p)
    <2>1. CASE Failed(p)
      BY <1>f, <2>1
    <2>2. CASE Goto(p, "existing")
      BY <1>g, <1>k, <1>c, <1>h, <1>t, <2>2 DEF Claim
    <2>3. CASE Goto(p, "confirm") /\ path # None /\ TransitionAt = None
               /\ dir' = [dir EXCEPT ![path].trans = MyTransition(p)]
      <3>1. dir'[path].trans = MyTransition(p)
        BY <1>l, <2>3 DEF LockTypeOK, Directory
      <3>2. dir'[path].trans = None
        BY <1>s, <1>a, <2>3
      <3>3. MyTransition(p) # None
        BY <1>s, Moving
      <3> QED
        BY <3>1, <3>2, <3>3
    <2> QED
      BY <1>2, <2>1, <2>2, <2>3 DEF PlaceTransition
  <1>3. CASE ReadExisting(p)
    <2>1. CASE Failed(p)
      BY <1>f, <2>1
    <2>2. CASE /\ TransitionAt # None /\ ~alive[TransitionAt.by]
               /\ To(p, "pin", [my[p] EXCEPT !.seen = TransitionAt])
      <3> DEFINE m == [my[p] EXCEPT !.seen = TransitionAt]
      <3>1. m.gen = my[p].gen /\ m.mode = my[p].mode /\ m.look = my[p].look /\ m.seen = TransitionAt
        BY <1>l DEF Local
      <3>2. pc'[p] = "pin" /\ my'[p] = m
        BY <1>t, <2>2
      <3> HIDE DEF m
      <3>3. Gen(p)' = Gen(p) /\ (Reclaims(p)' <=> Reclaims(p)) /\ Seen(p)' = TransitionAt
        BY <3>1, <3>2 DEF Gen, Reclaims, Seen
      <3>4. ClearsDead(p)' /\ ~Clearing(p)'
        BY <1>s, <1>a, <2>2, <3>2, <3>3 DEF ClearsDead, Clearing
      <3> QED
        BY <1>g, <1>c, <3>1, <3>2, <3>3, <3>4 DEF Claim
    <2> QED
      BY <1>3, <2>1, <2>2 DEF ReadExisting
  <1>4. CASE PinTransition(p)
    <2>1. CASE Failed(p)
      BY <1>f, <2>1
    <2>2. CASE ~Failed(p)
      <3>1. /\ TransitionAt # None /\ Seen(p).by \notin dir[path].witness
            /\ dir' = [dir EXCEPT ![path].witness = @ \cup {Seen(p).by}]
        BY <1>4, <2>2 DEF PinTransition
      <3>2. path \in Ino
        BY <1>l, <1>a, <3>1
      <3>3. Seen(p).by \in dir'[path].witness
        BY <1>l, <3>1, <3>2 DEF LockTypeOK, Directory
      <3> QED
        BY <1>s, <3>1, <3>3
    <2> QED
      BY <2>1, <2>2
  <1>5. CASE ReadPinned(p)
    <2>1. pc[p] = "pinned" /\ path # None /\ TransitionAt = Seen(p) /\ Seen(p).by \in dir[path].witness
          /\ Seen(p) \in Transition /\ ~alive[Seen(p).by] /\ dir[path].trans = Seen(p)
      BY <1>s, <1>a, <1>l, <1>5 DEF ReadPinned, ClearsDead
    <2>2. pc'[p] = "unpin" /\ my'[p] = my[p]
      BY <1>t, <1>5, <2>1 DEF ReadPinned
    <2>3. ClearsDead(p)' /\ Clearing(p)
      BY <1>s, <1>k, <2>1, <2>2 DEF ClearsDead, Clearing
    <2> QED
      BY <1>g, <1>c, <1>k, <2>2, <2>3 DEF Claim
  <1>6. CASE ReadClaimed(p)
    <2>1. /\ pc[p] = "confirm" /\ TransitionAt = MyTransition(p) /\ TransitionAt # None /\ path # None
          /\ dir[path].trans = MyTransition(p)
      BY <1>s, <1>a, <1>6, Moving DEF ReadClaimed
    <2> DEFINE m == [Kept(p) EXCEPT !.seen = TransitionAt, !.after = "recheck"]
    <2>2. m.gen = Gen(p) /\ m.mode = my[p].mode /\ m.look = NoLook /\ m.seen = TransitionAt
          /\ m.after = "recheck"
      BY <1>l, Keeps DEF Local
    <2>3. pc'[p] = "ownStat" /\ my'[p] = m
      BY <1>t, <1>6, <2>1 DEF ReadClaimed
    <2> HIDE DEF m
    <2>4. Gen(p)' = Gen(p) /\ (Reclaims(p)' <=> Reclaims(p)) /\ Seen(p)' = TransitionAt
      BY <2>2, <2>3 DEF Gen, Reclaims, Seen
    <2>5. Placed(p)'
      BY <1>s, <1>m, <2>1, <2>2, <2>3, <2>4 DEF Placed, Looks, Looking
    <2>6. LookedAgain(p)'
      BY <2>2, <2>3 DEF LookedAgain
    <2> QED
      BY <1>g, <1>h, <2>2, <2>3, <2>4, <2>5, <2>6 DEF Taking
  \* The transition is in place: what the process has judged stays so.
  <1>p. pc[p] \in Taking => /\ path # None /\ dir[path].trans = MyTransition(p) /\ Seen(p) = MyTransition(p)
                            /\ TransitionAt = MyTransition(p) /\ TransitionAt # None
                            /\ MyTransition(p).target = Gen(p).ino
    BY <1>s, <1>a, Moving
  <1>o. ASSUME Reclaiming(p), Over(Gen(p).ino), Gen(p)' = Gen(p) PROVE Over(Gen(p).ino)'
    <2>1. PICK i : i = Gen(p).ino
      OBVIOUS
    <2>2. i \in Ino /\ dir[i].use # "free"
      BY <1>s, <1>l, <1>o, <2>1 DEF Condemned
    <2>3. Over(i)'
      BY <1>s, <1>o, <2>1, <2>2, OverStays
    <2> QED
      BY <1>o, <2>1, <2>3
  <1>w. pc'[p] \in {"withdraw", "erase"} => LookedAgain(p)'
    BY DEF LookedAgain
  <1>e. ASSUME my'[p] = my[p], pc[p] \in Taking, pc'[p] \in {"withdraw", "erase"}
        PROVE  LocalInv(p)' /\ (Clearing(p)' => Clearing(p))
    <2>1. Placed(p)'
      BY <1>s, <1>e, <1>p, <1>k, <1>m DEF Placed, Looks, Looking
    <2> QED
      BY <1>e, <1>g, <1>h, <1>k, <1>w, <2>1 DEF Taking
  <1>7. CASE StatOwned(p)
    <2>1. pc[p] = "ownStat" /\ my[p].after \in {"recheck", "rename"}
      BY <1>l, <1>7 DEF StatOwned, ReturnsRight
    <2>2. CASE Goto(p, "withdraw")
      BY <1>e, <1>t, <2>1, <2>2 DEF Taking
    <2>3. CASE Goto(p, "ownTrans") /\ At(p)
      <3>1. pc'[p] = "ownTrans" /\ my'[p] = my[p]
        BY <1>t, <2>3
      <3>2. Placed(p)'
        BY <1>s, <1>k, <1>m, <1>p, <2>1, <2>3, <3>1 DEF Placed, Taking
      <3>3. LookedAgain(p)'
        BY <1>s, <1>k, <1>l, <1>o, <2>1, <3>1 DEF LookedAgain, Reclaiming
      <3> QED
        BY <1>g, <1>h, <1>k, <2>1, <3>1, <3>2, <3>3 DEF Taking
    <2> QED
      BY <1>7, <2>2, <2>3 DEF StatOwned
  <1>8. CASE OwnTransition(p)
    <2>1. /\ pc[p] = "ownTrans" /\ my[p].after \in {"recheck", "rename"} /\ At(p)
          /\ my'[p] = my[p] /\ pc'[p] = IF my[p].after = "recheck" THEN "look" ELSE "rename"
      BY <1>s, <1>l, <1>p, <1>t, <1>8 DEF OwnTransition, ReturnsRight, Placed, Taking
    <2>2. Placed(p)'
      BY <1>s, <1>k, <1>m, <1>p, <2>1 DEF Placed, Taking
    <2>3. LookedAgain(p)'
      BY <1>s, <1>k, <1>l, <1>o, <2>1 DEF LookedAgain, Reclaiming
    <2> QED
      BY <1>g, <1>h, <1>k, <2>1, <2>2, <2>3 DEF Taking
  <1>9. CASE Withdraw(p)
    <2>1. CASE GivenUp(p)
      BY <1>f, <2>1
    <2>2. CASE Goto(p, "erase")
      BY <1>e, <1>t, <1>9, <2>2 DEF Withdraw, Taking
    <2> QED
      BY <1>9, <2>1, <2>2 DEF Withdraw
  <1>10. CASE Recheck(p)
    <2> DEFINE m == [my[p] EXCEPT !.look = NoLook, !.after = "rename"]
    <2>1. /\ m.gen = my[p].gen /\ m.mode = my[p].mode /\ m.look = NoLook /\ m.after = "rename"
          /\ m.seen = my[p].seen
      BY <1>l DEF Local
    <2>2. pc[p] = "recheck" /\ my'[p] = m /\ pc'[p] = IF Unmoved(p) THEN "ownStat" ELSE "withdraw"
      BY <1>t, <1>10 DEF Recheck
    <2> HIDE DEF m
    <2>3. Gen(p)' = Gen(p) /\ (Reclaims(p)' <=> Reclaims(p)) /\ Seen(p)' = Seen(p)
      BY <2>1, <2>2 DEF Gen, Reclaims, Seen
    <2>4. At(p)
      BY <1>s, <1>l, <2>2 DEF Placed
    <2>5. Placed(p)'
      BY <1>s, <1>m, <1>p, <2>1, <2>2, <2>3, <2>4 DEF Placed, Taking
    <2>6. LookedAgain(p)'
      <3>1. CASE ~Unmoved(p)
        BY <1>w, <2>2, <3>1
      <3>2. CASE Unmoved(p) /\ Reclaims(p)
        <4> DEFINE i == Gen(p).ino
        <4>1. Reclaiming(p) /\ Look(p).owner = Gen(p).owner
          BY <1>s, <3>2 DEF Reclaiming, Unmoved, SameOwner, Reclaims
        <4>2. Over(i) \/ (Look(p).owner # None /\ Look(p).owner.ino = i)
          BY <1>l, <2>2, <4>1 DEF LookedAgain
        <4>3. path = i /\ i \in Ino
          BY <1>l, <2>4 DEF At
        <4>4. dir[i].use # "retired"
          BY <4>3 DEF LockInv, PathInv
        <4>5. Over(i) \/ Gen(p).owner = None \/ Gen(p).owner.ino # i
          BY <1>l, <2>2, <4>1, <4>4 DEF Condemned, Taking
        <4>6. Over(Gen(p).ino)
          BY <4>1, <4>2, <4>5
        <4>7. Over(Gen(p).ino)'
          BY <1>o, <2>3, <4>1, <4>6
        <4> QED
          BY <2>2, <4>7 DEF LookedAgain
      <3>3. CASE ~Reclaims(p)
        BY <2>3, <3>3 DEF LookedAgain, Reclaiming
      <3> QED
        BY <3>1, <3>2, <3>3
    <2> QED
      BY <1>g, <1>h, <2>1, <2>2, <2>3, <2>5, <2>6 DEF Taking
  <1> QED
    BY <1>1, <1>2, <1>3, <1>4, <1>5, <1>6, <1>7, <1>8, <1>9, <1>10

\* Steps that change the transition at the path, or its witnesses.
LEMMA TransitionInv ==
  ASSUME LockInv, LockTypeOK', NEW p \in Proc, Step(p), path \in Ino,
         \/ PlaceTransition(p) \/ PinTransition(p) \/ UnlinkTransition(p) \/ DropWitness(p)
         \/ EraseTransition(p),
         NEW t, NEW w, dir' = [dir EXCEPT ![path].trans = t, ![path].witness = w],
         \A r \in Proc : r # p => Placed(r)' /\ ClearsDead(r)',
         LocalInv(p)', Clearing(p)' => Clearing(p) \/ \A r \in Proc : ~Clearing(r)
  PROVE  LockInv'
  <1>s. path' = path /\ alive' = alive /\ alive[p] /\ ~MakeDirectory(p)
    BY OnlyOneMoves DEF PlaceTransition, PinTransition, UnlinkTransition, DropWitness, EraseTransition,
       MakeDirectory
  <1>f. dir \in [Ino -> Directory] /\ \A i \in Ino : dir[i] \in Directory
    BY DEF LockInv, LockTypeOK
  <1>d. \A i \in Ino : /\ dir'[i].use = dir[i].use /\ dir'[i].maker = dir[i].maker
                       /\ dir'[i].owner = dir[i].owner /\ dir'[i].tmp = dir[i].tmp
    BY <1>f DEF Directory
  <1>e. SameDirectories /\ SameRecords
    BY <1>s, <1>d DEF SameDirectories, SameRecords
  <1>1. RecordsInv'
    <2>1. \A i \in Ino : \A o : RecordOf(o, i)' <=> RecordOf(o, i)
      BY <1>d DEF RecordOf
    <2>2. RecordsInv
      BY DEF LockInv
    <2> QED
      BY <1>d, <2>1, <2>2 DEF RecordsInv
  <1>2. ASSUME NEW r \in Proc, r # p PROVE LocalInv(r)'
    BY <1>e, <1>2, OthersGoOn DEF LocalInv
  <1> QED
    BY <1>s, <1>e, <1>1, <1>2, SamePathInv, StepInv

LEMMA MoveInv ==
  ASSUME LockInv, LockTypeOK', NEW p \in Proc, Step(p), dir' # dir,
         \/ PlaceTransition(p) \/ PinTransition(p) \/ UnlinkTransition(p) \/ DropWitness(p)
         \/ EraseTransition(p)
  PROVE  LockInv'
  <1>s. /\ path' = path /\ made' = made /\ alive' = alive /\ alive[p]
        /\ pc[p] \in Claim \cup Taking /\ ~MakeDirectory(p)
    BY OnlyOneMoves DEF PlaceTransition, PinTransition, UnlinkTransition, DropWitness, EraseTransition,
       MakeDirectory, Claim, Taking
  <1>l. /\ Placed(p) /\ ClearsDead(p) /\ path \in Ino \cup {None} /\ None \notin Ino /\ my[p] \in Local
        /\ LockTypeOK /\ dir \in [Ino -> Directory]
    BY LockAssumption DEF LockInv, LocalInv, LockTypeOK
  <1>0. path \in Ino /\ path # None
    BY <1>l DEF PlaceTransition, PinTransition, UnlinkTransition, DropWitness, EraseTransition, Unlinked,
       TransitionAt
  <1>f. dir[path] \in Directory /\ TransitionAt = dir[path].trans
    BY <1>l, <1>0 DEF TransitionAt
  <1>t. /\ \A s, m : To(p, s, m) => pc'[p] = s /\ my'[p] = m
        /\ \A s : Goto(p, s) => pc'[p] = s /\ my'[p] = my[p]
    BY <1>l DEF LockTypeOK, To, Goto
  <1>r. \A r \in Proc : r # p =>
          /\ Idles(r) /\ Placed(r) /\ ClearsDead(r) /\ MyTransition(r)' = MyTransition(r)
          /\ (At(r)' <=> At(r)) /\ Seen(r)' = Seen(r) /\ MyTransition(r).by = r
          /\ \A s : Looks(r, s)' <=> Looks(r, s)
    BY <1>s, OnlyOneMoves DEF LockInv, LocalInv, Idles, MyTransition, At, Gen, Seen, Reclaims, Looks
  <1>k. my'[p] = my[p] => Gen(p)' = Gen(p) /\ (Reclaims(p)' <=> Reclaims(p)) /\ Seen(p)' = Seen(p)
    BY DEF Gen, Reclaims, Seen
  <1>m. Gen(p)' = Gen(p) /\ (Reclaims(p)' <=> Reclaims(p)) =>
          MyTransition(p)' = MyTransition(p) /\ (At(p)' <=> At(p))
    BY <1>s DEF MyTransition, At
  <1>c. pc'[p] \in Claim \ {"confirm"} => LookedAgain(p)' /\ Placed(p)'
    BY DEF LookedAgain, Placed, Looks, Looking, Claim, Taking
  <1>h. pc'[p] \notin {"pin", "pinned", "unpin", "drop"} => ClearsDead(p)' /\ ~Clearing(p)'
    BY DEF ClearsDead, Clearing
  <1>a. TransitionAt' = dir'[path].trans
    BY <1>s, <1>0 DEF TransitionAt
  \* What other processes have placed, or clear, if the transition stays or is nobody's of theirs.
  <1>x. ASSUME NEW r \in Proc, r # p,
               \/ dir'[path].trans = dir[path].trans
               \/ alive[r] /\ (pc[r] \in {"confirm"} \cup Taking \/ Looks(r, "recheck")) =>
                    dir[path].trans # MyTransition(r)
        PROVE  Placed(r)'
    BY <1>s, <1>0, <1>r, <1>x DEF Placed, Idles
  <1>y. ASSUME NEW r \in Proc, r # p,
               \/ dir'[path].trans = dir[path].trans
               \/ ~Clearing(r) /\ (dir'[path].trans = None \/ alive[dir'[path].trans.by]),
               Clearing(r) => Seen(r).by \in dir'[path].witness
        PROVE  ClearsDead(r)'
    BY <1>s, <1>0, <1>r, <1>a, <1>f, <1>y DEF ClearsDead, Idles, Clearing
  <1>1. CASE PlaceTransition(p)
    <2>1. /\ TransitionAt = None /\ dir' = [dir EXCEPT ![path].trans = MyTransition(p)]
          /\ pc'[p] = "confirm" /\ my'[p] = my[p] /\ pc[p] = "place"
      BY <1>0, <1>1, <1>t DEF PlaceTransition
    <2>2. dir'[path].trans = MyTransition(p) /\ dir'[path].witness = dir[path].witness
      BY <1>l, <1>0, <1>f, <2>1 DEF Directory
    <2>3. /\ MyTransition(p) \in Transition /\ MyTransition(p).by = p /\ MyTransition(p) # None
          /\ \A r \in Proc : alive[r] /\ (pc[r] \in {"confirm"} \cup Taking \/ Looks(r, "recheck")) =>
                               MyTransition(r) # None
      BY <1>s, <2>1, Working DEF Claim
    <2>4. ASSUME NEW r \in Proc, r # p PROVE Placed(r)' /\ ClearsDead(r)'
      <3>1. Placed(r)'
        BY <1>f, <1>x, <2>1, <2>3, <2>4
      <3>2. ~Clearing(r)
        BY <1>f, <1>r, <2>1, <2>4, LockAssumption DEF ClearsDead, Clearing
      <3> QED
        BY <1>s, <1>y, <2>2, <2>3, <2>4, <3>1, <3>2
    <2>5. Placed(p)'
      BY <1>s, <1>0, <1>k, <1>m, <2>1, <2>2 DEF Placed, Looks, Looking, Taking
    <2>6. LookedAgain(p)' /\ ClearsDead(p)' /\ ~Clearing(p)'
      BY <2>1 DEF LookedAgain, ClearsDead, Clearing
    <2>7. SameDirectories
      BY <1>s, <1>l, <1>0, <1>f, <2>1 DEF SameDirectories, Directory
    <2>8. LocalInv(p)'
      BY <1>s, <1>k, <2>1, <2>5, <2>6, <2>7, MovesOn DEF Claim
    <2>9. dir' = [dir EXCEPT ![path].trans = MyTransition(p), ![path].witness = dir[path].witness]
      BY <1>l, <1>0, <1>f, <2>1 DEF Directory
    <2> QED
      BY <1>0, <1>1, <2>4, <2>6, <2>8, <2>9, TransitionInv
  <1>2. CASE PinTransition(p)
    <2>1. /\ pc[p] = "pin" /\ TransitionAt # None /\ Seen(p).by \notin dir[path].witness
          /\ dir' = [dir EXCEPT ![path].witness = @ \cup {Seen(p).by}] /\ my'[p] = my[p]
          /\ pc'[p] = IF TransitionAt = Seen(p) THEN "pinned" ELSE "drop"
      BY <1>2, <1>t DEF PinTransition
    <2>2. /\ dir'[path].trans = dir[path].trans
          /\ dir'[path].witness = dir[path].witness \cup {Seen(p).by}
      BY <1>l, <1>0, <1>f, <2>1 DEF Directory
    <2>3. ASSUME NEW r \in Proc, r # p PROVE Placed(r)' /\ ClearsDead(r)'
      <3>1. Clearing(r) => Seen(r).by \in dir'[path].witness
        BY <1>r, <2>2, <2>3 DEF ClearsDead, Clearing
      <3> QED
        BY <1>x, <1>y, <2>2, <2>3, <3>1
    <2>4. Seen(p) \in Transition /\ ~alive[Seen(p).by] /\ (TransitionAt.by = Seen(p).by => TransitionAt = Seen(p))
      BY <1>s, <1>l, <2>1 DEF ClearsDead
    <2>5. ClearsDead(p)'
      BY <1>s, <1>0, <1>f, <1>a, <1>k, <2>1, <2>2, <2>4 DEF ClearsDead
    <2>6. \A r \in Proc : ~Clearing(r) \/ pc'[p] = "drop"
      <3>1. ASSUME NEW r \in Proc, Clearing(r), pc'[p] = "pinned" PROVE FALSE
        <4>1. r # p
          BY <2>1, <3>1 DEF Clearing
        <4>2. dir[path].trans = Seen(r) /\ Seen(r).by \in dir[path].witness
          BY <1>r, <3>1, <4>1 DEF ClearsDead, Clearing
        <4>3. dir[path].trans = Seen(p)
          BY <1>f, <2>1, <3>1
        <4> QED
          BY <2>1, <4>2, <4>3
      <3> QED
        BY <2>1, <3>1
    <2>7. SameDirectories
      BY <1>s, <1>l, <1>0, <1>f, <2>1 DEF SameDirectories, Directory
    <2>8. LocalInv(p)'
      BY <1>s, <1>k, <1>c, <2>1, <2>5, <2>7, MovesOn DEF Claim
    <2>9. dir' = [dir EXCEPT ![path].trans = dir[path].trans,
                             ![path].witness = dir[path].witness \cup {Seen(p).by}]
      BY <1>l, <1>0, <1>f, <2>1 DEF Directory
    <2> QED
      BY <1>0, <1>2, <2>3, <2>6, <2>8, <2>9, TransitionInv DEF Clearing
  <1>3. CASE UnlinkTransition(p)
    <2> DEFINE m == [my[p] EXCEPT !.again = TRUE]
    <2>0. m.gen = my[p].gen /\ m.mode = my[p].mode /\ m.look = my[p].look /\ m.seen = my[p].seen
      BY <1>l DEF Local
    <2>1. /\ pc[p] = "unpin" /\ dir' = [dir EXCEPT ![path].trans = None] /\ my'[p] = m /\ pc'[p] = "drop"
      BY <1>0, <1>3, <1>t DEF UnlinkTransition, Unlinked
    <2> HIDE DEF m
    <2>2. /\ dir'[path].trans = None /\ dir'[path].witness = dir[path].witness
      BY <1>l, <1>0, <1>f, <2>1 DEF Directory
    <2>3. Seen(p) \in Transition /\ ~alive[Seen(p).by] /\ dir[path].trans = Seen(p) /\ Clearing(p)
      BY <1>s, <1>l, <2>1 DEF ClearsDead, Clearing
    <2>4. ASSUME NEW r \in Proc, r # p PROVE Placed(r)' /\ ClearsDead(r)'
      <3>1. alive[r] => dir[path].trans # MyTransition(r)
        BY <1>r, <2>3, <2>4
      <3>2. ~Clearing(r)
        BY <2>3, <2>4 DEF LockInv, OneClears
      <3> QED
        BY <1>x, <1>y, <2>2, <2>4, <3>1, <3>2
    <2>5. Gen(p)' = Gen(p) /\ (Reclaims(p)' <=> Reclaims(p)) /\ Seen(p)' = Seen(p)
      BY <2>0, <2>1 DEF Gen, Reclaims, Seen
    <2>6. ClearsDead(p)' /\ ~Clearing(p)'
      BY <1>s, <1>a, <2>1, <2>2, <2>3, <2>5 DEF ClearsDead, Clearing
    <2>7. SameDirectories
      BY <1>s, <1>l, <1>0, <1>f, <2>1 DEF SameDirectories, Directory
    <2>8. LocalInv(p)'
      BY <1>s, <1>c, <2>0, <2>1, <2>5, <2>6, <2>7, MovesOn DEF Claim
    <2>9. dir' = [dir EXCEPT ![path].trans = None, ![path].witness = dir[path].witness]
      BY <1>l, <1>0, <1>f, <2>1 DEF Directory
    <2> QED
      BY <1>0, <1>3, <2>4, <2>6, <2>8, <2>9, TransitionInv
  <1>4. CASE EraseTransition(p)
    <2>1. pc[p] = "erase" /\ dir' = [dir EXCEPT ![path].trans = None] /\ GivenUp(p)
      BY <1>0, <1>4 DEF EraseTransition, Unlinked
    <2>2. dir'[path].trans = None /\ dir'[path].witness = dir[path].witness
      BY <1>l, <1>0, <1>f, <2>1 DEF Directory
    <2>3. dir[path].trans = MyTransition(p) /\ MyTransition(p).by = p
      BY <1>s, <1>f, <2>1, Moving DEF Taking
    <2>4. ASSUME NEW r \in Proc, r # p PROVE Placed(r)' /\ ClearsDead(r)'
      <3>1. dir[path].trans # MyTransition(r)
        BY <1>r, <2>3, <2>4
      <3>2. ~Clearing(r)
        BY <1>s, <1>r, <2>3, <2>4 DEF ClearsDead, Clearing
      <3> QED
        BY <1>x, <1>y, <2>2, <2>4, <3>1, <3>2
    <2>5. SameDirectories
      BY <1>s, <1>l, <1>0, <1>f, <2>1 DEF SameDirectories, Directory
    <2>6. LocalInv(p)' /\ ~Clearing(p)'
      BY <1>s, <2>1, <2>5, FailedInv
    <2>7. dir' = [dir EXCEPT ![path].trans = None, ![path].witness = dir[path].witness]
      BY <1>l, <1>0, <1>f, <2>1 DEF Directory
    <2> QED
      BY <1>0, <1>4, <2>4, <2>6, <2>7, TransitionInv
  <1>5. CASE DropWitness(p)
    <2>1. /\ pc[p] = "drop" /\ dir' = [dir EXCEPT ![path].witness = @ \ {Seen(p).by}]
      BY <1>0, <1>5 DEF DropWitness
    <2>2. /\ dir'[path].trans = dir[path].trans
          /\ dir'[path].witness = dir[path].witness \ {Seen(p).by}
      BY <1>l, <1>0, <1>f, <2>1 DEF Directory
    <2>3. ASSUME NEW r \in Proc, r # p PROVE Placed(r)' /\ ClearsDead(r)'
      <3>1. ASSUME Clearing(r) PROVE Seen(r).by \in dir'[path].witness
        <4>1. dir[path].trans = Seen(r) /\ Seen(r).by \in dir[path].witness /\ Seen(r) \in Transition
          BY <1>r, <2>3, <3>1 DEF ClearsDead, Clearing
        <4>2. TransitionAt # None
          BY <1>f, <4>1, LockAssumption
        <4>3. TransitionAt.by # Seen(p).by
          BY <1>s, <1>l, <2>1, <4>2 DEF ClearsDead
        <4> QED
          BY <1>f, <2>2, <4>1, <4>3
      <3> QED
        BY <1>x, <1>y, <2>2, <2>3, <3>1
    <2>4. SameDirectories
      BY <1>s, <1>l, <1>0, <1>f, <2>1 DEF SameDirectories, Directory
    <2>5. LocalInv(p)' /\ ~Clearing(p)'
      <3>1. CASE Failed(p)
        BY <1>s, <2>4, <3>1, FailedInv
      <3>2. CASE To(p, "claim", [Kept(p) EXCEPT !.again = TRUE])
        <4> DEFINE m == [Kept(p) EXCEPT !.again = TRUE]
        <4>1. m.gen = Gen(p) /\ m.mode = my[p].mode /\ m.look = NoLook
          BY <1>l, Keeps DEF Local
        <4>2. pc'[p] = "claim" /\ my'[p] = m
          BY <1>t, <3>2
        <4> HIDE DEF m
        <4>3. Gen(p)' = Gen(p) /\ (Reclaims(p)' <=> Reclaims(p))
          BY <4>1, <4>2 DEF Gen, Reclaims
        <4> QED
          BY <1>s, <1>c, <1>h, <2>4, <4>1, <4>2, <4>3, MovesOn DEF Claim
      <3> QED
        BY <1>5, <3>1, <3>2 DEF DropWitness
    <2>6. dir' = [dir EXCEPT ![path].trans = dir[path].trans,
                             ![path].witness = dir[path].witness \ {Seen(p).by}]
      BY <1>l, <1>0, <1>f, <2>1 DEF Directory
    <2> QED
      BY <1>0, <1>5, <2>3, <2>5, <2>6, TransitionInv
  <1> QED
    BY <1>1, <1>2, <1>3, <1>4, <1>5

-----------------------------------------------------------------------------
(* The directory.                                                            *)

LEMMA MakeInv ==
  ASSUME LockInv, LockTypeOK', NEW p \in Proc, Step(p), MakeDirectory(p)
  PROVE  LockInv'
  <1>l. /\ pc \in [Proc -> Stage] /\ my \in [Proc -> Local] /\ made \in [Proc -> 0..MaxTries]
        /\ dir \in [Ino -> Directory] /\ RestsEmpty(p) /\ None \notin Ino
    BY LockAssumption DEF LockInv, LockTypeOK, LocalInv
  <1>s. /\ path = None /\ None \notin Ino /\ alive' = alive /\ alive[p] /\ pc[p] = "try" /\ pc'[p] = "stat"
        /\ my'[p] = my[p] /\ made'[p] = made[p] + 1 /\ made[p] \in Nat
        /\ dir \in [Ino -> Directory] /\ RestsEmpty(p)
    <2>1. alive' = alive /\ alive[p] /\ made[p] \in Nat
      BY OnlyOneMoves
    <2> QED
      BY <1>l, <2>1 DEF MakeDirectory, Goto, To
  <1>1. PICK i \in Ino : dir[i].use = "free" /\ path' = i /\ dir' = [dir EXCEPT ![i] = New(p)]
    BY DEF MakeDirectory
  <1>2. /\ dir'[i].use = "live" /\ dir'[i].maker = [by |-> p, token |-> made[p] + 1]
        /\ dir'[i].owner = None /\ dir'[i].tmp = {} /\ dir'[i].trans = None
        /\ \A j \in Ino : j # i => dir'[j] = dir[j]
    BY <1>s, <1>1 DEF New, Free
  <1>r. \A r \in Proc : r # p => Idles(r) /\ LocalInv(r)
    BY OnlyOneMoves DEF LockInv
  <1>m. \A r \in Proc : made[r] \in Nat /\ made'[r] \in Nat /\ made[r] <= made'[r]
    BY <1>s, <1>r, OnlyOneMoves DEF Idles
  <1>3. PathInv' /\ RecordsInv'
    <2>1. \A j \in Ino : dir[j].use # "free" => /\ dir[j].maker \in Maker /\ dir[j].maker.by \in Proc
                                                /\ dir[j].maker.token \in Nat
                                                /\ dir[j].maker.token <= made[dir[j].maker.by]
      BY LockAssumption DEF LockInv, PathInv, Maker
    <2>2. dir'[i].maker \in Maker
      BY <1>s, <1>2, LockAssumption DEF Maker, MakeDirectory
    <2>3. \A j \in Ino : dir[j].use # "live"
      BY <1>s DEF LockInv, PathInv
    <2>4. PathInv'
      BY <1>s, <1>1, <1>2, <1>m, <2>1, <2>2, <2>3 DEF PathInv
    <2>5. RecordsInv
      BY DEF LockInv
    <2>6. RecordsInv'
      BY <1>2, <2>5 DEF RecordsInv, RecordOf
    <2> QED
      BY <2>4, <2>6
  <1>4. LocalInv(p)' /\ ~Clearing(p)'
    <2>1. my[p] = AtRest
      BY <1>s DEF RestsEmpty
    <2>2. BusyAt(p)'
      BY <1>s, <1>1, <1>2 DEF BusyAt
    <2>3. FoundBefore(p)'
      BY <1>s, <2>1, Rests DEF FoundBefore, Look, NoLook
    <2>4. /\ RestsEmpty(p)' /\ ReturnsRight(p)' /\ Condemned(p)' /\ LookedAgain(p)' /\ Placed(p)'
          /\ ClearsDead(p)' /\ ~Clearing(p)'
      BY <1>s DEF RestsEmpty, ReturnsRight, Condemned, LookedAgain, Placed, ClearsDead, Clearing, Looks,
         Looking, Claim, Taking
    <2> QED
      BY <2>2, <2>3, <2>4 DEF LocalInv
  <1>5. ASSUME NEW r \in Proc, r # p PROVE LocalInv(r)'
    <2>1. /\ Idles(r) /\ RestsEmpty(r) /\ BusyAt(r) /\ ReturnsRight(r) /\ FoundBefore(r) /\ Condemned(r)
          /\ LookedAgain(r) /\ Placed(r) /\ ClearsDead(r) /\ my[r] \in Local
      BY <1>r, <1>5 DEF LocalInv, LockInv, LockTypeOK
    <2>2. (Busy(r)' <=> Busy(r)) /\ (\A s : Looks(r, s)' <=> Looks(r, s)) /\ Gen(r)' = Gen(r)
          /\ Look(r)' = Look(r) /\ Seen(r)' = Seen(r) /\ (Reclaims(r)' <=> Reclaims(r))
      BY <2>1 DEF Busy, Looks, Reclaims, Idles, Gen, Look, Seen
    <2>3. ~(alive[r] /\ Busy(r))
      BY <1>s, <2>1 DEF BusyAt
    <2>4. RestsEmpty(r)' /\ ReturnsRight(r)' /\ BusyAt(r)'
      BY <1>s, <2>1, <2>2, <2>3 DEF RestsEmpty, ReturnsRight, BusyAt, Idles
    <2>5. \A j \in Ino : dir[j].use # "free" => dir'[j] = dir[j]
      BY <1>1, <1>2
    <2>6. FoundBefore(r)'
      <3>1. my[r].look.owner # None => my[r].look.owner.ino \in Ino
        BY <2>1, LockAssumption DEF Local, Owner
      <3> QED
        BY <2>1, <2>5, <3>1 DEF FoundBefore, Look, RecordOf, Idles
    <2>7. \A j \in Ino : dir[j].use # "free" /\ Over(j) => Over(j)'
      BY <2>5, OverStays
    <2>8. Placed(r)' /\ ClearsDead(r)'
      <3>1. ~(alive[r] /\ (pc[r] \in {"confirm"} \cup Taking \/ Looks(r, "recheck")))
        BY <1>s, <2>1 DEF Placed
      <3>2. Placed(r)'
        BY <1>s, <2>1, <2>2, <3>1 DEF Placed, Idles, Taking
      <3>3. TransitionAt' = None
        BY <1>1, <1>2 DEF TransitionAt
      <3>4. ClearsDead(r)'
        BY <1>s, <2>1, <2>2, <3>3 DEF ClearsDead, Idles
      <3> QED
        BY <3>2, <3>4
    <2>9. Condemned(r)'
      <3> SUFFICES ASSUME (Reclaiming(r) /\ (pc[r] \in Claim \cup Taking \/ Looks(r, "recheck")))'
                   PROVE  (LET j == Gen(r).ino
                           IN /\ j \in Ino /\ dir[j].use # "free"
                              /\ \/ Over(j) \/ dir[j].use = "retired"
                                 \/ dir[j].owner # None /\ (Gen(r).owner = None \/ Gen(r).owner.ino # j))'
        BY DEF Condemned
      <3>1. Reclaiming(r) /\ (pc[r] \in Claim \cup Taking \/ Looks(r, "recheck"))
        BY <1>s, <2>1, <2>2 DEF Idles, Reclaiming
      <3> QED
        BY <2>1, <2>2, <2>5, <2>7, <3>1 DEF Condemned
    <2>10. LookedAgain(r)'
      <3> SUFFICES ASSUME Reclaiming(r)' PROVE LookedAgain(r)'
        BY DEF LookedAgain
      <3>1. Reclaiming(r)
        BY <1>s, <2>2 DEF Reclaiming
      <3>2. pc[r] \in Taking \/ Looks(r, "recheck") => Gen(r).ino \in Ino /\ dir[Gen(r).ino].use # "free"
        BY <2>1, <3>1 DEF Condemned
      <3>3. (pc[r] \in Taking \/ Looks(r, "recheck")) /\ Over(Gen(r).ino) => Over(Gen(r).ino)'
        BY <2>2, <2>7, <3>2
      <3> QED
        BY <2>1, <2>2, <3>1, <3>3 DEF LookedAgain, Idles, Taking, Looks, Looking
    <2> QED
      BY <2>4, <2>6, <2>8, <2>9, <2>10 DEF LocalInv
  <1>6. Clearing(p)' => Clearing(p) \/ \A r \in Proc : ~Clearing(r)
    BY <1>4
  <1> QED
    BY <1>3, <1>4, <1>5, <1>6, StepInv

\* What is moved away is the mover's own, or nobody is busy with it.
LEMMA RenameInv ==
  ASSUME LockInv, LockTypeOK', NEW p \in Proc, Step(p), Rename(p)
  PROVE  LockInv'
  <1>l. /\ pc \in [Proc -> Stage] /\ my \in [Proc -> Local] /\ dir \in [Ino -> Directory]
        /\ RestsEmpty(p) /\ LookedAgain(p) /\ Placed(p) /\ None \notin Ino /\ path \in Ino \cup {None}
    BY LockAssumption DEF LockInv, LockTypeOK, LocalInv
  <1>s. /\ pc[p] = "rename" /\ path \in Ino /\ path # None /\ At(p) /\ dir[path].trans = MyTransition(p)
        /\ alive' = alive /\ alive[p] /\ \A r \in Proc : made'[r] = made[r] /\ MyTransition(r).by = r
    <2>1. pc[p] = "rename" /\ alive[p] /\ alive' = alive
      BY OnlyOneMoves DEF Rename
    <2>2. \A r \in Proc : made'[r] = made[r]
      BY <2>1, OnlyOneMoves DEF MakeDirectory
    <2> QED
      BY <1>l, <2>1, <2>2 DEF Placed, Taking, MyTransition
  <1>1. /\ dir' = [dir EXCEPT ![path].use = "retired"] /\ path' = None
        /\ pc'[p] = "frozen"
    BY <1>l, <1>s DEF Rename, To
  <1>2. /\ \A i \in Ino : /\ dir'[i].maker = dir[i].maker /\ dir'[i].owner = dir[i].owner
                          /\ dir'[i].tmp = dir[i].tmp
                          /\ i # path => dir'[i].use = dir[i].use
        /\ dir'[path].use = "retired"
    <2>1. \A i \in Ino : dir[i] \in Directory
      BY <1>l
    <2> QED
      BY <1>l, <1>s, <1>1, <2>1 DEF Directory
  <1>r. \A r \in Proc : r # p => Idles(r) /\ LocalInv(r)
    BY OnlyOneMoves DEF LockInv
  \* Nobody else is busy with the directory, ...
  <1>b. ASSUME NEW r \in Proc, r # p PROVE ~(alive[r] /\ Busy(r))
    <2>1. CASE Reclaims(p)
      <3>1. Over(path)
        BY <1>l, <1>s, <2>1 DEF LookedAgain, Reclaiming, At
      <3>2. alive[r] /\ Busy(r) => dir[path].maker = [by |-> r, token |-> made[r]]
        BY <1>r, <1>b DEF LocalInv, BusyAt
      <3> QED
        BY <3>1, <3>2 DEF Over
    <2>2. CASE ~Reclaims(p)
      <3>1. dir[path].maker = [by |-> p, token |-> made[p]]
        BY <1>s, <2>2, Working DEF Busy, Taking
      <3>2. alive[r] /\ Busy(r) => dir[path].maker = [by |-> r, token |-> made[r]]
        BY <1>r, <1>b DEF LocalInv, BusyAt
      <3> QED
        BY <1>b, <3>1, <3>2
    <2> QED
      BY <2>1, <2>2
  \* ... has a transition there, or clears the one that is.
  <1>x. ASSUME NEW r \in Proc, r # p
        PROVE  /\ ~(alive[r] /\ (pc[r] \in {"confirm"} \cup Taking \/ Looks(r, "recheck")))
               /\ ~Clearing(r)
    <2>1. MyTransition(r) # MyTransition(p)
      BY <1>s, <1>x
    <2>2. Placed(r) /\ ClearsDead(r)
      BY <1>r, <1>x DEF LocalInv
    <2> QED
      BY <1>s, <2>1, <2>2 DEF Placed, ClearsDead, Clearing
  <1>3. PathInv' /\ RecordsInv'
    <2>1. PathInv /\ RecordsInv /\ \A i \in Ino : dir[i].use # "free" => dir[i].maker.by \in Proc
      BY DEF LockInv, PathInv, Maker
    <2>2. PathInv'
      BY <1>l, <1>s, <1>1, <1>2, <2>1 DEF PathInv
    <2>3. \A i \in Ino : \A o : RecordOf(o, i)' <=> RecordOf(o, i)
      BY <1>2 DEF RecordOf
    <2>4. RecordsInv'
      BY <1>2, <2>1, <2>3 DEF RecordsInv
    <2> QED
      BY <2>2, <2>4
  <1>4. LocalInv(p)' /\ ~Clearing(p)'
    <2>1. FoundBefore(p)' /\ BusyAt(p)'
      BY <1>1 DEF FoundBefore, BusyAt, Busy, Looks, Making, Looking, Claim, Taking
    <2>2. /\ RestsEmpty(p)' /\ ReturnsRight(p)' /\ Condemned(p)' /\ LookedAgain(p)' /\ Placed(p)'
          /\ ClearsDead(p)' /\ ~Clearing(p)'
      BY <1>1 DEF RestsEmpty, ReturnsRight, Condemned, LookedAgain, Placed, ClearsDead, Clearing, Looks,
         Looking, Claim, Taking
    <2> QED
      BY <2>1, <2>2 DEF LocalInv
  <1>5. ASSUME NEW r \in Proc, r # p PROVE LocalInv(r)'
    <2>1. /\ Idles(r) /\ RestsEmpty(r) /\ BusyAt(r) /\ ReturnsRight(r) /\ FoundBefore(r) /\ Condemned(r)
          /\ LookedAgain(r) /\ Placed(r) /\ ClearsDead(r) /\ my[r] \in Local
      BY <1>r, <1>5 DEF LocalInv, LockInv, LockTypeOK
    <2>2. (Busy(r)' <=> Busy(r)) /\ (\A s : Looks(r, s)' <=> Looks(r, s)) /\ Gen(r)' = Gen(r)
          /\ Look(r)' = Look(r) /\ Seen(r)' = Seen(r) /\ (Reclaims(r)' <=> Reclaims(r))
      BY <2>1 DEF Busy, Looks, Reclaims, Idles, Gen, Look, Seen
    <2>3. RestsEmpty(r)' /\ ReturnsRight(r)' /\ BusyAt(r)'
      BY <1>s, <1>b, <1>5, <2>1, <2>2 DEF RestsEmpty, ReturnsRight, BusyAt, Idles
    <2>4. \A j \in Ino : dir[j].use # "free" => dir'[j].use # "free"
      BY <1>2
    <2>5. FoundBefore(r)'
      <3>1. my[r].look.owner # None => my[r].look.owner.ino \in Ino
        BY <2>1, LockAssumption DEF Local, Owner
      <3> QED
        BY <1>2, <2>1, <2>4, <3>1 DEF FoundBefore, Look, RecordOf, Idles
    <2>6. Placed(r)' /\ ClearsDead(r)'
      <3>1. Placed(r)'
        BY <1>s, <1>x, <1>5, <2>1, <2>2 DEF Placed, Idles, Taking
      <3>2. TransitionAt' = None
        BY <1>1 DEF TransitionAt
      <3>3. ClearsDead(r)'
        BY <1>s, <1>x, <1>5, <2>1, <2>2, <3>2 DEF ClearsDead, Idles, Clearing
      <3> QED
        BY <3>1, <3>3
    <2>7. Condemned(r)' /\ LookedAgain(r)'
      <3>1. \A j \in Ino : dir[j].use # "free" /\ Over(j) => Over(j)'
        BY <1>2, OverStays
      <3>2. \A j \in Ino : dir[j].use = "retired" => dir'[j].use = "retired"
        BY <1>2
      <3>3. Condemned(r)'
        <4> SUFFICES ASSUME (Reclaiming(r) /\ (pc[r] \in Claim \cup Taking \/ Looks(r, "recheck")))'
                     PROVE  (LET j == Gen(r).ino
                             IN /\ j \in Ino /\ dir[j].use # "free"
                                /\ \/ Over(j) \/ dir[j].use = "retired"
                                   \/ dir[j].owner # None /\ (Gen(r).owner = None \/ Gen(r).owner.ino # j))'
          BY DEF Condemned
        <4>1. Reclaiming(r) /\ (pc[r] \in Claim \cup Taking \/ Looks(r, "recheck"))
          BY <1>s, <2>1, <2>2 DEF Idles, Reclaiming
        <4> QED
          BY <1>2, <2>1, <2>2, <2>4, <3>1, <3>2, <4>1 DEF Condemned
      <3>4. LookedAgain(r)'
        BY <1>s, <1>x, <1>5, <2>1, <2>2 DEF LookedAgain, Idles, Taking, Looks, Looking, Reclaiming
      <3> QED
        BY <3>3, <3>4
    <2> QED
      BY <2>3, <2>5, <2>6, <2>7 DEF LocalInv
  <1>6. Clearing(p)' => Clearing(p) \/ \A r \in Proc : ~Clearing(r)
    BY <1>4
  <1> QED
    BY <1>3, <1>4, <1>5, <1>6, StepInv

-----------------------------------------------------------------------------
LEMMA GiveUpInv ==
  ASSUME LockInv, LockTypeOK', ~Reuse, NEW p \in Proc, Step(p), UNCHANGED <<path, dir>>,
         \/ Rename(p) \/ Frozen(p) \/ EraseTransition(p)
  PROVE  LockInv'
  <1>s. ~MakeDirectory(p) /\ SameDirectories /\ LockTypeOK
    BY DEF LockInv, Rename, Frozen, EraseTransition, MakeDirectory, SameDirectories
  <1>1. LocalInv(p)' /\ ~Clearing(p)'
    <2>1. CASE Frozen(p)
      <3>1. Rest(p, "try") \/ Rest(p, "idle")
        BY <2>1 DEF Frozen
      <3>2. pc'[p] \in {"idle", "try"} /\ my'[p] = AtRest
        BY <1>s, <3>1 DEF Rest, To, LockTypeOK
      <3> QED
        BY <3>2, RestInv
    <2>2. CASE EraseTransition(p)
      BY <1>s, <2>2, FailedInv DEF EraseTransition, Taking
    <2>3. CASE Rename(p)
      <3>1. path # None => dir' # dir
        BY <1>s, <2>3 DEF Rename, LockInv, LockTypeOK, PathInv, Directory
      <3> QED
        BY <1>s, <2>3, <3>1, FailedInv DEF Rename, Taking
    <2> QED
      BY <2>1, <2>2, <2>3
  <1> QED
    BY <1>s, <1>1, QuietStep
\* Where a step finds no lock, or nothing to remove.
LEMMA NothingThereInv ==
  ASSUME LockInv, LockTypeOK', NEW p \in Proc, Step(p), UNCHANGED dir,
         UnlinkTransition(p) \/ DropWitness(p)
  PROVE  LockInv'
  <1>s. /\ path' = path /\ alive' = alive /\ alive[p] /\ ~MakeDirectory(p) /\ SameDirectories
        /\ pc[p] \in {"unpin", "drop"}
    BY OnlyOneMoves DEF UnlinkTransition, DropWitness, MakeDirectory, SameDirectories
  <1>l. /\ ClearsDead(p) /\ LockTypeOK /\ path \in Ino \cup {None} /\ None \notin Ino /\ None \notin Transition
        /\ dir \in [Ino -> Directory] /\ pc \in [Proc -> Stage] /\ my \in [Proc -> Local]
    BY LockAssumption DEF LockInv, LocalInv, LockTypeOK
  <1>1. DropWitness(p)
    <2>1. ASSUME UnlinkTransition(p) PROVE FALSE
      <3>1. path \in Ino /\ dir[path].trans = Seen(p) /\ Seen(p) # None /\ dir[path] \in Directory
        BY <1>s, <1>l, <2>1 DEF ClearsDead, UnlinkTransition
      <3>2. dir' = [dir EXCEPT ![path].trans = None]
        BY <1>l, <2>1, <3>1 DEF UnlinkTransition, Unlinked
      <3>3. dir'[path].trans = None
        BY <1>l, <3>1, <3>2 DEF Directory
      <3> QED
        BY <3>1, <3>3
    <2> QED
      BY <2>1
  <1>2. LocalInv(p)' /\ ~Clearing(p)'
    <2>1. CASE Failed(p)
      BY <1>s, <1>1, <2>1, FailedInv DEF DropWitness, Claim
    <2>2. CASE To(p, "claim", [Kept(p) EXCEPT !.again = TRUE])
      <3> DEFINE m == [Kept(p) EXCEPT !.again = TRUE]
      <3>1. m.gen = Gen(p) /\ m.mode = my[p].mode /\ m.look = NoLook
        BY <1>l, Keeps DEF Local
      <3>2. pc[p] = "drop" /\ pc'[p] = "claim" /\ my'[p] = m
        BY <1>l, <1>1, <2>2 DEF DropWitness, To
      <3> HIDE DEF m
      <3>3. Gen(p)' = Gen(p) /\ (Reclaims(p)' <=> Reclaims(p)) /\ my'[p].look = NoLook
        BY <3>1, <3>2 DEF Gen, Reclaims
      <3>4. LookedAgain(p)' /\ Placed(p)' /\ ClearsDead(p)' /\ ~Clearing(p)'
        BY <3>2 DEF LookedAgain, Placed, ClearsDead, Clearing, Looks, Looking, Taking
      <3> QED
        BY <1>s, <3>2, <3>3, <3>4, MovesOn DEF Claim
    <2> QED
      BY <1>1, <2>1, <2>2 DEF DropWitness
  <1> QED
    BY <1>s, <1>2, QuietStep

\* Of the dead nothing is said but where their directories are.
LEMMA CrashInv ==
  ASSUME LockInv, LockTypeOK', NEW p \in Proc, Crash(p)
  PROVE  LockInv'
  <1>s. UNCHANGED <<path, dir, pc, my, made>> /\ \A r \in Proc : alive'[r] => alive[r]
    BY DEF Crash, LockInv, LockTypeOK
  <1>1. PathInv' /\ RecordsInv'
    BY <1>s DEF LockInv, PathInv, RecordsInv, RecordOf
  <1>2. OneClears'
    BY <1>s DEF LockInv, OneClears, Clearing
  <1>3. ASSUME NEW r \in Proc PROVE LocalInv(r)'
    <2>l. /\ RestsEmpty(r) /\ BusyAt(r) /\ ReturnsRight(r) /\ FoundBefore(r) /\ Condemned(r)
          /\ LookedAgain(r) /\ Placed(r) /\ ClearsDead(r)
      BY DEF LockInv, LocalInv
    <2>o. \A i \in Ino : dir[i].use # "free" /\ Over(i) => Over(i)'
      BY <1>s, OverStays
    <2>v. /\ Gen(r)' = Gen(r) /\ Look(r)' = Look(r) /\ Seen(r)' = Seen(r) /\ (Reclaims(r)' <=> Reclaims(r))
          /\ (\A t : Looks(r, t)' <=> Looks(r, t)) /\ TransitionAt' = TransitionAt
          /\ (alive'[r] => alive[r])
      BY <1>s DEF Gen, Look, Seen, Reclaims, Looks, TransitionAt
    <2>e. (Busy(r)' <=> Busy(r)) /\ Mine(r)' = Mine(r) /\ MyTransition(r)' = MyTransition(r) /\ (At(r)' <=> At(r))
      BY <1>s, <2>v DEF Busy, Mine, MyTransition, At
    <2>1. RestsEmpty(r)' /\ ReturnsRight(r)' /\ FoundBefore(r)'
      BY <1>s, <2>l, <2>v DEF RestsEmpty, ReturnsRight, FoundBefore, RecordOf
    <2>2. BusyAt(r)'
      BY <1>s, <2>l, <2>v, <2>e DEF BusyAt
    <2>3. Condemned(r)'
      BY <1>s, <2>l, <2>o, <2>v DEF Condemned, Reclaiming
    <2>4. LookedAgain(r)'
      <3> SUFFICES ASSUME Reclaiming(r)' PROVE LookedAgain(r)'
        BY DEF LookedAgain
      <3>1. Reclaiming(r)
        BY <2>v DEF Reclaiming
      <3>2. pc[r] \in Taking \/ Looks(r, "recheck") => Gen(r).ino \in Ino /\ dir[Gen(r).ino].use # "free"
        BY <2>l, <3>1 DEF Condemned
      <3>3. (pc[r] \in Taking \/ Looks(r, "recheck")) /\ Over(Gen(r).ino) => Over(Gen(r).ino)'
        BY <2>o, <2>v, <3>2
      <3> QED
        BY <1>s, <2>l, <2>v, <3>1, <3>3 DEF LookedAgain, Taking, Looks, Looking
    <2>5. Placed(r)'
      BY <1>s, <2>l, <2>v, <2>e DEF Placed
    <2>6. ClearsDead(r)'
      <3>1. Seen(r) \in Transition => (~alive[Seen(r).by] => ~alive'[Seen(r).by])
        BY <1>s DEF Transition
      <3> QED
        BY <1>s, <2>l, <2>v, <3>1 DEF ClearsDead
    <2> QED
      BY <2>1, <2>2, <2>3, <2>4, <2>5, <2>6 DEF LocalInv
  <1> QED
    BY <1>1, <1>2, <1>3 DEF LockInv

LEMMA LockNextInv ==
  ASSUME LockInv, [Next]_lockVars, ~SlowMakers, ~Reuse
  PROVE  LockInv'
  <1>1. CASE UNCHANGED lockVars
    <2> USE <1>1 DEF lockVars
    <2>1. /\ \A r \in Proc : /\ (Reclaims(r)' <=> Reclaims(r)) /\ (Busy(r)' <=> Busy(r))
                             /\ \A t : Looks(r, t)' <=> Looks(r, t)
          /\ \A i \in Ino : Over(i)' <=> Over(i)
      BY DEF Over, Busy, Looks, Reclaims
    <2>2. LockTypeOK' /\ PathInv' /\ RecordsInv' /\ OneClears'
      BY DEF LockInv, LockTypeOK, PathInv, RecordsInv, RecordOf, OneClears, Clearing
    <2>3. ASSUME NEW r \in Proc PROVE LocalInv(r)'
      <3>1. LocalInv(r)
        BY DEF LockInv
      <3>2. RestsEmpty(r)' /\ BusyAt(r)' /\ ReturnsRight(r)' /\ FoundBefore(r)'
        BY <2>1, <3>1 DEF LocalInv, RestsEmpty, BusyAt, ReturnsRight, FoundBefore, Look, Gen, Mine, RecordOf
      <3>3. Condemned(r)' /\ LookedAgain(r)'
        BY <3>1 DEF LocalInv, Condemned, LookedAgain, Reclaiming, Reclaims, Gen, Look, Looks, Over, Busy
      <3>4. Placed(r)' /\ ClearsDead(r)'
        BY <2>1, <3>1 DEF LocalInv, Placed, ClearsDead, MyTransition, Seen, At, Gen, TransitionAt
      <3> QED
        BY <3>2, <3>3, <3>4 DEF LocalInv
    <2> QED
      BY <2>2, <2>3 DEF LockInv
  <1>2. ASSUME NEW p \in Proc, Crash(p) PROVE LockInv'
    BY <1>2, LockTypeStep, CrashInv
  <1>3. ASSUME NEW p \in Proc, Step(p) PROVE LockInv'
    <2>t. LockTypeOK'
      BY <1>3, LockTypeStep
    <2>1. CASE Inspect(p)
      BY <1>3, <2>t, <2>1, InspectInv
    <2>2. CASE \/ StartTry(p) \/ FindLock(p) \/ StatDirectory(p) \/ CheckOwner(p) \/ CheckTransition(p)
               \/ Release(p) \/ Leave(p)
      BY <1>3, <2>t, <2>2, AcquireInv
    <2>3. CASE JudgeLock(p)
      BY <1>3, <2>t, <2>3, JudgeInv
    <2>4. CASE WriteOwner(p) \/ LinkOwner(p) \/ SweepTemporary(p)
      BY <1>3, <2>t, <2>4, OwnerInv
    <2>5. CASE MakeDirectory(p)
      BY <1>3, <2>t, <2>5, MakeInv
    <2>6. CASE \/ ClaimTransition(p) \/ ReadExisting(p) \/ ReadPinned(p) \/ ReadClaimed(p) \/ StatOwned(p)
               \/ OwnTransition(p) \/ Withdraw(p) \/ Recheck(p)
      <3>1. UNCHANGED dir
        BY <2>6 DEF ClaimTransition, ReadExisting, ReadPinned, ReadClaimed, StatOwned, OwnTransition, Withdraw,
           Recheck
      <3> QED
        BY <1>3, <2>t, <2>6, <3>1, ClaimInv
    <2>7. CASE PlaceTransition(p) \/ PinTransition(p)
      BY <1>3, <2>t, <2>7, ClaimInv, MoveInv
    <2>8. CASE UnlinkTransition(p) \/ DropWitness(p)
      BY <1>3, <2>t, <2>8, NothingThereInv, MoveInv
    <2>9. CASE EraseTransition(p)
      <3>1. UNCHANGED path
        BY <2>9 DEF EraseTransition
      <3> QED
        BY <1>3, <2>t, <2>9, <3>1, GiveUpInv, MoveInv
    <2>10. CASE Rename(p)
      BY <1>3, <2>t, <2>10, RenameInv
    <2>11. CASE Frozen(p)
      <3>1. UNCHANGED <<path, dir>>
        BY <2>11 DEF Frozen
      <3> QED
        BY <1>3, <2>t, <2>11, <3>1, GiveUpInv
    <2> QED
      BY <1>3, <2>1, <2>2, <2>3, <2>4, <2>5, <2>6, <2>7, <2>8, <2>9, <2>10, <2>11
      DEF Step, Work, Acquire, Move
  <1> QED
    BY <1>1, <1>2, <1>3 DEF Next

(* A live process that holds the lock of the state directory has its         *)
(* directory at the lock's path and its owner record in it, whatever makers, *)
(* holders, contenders and processes that die do there, each by single calls *)
(* of the file system: acquireLock, releaseLockGeneration and                *)
(* reclaimLockGeneration of state.mjs.  Assumed are that nobody takes longer *)
(* than the grace to sign a lock it makes, and that the number of a removed  *)
(* directory is not given to a new one while somebody still works on it.     *)
THEOREM LockIsKept ==
  ASSUME ~SlowMakers, ~Reuse
  PROVE  Spec => []HolderKeepsLock
  <1>1. LockInv /\ [Next]_lockVars => LockInv'
    BY LockNextInv
  <1>2. LockInv => HolderKeepsLock
    <2> SUFFICES ASSUME LockInv, NEW p \in Proc, alive[p], pc[p] = "held"
                 PROVE  At(p) /\ dir[path].owner = Mine(p)
      BY DEF HolderKeepsLock, Holders
    <2>1. BusyAt(p) /\ Busy(p)
      BY DEF LockInv, LocalInv, Busy
    <2> QED
      BY <2>1 DEF BusyAt, At
  <1> QED
    BY <1>1, <1>2, LockInitInv, PTL DEF Spec
=============================================================================
