-------------------------- MODULE PublicationProofs --------------------------
(***************************************************************************)
(* What holds of a review that the central runner publishes for every       *)
(* number of pushes, faults and re-runs: what a receipt stands for, how many *)
(* reviews an attempt leaves, and what is left open behind it.              *)
(***************************************************************************)
EXTENDS ReviewPublication, TLAPS

-----------------------------------------------------------------------------
(* The inductive invariant.                                                *)

\* Where the runner is, or goes once the token of the phase is revoked.
Bound == IF At("revoke") THEN r.after ELSE r.pc

\* Stages with a token, before a review was created, with a Check, with a review at hand,
\* with a verdict, after a receipt, and without an open Check.
InPhase == {"fetch", "make", "started", "fetch_packet", "pre", "claim_fence", "reconcile",
            "create", "recover", "refence", "live", "delete", "submit", "settle", "after",
            "conclude", "cancel_check", "e_conclude", "revoke"}
Before == {"claim", "authority", "fetch", "authorize", "fence", "check", "make", "started",
           "collect", "fetch_packet", "model", "running", "post", "pre", "claim_fence",
           "reconcile", "create"}
WithContext == {"authorize", "fence", "check", "make"}
WithCheck == {"started", "collect", "fetch_packet", "model", "running", "post", "pre",
              "claim_fence", "reconcile", "create", "recover", "refence", "live", "delete",
              "submit", "settle", "after"}
WithReview == {"refence", "live", "delete", "submit", "settle", "after"}
Judged == {"delete", "complete", "conclude", "terminal", "mismatch", "cancel_check", "error",
           "e_check", "e_conclude", "e_report"}
Over == {"error", "e_check", "e_conclude", "e_report", "exit"}
Concluded == {"claim", "authority", "fetch", "authorize", "fence", "check", "make", "mismatch",
              "cancel_check", "terminal", "e_report", "exit"}

Runners == [pc : Stage, phase : Phase \cup {Nothing}, after : Stage \cup {Nothing},
            context : Commits \cup {Nothing}, check : Commits \cup {Nothing}, packet : BOOLEAN,
            signed : BOOLEAN, pending : Nat, verdict : Verdict \cup {Nothing},
            primary : BOOLEAN, active : SUBSET Phase]

\* A phase is open exactly as long as there is work in it, and its end leads out of it.
PhaseInv ==
  /\ r.phase # Nothing <=> r.pc \in InPhase
  /\ At("revoke") => r.after \in Stage \ (InPhase \cup {"running"})

\* A valid token is one the runner knows of.
TokenInv == valid \subseteq r.active /\ (At("running") => r.active = {})

\* What was reviewed was the head at one time: the head only moves on.
HeadInv ==
  /\ r.context # Nothing => r.context <= head
  /\ \A i \in 1..Len(reviews) : /\ reviews[i].head <= head
                                /\ reviews[i].stale => reviews[i].head < head
  /\ \A c \in inFlight : c.call = "create" => c.head <= head

\* An attempt creates one review, or has one call under way that will.
MarkerInv ==
  /\ \A i, j \in 1..Len(reviews) : reviews[i].marker = reviews[j].marker => i = j
  /\ \A i \in 1..Len(reviews) :
       reviews[i].marker <= attempt /\ (reviews[i].marker = attempt => Bound \notin Before)
  /\ \A c \in inFlight : c.call = "create" =>
       /\ c.marker <= attempt /\ (c.marker = attempt => Bound \notin Before)
       /\ \A i \in 1..Len(reviews) : reviews[i].marker # c.marker
       /\ \A d \in inFlight : d.call = "create" /\ d.marker = c.marker => d = c

\* The Check is that of the reviewed commit, and so is the review at hand.
CheckInv ==
  /\ Bound \in WithContext \cup WithCheck => r.context # Nothing
  /\ Bound \in WithCheck => r.check = r.context

OwnReview ==
  /\ r.pending \in 1..Len(reviews)
  /\ reviews[r.pending].marker = attempt
  /\ reviews[r.pending].head = r.context

ReviewInv ==
  /\ r.pc \in WithReview => OwnReview /\ reviews[r.pending].state # "DELETED"
  /\ At("after") => reviews[r.pending].state = "COMMENTED"

VerdictInv ==
  /\ Bound \in Judged => r.verdict \in Verdict
  /\ r.verdict = "completed" =>
       /\ Bound \in {"complete", "conclude", "terminal", "exit"}
       /\ OwnReview /\ reviews[r.pending].state = "COMMENTED" /\ ~reviews[r.pending].stale
       /\ r.check = r.context

\* A receipt ends the request, and the attempt that signed it does nothing more.
ReceiptInv ==
  receipt # Nothing =>
    /\ request.state = "ended" /\ receipt.attempt <= attempt
    /\ receipt.attempt = attempt => Bound \in Over

\* As long as every call is answered nothing is left open behind the runner.
Calm == faults = 0 /\ attempt = 0
CalmInv ==
  Calm =>
    /\ inFlight = {} /\ valid \subseteq {r.phase}
    /\ \A i \in Pending : i = r.pending /\ r.pc \in {"refence", "live", "delete", "submit"}
    /\ \A h \in Commits : checks[h] = "in_progress" =>
         h = r.check /\ h = r.context /\ Bound \notin Concluded

PublicationInv ==
  /\ PublicationTypeOK /\ PhaseInv /\ TokenInv /\ HeadInv /\ MarkerInv /\ CheckInv /\ ReviewInv
  /\ VerdictInv /\ ReceiptInv /\ CalmInv /\ CompletedReviewIsCurrent

-----------------------------------------------------------------------------
(* How a step of the runner ends.                                          *)

Kept == /\ r'.context = r.context /\ r'.check = r.check /\ r'.pending = r.pending
        /\ r'.active = r.active /\ r'.phase = r.phase

LEMMA TypeOfRunner ==
  ASSUME PublicationTypeOK
  PROVE  r \in Runners /\ r.pending <= Len(reviews) /\ Len(reviews) \in Nat
  BY DEF PublicationTypeOK, Runners

LEMMA TypeOfReview ==
  ASSUME PublicationTypeOK, NEW i \in 1..Len(reviews)
  PROVE  /\ reviews[i] \in Review
         /\ reviews[i].marker \in 0..MaxReruns /\ reviews[i].head \in Commits
  <1>1. reviews \in Seq(Review)
    BY DEF PublicationTypeOK
  <1>2. reviews[i] \in Review
    BY <1>1
  <1> QED
    BY <1>2 DEF Review

LEMMA GoOn ==
  ASSUME r \in Runners, NEW s \in Stage, Go(s)
  PROVE  r' \in Runners /\ Kept /\ r'.pc = s /\ r'.verdict = r.verdict /\ r'.after = r.after
  BY DEF Runners, Go, Kept

LEMMA LeavePhase ==
  ASSUME r \in Runners, NEW s \in Stage, Leave(s)
  PROVE  r' \in Runners /\ Kept /\ r'.pc = "revoke" /\ r'.verdict = r.verdict /\ r'.after = s
  <1>1. "revoke" \in Stage
    BY DEF Stage
  <1>2. r' = [r EXCEPT !.pc = "revoke", !.after = s, !.primary = FALSE]
    BY DEF Leave
  <1>3. Kept /\ r'.pc = "revoke" /\ r'.verdict = r.verdict /\ r'.after = s
    BY <1>2 DEF Runners, Kept
  <1>4. r' \in Runners
    BY <1>1, <1>2 DEF Runners
  <1> QED
    BY <1>3, <1>4

LEMMA RaiseError ==
  ASSUME r \in Runners, NEW v \in Verdict, Raise(v)
  PROVE  /\ r' \in Runners /\ Kept /\ r'.verdict = v
         /\ r'.pc = (IF r.phase = Nothing THEN r'.after ELSE "revoke")
         /\ r'.after \in {"complete", "error"}
         /\ r'.after = "complete" => r.phase = "post" /\ v = "cancelled"
  <1> DEFINE next == IF r.phase = "post" /\ v = "cancelled" THEN "complete" ELSE "error"
  <1>1. next \in {"complete", "error"} /\ (next = "complete" => r.phase = "post" /\ v = "cancelled")
    OBVIOUS
  <1>2. r' = [r EXCEPT !.verdict = v, !.primary = TRUE, !.after = next,
                       !.pc = IF r.phase = Nothing THEN next ELSE "revoke"]
    BY DEF Raise
  <1> HIDE DEF next
  <1>3. "revoke" \in Stage /\ next \in Stage
    BY <1>1 DEF Stage
  <1>4. r'.after = next /\ r'.verdict = v /\ Kept
        /\ r'.pc = (IF r.phase = Nothing THEN next ELSE "revoke")
    BY <1>2 DEF Runners, Kept
  <1>5. r' \in Runners
    BY <1>2, <1>3 DEF Runners
  <1> QED
    BY <1>1, <1>4, <1>5

-----------------------------------------------------------------------------
(* Steps of the runner that change neither the commit, the Check and the review *)
(* it works on nor what GitHub has of reviews.                               *)

\* What a step of the runner may not do to its place, its verdict and what it works on.
Forward ==
  /\ r' \in Runners
  /\ r'.context = r.context /\ r'.check = r.check /\ r'.pending = r.pending
  /\ PhaseInv'
  /\ Bound' \in Before => Bound \in Before
  /\ Bound' \in WithContext \cup WithCheck => Bound \in WithContext \cup WithCheck
  /\ Bound' \in WithCheck => Bound \in WithCheck
  /\ r'.pc \in WithReview => r.pc \in WithReview
  /\ At("after")' => reviews[r.pending].state = "COMMENTED"
  /\ Bound' \in Judged => r'.verdict \in Verdict
  /\ r'.verdict = "completed" =>
       /\ Bound' \in {"complete", "conclude", "terminal", "exit"}
       /\ \/ r.verdict = "completed"
          \/ At("after") /\ head = r.context
  /\ Bound \in Over => Bound' \in Over
  /\ faults' = 0 => faults = 0
  /\ faults' = 0 /\ r.pc \in {"refence", "live", "delete", "submit"} =>
       r'.pc \in {"refence", "live", "delete", "submit"} \/ reviews[r.pending].state # "PENDING"
  /\ faults' = 0 /\ Bound' \in Concluded =>
       Bound \in Concluded \/ r.context = Nothing \/ r.check = Nothing \/ checks'[r.check] # "in_progress"

\* A Check is opened by MakeCheck and CancelMismatch alone.
CheckStates == [Commits -> {"none", "in_progress", "neutral", "cancelled", "failure"}]
NoneOpened ==
  /\ checks' \in CheckStates
  /\ \A h \in Commits : checks'[h] = "in_progress" => checks[h] = "in_progress"

\* What is on record, if anything is.
Receipts == [attempt : 0..MaxReruns, status : Verdict] \cup {Nothing}
Row == [state : {"open", "superseded", "ended"}, check : Commits \cup {Nothing}]

\* Whatever such a step does to tokens, Check and row, it does not disturb the rest.
LEMMA ForwardKeepsRest ==
  ASSUME PublicationInv, Forward, faults' \in 0..MaxFaults,
         UNCHANGED <<head, trigger, reviews, inFlight, attempt>>,
         receipt' \in Receipts, request' \in Row, NoneOpened,
         valid' \subseteq Phase, Calm' => valid' \subseteq {r'.phase}
  PROVE  (/\ PublicationTypeOK /\ PhaseInv /\ HeadInv /\ MarkerInv /\ CheckInv /\ ReviewInv
          /\ VerdictInv /\ CalmInv)'
  <1> USE DEF PublicationInv
  <1>1. PublicationTypeOK'
    <2>1. r' \in Runners /\ r'.pending <= Len(reviews)
      BY TypeOfRunner DEF Forward
    <2>2. r' \in [pc : Stage, phase : Phase \cup {Nothing}, after : Stage \cup {Nothing},
                  context : Commits \cup {Nothing}, check : Commits \cup {Nothing}, packet : BOOLEAN,
                  signed : BOOLEAN, pending : 0..Len(reviews), verdict : Verdict \cup {Nothing},
                  primary : BOOLEAN, active : SUBSET Phase]
      BY <2>1, TypeOfRunner DEF Runners
    <2> QED
      BY <2>2 DEF PublicationTypeOK, Receipts, Row, NoneOpened, CheckStates
  <1>2. PhaseInv'
    BY DEF Forward
  <1>3. HeadInv'
    BY DEF Forward, HeadInv
  <1>4. MarkerInv'
    BY DEF Forward, MarkerInv
  <1>5. CheckInv'
    BY DEF Forward, CheckInv
  <1>6. ReviewInv'
    BY DEF Forward, ReviewInv, OwnReview
  <1>7. VerdictInv'
    <2>1. OwnReview' <=> OwnReview
      BY DEF Forward, OwnReview
    <2>2. At("after") /\ head = r.context =>
            /\ OwnReview /\ reviews[r.pending].state = "COMMENTED" /\ ~reviews[r.pending].stale
            /\ r.check = r.context
      <3>1. At("after") => Bound = "after" /\ r.pc \in WithReview
        BY DEF At, Bound, WithReview
      <3>2. OwnReview => reviews[r.pending].head \in Commits
        BY TypeOfReview DEF OwnReview
      <3>3. At("after") => r.check = r.context /\ OwnReview /\ reviews[r.pending].state = "COMMENTED"
        BY <3>1 DEF CheckInv, ReviewInv, WithCheck
      <3> QED
        BY <3>2, <3>3, PublicationAssumption DEF HeadInv, OwnReview, Commits, PublicationTypeOK
    <2> QED
      BY <2>1, <2>2 DEF Forward, VerdictInv
  <1>8. CalmInv'
    <2>1. \A h \in Commits : h # Nothing
      BY PublicationAssumption DEF Commits
    <2> QED
      BY <2>1 DEF Forward, CalmInv, Calm, Pending, NoneOpened
  <1> QED
    BY <1>1, <1>2, <1>3, <1>4, <1>5, <1>6, <1>7, <1>8

\* A step that leaves the tokens alone too.
Onward == Forward /\ Kept /\ (At("running")' => r.active = {})

LEMMA OnwardKeepsInv ==
  ASSUME PublicationInv, Onward, faults' \in 0..MaxFaults,
         UNCHANGED <<head, trigger, receipt, reviews, inFlight, valid, attempt>>,
         NoneOpened, request' \in Row, receipt # Nothing => request' = request
  PROVE  PublicationInv'
  <1>1. receipt' \in Receipts /\ valid' \subseteq Phase
    BY DEF PublicationInv, PublicationTypeOK, Receipts
  <1>2. Calm' => valid' \subseteq {r'.phase}
    BY DEF PublicationInv, CalmInv, Calm, Onward, Forward, Kept
  <1>3. TokenInv'
    BY DEF PublicationInv, TokenInv, Onward, Kept, At
  <1>4. ReceiptInv'
    BY DEF PublicationInv, ReceiptInv, Onward, Forward
  <1>5. CompletedReviewIsCurrent'
    BY DEF PublicationInv, CompletedReviewIsCurrent, MarkedBy
  <1>6. Forward
    BY DEF Onward
  <1> QED
    BY <1>1, <1>2, <1>3, <1>4, <1>5, <1>6, ForwardKeepsRest DEF PublicationInv

LEMMA SameChecks ==
  ASSUME PublicationTypeOK, UNCHANGED checks
  PROVE  NoneOpened
  BY DEF PublicationTypeOK, NoneOpened, CheckStates

\* A fault is counted, whatever follows.
LEMMA FaultCount ==
  ASSUME PublicationTypeOK, Fine \/ Fault
  PROVE  faults' \in 0..MaxFaults /\ (faults' = 0 => faults = 0) /\ (Fault => faults' # 0)
  BY PublicationAssumption DEF PublicationTypeOK, Fine, Fault

LEMMA RaiseOnward ==
  ASSUME PublicationInv, NEW v \in {"failed", "cancelled"}, Raise(v), Fine \/ Fault,
         r.pc \notin Over \cup {"revoke", "refence", "live", "delete", "submit"}
  PROVE  Onward
  <1>1. r \in Runners /\ v \in Verdict /\ v # "completed"
    BY TypeOfRunner DEF PublicationInv, Verdict
  <1>2. /\ r' \in Runners /\ Kept /\ r'.verdict = v
        /\ r'.pc = (IF r.phase = Nothing THEN r'.after ELSE "revoke")
        /\ r'.after \in {"complete", "error"}
        /\ r'.after = "complete" => r.phase = "post" /\ v = "cancelled"
    BY <1>1, RaiseError, Zenon
  <1>3. faults' = 0 => faults = 0
    BY FaultCount DEF PublicationInv
  <1>4. Bound' = r'.after /\ r'.pc \in {"revoke", "complete", "error"}
    BY <1>2 DEF Bound, At
  <1>5. PhaseInv'
    BY <1>2 DEF PhaseInv, InPhase, At, Kept, Stage
  <1>6. Bound = r.pc
    BY DEF Bound, At
  <1> QED
    BY <1>1, <1>2, <1>3, <1>4, <1>5, <1>6
    DEF Onward, Forward, Kept, At, Before, WithContext, WithCheck, WithReview, Judged, Over, Concluded

\* The way from stage to stage as long as nothing goes wrong.
Follows(s) ==
  \/ At("claim") /\ s \in {"authority", "exit"}
  \/ At("authorize") /\ s = "fence"
  \/ At("fence") /\ s = "check"
  \/ At("model") /\ s = "running" /\ r.active = {}
  \/ At("pre") /\ s = "claim_fence"
  \/ At("claim_fence") /\ s = "reconcile"
  \/ At("reconcile") /\ s = "create"
  \/ At("refence") /\ s = "live"
  \/ At("live") /\ s = "submit"
  \/ At("settle") /\ s = "after" /\ reviews[r.pending].state = "COMMENTED"

LEMMA FollowOnward ==
  ASSUME PublicationInv, NEW s \in Stage, Follows(s), Go(s), Fine \/ Fault
  PROVE  Onward
  <1>1. r' \in Runners /\ Kept /\ r'.pc = s /\ r'.verdict = r.verdict /\ r'.after = r.after
    BY GoOn, TypeOfRunner DEF PublicationInv
  <1>2. faults' = 0 => faults = 0
    BY FaultCount DEF PublicationInv
  <1>3. Bound' = s /\ Bound = r.pc
    BY <1>1 DEF Bound, At, Follows
  <1>4. PhaseInv'
    BY <1>1 DEF PhaseInv, PublicationInv, InPhase, At, Kept, Follows
  <1>5. r.verdict # "completed"
    BY <1>3 DEF PublicationInv, VerdictInv, Follows, At
  <1>6. s \notin Judged /\ r.pc \notin Over
    BY DEF Follows, At, Judged, Over
  <1> QED
    BY <1>1, <1>2, <1>3, <1>4, <1>5, <1>6
    DEF Onward, Forward, Kept, At, Follows, Before, WithContext, WithCheck, WithReview, Concluded

\* The review at hand is given up.
DropReview(v) == r' = [r EXCEPT !.pc = "delete", !.verdict = v]

LEMMA DropOnward ==
  ASSUME PublicationInv, NEW v \in {"failed", "cancelled"}, DropReview(v), Fine \/ Fault,
         r.pc \in {"refence", "live"}
  PROVE  Onward
  <1>1. r \in Runners /\ v \in Verdict /\ v # "completed" /\ "delete" \in Stage
    BY TypeOfRunner DEF PublicationInv, Verdict, Stage
  <1>2. r' \in Runners /\ Kept /\ r'.pc = "delete" /\ r'.verdict = v /\ r'.after = r.after
    BY <1>1 DEF DropReview, Runners, Kept
  <1>3. faults' = 0 => faults = 0
    BY FaultCount DEF PublicationInv
  <1>4. Bound' = "delete" /\ Bound = r.pc
    BY <1>2 DEF Bound, At
  <1>5. PhaseInv'
    BY <1>2 DEF PhaseInv, PublicationInv, InPhase, At, Kept
  <1> QED
    BY <1>1, <1>2, <1>3, <1>4, <1>5
    DEF Onward, Forward, Kept, At, Before, WithContext, WithCheck, WithReview, Judged, Over, Concluded

\* The callbacks before the last, the model, and the checks of the head.
LEMMA WalkSteps ==
  ASSUME PublicationInv,
         \/ Claim \/ AuthorizedCallback \/ FenceCheck \/ FenceCreate \/ StartModel \/ FetchHead
         \/ Settle \/ Refence \/ FetchLiveHead
  PROVE  PublicationInv'
  <1> USE DEF Claim, AuthorizedCallback, FenceCheck, FenceCreate, Callback, StartModel, FetchHead, Settle,
              Refence, FetchLiveHead, CheckHead
  <1>1. Fine \/ Fault
    BY DEF Fine
  <1>2. \/ \E v \in {"failed", "cancelled"} :
             Raise(v) /\ r.pc \notin Over \cup {"revoke", "refence", "live", "delete", "submit"}
        \/ \E v \in {"failed", "cancelled"} : DropReview(v) /\ r.pc \in {"refence", "live"}
        \/ \E s \in {"authority", "exit", "fence", "check", "running", "claim_fence", "reconcile",
                     "live", "submit", "after"} : Follows(s) /\ Go(s)
    BY DEF At, Over, DropReview, Follows
  <1>3. Onward
    BY <1>1, <1>2, RaiseOnward, DropOnward, FollowOnward DEF Stage
  <1>4. UNCHANGED <<head, trigger, receipt, checks, reviews, inFlight, valid, attempt, request>>
    BY DEF store, rest
  <1>5. faults' \in 0..MaxFaults /\ request' \in Row
    BY <1>1, <1>4, FaultCount DEF PublicationInv, PublicationTypeOK, Row
  <1> QED
    BY <1>3, <1>4, <1>5, OnwardKeepsInv, SameChecks DEF PublicationInv

\* The packet and the finished model.
LEMMA ModelSteps ==
  ASSUME PublicationInv, Collect \/ FinishModel
  PROVE  PublicationInv'
  <1> DEFINE c == [r EXCEPT !.packet = TRUE, !.pc = "revoke", !.after = "model", !.primary = FALSE]
             p == [r EXCEPT !.signed = TRUE, !.pc = "post"]
             e == [r EXCEPT !.signed = TRUE, !.pc = "error", !.verdict = "cancelled"]
  <1>0. r \in Runners /\ {"revoke", "model", "post", "error"} \subseteq Stage /\ "cancelled" \in Verdict
    BY TypeOfRunner DEF PublicationInv, Verdict, Stage
  <1>1. Fine \/ Fault
    BY DEF Collect, FinishModel, Fine
  <1>2. \/ Raise("failed") /\ r.pc \in {"fetch_packet", "running"}
        \/ At("fetch_packet") /\ r' = c
        \/ At("running") /\ (r' = p \/ r' = e)
    BY DEF Collect, FinishModel, At
  <1>3. faults' = 0 => faults = 0
    BY <1>1, FaultCount DEF PublicationInv
  <1>c. /\ c \in Runners /\ c.pc = "revoke" /\ c.after = "model" /\ c.verdict = r.verdict
        /\ c.context = r.context /\ c.check = r.check /\ c.pending = r.pending
        /\ c.active = r.active /\ c.phase = r.phase
    BY <1>0 DEF Runners
  <1>p. /\ p \in Runners /\ p.pc = "post" /\ p.verdict = r.verdict
        /\ p.context = r.context /\ p.check = r.check /\ p.pending = r.pending
        /\ p.active = r.active /\ p.phase = r.phase
    BY <1>0 DEF Runners
  <1>e. /\ e \in Runners /\ e.pc = "error" /\ e.verdict = "cancelled"
        /\ e.context = r.context /\ e.check = r.check /\ e.pending = r.pending
        /\ e.active = r.active /\ e.phase = r.phase
    BY <1>0 DEF Runners
  <1> HIDE DEF c, p, e
  <1>4. ASSUME Raise("failed") /\ r.pc \in {"fetch_packet", "running"}
       PROVE  Onward
    BY <1>1, <1>4, RaiseOnward DEF Over
  <1>5. ASSUME At("fetch_packet") /\ r' = c
       PROVE  Onward
    <2>1. Bound = "fetch_packet" /\ Bound' = "model"
      BY <1>5, <1>c DEF Bound, At
    <2>2. PhaseInv'
      BY <1>5, <1>c DEF PublicationInv, PhaseInv, InPhase, At, Stage
    <2>3. r.verdict # "completed"
      BY <2>1 DEF PublicationInv, VerdictInv
    <2> QED
      BY <1>3, <1>5, <1>c, <2>1, <2>2, <2>3
      DEF Onward, Forward, Kept, At, Before, WithContext, WithCheck, WithReview, Judged, Over, Concluded
  <1>6. ASSUME At("running") /\ (r' = p \/ r' = e)
       PROVE  Onward
    <2>1. Bound = "running" /\ Bound' = r'.pc /\ r'.pc \in {"post", "error"}
      BY <1>6, <1>p, <1>e DEF Bound, At
    <2>2. PhaseInv'
      BY <1>6, <1>p, <1>e DEF PublicationInv, PhaseInv, InPhase, At, Stage
    <2>3. r.verdict # "completed"
      BY <2>1 DEF PublicationInv, VerdictInv
    <2>4. Kept /\ r' \in Runners
      BY <1>6, <1>p, <1>e DEF Kept
    <2>5. r'.verdict # "completed" /\ (r'.pc = "error" => r'.verdict \in Verdict)
      BY <1>0, <1>6, <1>p, <1>e, <2>3
    <2> QED
      BY <1>3, <1>6, <2>1, <2>2, <2>4, <2>5
      DEF Onward, Forward, Kept, At, Before, WithContext, WithCheck, WithReview, Judged, Over, Concluded
  <1>7. UNCHANGED <<head, trigger, receipt, checks, reviews, inFlight, valid, attempt, request>>
    BY DEF Collect, FinishModel, rest
  <1>8. faults' \in 0..MaxFaults /\ request' \in Row
    BY <1>1, <1>7, FaultCount DEF PublicationInv, PublicationTypeOK, Row
  <1> QED
    BY <1>2, <1>4, <1>5, <1>6, <1>7, <1>8, OnwardKeepsInv, SameChecks DEF PublicationInv

\* started binds the Check, and only to a request that is open.
LEMMA StartedStep ==
  ASSUME PublicationInv, Started
  PROVE  PublicationInv'
  <1>0. r \in Runners /\ At("started") /\ Bound = "started"
    BY TypeOfRunner DEF PublicationInv, Started, Bound, At
  <1>1. Fine \/ Fault
    BY DEF Started
  <1>2. ASSUME Raise("failed") \/ Raise("cancelled")
       PROVE  Onward
    BY <1>0, <1>1, <1>2, RaiseOnward DEF Over, At
  <1>3. ASSUME Leave("collect")
       PROVE  Onward
    <2>1. "collect" \in Stage
      BY DEF Stage
    <2>2. r' \in Runners /\ Kept /\ r'.pc = "revoke" /\ r'.verdict = r.verdict /\ r'.after = "collect"
      BY <1>0, <1>3, <2>1, LeavePhase
    <2>3. Bound' = "collect" /\ PhaseInv'
      BY <1>0, <2>2 DEF Bound, At, PublicationInv, PhaseInv, InPhase, Kept, Stage
    <2>4. r.verdict # "completed" /\ (faults' = 0 => faults = 0)
      BY <1>0, <1>1, FaultCount DEF PublicationInv, VerdictInv
    <2> QED
      BY <1>0, <2>2, <2>3, <2>4
      DEF Onward, Forward, Kept, At, Before, WithContext, WithCheck, WithReview, Judged, Over, Concluded
  <1>4. UNCHANGED <<head, trigger, receipt, checks, reviews, inFlight, valid, attempt>>
    BY DEF Started, store
  <1>5. faults' \in 0..MaxFaults
    BY <1>1, FaultCount DEF PublicationInv
  <1>6. request' = request \/ (request.state = "open" /\ request' = [request EXCEPT !.check = r.check])
    BY DEF Started
  <1>7. request' \in Row
    BY <1>0, <1>6 DEF PublicationInv, PublicationTypeOK, Row, Runners
  <1>8. receipt # Nothing => request' = request
    BY <1>6 DEF PublicationInv, ReceiptInv
  <1> QED
    BY <1>2, <1>3, <1>4, <1>5, <1>7, <1>8, OnwardKeepsInv, SameChecks DEF PublicationInv, Started

\* The head after the submission decides about the verdict; the catch, about the receipt.
LEMMA JudgeSteps ==
  ASSUME PublicationInv, CompareAfter \/ EnterErrorPath
  PROVE  PublicationInv'
  <1>0. r \in Runners /\ {"revoke", "complete", "e_check", "e_report"} \subseteq Stage
    BY TypeOfRunner DEF PublicationInv, Stage
  <1>1. Fine \/ Fault
    BY DEF CompareAfter, EnterErrorPath, Fine
  <1>2. UNCHANGED <<head, trigger, receipt, checks, reviews, inFlight, valid, attempt, request>>
    BY DEF CompareAfter, EnterErrorPath, rest
  <1>3. faults' \in 0..MaxFaults /\ request' \in Row /\ (faults' = 0 => faults = 0)
    BY <1>1, <1>2, FaultCount DEF PublicationInv, PublicationTypeOK, Row
  <1>4. ASSUME At("after"), Raise("failed")
        PROVE  Onward
    BY <1>1, <1>4, RaiseOnward DEF Over, At
  <1>5. ASSUME NEW v \in {"completed", "cancelled"}, At("after"), v = "completed" => head = r.context,
               r' = [r EXCEPT !.verdict = v, !.primary = FALSE, !.pc = "revoke", !.after = "complete"]
        PROVE  Onward
    <2>1. v \in Verdict
      BY DEF Verdict
    <2>2. r'.pc = "revoke" /\ r'.after = "complete" /\ r'.verdict = v /\ Kept
      BY <1>0, <1>5 DEF Runners, Kept
    <2>3. r' \in Runners
      BY <1>0, <1>5, <2>1 DEF Runners
    <2>4. Bound = "after" /\ Bound' = "complete" /\ PhaseInv'
      BY <1>5, <2>2 DEF Bound, At, PublicationInv, PhaseInv, InPhase, Kept, Stage
    <2> QED
      BY <1>3, <1>5, <2>1, <2>2, <2>3, <2>4
      DEF Onward, Forward, Kept, At, Before, WithContext, WithCheck, WithReview, Judged, Over, Concluded
  <1>6. ASSUME NEW signed \in BOOLEAN, NEW s \in {"e_check", "e_report"}, At("error"), faults' = faults,
               r.context # Nothing /\ r.check # Nothing => s = "e_check",
               r' = [r EXCEPT !.signed = signed, !.pc = s]
        PROVE  PublicationInv'
    <2>1. r'.pc = s /\ r'.verdict = r.verdict /\ Kept
      BY <1>0, <1>6 DEF Runners, Kept
    <2>2. r' \in Runners
      BY <1>0, <1>6 DEF Runners
    <2>3. Bound = "error" /\ Bound' = s /\ PhaseInv'
      BY <1>6, <2>1 DEF Bound, At, PublicationInv, PhaseInv, InPhase, Kept, Stage
    <2>4. r.verdict \in Verdict /\ r.verdict # "completed"
      BY <2>3 DEF PublicationInv, VerdictInv, Judged
    <2>5. Onward
      BY <1>3, <1>6, <2>1, <2>2, <2>3, <2>4
      DEF Onward, Forward, Kept, At, Before, WithContext, WithCheck, WithReview, Judged, Over, Concluded
    <2> QED
      BY <1>2, <1>3, <2>5, OnwardKeepsInv, SameChecks DEF PublicationInv
  <1>7. CASE CompareAfter
    <2>1. Onward
      BY <1>4, <1>5, <1>7 DEF CompareAfter
    <2> QED
      BY <1>2, <1>3, <2>1, OnwardKeepsInv, SameChecks DEF PublicationInv
  <1>8. CASE EnterErrorPath
    BY <1>0, <1>6, <1>8 DEF EnterErrorPath, Runners
  <1> QED
    BY <1>7, <1>8

-----------------------------------------------------------------------------
(* Checks, receipts and tokens.                                            *)

\* The Check at hand is concluded, or, if that fails, what has come of it is not known.
LEMMA CompleteStep ==
  ASSUME PublicationInv, CompleteCheck
  PROVE  PublicationInv'
  <1> DEFINE done == [checks EXCEPT ![r.check] = ConclusionOf[r.verdict]]
             next == IF At("conclude") THEN "terminal" ELSE "e_report"
  <1>0. /\ r \in Runners /\ r.pc \in {"conclude", "e_conclude"} /\ Bound = r.pc
        /\ next \in Stage /\ next \in {"terminal", "e_report"} /\ (At("conclude") <=> next = "terminal")
    BY TypeOfRunner DEF PublicationInv, CompleteCheck, Bound, At, Stage
  <1>1. Fine \/ Fault
    BY DEF CompleteCheck
  <1>2. r.verdict \in Verdict
    BY <1>0 DEF PublicationInv, VerdictInv, Judged
  <1>3. ConclusionOf[r.verdict] \in {"neutral", "cancelled", "failure"}
    BY <1>2 DEF Verdict, ConclusionOf
  <1>4. checks \in CheckStates
    BY DEF PublicationInv, PublicationTypeOK, CheckStates
  <1>5. /\ done \in CheckStates
        /\ \A h \in Commits : done[h] = "in_progress" => checks[h] = "in_progress"
        /\ r.check \in Commits => done[r.check] # "in_progress"
    BY <1>3, <1>4 DEF CheckStates
  <1>6. \/ Fine /\ checks' = done /\ Leave(next)
        \/ Fault /\ checks' \in {checks, done} /\ (Leave(next) \/ (At("conclude") /\ Raise("failed")))
    BY <1>0 DEF CompleteCheck
  <1>7. (faults' = 0 => faults = 0 /\ checks' = done /\ Leave(next)) /\ faults' \in 0..MaxFaults
    BY <1>1, <1>6, FaultCount DEF PublicationInv
  <1> HIDE DEF done, next
  <1>8. ASSUME Leave(next) PROVE Onward
    <2>1. r' \in Runners /\ Kept /\ r'.pc = "revoke" /\ r'.verdict = r.verdict /\ r'.after = next
      BY <1>0, <1>8, LeavePhase
    <2>2. Bound' = next /\ PhaseInv'
      BY <1>0, <2>1 DEF Bound, At, PublicationInv, PhaseInv, InPhase, Kept, Stage
    <2>3. r.verdict = "completed" => next = "terminal"
      BY <1>0 DEF PublicationInv, VerdictInv, At
    <2>4. Bound \in Over => next = "e_report"
      BY <1>0 DEF Over, At
    <2>5. r.check \notin Commits => r.check = Nothing
      BY <1>0 DEF Runners
    <2> QED
      BY <1>0, <1>2, <1>5, <1>7, <2>1, <2>2, <2>3, <2>4, <2>5
      DEF Onward, Forward, Kept, At, Before, WithContext, WithCheck, WithReview, Judged, Over
  <1>9. ASSUME At("conclude"), Raise("failed") PROVE Onward
    BY <1>1, <1>9, RaiseOnward DEF Over, At
  <1>10. NoneOpened
    BY <1>4, <1>5, <1>6 DEF NoneOpened
  <1>11. UNCHANGED <<head, trigger, receipt, reviews, inFlight, valid, attempt, request>>
    BY DEF CompleteCheck, rest
  <1>12. request' \in Row
    BY <1>11 DEF PublicationInv, PublicationTypeOK, Row
  <1> QED
    BY <1>6, <1>7, <1>8, <1>9, <1>10, <1>11, <1>12, OnwardKeepsInv

\* Steps before there is a review, which take up the commit or open a Check.
Early ==
  /\ r' \in Runners /\ r'.pending = r.pending
  /\ PhaseInv' /\ CheckInv' /\ TokenInv'
  /\ r'.context # Nothing => r'.context <= head
  /\ r'.verdict # "completed" /\ (Bound' \in Judged => r'.verdict \in Verdict)
  /\ r'.pc \notin WithReview /\ r.pc \notin WithReview
  /\ Bound' \in Before => Bound \in Before
  /\ Bound \notin Over
  /\ faults' = 0 => faults = 0
  /\ checks' \in CheckStates
  /\ Calm' => \A h \in Commits : checks'[h] = "in_progress" =>
       h = r'.check /\ h = r'.context /\ Bound' \notin Concluded

LEMMA EarlyKeepsInv ==
  ASSUME PublicationInv, Early, faults' \in 0..MaxFaults,
         UNCHANGED <<head, trigger, request, receipt, reviews, inFlight, valid, attempt>>,
         r'.phase = r.phase
  PROVE  PublicationInv'
  <1> USE DEF PublicationInv, Early
  <1>1. PublicationTypeOK'
    <2>1. r' \in Runners /\ r'.pending <= Len(reviews)
      BY TypeOfRunner
    <2>2. r' \in [pc : Stage, phase : Phase \cup {Nothing}, after : Stage \cup {Nothing},
                  context : Commits \cup {Nothing}, check : Commits \cup {Nothing}, packet : BOOLEAN,
                  signed : BOOLEAN, pending : 0..Len(reviews), verdict : Verdict \cup {Nothing},
                  primary : BOOLEAN, active : SUBSET Phase]
      BY <2>1, TypeOfRunner DEF Runners
    <2> QED
      BY <2>2 DEF PublicationTypeOK, CheckStates
  <1>2. HeadInv'
    BY DEF HeadInv
  <1>3. MarkerInv'
    BY DEF MarkerInv
  <1>4. ReviewInv'
    BY DEF ReviewInv, At, WithReview
  <1>5. VerdictInv'
    BY DEF VerdictInv
  <1>6. ReceiptInv'
    BY DEF ReceiptInv
  <1>7. CalmInv'
    <2>1. r.pc \notin {"refence", "live", "delete", "submit"}
      BY DEF WithReview
    <2> QED
      BY <2>1 DEF CalmInv, Calm, Pending
  <1>8. CompletedReviewIsCurrent'
    BY DEF CompletedReviewIsCurrent, MarkedBy
  <1> QED
    BY <1>1, <1>2, <1>3, <1>4, <1>5, <1>6, <1>7, <1>8

LEMMA EarlyStage ==
  ASSUME PublicationInv, r.pc \in {"fetch", "make", "cancel_check"}
  PROVE  /\ r \in Runners /\ Bound = r.pc /\ r.verdict # "completed"
         /\ checks \in CheckStates /\ Expected \in Commits /\ Bound \notin Over
         /\ r.pc \notin WithReview
         /\ Calm => \A h \in Commits : checks[h] # "in_progress"
         /\ r.phase # Nothing /\ valid \subseteq r.active
         /\ r.context # Nothing => r.context <= head
  <1>1. r \in Runners /\ Bound = r.pc
    BY TypeOfRunner DEF PublicationInv, Bound, At
  <1>2. r.verdict # "completed" /\ Bound \notin Over /\ r.pc \notin WithReview
    BY <1>1 DEF PublicationInv, VerdictInv, Over, WithReview
  <1>3. checks \in CheckStates
    BY DEF PublicationInv, PublicationTypeOK, CheckStates
  <1>4. Expected \in Commits
    BY PublicationAssumption DEF Expected, Commits
  <1>5. Calm => \A h \in Commits : checks[h] # "in_progress"
    BY <1>1 DEF PublicationInv, CalmInv, Concluded
  <1>6. r.phase # Nothing /\ valid \subseteq r.active /\ (r.context # Nothing => r.context <= head)
    BY DEF PublicationInv, PhaseInv, TokenInv, HeadInv, InPhase
  <1> QED
    BY <1>1, <1>2, <1>3, <1>4, <1>5, <1>6

\* The Check of an automatic request whose head has moved.
LEMMA MismatchStep ==
  ASSUME PublicationInv, CancelMismatch
  PROVE  PublicationInv'
  <1>1. r.pc = "cancel_check" /\ (Fine \/ Fault)
    BY DEF CancelMismatch, At
  <1>2. PICK known \in {Expected, Nothing} :
          r' = [r EXCEPT !.check = known, !.pc = "revoke", !.after = "e_report"]
    BY DEF CancelMismatch
  <1>3. r' \in Runners /\ r'.check = known
    <2>1. {"revoke", "e_report"} \subseteq Stage /\ known \in Commits \cup {Nothing}
      BY <1>1, EarlyStage DEF Stage
    <2> QED
      BY <1>1, <1>2, <2>1, EarlyStage DEF Runners
  <1>4. /\ r'.pc = "revoke" /\ r'.after = "e_report" /\ r'.verdict = r.verdict
        /\ r'.context = r.context /\ r'.pending = r.pending /\ r'.phase = r.phase
        /\ r'.active = r.active
    BY <1>1, <1>2, EarlyStage DEF Runners
  <1>5. Bound' = "e_report" /\ PhaseInv' /\ CheckInv'
    BY <1>1, <1>4, EarlyStage DEF Bound, At, PhaseInv, InPhase, Stage, CheckInv, WithContext, WithCheck
  <1>6. faults' \in 0..MaxFaults /\ (faults' = 0 => faults = 0) /\ (Fault => faults' # 0)
    BY <1>1, FaultCount DEF PublicationInv
  <1>7. UNCHANGED <<head, trigger, request, receipt, reviews, inFlight, valid, attempt>>
    BY DEF CancelMismatch, rest
  <1>8. TokenInv'
    BY <1>1, <1>4, <1>7, EarlyStage DEF TokenInv, At
  <1>9. checks' \in CheckStates
    <2> DEFINE made == [checks EXCEPT ![Expected] = IF @ = "none" THEN "in_progress" ELSE @]
               gone == [checks EXCEPT ![Expected] = "cancelled"]
    <2>1. made \in CheckStates
      BY <1>1, EarlyStage DEF CheckStates
    <2>2. gone \in CheckStates
      BY <1>1, EarlyStage DEF CheckStates
    <2>3. checks' \in {checks, made, gone}
      BY DEF CancelMismatch
    <2> QED
      BY <1>1, <2>1, <2>2, <2>3, EarlyStage
  <1>10. Calm' => \A h \in Commits : checks'[h] # "in_progress"
    <2>1. Calm' => Fine /\ Calm
      BY <1>1, <1>6, <1>7 DEF Calm
    <2>2. Calm' => checks' = [checks EXCEPT ![Expected] = "cancelled"]
      BY <1>6, <2>1 DEF CancelMismatch, Calm
    <2> QED
      BY <1>1, <2>1, <2>2, EarlyStage DEF CheckStates
  <1>11. r'.verdict \in Verdict /\ r'.verdict # "completed" /\ r'.pc \notin WithReview
    BY <1>1, <1>4, EarlyStage DEF PublicationInv, VerdictInv, Judged, WithReview
  <1>12. Bound' \notin Before
    BY <1>5 DEF Before
  <1>13. Early
    BY <1>1, <1>3, <1>4, <1>5, <1>6, <1>7, <1>8, <1>9, <1>10, <1>11, <1>12, EarlyStage DEF Early
  <1> QED
    BY <1>4, <1>6, <1>7, <1>13, EarlyKeepsInv

\* The Check of the reviewed commit.
LEMMA MakeStep ==
  ASSUME PublicationInv, MakeCheck
  PROVE  PublicationInv'
  <1> DEFINE made == [checks EXCEPT ![r.context] = IF @ = "none" THEN "in_progress" ELSE @]
  <1>1. r.pc = "make" /\ (Fine \/ Fault)
    BY DEF MakeCheck, At
  <1>2. r.context \in Commits /\ r.context # Nothing
    <2>1. Bound = "make" /\ r \in Runners
      BY <1>1, EarlyStage
    <2> QED
      BY <2>1 DEF PublicationInv, CheckInv, WithContext, Runners
  <1>3. /\ made \in CheckStates
        /\ \A h \in Commits : made[h] = "in_progress" => checks[h] = "in_progress" \/ h = r.context
    BY <1>1, <1>2, EarlyStage DEF CheckStates
  <1>4. \/ Fine /\ checks' = made /\ r' = [r EXCEPT !.check = r.context, !.pc = "started"]
        \/ Fault /\ Raise("failed") /\ checks' \in {checks, made}
    BY DEF MakeCheck
  <1> HIDE DEF made
  <1>5. faults' \in 0..MaxFaults /\ (faults' = 0 => faults = 0) /\ (Fault => faults' # 0)
    BY <1>1, FaultCount DEF PublicationInv
  <1>6. UNCHANGED <<head, trigger, request, receipt, reviews, inFlight, valid, attempt>>
    BY DEF MakeCheck, rest
  <1>7. ASSUME checks' = made, r' = [r EXCEPT !.check = r.context, !.pc = "started"]
        PROVE  PublicationInv'
    <2>1. /\ r'.pc = "started" /\ r'.check = r.context /\ r'.context = r.context
          /\ r'.pending = r.pending /\ r'.verdict = r.verdict /\ r'.phase = r.phase
          /\ r'.active = r.active /\ r'.after = r.after
      BY <1>1, <1>7, EarlyStage DEF Runners
    <2>2. "started" \in Stage
      BY DEF Stage
    <2>3. r' \in Runners
      BY <1>1, <1>2, <1>7, <2>2, EarlyStage DEF Runners
    <2>4. Bound' = "started" /\ PhaseInv' /\ CheckInv'
      BY <1>1, <1>2, <2>1, EarlyStage DEF Bound, At, PhaseInv, InPhase, CheckInv
    <2>5. TokenInv'
      BY <1>1, <1>6, <2>1, EarlyStage DEF TokenInv, At
    <2>6. Calm' => \A h \in Commits : checks'[h] = "in_progress" => h = r.context
      BY <1>1, <1>3, <1>5, <1>6, <1>7, EarlyStage DEF Calm
    <2>7. Bound' \notin Judged \cup WithReview \cup Concluded /\ Bound \in Before
      BY <1>1, <2>4, EarlyStage DEF Judged, WithReview, Concluded, Before
    <2>8. Early
      BY <1>1, <1>3, <1>5, <1>6, <1>7, <2>1, <2>3, <2>4, <2>5, <2>6, <2>7, EarlyStage
      DEF Early, Bound, At
    <2> QED
      BY <1>5, <1>6, <2>1, <2>8, EarlyKeepsInv
  <1>8. ASSUME Fault, Raise("failed"), checks' \in {checks, made}
        PROVE  PublicationInv'
    <2>1. /\ r' \in Runners /\ Kept /\ r'.verdict = "failed"
          /\ r'.pc = (IF r.phase = Nothing THEN r'.after ELSE "revoke")
          /\ r'.after \in {"complete", "error"}
          /\ r'.after = "complete" => r.phase = "post" /\ "failed" = "cancelled"
      <3>1. "failed" \in Verdict
        BY DEF Verdict
      <3> QED
        BY <1>1, <1>8, <3>1, EarlyStage, RaiseError
    <2>2. r'.pc = "revoke" /\ r'.after = "error" /\ Bound' = "error"
      BY <1>1, <2>1, EarlyStage DEF Bound, At
    <2>3. PhaseInv' /\ CheckInv'
      BY <1>1, <2>1, <2>2, EarlyStage DEF PhaseInv, InPhase, At, Kept, Stage, CheckInv, WithContext,
         WithCheck
    <2>4. TokenInv'
      BY <1>1, <1>6, <2>1, <2>2, EarlyStage DEF TokenInv, At, Kept
    <2>5. r'.verdict \in Verdict /\ r'.pc \notin WithReview /\ Bound' \notin Before
      BY <2>1, <2>2 DEF Verdict, WithReview, Before
    <2>6. Early
      BY <1>1, <1>3, <1>5, <1>6, <1>8, <2>1, <2>2, <2>3, <2>4, <2>5, EarlyStage DEF Early, Kept, Calm
    <2> QED
      BY <1>5, <1>6, <2>1, <2>6, EarlyKeepsInv DEF Kept
  <1> QED
    BY <1>4, <1>7, <1>8

\* The head of the pull request becomes the commit of the review.
LEMMA FetchStep ==
  ASSUME PublicationInv, FetchAuthority
  PROVE  PublicationInv'
  <1> DEFINE m == [r EXCEPT !.verdict = "cancelled", !.primary = TRUE, !.pc = "revoke",
                            !.after = "mismatch"]
             c == [r EXCEPT !.context = head, !.pc = "revoke", !.after = "authorize",
                            !.primary = FALSE]
  <1>1. r.pc = "fetch" /\ (Fine \/ Fault)
    BY DEF FetchAuthority, At
  <1>2. faults' \in 0..MaxFaults /\ (faults' = 0 => faults = 0)
    BY <1>1, FaultCount DEF PublicationInv
  <1>3. UNCHANGED <<head, trigger, request, receipt, reviews, inFlight, valid, attempt, checks>>
    BY DEF FetchAuthority, rest
  <1>4. r' = m \/ r' = c \/ Raise("failed")
    BY DEF FetchAuthority
  <1>5. /\ {"revoke", "mismatch", "authorize"} \subseteq Stage /\ "cancelled" \in Verdict
        /\ head \in Commits
    BY DEF Stage, Verdict, PublicationInv, PublicationTypeOK
  <1>m. /\ m \in Runners /\ m.pc = "revoke" /\ m.after = "mismatch" /\ m.verdict = "cancelled"
        /\ m.context = r.context /\ m.check = r.check /\ m.pending = r.pending
        /\ m.active = r.active /\ m.phase = r.phase
    BY <1>1, <1>5, EarlyStage DEF Runners
  <1>c. /\ c \in Runners /\ c.pc = "revoke" /\ c.after = "authorize" /\ c.verdict = r.verdict
        /\ c.context = head /\ c.check = r.check /\ c.pending = r.pending
        /\ c.active = r.active /\ c.phase = r.phase
    BY <1>1, <1>5, EarlyStage DEF Runners
  <1> HIDE DEF m, c
  <1>6. CASE Raise("failed")
    <2>1. Onward
      BY <1>1, <1>6, RaiseOnward DEF Over
    <2>2. request' \in Row /\ NoneOpened
      BY <1>3, SameChecks DEF PublicationInv, PublicationTypeOK, Row
    <2> QED
      BY <1>2, <1>3, <2>1, <2>2, OnwardKeepsInv
  <1>7. CASE r' = m \/ r' = c
    <2>1. /\ r' \in Runners /\ r'.pc = "revoke" /\ r'.after \in {"mismatch", "authorize"}
          /\ r'.after = "mismatch" => r'.verdict = "cancelled"
          /\ r'.after = "authorize" => r'.context = head /\ r'.verdict = r.verdict
          /\ r'.context \in {head, r.context} /\ r'.pending = r.pending /\ r'.phase = r.phase
          /\ r'.active = r.active
      BY <1>7, <1>m, <1>c
    <2>2. head # Nothing /\ head <= head
      BY <1>5, PublicationAssumption DEF Commits
    <2>3. Bound' = r'.after
      BY <2>1 DEF Bound, At
    <2>4. PhaseInv' /\ CheckInv'
      BY <1>1, <2>1, <2>2, <2>3, EarlyStage DEF PhaseInv, InPhase, At, Stage, CheckInv, WithContext,
         WithCheck
    <2>5. TokenInv'
      BY <1>1, <1>3, <2>1, EarlyStage DEF TokenInv, At
    <2>6. /\ r'.verdict # "completed" /\ (Bound' \in Judged => r'.verdict \in Verdict)
          /\ r'.pc \notin WithReview
      BY <1>1, <1>5, <2>1, <2>3, EarlyStage DEF Judged, WithReview
    <2>7. Bound \in Before
      BY <1>1, EarlyStage DEF Before
    <2>8. r'.context # Nothing => r'.context <= head
      BY <1>1, <2>1, <2>2, EarlyStage
    <2>9. checks' \in CheckStates /\ (Calm' => \A h \in Commits : checks'[h] # "in_progress")
      BY <1>1, <1>2, <1>3, EarlyStage DEF Calm
    <2>10. Early
      BY <1>1, <1>2, <1>3, <2>1, <2>4, <2>5, <2>6, <2>7, <2>8, <2>9, EarlyStage DEF Early
    <2> QED
      BY <1>2, <1>3, <2>1, <2>10, EarlyKeepsInv
  <1> QED
    BY <1>4, <1>6, <1>7

MintStage == {"authority", "check", "collect", "post", "complete", "mismatch", "e_check"}

LEMMA MintOperation ==
  ASSUME NEW s \in MintStage
  PROVE  /\ PhaseOf[s] \in Phase
         /\ OperationOf[s] \in Stage /\ OperationOf[s] \in InPhase \ {"revoke"}
         /\ OperationOf[s] \in Before <=> s \in Before
         /\ OperationOf[s] \in WithContext <=> s \in WithContext
         /\ OperationOf[s] \in WithCheck <=> s \in WithCheck
         /\ OperationOf[s] \in Judged <=> s \in Judged
         /\ s \in Over => OperationOf[s] \in Over
         /\ OperationOf[s] \in Concluded => s \in Concluded
         /\ s = "complete" <=> OperationOf[s] = "conclude"
         /\ OperationOf[s] \notin WithReview
  BY DEF MintStage, PhaseOf, Phase, OperationOf, Stage, InPhase, Before, WithContext, WithCheck,
         Judged, Over, Concluded, WithReview

LEMMA MintStep ==
  ASSUME PublicationInv, MintToken
  PROVE  PublicationInv'
  <1> DEFINE ph == PhaseOf[r.pc]
             op == OperationOf[r.pc]
             m == [r EXCEPT !.phase = ph, !.pc = op, !.active = @ \cup {ph}]
  <1>1. r \in Runners /\ r.pc \in MintStage /\ Bound = r.pc /\ (Fine \/ Fault)
    <2>1. r.pc \in DOMAIN PhaseOf
      BY DEF MintToken
    <2>2. r.pc \in MintStage
      BY <2>1 DEF PhaseOf, MintStage
    <2> QED
      BY <2>2, TypeOfRunner DEF PublicationInv, MintToken, MintStage, Bound, At
  <1>2. /\ ph \in Phase /\ op \in Stage /\ op \in InPhase \ {"revoke"}
        /\ op \in Before <=> r.pc \in Before
        /\ op \in WithContext <=> r.pc \in WithContext
        /\ op \in WithCheck <=> r.pc \in WithCheck
        /\ op \in Judged <=> r.pc \in Judged
        /\ r.pc \in Over => op \in Over
        /\ op \in Concluded => r.pc \in Concluded
        /\ r.pc = "complete" <=> op = "conclude"
        /\ op \notin WithReview
    BY <1>1, MintOperation, Zenon
  <1>3. \/ Fine /\ valid' = valid \cup {ph} /\ r' = m
        \/ Fault /\ valid' = valid /\ Go("e_report") /\ r.pc \in {"e_check", "mismatch"}
        \/ Fault /\ valid' = valid /\ Raise("failed") /\ r.pc \notin {"e_check", "mismatch"}
    BY DEF MintToken
  <1>m. /\ m.pc = op /\ m.phase = ph /\ m.active = r.active \cup {ph} /\ m.context = r.context
        /\ m.check = r.check /\ m.pending = r.pending /\ m.verdict = r.verdict
        /\ m.after = r.after
    BY <1>1 DEF Runners
  <1>r. m \in Runners
    <2>1. r.active \cup {ph} \in SUBSET Phase
      BY <1>1, <1>2 DEF Runners
    <2> QED
      BY <1>1, <1>2, <2>1 DEF Runners
  <1> HIDE DEF ph, op, m
  <1>4. faults' \in 0..MaxFaults /\ (faults' = 0 => faults = 0) /\ (Fault => faults' # 0)
    BY <1>1, FaultCount DEF PublicationInv
  <1>5. UNCHANGED <<head, trigger, request, receipt, reviews, inFlight, attempt, checks>>
    BY DEF MintToken
  <1>6. request' \in Row /\ receipt' \in Receipts /\ NoneOpened
    BY <1>5, SameChecks DEF PublicationInv, PublicationTypeOK, Row, Receipts
  <1>7. r.phase = Nothing
    BY <1>1 DEF PublicationInv, PhaseInv, MintStage, InPhase
  <1>8. ASSUME Fine, valid' = valid \cup {ph}, r' = m
        PROVE  PublicationInv'
    <2>1. Bound' = op /\ At("revoke")' = FALSE
      BY <1>2, <1>8, <1>m DEF Bound, At
    <2>2. PhaseInv'
      BY <1>2, <1>8, <1>m, PublicationAssumption DEF PhaseInv, At
    <2>3. valid' \subseteq Phase /\ valid' \subseteq r'.active
      BY <1>2, <1>8, <1>m DEF PublicationInv, PublicationTypeOK, TokenInv
    <2>4. TokenInv'
      BY <1>2, <1>8, <1>m, <2>3 DEF TokenInv, At, InPhase
    <2>5. Calm' => valid' \subseteq {r'.phase}
      <3>1. Calm' => valid \subseteq {r.phase} /\ valid \subseteq Phase
        BY <1>4, <1>5 DEF PublicationInv, PublicationTypeOK, CalmInv, Calm
      <3> QED
        BY <1>7, <1>8, <1>m, <3>1, PublicationAssumption
    <2>6. r.verdict = "completed" => r.pc = "complete"
      BY <1>1 DEF PublicationInv, VerdictInv, MintStage
    <2>7. r.pc \in Judged => r.verdict \in Verdict
      BY <1>1 DEF PublicationInv, VerdictInv
    <2>8. r.pc \notin {"refence", "live", "delete", "submit"} /\ op # "after"
      BY <1>1, <1>2 DEF MintStage, WithReview
    <2>9. Forward
      BY <1>1, <1>2, <1>4, <1>8, <1>m, <1>r, <2>1, <2>2, <2>6, <2>7, <2>8 DEF Forward, At
    <2>10. ReceiptInv'
      BY <1>1, <1>2, <1>5, <2>1 DEF PublicationInv, ReceiptInv
    <2>11. CompletedReviewIsCurrent'
      BY <1>5 DEF PublicationInv, CompletedReviewIsCurrent, MarkedBy
    <2> QED
      BY <1>4, <1>5, <1>6, <2>3, <2>4, <2>5, <2>9, <2>10, <2>11, ForwardKeepsRest DEF PublicationInv
  <1>9. ASSUME Go("e_report"), r.pc \in {"e_check", "mismatch"}, Fault
        PROVE  Onward
    <2>1. /\ r' \in Runners /\ Kept /\ r'.pc = "e_report" /\ r'.verdict = r.verdict
          /\ r'.after = r.after
      <3>1. "e_report" \in Stage
        BY DEF Stage
      <3> QED
        BY <1>1, <1>9, <3>1, GoOn
    <2>2. Bound' = "e_report" /\ PhaseInv'
      BY <1>7, <2>1 DEF Bound, At, PhaseInv, InPhase, Kept
    <2>3. r.verdict \in Verdict /\ r.verdict # "completed"
      BY <1>1, <1>9 DEF PublicationInv, VerdictInv, Judged
    <2> QED
      BY <1>1, <1>4, <1>9, <2>1, <2>2, <2>3
      DEF Onward, Forward, Kept, At, Before, WithContext, WithCheck, WithReview, Judged, Over
  <1>10. ASSUME Raise("failed"), r.pc \notin {"e_check", "mismatch"}
         PROVE  Onward
    BY <1>1, <1>10, RaiseOnward DEF Over, MintStage
  <1> QED
    BY <1>3, <1>4, <1>5, <1>6, <1>8, <1>9, <1>10, OnwardKeepsInv

LEMMA RevokeStep ==
  ASSUME PublicationInv, RevokeToken
  PROVE  PublicationInv'
  <1> DEFINE f == [r EXCEPT !.phase = Nothing, !.pc = r.after, !.active = @ \ {r.phase}]
             p == [r EXCEPT !.phase = Nothing, !.pc = r.after]
             e == [r EXCEPT !.phase = Nothing, !.pc = "error", !.verdict = "failed"]
  <1>1. /\ r \in Runners /\ At("revoke") /\ Bound = r.after /\ (Fine \/ Fault)
        /\ r.after \in Stage /\ r.after \notin InPhase /\ r.after # "running"
    BY TypeOfRunner DEF PublicationInv, RevokeToken, Bound, At, PhaseInv
  <1>2. \/ Fine /\ valid' = valid \ {r.phase} /\ r' = f
        \/ Fault /\ valid' \in {valid, valid \ {r.phase}} /\ (r' = p \/ r' = e)
    BY DEF RevokeToken
  <1>f. /\ f \in Runners /\ f.pc = r.after /\ f.phase = Nothing /\ f.active = r.active \ {r.phase}
        /\ f.context = r.context /\ f.check = r.check /\ f.pending = r.pending
        /\ f.verdict = r.verdict
    BY <1>1 DEF Runners
  <1>p. /\ p \in Runners /\ p.pc = r.after /\ p.phase = Nothing /\ p.active = r.active
        /\ p.context = r.context /\ p.check = r.check /\ p.pending = r.pending
        /\ p.verdict = r.verdict
    BY <1>1 DEF Runners
  <1>e. /\ e \in Runners /\ e.pc = "error" /\ e.phase = Nothing /\ e.active = r.active
        /\ e.context = r.context /\ e.check = r.check /\ e.pending = r.pending
        /\ e.verdict = "failed"
    <2>1. "error" \in Stage /\ "failed" \in Verdict
      BY DEF Stage, Verdict
    <2> QED
      BY <1>1, <2>1 DEF Runners
  <1> HIDE DEF f, p, e
  <1>4. faults' \in 0..MaxFaults /\ (faults' = 0 => faults = 0) /\ (Fault => faults' # 0)
    BY <1>1, FaultCount DEF PublicationInv
  <1>5. UNCHANGED <<head, trigger, request, receipt, reviews, inFlight, attempt, checks>>
    BY DEF RevokeToken
  <1>6. request' \in Row /\ receipt' \in Receipts /\ NoneOpened
    BY <1>5, SameChecks DEF PublicationInv, PublicationTypeOK, Row, Receipts
  <1>7. /\ r' \in Runners /\ r'.phase = Nothing /\ r'.context = r.context /\ r'.check = r.check
        /\ r'.pending = r.pending
        /\ \/ r'.pc = r.after /\ r'.verdict = r.verdict
           \/ r'.pc = "error" /\ r'.verdict = "failed" /\ Fault
    BY <1>2, <1>f, <1>p, <1>e
  <1>8. Bound' = r'.pc /\ r'.pc \notin InPhase /\ r'.pc # "running"
    BY <1>1, <1>7 DEF Bound, At, InPhase
  <1>9. PhaseInv'
    BY <1>7, <1>8 DEF PhaseInv, At, InPhase
  <1>10. valid' \subseteq Phase /\ TokenInv'
    <2>1. valid' \subseteq valid /\ valid' \subseteq r'.active
      BY <1>2, <1>f, <1>p, <1>e DEF PublicationInv, TokenInv
    <2> QED
      BY <1>8, <2>1 DEF PublicationInv, PublicationTypeOK, TokenInv, At
  <1>11. Calm' => valid' \subseteq {r'.phase}
    <2>1. Calm' => Fine /\ Calm
      BY <1>1, <1>4, <1>5 DEF Calm
    <2>2. Calm' => valid' = valid \ {r.phase}
      BY <1>2, <1>4 DEF Calm
    <2> QED
      BY <2>1, <2>2 DEF PublicationInv, CalmInv
  <1>12. r'.pc \notin WithReview
    BY <1>8 DEF InPhase, WithReview
  <1>13. /\ Bound' \in Judged => r'.verdict \in Verdict
         /\ r'.verdict = "completed" =>
              r.verdict = "completed" /\ Bound' \in {"complete", "conclude", "terminal", "exit"}
    BY <1>1, <1>7, <1>8 DEF PublicationInv, VerdictInv, Verdict
  <1>14. Forward
    BY <1>1, <1>4, <1>7, <1>8, <1>9, <1>12, <1>13
    DEF Forward, At, Before, WithContext, WithCheck, WithReview, Over, Concluded
  <1>15. ReceiptInv'
    BY <1>1, <1>5, <1>7, <1>8 DEF PublicationInv, ReceiptInv, Over
  <1>16. CompletedReviewIsCurrent'
    BY <1>5 DEF PublicationInv, CompletedReviewIsCurrent, MarkedBy
  <1> QED
    BY <1>4, <1>5, <1>6, <1>10, <1>11, <1>14, <1>15, <1>16, ForwardKeepsRest DEF PublicationInv, PhaseInv

\* The receipt and the status together, once; what "completed" stands for is at hand.
LEMMA CommitRecords ==
  ASSUME PublicationInv, CanCommit, Commit(r.verdict), UNCHANGED <<attempt, reviews>>,
         Bound \in {"terminal", "e_report"}, Bound' \in Over
  PROVE  receipt' \in Receipts /\ request' \in Row /\ ReceiptInv' /\ CompletedReviewIsCurrent'
  <1> USE DEF PublicationInv
  <1>1. r.verdict \in Verdict /\ request.check = r.check /\ request \in Row
    BY DEF VerdictInv, Judged, CanCommit, PublicationTypeOK, Row
  <1>2. /\ receipt' = [attempt |-> attempt, status |-> r.verdict]
        /\ request' = [request EXCEPT !.state = "ended"]
    BY DEF Commit
  <1>3. receipt' \in Receipts
    BY <1>1, <1>2 DEF Receipts, PublicationTypeOK
  <1>4. request' \in Row /\ request'.state = "ended" /\ request'.check = request.check
    BY <1>1, <1>2 DEF Row
  <1>5. receipt'.attempt = attempt /\ receipt'.status = r.verdict
    BY <1>2
  <1>6. ReceiptInv'
    <2>1. attempt <= attempt
      BY PublicationAssumption DEF PublicationTypeOK
    <2> QED
      BY <1>4, <1>5, <2>1 DEF ReceiptInv
  <1>7. CompletedReviewIsCurrent'
    <2>1. SUFFICES ASSUME r.verdict = "completed" PROVE CompletedReviewIsCurrent'
      BY <1>5 DEF CompletedReviewIsCurrent
    <2>2. /\ OwnReview /\ reviews[r.pending].state = "COMMENTED" /\ ~reviews[r.pending].stale
          /\ r.check = r.context
      BY <2>1 DEF VerdictInv
    <2>3. r.pending \in MarkedBy(receipt.attempt)'
      BY <1>5, <2>2 DEF MarkedBy, OwnReview
    <2>4. reviews'[r.pending].head = request'.check
      BY <1>1, <1>4, <2>2 DEF OwnReview
    <2> QED
      BY <2>2, <2>3, <2>4 DEF CompletedReviewIsCurrent
  <1> QED
    BY <1>3, <1>4, <1>6, <1>7

LEMMA RecordKeepsInv ==
  ASSUME PublicationInv, Onward, faults' \in 0..MaxFaults,
         UNCHANGED <<head, trigger, checks, reviews, inFlight, valid, attempt>>,
         \/ CanCommit /\ Commit(r.verdict) /\ Bound \in {"terminal", "e_report"} /\ Bound' \in Over
         \/ receipt' = receipt /\ request' \in Row /\ (receipt # Nothing => request' = request)
  PROVE  PublicationInv'
  <1>1. CASE receipt' = receipt /\ request' \in Row /\ (receipt # Nothing => request' = request)
    BY <1>1, SameChecks, OnwardKeepsInv DEF PublicationInv
  <1>2. CASE CanCommit /\ Commit(r.verdict) /\ Bound \in {"terminal", "e_report"} /\ Bound' \in Over
    <2>1. receipt' \in Receipts /\ request' \in Row /\ ReceiptInv' /\ CompletedReviewIsCurrent'
      BY <1>2, CommitRecords
    <2>2. valid' \subseteq Phase /\ NoneOpened
      BY SameChecks DEF PublicationInv, PublicationTypeOK
    <2>3. Calm' => valid' \subseteq {r'.phase}
      BY DEF PublicationInv, CalmInv, Calm, Onward, Forward, Kept
    <2>4. TokenInv'
      BY DEF PublicationInv, TokenInv, Onward, Kept, At
    <2>5. Forward
      BY DEF Onward
    <2> QED
      BY <2>1, <2>2, <2>3, <2>4, <2>5, ForwardKeepsRest DEF PublicationInv
  <1> QED
    BY <1>1, <1>2

\* The last callbacks, with the receipt or without one.
LEMMA LastSteps ==
  ASSUME PublicationInv, TerminalCallback \/ Report
  PROVE  PublicationInv'
  <1>1. /\ r \in Runners /\ r.pc \in {"terminal", "e_report"} /\ Bound = r.pc /\ (Fine \/ Fault)
        /\ r.phase = Nothing
    BY TypeOfRunner DEF PublicationInv, TerminalCallback, Report, Bound, At, PhaseInv, InPhase
  <1>2. UNCHANGED <<head, trigger, checks, reviews, inFlight, valid, attempt>>
    BY DEF TerminalCallback, Report, store
  <1>3. faults' \in 0..MaxFaults /\ (faults' = 0 => faults = 0)
    BY <1>1, FaultCount DEF PublicationInv
  <1>4. ASSUME Go("exit") PROVE Onward /\ Bound' \in Over
    <2>1. /\ r' \in Runners /\ Kept /\ r'.pc = "exit" /\ r'.verdict = r.verdict
          /\ r'.after = r.after
      <3>1. "exit" \in Stage
        BY DEF Stage
      <3> QED
        BY <1>1, <1>4, <3>1, GoOn
    <2>2. Bound' = "exit" /\ PhaseInv'
      BY <1>1, <2>1 DEF Bound, At, PhaseInv, InPhase, Kept
    <2> QED
      BY <1>1, <1>3, <2>1, <2>2
      DEF Onward, Forward, Kept, At, Before, WithContext, WithCheck, WithReview, Judged, Over, Concluded
  <1>5. ASSUME NEW v \in {"failed", "cancelled"}, Raise(v), At("terminal")
        PROVE  Onward /\ Bound' \in Over
    <2>1. Onward
      BY <1>1, <1>5, RaiseOnward DEF Over, At
    <2>2. /\ r'.pc = (IF r.phase = Nothing THEN r'.after ELSE "revoke")
          /\ r'.after \in {"complete", "error"}
          /\ r'.after = "complete" => r.phase = "post"
      <3>1. v \in Verdict
        BY DEF Verdict
      <3> QED
        BY <1>1, <1>5, <3>1, RaiseError
    <2>3. r'.pc = "error"
      BY <1>1, <2>2, PublicationAssumption DEF Phase
    <2> QED
      BY <2>1, <2>3 DEF Bound, At, Over
  <1>6. Onward /\ Bound' \in Over
    BY <1>4, <1>5 DEF TerminalCallback, Report
  <1>7. \/ CanCommit /\ Commit(r.verdict)
        \/ UNCHANGED <<request, receipt>>
        \/ receipt' = receipt /\ CanAbort /\ request' = [request EXCEPT !.state = "ended"]
    BY DEF TerminalCallback, Report
  <1>8. request \in Row /\ [request EXCEPT !.state = "ended"] \in Row
    BY DEF PublicationInv, PublicationTypeOK, Row
  <1>9. CanAbort => receipt = Nothing
    BY DEF CanAbort
  <1> QED
    BY <1>1, <1>2, <1>3, <1>6, <1>7, <1>8, <1>9, RecordKeepsInv
-----------------------------------------------------------------------------
(* What GitHub has of reviews.                                             *)

\* Reviews are added and change their state; one that is visible stays as it is, and
\* none but those of X is deleted.
Revised(X) ==
  /\ reviews' \in Seq(Review) /\ Len(reviews') >= Len(reviews)
  /\ \A i \in 1..Len(reviews) :
       /\ reviews'[i].marker = reviews[i].marker /\ reviews'[i].head = reviews[i].head
       /\ i \notin X => /\ reviews[i].state # "DELETED" => reviews'[i].state # "DELETED"
                        /\ reviews[i].state = "COMMENTED" => reviews'[i] = reviews[i]

LEMMA SameReviews ==
  ASSUME PublicationTypeOK, UNCHANGED reviews
  PROVE  Revised({}) /\ Pending' = Pending
  BY TypeOfRunner DEF PublicationTypeOK, Revised, Pending

LEMMA AppendRevises ==
  ASSUME PublicationTypeOK, NEW a \in 0..MaxReruns, NEW h \in Commits,
         reviews' = Append(reviews, NewReview(a, h))
  PROVE  /\ Revised({}) /\ Len(reviews') = Len(reviews) + 1
         /\ \A i \in 1..Len(reviews) : reviews'[i] = reviews[i]
         /\ reviews'[Len(reviews) + 1] = NewReview(a, h)
         /\ Pending' = Pending \cup {Len(reviews) + 1}
  <1> DEFINE n == NewReview(a, h)
  <1>1. n \in Review /\ n.state = "PENDING"
    BY DEF NewReview, Review
  <1>2. reviews \in Seq(Review) /\ reviews' = Append(reviews, n) /\ Len(reviews) \in Nat
    BY DEF PublicationTypeOK
  <1> HIDE DEF n
  <1>3. reviews' \in Seq(Review) /\ Len(reviews') = Len(reviews) + 1
    BY <1>1, <1>2
  <1>4. \A i \in 1..Len(reviews) : reviews'[i] = reviews[i]
    BY <1>1, <1>2
  <1>5. reviews'[Len(reviews) + 1] = n
    BY <1>1, <1>2
  <1>6. Revised({})
    BY <1>2, <1>3, <1>4 DEF Revised
  <1>7. 1..Len(reviews') = 1..Len(reviews) \cup {Len(reviews) + 1}
    BY <1>2, <1>3
  <1>8. Pending' = Pending \cup {Len(reviews) + 1}
    BY <1>1, <1>2, <1>3, <1>4, <1>5, <1>7 DEF Pending
  <1> QED
    BY <1>3, <1>4, <1>5, <1>6, <1>8 DEF n

\* The submission makes a pending review visible, and stale if the head has moved.
LEMMA SubmitRevises ==
  ASSUME PublicationTypeOK, HeadInv, NEW k, reviews' = Submitted(k)
  PROVE  /\ Revised({}) /\ Len(reviews') = Len(reviews)
         /\ \A i \in 1..Len(reviews) : reviews'[i].stale => reviews'[i].head < head
         /\ k \in 1..Len(reviews) /\ reviews[k].state # "DELETED" => reviews'[k].state = "COMMENTED"
         /\ Pending' = Pending \ {k}
  <1>1. reviews \in Seq(Review) /\ Len(reviews) \in Nat /\ head \in Nat
    BY PublicationAssumption DEF PublicationTypeOK, Commits
  <1>2. CASE reviews[k].state = "PENDING" /\ k \in 1..Len(reviews)
    <2> DEFINE s == [reviews[k] EXCEPT !.state = "COMMENTED", !.stale = (head # reviews[k].head)]
    <2>1. reviews[k] \in Review
      BY <1>1, <1>2
    <2>2. s \in Review
      BY <2>1 DEF Review
    <2>3. /\ s.marker = reviews[k].marker /\ s.head = reviews[k].head /\ s.state = "COMMENTED"
          /\ s.stale => head # reviews[k].head
      BY <2>1 DEF Review
    <2>4. reviews' = [reviews EXCEPT ![k] = s]
      BY <1>1, <1>2, <2>1 DEF Submitted, Review
    <2> HIDE DEF s
    <2>5. reviews' \in Seq(Review) /\ Len(reviews') = Len(reviews)
      BY <1>1, <1>2, <2>2, <2>4
    <2>6. \A i \in 1..Len(reviews) : reviews'[i] = IF i = k THEN s ELSE reviews[i]
      BY <1>1, <1>2, <2>2, <2>4
    <2>7. Revised({})
      BY <1>1, <1>2, <2>3, <2>5, <2>6 DEF Revised
    <2>8. \A i \in 1..Len(reviews) : reviews'[i].stale => reviews'[i].head < head
      <3>1. reviews[k].head <= head /\ reviews[k].head \in Nat
        BY <1>2, TypeOfReview DEF HeadInv, Commits
      <3> QED
        BY <1>1, <2>3, <2>6, <3>1 DEF HeadInv
    <2>9. Pending' = Pending \ {k}
      BY <2>3, <2>5, <2>6 DEF Pending
    <2> QED
      BY <1>2, <2>3, <2>5, <2>6, <2>7, <2>8, <2>9
  <1>3. CASE ~(reviews[k].state = "PENDING" /\ k \in 1..Len(reviews))
    <2>1. reviews' = reviews
      <3>1. k \notin 1..Len(reviews) =>
              [reviews EXCEPT ![k].state = "COMMENTED", ![k].stale = (head # reviews[k].head)] = reviews
        BY <1>1
      <3> QED
        BY <1>3, <3>1 DEF Submitted
    <2>2. Pending' = Pending /\ k \notin Pending
      BY <1>3, <2>1 DEF Pending
    <2>3. k \in 1..Len(reviews) /\ reviews[k].state # "DELETED" => reviews[k].state = "COMMENTED"
      BY <1>3, TypeOfReview DEF Review
    <2> QED
      BY <1>1, <2>1, <2>2, <2>3, SameReviews DEF HeadInv
  <1> QED
    BY <1>2, <1>3

\* What is revised so is still what was recorded.
LEMMA RevisedKeepsRecord ==
  ASSUME PublicationInv, NEW X, Revised(X), UNCHANGED <<receipt, request>>,
         receipt # Nothing => \A i \in X \cap (1..Len(reviews)) : reviews[i].marker # receipt.attempt
  PROVE  CompletedReviewIsCurrent'
  <1>1. SUFFICES ASSUME receipt # Nothing, receipt.status = "completed"
        PROVE  \E i \in MarkedBy(receipt.attempt)' :
                 /\ reviews'[i].state = "COMMENTED" /\ ~reviews'[i].stale
                 /\ reviews'[i].head = request.check
    BY DEF CompletedReviewIsCurrent
  <1>2. PICK i \in MarkedBy(receipt.attempt) :
          /\ reviews[i].state = "COMMENTED" /\ ~reviews[i].stale /\ reviews[i].head = request.check
    BY <1>1 DEF PublicationInv, CompletedReviewIsCurrent
  <1>3. i \in 1..Len(reviews) /\ reviews[i].marker = receipt.attempt /\ i \notin X
    BY <1>1, <1>2 DEF MarkedBy
  <1>4. i \in 1..Len(reviews') /\ reviews'[i] = reviews[i]
    <2>1. Len(reviews') \in Nat /\ Len(reviews) \in Nat
      BY DEF Revised, PublicationInv, PublicationTypeOK
    <2> QED
      BY <1>2, <1>3, <2>1 DEF Revised
  <1> QED
    BY <1>2, <1>3, <1>4 DEF MarkedBy

\* Steps that look for, create or submit the review of this attempt.
AtReview ==
  /\ r.pc \in {"reconcile", "create", "recover", "submit"}
  /\ r' \in Runners /\ r'.pc \in {"recover", "refence", "settle", "after"}
  /\ r'.context = r.context /\ r'.check = r.check /\ r'.phase = r.phase /\ r'.active = r.active
  /\ r'.verdict = r.verdict
  /\ r'.pending \in 0..Len(reviews')
  /\ r'.pc # "recover" => OwnReview' /\ reviews'[r'.pending].state # "DELETED"
  /\ At("after")' => reviews'[r'.pending].state = "COMMENTED"
  /\ Calm' => /\ inFlight' = {}
              /\ \A i \in Pending' : i = r'.pending /\ At("refence")'

LEMMA AtReviewKeepsInv ==
  ASSUME PublicationInv, AtReview, Revised({}), HeadInv', MarkerInv', Fine \/ Fault,
         inFlight' \subseteq LateCall,
         UNCHANGED <<head, trigger, request, receipt, checks, valid, attempt>>
  PROVE  PublicationInv'
  <1> USE DEF AtReview
  <1>1. faults' \in 0..MaxFaults /\ (faults' = 0 => faults = 0)
    BY FaultCount DEF PublicationInv
  <1>2. Bound = r.pc /\ Bound' = r'.pc /\ PhaseInv'
    BY DEF PublicationInv, PhaseInv, Bound, At, InPhase
  <1>3. PublicationTypeOK'
    <2>1. r' \in [pc : Stage, phase : Phase \cup {Nothing}, after : Stage \cup {Nothing},
                  context : Commits \cup {Nothing}, check : Commits \cup {Nothing}, packet : BOOLEAN,
                  signed : BOOLEAN, pending : 0..Len(reviews'), verdict : Verdict \cup {Nothing},
                  primary : BOOLEAN, active : SUBSET Phase]
      BY DEF Runners
    <2> QED
      BY <1>1, <2>1 DEF PublicationInv, PublicationTypeOK, Revised
  <1>4. TokenInv'
    BY DEF PublicationInv, TokenInv, At
  <1>5. CheckInv'
    BY <1>2 DEF PublicationInv, CheckInv, WithContext, WithCheck
  <1>6. ReviewInv'
    BY DEF ReviewInv, WithReview
  <1>7. VerdictInv'
    BY <1>2 DEF PublicationInv, VerdictInv, Judged
  <1>8. ReceiptInv'
    BY <1>2 DEF PublicationInv, ReceiptInv, Over
  <1>9. CalmInv'
    <2>1. Bound' \notin Concluded /\ (Calm' => Calm)
      BY <1>1, <1>2 DEF Concluded, Calm
    <2> QED
      BY <2>1 DEF PublicationInv, CalmInv, At
  <1>10. CompletedReviewIsCurrent'
    BY RevisedKeepsRecord
  <1> QED
    BY <1>2, <1>3, <1>4, <1>5, <1>6, <1>7, <1>8, <1>9, <1>10 DEF PublicationInv

\* A review with the marker of this attempt is taken up, whoever created it.
LEMMA FoundStep ==
  ASSUME PublicationInv, r.pc \in {"reconcile", "recover"}, Fine, NEW i \in Matches,
         r' = [r EXCEPT !.pending = i,
                        !.pc = IF reviews[i].state = "PENDING" THEN "refence" ELSE "after"],
         UNCHANGED <<rest, checks, reviews>>
  PROVE  PublicationInv'
  <1> DEFINE s == IF reviews[i].state = "PENDING" THEN "refence" ELSE "after"
  <1>1. /\ r \in Runners /\ Len(reviews) \in Nat /\ Bound = r.pc
        /\ UNCHANGED <<head, trigger, request, receipt, inFlight, valid, attempt>>
    BY TypeOfRunner DEF PublicationInv, Bound, At, rest
  <1>2. /\ i \in 1..Len(reviews) /\ reviews[i].marker = attempt /\ reviews[i].head = r.context
        /\ reviews[i].state \in {"PENDING", "COMMENTED"}
    <2>1. i \in 1..Len(reviews) /\ reviews[i].marker = attempt /\ reviews[i].head = r.context
          /\ reviews[i].state # "DELETED"
      BY DEF Matches, MarkedBy
    <2> QED
      BY <2>1, TypeOfReview DEF PublicationInv, Review
  <1>3. s \in {"refence", "after"} /\ s \in Stage /\ i \in Nat
    BY <1>1, <1>2 DEF Stage
  <1>4. r' = [r EXCEPT !.pending = i, !.pc = s]
    OBVIOUS
  <1>5. s = "after" => reviews[i].state = "COMMENTED"
    BY <1>2
  <1> HIDE DEF s
  <1>6. /\ r'.pc = s /\ r'.pending = i /\ r'.context = r.context /\ r'.check = r.check
        /\ r'.phase = r.phase /\ r'.active = r.active /\ r'.verdict = r.verdict
    BY <1>1, <1>4 DEF Runners
  <1>7. r' \in Runners
    BY <1>1, <1>3, <1>4 DEF Runners
  <1>8. OwnReview' /\ Bound' = s
    BY <1>1, <1>2, <1>3, <1>6 DEF OwnReview, Bound, At
  <1>9. Calm' => inFlight' = {} /\ Pending' = {}
    BY <1>1 DEF Fine, Calm, PublicationInv, CalmInv, Pending
  <1>10. AtReview
    BY <1>1, <1>2, <1>3, <1>5, <1>6, <1>7, <1>8, <1>9 DEF AtReview, At
  <1>11. HeadInv' /\ MarkerInv'
    <2>1. HeadInv'
      BY <1>1, <1>6 DEF PublicationInv, HeadInv
    <2>2. MarkerInv'
      BY <1>1, <1>3, <1>8 DEF PublicationInv, MarkerInv, Before
    <2> QED
      BY <2>1, <2>2
  <1> QED
    BY <1>1, <1>10, <1>11, AtReviewKeepsInv, SameReviews DEF PublicationInv, PublicationTypeOK

LEMMA FindSteps ==
  ASSUME PublicationInv, Reconcile \/ Recover
  PROVE  PublicationInv'
  <1>1. r.pc \in {"reconcile", "recover"} /\ (Fine \/ Fault) /\ UNCHANGED <<rest, checks, reviews>>
    BY DEF Reconcile, Recover, At
  <1>2. UNCHANGED <<head, trigger, request, receipt, inFlight, valid, attempt>>
    BY <1>1 DEF rest
  <1>3. \/ Raise("failed")
        \/ At("reconcile") /\ Go("create")
        \/ Fine /\ \E i \in Matches :
             r' = [r EXCEPT !.pending = i,
                            !.pc = IF reviews[i].state = "PENDING" THEN "refence" ELSE "after"]
    BY DEF Reconcile, Recover, Recovered
  <1>4. ASSUME Raise("failed") PROVE Onward
    BY <1>1, <1>4, RaiseOnward DEF Over
  <1>5. ASSUME At("reconcile"), Go("create") PROVE Onward
    <2>1. "create" \in Stage /\ Follows("create")
      BY <1>5 DEF Stage, Follows
    <2> QED
      BY <1>1, <1>5, <2>1, FollowOnward
  <1>6. faults' \in 0..MaxFaults /\ request' \in Row
    BY <1>1, <1>2, FaultCount DEF PublicationInv, PublicationTypeOK, Row
  <1>7. CASE Raise("failed") \/ (At("reconcile") /\ Go("create"))
    BY <1>1, <1>2, <1>4, <1>5, <1>6, <1>7, OnwardKeepsInv, SameChecks DEF PublicationInv
  <1> QED
    BY <1>1, <1>3, <1>7, FoundStep

\* A review that is created with a marker no other has, of a commit that was the head.
LEMMA AppendKeepsRest ==
  ASSUME PublicationInv, NEW a \in 0..MaxReruns, NEW h \in Commits,
         reviews' = Append(reviews, NewReview(a, h)), h <= head, a <= attempt,
         \A i \in 1..Len(reviews) : reviews[i].marker # a,
         inFlight' \subseteq inFlight, a = attempt => (Bound \notin Before)',
         Bound' \in Before => Bound \in Before,
         \A c \in inFlight' : c.call = "create" => c.marker # a,
         UNCHANGED <<head, attempt>>, r'.context \in {r.context, Nothing}
  PROVE  HeadInv' /\ MarkerInv'
  <1>1. /\ Len(reviews') = Len(reviews) + 1 /\ Len(reviews) \in Nat
        /\ \A i \in 1..Len(reviews) : reviews'[i] = reviews[i]
        /\ reviews'[Len(reviews) + 1] = NewReview(a, h)
    BY AppendRevises DEF PublicationInv, PublicationTypeOK
  <1>2. /\ reviews'[Len(reviews) + 1].marker = a /\ reviews'[Len(reviews) + 1].head = h
        /\ ~reviews'[Len(reviews) + 1].stale
    BY <1>1 DEF NewReview
  <1>3. \A i \in 1..Len(reviews') : i \in 1..Len(reviews) \/ i = Len(reviews) + 1
    BY <1>1
  <1> HIDE DEF NewReview
  <1>4. HeadInv'
    BY <1>1, <1>2, <1>3 DEF PublicationInv, HeadInv
  <1>5. \A i, j \in 1..Len(reviews') : reviews'[i].marker = reviews'[j].marker => i = j
    BY <1>1, <1>2, <1>3 DEF PublicationInv, MarkerInv
  <1>6. \A i \in 1..Len(reviews') :
          reviews'[i].marker <= attempt' /\ (reviews'[i].marker = attempt' => Bound' \notin Before)
    BY <1>1, <1>2, <1>3 DEF PublicationInv, MarkerInv
  <1>7. \A c \in inFlight' : c.call = "create" =>
          /\ c.marker <= attempt' /\ (c.marker = attempt' => Bound' \notin Before)
          /\ \A i \in 1..Len(reviews') : reviews'[i].marker # c.marker
          /\ \A d \in inFlight' : d.call = "create" /\ d.marker = c.marker => d = c
    BY <1>1, <1>2, <1>3 DEF PublicationInv, MarkerInv
  <1> QED
    BY <1>4, <1>5, <1>6, <1>7 DEF MarkerInv

\* The creation, whether it is answered, looked into or given up.
LEMMA CreateStep ==
  ASSUME PublicationInv, Create
  PROVE  PublicationInv'
  <1> DEFINE late == [call |-> "create", marker |-> attempt, head |-> r.context]
             own  == [r EXCEPT !.pending = Len(reviews'), !.pc = "refence"]
  <1>1. /\ r \in Runners /\ r.pc = "create" /\ Bound = "create" /\ (Fine \/ Fault)
        /\ Len(reviews) \in Nat /\ attempt \in 0..MaxReruns /\ attempt \in Nat
        /\ UNCHANGED <<head, trigger, request, receipt, checks, valid, attempt>>
    BY TypeOfRunner DEF PublicationInv, PublicationTypeOK, Create, Bound, At
  <1>2. r.context \in Commits /\ r.context <= head
    BY <1>1 DEF PublicationInv, CheckInv, HeadInv, WithCheck, Runners
  <1>3. /\ \A i \in 1..Len(reviews) : reviews[i].marker # attempt
        /\ \A c \in inFlight : c.call = "create" => c.marker # attempt
    BY <1>1 DEF PublicationInv, MarkerInv, Before
  <1>4. \/ Fine /\ reviews' = Append(reviews, NewReview(attempt, r.context)) /\ r' = own
           /\ Pending = {} /\ inFlight' = inFlight
        \/ Fine /\ Pending # {} /\ Go("recover") /\ UNCHANGED <<reviews, inFlight>>
        \/ Fault /\ Go("recover") /\ inFlight' = inFlight
           /\ (reviews' = Append(reviews, NewReview(attempt, r.context)) \/ reviews' = reviews)
        \/ Fault /\ Go("recover") /\ inFlight' = inFlight \cup {late} /\ reviews' = reviews
    BY DEF Create, Created
  <1>5. (faults' = 0 => faults = 0) /\ (Fault => faults' # 0)
    BY <1>1, FaultCount DEF PublicationInv
  <1>6. Go("recover") => /\ r' \in Runners /\ Kept /\ r'.pc = "recover" /\ r'.verdict = r.verdict
                         /\ Bound' = "recover"
    <2>1. "recover" \in Stage
      BY DEF Stage
    <2>2. Go("recover") => r' \in Runners /\ Kept /\ r'.pc = "recover" /\ r'.verdict = r.verdict
      BY <1>1, <2>1, GoOn
    <2> QED
      BY <2>2 DEF Bound, At
  <1>7. late \in LateCall /\ late.call = "create" /\ late.marker = attempt /\ late.head = r.context
    BY <1>1, <1>2 DEF LateCall
  <1>8. r.pending \in 0..Len(reviews) /\ Revised({}) /\ Len(reviews') \in Nat /\ inFlight \subseteq LateCall
    BY <1>1, <1>2, <1>4, TypeOfRunner, SameReviews, AppendRevises
    DEF PublicationInv, Revised, Runners, PublicationTypeOK
  <1>9. ASSUME Fine, reviews' = Append(reviews, NewReview(attempt, r.context)), r' = own,
               Pending = {}, inFlight' = inFlight
        PROVE  PublicationInv'
    <2>1. /\ Len(reviews') = Len(reviews) + 1
          /\ reviews'[Len(reviews')] = NewReview(attempt, r.context)
          /\ Pending' = {Len(reviews')}
      BY <1>1, <1>2, <1>9, AppendRevises DEF PublicationInv
    <2>2. /\ reviews'[Len(reviews')].marker = attempt /\ reviews'[Len(reviews')].head = r.context
          /\ reviews'[Len(reviews')].state = "PENDING"
      BY <2>1 DEF NewReview
    <2>3. /\ r'.pc = "refence" /\ r'.pending = Len(reviews') /\ r'.context = r.context
          /\ r'.check = r.check /\ r'.phase = r.phase /\ r'.active = r.active
          /\ r'.verdict = r.verdict
      BY <1>1, <1>9 DEF Runners
    <2>4. r' \in Runners
      <3>1. "refence" \in Stage
        BY DEF Stage
      <3> QED
        BY <1>1, <1>8, <1>9, <3>1 DEF Runners
    <2>5. OwnReview' /\ Bound' = "refence"
      BY <1>1, <1>8, <2>1, <2>2, <2>3 DEF OwnReview, Bound, At
    <2>6. Calm' => inFlight' = {}
      BY <1>1, <1>5, <1>9 DEF Calm, PublicationInv, CalmInv
    <2>7. AtReview
      BY <1>1, <1>8, <2>1, <2>2, <2>3, <2>4, <2>5, <2>6 DEF AtReview, At
    <2>8. HeadInv' /\ MarkerInv'
      BY <1>1, <1>2, <1>3, <1>9, <2>3, <2>5, AppendKeepsRest DEF Before
    <2> QED
      BY <1>1, <1>8, <1>9, <2>7, <2>8, AtReviewKeepsInv DEF PublicationInv, PublicationTypeOK
  <1>10. ASSUME Go("recover"), Fault \/ (Fine /\ UNCHANGED <<reviews, inFlight>>),
                inFlight' = inFlight \/ (inFlight' = inFlight \cup {late} /\ reviews' = reviews),
                reviews' = Append(reviews, NewReview(attempt, r.context)) \/ reviews' = reviews
         PROVE  PublicationInv'
    <2>1. Calm' => Calm /\ UNCHANGED <<reviews, inFlight>>
      BY <1>1, <1>5, <1>10 DEF Calm
    <2>2. Calm' => inFlight' = {} /\ Pending' = {}
      BY <1>1, <2>1 DEF PublicationInv, CalmInv, Pending
    <2>3. AtReview
      BY <1>1, <1>6, <1>8, <1>10, <2>2 DEF AtReview, At, Kept, Revised
    <2>4. CASE reviews' = reviews
      <3>1. HeadInv'
        BY <1>1, <1>2, <1>6, <1>7, <1>10, <2>4 DEF PublicationInv, HeadInv, Kept
      <3>2. \A c \in inFlight' : c \in inFlight \/ (c = late /\ inFlight' = inFlight \cup {late})
        BY <1>10
      <3>3. MarkerInv'
        <4> HIDE DEF late
        <4> QED
          BY <1>1, <1>3, <1>6, <1>7, <1>10, <2>4, <3>2 DEF PublicationInv, MarkerInv, Before
      <3> QED
        BY <1>1, <1>7, <1>8, <1>10, <2>3, <3>1, <3>3, AtReviewKeepsInv
    <2>5. CASE reviews' # reviews
      <3>1. HeadInv' /\ MarkerInv'
        BY <1>1, <1>2, <1>3, <1>6, <1>10, <2>5, AppendKeepsRest DEF Before, Kept
      <3> QED
        BY <1>1, <1>8, <1>10, <2>3, <2>5, <3>1, AtReviewKeepsInv
    <2> QED
      BY <2>4, <2>5
  <1> HIDE DEF late, own
  <1> QED
    BY <1>4, <1>9, <1>10

\* The submission, whether it is answered or not.
LEMMA SubmitStep ==
  ASSUME PublicationInv, Submit
  PROVE  PublicationInv'
  <1> DEFINE late == [call |-> "submit", id |-> r.pending]
  <1>1. /\ r \in Runners /\ r.pc = "submit" /\ Bound = "submit" /\ (Fine \/ Fault)
        /\ Len(reviews) \in Nat /\ OwnReview /\ reviews[r.pending].state # "DELETED"
        /\ UNCHANGED <<head, trigger, request, receipt, checks, valid, attempt>>
    BY TypeOfRunner DEF PublicationInv, PublicationTypeOK, Submit, Bound, At, ReviewInv, WithReview
  <1>2. \/ Fine /\ reviews' = Submitted(r.pending) /\ Go("after") /\ inFlight' = inFlight
        \/ Fault /\ Go("settle") /\ inFlight' = inFlight
           /\ reviews' = Submitted(r.pending)
        \/ Fault /\ Go("settle") /\ inFlight' = inFlight \cup {late} /\ reviews' = reviews
    BY DEF Submit
  <1>3. PICK s \in {"after", "settle"} : Go(s) /\ (s = "settle" <=> ~(Fine /\ Go("after")))
    <2>1. Go("after") => ~Go("settle")
      BY <1>1 DEF Go, Runners
    <2> QED
      BY <1>2, <2>1
  <1>4. /\ r' \in Runners /\ Kept /\ r'.pc = s /\ r'.verdict = r.verdict /\ Bound' = s
    <2>1. s \in Stage
      BY DEF Stage
    <2>2. r' \in Runners /\ Kept /\ r'.pc = s /\ r'.verdict = r.verdict
      BY <1>1, <1>3, <2>1, GoOn
    <2> QED
      BY <2>2 DEF Bound, At
  <1>5. late \in LateCall /\ late.call = "submit"
    BY <1>1 DEF LateCall, Runners
  <1>6. /\ Revised({}) /\ Len(reviews') = Len(reviews)
        /\ \A i \in 1..Len(reviews) : reviews'[i].stale => reviews'[i].head < head
        /\ reviews' = Submitted(r.pending) =>
             reviews'[r.pending].state = "COMMENTED" /\ Pending' = Pending \ {r.pending}
    BY <1>1, <1>2, SubmitRevises, SameReviews DEF PublicationInv, HeadInv, OwnReview
  <1>7. /\ r.pending \in 1..Len(reviews) /\ reviews[r.pending].marker = attempt
        /\ reviews[r.pending].head = r.context
    BY <1>1 DEF OwnReview
  <1>8. OwnReview' /\ reviews'[r.pending].state # "DELETED"
    BY <1>1, <1>4, <1>6, <1>7 DEF OwnReview, Kept, Revised
  <1>9. (s = "after" => Fine /\ reviews' = Submitted(r.pending)) /\ (s = "settle" => Fault)
    <2>1. Go("after") => ~Go("settle")
      BY <1>1 DEF Go, Runners
    <2> QED
      BY <1>2, <1>3, <2>1
  <1>10. Calm' => inFlight' = {} /\ Pending' = {}
    <2>1. Calm' => Calm /\ s = "after"
      BY <1>1, <1>9, FaultCount DEF Calm, PublicationInv
    <2>2. s = "after" => inFlight' = inFlight
      <3>1. Go("after") => ~Go("settle")
        BY <1>1 DEF Go, Runners
      <3> QED
        BY <1>2, <1>3, <3>1
    <2> QED
      BY <1>1, <1>6, <1>9, <2>1, <2>2 DEF PublicationInv, CalmInv, Pending
  <1>11. AtReview
    BY <1>1, <1>4, <1>6, <1>7, <1>8, <1>9, <1>10 DEF AtReview, At, Kept
  <1>12. \A c \in inFlight' : c \in LateCall /\ (c.call = "create" => c \in inFlight)
    BY <1>2, <1>5 DEF PublicationInv, PublicationTypeOK
  <1> HIDE DEF late
  <1>13. HeadInv'
    BY <1>1, <1>4, <1>6, <1>12 DEF PublicationInv, HeadInv, Revised, Kept
  <1>14. MarkerInv'
    BY <1>1, <1>4, <1>6, <1>12 DEF PublicationInv, MarkerInv, Revised, Before
  <1> QED
    BY <1>1, <1>6, <1>11, <1>12, <1>13, <1>14, AtReviewKeepsInv

\* The pending review is deleted, or that fails; no receipt of this attempt exists.
LEMMA DeleteStep ==
  ASSUME PublicationInv, DeletePending
  PROVE  PublicationInv'
  <1> DEFINE k == r.pending
             gone == [reviews[k] EXCEPT !.state = "DELETED"]
             less == [reviews EXCEPT ![k].state = "DELETED"]
  <1>1. /\ r \in Runners /\ r.pc = "delete" /\ Bound = "delete" /\ (Fine \/ Fault)
        /\ Len(reviews) \in Nat /\ reviews \in Seq(Review) /\ k \in 1..Len(reviews)
        /\ reviews[k].marker = attempt
    BY TypeOfRunner
    DEF PublicationInv, PublicationTypeOK, DeletePending, Bound, At, ReviewInv, WithReview, OwnReview
  <1>2. UNCHANGED <<head, trigger, request, receipt, checks, inFlight, valid, attempt>>
    BY DEF DeletePending, rest
  <1>3. r.verdict \in Verdict /\ r.verdict # "completed" /\ r.phase # Nothing
    BY <1>1 DEF PublicationInv, VerdictInv, Judged, PhaseInv, InPhase
  <1>4. /\ r' \in Runners /\ Kept /\ r'.verdict = r.verdict /\ r'.pc = "revoke"
        /\ r'.after \in {"complete", "error"}
    <2>1. Raise(r.verdict)
      BY DEF DeletePending
    <2> QED
      BY <1>1, <1>3, <2>1, RaiseError
  <1>5. Bound' = r'.after /\ PhaseInv'
    BY <1>3, <1>4 DEF Bound, At, PhaseInv, InPhase, Kept, Stage
  <1>6. faults' \in 0..MaxFaults /\ (faults' = 0 => faults = 0 /\ Fine)
    BY <1>1, FaultCount DEF PublicationInv
  <1>7. reviews[k] \in Review /\ less = [reviews EXCEPT ![k] = gone]
    BY <1>1
  <1>8. /\ gone \in Review /\ gone.state = "DELETED" /\ gone.marker = reviews[k].marker
        /\ gone.head = reviews[k].head /\ gone.stale = reviews[k].stale
    BY <1>7 DEF Review
  <1> HIDE DEF gone
  <1>9. less \in Seq(Review) /\ Len(less) = Len(reviews)
        /\ \A i \in 1..Len(reviews) : less[i] = IF i = k THEN gone ELSE reviews[i]
    BY <1>1, <1>7, <1>8
  <1>10. (reviews' = reviews \/ reviews' = less) /\ (Fine => reviews' = less)
    <2>1. Fine => ~Fault
      BY DEF Fine, Fault, PublicationInv, PublicationTypeOK
    <2> QED
      BY <2>1 DEF DeletePending
  <1> HIDE DEF less
  <1>11. /\ Revised({k}) /\ Len(reviews') = Len(reviews)
         /\ \A i \in 1..Len(reviews) : reviews'[i].stale = reviews[i].stale
         /\ reviews' = less => Pending' = Pending \ {k}
    <2>1. Revised({k})
      BY <1>1, <1>8, <1>9, <1>10 DEF Revised
    <2>2. /\ Len(reviews') = Len(reviews)
          /\ \A i \in 1..Len(reviews) : reviews'[i].stale = reviews[i].stale
      BY <1>1, <1>8, <1>9, <1>10
    <2>3. reviews' = less => Pending' = Pending \ {k}
      BY <1>1, <1>8, <1>9 DEF Pending
    <2> QED
      BY <2>1, <2>2, <2>3
  <1>12. PublicationTypeOK'
    <2>1. r' \in [pc : Stage, phase : Phase \cup {Nothing}, after : Stage \cup {Nothing},
                  context : Commits \cup {Nothing}, check : Commits \cup {Nothing}, packet : BOOLEAN,
                  signed : BOOLEAN, pending : 0..Len(reviews), verdict : Verdict \cup {Nothing},
                  primary : BOOLEAN, active : SUBSET Phase]
      BY <1>1, <1>4 DEF Runners, Kept
    <2> QED
      BY <1>2, <1>6, <1>11, <2>1 DEF PublicationInv, PublicationTypeOK, Revised
  <1>13. TokenInv'
    BY <1>2, <1>4 DEF PublicationInv, TokenInv, At, Kept
  <1>14. HeadInv'
    BY <1>2, <1>4, <1>11 DEF PublicationInv, HeadInv, Revised, Kept
  <1>15. MarkerInv'
    BY <1>1, <1>2, <1>4, <1>5, <1>11 DEF PublicationInv, MarkerInv, Revised, Before
  <1>16. CheckInv' /\ ReviewInv'
    BY <1>4, <1>5 DEF CheckInv, ReviewInv, WithContext, WithCheck, WithReview, At
  <1>17. VerdictInv'
    BY <1>3, <1>4 DEF VerdictInv
  <1>18. ReceiptInv' /\ (receipt # Nothing => receipt.attempt # attempt)
    BY <1>1, <1>2 DEF PublicationInv, ReceiptInv, Over
  <1>19. CalmInv'
    <2>1. Calm' => Calm /\ reviews' = less
      BY <1>2, <1>6, <1>10 DEF Calm
    <2>2. Calm' => Pending' = {}
      BY <1>11, <2>1 DEF PublicationInv, CalmInv
    <2> QED
      BY <1>2, <1>4, <1>5, <2>1, <2>2 DEF PublicationInv, CalmInv, Kept, Concluded
  <1>20. CompletedReviewIsCurrent'
    BY <1>1, <1>2, <1>11, <1>18, RevisedKeepsRecord
  <1> QED
    BY <1>5, <1>12, <1>13, <1>14, <1>15, <1>16, <1>17, <1>18, <1>19, <1>20 DEF PublicationInv

-----------------------------------------------------------------------------
(* Everybody else.                                                         *)

\* A call that was given up finds the marker unused, or the review pending.
LEMMA LateStep ==
  ASSUME PublicationInv, NEW c \in inFlight, GitHubExecutes(c)
  PROVE  PublicationInv'
  <1>1. /\ inFlight' = inFlight \ {c} /\ r' = r /\ r \in Runners /\ Len(reviews) \in Nat
        /\ UNCHANGED <<head, trigger, request, receipt, checks, valid, r, attempt, faults>>
        /\ Bound' = Bound /\ c \in LateCall
    BY TypeOfRunner DEF GitHubExecutes, PublicationInv, PublicationTypeOK, Bound, At
  <1>2. Revised({}) /\ HeadInv' /\ MarkerInv'
    <2>1. CASE reviews' = reviews
      <3>1. HeadInv'
        BY <1>1, <2>1 DEF PublicationInv, HeadInv
      <3>2. MarkerInv'
        BY <1>1, <2>1 DEF PublicationInv, MarkerInv
      <3> QED
        BY <2>1, <3>1, <3>2, SameReviews DEF PublicationInv
    <2>2. CASE c.call = "create" /\ reviews' = Append(reviews, NewReview(c.marker, c.head))
      <3>1. c.marker \in 0..MaxReruns /\ c.head \in Commits
        BY <1>1, <2>2 DEF LateCall
      <3>2. /\ c.marker <= attempt /\ c.head <= head
            /\ \A i \in 1..Len(reviews) : reviews[i].marker # c.marker
            /\ c.marker = attempt => Bound \notin Before
            /\ \A d \in inFlight : d.call = "create" /\ d.marker = c.marker => d = c
        BY <2>2 DEF PublicationInv, MarkerInv, HeadInv
      <3>3. /\ inFlight' \subseteq inFlight /\ UNCHANGED <<head, attempt>>
            /\ Bound' \in Before => Bound \in Before
            /\ r'.context \in {r.context, Nothing}
            /\ c.marker = attempt => (Bound \notin Before)'
            /\ \A d \in inFlight' : d.call = "create" => d.marker # c.marker
        BY <1>1, <3>2
      <3>4. HeadInv' /\ MarkerInv'
        BY <2>2, <3>1, <3>2, <3>3, AppendKeepsRest
      <3> QED
        BY <2>2, <3>1, <3>4, AppendRevises DEF PublicationInv
    <2>3. CASE reviews' = Submitted(c.id)
      <3>1. /\ Revised({}) /\ Len(reviews') = Len(reviews)
            /\ \A i \in 1..Len(reviews) : reviews'[i].stale => reviews'[i].head < head
        BY <2>3, SubmitRevises DEF PublicationInv
      <3>2. HeadInv'
        BY <1>1, <3>1 DEF PublicationInv, HeadInv, Revised
      <3>3. MarkerInv'
        BY <1>1, <3>1 DEF PublicationInv, MarkerInv, Revised
      <3> QED
        BY <3>1, <3>2, <3>3
    <2> QED
      BY <2>1, <2>2, <2>3 DEF GitHubExecutes, Created
  <1>3. PublicationTypeOK'
    <2>1. r.pending \in 0..Len(reviews')
      BY <1>1, <1>2, TypeOfRunner DEF PublicationInv, Revised, Runners
    <2>2. r' \in [pc : Stage, phase : Phase \cup {Nothing}, after : Stage \cup {Nothing},
                  context : Commits \cup {Nothing}, check : Commits \cup {Nothing}, packet : BOOLEAN,
                  signed : BOOLEAN, pending : 0..Len(reviews'), verdict : Verdict \cup {Nothing},
                  primary : BOOLEAN, active : SUBSET Phase]
      BY <1>1, <2>1 DEF Runners
    <2> QED
      BY <1>1, <1>2, <2>2 DEF PublicationInv, PublicationTypeOK, Revised
  <1>4. PhaseInv' /\ TokenInv' /\ CheckInv' /\ ReceiptInv'
    <2>1. PhaseInv' /\ TokenInv'
      BY <1>1 DEF PublicationInv, PhaseInv, TokenInv, At
    <2>2. CheckInv' /\ ReceiptInv'
      BY <1>1 DEF PublicationInv, CheckInv, ReceiptInv
    <2> QED
      BY <2>1, <2>2
  <1>5. OwnReview => /\ OwnReview'
                     /\ reviews[r.pending].state # "DELETED" => reviews'[r.pending].state # "DELETED"
                     /\ reviews[r.pending].state = "COMMENTED" => reviews'[r.pending] = reviews[r.pending]
    BY <1>1, <1>2 DEF OwnReview, Revised
  <1>6. ReviewInv' /\ VerdictInv'
    <2>1. ReviewInv'
      BY <1>1, <1>5 DEF PublicationInv, ReviewInv, At, WithReview
    <2>2. VerdictInv'
      BY <1>1, <1>5 DEF PublicationInv, VerdictInv
    <2> QED
      BY <2>1, <2>2
  <1>7. CalmInv'
    BY <1>1 DEF PublicationInv, CalmInv, Calm
  <1>8. CompletedReviewIsCurrent'
    BY <1>1, <1>2, RevisedKeepsRecord
  <1> QED
    BY <1>2, <1>3, <1>4, <1>6, <1>7, <1>8 DEF PublicationInv

\* The head moves on; the request is ended, by others, without a receipt.
LEMMA OutsideStep ==
  ASSUME PublicationInv, Push \/ Supersede \/ EndedByOthers
  PROVE  PublicationInv'
  <1> USE DEF PublicationInv
  <1>1. /\ UNCHANGED <<trigger, receipt, checks, reviews, inFlight, valid, r, attempt, faults>>
        /\ \/ request' = request
           \/ /\ request.state = "open"
              /\ \/ request' = [request EXCEPT !.state = "superseded"]
                 \/ request' = [request EXCEPT !.state = "ended"]
        /\ head \in Nat /\ head' \in Commits /\ (head' = head \/ head' = head + 1)
    BY PublicationAssumption
    DEF Push, Supersede, EndedByOthers, PublicationTypeOK, Commits
  <1>2. request' \in Row /\ (receipt # Nothing => request' = request)
    BY <1>1 DEF PublicationTypeOK, Row, ReceiptInv
  <1>3. PublicationTypeOK'
    BY <1>1, <1>2 DEF PublicationTypeOK, Row
  <1>4. HeadInv'
    <2>1. r.context # Nothing => r.context \in Nat
      BY TypeOfRunner DEF Runners, Commits
    <2>2. \A i \in 1..Len(reviews) : reviews[i].head \in Nat
      BY TypeOfReview DEF Commits
    <2>3. \A c \in inFlight : c.call = "create" => c.head \in Nat
      BY DEF PublicationTypeOK, LateCall, Commits
    <2> QED
      BY <1>1, <2>1, <2>2, <2>3 DEF HeadInv
  <1>5. Bound' = Bound /\ (OwnReview' <=> OwnReview)
    BY <1>1 DEF Bound, At, OwnReview
  <1>6. PhaseInv' /\ TokenInv' /\ CheckInv'
    BY <1>1, <1>5 DEF PhaseInv, TokenInv, CheckInv, At
  <1>7. MarkerInv'
    BY <1>1, <1>5 DEF MarkerInv
  <1>8. ReviewInv' /\ VerdictInv'
    BY <1>1, <1>5 DEF ReviewInv, VerdictInv, At
  <1>9. ReceiptInv' /\ CompletedReviewIsCurrent'
    BY <1>1, <1>2, <1>5 DEF ReceiptInv, CompletedReviewIsCurrent, MarkedBy
  <1>10. CalmInv'
    BY <1>1, <1>5 DEF CalmInv, Calm, Pending
  <1> QED
    BY <1>3, <1>4, <1>6, <1>7, <1>8, <1>9, <1>10

\* A new process begins, whose marker nobody has used.
LEMMA RerunStep ==
  ASSUME PublicationInv, Rerun
  PROVE  PublicationInv'
  <1> USE DEF PublicationInv
  <1>1. /\ UNCHANGED <<head, trigger, request, receipt, checks, reviews, inFlight, faults>>
        /\ attempt \in Nat /\ attempt' = attempt + 1 /\ attempt' \in 0..MaxReruns
        /\ r' = Fresh /\ valid' = {} /\ Len(reviews) \in Nat
    BY PublicationAssumption, TypeOfRunner DEF Rerun, PublicationTypeOK
  <1>2. /\ r'.pc = "claim" /\ r'.phase = Nothing /\ r'.context = Nothing /\ r'.verdict = Nothing
        /\ r'.active = {} /\ r'.pending = 0 /\ Bound' = "claim"
    BY <1>1 DEF Fresh, Bound, At
  <1>3. PublicationTypeOK'
    <2>1. "claim" \in Stage /\ {} \in SUBSET Phase /\ 0 \in 0..Len(reviews)
      BY <1>1 DEF Stage
    <2>2. r' \in [pc : Stage, phase : Phase \cup {Nothing}, after : Stage \cup {Nothing},
                  context : Commits \cup {Nothing}, check : Commits \cup {Nothing}, packet : BOOLEAN,
                  signed : BOOLEAN, pending : 0..Len(reviews), verdict : Verdict \cup {Nothing},
                  primary : BOOLEAN, active : SUBSET Phase]
      BY <1>1, <2>1 DEF Fresh
    <2> QED
      BY <1>1, <2>2 DEF PublicationTypeOK
  <1>4. PhaseInv' /\ TokenInv' /\ CheckInv' /\ ReviewInv'
    BY <1>1, <1>2
    DEF PhaseInv, TokenInv, CheckInv, ReviewInv, InPhase, At, WithContext, WithCheck, WithReview
  <1>5. HeadInv'
    BY <1>1, <1>2 DEF HeadInv
  <1>6. MarkerInv'
    <2>1. \A i \in 1..Len(reviews) : reviews[i].marker \in Nat
      BY TypeOfReview
    <2>2. \A c \in inFlight : c.call = "create" => c.marker \in Nat
      BY DEF PublicationTypeOK, LateCall
    <2> QED
      BY <1>1, <2>1, <2>2 DEF MarkerInv
  <1>7. VerdictInv'
    BY <1>2, PublicationAssumption DEF VerdictInv, Judged, Verdict
  <1>8. ReceiptInv'
    <2>1. receipt # Nothing => receipt.attempt \in Nat
      BY DEF PublicationTypeOK
    <2> QED
      BY <1>1, <2>1 DEF ReceiptInv
  <1>9. CalmInv' /\ CompletedReviewIsCurrent'
    BY <1>1 DEF CalmInv, Calm, CompletedReviewIsCurrent, MarkedBy
  <1> QED
    BY <1>3, <1>4, <1>5, <1>6, <1>7, <1>8, <1>9

-----------------------------------------------------------------------------
(* The theorems.                                                           *)

LEMMA PublicationInitInv == PublicationInit => PublicationInv
  <1> SUFFICES ASSUME PublicationInit PROVE PublicationInv
    OBVIOUS
  <1>1. /\ r = Fresh /\ reviews = <<>> /\ inFlight = {} /\ valid = {} /\ receipt = Nothing
        /\ head = 0 /\ attempt = 0 /\ faults = 0 /\ checks = [h \in Commits |-> "none"]
        /\ Len(reviews) = 0 /\ reviews \in Seq(Review)
    BY DEF PublicationInit
  <1>2. /\ r.pc = "claim" /\ r.phase = Nothing /\ r.context = Nothing /\ r.verdict = Nothing
        /\ r.active = {} /\ r.pending = 0 /\ Bound = "claim"
    BY <1>1 DEF Fresh, Bound, At
  <1>3. PublicationTypeOK
    <2>1. "claim" \in Stage /\ {} \in SUBSET Phase /\ 0 \in 0..Len(reviews)
      BY <1>1 DEF Stage
    <2>2. r \in [pc : Stage, phase : Phase \cup {Nothing}, after : Stage \cup {Nothing},
                 context : Commits \cup {Nothing}, check : Commits \cup {Nothing}, packet : BOOLEAN,
                 signed : BOOLEAN, pending : 0..Len(reviews), verdict : Verdict \cup {Nothing},
                 primary : BOOLEAN, active : SUBSET Phase]
      BY <1>1, <2>1 DEF Fresh
    <2>3. head \in Commits /\ attempt \in 0..MaxReruns /\ faults \in 0..MaxFaults
      BY <1>1, PublicationAssumption DEF Commits
    <2>4. checks \in [Commits -> {"none", "in_progress", "neutral", "cancelled", "failure"}]
      BY <1>1
    <2>5. request \in [state : {"open", "superseded", "ended"}, check : Commits \cup {Nothing}]
          /\ trigger \in {"automatic", "manual"}
      BY DEF PublicationInit
    <2> QED
      BY <1>1, <2>2, <2>3, <2>4, <2>5 DEF PublicationTypeOK
  <1>4. PhaseInv /\ TokenInv /\ CheckInv /\ ReviewInv
    BY <1>1, <1>2
    DEF PhaseInv, TokenInv, CheckInv, ReviewInv, InPhase, At, WithContext, WithCheck, WithReview
  <1>5. HeadInv /\ MarkerInv
    BY <1>1, <1>2 DEF HeadInv, MarkerInv
  <1>6. VerdictInv
    BY <1>2, PublicationAssumption DEF VerdictInv, Judged, Verdict
  <1>7. CalmInv
    BY <1>1 DEF CalmInv, Pending
  <1>8. ReceiptInv /\ CompletedReviewIsCurrent
    BY <1>1 DEF ReceiptInv, CompletedReviewIsCurrent
  <1> QED
    BY <1>3, <1>4, <1>5, <1>6, <1>7, <1>8 DEF PublicationInv

LEMMA PublicationStutter ==
  ASSUME PublicationInv, UNCHANGED publicationVars
  PROVE  PublicationInv'
  BY DEF publicationVars, PublicationInv, PublicationTypeOK, PhaseInv, TokenInv, HeadInv, MarkerInv,
         CheckInv, ReviewInv, VerdictInv, ReceiptInv, CalmInv, CompletedReviewIsCurrent, Bound, At,
         OwnReview, Calm, Pending, MarkedBy

\* Every step keeps the invariant.
LEMMA PublicationNextInv == PublicationInv /\ [PublicationNext]_publicationVars => PublicationInv'
  <1> SUFFICES ASSUME PublicationInv, [PublicationNext]_publicationVars PROVE PublicationInv'
    OBVIOUS
  <1>1. CASE MintToken \/ RevokeToken
    BY <1>1, MintStep, RevokeStep
  <1>2. CASE FetchAuthority \/ CancelMismatch \/ MakeCheck \/ Started \/ CompleteCheck
    BY <1>2, FetchStep, MismatchStep, MakeStep, StartedStep, CompleteStep
  <1>3. CASE \/ Claim \/ AuthorizedCallback \/ FenceCheck \/ FenceCreate \/ StartModel \/ FetchHead
             \/ Settle \/ Refence \/ FetchLiveHead
    BY <1>3, WalkSteps
  <1>4. CASE Collect \/ FinishModel
    BY <1>4, ModelSteps
  <1>5. CASE Reconcile \/ Recover \/ Create \/ DeletePending \/ Submit
    BY <1>5, FindSteps, CreateStep, DeleteStep, SubmitStep
  <1>6. CASE CompareAfter \/ EnterErrorPath \/ TerminalCallback \/ Report
    BY <1>6, JudgeSteps, LastSteps
  <1>7. CASE \E c \in inFlight : GitHubExecutes(c)
    BY <1>7, LateStep
  <1>8. CASE Push \/ Supersede \/ EndedByOthers \/ Rerun
    BY <1>8, OutsideStep, RerunStep
  <1>9. CASE UNCHANGED publicationVars
    BY <1>9, PublicationStutter
  <1> QED
    BY <1>1, <1>2, <1>3, <1>4, <1>5, <1>6, <1>7, <1>8, <1>9 DEF PublicationNext, Runner

\* The variables of the publication keep their types: publishReview and the runner's
\* memory, and what GitHub has on record of it.
THEOREM PublicationTypes == PublicationSpec => []PublicationTypeOK
  <1>1. PublicationInv => PublicationTypeOK
    BY DEF PublicationInv
  <1> QED
    BY <1>1, PublicationInitInv, PublicationNextInv, PTL DEF PublicationSpec

\* A receipt of "completed" stands for a visible review of the Check's commit, which was
\* the head when the review became visible (submitOrRecover and the fences about it).
THEOREM CompletedIsCurrent == PublicationSpec => []CompletedReviewIsCurrent
  <1>1. PublicationInv => CompletedReviewIsCurrent
    BY DEF PublicationInv
  <1> QED
    BY <1>1, PublicationInitInv, PublicationNextInv, PTL DEF PublicationSpec

\* However createOrRecoverPending is answered, an attempt leaves one review at most.
THEOREM ReviewIsUnique == PublicationSpec => []OneReviewPerAttempt
  <1>1. PublicationInv => OneReviewPerAttempt
    BY DEF PublicationInv, MarkerInv, OneReviewPerAttempt, MarkedBy
  <1> QED
    BY <1>1, PublicationInitInv, PublicationNextInv, PTL DEF PublicationSpec

\* usingPhaseToken and assertCredentialBoundary: the provider runs without a valid token.
THEOREM ProviderHasNoToken == PublicationSpec => []ModelHasNoToken
  <1>1. PublicationInv => ModelHasNoToken
    BY DEF PublicationInv, TokenInv, ModelHasNoToken
  <1> QED
    BY <1>1, PublicationInitInv, PublicationNextInv, PTL DEF PublicationSpec

\* As long as every call is answered, a run that is over leaves no pending review, no
\* valid token and no open Check, wherever the head moved and whatever superseded it.
THEOREM NothingLeftOpen == PublicationSpec => []CleanExit
  <1>1. PublicationInv => CleanExit
    <2> SUFFICES ASSUME PublicationInv, At("exit"), faults = 0, attempt = 0
                 PROVE  /\ Pending = {} /\ valid = {}
                        /\ \A h \in Commits : checks[h] # "in_progress"
      BY DEF CleanExit
    <2>1. r.phase = Nothing /\ Bound = "exit" /\ Calm
      BY DEF PublicationInv, PhaseInv, InPhase, Bound, At, Calm
    <2>2. Pending = {}
      BY <2>1 DEF PublicationInv, CalmInv, At
    <2>3. valid = {}
      BY <2>1, PublicationAssumption DEF PublicationInv, CalmInv, PublicationTypeOK
    <2> QED
      BY <2>1, <2>2, <2>3 DEF PublicationInv, CalmInv, Concluded
  <1> QED
    BY <1>1, PublicationInitInv, PublicationNextInv, PTL DEF PublicationSpec

=============================================================================
