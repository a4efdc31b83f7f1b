-------------------------- MODULE ReviewPublication --------------------------
(***************************************************************************)
(* The central runner as GitHub sees it (runCentralReview and publishReview *)
(* in actions/central-runner.mjs with github-reviews, github-checks,       *)
(* github-authority and github-app-auth): a token per phase, the Check, and *)
(* the pending review that is submitted between fences, while the pull     *)
(* request moves, the request is superseded, any call to GitHub may fail,  *)
(* time out or be executed late, and the process may die and be re-run.    *)
(* The callback protocol itself is in ReviewRunner: here the row of the    *)
(* request is reduced to what the callbacks read of it.                    *)
(***************************************************************************)
EXTENDS Naturals, Sequences

CONSTANTS
  Nothing,
  MaxPushes,     \* bound: how often the head or the base moves
  MaxFaults,     \* bound: calls that fail or lose their answer
  MaxReruns      \* bound: re-runs of the workflow run

Phase   == {"authority", "check", "collect", "post"}
Verdict == {"completed", "cancelled", "failed"}

ASSUME PublicationAssumption ==
  /\ MaxPushes \in Nat /\ MaxFaults \in Nat /\ MaxReruns \in Nat
  /\ Nothing \notin Nat \cup Phase \cup Verdict

VARIABLES
  head,      \* the commit the pull request is at; a push makes a new one
  trigger,   \* the kind of the request
  request,   \* its row: "open", "superseded" or "ended"; the check bound to it
  receipt,   \* the receipt on record: attempt that signed it, and status
  checks,    \* GitHub: state of the Check of this request on each head
  reviews,   \* GitHub: the App's reviews, in the order of their creation
  inFlight,  \* calls given up that GitHub may still execute
  valid,     \* GitHub: phases whose token of this process is valid
  r,         \* the runner's memory
  attempt,   \* run_attempt
  faults     \* calls that failed so far

publicationVars == <<head, trigger, request, receipt, checks, reviews, inFlight, valid, r,
                     attempt, faults>>

Commits  == 0..MaxPushes
Expected == 0          \* expected_head_sha of an automatic request

\* The marker of a review is made of the signed receipt, and each attempt
\* signs another receipt (created_at).
Review == [marker : 0..MaxReruns, head : Commits, state : {"PENDING", "COMMENTED", "DELETED"},
           stale : BOOLEAN]     \* it was visible first when the head had moved
LateCall == [call : {"create"}, marker : 0..MaxReruns, head : Commits]
              \cup [call : {"submit"}, id : Nat]

Fresh == [pc |-> "claim", phase |-> Nothing, after |-> Nothing, context |-> Nothing, check |-> Nothing,
          packet |-> FALSE, signed |-> FALSE, pending |-> 0, verdict |-> Nothing, primary |-> FALSE, active |-> {}]

Stage == {"claim", "authority", "fetch", "authorize", "fence", "check", "make", "started", "collect",
          "fetch_packet", "model", "running", "post", "pre", "claim_fence", "reconcile", "create",
          "recover", "refence", "live", "delete", "submit", "settle", "after", "complete",
          "conclude", "terminal", "mismatch", "cancel_check", "error", "e_check", "e_conclude", "e_report",
          "revoke", "exit"}

PublicationTypeOK ==
  /\ head \in Commits
  /\ trigger \in {"automatic", "manual"}
  /\ request \in [state : {"open", "superseded", "ended"}, check : Commits \cup {Nothing}]
  /\ receipt \in [attempt : 0..MaxReruns, status : Verdict] \cup {Nothing}
  /\ checks \in [Commits -> {"none", "in_progress", "neutral", "cancelled", "failure"}]
  /\ reviews \in Seq(Review)
  /\ inFlight \subseteq LateCall
  /\ valid \subseteq Phase
  /\ r \in [pc : Stage, phase : Phase \cup {Nothing}, after : Stage \cup {Nothing},
            context : Commits \cup {Nothing}, check : Commits \cup {Nothing}, packet : BOOLEAN,
            signed : BOOLEAN, pending : 0..Len(reviews), verdict : Verdict \cup {Nothing},
            primary : BOOLEAN, active : SUBSET Phase]
  /\ attempt \in 0..MaxReruns
  /\ faults \in 0..MaxFaults

PublicationInit ==
  /\ head = 0
  /\ trigger \in {"automatic", "manual"}
  /\ request = [state |-> "open", check |-> Nothing]
  /\ receipt = Nothing
  /\ checks = [h \in Commits |-> "none"]
  /\ reviews = <<>>
  /\ inFlight = {}
  /\ valid = {}
  /\ r = Fresh
  /\ attempt = 0
  /\ faults = 0

-----------------------------------------------------------------------------
(* How a step ends.                                                        *)

At(s) == r.pc = s

Go(s) == r' = [r EXCEPT !.pc = s]

\* A call fails: GitHub's or the Worker's fault, or that of the network.
Fault == faults < MaxFaults /\ faults' = faults + 1
Fine  == UNCHANGED faults

\* An error leaves the phase through the revocation of its token.  publishReview
\* that finds itself superseded ends the review as cancelled; any other error
\* leads to the catch of runCentralReview.
Raise(v) ==
  LET next == IF r.phase = "post" /\ v = "cancelled" THEN "complete" ELSE "error"
  IN r' = [r EXCEPT !.verdict = v, !.primary = TRUE, !.after = next,
                    !.pc = IF r.phase = Nothing THEN next ELSE "revoke"]

\* The operation of a phase is done.
Leave(s) == r' = [r EXCEPT !.pc = "revoke", !.after = s, !.primary = FALSE]

-----------------------------------------------------------------------------
(* usingPhaseToken: one token per phase, revoked when the phase ends.      *)

PhaseOf == [authority |-> "authority", check |-> "check", collect |-> "collect", post |-> "post",
            complete |-> "check", mismatch |-> "check", e_check |-> "check"]

OperationOf == [authority |-> "fetch", check |-> "make", collect |-> "fetch_packet", post |-> "pre",
                complete |-> "conclude", mismatch |-> "cancel_check", e_check |-> "e_conclude"]

\* Trouble with the token of the error path, or of the mismatch, is passed over.
MintToken ==
  /\ r.pc \in DOMAIN PhaseOf
  /\ UNCHANGED <<head, trigger, request, receipt, checks, reviews, inFlight, attempt>>
  /\ \/ /\ Fine
        /\ valid' = valid \cup {PhaseOf[r.pc]}
        /\ r' = [r EXCEPT !.phase = PhaseOf[r.pc], !.pc = OperationOf[r.pc],
                          !.active = @ \cup {PhaseOf[r.pc]}]
     \/ /\ Fault
        /\ IF r.pc \in {"e_check", "mismatch"} THEN Go("e_report") ELSE Raise("failed")
        /\ UNCHANGED valid

\* Mutant of RevokeToken: the token is forgotten although it may be valid.
RevokeAndForget ==
  /\ At("revoke")
  /\ \/ Fine /\ valid' = valid \ {r.phase}
     \/ Fault /\ UNCHANGED valid
  /\ r' = [r EXCEPT !.phase = Nothing, !.pc = r.after, !.active = @ \ {r.phase}]
  /\ UNCHANGED <<head, trigger, request, receipt, checks, reviews, inFlight, attempt>>

\* A revocation that fails is an error unless there is one already.
RevokeToken ==
  /\ At("revoke")
  /\ \/ /\ Fine
        /\ valid' = valid \ {r.phase}
        /\ r' = [r EXCEPT !.phase = Nothing, !.pc = r.after, !.active = @ \ {r.phase}]
     \/ /\ Fault
        /\ valid' \in {valid, valid \ {r.phase}}
        /\ r' = IF r.primary \/ r.after = "e_report"
                  THEN [r EXCEPT !.phase = Nothing, !.pc = r.after]
                  ELSE [r EXCEPT !.phase = Nothing, !.pc = "error", !.verdict = "failed"]
  /\ UNCHANGED <<head, trigger, request, receipt, checks, reviews, inFlight, attempt>>

-----------------------------------------------------------------------------
(* The callbacks, as far as the row decides about them.  A lost answer      *)
(* counts as a failure once the client has given up.                       *)

store == <<head, trigger, checks, reviews, inFlight, valid, attempt>>

Callback(s, accepted, next, row) ==
  /\ At(s)
  /\ UNCHANGED <<store, receipt>>
  /\ \/ Fine /\ accepted /\ Go(next) /\ request' = row
     \/ Fine /\ ~accepted /\ Raise("cancelled") /\ UNCHANGED request
     \/ Fault /\ Raise("failed") /\ request' \in {request, IF accepted THEN row ELSE request}

\* claimFence: a request that has ended still answers already_claimed.
Claimed == request.state # "superseded"

\* The first claim, without which the runner has nothing to abort or to tell.
Claim ==
  /\ At("claim")
  /\ \/ Fine /\ Claimed /\ Go("authority")
     \/ Fine /\ ~Claimed /\ Go("exit")
     \/ Fault /\ Go("exit")
  /\ UNCHANGED <<store, receipt, request>>

AuthorizedCallback == Callback("authorize", request.state = "open", "fence", request)

FenceCheck == Callback("fence", Claimed, "check", request)

\* started binds the Check, the same one each time.
Started ==
  /\ At("started")
  /\ LET accepted == request.state = "open" /\ request.check \in {Nothing, r.check}
     IN /\ \/ /\ Fine /\ accepted /\ Leave("collect")
              /\ request' = [request EXCEPT !.check = r.check]
           \/ Fine /\ ~accepted /\ Raise("cancelled") /\ UNCHANGED request
           \/ /\ Fault /\ Raise("failed")
              /\ request' \in {request, IF accepted THEN [request EXCEPT !.check = r.check]
                                        ELSE request}
  /\ UNCHANGED <<store, receipt>>

\* terminal: the receipt and the status together, once.
CanCommit == request.state = "open" /\ receipt = Nothing /\ request.check = r.check

Commit(v) == /\ receipt' = [attempt |-> attempt, status |-> v]
             /\ request' = [request EXCEPT !.state = "ended"]

\* The callback after the publication, and, on the error path, that of the
\* same receipt or the abort.
TerminalCallback ==
  /\ At("terminal")
  /\ UNCHANGED store
  /\ \/ Fine /\ CanCommit /\ Commit(r.verdict) /\ Go("exit")
     \/ Fine /\ ~CanCommit /\ Raise("cancelled") /\ UNCHANGED <<request, receipt>>
     \/ /\ Fault /\ Raise("failed")
        /\ \/ CanCommit /\ Commit(r.verdict)
           \/ UNCHANGED <<request, receipt>>

\* abortWithoutReceipt, with the Check it knows of or without one.
CanAbort == request.state = "open" /\ receipt = Nothing /\ request.check \in {Nothing, r.check}

Report ==
  /\ At("e_report")
  /\ Go("exit")
  /\ UNCHANGED store
  /\ \/ /\ Fine
        /\ IF r.signed
             THEN IF CanCommit THEN Commit(r.verdict) ELSE UNCHANGED <<request, receipt>>
             ELSE /\ UNCHANGED receipt
                  /\ request' = IF CanAbort THEN [request EXCEPT !.state = "ended"] ELSE request
     \/ Fault /\ UNCHANGED <<request, receipt>>

-----------------------------------------------------------------------------
(* Authority, Check, collection and model.                                 *)

rest == <<head, trigger, request, receipt, inFlight, valid, attempt>>

\* fetchAuthoritativeReviewContext and the App's identity.  The head of an
\* automatic request has to be the expected one.
FetchAuthority ==
  /\ At("fetch")
  /\ UNCHANGED <<rest, checks, reviews>>
  /\ \/ /\ Fine
        /\ IF trigger = "automatic" /\ head # Expected
             THEN r' = [r EXCEPT !.verdict = "cancelled", !.primary = TRUE, !.pc = "revoke",
                                 !.after = "mismatch"]
             ELSE r' = [r EXCEPT !.context = head, !.pc = "revoke", !.after = "authorize",
                                 !.primary = FALSE]
     \/ Fault /\ Raise("failed")

\* publishVisibleAutomaticHeadMismatch: the Check of the expected head is made
\* and cancelled.
CancelMismatch ==
  /\ At("cancel_check")
  /\ UNCHANGED <<rest, reviews>>
  /\ \/ /\ Fine
        /\ checks' = [checks EXCEPT ![Expected] = "cancelled"]
        /\ r' = [r EXCEPT !.check = Expected, !.pc = "revoke", !.after = "e_report"]
     \/ /\ Fault
        /\ \E known \in BOOLEAN :
             LET made == [checks EXCEPT ![Expected] = IF @ = "none" THEN "in_progress" ELSE @]
             IN /\ checks' \in IF known THEN {made, [checks EXCEPT ![Expected] = "cancelled"]}
                               ELSE {checks, made}
                /\ r' = [r EXCEPT !.check = IF known THEN Expected ELSE Nothing,
                                  !.pc = "revoke", !.after = "e_report"]

\* createOrReconcileCheckRun: the Check of this request on this head is reused,
\* whatever its state.
MakeCheck ==
  /\ At("make")
  /\ LET made == [checks EXCEPT ![r.context] = IF @ = "none" THEN "in_progress" ELSE @]
     IN \/ /\ Fine
           /\ checks' = made
           /\ r' = [r EXCEPT !.check = r.context, !.pc = "started"]
        \/ Fault /\ Raise("failed") /\ checks' \in {checks, made}
  /\ UNCHANGED <<rest, reviews>>

\* collectCanonicalReviewPacket, of the exact head.
Collect ==
  /\ At("fetch_packet")
  /\ \/ Fine /\ r' = [r EXCEPT !.packet = TRUE, !.pc = "revoke", !.after = "model",
                                !.primary = FALSE]
     \/ Fault /\ Raise("failed")
  /\ UNCHANGED <<rest, checks, reviews>>

\* assertCredentialBoundary: the provider is not started with a token about.
StartModel ==
  /\ At("model")
  /\ IF r.active = {} THEN Go("running") ELSE Raise("failed")
  /\ UNCHANGED <<rest, checks, reviews, faults>>

\* The review is signed and will be published, unless the run was asked to stop.
FinishModel ==
  /\ At("running")
  /\ \/ Fine /\ r' = [r EXCEPT !.signed = TRUE, !.pc = "post"]
     \/ Fine /\ r' = [r EXCEPT !.signed = TRUE, !.pc = "error", !.verdict = "cancelled"]
     \/ Fault /\ Raise("failed")
  /\ UNCHANGED <<rest, checks, reviews>>

-----------------------------------------------------------------------------
(* publishReview.                                                          *)

Pending == {i \in 1..Len(reviews) : reviews[i].state = "PENDING"}
MarkedBy(a) == {i \in 1..Len(reviews) : reviews[i].marker = a /\ reviews[i].state # "DELETED"}
Matches == {i \in MarkedBy(attempt) : reviews[i].head = r.context}

NewReview(a, h) == [marker |-> a, head |-> h, state |-> "PENDING", stale |-> FALSE]

\* GitHub: the App has one pending review per pull request.
Created(a, h) == IF Pending = {} THEN Append(reviews, NewReview(a, h)) ELSE reviews

Submitted(i) == IF reviews[i].state = "PENDING"
                  THEN [reviews EXCEPT ![i].state = "COMMENTED",
                                       ![i].stale = (head # reviews[i].head)]
                  ELSE reviews

\* fetchAuthority and sameReviewHead: the head it reviewed is the live one.
CheckHead(s, next) ==
  /\ At(s)
  /\ \/ Fine /\ head = r.context /\ Go(next)
     \/ Fine /\ head # r.context /\ Raise("cancelled")
     \/ Fault /\ Raise("failed")
  /\ UNCHANGED <<rest, checks, reviews>>

FetchHead == CheckHead("pre", "claim_fence")

FenceCreate == Callback("claim_fence", Claimed, "reconcile", request)

\* createOrRecoverPending: one review carries the marker, or none (twice would be
\* ambiguous_review_reconciliation).
Recovered(missing) ==
  IF Matches = {} THEN missing
  ELSE \E i \in Matches :
         r' = [r EXCEPT !.pending = i,
                        !.pc = IF reviews[i].state = "PENDING" THEN "refence" ELSE "after"]

Reconcile ==
  /\ At("reconcile")
  /\ \/ Fine /\ Recovered(Go("create"))
     \/ Fault /\ Raise("failed")
  /\ UNCHANGED <<rest, checks, reviews>>

\* An answer that is lost, or a refusal, is looked into; a call that timed out
\* may be executed later.
Create ==
  /\ At("create")
  /\ \/ /\ Fine /\ Pending = {} /\ reviews' = Created(attempt, r.context)
        /\ r' = [r EXCEPT !.pending = Len(reviews'), !.pc = "refence"]
        /\ UNCHANGED inFlight
     \/ Fine /\ Pending # {} /\ Go("recover") /\ UNCHANGED <<reviews, inFlight>>
     \/ /\ Fault /\ Go("recover")
        /\ \/ reviews' = Created(attempt, r.context) /\ UNCHANGED inFlight
           \/ /\ inFlight' = inFlight \cup {[call |-> "create", marker |-> attempt,
                                             head |-> r.context]}
              /\ UNCHANGED reviews
  /\ UNCHANGED <<head, trigger, request, receipt, checks, valid, attempt>>

\* Mutant of Recover: what cannot be found is created once more.
RecoverOrRetry ==
  /\ At("recover")
  /\ \/ Fine /\ Recovered(Go("create"))
     \/ Fault /\ Raise("failed")
  /\ UNCHANGED <<rest, checks, reviews>>

Recover ==
  /\ At("recover")
  /\ \/ Fine /\ Recovered(Raise("failed"))
     \/ Fault /\ Raise("failed")
  /\ UNCHANGED <<rest, checks, reviews>>

\* The fence and the head once more; if either fails the review is deleted.
Refence ==
  /\ At("refence")
  /\ \/ Fine /\ Claimed /\ Go("live")
     \/ Fine /\ ~Claimed /\ r' = [r EXCEPT !.pc = "delete", !.verdict = "cancelled"]
     \/ Fault /\ r' = [r EXCEPT !.pc = "delete", !.verdict = "failed"]
  /\ UNCHANGED <<rest, checks, reviews>>

FetchLiveHead ==
  /\ At("live")
  /\ \/ Fine /\ head = r.context /\ Go("submit")
     \/ Fine /\ head # r.context /\ r' = [r EXCEPT !.pc = "delete", !.verdict = "cancelled"]
     \/ Fault /\ r' = [r EXCEPT !.pc = "delete", !.verdict = "failed"]
  /\ UNCHANGED <<rest, checks, reviews>>

\* Mutant of DeletePending: the primary error is all that matters.
KeepPending ==
  /\ At("delete")
  /\ Fine /\ Raise(r.verdict)
  /\ UNCHANGED <<rest, checks, reviews>>

DeletePending ==
  /\ At("delete")
  /\ Raise(r.verdict)
  /\ \/ Fine /\ reviews' = [reviews EXCEPT ![r.pending].state = "DELETED"]
     \/ Fault /\ reviews' \in {reviews, [reviews EXCEPT ![r.pending].state = "DELETED"]}
  /\ UNCHANGED <<rest, checks>>

Submit ==
  /\ At("submit")
  /\ \/ Fine /\ reviews' = Submitted(r.pending) /\ Go("after") /\ UNCHANGED inFlight
     \/ /\ Fault /\ Go("settle")
        /\ \/ reviews' = Submitted(r.pending) /\ UNCHANGED inFlight
           \/ /\ inFlight' = inFlight \cup {[call |-> "submit", id |-> r.pending]}
              /\ UNCHANGED reviews
  /\ UNCHANGED <<head, trigger, request, receipt, checks, valid, attempt>>

\* submitOrRecover: is the review visible, although the answer is missing?
Settle ==
  /\ At("settle")
  /\ \/ Fine /\ IF reviews[r.pending].state = "COMMENTED" THEN Go("after") ELSE Raise("failed")
     \/ Fault /\ Raise("failed")
  /\ UNCHANGED <<rest, checks, reviews>>

\* Mutant of CompareAfter: once submitted the review counts as completed.
CompleteAfter ==
  /\ At("after")
  /\ \/ /\ Fine
        /\ r' = [r EXCEPT !.verdict = "completed", !.primary = FALSE, !.pc = "revoke",
                          !.after = "complete"]
     \/ Fault /\ Raise("failed")
  /\ UNCHANGED <<rest, checks, reviews>>

\* The head after the submission decides whether the review is called completed.
CompareAfter ==
  /\ At("after")
  /\ \/ /\ Fine
        /\ r' = [r EXCEPT !.verdict = IF head = r.context THEN "completed" ELSE "cancelled",
                          !.primary = FALSE, !.pc = "revoke", !.after = "complete"]
     \/ Fault /\ Raise("failed")
  /\ UNCHANGED <<rest, checks, reviews>>

-----------------------------------------------------------------------------
(* completeKnownCheck, of the finished review and of the error path.       *)

ConclusionOf == [completed |-> "neutral", cancelled |-> "cancelled", failed |-> "failure"]

CompleteCheck ==
  /\ r.pc \in {"conclude", "e_conclude"}
  /\ LET done == [checks EXCEPT ![r.check] = ConclusionOf[r.verdict]]
         next == IF At("conclude") THEN "terminal" ELSE "e_report"
     IN \/ Fine /\ checks' = done /\ Leave(next)
        \/ /\ Fault /\ checks' \in {checks, done}
           /\ IF At("conclude") THEN Raise("failed") ELSE Leave(next)
  /\ UNCHANGED <<rest, reviews>>

\* The catch: a receipt of failure is signed if there is a packet, or that fails.
EnterErrorPath ==
  /\ At("error")
  /\ \E signed \in {r.signed, r.signed \/ r.packet} :
       r' = [r EXCEPT !.signed = signed,
                      !.pc = IF r.context # Nothing /\ r.check # Nothing THEN "e_check" ELSE "e_report"]
  /\ UNCHANGED <<rest, checks, reviews, faults>>

-----------------------------------------------------------------------------
(* Everybody else.                                                         *)

\* A call that was given up is executed after all.
GitHubExecutes(c) ==
  /\ inFlight' = inFlight \ {c}
  /\ reviews' = IF c.call = "create" THEN Created(c.marker, c.head) ELSE Submitted(c.id)
  /\ UNCHANGED <<head, trigger, request, receipt, checks, valid, r, attempt, faults>>

Push ==
  /\ head < MaxPushes
  /\ head' = head + 1
  /\ UNCHANGED <<trigger, request, receipt, checks, reviews, inFlight, valid, r, attempt, faults>>

\* A newer request of the pull request was authorized, or the rights withdrawn.
Supersede ==
  /\ request.state = "open"
  /\ request' = [request EXCEPT !.state = "superseded"]
  /\ UNCHANGED <<head, trigger, receipt, checks, reviews, inFlight, valid, r, attempt, faults>>

\* The watchdog, or a late abort of an earlier attempt.
EndedByOthers ==
  /\ request.state = "open" /\ attempt > 0
  /\ request' = [request EXCEPT !.state = "ended"]
  /\ UNCHANGED <<head, trigger, receipt, checks, reviews, inFlight, valid, r, attempt, faults>>

\* The run is over, or was killed, and somebody starts it again.  A token of the
\* dead process is known to nobody any more.
Rerun ==
  /\ attempt < MaxReruns
  /\ attempt' = attempt + 1
  /\ r' = Fresh
  /\ valid' = {}
  /\ UNCHANGED <<head, trigger, request, receipt, checks, reviews, inFlight, faults>>

Runner ==
  \/ MintToken \/ RevokeToken
  \/ Claim \/ FetchAuthority \/ CancelMismatch \/ AuthorizedCallback \/ FenceCheck
  \/ MakeCheck \/ Started
  \/ Collect \/ StartModel \/ FinishModel
  \/ FetchHead \/ FenceCreate \/ Reconcile \/ Create \/ Recover \/ Refence \/ FetchLiveHead
  \/ DeletePending \/ Submit \/ Settle \/ CompareAfter
  \/ CompleteCheck \/ TerminalCallback \/ EnterErrorPath \/ Report

PublicationNext ==
  \/ Runner
  \/ \E c \in inFlight : GitHubExecutes(c)
  \/ Push \/ Supersede \/ EndedByOthers \/ Rerun

PublicationSpec == PublicationInit /\ [][PublicationNext]_publicationVars

-----------------------------------------------------------------------------
\* A receipt that says "completed" stands for one visible review, of the commit
\* its Check is on, that was the pull request's when the review became visible:
\* whatever was pushed, superseded, lost or executed late.
CompletedReviewIsCurrent ==
  receipt # Nothing /\ receipt.status = "completed" =>
    \E i \in MarkedBy(receipt.attempt) :
      /\ reviews[i].state = "COMMENTED" /\ ~reviews[i].stale
      /\ reviews[i].head = request.check

\* However its creation and submission are answered, an attempt leaves at most
\* one review behind.
OneReviewPerAttempt == \A a \in 0..MaxReruns : \A i, j \in MarkedBy(a) : i = j

\* No installation token is valid while the provider runs.
ModelHasNoToken == At("running") => valid = {}

\* As long as every call is answered, a run that is over has hidden or shown its
\* review, concluded its Check and given back its tokens, wherever the head moved
\* and whenever the request was superseded.
CleanExit ==
  At("exit") /\ faults = 0 /\ attempt = 0 =>
    /\ Pending = {} /\ valid = {}
    /\ \A h \in Commits : checks[h] # "in_progress"
=============================================================================
