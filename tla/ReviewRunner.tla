---------------------------- MODULE ReviewRunner ----------------------------
(***************************************************************************)
(* The central runner as the control plane sees it (runCentralReview in    *)
(* actions/central-runner.mjs, handleCallback in callback.mjs): the order  *)
(* in which a run calls back, how the Worker answers each callback, and    *)
(* what the runner does when an answer is a refusal or does not arrive.    *)
(*                                                                         *)
(* The callback client sends an unanswered callback again under a fresh    *)
(* nonce, and an attempt that timed out may still reach the Worker later:  *)
(* "sent" keeps the callbacks a run has sent, and LateCallback lets the    *)
(* Worker handle any of them again, at any time and in any order.  (The    *)
(* Worker answers a repeated nonce from the nonce table, without effect.)  *)
(***************************************************************************)
EXTENDS WorkflowRuns

CONSTANT Delayed   \* bound: the events of the callbacks that may arrive late

Event == {"claim", "authorized", "started", "abort", "terminal"}

ASSUME RunnerAssumption == Delayed \subseteq Event

VARIABLES
  stage,   \* how far the process of each run is
  report,  \* the status its last callback will report, once it is decided
  sent,    \* callbacks each run has sent, of the events that may be late
  signedBy \* the attempt that signed the receipt on record (its payload_digest)

runnerVars == <<stage, report, sent, signedBy>>

\* A receipt carries its time of creation: each attempt signs another one.
CallbackOf(e, c, s, a) == [event |-> e, check |-> c, outcome |-> s, attempt |-> a]
Plain(e)       == CallbackOf(e, FALSE, "none", 0)
Abort(c, s)    == CallbackOf("abort", c, s, 0)
Terminally(s, a) == CallbackOf("terminal", TRUE, s, a)

Callback == {Plain(e) : e \in {"claim", "authorized", "started"}}
              \cup {Abort(c, s) : c \in BOOLEAN, s \in {"failed", "cancelled"}}
              \cup {Terminally(s, a) : s \in Outcome, a \in 0..MaxReruns}

Late == {m \in Callback : m.event \in Delayed}

Stage == {"boot", "claimed", "authorized", "fenced", "checked", "started", "reporting",
          "failing", "abort_null", "abort_both", "abort_check", "exit"}

RunnerTypeOK == /\ stage \in [Run -> Stage]
                /\ report \in [Run -> Outcome \cup {"none"}]
                /\ sent \in [Run -> SUBSET Callback]
                /\ signedBy \in [Key -> 0..MaxReruns]

RunnerInit == /\ stage = [x \in Run |-> "boot"]
              /\ report = [x \in Run |-> "none"]
              /\ sent = [x \in Run |-> {}]
              /\ signedBy = [k \in Key |-> 0]

-----------------------------------------------------------------------------
(* handleCallback: the compare-and-set of the event, or no effect.         *)

Cas(k, x, m) ==
  \/ m.event = "claim"      /\ CasClaimExecutor(k, x)
  \/ m.event = "authorized" /\ AuthorizeReviewRequestWithOutbox(k, x)
  \/ m.event = "started"    /\ CasMarkStarted(k, x)
  \/ m.event = "abort"      /\ CasAbortRequest(k, x, m.check, m.outcome)
  \/ m.event = "terminal"   /\ CasCommitTerminalWithReceipt(k, x, m.outcome)

CanApply(k, x, m) ==
  \/ m.event = "claim"      /\ CanClaimExecutor(k, x)
  \/ m.event = "authorized" /\ CanAuthorize(k, x)
  \/ m.event = "started"    /\ CanMarkStarted(k, x)
  \/ m.event = "abort"      /\ CanAbort(k, x, m.check)
  \/ m.event = "terminal"   /\ CanCommitTerminal(k, x)

\* Mutants of AlreadyApplied: another run's claim, another outcome's receipt.
AppliedByAnyRun(k, x, m) ==
  m.event = "claim" /\ status[k] \in {"claimed", "started"}
AppliedWithAnyReceipt(k, x, m) ==
  \/ boundRun[k] = x /\ m.event = "claim" /\ status[k] \in {"claimed", "started"} \cup Outcome
  \/ boundRun[k] = x /\ m.event = "authorized" /\ authorizedAt[k] /\ status[k] \in {"claimed", "started"}
  \/ boundRun[k] = x /\ m.event = "started" /\ status[k] = "started"
  \/ m.event = "terminal" /\ receipt[k] # "none"

\* Nothing was changed, and the answer is a success all the same: the request
\* is where an earlier attempt of this callback would have left it.
AlreadyApplied(k, x, m) ==
  /\ boundRun[k] = x
  /\ \/ m.event = "claim"      /\ status[k] \in {"claimed", "started"} \cup Outcome
     \/ m.event = "authorized" /\ authorizedAt[k] /\ status[k] \in {"claimed", "started"}
     \/ m.event = "started"    /\ status[k] = "started" /\ checkBound[k]
     \/ /\ m.event = "abort"
        /\ receipt[k] = "none" /\ status[k] = m.outcome /\ checkBound[k] = m.check
     \/ m.event = "terminal"   /\ receipt[k] = m.outcome /\ signedBy[k] = m.attempt

\* The handler reads the row before the update and, when that changed nothing,
\* again after it.  A binding is for good and a status only moves on, so that
\* each answer is the one that reads and update in one step give at some time
\* between the two reads.
Handle(x, m) ==
  LET k == runReq[x]
  IN \/ /\ Cas(k, x, m)
        /\ signedBy' = IF m.event = "terminal" THEN [signedBy EXCEPT ![k] = m.attempt]
                       ELSE signedBy
     \/ ~CanApply(k, x, m) /\ UNCHANGED <<storeVars, signedBy>>

Accepts(x, m) == CanApply(runReq[x], x, m) \/ AlreadyApplied(runReq[x], x, m)

-----------------------------------------------------------------------------
(* The runner: it sends m, and goes on with the answer: to ok, or on a      *)
(* refusal to its error path, which reports "cancelled" because a refused   *)
(* transition means that the request was superseded.  With no answer it     *)
(* sends m again, or gives up and reports "failed": m may have been handled *)
(* (LateCallback) or lost.                                                  *)

Advance(x, s) == stage' = [stage EXCEPT ![x] = s]
Decide(x, s)  == report' = [report EXCEPT ![x] = s]

CallTo(x, m, ok, refused, verdict, lost) ==
  /\ runState[x] = "live"
  /\ sent' = [sent EXCEPT ![x] = @ \cup ({m} \cap Late)]
  /\ UNCHANGED runVars
  /\ \/ Accepts(x, m) /\ Handle(x, m) /\ Advance(x, ok) /\ UNCHANGED report
     \/ ~Accepts(x, m) /\ Handle(x, m) /\ Advance(x, refused) /\ Decide(x, verdict)
     \/ UNCHANGED <<stage, report, signedBy, storeVars>>
     \/ Advance(x, lost) /\ Decide(x, "failed") /\ UNCHANGED <<signedBy, storeVars>>

Call(x, m, ok, error) == CallTo(x, m, ok, error, "cancelled", error)

\* Without a claim there is nothing to abort.
CallClaim(x) ==
  stage[x] = "boot" /\ Call(x, Plain("claim"), "claimed", "exit")

\* After the runtime attestation and the authority fetch.
CallAuthorized(x) ==
  stage[x] = "claimed" /\ Call(x, Plain("authorized"), "authorized", "abort_null")

\* claimFence: the claim once more, before the Check is touched.
CallFence(x) ==
  stage[x] = "authorized" /\ Call(x, Plain("claim"), "fenced", "abort_null")

\* createOrReconcileCheckRun on GitHub.
CreateCheck(x) ==
  /\ stage[x] = "fenced" /\ runState[x] = "live"
  /\ Advance(x, "checked")
  /\ UNCHANGED <<report, sent, signedBy, storeVars, runVars>>

CallStarted(x) ==
  stage[x] = "checked" /\ Call(x, Plain("started"), "started", "abort_both")

\* The packet was collected and the receipt signed: for a published review, one
\* superseded before or after its publication, or a failure.
SignReceipt(x) ==
  /\ stage[x] = "started" /\ runState[x] = "live"
  /\ \E s \in Outcome : Decide(x, s)
  /\ Advance(x, "reporting")
  /\ UNCHANGED <<sent, signedBy, storeVars, runVars>>

CallTerminal(x) ==
  stage[x] = "reporting" /\ Call(x, Terminally(report[x], attempt[x]), "exit", "failing")

\* The error path reports the same receipt once more under its own status.
CallFailing(x) ==
  stage[x] = "failing" /\ Call(x, Terminally(report[x], attempt[x]), "exit", "exit")

\* An error before any receipt can be signed: attestation, authority, token or
\* check trouble, or collection; "cancelled" if the PR head moved.
StepFails(x) ==
  /\ runState[x] = "live"
  /\ \/ stage[x] \in {"claimed", "authorized", "fenced"} /\ Advance(x, "abort_null")
     \/ stage[x] = "checked" /\ Advance(x, "abort_both")
     \/ stage[x] = "started" /\ Advance(x, "abort_check")
  /\ \E s \in {"failed", "cancelled"} : Decide(x, s)
  /\ UNCHANGED <<sent, signedBy, storeVars, runVars>>

\* abortWithoutReceipt: an abort names the check if the runner has one.  When
\* the started callback was not acknowledged and this abort is refused, it is
\* tried without the check.
CallAbort(x) ==
  \/ stage[x] = "abort_null"  /\ Call(x, Abort(FALSE, report[x]), "exit", "exit")
  \/ stage[x] = "abort_check" /\ Call(x, Abort(TRUE, report[x]), "exit", "exit")
  \/ /\ stage[x] = "abort_both"
     /\ CallTo(x, Abort(TRUE, report[x]), "exit", "abort_null", report[x], "exit")

\* An attempt that was given up reaches the Worker after all.
LateCallback(x) ==
  /\ \E m \in sent[x] : Handle(x, m)
  /\ UNCHANGED <<runVars, stage, report, sent>>

\* The process ends, done or not.
RunnerEnds(x) ==
  EndRun(x) /\ UNCHANGED <<runnerVars, storeVars>>

\* A re-run starts the process from the beginning.
Rerun(x) ==
  /\ StartAgain(x)
  /\ Advance(x, "boot") /\ Decide(x, "none")
  /\ UNCHANGED <<sent, signedBy, storeVars>>

RunnerStep(x) ==
  \/ CallClaim(x) \/ CallAuthorized(x) \/ CallFence(x) \/ CreateCheck(x)
  \/ CallStarted(x) \/ SignReceipt(x) \/ CallTerminal(x) \/ CallFailing(x)
  \/ StepFails(x) \/ CallAbort(x)
  \/ LateCallback(x) \/ RunnerEnds(x) \/ Rerun(x)

=============================================================================
