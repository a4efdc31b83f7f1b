--------------------------- MODULE ExecutionProofs ---------------------------
(***************************************************************************)
(* Runners and watchdog write the tables through the statements of the     *)
(* store only, so that what is proved of the store holds of the execution  *)
(* system; on that rest the proofs that a request is executed by one run   *)
(* and that a run's belief about its receipt is right.                     *)
(***************************************************************************)
EXTENDS ExecutionSystem, ReviewStoreProofs

Settling == {"abort_null", "abort_both", "abort_check", "failing"}
Working  == Stage \ {"boot", "exit"}

\* What is known of the runs, the runners and the watchdog without the tables.
RunsInv ==
  /\ runState \in [Run -> {"none", "live", "completed"}]
  /\ runReq \in [Run -> Key \cup {None}]
  /\ \A x \in Run : runState[x] # "none" => runReq[x] \in Key
  /\ \A x \in Run : runState[x] = "none" => stage[x] = "boot" /\ sent[x] = {}

StagesInv ==
  /\ stage \in [Run -> Stage]
  /\ report \in [Run -> Outcome \cup {"none"}]
  /\ \A x \in Run : stage[x] = "reporting" => report[x] \in Outcome
  /\ \A x \in Run : stage[x] \in Settling => report[x] \in {"failed", "cancelled"}
  /\ \A x \in Run : report[x] = "completed" => stage[x] \in {"reporting", "exit"}

SentInv == sent \in [Run -> SUBSET Callback]

AttemptInv == attempt \in [Run -> 0..MaxReruns]

DogInv == /\ dogRow \in Key \cup {None}
          /\ dogRow # None => dogRun \in Run

ExecType == RunsInv /\ StagesInv /\ SentInv /\ AttemptInv /\ DogInv

-----------------------------------------------------------------------------
\* A callback that is handled is a statement of the store, or changes nothing.
LEMMA HandleIsStatement ==
  ASSUME NEW x \in Run, NEW m \in Callback, runReq[x] \in Key, Handle(x, m)
  PROVE  [StoreNext]_storeVars
  <1> DEFINE k == runReq[x]
  <1>1. CASE UNCHANGED storeVars
    BY <1>1
  <1>2. CASE Cas(k, x, m)
    <2>1. CASE m.event = "claim" /\ CasClaimExecutor(k, x)
      BY <2>1 DEF StoreNext
    <2>2. CASE m.event = "authorized" /\ AuthorizeReviewRequestWithOutbox(k, x)
      BY <2>2 DEF StoreNext
    <2>3. CASE m.event = "started" /\ CasMarkStarted(k, x)
      BY <2>3 DEF StoreNext
    <2>4. CASE m.event = "abort" /\ CasAbortRequest(k, x, m.check, m.outcome)
      <3>1. m.check \in BOOLEAN /\ m.outcome \in {"failed", "cancelled"}
        BY <2>4 DEF Callback, Plain, Abort, Terminally, CallbackOf
      <3>2. QED
        BY <2>4, <3>1 DEF StoreNext, Outcome
    <2>5. CASE m.event = "terminal" /\ CasCommitTerminalWithReceipt(k, x, m.outcome)
      <3>1. m.outcome \in Outcome
        BY <2>5 DEF Callback, Plain, Abort, Terminally, CallbackOf
      <3>2. QED
        BY <2>5, <3>1 DEF StoreNext
    <2>6. QED
      BY <1>2, <2>1, <2>2, <2>3, <2>4, <2>5 DEF Cas
  <1>3. QED
    BY <1>1, <1>2 DEF Handle

\* The messages the runner makes are callbacks.
LEMMA Messages ==
  /\ \A e \in {"claim", "authorized", "started"} : Plain(e) \in Callback
  /\ \A c \in BOOLEAN, s \in {"failed", "cancelled"} : Abort(c, s) \in Callback
  /\ \A s \in Outcome, a \in 0..MaxReruns : Terminally(s, a) \in Callback
  BY DEF Callback

\* Where a call can lead the run that makes it.
CallOf(x, m, ok, refused, lost) ==
  /\ m \in Callback
  /\ ok \in Stage \ ({"reporting"} \cup Settling)
  /\ refused \in Settling \cup {"exit"} /\ lost \in Settling \cup {"exit"}

-----------------------------------------------------------------------------
LEMMA ExecTypeInit == Init => ExecType
  <1> SUFFICES ASSUME Init PROVE ExecType
    OBVIOUS
  <1>1. RunsInv /\ StagesInv
    BY DEF Init, RunsInit, RunnerInit, RunsInv, StagesInv, Settling, Stage
  <1>2. SentInv /\ AttemptInv
    BY RunsAssumption DEF Init, RunsInit, RunnerInit, SentInv, AttemptInv
  <1>3. DogInv
    BY DEF Init, WatchdogInit, DogInv
  <1>4. QED
    BY <1>1, <1>2, <1>3 DEF ExecType

\* What the table of the stages comes to, wherever a call is made: what the
\* call can be, and what it can lead to.
IsCall(x, m, ok, refused, verdict, lost) ==
  /\ CallOf(x, m, ok, refused, lost)
  /\ verdict \in {"failed", "cancelled"}
  /\ CallTo(x, m, ok, refused, verdict, lost)
  /\ stage[x] = "boot" => m = Plain("claim") /\ refused = "exit" /\ lost = "exit"
  /\ stage[x] # "exit"
  /\ ok \in Publishing => stage[x] \in Publishing \/ m = Plain("authorized")
  /\ report[x] = "completed" => m = Terminally(report[x], attempt[x]) /\ ok = "exit"

\* A step of the runner that calls nobody.
Silent(x) ==
  /\ UNCHANGED <<sent, storeVars, runReq, signedBy>>
  /\ runState[x] # "none"
  /\ \A y \in Run : y # x => stage'[y] = stage[y] /\ report'[y] = report[y]
  /\ stage'[x] \in Working => stage[x] \in Working
  /\ stage'[x] \in Publishing => stage[x] \in Publishing
  /\ stage'[x] = "exit" => stage[x] = "exit" /\ report'[x] = report[x]

Calls(x) == CallClaim(x) \/ CallAuthorized(x) \/ CallFence(x) \/ CallStarted(x)
              \/ CallTerminal(x) \/ CallFailing(x) \/ CallAbort(x)

Moves(x) == CreateCheck(x) \/ SignReceipt(x) \/ StepFails(x) \/ RunnerEnds(x) \/ Rerun(x)

LEMMA CallsAreCalls ==
  ASSUME ExecType, NEW x \in Run, Calls(x)
  PROVE  \E m, ok, refused, verdict, lost : IsCall(x, m, ok, refused, verdict, lost)
  <1>1. stage[x] # "reporting" => report[x] # "completed" \/ stage[x] = "exit"
    BY DEF ExecType, StagesInv
  <1>2. attempt[x] \in 0..MaxReruns
    BY DEF ExecType, AttemptInv
  <1>3. ASSUME NEW s \in Stage \ {"exit", "reporting"}, NEW m \in Callback,
               NEW ok \in Stage \ ({"reporting"} \cup Settling),
               NEW refused \in Settling \cup {"exit"}, NEW lost \in Settling \cup {"exit"},
               NEW verdict \in {"failed", "cancelled"},
               stage[x] = s, CallTo(x, m, ok, refused, verdict, lost),
               s = "boot" => m = Plain("claim") /\ refused = "exit" /\ lost = "exit",
               ok \in Publishing => s \in Publishing \/ m = Plain("authorized")
        PROVE  IsCall(x, m, ok, refused, verdict, lost)
    BY <1>1, <1>3 DEF IsCall, CallOf
  <1>4. CASE CallClaim(x)
    <2>1. IsCall(x, Plain("claim"), "claimed", "exit", "cancelled", "exit")
      BY <1>3, <1>4, Messages DEF CallClaim, Call, Publishing, Stage, Settling
    <2>2. QED
      BY <2>1
  <1>5. CASE CallAuthorized(x)
    <2>1. IsCall(x, Plain("authorized"), "authorized", "abort_null", "cancelled", "abort_null")
      BY <1>3, <1>5, Messages DEF CallAuthorized, Call, Publishing, Stage, Settling
    <2>2. QED
      BY <2>1
  <1>6. CASE CallFence(x)
    <2>1. IsCall(x, Plain("claim"), "fenced", "abort_null", "cancelled", "abort_null")
      BY <1>3, <1>6, Messages DEF CallFence, Call, Publishing, Stage, Settling
    <2>2. QED
      BY <2>1
  <1>7. CASE CallStarted(x)
    <2>1. IsCall(x, Plain("started"), "started", "abort_both", "cancelled", "abort_both")
      BY <1>3, <1>7, Messages DEF CallStarted, Call, Publishing, Stage, Settling
    <2>2. QED
      BY <2>1
  <1>8. CASE CallTerminal(x)
    <2>1. report[x] \in Outcome
      BY <1>8 DEF CallTerminal, ExecType, StagesInv
    <2>2. Terminally(report[x], attempt[x]) \in Callback
      BY <1>2, <2>1, Messages
    <2>3. IsCall(x, Terminally(report[x], attempt[x]), "exit", "failing", "cancelled", "failing")
      BY <1>8, <2>2 DEF CallTerminal, Call, Publishing, IsCall, CallOf, Stage, Settling
    <2>4. QED
      BY <2>3
  <1>9. CASE CallFailing(x)
    <2>1. report[x] \in {"failed", "cancelled"}
      BY <1>9 DEF CallFailing, ExecType, StagesInv, Settling
    <2>2. Terminally(report[x], attempt[x]) \in Callback
      BY <1>2, <2>1, Messages DEF Outcome
    <2>3. IsCall(x, Terminally(report[x], attempt[x]), "exit", "exit", "cancelled", "exit")
      BY <1>3, <1>9, <2>2 DEF CallFailing, Call, Publishing, Stage, Settling
    <2>4. QED
      BY <2>3
  <1>10. CASE CallAbort(x)
    <2>1. stage[x] \in {"abort_null", "abort_check", "abort_both"}
      BY <1>10 DEF CallAbort
    <2>2. report[x] \in {"failed", "cancelled"}
      BY <2>1 DEF ExecType, StagesInv, Settling
    <2>3. Abort(TRUE, report[x]) \in Callback /\ Abort(FALSE, report[x]) \in Callback
      BY <2>2, Messages
    <2>4. \/ IsCall(x, Abort(FALSE, report[x]), "exit", "exit", "cancelled", "exit")
          \/ IsCall(x, Abort(TRUE, report[x]), "exit", "exit", "cancelled", "exit")
          \/ IsCall(x, Abort(TRUE, report[x]), "exit", "abort_null", report[x], "exit")
      BY <1>3, <1>10, <2>2, <2>3 DEF CallAbort, Call, Publishing, Stage, Settling
    <2>5. QED
      BY <2>4
  <1>11. QED
    BY <1>4, <1>5, <1>6, <1>7, <1>8, <1>9, <1>10 DEF Calls

\* A move keeps the types and changes no table.
LEMMA MovesAreSilent ==
  ASSUME ExecType, NEW x \in Run, Moves(x), UNCHANGED watchdogVars
  PROVE  ExecType' /\ Silent(x)
  <1>1. runState[x] # "none" /\ UNCHANGED <<sent, storeVars, runReq, signedBy>>
    BY DEF Moves, CreateCheck, SignReceipt, StepFails, RunnerEnds, Rerun, EndRun, StartAgain,
           runVars, runnerVars
  <1>2. RunsInv'
    <2>1. /\ runState' \in [Run -> {"none", "live", "completed"}]
          /\ \A y \in Run : runState'[y] = "none" <=> runState[y] = "none"
      BY DEF Moves, CreateCheck, SignReceipt, StepFails, RunnerEnds, Rerun, EndRun, StartAgain,
             runVars, ExecType, RunsInv
    <2>2. \A y \in Run : y # x => stage'[y] = stage[y]
      BY DEF Moves, CreateCheck, SignReceipt, StepFails, RunnerEnds, Rerun, Advance, Decide,
             ExecType, StagesInv, runnerVars
    <2>3. QED
      BY <1>1, <2>1, <2>2 DEF ExecType, RunsInv
  <1>3. StagesInv' /\ Silent(x)
    <2>1. CASE CreateCheck(x)
      BY <1>1, <2>1 DEF CreateCheck, Advance, ExecType, StagesInv, Silent, Publishing, Stage, Working, Settling
    <2>2. CASE SignReceipt(x)
      BY <1>1, <2>2 DEF SignReceipt, Advance, Decide, ExecType, StagesInv, Silent, Publishing, Stage, Working,
                        Settling, Outcome
    <2>3. CASE StepFails(x)
      BY <1>1, <2>3 DEF StepFails, Advance, Decide, ExecType, StagesInv, Silent, Publishing, Stage, Working,
                        Settling, Outcome
    <2>4. CASE RunnerEnds(x)
      BY <1>1, <2>4 DEF RunnerEnds, EndRun, runnerVars, ExecType, StagesInv, Silent
    <2>5. CASE Rerun(x)
      BY <1>1, <2>5 DEF Rerun, Advance, Decide, ExecType, StagesInv, Silent, Publishing, Stage, Working, Settling
    <2>6. QED
      BY <2>1, <2>2, <2>3, <2>4, <2>5 DEF Moves
  <1>4. SentInv' /\ DogInv'
    BY <1>1 DEF ExecType, SentInv, DogInv, watchdogVars
  <1>5. AttemptInv'
    BY RunsAssumption DEF Moves, CreateCheck, SignReceipt, StepFails, RunnerEnds, Rerun, EndRun,
       StartAgain, runVars, ExecType, AttemptInv
  <1>6. QED
    BY <1>2, <1>3, <1>4, <1>5 DEF ExecType

\* A call keeps the types and is a statement of the store.
LEMMA CallKeeps ==
  ASSUME ExecType, NEW x \in Run, NEW m, NEW ok, NEW refused, NEW verdict, NEW lost,
         IsCall(x, m, ok, refused, verdict, lost), UNCHANGED watchdogVars
  PROVE  ExecType' /\ [StoreNext]_storeVars
  <1>1. runReq[x] \in Key /\ runState[x] = "live"
    BY DEF IsCall, CallTo, ExecType, RunsInv
  <1>2. [StoreNext]_storeVars
    <2>1. Handle(x, m) \/ UNCHANGED storeVars
      BY DEF IsCall, CallTo
    <2>2. QED
      BY <1>1, <2>1, HandleIsStatement DEF IsCall, CallOf
  <1>3. UNCHANGED <<runVars, watchdogVars>>
    BY DEF IsCall, CallTo
  <1>4. SentInv'
    BY DEF IsCall, CallTo, CallOf, ExecType, SentInv, Late
  <1>5. /\ stage' \in [Run -> Stage] /\ report' \in [Run -> Outcome \cup {"none"}]
        /\ \A y \in Run : y # x => /\ sent'[y] = sent[y]
                                  /\ stage'[y] = stage[y] /\ report'[y] = report[y]
    BY DEF IsCall, CallTo, CallOf, ExecType, StagesInv, SentInv, Advance, Decide, Settling, Stage,
           Outcome
  <1>6. RunsInv'
    BY <1>1, <1>3, <1>5 DEF ExecType, RunsInv, runVars
  <1>7. \/ stage'[x] = ok /\ report'[x] = report[x]
        \/ stage'[x] \in Settling \cup {"exit"} /\ report'[x] \in {"failed", "cancelled"}
        \/ stage'[x] = stage[x] /\ report'[x] = report[x]
    BY DEF IsCall, CallTo, CallOf, ExecType, StagesInv, Advance, Decide
  <1>8. StagesInv'
    BY <1>5, <1>7 DEF ExecType, StagesInv, IsCall, CallOf, Settling, Stage
  <1>9. QED
    BY <1>2, <1>3, <1>4, <1>6, <1>8 DEF ExecType, AttemptInv, DogInv, runVars, watchdogVars

\* A callback that arrives late is no more than a callback.
LEMMA LateKeeps ==
  ASSUME ExecType, NEW x \in Run, LateCallback(x), UNCHANGED watchdogVars
  PROVE  ExecType' /\ [StoreNext]_storeVars
  <1>1. PICK m \in sent[x] : Handle(x, m)
    BY DEF LateCallback
  <1>2. m \in Callback /\ runReq[x] \in Key
    <2>1. runState[x] # "none"
      BY <1>1 DEF ExecType, RunsInv
    <2>2. QED
      BY <1>1, <2>1 DEF ExecType, SentInv, RunsInv
  <1>3. [StoreNext]_storeVars
    BY <1>1, <1>2, HandleIsStatement
  <1>4. QED
    BY <1>3 DEF LateCallback, ExecType, RunsInv, StagesInv, SentInv, AttemptInv, DogInv, runVars,
                watchdogVars

LEMMA RunnerKeeps ==
  ASSUME ExecType, NEW x \in Run, RunnerStep(x), UNCHANGED watchdogVars
  PROVE  ExecType' /\ [StoreNext]_storeVars
  <1>1. CASE Calls(x)
    BY <1>1, CallsAreCalls, CallKeeps
  <1>2. CASE Moves(x)
    BY <1>2, MovesAreSilent DEF Silent
  <1>3. CASE LateCallback(x)
    BY <1>3, LateKeeps
  <1>4. QED
    BY <1>1, <1>2, <1>3 DEF RunnerStep, Calls, Moves

\* The watchdog's end of a request is the statement of that name.
LEMMA WatchdogKeeps ==
  ASSUME ExecType, WatchdogStep, UNCHANGED runnerVars
  PROVE  ExecType' /\ [StoreNext]_storeVars
  <1>1. RunsInv' /\ StagesInv' /\ SentInv' /\ AttemptInv'
    BY DEF WatchdogStep, BeginScan, Scan, Inspect, EndRequest, EndScan, runVars, runnerVars,
           ExecType, RunsInv, StagesInv, SentInv, AttemptInv
  <1>2. DogInv'
    BY DEF WatchdogStep, BeginScan, Scan, Inspect, EndRequest, EndScan, ExecType, DogInv
  <1>3. [StoreNext]_storeVars
    <2>1. CASE EndRequest
      <3>1. dogRow \in Key /\ dogRun \in Run
        BY <2>1 DEF EndRequest, ExecType, DogInv
      <3>2. CASE \E s \in {"failed", "cancelled"} : CasWatchdogTerminal(dogRow, dogRun, s)
        BY <3>1, <3>2 DEF StoreNext, Outcome
      <3>3. QED
        BY <2>1, <3>2 DEF EndRequest
    <2>2. CASE ~EndRequest
      BY <2>2 DEF WatchdogStep, BeginScan, Scan, Inspect, EndScan
    <2>3. QED
      BY <2>1, <2>2
  <1>4. QED
    BY <1>1, <1>2, <1>3 DEF ExecType

LEMMA OthersKeep ==
  ASSUME ExecType,
         \/ \E k \in Key : Admit(k) \/ \E x \in Run : Dispatch(k, x)
         \/ \E x \in Run : Bind(x)
         \/ Revoke
  PROVE  ExecType' /\ [StoreNext]_storeVars
  <1>1. CASE \E k \in Key, x \in Run : Dispatch(k, x)
    BY <1>1 DEF Dispatch, CreateRun, runnerVars, watchdogVars, ExecType, RunsInv, StagesInv, SentInv,
                AttemptInv, DogInv
  <1>2. ASSUME UNCHANGED <<runVars, runnerVars, watchdogVars>>
        PROVE  ExecType'
    BY <1>2 DEF runVars, runnerVars, watchdogVars, ExecType, RunsInv, StagesInv, SentInv,
                AttemptInv, DogInv
  <1>3. CASE \E k \in Key : Admit(k)
    BY <1>2, <1>3 DEF Admit, StoreNext
  <1>4. CASE \E x \in Run : Bind(x)
    <2>1. PICK x \in Run : Bind(x)
      BY <1>4
    <2>2. runReq[x] \in Key
      BY <2>1 DEF Bind, ExecType, RunsInv
    <2>3. QED
      BY <1>2, <2>1, <2>2 DEF Bind, StoreNext
  <1>5. CASE Revoke
    BY <1>2, <1>5 DEF Revoke, StoreNext
  <1>6. QED
    BY <1>1, <1>3, <1>4, <1>5

\* Every step of the execution system is a statement of the store or leaves the
\* tables alone.
LEMMA ExecTypeStep == ExecType /\ [Next]_vars => ExecType' /\ [StoreNext]_storeVars
  <1> SUFFICES ASSUME ExecType, [Next]_vars PROVE ExecType' /\ [StoreNext]_storeVars
    OBVIOUS
  <1>1. CASE \/ \E k \in Key : Admit(k) \/ \E x \in Run : Dispatch(k, x)
             \/ \E x \in Run : Bind(x)
             \/ Revoke
    BY <1>1, OthersKeep
  <1>2. CASE \E x \in Run : RunnerStep(x) /\ UNCHANGED watchdogVars
    BY <1>2, RunnerKeeps
  <1>3. CASE WatchdogStep /\ UNCHANGED runnerVars
    BY <1>3, WatchdogKeeps
  <1>4. CASE UNCHANGED vars
    BY <1>4 DEF vars, runVars, runnerVars, watchdogVars, ExecType, RunsInv, StagesInv, SentInv,
                AttemptInv, DogInv
  <1>5. QED
    BY <1>1, <1>2, <1>3, <1>4 DEF Next

\* Whatever runners, watchdog and the other writers do, and however their
\* callbacks are lost, late or repeated, the tables go through the statements
\* of db.mjs only: all that is proved of the store holds here.
THEOREM ExecutionUsesStore == Spec => StoreSpec
  <1>1. Init => ExecType /\ StoreInit
    BY ExecTypeInit DEF Init
  <1>2. QED
    BY <1>1, ExecTypeStep, PTL DEF Spec, StoreSpec

-----------------------------------------------------------------------------
(* One executor for a request.                                             *)

\* A run past its claim is the one its request is bound to; bindings are for
\* good, so that no other run gets past its claim any more.
Bound == \A x \in Run : stage[x] \in Working => boundRun[runReq[x]] = x

\* A run is authorized before it publishes, and its request stays so.
PublishersAuthorized == \A x \in Run : stage[x] \in Publishing => authorizedAt[runReq[x]]

Recorded == \A x \in Run : stage[x] = "exit" /\ report[x] = "completed"
                             => receipt[runReq[x]] = "completed"

ExecInv == ExecType /\ StoreInv /\ Bound /\ PublishersAuthorized /\ Recorded

\* What a callback finds or leaves when it is answered by a success.
LEMMA AcceptedClaim ==
  ASSUME NEW x \in Run, Accepts(x, Plain("claim"))
  PROVE  boundRun[runReq[x]] = x
  BY DEF Accepts, CanApply, AlreadyApplied, Plain, CallbackOf, CanClaimExecutor

LEMMA AcceptedAuthorization ==
  ASSUME NEW x \in Run, runReq[x] \in Key, StoreTypeOK,
         Accepts(x, Plain("authorized")), Handle(x, Plain("authorized"))
  PROVE  authorizedAt'[runReq[x]]
  <1> DEFINE m == Plain("authorized")
             k == runReq[x]
  <1>1. m.event = "authorized"
    BY DEF Plain, CallbackOf
  <1>2. CASE Cas(k, x, m)
    <2>1. AuthorizeReviewRequestWithOutbox(k, x)
      BY <1>1, <1>2 DEF Cas
    <2>2. QED
      BY <2>1 DEF AuthorizeReviewRequestWithOutbox, StoreTypeOK
  <1>3. CASE ~CanApply(k, x, m) /\ UNCHANGED storeVars
    <2>1. authorizedAt[k]
      BY <1>1, <1>3 DEF Accepts, AlreadyApplied
    <2>2. QED
      BY <1>3, <2>1 DEF storeVars, requestVars
  <1>4. QED
    BY <1>2, <1>3 DEF Handle

LEMMA AcceptedReport ==
  ASSUME NEW x \in Run, NEW s, NEW a, runReq[x] \in Key, StoreTypeOK,
         Accepts(x, Terminally(s, a)), Handle(x, Terminally(s, a))
  PROVE  receipt'[runReq[x]] = s
  <1> DEFINE m == Terminally(s, a)
             k == runReq[x]
  <1>1. m.event = "terminal" /\ m.outcome = s
    BY DEF Terminally, CallbackOf
  <1>2. CASE Cas(k, x, m)
    <2>1. CasCommitTerminalWithReceipt(k, x, s)
      BY <1>1, <1>2 DEF Cas
    <2>2. QED
      BY <2>1 DEF CasCommitTerminalWithReceipt, StoreTypeOK
  <1>3. CASE ~CanApply(k, x, m) /\ UNCHANGED storeVars
    <2>1. AlreadyApplied(k, x, m)
      BY <1>3 DEF Accepts
    <2>2. receipt[k] = s
      BY <1>1, <2>1 DEF AlreadyApplied
    <2>3. QED
      BY <1>3, <2>2 DEF storeVars
  <1>4. QED
    BY <1>2, <1>3 DEF Handle

\* The tables only keep what they hold, and only a run that was dispatched has
\* left its first stage.
Kept == /\ \A k \in Key : /\ boundRun[k] # None => boundRun'[k] = boundRun[k]
                          /\ receipt[k] # "none" => receipt'[k] = receipt[k]
                          /\ authorizedAt[k] => authorizedAt'[k]
        /\ \A x \in Run : stage[x] # "boot" => runReq[x] \in Key
        /\ \A x \in Run : x # None

LEMMA Keeping == ExecInv /\ [StoreNext]_storeVars => Kept
  <1> SUFFICES ASSUME ExecInv, [StoreNext]_storeVars PROVE Kept
    OBVIOUS
  <1>1. [Permanent]_storeVars
    BY PermanentStep DEF ExecInv
  <1>2. \A k \in Key : /\ boundRun[k] # None => boundRun'[k] = boundRun[k]
                       /\ receipt[k] # "none" => receipt'[k] = receipt[k]
                       /\ authorizedAt[k] => authorizedAt'[k]
    BY <1>1 DEF Permanent, storeVars, requestVars
  <1>3. \A x \in Run : stage[x] # "boot" => runReq[x] \in Key
    BY DEF ExecInv, ExecType, RunsInv
  <1>4. QED
    BY <1>2, <1>3, RowAssumption DEF Kept

LEMMA CallBinds ==
  ASSUME ExecInv, NEW x \in Run, NEW m, NEW ok, NEW refused, NEW verdict, NEW lost,
         IsCall(x, m, ok, refused, verdict, lost), [StoreNext]_storeVars
  PROVE  Bound' /\ PublishersAuthorized' /\ Recorded'
  <1>0. Kept
    BY Keeping
  <1>1. /\ runReq' = runReq /\ runState[x] = "live" /\ runReq[x] \in Key
        /\ \A y \in Run : y # x => stage'[y] = stage[y] /\ report'[y] = report[y]
    BY DEF IsCall, CallTo, runVars, ExecInv, ExecType, RunsInv, StagesInv, Advance, Decide
  <1>2. stage'[x] \in Working => boundRun'[runReq[x]] = x
    <2>1. CASE stage[x] \in Working
      BY <1>1, <1>0, <2>1 DEF ExecInv, Bound, Kept
    <2>2. CASE stage[x] = "boot" /\ Accepts(x, m)
      <3>1. boundRun[runReq[x]] = x
        BY <2>2, AcceptedClaim DEF IsCall
      <3>2. QED
        BY <1>0, <1>1, <3>1 DEF Kept
    <2>3. CASE stage[x] = "boot" /\ ~Accepts(x, m)
      <3>1. stage'[x] \in {"boot", "exit"}
        BY <2>3 DEF IsCall, CallTo, Advance, ExecInv, ExecType, StagesInv
      <3>2. QED
        BY <3>1 DEF Working
    <2>4. QED
      BY <2>1, <2>2, <2>3 DEF IsCall, ExecInv, ExecType, StagesInv, Working
  <1>3. stage'[x] = "exit" /\ report'[x] = "completed" => receipt'[runReq[x]] = "completed"
    <2> SUFFICES ASSUME stage'[x] = "exit", report'[x] = "completed"
                 PROVE  receipt'[runReq[x]] = "completed"
      OBVIOUS
    <2>1. Accepts(x, m) /\ Handle(x, m) /\ report[x] = "completed"
      BY DEF IsCall, CallTo, Advance, Decide, ExecInv, ExecType, StagesInv
    <2>2. m = Terminally("completed", attempt[x])
      BY <2>1 DEF IsCall
    <2>3. StoreTypeOK
      BY DEF ExecInv, StoreInv
    <2>4. QED
      BY <1>1, <2>1, <2>2, <2>3, AcceptedReport
  <1>4. stage'[x] \in Publishing => authorizedAt'[runReq[x]]
    <2>1. CASE stage[x] \in Publishing
      BY <1>0, <1>1, <2>1 DEF ExecInv, PublishersAuthorized, Kept
    <2>2. CASE stage[x] \notin Publishing /\ stage'[x] \in Publishing
      <3>1. Accepts(x, m) /\ Handle(x, m) /\ ok \in Publishing
        BY <2>2 DEF IsCall, CallTo, CallOf, Advance, ExecInv, ExecType, StagesInv, Publishing, Settling
      <3>2. m = Plain("authorized")
        BY <2>2, <3>1 DEF IsCall
      <3>3. StoreTypeOK
        BY DEF ExecInv, StoreInv
      <3>4. QED
        BY <1>1, <3>1, <3>2, <3>3, AcceptedAuthorization
    <2>3. QED
      BY <2>1, <2>2
  <1>5. Bound' /\ PublishersAuthorized'
    BY <1>0, <1>1, <1>2, <1>4 DEF Kept, ExecInv, Bound, PublishersAuthorized, Working, Publishing
  <1>6. Recorded'
    BY <1>0, <1>1, <1>3 DEF Kept, ExecInv, Recorded
  <1>7. QED
    BY <1>5, <1>6

LEMMA ExecInvStep == ExecInv /\ [Next]_vars => ExecInv'
  <1> SUFFICES ASSUME ExecInv, [Next]_vars PROVE ExecInv'
    OBVIOUS
  <1>1. ExecType' /\ [StoreNext]_storeVars
    BY ExecTypeStep DEF ExecInv
  <1>2. StoreInv'
    BY <1>1, StoreInvStep DEF ExecInv
  <1>11. Kept
    BY <1>1, Keeping
  <1>3. ASSUME \A x \in Run : /\ stage'[x] \in Working => stage[x] \in Working
                              /\ stage'[x] \in Publishing => stage[x] \in Publishing
                              /\ stage'[x] = "exit" => stage[x] = "exit" /\ report'[x] = report[x]
                              /\ stage[x] # "boot" => runReq'[x] = runReq[x]
        PROVE  Bound' /\ PublishersAuthorized' /\ Recorded'
    BY <1>3, <1>11 DEF Kept, ExecInv, Bound, PublishersAuthorized, Recorded, Working, Publishing
  <1>4. ASSUME NEW x \in Run, Calls(x)
        PROVE  Bound' /\ PublishersAuthorized' /\ Recorded'
    BY <1>1, <1>4, CallsAreCalls, CallBinds DEF ExecInv
  <1>5. ASSUME NEW x \in Run, Moves(x), UNCHANGED watchdogVars
        PROVE  Bound' /\ PublishersAuthorized' /\ Recorded'
    <2>1. Silent(x)
      BY <1>5, MovesAreSilent DEF ExecInv
    <2>2. QED
      BY <1>3, <2>1 DEF Silent
  <1>6. ASSUME NEW x \in Run, LateCallback(x)
        PROVE  Bound' /\ PublishersAuthorized' /\ Recorded'
    BY <1>3, <1>6 DEF LateCallback, runVars
  <1>7. ASSUME \/ \E k \in Key : Admit(k)
               \/ \E x \in Run : Bind(x)
               \/ Revoke
               \/ WatchdogStep /\ UNCHANGED runnerVars
               \/ UNCHANGED vars
        PROVE  Bound' /\ PublishersAuthorized' /\ Recorded'
    BY <1>3, <1>7 DEF Admit, Bind, Revoke, WatchdogStep, BeginScan, Scan, Inspect, EndRequest,
                      EndScan, vars, runVars, runnerVars
  <1>8. ASSUME NEW k \in Key, NEW x \in Run, Dispatch(k, x)
        PROVE  Bound' /\ PublishersAuthorized' /\ Recorded'
    <2>1. Dispatch(k, x)
      BY <1>8
    <2>2. stage[x] = "boot" /\ UNCHANGED runnerVars
      BY <2>1 DEF Dispatch, CreateRun, ExecInv, ExecType, RunsInv
    <2>3. \A y \in Run : y # x => runReq'[y] = runReq[y]
      BY <2>1 DEF Dispatch, CreateRun, ExecInv, ExecType, RunsInv
    <2>4. QED
      BY <1>3, <2>2, <2>3 DEF runnerVars
  <1>9. Bound' /\ PublishersAuthorized' /\ Recorded'
    BY <1>4, <1>5, <1>6, <1>7, <1>8 DEF Next, RunnerStep, Calls, Moves
  <1>10. QED
    BY <1>1, <1>2, <1>9 DEF ExecInv

LEMMA ExecInvInit == Init => ExecInv
  BY ExecTypeInit, StoreInvInit DEF Init, RunnerInit, ExecInv, Bound, PublishersAuthorized, Recorded, Working, Publishing

LEMMA ExecInvariant == Spec => []ExecInv
  BY ExecInvInit, ExecInvStep, PTL DEF Spec

\* The tables keep their invariant under runners and watchdog.
THEOREM ExecutionKeepsStoreInv == Spec => []StoreInv
  BY ExecInvariant, PTL DEF ExecInv

\* However many runs a request got by repeated dispatches, and however often
\* they are started again, one of them at most is past its claim.
THEOREM RequestHasOneExecutor == Spec => []OneExecutor
  <1>1. ExecInv => OneExecutor
    BY DEF ExecInv, ExecType, StagesInv, Bound, OneExecutor, Working
  <1>2. QED
    BY <1>1, ExecInvariant, PTL

\* Of two runs that publish for one pull request the older has reported, or
\* GitHub is asked to end it: the newer was authorized, which supersedes what is
\* older and enqueues the cancellation of the runs bound to it.
THEOREM OlderPublisherGivesWay == Spec => []OlderPublisherIsStopped
  <1>1. ASSUME ExecInv, NEW x \in Run, NEW y \in Run, Live(x), stage[x] \in Publishing,
               Live(y), stage[y] \in Publishing, runReq[x] \in Older(runReq[y])
        PROVE  \/ status[runReq[x]] \in Outcome
               \/ status[runReq[x]] = "superseded" /\ jobStatus[x] # "absent"
    <2>1. runReq[x] \in Key /\ runReq[y] \in Key
      BY <1>1 DEF Live, ExecInv, ExecType, RunsInv
    <2>2. authorizedAt[runReq[y]]
      BY <1>1 DEF ExecInv, PublishersAuthorized
    <2>3. status[runReq[x]] \in Terminal
      BY <1>1, <2>1, <2>2 DEF ExecInv, StoreInv, SupersessionFence
    <2>4. boundRun[runReq[x]] = x /\ x # None
      <3>1. stage[x] \in Working
        BY <1>1 DEF Publishing, Working, Stage
      <3>2. QED
        BY <1>1, <3>1, RowAssumption DEF ExecInv, Bound
    <2>5. status[runReq[x]] = "superseded" => jobStatus[x] # "absent"
      BY <1>1, <2>1, <2>4 DEF ExecInv, StoreInv, JobCoverage
    <2>6. QED
      BY <2>3, <2>5 DEF Terminal
  <1>2. ExecInv => OlderPublisherIsStopped
    BY <1>1 DEF OlderPublisherIsStopped
  <1>3. QED
    BY <1>2, ExecInvariant, PTL

\* A run that left with the report "completed" has its receipt on record,
\* whatever was lost or late on the way.
THEOREM CompletionIsOnRecord == Spec => []AckedReviewIsRecorded
  <1>1. ExecInv => AckedReviewIsRecorded
    BY DEF ExecInv, Recorded, AckedReviewIsRecorded
  <1>2. QED
    BY <1>1, ExecInvariant, PTL

-----------------------------------------------------------------------------
(* The work of a run on its first attempt.                                 *)

FirstTime(x) == Live(x) /\ attempt[x] = 0

\* What may still arrive of a run: on its first attempt, nothing that ends its
\* request, unless its own report.
SaysNoMore(x) ==
  \A m \in sent[x] :
    /\ stage[x] = "boot" => m.event = "claim"
    /\ stage[x] \in {"claimed", "authorized", "fenced"} => m.event \in {"claim", "authorized"}
    /\ stage[x] \in {"checked", "started"} => m.event \in {"claim", "authorized", "started"}
    /\ stage[x] = "reporting" => m.event # "abort" /\ (m.event = "terminal" => m.outcome = report[x])

\* Where the request of a run is, seen from the run's stage.
RowFits(x) ==
  LET k == runReq[x]
      s == status[k]
  IN /\ stage[x] = "boot" /\ boundRun[k] = x => s \in {"dispatched", "claimed", "superseded"}
     /\ stage[x] = "claimed" => s \in {"claimed", "superseded"}
     /\ stage[x] \in {"authorized", "fenced", "checked"}
          => authorizedAt[k] /\ s \in {"claimed", "started", "superseded"}
     /\ stage[x] = "started" => s \in {"started", "superseded"}
     /\ stage[x] = "reporting" => s \in {"started", "superseded", report[x]}

FirstTimesFit == \A x \in Run : FirstTime(x) => SaysNoMore(x) /\ RowFits(x)

\* The watchdog acts on a run that was completed when it looked: by now it is
\* completed, or started again.
DogLooked == dogRow # None => runState[dogRun] = "completed" \/ attempt[dogRun] # 0

BoundRunsExist == \A k \in Key : boundRun[k] # None => runState[boundRun[k]] # "none"

ProtectInv == ExecInv /\ FirstTimesFit /\ DogLooked /\ BoundRunsExist

\* What a callback of the run x does to the row of its request, and to the others.
LEMMA HandleOnRow ==
  ASSUME StoreTypeOK, NEW x \in Run, NEW m, runReq[x] \in Key, Handle(x, m)
  PROVE  /\ boundRun' = boundRun
         /\ \A k \in Key \ {runReq[x]} : status'[k] \in {status[k], "superseded"}
         /\ LET k == runReq[x]
            IN /\ status'[k] # status[k] => boundRun[k] = x
               /\ \/ status'[k] = status[k]
                  \/ m.event = "claim" /\ status[k] = "dispatched" /\ status'[k] = "claimed"
                  \/ m.event = "started" /\ status[k] = "claimed" /\ status'[k] = "started"
                  \/ m.event \in {"abort", "terminal"} /\ status'[k] = m.outcome
  <1> DEFINE k == runReq[x]
  <1>1. CASE UNCHANGED storeVars
    BY <1>1 DEF storeVars, requestVars
  <1>2. CASE Cas(k, x, m)
    <2>1. CASE m.event = "claim" /\ CasClaimExecutor(k, x)
      BY <2>1 DEF CasClaimExecutor, CanClaimExecutor, SetStatus, StoreTypeOK
    <2>2. CASE m.event = "authorized" /\ AuthorizeReviewRequestWithOutbox(k, x)
      <3>1. k \notin Older(k)
        BY DEF Older, StoreTypeOK
      <3>2. QED
        BY <2>2, <3>1 DEF AuthorizeReviewRequestWithOutbox, CanAuthorize, StoreTypeOK
    <2>3. CASE m.event = "started" /\ CasMarkStarted(k, x)
      BY <2>3 DEF CasMarkStarted, CanMarkStarted, SetStatus, StoreTypeOK
    <2>4. CASE m.event = "abort" /\ CasAbortRequest(k, x, m.check, m.outcome)
      BY <2>4 DEF CasAbortRequest, CanAbort, SetStatus, StoreTypeOK
    <2>5. CASE m.event = "terminal" /\ CasCommitTerminalWithReceipt(k, x, m.outcome)
      BY <2>5 DEF CasCommitTerminalWithReceipt, CanCommitTerminal, SetStatus, StoreTypeOK
    <2>6. QED
      BY <1>2, <2>1, <2>2, <2>3, <2>4, <2>5 DEF Cas
  <1>3. QED
    BY <1>1, <1>2 DEF Handle

\* What an accepted callback finds or leaves.
LEMMA AcceptedOnRow ==
  ASSUME StoreTypeOK, NEW x \in Run, NEW m, runReq[x] \in Key, Accepts(x, m), Handle(x, m)
  PROVE  LET k == runReq[x]
         IN /\ m.event = "claim" =>
                 boundRun[k] = x /\ status'[k] \in {"claimed", "started"} \cup Outcome
            /\ m.event = "authorized" =>
                 boundRun[k] = x /\ authorizedAt'[k] /\ status'[k] \in {"claimed", "started"}
            /\ m.event = "started" => boundRun[k] = x /\ status'[k] = "started"
  <1> DEFINE k == runReq[x]
  <1>1. CASE ~CanApply(k, x, m) /\ UNCHANGED storeVars
    <2>1. AlreadyApplied(k, x, m)
      BY <1>1 DEF Accepts
    <2>2. UNCHANGED <<status, authorizedAt, boundRun>>
      BY <1>1 DEF storeVars, requestVars
    <2>3. QED
      BY <2>1, <2>2 DEF AlreadyApplied
  <1>2. CASE Cas(k, x, m)
    <2>1. CASE m.event = "claim" /\ CasClaimExecutor(k, x)
      BY <2>1 DEF CasClaimExecutor, CanClaimExecutor, SetStatus, StoreTypeOK
    <2>2. CASE m.event = "authorized" /\ AuthorizeReviewRequestWithOutbox(k, x)
      <3>1. k \notin Older(k)
        BY DEF Older, StoreTypeOK
      <3>2. QED
        BY <2>2, <3>1 DEF AuthorizeReviewRequestWithOutbox, CanAuthorize, StoreTypeOK
    <2>3. CASE m.event = "started" /\ CasMarkStarted(k, x)
      BY <2>3 DEF CasMarkStarted, CanMarkStarted, SetStatus, StoreTypeOK
    <2>4. CASE m.event = "abort" \/ m.event = "terminal"
      BY <2>4
    <2>5. QED
      BY <1>2, <2>1, <2>2, <2>3, <2>4 DEF Cas
  <1>3. QED
    BY <1>1, <1>2 DEF Handle

\* Of the row of a run on its first attempt others change nothing, or supersede it.
Undisturbed(x) ==
  LET k == runReq[x]
  IN /\ authorizedAt[k] => authorizedAt'[k]
     /\ \/ boundRun'[k] # x
        \/ boundRun[k] = x /\ status'[k] \in {status[k], "superseded"}

LEMMA StaysFit ==
  ASSUME ExecInv, NEW x \in Run, FirstTime(x), SaysNoMore(x), RowFits(x), Undisturbed(x),
         runReq'[x] = runReq[x], stage'[x] = stage[x], report'[x] = report[x], sent'[x] = sent[x],
         boundRun[runReq[x]] # None => boundRun'[runReq[x]] = boundRun[runReq[x]]
  PROVE  SaysNoMore(x)' /\ RowFits(x)'
  <1>1. SaysNoMore(x)'
    BY DEF SaysNoMore
  <1>2. stage[x] # "boot" /\ stage[x] # "exit" => boundRun'[runReq[x]] = x
    BY RowAssumption DEF ExecInv, Bound, Working, ExecType, StagesInv
  <1>3. RowFits(x)'
    <2>1. stage[x] = "boot" /\ boundRun'[runReq[x]] = x =>
            status'[runReq[x]] \in {"dispatched", "claimed", "superseded"}
      BY DEF RowFits, Undisturbed
    <2>2. stage[x] # "boot" /\ stage[x] # "exit" => status'[runReq[x]] \in {status[runReq[x]], "superseded"}
      BY <1>2 DEF Undisturbed
    <2>3. QED
      BY <2>1, <2>2 DEF RowFits, Undisturbed
  <1>4. QED
    BY <1>1, <1>3

\* A statement about another request, or a callback of another run.
LEMMA HandledElsewhere ==
  ASSUME ProtectInv, NEW x \in Run, FirstTime(x), NEW y \in Run \ {x}, NEW m, runReq[y] \in Key,
         Handle(y, m) \/ UNCHANGED storeVars, Kept
  PROVE  Undisturbed(x)
  <1>1. runReq[x] \in Key
    BY DEF FirstTime, Live, ProtectInv, ExecInv, ExecType, RunsInv
  <1>2. CASE UNCHANGED storeVars
    BY <1>2 DEF storeVars, requestVars, Undisturbed
  <1>3. CASE Handle(y, m)
    <2>1. StoreTypeOK
      BY DEF ProtectInv, ExecInv, StoreInv
    <2>2. /\ boundRun' = boundRun
          /\ \A k \in Key \ {runReq[y]} : status'[k] \in {status[k], "superseded"}
          /\ status'[runReq[y]] # status[runReq[y]] => boundRun[runReq[y]] = y
      BY <1>3, <2>1, HandleOnRow
    <2>3. QED
      BY <1>1, <2>2 DEF Undisturbed, Kept
  <1>4. QED
    BY <1>2, <1>3

LEMMA OthersDoNotDisturb ==
  ASSUME ProtectInv, NEW x \in Run, FirstTime(x), Kept,
         \/ \E k \in Key : Admit(k)
         \/ \E y \in Run \ {x} : Bind(y)
         \/ Revoke
         \/ WatchdogStep
  PROVE  Undisturbed(x)
  <1> DEFINE k == runReq[x]
  <1>1. k \in Key /\ StoreTypeOK /\ RunBinding /\ x # None
    BY RowAssumption DEF FirstTime, Live, ProtectInv, ExecInv, ExecType, RunsInv, StoreInv
  <1>2. authorizedAt[k] => authorizedAt'[k]
    BY <1>1 DEF Kept
  <1>3. ASSUME NEW o \in Key, Admit(o) PROVE Undisturbed(x)
    <2>1. boundRun' = boundRun /\ (status'[k] # status[k] => k = o /\ status[o] = "absent")
      BY <1>1, <1>3 DEF Admit, AdmitReviewRequestWithOutbox, StoreTypeOK
    <2>2. status[k] = "absent" => boundRun[k] = None
      BY <1>1 DEF RunBinding
    <2>3. QED
      BY <1>1, <1>2, <2>1, <2>2 DEF Undisturbed
  <1>4. ASSUME NEW y \in Run \ {x}, Bind(y) PROVE Undisturbed(x)
    <2>1. ClaimWorkflowRunOrEnqueueOrphan(runReq[y], y)
      BY <1>4 DEF Bind
    <2>2. CASE CanBindRun(runReq[y]) /\ runReq[y] = k
      <3>1. boundRun'[k] = y
        BY <1>1, <2>1, <2>2 DEF ClaimWorkflowRunOrEnqueueOrphan, StoreTypeOK
      <3>2. QED
        BY <1>2, <3>1 DEF Undisturbed
    <2>3. CASE CanBindRun(runReq[y]) /\ runReq[y] # k
      <3>1. boundRun'[k] = boundRun[k] /\ status'[k] = status[k]
        BY <1>1, <2>1, <2>3 DEF ClaimWorkflowRunOrEnqueueOrphan, StoreTypeOK, SetStatus
      <3>2. QED
        BY <1>2, <3>1 DEF Undisturbed
    <2>4. CASE ~CanBindRun(runReq[y])
      <3>1. boundRun' = boundRun /\ status' = status
        BY <2>1, <2>4 DEF ClaimWorkflowRunOrEnqueueOrphan
      <3>2. QED
        BY <1>2, <3>1 DEF Undisturbed
    <2>5. QED
      BY <2>2, <2>3, <2>4
  <1>5. CASE Revoke
    <2>1. boundRun' = boundRun /\ status'[k] \in {status[k], "superseded"}
      BY <1>1, <1>5 DEF Revoke, SupersedeInstallationRequests, Supersede
    <2>2. QED
      BY <1>2, <2>1 DEF Undisturbed
  <1>6. CASE WatchdogStep
    <2>1. CASE UNCHANGED storeVars
      BY <1>2, <2>1 DEF storeVars, requestVars, Undisturbed
    <2>2. CASE EndRequest /\ \E s \in {"failed", "cancelled"} : CasWatchdogTerminal(dogRow, dogRun, s)
      <3>1. PICK s \in {"failed", "cancelled"} : CasWatchdogTerminal(dogRow, dogRun, s)
        BY <2>2
      <3>2. dogRow \in Key /\ dogRun # x
        BY <2>2 DEF EndRequest, ProtectInv, DogLooked, FirstTime, Live, ExecInv, ExecType, DogInv
      <3>3. boundRun' = boundRun /\ boundRun[dogRow] = dogRun /\ (status'[k] # status[k] => k = dogRow)
        BY <1>1, <3>1, <3>2 DEF CasWatchdogTerminal, SetStatus, StoreTypeOK
      <3>4. QED
        BY <1>2, <3>2, <3>3 DEF Undisturbed
    <2>3. QED
      BY <1>6, <2>1, <2>2 DEF WatchdogStep, BeginScan, Scan, Inspect, EndRequest, EndScan
  <1>7. QED
    BY <1>3, <1>4, <1>5, <1>6

\* A callback of the run that arrives late.
LEMMA LateIsHarmless ==
  ASSUME ProtectInv, NEW x \in Run, FirstTime(x), LateCallback(x), Kept
  PROVE  SaysNoMore(x)' /\ RowFits(x)'
  <1>1. PICK m \in sent[x] : Handle(x, m)
    BY DEF LateCallback
  <1>2. SaysNoMore(x) /\ RowFits(x)
    BY DEF ProtectInv, FirstTimesFit
  <1>3. runReq[x] \in Key /\ StoreTypeOK /\ x # None
    BY RowAssumption DEF FirstTime, Live, ProtectInv, ExecInv, ExecType, RunsInv, StoreInv
  <1>4. UNCHANGED <<runReq, stage, report, sent>>
    BY DEF LateCallback, runVars
  <1> DEFINE k == runReq[x]
  <1>5. /\ boundRun' = boundRun
        /\ \/ status'[k] = status[k]
           \/ m.event = "claim" /\ status[k] = "dispatched" /\ status'[k] = "claimed"
           \/ m.event = "started" /\ status[k] = "claimed" /\ status'[k] = "started"
           \/ m.event \in {"abort", "terminal"} /\ status'[k] = m.outcome
    BY <1>1, <1>3, HandleOnRow
  <1>6. authorizedAt[k] => authorizedAt'[k]
    BY <1>3 DEF Kept
  <1>7. SaysNoMore(x)'
    BY <1>2, <1>4 DEF SaysNoMore
  <1>8. RowFits(x)'
    <2>1. stage[x] = "boot" /\ boundRun[k] = x => status'[k] \in {"dispatched", "claimed", "superseded"}
      BY <1>1, <1>2, <1>5 DEF SaysNoMore, RowFits
    <2>2. stage[x] = "claimed" => status'[k] \in {"claimed", "superseded"}
      BY <1>1, <1>2, <1>5 DEF SaysNoMore, RowFits
    <2>3. stage[x] \in {"authorized", "fenced", "checked"} => status'[k] \in {"claimed", "started", "superseded"}
      BY <1>1, <1>2, <1>5 DEF SaysNoMore, RowFits
    <2>4. stage[x] = "started" => status'[k] \in {"started", "superseded"}
      BY <1>1, <1>2, <1>5 DEF SaysNoMore, RowFits
    <2>5. stage[x] = "reporting" => status'[k] \in {"started", "superseded", report[x]}
      <3>1. stage[x] = "reporting" => report[x] \in Outcome
        BY DEF ProtectInv, ExecInv, ExecType, StagesInv
      <3>2. QED
        BY <1>1, <1>2, <1>5, <3>1 DEF SaysNoMore, RowFits, Outcome
    <2>6. QED
      BY <1>2, <1>4, <1>5, <1>6, <2>1, <2>2, <2>3, <2>4, <2>5 DEF RowFits
  <1>9. QED
    BY <1>7, <1>8

\* The run's own calls: an answer finds or leaves the request where the run goes on from,
\* a refusal and a silence lead to the end.
LEMMA OwnCallFits ==
  ASSUME ProtectInv, NEW x \in Run, FirstTime(x), Calls(x), Kept
  PROVE  SaysNoMore(x)' /\ RowFits(x)'
  <1>1. SaysNoMore(x) /\ RowFits(x)
    BY DEF ProtectInv, FirstTimesFit
  <1>2. runReq[x] \in Key /\ StoreTypeOK /\ x # None
    BY RowAssumption DEF FirstTime, Live, ProtectInv, ExecInv, ExecType, RunsInv, StoreInv
  <1>3. stage \in [Run -> Stage] /\ sent \in [Run -> SUBSET Callback]
    BY DEF ProtectInv, ExecInv, ExecType, StagesInv, SentInv
  <1> DEFINE k == runReq[x]
  <1>4. ASSUME stage'[x] \in {"exit", "failing", "abort_null", "abort_both", "abort_check"}
        PROVE  SaysNoMore(x)' /\ RowFits(x)'
    BY <1>4 DEF SaysNoMore, RowFits
  \* With no answer the run stays where it was.
  <1>5. ASSUME NEW m, UNCHANGED <<stage, report, storeVars, runReq>>, sent'[x] \subseteq sent[x] \cup {m},
               stage[x] = "boot" => m.event = "claim",
               stage[x] \in {"claimed", "authorized", "fenced"} => m.event \in {"claim", "authorized"},
               stage[x] \in {"checked", "started"} => m.event \in {"claim", "authorized", "started"},
               stage[x] = "reporting" => m.event = "terminal" /\ m.outcome = report[x]
        PROVE  SaysNoMore(x)' /\ RowFits(x)'
    BY <1>1, <1>5 DEF SaysNoMore, RowFits, storeVars, requestVars
  <1>6. ASSUME NEW m, NEW ok, NEW refused, NEW verdict, NEW lost,
               CallTo(x, m, ok, refused, verdict, lost),
               {refused, lost} \subseteq {"exit", "failing", "abort_null", "abort_both", "abort_check"},
               stage[x] = "boot" => m.event = "claim",
               stage[x] \in {"claimed", "authorized", "fenced"} => m.event \in {"claim", "authorized"},
               stage[x] \in {"checked", "started"} => m.event \in {"claim", "authorized", "started"},
               stage[x] = "reporting" => m.event = "terminal" /\ m.outcome = report[x],
               ~(SaysNoMore(x)' /\ RowFits(x)')
        PROVE  /\ Accepts(x, m) /\ Handle(x, m) /\ stage'[x] = ok /\ runReq' = runReq
               /\ sent'[x] \subseteq sent[x] \cup {m} /\ boundRun' = boundRun
    <2>1. sent'[x] \subseteq sent[x] \cup {m} /\ UNCHANGED runReq
      BY <1>3, <1>6 DEF CallTo, runVars
    <2>2. CASE Accepts(x, m) /\ Handle(x, m) /\ Advance(x, ok)
      BY <1>2, <1>3, <2>1, <2>2, HandleOnRow DEF Advance
    <2>3. CASE Advance(x, refused) \/ Advance(x, lost)
      BY <1>3, <1>4, <1>6, <2>3 DEF Advance
    <2>4. CASE UNCHANGED <<stage, report, signedBy, storeVars>>
      BY <1>5, <1>6, <2>1, <2>4
    <2>5. QED
      BY <1>6, <2>2, <2>3, <2>4 DEF CallTo
  <1>7. SUFFICES ASSUME ~(SaysNoMore(x)' /\ RowFits(x)') PROVE FALSE
    OBVIOUS
  <1>8. CASE CallClaim(x)
    <2> DEFINE m == Plain("claim")
    <2>1. stage[x] = "boot" /\ CallTo(x, m, "claimed", "exit", "cancelled", "exit")
      BY <1>8 DEF CallClaim, Call
    <2>2. m.event = "claim"
      BY DEF Plain, CallbackOf
    <2> HIDE DEF m
    <2>3. /\ Accepts(x, m) /\ Handle(x, m) /\ stage'[x] = "claimed" /\ runReq' = runReq
          /\ sent'[x] \subseteq sent[x] \cup {m} /\ boundRun' = boundRun
      BY <1>6, <1>7, <2>1, <2>2
    <2>4. boundRun[k] = x /\ status[k] \in {"dispatched", "claimed", "superseded"}
      BY <1>1, <1>2, <2>1, <2>2, <2>3, AcceptedOnRow DEF RowFits
    <2>5. status'[k] = "claimed"
      BY <1>2, <2>2, <2>3, <2>4, AcceptedOnRow, HandleOnRow DEF Outcome
    <2>6. QED
      BY <1>1, <1>7, <2>1, <2>2, <2>3, <2>5 DEF SaysNoMore, RowFits
  <1>9. CASE CallAuthorized(x)
    <2> DEFINE m == Plain("authorized")
    <2>1. stage[x] = "claimed" /\ CallTo(x, m, "authorized", "abort_null", "cancelled", "abort_null")
      BY <1>9 DEF CallAuthorized, Call
    <2>2. m.event = "authorized"
      BY DEF Plain, CallbackOf
    <2> HIDE DEF m
    <2>3. /\ Accepts(x, m) /\ Handle(x, m) /\ stage'[x] = "authorized" /\ runReq' = runReq
          /\ sent'[x] \subseteq sent[x] \cup {m} /\ boundRun' = boundRun
      BY <1>6, <1>7, <2>1, <2>2
    <2>4. authorizedAt'[k] /\ status'[k] \in {"claimed", "started"}
      BY <1>2, <2>2, <2>3, AcceptedOnRow
    <2>5. QED
      BY <1>1, <1>7, <2>1, <2>2, <2>3, <2>4 DEF SaysNoMore, RowFits
  <1>10. CASE CallFence(x)
    <2> DEFINE m == Plain("claim")
    <2>1. stage[x] = "authorized" /\ CallTo(x, m, "fenced", "abort_null", "cancelled", "abort_null")
      BY <1>10 DEF CallFence, Call
    <2>2. m.event = "claim"
      BY DEF Plain, CallbackOf
    <2> HIDE DEF m
    <2>3. /\ Accepts(x, m) /\ Handle(x, m) /\ stage'[x] = "fenced" /\ runReq' = runReq
          /\ sent'[x] \subseteq sent[x] \cup {m} /\ boundRun' = boundRun
      BY <1>6, <1>7, <2>1, <2>2
    <2>4. authorizedAt[k] /\ status[k] \in {"claimed", "started", "superseded"}
      BY <1>1, <2>1 DEF RowFits
    <2>5. authorizedAt'[k] /\ status'[k] = status[k]
      BY <1>2, <2>2, <2>3, <2>4, HandleOnRow DEF Kept
    <2>6. QED
      BY <1>1, <1>7, <2>1, <2>2, <2>3, <2>4, <2>5 DEF SaysNoMore, RowFits
  <1>11. CASE CallStarted(x)
    <2> DEFINE m == Plain("started")
    <2>1. stage[x] = "checked" /\ CallTo(x, m, "started", "abort_both", "cancelled", "abort_both")
      BY <1>11 DEF CallStarted, Call
    <2>2. m.event = "started"
      BY DEF Plain, CallbackOf
    <2> HIDE DEF m
    <2>3. /\ Accepts(x, m) /\ Handle(x, m) /\ stage'[x] = "started" /\ runReq' = runReq
          /\ sent'[x] \subseteq sent[x] \cup {m} /\ boundRun' = boundRun
      BY <1>6, <1>7, <2>1, <2>2
    <2>4. status'[k] = "started"
      BY <1>2, <2>2, <2>3, AcceptedOnRow
    <2>5. QED
      BY <1>1, <1>7, <2>1, <2>2, <2>3, <2>4 DEF SaysNoMore, RowFits
  <1>12. CASE CallTerminal(x)
    <2> DEFINE m == Terminally(report[x], attempt[x])
    <2>1. stage[x] = "reporting" /\ CallTo(x, m, "exit", "failing", "cancelled", "failing")
      BY <1>12 DEF CallTerminal, Call
    <2>2. m.event = "terminal" /\ m.outcome = report[x]
      BY DEF Terminally, CallbackOf
    <2> HIDE DEF m
    <2>3. /\ Accepts(x, m) /\ Handle(x, m) /\ stage'[x] = "exit" /\ runReq' = runReq
          /\ sent'[x] \subseteq sent[x] \cup {m} /\ boundRun' = boundRun
      BY <1>6, <1>7, <2>1, <2>2
    <2>4. QED
      BY <1>4, <1>7, <2>3
  <1>13. CASE CallFailing(x) \/ CallAbort(x)
    <2>1. stage'[x] \in {"exit", "failing", "abort_null", "abort_both", "abort_check"}
      BY <1>3, <1>13 DEF CallFailing, CallAbort, Call, CallTo, Advance
    <2>2. QED
      BY <1>4, <1>7, <2>1
  <1>14. QED
    BY <1>8, <1>9, <1>10, <1>11, <1>12, <1>13 DEF Calls

\* A run's steps that call nobody.
LEMMA OwnMoveFits ==
  ASSUME ProtectInv, NEW x \in Run, Moves(x), FirstTime(x)', Silent(x)
  PROVE  SaysNoMore(x)' /\ RowFits(x)'
  <1>1. UNCHANGED <<sent, runReq, status, boundRun, authorizedAt>>
    BY DEF Silent, storeVars, requestVars
  <1>2. stage \in [Run -> Stage] /\ report \in [Run -> Outcome \cup {"none"}]
    BY DEF ProtectInv, ExecInv, ExecType, StagesInv
  <1>3. CASE RunnerEnds(x)
    BY <1>3 DEF RunnerEnds, EndRun, FirstTime, Live, ProtectInv, ExecInv, ExecType, RunsInv
  <1>4. CASE Rerun(x)
    <2>1. attempt'[x] = attempt[x] + 1 /\ attempt[x] \in 0..MaxReruns
      BY <1>4 DEF Rerun, StartAgain, ProtectInv, ExecInv, ExecType, AttemptInv
    <2>2. QED
      BY <2>1, RunsAssumption DEF FirstTime
  <1>5. ASSUME UNCHANGED runVars PROVE SaysNoMore(x) /\ RowFits(x)
    BY <1>5 DEF FirstTime, Live, runVars, ProtectInv, FirstTimesFit
  <1>6. CASE CreateCheck(x)
    <2>1. stage[x] = "fenced" /\ stage'[x] = "checked" /\ SaysNoMore(x) /\ RowFits(x)
      BY <1>2, <1>5, <1>6 DEF CreateCheck, Advance
    <2>2. QED
      BY <1>1, <2>1 DEF SaysNoMore, RowFits
  <1>7. CASE SignReceipt(x)
    <2>1. stage[x] = "started" /\ stage'[x] = "reporting" /\ SaysNoMore(x) /\ RowFits(x)
      BY <1>2, <1>5, <1>7 DEF SignReceipt, Advance
    <2>2. QED
      BY <1>1, <2>1 DEF SaysNoMore, RowFits
  <1>8. CASE StepFails(x)
    <2>1. stage'[x] \in {"abort_null", "abort_both", "abort_check"}
      BY <1>2, <1>8 DEF StepFails, Advance
    <2>2. QED
      BY <2>1 DEF SaysNoMore, RowFits
  <1>9. QED
    BY <1>3, <1>4, <1>6, <1>7, <1>8 DEF Moves

\* The binding of a run on its first attempt: it has not called back yet.
LEMMA OwnBindFits ==
  ASSUME ProtectInv, NEW x \in Run, FirstTime(x), Bind(x), Kept
  PROVE  SaysNoMore(x)' /\ RowFits(x)'
  <1> DEFINE k == runReq[x]
  <1>1. SaysNoMore(x) /\ RowFits(x)
    BY DEF ProtectInv, FirstTimesFit
  <1>2. k \in Key /\ StoreTypeOK /\ x # None
    BY RowAssumption DEF FirstTime, Live, ProtectInv, ExecInv, ExecType, RunsInv, StoreInv
  <1>3. UNCHANGED <<runReq, stage, report, sent>>
    BY DEF Bind, runVars, runnerVars
  <1>4. ClaimWorkflowRunOrEnqueueOrphan(k, x)
    BY DEF Bind
  <1>5. CASE CanBindRun(k)
    <2>1. status'[k] = "dispatched"
      BY <1>2, <1>4, <1>5 DEF ClaimWorkflowRunOrEnqueueOrphan, SetStatus, StoreTypeOK
    <2>2. stage[x] \in {"boot", "exit"}
      BY <1>2, <1>5 DEF CanBindRun, ProtectInv, ExecInv, Bound, Working, ExecType, StagesInv
    <2>3. QED
      BY <1>1, <1>3, <2>1, <2>2 DEF SaysNoMore, RowFits
  <1>6. CASE ~CanBindRun(k)
    <2>1. UNCHANGED <<status, boundRun, authorizedAt>>
      BY <1>4, <1>6 DEF ClaimWorkflowRunOrEnqueueOrphan
    <2>2. QED
      BY <1>1, <1>3, <2>1 DEF SaysNoMore, RowFits
  <1>7. QED
    BY <1>5, <1>6

\* A run that GitHub has just created is bound to nothing and has said nothing.
LEMMA NewRunFits ==
  ASSUME ProtectInv, NEW x \in Run, NEW k \in Key, Dispatch(k, x)
  PROVE  SaysNoMore(x)' /\ RowFits(x)'
  <1>1. /\ runState[x] = "none" /\ runReq'[x] = k /\ UNCHANGED <<stage, sent, report>>
        /\ UNCHANGED <<status, boundRun, authorizedAt>>
    BY DEF Dispatch, CreateRun, runnerVars, storeVars, requestVars, ProtectInv, ExecInv, ExecType, RunsInv
  <1>2. stage[x] = "boot" /\ sent[x] = {}
    BY <1>1 DEF ProtectInv, ExecInv, ExecType, RunsInv
  <1>3. boundRun[k] # x
    BY <1>1, RowAssumption DEF ProtectInv, BoundRunsExist
  <1>4. QED
    BY <1>1, <1>2, <1>3 DEF SaysNoMore, RowFits

LEMMA ProtectStep == ProtectInv /\ [Next]_vars => ProtectInv'
  <1> SUFFICES ASSUME ProtectInv, [Next]_vars PROVE ProtectInv'
    OBVIOUS
  <1>1. ExecInv' /\ Kept
    BY ExecInvStep, ExecTypeStep, Keeping DEF ProtectInv, ExecInv
  <1>2. BoundRunsExist'
    <2>1. \A y \in Run : runState[y] # "none" => runState'[y] # "none"
      <3>1. ASSUME NEW y \in Run, RunnerStep(y) PROVE UNCHANGED runState \/ RunnerEnds(y) \/ Rerun(y)
        BY <3>1 DEF RunnerStep, CallClaim, CallAuthorized, CallFence, CreateCheck, CallStarted, SignReceipt,
           CallTerminal, CallFailing, StepFails, CallAbort, LateCallback, Call, CallTo, runVars
      <3>2. QED
        BY <3>1 DEF Next, Admit, Dispatch, CreateRun, Bind, Revoke, RunnerEnds, EndRun, Rerun, StartAgain,
           WatchdogStep, BeginScan, Scan, Inspect, EndRequest, EndScan, vars, runVars,
           ProtectInv, ExecInv, ExecType, RunsInv
    <2>2. ASSUME NEW k \in Key, boundRun'[k] # None PROVE runState'[boundRun'[k]] # "none"
      <3>1. CASE boundRun'[k] = boundRun[k]
        <4>1. boundRun[k] \in Run
          BY <2>2, <3>1 DEF ProtectInv, ExecInv, StoreInv, StoreTypeOK
        <4>2. QED
          BY <2>1, <2>2, <3>1, <4>1 DEF ProtectInv, BoundRunsExist
      <3>2. CASE boundRun'[k] # boundRun[k]
        <4>1. PICK x \in Run : Bind(x)
          <5>1. ASSUME NEW x \in Run, NEW m, Handle(x, m) PROVE boundRun' = boundRun
            BY <5>1 DEF Handle, Cas, CasClaimExecutor, AuthorizeReviewRequestWithOutbox, CasMarkStarted,
               CasAbortRequest, CasCommitTerminalWithReceipt, storeVars, requestVars
          <5>2. ASSUME NEW x \in Run, RunnerStep(x) PROVE boundRun' = boundRun
            BY <5>1, <5>2 DEF RunnerStep, CallClaim, CallAuthorized, CallFence, CreateCheck, CallStarted,
               SignReceipt, CallTerminal, CallFailing, StepFails, CallAbort, LateCallback, Call, CallTo,
               RunnerEnds, Rerun, storeVars, requestVars
          <5>3. WatchdogStep => boundRun' = boundRun
            BY DEF WatchdogStep, BeginScan, Scan, Inspect, EndRequest, EndScan, CasWatchdogTerminal,
               storeVars, requestVars
          <5>4. QED
            BY <3>2, <5>2, <5>3 DEF Next, Admit, AdmitReviewRequestWithOutbox, Dispatch, Revoke,
               SupersedeInstallationRequests, Supersede, vars, storeVars, requestVars
        <4>2. boundRun'[k] \in {boundRun[k], x}
          BY <4>1 DEF Bind, ClaimWorkflowRunOrEnqueueOrphan, ProtectInv, ExecInv, StoreInv, StoreTypeOK
        <4>3. runState[x] # "none"
          BY <4>1 DEF Bind
        <4>4. QED
          BY <2>1, <3>2, <4>2, <4>3
      <3>3. QED
        BY <3>1, <3>2
    <2>3. QED
      BY <2>2 DEF BoundRunsExist
  <1>3. DogLooked'
    <2>1. \A y \in Run : runState[y] = "completed" \/ attempt[y] # 0
                         => runState'[y] = "completed" \/ attempt'[y] # 0
      <3>1. ASSUME NEW y \in Run, RunnerStep(y)
            PROVE  UNCHANGED <<runState, attempt>> \/ RunnerEnds(y) \/ Rerun(y)
        BY <3>1 DEF RunnerStep, CallClaim, CallAuthorized, CallFence, CreateCheck, CallStarted, SignReceipt,
           CallTerminal, CallFailing, StepFails, CallAbort, LateCallback, Call, CallTo, runVars
      <3>2. attempt \in [Run -> 0..MaxReruns] /\ runState \in [Run -> {"none", "live", "completed"}]
        BY DEF ProtectInv, ExecInv, ExecType, AttemptInv, RunsInv
      <3>3. TAKE y \in Run
      <3>4. CASE UNCHANGED <<runState, attempt>>
        BY <3>4
      <3>5. ASSUME NEW z \in Run, RunnerEnds(z)
            PROVE  runState[y] = "completed" \/ attempt[y] # 0
                   => runState'[y] = "completed" \/ attempt'[y] # 0
        BY <3>2, <3>5 DEF RunnerEnds, EndRun
      <3>6. ASSUME NEW z \in Run, Rerun(z)
            PROVE  runState[y] = "completed" \/ attempt[y] # 0
                   => runState'[y] = "completed" \/ attempt'[y] # 0
        <4>1. attempt'[z] # 0
          BY <3>2, <3>6, RunsAssumption DEF Rerun, StartAgain
        <4>2. y # z => attempt'[y] = attempt[y] /\ runState'[y] = runState[y]
          BY <3>2, <3>6 DEF Rerun, StartAgain
        <4>3. QED
          BY <4>1, <4>2
      <3>7. ASSUME NEW z \in Run, NEW k \in Key, CreateRun(z, k)
            PROVE  runState[y] = "completed" \/ attempt[y] # 0
                   => runState'[y] = "completed" \/ attempt'[y] # 0
        BY <3>2, <3>7 DEF CreateRun
      <3>8. \/ UNCHANGED <<runState, attempt>>
            \/ \E z \in Run : RunnerEnds(z) \/ Rerun(z)
            \/ \E z \in Run, k \in Key : CreateRun(z, k)
        <4>1. ASSUME WatchdogStep
              PROVE  UNCHANGED <<runState, attempt>>
          BY <4>1 DEF WatchdogStep, BeginScan, Scan, Inspect, EndRequest, EndScan, runVars
        <4>2. ASSUME NEW z \in Run, Bind(z)
              PROVE  UNCHANGED <<runState, attempt>>
          BY <4>2 DEF Bind, runVars
        <4>3. QED
          BY <3>1, <4>1, <4>2 DEF Next, Admit, Dispatch, Revoke, vars, runVars
      <3>9. QED
        BY <3>4, <3>5, <3>6, <3>7, <3>8
    <2>2. CASE UNCHANGED <<dogRow, dogRun>>
      BY <2>1, <2>2 DEF DogLooked, ProtectInv, ExecInv, ExecType, DogInv
    <2>3. ASSUME WatchdogStep, ~UNCHANGED <<dogRow, dogRun>>
          PROVE  dogRow' = None \/ (runState[dogRun'] = "completed" /\ UNCHANGED runState)
      BY <2>3 DEF WatchdogStep, BeginScan, Scan, Inspect, EndRequest, EndScan, runVars
    <2>4. CASE ~UNCHANGED <<dogRow, dogRun>>
      <3>1. WatchdogStep
        BY <2>4 DEF Next, Admit, Dispatch, Bind, Revoke, watchdogVars, vars
      <3>2. QED
        BY <2>3, <2>4, <3>1 DEF DogLooked
    <2>5. QED
      BY <2>2, <2>4
  <1>4. ASSUME NEW x \in Run, FirstTime(x)' PROVE SaysNoMore(x)' /\ RowFits(x)'
    <2>1. CASE \E k \in Key : Dispatch(k, x)
      BY <2>1, NewRunFits
    <2>2. CASE Moves(x) /\ UNCHANGED watchdogVars
      <3>1. Silent(x)
        BY <2>2, MovesAreSilent DEF ProtectInv, ExecInv
      <3>2. QED
        BY <1>4, <2>2, <3>1, OwnMoveFits
    <2>3. CASE Calls(x) \/ LateCallback(x) \/ Bind(x)
      <3>1. UNCHANGED runVars
        BY <2>3 DEF Calls, CallClaim, CallAuthorized, CallFence, CallStarted, CallTerminal, CallFailing,
           CallAbort, Call, CallTo, LateCallback, Bind
      <3>2. FirstTime(x)
        BY <1>4, <3>1 DEF FirstTime, Live, runVars
      <3>3. QED
        BY <1>1, <2>3, <3>2, OwnCallFits, LateIsHarmless, OwnBindFits
    \* Everybody else.
    <2>4. ASSUME FirstTime(x), Undisturbed(x), runReq'[x] = runReq[x], stage'[x] = stage[x],
                 report'[x] = report[x], sent'[x] = sent[x]
          PROVE  SaysNoMore(x)' /\ RowFits(x)'
      <3>1. boundRun[runReq[x]] # None => boundRun'[runReq[x]] = boundRun[runReq[x]]
        BY <1>1, <2>4 DEF Kept, FirstTime, Live, ProtectInv, ExecInv, ExecType, RunsInv
      <3>2. QED
        BY <2>4, <3>1, StaysFit DEF ProtectInv, FirstTimesFit
    <2>5. CASE \/ \E k \in Key : Admit(k)
               \/ \E y \in Run \ {x} : Bind(y)
               \/ Revoke
               \/ WatchdogStep /\ UNCHANGED runnerVars
      <3>1. UNCHANGED <<runState, runReq, attempt, stage, report, sent>>
        BY <2>5 DEF Admit, Bind, Revoke, WatchdogStep, BeginScan, Scan, Inspect, EndRequest, EndScan,
           runVars, runnerVars
      <3>2. FirstTime(x)
        BY <1>4, <3>1 DEF FirstTime, Live
      <3>3. QED
        BY <1>1, <2>4, <2>5, <3>1, <3>2, OthersDoNotDisturb
    <2>6. ASSUME NEW y \in Run \ {x}, RunnerStep(y), UNCHANGED watchdogVars
          PROVE  SaysNoMore(x)' /\ RowFits(x)'
      <3>1. /\ runReq' = runReq /\ runState'[x] = runState[x] /\ attempt'[x] = attempt[x]
            /\ stage'[x] = stage[x] /\ report'[x] = report[x] /\ sent'[x] = sent[x]
        <4>1. CASE Calls(y)
          BY <2>6, <4>1 DEF Calls, CallClaim, CallAuthorized, CallFence, CallStarted, CallTerminal,
             CallFailing, CallAbort, Call, CallTo, Advance, Decide, runVars,
             ProtectInv, ExecInv, ExecType, StagesInv, SentInv
        <4>2. CASE Moves(y)
          BY <2>6, <4>2 DEF Moves, CreateCheck, SignReceipt, StepFails, RunnerEnds, Rerun, EndRun, StartAgain,
             Advance, Decide, runVars, runnerVars, ProtectInv, ExecInv, ExecType, StagesInv, SentInv, RunsInv,
             AttemptInv
        <4>3. CASE LateCallback(y)
          BY <4>3 DEF LateCallback, runVars
        <4>4. QED
          BY <2>6, <4>1, <4>2, <4>3 DEF RunnerStep, Calls, Moves
      <3>2. FirstTime(x)
        BY <1>4, <3>1 DEF FirstTime, Live
      <3>3. runReq[y] \in Key /\ \E m : Handle(y, m) \/ UNCHANGED storeVars
        <4>1. CASE Calls(y)
          <5>1. PICK m, ok, refused, verdict, lost : IsCall(y, m, ok, refused, verdict, lost)
            BY <2>6, <4>1, CallsAreCalls DEF ProtectInv, ExecInv
          <5>2. QED
            BY <2>6, <5>1 DEF IsCall, CallTo, ProtectInv, ExecInv, ExecType, RunsInv
        <4>2. CASE Moves(y)
          <5>1. Silent(y)
            BY <2>6, <4>2, MovesAreSilent DEF ProtectInv, ExecInv
          <5>2. QED
            BY <2>6, <5>1 DEF Silent, ProtectInv, ExecInv, ExecType, RunsInv
        <4>3. CASE LateCallback(y)
          <5>1. PICK m \in sent[y] : Handle(y, m)
            BY <4>3 DEF LateCallback
          <5>2. runState[y] # "none"
            BY <2>6, <5>1 DEF ProtectInv, ExecInv, ExecType, RunsInv
          <5>3. QED
            BY <2>6, <5>1, <5>2 DEF ProtectInv, ExecInv, ExecType, RunsInv
        <4>4. QED
          BY <2>6, <4>1, <4>2, <4>3 DEF RunnerStep, Calls, Moves
      <3>4. Undisturbed(x)
        BY <1>1, <3>2, <3>3, HandledElsewhere
      <3>5. QED
        BY <2>4, <3>1, <3>2, <3>4
    <2>7. ASSUME UNCHANGED <<storeVars, runState, attempt>>, runReq'[x] = runReq[x], stage'[x] = stage[x],
                 report'[x] = report[x], sent'[x] = sent[x]
          PROVE  SaysNoMore(x)' /\ RowFits(x)'
      <3>1. FirstTime(x)
        BY <1>4, <2>7 DEF FirstTime, Live
      <3>2. Undisturbed(x)
        BY <2>7 DEF Undisturbed, storeVars, requestVars
      <3>3. QED
        BY <2>4, <2>7, <3>1, <3>2
    <2>8. CASE \E k \in Key, y \in Run \ {x} : Dispatch(k, y)
      <3>1. PICK k \in Key, y \in Run \ {x} : Dispatch(k, y)
        BY <2>8
      <3>2. /\ runReq'[x] = runReq[x] /\ runState'[x] = runState[x]
            /\ UNCHANGED <<storeVars, attempt, stage, report, sent>>
        BY <3>1 DEF Dispatch, CreateRun, runnerVars, ProtectInv, ExecInv, ExecType, RunsInv
      <3>3. FirstTime(x)
        BY <1>4, <3>2 DEF FirstTime, Live
      <3>4. Undisturbed(x)
        BY <3>2 DEF Undisturbed, storeVars, requestVars
      <3>5. QED
        BY <2>4, <3>2, <3>3, <3>4
    <2>9. CASE UNCHANGED vars
      BY <2>7, <2>9 DEF vars, runVars, runnerVars
    <2>10. QED
      BY <2>1, <2>2, <2>3, <2>5, <2>6, <2>8, <2>9 DEF Next, RunnerStep, Calls, Moves
  <1>5. QED
    BY <1>1, <1>2, <1>3, <1>4 DEF ProtectInv, FirstTimesFit

LEMMA ProtectInit == Init => ProtectInv
  <1> SUFFICES ASSUME Init PROVE ProtectInv
    OBVIOUS
  <1>1. ExecInv
    BY ExecInvInit
  <1>2. FirstTimesFit
    BY DEF Init, RunsInit, FirstTimesFit, FirstTime, Live
  <1>3. DogLooked /\ BoundRunsExist
    BY DEF Init, WatchdogInit, StoreInit, NoRequests, DogLooked, BoundRunsExist
  <1>4. QED
    BY <1>1, <1>2, <1>3 DEF ProtectInv

\* On its first attempt a run finds its request as it left it, superseded, or with its own
\* report, however many callbacks are lost, repeated or late and whenever the watchdog looks:
\* what ends a request names its run, and neither the watchdog nor a callback that names this
\* one has anything to say before the run itself ends (casWatchdogTerminal, handleCallback).
THEOREM WorkIsNotInterrupted == Spec => []WorkIsProtected
  <1>1. ProtectInv => WorkIsProtected
    BY DEF ProtectInv, FirstTimesFit, FirstTime, RowFits, WorkIsProtected
  <1>2. QED
    BY <1>1, ProtectInit, ProtectStep, PTL DEF Spec

=============================================================================
