--------------------------- MODULE DispatchSystem ---------------------------
(***************************************************************************)
(* The outbox invocations with everything else that writes the database.   *)
(* The others are the statements themselves: a request may be admitted,    *)
(* called back, superseded or ended whenever the SQL condition of the      *)
(* statement allows, whatever handler or runner runs it.                   *)
(***************************************************************************)
EXTENDS ReviewOutbox

CONSTANTS
  MaxEpoch,   \* bound: epochs the operator goes through
  InstStates  \* bound: the states the installation moves between

ASSUME SystemAssumption == /\ MaxEpoch \in Nat \ {0}
                           /\ InstStates \subseteq {"active", "suspended"}

vars == <<storeVars, runVars, outboxVars>>

Init == StoreInit /\ RunsInit /\ OutboxInit

-----------------------------------------------------------------------------
(* Everybody else.                                                         *)

Callbacks(k) ==
  \E x \in Run :
     \/ CasClaimExecutor(k, x)
     \/ AuthorizeReviewRequestWithOutbox(k, x)
     \/ CasMarkStarted(k, x)
     \/ \E c \in BOOLEAN, s \in {"failed", "cancelled"} : CasAbortRequest(k, x, c, s)
     \/ \E s \in Outcome : CasCommitTerminalWithReceipt(k, x, s)
     \/ \E s \in {"failed", "cancelled"} : CasWatchdogTerminal(k, x, s)

Admissions(k) == AdmitReviewRequestWithOutbox(k)

Lifecycle ==
  \/ SupersedeInstallationRequests
  \/ \E r \in Repo : SupersedeRepositoryRequests(r)
  \/ \E st \in InstStates :
        instState # st /\ WriteInstallation(st, selection, instRepos)

\* The operator's cutover: the gate is paused under a new epoch, and opened
\* again under another one when no GitHub call that began before the pause can
\* still be on its way (the timeout budget of the cutover procedure).
NoCallInFlight == \A w \in Owner : wpc[w] # "post"

Pause  == epoch < MaxEpoch /\ ~paused /\ SetGate(TRUE)
Reopen == epoch < MaxEpoch /\ paused /\ NoCallInFlight /\ SetGate(FALSE)

Others ==
  /\ \/ \E k \in Key : Callbacks(k) \/ Admissions(k)
     \/ Lifecycle
     \/ Pause \/ Reopen
     \/ \E j \in Job : ExpireLease(j)
  /\ UNCHANGED <<runVars, outboxVars>>

RunEnds(x) == EndRun(x) /\ UNCHANGED <<storeVars, outboxVars>>

Next == \/ \E w \in Owner : OutboxStep(w)
        \/ Others
        \/ \E x \in Run : RunEnds(x)

Spec == Init /\ [][Next]_vars

-----------------------------------------------------------------------------
\* A request that waits for a run is never forgotten: its dispatch job is there
\* and was not completed, whichever invocations raced for it or failed.
NoLostDispatch ==
  \A k \in Key : CanBindRun(k) => jobStatus[k] \in {"pending", "leased"}

\* Two invocations may dispatch the same request when a lease runs out.  Of the
\* runs GitHub created, every one is bound to its request, or has a cancel job,
\* or is still in the hands of an invocation; only a fault (a lost answer, a
\* failed write, a killed invocation) can leave one behind, and one at most.
Untracked == {x \in Run : /\ runState[x] # "none"
                          /\ x \notin RunsOf(Key)
                          /\ jobStatus[x] = "absent"
                          /\ \A w \in Owner : curRun[w] # x}

RunsAreTracked == Cardinality(Untracked) <= faults

\* An invocation whose lease was taken over changes nothing of the job any
\* more: a lease that has not run out is ended by its holder alone, at the end
\* of the holder's work on the job.
LeaseIsExclusive ==
  [][\A j \in Job :
       jobStatus[j] = "leased" /\ ~leaseExpired[j] /\ jobStatus'[j] # "leased"
         => LET w == leaseOwner[j]
            IN curJob[w] = j /\ wpc[w] \in {"finish", "retry", "reject"} /\ wpc'[w] = "work"]_vars

\* Cutover: when the gate is open, every GitHub call is made by an invocation
\* that began under the present epoch, so that none still uses what was
\* configured before the pause.
CutoverFence ==
  \A w \in Owner : wpc[w] = "post" /\ ~paused => wEpoch[w] = epoch

-----------------------------------------------------------------------------
(* Fairness: that of the invocations; the operator opens a paused gate      *)
(* again; leases run out.                                                   *)

Fairness == /\ \A w \in Owner : WorkerFairness(w)
            /\ WF_storeVars(Reopen)
            /\ \A j \in Job : WF_storeVars(ExpireLease(j))

FairSpec == Spec /\ Fairness

\* A request that waits for a run gets one, or is ended some other way.
DispatchHappens == \A k \in Key : CanBindRun(k) ~> ~CanBindRun(k)

\* The run of a superseded request is cancelled at GitHub, or ends.
SupersededRunStops ==
  \A k \in Key, x \in Run :
    status[k] = "superseded" /\ boundRun[k] = x
      ~> cancelAsked[x] \/ runState[x] = "completed"

\* A request whose repository lost its authorization is stopped by repair,
\* unless the authorization comes back or the request ends before.
RevokedRequestStops ==
  \A k \in Key :
    status[k] \in Supersedable /\ ~RepoAuthorized(KeyRepo(k))
      ~> status[k] \in Terminal \/ RepoAuthorized(KeyRepo(k))

-----------------------------------------------------------------------------
(* What the repository says and the code does otherwise.                   *)

\* outbox.mjs 229-230, when the run could not be bound: "Keep the dispatch job
\* leased until expiry so a later attempt can reconcile by first-claim fencing".
LeaseKeptAfterLostBinding ==
  [][\A w \in Owner :
       /\ wpc[w] = "retry" /\ curRun[w] # None
       /\ HoldsLease(curJob[w], w) /\ ~leaseExpired[curJob[w]]
       => jobStatus'[curJob[w]] = "leased"]_vars
=============================================================================
