--------------------------- MODULE ReviewWatchdog ---------------------------
(***************************************************************************)
(* processWorkflowWatchdog (outbox.mjs), run by the cron: it lists the     *)
(* active requests nothing has touched for 15 minutes, asks GitHub for the *)
(* state of the run of each, and ends the requests whose run is completed. *)
(* Between the answer and the update the request may have moved on.        *)
(***************************************************************************)
EXTENDS WorkflowRuns

CONSTANT WatchdogBatch   \* WATCHDOG_BATCH_SIZE

ASSUME WatchdogAssumption == WatchdogBatch \in Nat \ {0}

VARIABLES
  dogRows,   \* listed requests not looked at yet
  dogEpoch,  \* the epoch the scan began under, 0 between scans
  dogRow,    \* the request whose run is completed, or None
  dogRun     \* the run its row named when it was listed

watchdogVars == <<dogRows, dogEpoch, dogRow, dogRun>>

WatchdogTypeOK == /\ dogRows \in SUBSET (Key \X Run)
                  /\ dogEpoch \in Nat
                  /\ dogRow \in Key \cup {None}
                  /\ dogRun \in Run \cup {None}

WatchdogInit == dogRows = {} /\ dogEpoch = 0 /\ dogRow = None /\ dogRun = None

\* The query's ORDER BY request_id LIMIT.
Listed(old) == {k \in old : Cardinality({o \in old : reqId[o] < reqId[k]}) < WatchdogBatch}

\* Of the candidates, some are old enough.
Scan(old) ==
  /\ dogEpoch = 0 /\ ~paused
  /\ dogEpoch' = epoch
  /\ dogRows' = {<<k, boundRun[k]>> : k \in Listed(old)}
  /\ UNCHANGED <<dogRow, dogRun, storeVars, runVars>>

Stale == {k \in Key : StaleCandidate(k)}

BeginScan == \E old \in SUBSET Stale \ {{}} : Scan(old)

\* Mutant of Inspect: the state of the run is not looked at.
InspectBlindly(k, x) ==
  /\ <<k, x>> \in dogRows /\ dogRow = None /\ GateOpen(dogEpoch)
  /\ dogRows' = dogRows \ {<<k, x>>}
  /\ dogRow' = k /\ dogRun' = x
  /\ UNCHANGED <<dogEpoch, storeVars, runVars>>

\* The gate once more, then fetchWorkflowRun: a completed run is acted on, a
\* live one is left alone, and so is one GitHub gives no usable answer for.
Inspect(k, x) ==
  /\ <<k, x>> \in dogRows /\ dogRow = None /\ GateOpen(dogEpoch)
  /\ dogRows' = dogRows \ {<<k, x>>}
  /\ \/ runState[x] = "completed" /\ dogRow' = k /\ dogRun' = x
     \/ UNCHANGED <<dogRow, dogRun>>
  /\ UNCHANGED <<dogEpoch, storeVars, runVars>>

EndRequest ==
  /\ dogRow # None
  /\ \/ \E s \in {"failed", "cancelled"} : CasWatchdogTerminal(dogRow, dogRun, s)
     \/ ~(StaleCandidate(dogRow) /\ boundRun[dogRow] = dogRun) /\ UNCHANGED storeVars
  /\ dogRow' = None /\ dogRun' = None
  /\ UNCHANGED <<dogRows, dogEpoch, runVars>>

\* The list is done, the gate has moved, or the platform ends the invocation.
EndScan ==
  /\ dogEpoch # 0
  /\ dogRows' = {} /\ dogEpoch' = 0 /\ dogRow' = None /\ dogRun' = None
  /\ UNCHANGED <<storeVars, runVars>>

WatchdogStep == BeginScan \/ (\E k \in Key, x \in Run : Inspect(k, x)) \/ EndRequest \/ EndScan

\* The cron starts scans for ever, each after every request that nobody touches
\* has become old, and neither GitHub nor the platform fails each time.  GitHub
\* must answer for every run: a scan lists the lowest request ids first, so that
\* WatchdogBatch requests whose runs GitHub no longer shows would keep it from
\* all the others.
dogVars == <<storeVars, runVars, watchdogVars>>

WatchdogFairness ==
  /\ SF_dogVars(Stale # {} /\ Scan(Stale))
  /\ \A k \in Key, x \in Run : SF_dogVars(Inspect(k, x) /\ dogRow' = k)
  /\ SF_dogVars(EndRequest)
  /\ WF_dogVars(EndScan)
=============================================================================
