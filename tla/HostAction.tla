------------------------------ MODULE HostAction ------------------------------
(***************************************************************************)
(* A worker asks for another role, and the host's owner grants or denies it *)
(* under an idempotency key (decideHostActionRoleAdmission in               *)
(* worker-host-actions.mjs).  A call runs in one workspace transaction: it  *)
(* writes the decision into the job, then a record of the key beside it.    *)
(* It may die in between and be made again, with that key or another; the   *)
(* job is also updated by its runner, which takes the lock of the job only. *)
(***************************************************************************)
EXTENDS Naturals, FiniteSets

CONSTANTS
  Absent,          \* no decision, no caller
  Caller,          \* calls of the owner that may run at once
  Key,             \* idempotency keys
  MaxCalls,        \* bound: calls
  MaxCallerDeaths  \* bound: calls that die

Verdict == {"grant", "deny"}
Decision == [verdict : Verdict, key : Key]

ASSUME DecisionAssumption ==
  /\ IsFiniteSet(Caller) /\ IsFiniteSet(Key) /\ Key # {} /\ Absent \notin Caller \cup Decision
  /\ MaxCalls \in Nat /\ MaxCallerDeaths \in Nat

VARIABLES
  request,    \* the request in the job: "none", "asked", or "drifted" when the job has
              \* moved on to another attempt, session or context
  decision,   \* the decision in the job, with its grant when it is one
  sidecar,    \* the record of each key
  lock,       \* the workspace transaction
  call,       \* what each caller is doing, with its arguments
  answers,    \* what callers have been told
  calls, callerDeaths

decisionVars == <<request, decision, sidecar, lock, call, answers, calls, callerDeaths>>

Call == [at : {"idle", "read", "update", "record", "return"}, verdict : Verdict, key : Key]

DecisionTypeOK ==
  /\ request \in {"none", "asked", "drifted"}
  /\ decision \in Decision \cup {Absent}
  /\ sidecar \in [Key -> Decision \cup {Absent}]
  /\ lock \in Caller \cup {Absent}
  /\ call \in [Caller -> Call]
  /\ answers \subseteq Decision
  /\ calls \in 0..MaxCalls /\ callerDeaths \in 0..MaxCallerDeaths

DecisionInit ==
  /\ request = "none" /\ decision = Absent
  /\ sidecar = [k \in Key |-> Absent] /\ lock = Absent
  /\ call = [c \in Caller |-> [at |-> "idle", verdict |-> "deny", key |-> CHOOSE k \in Key : TRUE]]
  /\ answers = {} /\ calls = 0 /\ callerDeaths = 0

Go(c, s) == call' = [call EXCEPT ![c].at = s]
Wanted(c) == [verdict |-> call[c].verdict, key |-> call[c].key]
Done(c)  == Go(c, "idle") /\ lock' = Absent

-----------------------------------------------------------------------------
\* mintHostActionRequest at the end of the provider's run.
Mint ==
  /\ request = "none" /\ request' = "asked"
  /\ UNCHANGED <<decision, sidecar, lock, call, answers, calls, callerDeaths>>

\* The runner starts another attempt, or the session or context of the job changes.
Drift ==
  /\ request = "asked" /\ request' = "drifted"
  /\ UNCHANGED <<decision, sidecar, lock, call, answers, calls, callerDeaths>>

Ask(c, v, k) ==
  /\ call[c].at = "idle" /\ calls < MaxCalls /\ calls' = calls + 1
  /\ lock = Absent /\ lock' = c
  /\ call' = [call EXCEPT ![c] = [at |-> "read", verdict |-> v, key |-> k]]
  /\ UNCHANGED <<request, decision, sidecar, answers, callerDeaths>>

\* Mutant of ReadJob: a decision in the job is looked at without its key.
ReadAnyKey(c) ==
  /\ call[c].at = "read"
  /\ IF request # "asked" THEN Done(c)
     ELSE /\ UNCHANGED lock
          /\ Go(c, IF decision = Absent THEN "update" ELSE "record")
  /\ UNCHANGED <<request, decision, sidecar, answers, calls, callerDeaths>>

\* The request is the one in the job and still bound to it; the record of the key,
\* then the decision in the job, tell whether this is a replay or a conflict.
ReadJob(c) ==
  /\ call[c].at = "read"
  /\ LET k == call[c].key
     IN IF request # "asked" \/ sidecar[k] \notin {Absent, Wanted(c)} THEN Done(c)
        ELSE IF sidecar[k] # Absent
               THEN IF decision = sidecar[k] THEN Go(c, "return") /\ UNCHANGED lock ELSE Done(c)
        ELSE IF decision = Absent THEN Go(c, "update") /\ UNCHANGED lock
        ELSE IF decision = Wanted(c) THEN Go(c, "record") /\ UNCHANGED lock
        ELSE Done(c)
  /\ UNCHANGED <<request, decision, sidecar, answers, calls, callerDeaths>>

\* updateJob: the mutator checks the job once more.
UpdateJob(c) ==
  /\ call[c].at = "update"
  /\ IF request = "asked" /\ decision = Absent
       THEN decision' = Wanted(c) /\ Go(c, "record") /\ UNCHANGED lock
       ELSE Done(c) /\ UNCHANGED decision
  /\ UNCHANGED <<request, sidecar, answers, calls, callerDeaths>>

\* writeIdempotency, for a new decision and for one whose record is missing.
WriteRecord(c) ==
  /\ call[c].at = "record"
  /\ sidecar' = [sidecar EXCEPT ![call[c].key] = Wanted(c)]
  /\ Go(c, "return")
  /\ UNCHANGED <<request, decision, lock, answers, calls, callerDeaths>>

Answer(c) ==
  /\ call[c].at = "return"
  /\ answers' = answers \cup {Wanted(c)}
  /\ Done(c)
  /\ UNCHANGED <<request, decision, sidecar, calls, callerDeaths>>

\* The lock of a dead caller is reclaimed.
CallerDies(c) ==
  /\ call[c].at # "idle" /\ callerDeaths < MaxCallerDeaths
  /\ callerDeaths' = callerDeaths + 1
  /\ Done(c)
  /\ UNCHANGED <<request, decision, sidecar, answers, calls>>

DecisionNext ==
  \/ Mint \/ Drift
  \/ \E c \in Caller :
       \/ \E v \in Verdict, k \in Key : Ask(c, v, k)
       \/ ReadJob(c) \/ UpdateJob(c) \/ WriteRecord(c) \/ Answer(c) \/ CallerDies(c)

DecisionSpec == DecisionInit /\ [][DecisionNext]_decisionVars

-----------------------------------------------------------------------------
\* There is one decision: what any caller was told, and what any record says, is
\* what the job says, whoever died between the job and the record.
OneDecision ==
  /\ answers \subseteq {decision}
  /\ \A k \in Key : sidecar[k] # Absent => sidecar[k] = decision /\ decision.key = k
===============================================================================
