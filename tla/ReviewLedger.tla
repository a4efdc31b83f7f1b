---------------------------- MODULE ReviewLedger ----------------------------
(***************************************************************************)
(* What the control plane promises about reviews, without dispatching,     *)
(* callbacks or tables: requests are admitted in an order, each is given   *)
(* to one executor at most, the newest authorized request of a pull        *)
(* request shuts out the older ones, and a request ends once, with a       *)
(* report of its own or without.                                           *)
(***************************************************************************)
EXTENDS Integers

CONSTANTS
  Key,     \* requests
  Run,     \* executors
  PullOf,  \* the pull request of each request
  None

VARIABLES
  rank,        \* the order of admission, 0 before it
  executor,    \* the run that executes the request
  authorized,  \* the requests whose executor was authorized
  verdict,     \* "open", or how the request ended
  reported     \* the requests that ended with a signed report

ledgerVars == <<rank, executor, authorized, verdict, reported>>

Init == /\ rank = [k \in Key |-> 0]
        /\ executor = [k \in Key |-> None]
        /\ authorized = {}
        /\ verdict = [k \in Key |-> "open"]
        /\ reported = {}

Before(o, k) == PullOf[o] = PullOf[k] /\ rank[o] # 0 /\ rank[o] < rank[k]

Admit(k) ==
  /\ rank[k] = 0
  /\ rank' = [rank EXCEPT ![k] = rank'[k]]
  /\ rank'[k] \in Nat /\ \A o \in Key : rank[o] < rank'[k]
  /\ UNCHANGED <<executor, authorized, verdict, reported>>

\* The executor is new, and so is the assignment.
Assign(k, x) ==
  /\ rank[k] # 0 /\ verdict[k] = "open" /\ executor[k] = None
  /\ \A o \in Key : executor[o] # x
  /\ executor' = [executor EXCEPT ![k] = x]
  /\ UNCHANGED <<rank, authorized, verdict, reported>>

\* No newer request of the pull request was authorized before; the older ones
\* that are still open end here.
Authorize(k) ==
  /\ verdict[k] = "open" /\ executor[k] # None /\ k \notin authorized
  /\ \A o \in authorized : ~Before(k, o)
  /\ authorized' = authorized \cup {k}
  /\ verdict' = [o \in Key |-> IF Before(o, k) /\ verdict[o] = "open"
                                 THEN "superseded" ELSE verdict[o]]
  /\ UNCHANGED <<rank, executor, reported>>

\* The end of a review with a signed receipt.
Report(k, s) ==
  /\ k \in authorized /\ verdict[k] = "open"
  /\ verdict' = [verdict EXCEPT ![k] = s]
  /\ reported' = reported \cup {k}
  /\ UNCHANGED <<rank, executor, authorized>>

\* The end without one: never as "completed".
GiveUp(k, s) ==
  /\ executor[k] # None /\ verdict[k] = "open"
  /\ s \in {"failed", "cancelled"}
  /\ verdict' = [verdict EXCEPT ![k] = s]
  /\ UNCHANGED <<rank, executor, authorized, reported>>

\* Installation events end any open requests.
Drop(S) ==
  /\ \A k \in S : rank[k] # 0 /\ verdict[k] = "open"
  /\ verdict' = [k \in Key |-> IF k \in S THEN "superseded" ELSE verdict[k]]
  /\ UNCHANGED <<rank, executor, authorized, reported>>

Next ==
  \/ \E k \in Key : Admit(k) \/ Authorize(k)
  \/ \E k \in Key, x \in Run : Assign(k, x)
  \/ \E k \in Key, s \in {"completed", "failed", "cancelled"} : Report(k, s) \/ GiveUp(k, s)
  \/ \E S \in SUBSET Key : Drop(S)

Spec == Init /\ [][Next]_ledgerVars
=============================================================================
