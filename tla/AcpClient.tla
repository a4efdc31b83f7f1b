------------------------------ MODULE AcpClient ------------------------------
(***************************************************************************)
(* The JSON-RPC client that talks to Grok over its pipes (acp-client.mjs).  *)
(* A request id is reserved, recorded as in flight by the caller, and only  *)
(* then written.  Grok's output arrives in batches of frames; a batch is    *)
(* parsed to its end before the successful answers in it are delivered, as  *)
(* a duplicate or stray answer condemns the transport and every request     *)
(* that is still open.                                                      *)
(***************************************************************************)
EXTENDS Naturals, Sequences, FiniteSets

CONSTANTS
  MaxId,      \* bound: requests of one client
  MaxFrames   \* bound: frames in one batch

ASSUME AcpAssumption == MaxId \in Nat \ {0} /\ MaxFrames \in Nat \ {0}

Id == 1..MaxId

VARIABLES
  rpc,    \* what has become of each request
  recorded,   \* requests that the caller has on record as in flight
  written,    \* requests that Grok may have read
  closed,     \* the transport is condemned or its process is gone
  uncontested \* history: requests with one answer, in a batch without fault

acpVars == <<rpc, recorded, written, closed, uncontested>>

AcpInit ==
  /\ rpc = [i \in Id |-> "unused"]
  /\ recorded = {} /\ written = {} /\ closed = FALSE /\ uncontested = {}

Open(r) == {i \in Id : r[i] \in {"pending", "held"}}

\* #close rejects whatever is open.
Condemn(r) == [i \in Id |-> IF i \in Open(r) THEN "failed" ELSE r[i]]

-----------------------------------------------------------------------------
(* The caller.                                                             *)

Reserve(i) ==
  /\ ~closed /\ rpc[i] = "unused" /\ \A j \in 1..(i - 1) : rpc[j] # "unused"
  /\ rpc' = [rpc EXCEPT ![i] = "reserved"]
  /\ UNCHANGED <<recorded, written, closed, uncontested>>

\* reserveHook of promptTurn.
RecordInflight(i) ==
  /\ rpc[i] = "reserved" /\ i \notin recorded
  /\ recorded' = recorded \cup {i}
  /\ UNCHANGED <<rpc, written, closed, uncontested>>

\* dispatchReserved; writing to a broken pipe condemns the transport.
Dispatch(i) ==
  /\ rpc[i] = "reserved" /\ i \in recorded
  /\ \/ closed /\ rpc' = [rpc EXCEPT ![i] = "failed"] /\ UNCHANGED <<written, closed>>
     \/ ~closed /\ rpc' = [rpc EXCEPT ![i] = "pending"] /\ written' = written \cup {i}
        /\ UNCHANGED closed
     \/ ~closed /\ rpc' = Condemn([rpc EXCEPT ![i] = "pending"]) /\ closed' = TRUE
        /\ UNCHANGED written
  /\ UNCHANGED <<recorded, uncontested>>

TimesOut(i) ==
  /\ rpc[i] = "pending"
  /\ rpc' = [rpc EXCEPT ![i] = "failed"]
  /\ UNCHANGED <<recorded, written, closed, uncontested>>

\* The end of the process, an error of its pipes, a frame without end.
ChildEnds ==
  /\ ~closed /\ closed' = TRUE
  /\ rpc' = Condemn(rpc)
  /\ UNCHANGED <<recorded, written, uncontested>>

-----------------------------------------------------------------------------
(* A batch of Grok's output.                                               *)

\* "error" stands for every answer that fails its own request only: an error, a bad
\* envelope, a result that does not validate.  "string" has an id of digits in quotes,
\* "stray" no usable id, "garbage" is no JSON; notifications and requests of Grok's
\* change nothing here.
Frames == [kind : {"answer", "error", "string"}, id : Id] \cup [kind : {"stray", "garbage"}, id : {0}]
Output  == UNION {[1..n -> Frames] : n \in 1..MaxFrames}

\* State of the parser: the requests, whether the transport is condemned, whether the
\* rest of the batch is left alone.
Poison(st) == [st EXCEPT !.rpc = Condemn(st.rpc), !.closed = TRUE]
Put(st, i, outcome) == [st EXCEPT !.rpc[i] = outcome]

\* Mutant of HoldAnswer: the result is delivered as soon as it is parsed.
DeliverAtOnce(st, i) == Put(st, i, "delivered")

HoldAnswer(st, i) == Put(st, i, "held")

\* #message, for one frame.
Message(st, f) ==
  CASE st.stopped -> st
    [] f.kind = "garbage" /\ ~st.stopped -> [Poison(st) EXCEPT !.stopped = TRUE]
    [] f.kind = "stray" /\ ~st.stopped -> Poison(st)
    [] f.kind = "string" /\ ~st.stopped -> IF f.id \in Open(st.rpc) THEN Poison(st) ELSE st
    [] f.kind = "answer" /\ ~st.stopped ->
         IF st.rpc[f.id] = "pending" THEN HoldAnswer(st, f.id) ELSE Poison(st)
    [] f.kind = "error" /\ ~st.stopped ->
         IF st.rpc[f.id] = "pending" THEN Put(st, f.id, "failed") ELSE Poison(st)

\* The microtasks run when the batch is parsed.
Microtasks(st) == [i \in Id |-> IF st.rpc[i] # "held" THEN st.rpc[i]
                            ELSE IF st.closed THEN "failed" ELSE "delivered"]

\* What the batch says, whatever the order of its frames: one answer to i, no frame
\* without an addressee, no request answered twice.
SaysOnce(b, i) ==
  LET of(j) == {k \in DOMAIN b : b[k].kind \in {"answer", "error"} /\ b[k].id = j} IN
  /\ \E k \in of(i) : b[k].kind = "answer"
  /\ \A j \in Id : Cardinality(of(j)) <= 1 /\ (of(j) # {} => rpc[j] = "pending")
  /\ \A k \in DOMAIN b :
       /\ b[k].kind \notin {"stray", "garbage"}
       /\ b[k].kind = "string" /\ rpc[b[k].id] = "pending" =>
            \E l \in of(b[k].id) : b[l].kind = "error"

\* The state of the parser after the last frame of the batch.
Unparsed == [rpc |-> rpc, closed |-> closed, stopped |-> FALSE]
Parsed(b) ==
  LET after[n \in 0..Len(b)] == IF n = 0 THEN Unparsed ELSE Message(after[n - 1], b[n])
  IN after[Len(b)]

Data(b) ==
  LET st == Parsed(b) IN
  /\ rpc' = Microtasks(st) /\ closed' = st.closed
  /\ uncontested' = uncontested \cup {i \in Id : SaysOnce(b, i)}
  /\ UNCHANGED <<recorded, written>>

AcpNext ==
  \/ \E i \in Id : Reserve(i) \/ RecordInflight(i) \/ Dispatch(i) \/ TimesOut(i)
  \/ ChildEnds
  \/ \E b \in Output : Data(b)

AcpSpec == AcpInit /\ [][AcpNext]_acpVars

-----------------------------------------------------------------------------
\* A result that was delivered is the one answer to a request that Grok could read, in a
\* batch that held no duplicate, colliding, unmatched or broken frame: the caller never
\* persists a delivery that the rest of the output contradicts, and an answer that comes
\* after its request timed out never settles another one.
DeliveredIsUncontested ==
  \A i \in Id : rpc[i] = "delivered" => i \in uncontested \cap written \cap recorded
=============================================================================
