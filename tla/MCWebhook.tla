------------------------------ MODULE MCWebhook ------------------------------
(* Instances of the webhook system: small histories of events.              *)
EXTENDS WebhookSystem

CONSTANTS k1, k2, p1, r1, r2, d1, d2, d3, d4, d5, d6, d7, d8

MCPullOf == [k \in Key |-> p1]
MCRepoOf == [p \in Pull |-> r1]

Event(kind, k, parent, sel, repos) ==
  [kind |-> kind, key |-> k, parent |-> parent, sel |-> sel, repos |-> repos]

\* The life of an installation: created for all repositories, narrowed by adding
\* or removing one, suspended, deleted; and a review, the same review asked for under
\* another delivery, a re-run of it.
LifeAndReviews ==
  [d \in Delivery |->
     CASE d = d1 -> Event("created", k1, k1, "all", <<r1, r2>>)
       [] d = d2 -> Event("added", k1, k1, "selected", <<r1>>)
       [] d = d3 -> Event("removed", k1, k1, "selected", <<r2>>)
       [] d = d4 -> Event("suspend", k1, k1, "all", <<>>)
       [] d = d5 -> Event("deleted", k1, k1, "selected", <<>>)
       [] d = d8 -> Event("rerun", k2, k1, "all", <<>>)
       [] OTHER  -> Event("review", k1, k1, "all", <<>>)]

\* Installed for all repositories, then narrowed with new permissions.
PermissionEvents ==
  [d \in {d1, d2} |->
     IF d = d1 THEN Event("created", k1, k1, "all", <<r1, r2>>)
     ELSE Event("new_permissions_accepted", k1, k1, "selected", <<r1>>)]

Installed == /\ NoRequests /\ GateInit /\ WebhookInit /\ overlapped = FALSE
             /\ instState = "active" /\ selection = "all" /\ instRepos = {}

\* Bound: a behaviour sees the life of an installation from its beginning, or the
\* reviews of an installation that exists.
Received == {d \in Delivery : delivery[d] # "new"}
OneHistory == \/ Received \subseteq {d6, d7, d8} /\ instState = "active"
              \/ Received \subseteq {d1, d2, d3, d4, d5}

HistorySpec == (Init \/ Installed) /\ [][Next /\ OneHistory']_vars
=============================================================================
