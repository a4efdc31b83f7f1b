------------------------------- MODULE MCApps -------------------------------
(***************************************************************************)
(* The two parts of the apps that share no table with the Worker's store, in *)
(* one run: the port of the control plane, and a publication at GitHub.  They *)
(* share no state, so each is explored from initial states of its own.       *)
(***************************************************************************)
EXTENDS ControlPlane, ReviewPublication

CONSTANTS k1, p1, r1

VARIABLE part   \* the component that is explored

MCPullOf == [k \in Key |-> p1]
MCRepoOf == [p \in Pull |-> r1]

Delivered(kind, sel) == [kind |-> kind, sel |-> sel, repos |-> <<r1>>]
MCEvent == {Delivered("created", "selected"), Delivered("unsuspend", "all"),
            Delivered("suspend", "all"), Delivered("deleted", "all"),
            Delivered("added", "selected"), Delivered("removed", "selected")}

\* Bounds of the port: one job is leased (leases do not look at other rows), and while
\* there are two requests, no event arrives, no lease is held, and the installation is
\* as good as gone or authorized for everything.
OneJobIsLeased == \A j \in JobKey \ {k1} : db.job[j].status \in {"absent", "pending"}
Settled == (\A k \in Key : db.request[k] # NoRow) =>
             /\ \A h \in Handler : program[h] = <<>>
             /\ db.job[k1].status \in {"absent", "pending"}
             /\ db.installation # "absent" => db.installation = "active" /\ db.selection = "all"

BoundedInit == /\ Init /\ PublicationInit /\ part \in {"port", "publication"}
               /\ part = "port" => trigger = "automatic"

BoundedNext ==
  \/ part = "port" /\ Next /\ OneJobIsLeased' /\ Settled' /\ UNCHANGED <<publicationVars, part>>
  \/ part = "publication" /\ PublicationNext /\ UNCHANGED <<vars, part>>

BoundedSpec == BoundedInit /\ [][BoundedNext]_<<vars, publicationVars, part>>
=============================================================================
