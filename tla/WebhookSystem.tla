---------------------------- MODULE WebhookSystem ----------------------------
(***************************************************************************)
(* The webhook handlers with everything else that writes the database: the *)
(* outbox repairs and binds runs, and runs call back.                      *)
(***************************************************************************)
EXTENDS ReviewWebhook

VARIABLE overlapped   \* history: two handlers have been at work at once

vars == <<storeVars, webhookVars, overlapped>>

Init == StoreInit /\ NoInstallation /\ WebhookInit /\ overlapped = FALSE

Busy == {h \in Handler : handling[h] # None}

\* The life of an admitted request up to the binding of its check.
Others ==
  /\ \/ RepairOutboxJobs(epoch)
     \/ \E k \in Key, x \in Run : \/ ClaimWorkflowRunOrEnqueueOrphan(k, x)
                                  \/ CasClaimExecutor(k, x)
                                  \/ AuthorizeReviewRequestWithOutbox(k, x)
                                  \/ CasMarkStarted(k, x)
  /\ UNCHANGED webhookVars

Next == /\ (\E h \in Handler : WebhookStep(h)) \/ Others
        /\ overlapped' = (overlapped \/ Cardinality(Busy') > 1)

Spec == Init /\ [][Next]_vars

-----------------------------------------------------------------------------
KindOf(d) == EventOf[d].kind

\* A review event that was answered with success has left a request behind, if
\* the repository was authorized all along: whatever handlers died half way,
\* and however often and wherever GitHub delivered the event again.
ProcessedReviewIsQueued ==
  \A d \in Delivery :
    delivery[d] = "processed" /\ KindOf(d) = "review" => status[EventOf[d].key] # "absent"

Settled == /\ Busy = {}
           /\ \A d \in Delivery : delivery[d] # "admitted"

\* Repositories that an event received so far has granted one by one.
Granted == UNION {{EventOf[d].repos[i] : i \in DOMAIN EventOf[d].repos} :
                    d \in {c \in Delivery : /\ delivery[c] # "new"
                                            /\ EventOf[c].sel = "selected"
                                            /\ KindOf(c) # "removed"}}

\* When an installation was narrowed from all repositories to selected ones and
\* every delivery is processed, no repository keeps an authorization from the
\* time before.  A handler may die half way through the narrowing: its delivery
\* is routed again, and webhook.mjs 679-680 calls that route idempotent.  (Handlers
\* that overlap may write a grant after another one's clearing: nothing orders them.)
NoStaleRights ==
  Settled /\ ~overlapped /\ selection = "selected" => instRepos \subseteq Granted
=============================================================================
