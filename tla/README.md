# TLA+ models of the Grok review control plane and its local plugin

Models, model-checking runs and proofs for this repository. The models are
written from the code under `src/`; `PROJECT.json` names, for every definition,
the lines it stands for.

Contents: [inventory](#inventory) · [plan](#plan) · [models](#the-models) ·
[runs](#runs) · [fairness](#fairness) · [proofs](#proofs) ·
[divergences](#where-code-and-documents-disagree) ·
[observations](#observations) · [abstractions](#abstractions-and-what-is-not-modelled)

## Inventory

### Hosted control plane (`apps/grok-review-app`)

A GitHub App. A Cloudflare Worker receives webhooks, keeps its state in a D1
database, dispatches one GitHub Actions run per review through an outbox, and
takes callbacks from the runs. The processes share nothing but the database and
GitHub.

| part | state | operations | talks to |
|---|---|---|---|
| store: `db.mjs`, `migrations/` | tables `review_requests`, `outbox_jobs`, `sanitized_receipts`, `installations`, `installation_repositories`, `webhook_deliveries`, `callback_nonces`, `control_state` | compare-and-set statements and batches; a batch is a transaction | called by everything below |
| webhook: `webhook.mjs` | a delivery row; locals of the handler | admit a delivery, route it, run its statements, mark it processed, kick the outbox | store, outbox |
| outbox: `outbox.mjs` | lease of a batch of jobs; locals of the invocation | repair, lease, dispatch, cancel, finish, retry, drain | store, GitHub |
| watchdog: `outbox.mjs` | the list of one scan | end requests whose run is completed | store, GitHub |
| callbacks: `callback.mjs` | none | claim, authorized, started, abort, terminal | store |
| runner: `actions/central-runner.mjs`, `callback-client.mjs` | claim, context, check, packet, receipt of one run | call back in order, collect, review, publish, report | callbacks, GitHub, provider |
| publication: `github-reviews.mjs`, `github-checks.mjs`, `github-authority.mjs`, `github-app-auth.mjs` | Check, pending review, tokens at GitHub | mint and revoke a token per phase, create, submit, recover, delete, complete | GitHub |
| collection: `exact-head-*.mjs`, `head-instructions.mjs`, `review-packet.mjs` | a scratch repository | fetch the exact head, bound and pack the diff | git |
| helpers: `http`, `ids`, `external-id`, `crypto-util`, `receipt-contract`, `memory-db` | none | parse, sign, verify; test double of D1 | |

`apps/control-plane` is a port of the store and the webhook to another host: the
same tables and batches, without the cutover gate, without a record of the
deliveries it has processed, and, so far, without a caller of its repair.

What makes it hard: webhooks arrive twice, late and out of order; invocations
overlap (a webhook's `waitUntil` and the cron) and outlive their leases; any of
them may be killed between two statements; a GitHub call may act without an
answer, or after its caller gave up; a run may die silently, be cancelled or be
started again; callbacks are sent again and may be handled late; an operator
pauses everything in the middle.

What makes it correct:

- store: an authorized review shuts out the older ones of its pull request, a
  receipt and a terminal status go together, nothing permanent is undone, no run
  that should be cancelled and no request that should be dispatched lacks a job;
- outbox: no request is lost, no run is left untracked without a fault, a lease
  taken over is respected, a pause fences every invocation, work gets done;
- runner and watchdog: one executor per request, no request ended under a run
  that is at work, a review believed recorded is recorded, every request ends;
- publication: what is reported completed is one visible review of the
  authorized commit; nothing pending and no live token is left behind; the model
  runs without a token;
- webhook: an answered event has had its effect through crashes, rights that
  were withdrawn are gone.

### Local plugin (`plugins/grok/scripts/lib`)

A library of 27 kloc for commands that are not in the repository. Its state is
files of a private directory, Git worktrees and child processes.

| part | state | operations | hard because |
|---|---|---|---|
| workspace lock: `state.mjs` | a directory, its owner record, a transition record | acquire, release, reclaim the lock of a dead owner | everything goes through a path that others rename; processes stop for long, and die anywhere |
| job records: `state.mjs` | a file per job, cancel markers | admit, update, request a cancel, begin a turn, retain | some calls hold the workspace lock, updates hold only that of the job |
| journal: `worker-execution-binding.mjs` | a record per worker with an attempt, its fence and lease | begin, renew, ready, fail, clean up, reissue | leases run out under slow holders |
| worktree: `worker-worktree.mjs` | a parent directory, a checkout, a Git registration | create, check, reconcile, remove | several steps, each of which may be the last |
| artifact: `worker-worktree.mjs` | the published record of what a worker wrote | capture, publish, read, verify, apply, reconcile | a lingering provider, an editing user, a lost answer |
| host actions: `worker-host-actions.mjs` | a decision in the job, a record per idempotency key | decide, replay | two writes, and a runner that updates the job |
| launch: `grok-provider.mjs`, `provider-bootstrap.mjs`, `recursion-guard.mjs` | intent, guard, process group | spawn, register, start, promote, terminate, recover | three processes, any of which may end at any step |
| credential: `grok-provider.mjs` | `auth.json` of an isolated home | stage, refresh, revoke | Grok renames over it meanwhile |
| client: `acp-client.mjs` | open requests of a JSON-RPC session | request, notify, parse a batch, time out, close | stray, duplicate and late answers |
| task contract: `task-contract.mjs` | manifests of the checkout | walk Git's files, capture, compare, classify, judge | others write while it reads |

The rest (`executable-identity`, `provider-executable-pin`, `worker-context`,
`worker-roles`, `profiles`, `worker-launch-contract`, `redact`, ...) validates
records and configuration. `scripts` builds and verifies releases.

## Plan

Written in this order, most important behaviour first. Done:

1. `ReviewStore` with `ReviewLedger` (what it promises) and `ReviewStoreProofs`;
2. `WorkflowRuns`, `ReviewOutbox`, `DispatchSystem`, `DispatchProofs`;
3. `ReviewRunner`, `ReviewWatchdog`, `ExecutionSystem`, `ExecutionProofs`;
4. `ReviewWebhook`, `WebhookSystem`; `ReviewControl`, all of them on one database;
5. `ReviewPublication`; `ControlPlane`, the port, against the same ledger;
6. the plugin: `StateLock`, `JobRecords`, `WorkerJournal`, `WorkerWorktree`,
   `WorkerArtifact`, `HostAction`, `ProviderBootstrap`, `TaskCredential`,
   `AcpClient`, `MetadataWalk`, `TaskContext`.

7. `WebhookProofs`, `PublicationProofs`, `PortProofs`, `PluginProofs`, `StateProofs`.

Left, in order of worth:

8. a proof that `ReviewControl` as a whole is a `StoreSpec`, from lemmas about its
   components that are stated now for the smaller systems;
9. the broker recovery scan of `state.mjs` and the pin publication of
    `provider-executable-pin.mjs`;
10. pure operators against reference definitions: outbox backoff, right-side
    lines of a diff, limits of head instructions.

## The models

```
ReviewLedger                     abstract promise
    ^            ^ implemented by
ReviewStore   ControlPlane
    ^     ^
    |      \----- ReviewWebhook ------ WebhookSystem
WorkflowRuns            |
    ^   ^   ^           |
 Outbox Runner Watchdog |
    |    \____/        ReviewControl (all of them)
DispatchSystem ExecutionSystem         ReviewPublication (one run at GitHub)

StateLock      WorkerJournal <- WorkerWorktree
(MCLock)       WorkerArtifact  HostAction  JobRecords  ProviderBootstrap
               TaskCredential  AcpClient   MetadataWalk  TaskContext   (MCPlugin)

proofs:  ReviewStoreProofs <- DispatchProofs, ExecutionProofs, WebhookProofs
         PortProofs   PublicationProofs   StateProofs   PluginProofs
```

**ReviewStore.** A variable per column that decides something; a row that does
not exist has status `"absent"`. One operator per statement or batch, named
after its function in `db.mjs`: D1 runs a batch as a transaction, so each is one
step. A dispatch job is named by its request key and a cancel job by its run id
(`job_key`), so `Job == Key \cup Run`. `request_id` is a counter
(AUTOINCREMENT); time is `leaseExpired` and nothing else: `available_at` only
delays a job. `StoreSpec` lets any client run any statement with any arguments:
what it guarantees, the SQL conditions guarantee alone. All `installation_id`s
but one are left out: no statement relates two installations.

**ReviewLedger.** Requests are admitted in an order, assigned to one executor,
authorized, reported, given up or dropped. Its `Authorize` requires that no newer
request of the pull request was authorized before. No statement checks that; it
follows from the fence the older authorization leaves behind.

**ControlPlane.** The port, one level lower: a statement is an operator from
tables to tables and a batch is their composition, each evaluating its own WHERE
clause on what the ones before have left. That this amounts to what
`ReviewStore` does in one simultaneous step is `PortKeepsLedger`. Handlers of
installation events are programs of statements and may stop half way.

**WorkflowRuns.** GitHub as the code sees it: a run is created for a request, may
end at any time, accepts a cancellation while it is live and may be started again
under its id with a new attempt number.

**ReviewOutbox.** An invocation of `processOutbox` as a program counter per lease
owner: gate, repair, candidate query, one conditional update per row, then per
job the gate check, the load, the second gate check, the GitHub call and the
write. `DispatchFails` includes the run that exists although GitHub's answer was
lost. `Crash` is a killed invocation. `DispatchSystem` adds everybody else as
bare statements.

**ReviewRunner.** A run as a stage: each call sends a callback and either gets
the answer of the compare-and-set (`Accepts`), sends it again, or gives up.
`sent` keeps what may be handled late (`LateCallback`). `AlreadyApplied` is the
idempotent success of each event in `callback.mjs`. A receipt is identified by
its outcome and the attempt that signed it, because its time of creation makes
its digest differ between attempts.

**ReviewWatchdog.** A scan lists rows, then per row reads the gate and the run's
state, then updates: the update comes in a later step than the state it acts on.
`ExecutionSystem` composes runner and watchdog with a reduced outbox (a run is
created for an admitted request at any time, and bound at any later time).

**ReviewWebhook.** A handler admits a delivery, decides by the event and the rows
it reads which statements to run (`ProgramOf`), and runs them one per step.

**ReviewControl.** All of these, with the operator's gate.

**ReviewPublication.** `runCentralReview` and `publishReview` as they look from
GitHub: a program counter through the phases, a token minted and revoked per
phase, the Check, and the pending review between its fences (claim, head,
supersession). A call may be refused, be executed with its answer lost, or be
executed after the caller gave up (`inFlight`). The head moves by `Push`, the
request is superseded or ended by others, the process dies and is started again.

**StateLock.** The lock of `state.mjs`, a file-system call per step, the four
of `inspectLock` too: `StatLock`, `ReadOwner`, `ListOwners`, `ReadTemporary`. A
directory is an inode number, and the path leads to one. Every call goes through
the path, whatever is there by then, so what a process has inspected (`look`) may
be of several directories. The number of a removed directory is given to a new one
if `Reuse` holds. Calls that are one step although the code makes more: the directory
and its `lstat` in `StatLock`, `open` and the read from that descriptor, and the look
at what was renamed, which has a name of its own by then (`Frozen`).

**JobRecords.** Admission, retention, `requestCancel` and the start of a turn
under the workspace lock, updates under the lock of their job; calls interleave
at every file they read or write, and end with their process. What a job does
between two calls is external.

**WorkerJournal, WorkerWorktree.** The journal's transitions with their conditions
(`Actor`: holder, fence, lease); the tree's parent directory, checkout and
registration, made and removed in the code's order by processes that may be
overtaken. Any call of Git or of the file system may fail, whatever the tree is like: a
failing preflight removes a clean tree too. A removal may be refused or stop half-way.
`undone` is a history variable: who had made or seen a tree that was then taken away by a
process without its attempt. A host that reconciles waits until the provisioner whose attempt is
cleaned up has died; no other coordination is assumed.

**WorkerArtifact.** Capture with its two looks at the file, publication by
rename, the host's reading by digest, comparison with the tree, application and
the inspection of the user's checkout.

**HostAction.** One call as read, update of the job, record of the key, answer;
a call may die in between and be made again with any key.

**ProviderBootstrap.** Parent, bootstrap and Grok of one launch; what recovery, a
scan and `terminateOwnedProcess` see of them; the guard, the agent profile and
the cleanup fence. The launch is for a task or for a provisioning controller.

**TaskCredential.** Files are inodes, the controller keeps one open, Grok may
write its temporary and rename it over the file. `"provision"` controllers revoke
with Grok alive, `"close"` after its end.

**AcpClient.** Reserve, record, write; batches of frames; the answers of a batch
are held until it is parsed.

**MetadataWalk, TaskContext.** The walk visits a small tree (an optional file, a
link to one of two files, a directory) node by node, revalidates, and goes
through its roots again, while others write, and give files back what they held.
What is compared is what the code compares: the identity and times of a link, its end
and a directory, but of a plain file's second reading only the mode and the content,
and of a directory's first look nothing at all. `TaskContext` has the captures of a
task and their comparison: a digest is the value it is computed from, and a
capture is one instant but for the references, which are read twice. A call of git that
fails is read as empty output (`Told`) and the capture goes on, unless it throws
(`CaptureThrows`); of the ignored files the first `MaxPaths` are listed and the first
`MaxHashed` read, as the budgets `MAX_IGNORED_PATHS` and `MAX_IGNORED_HASH_BYTES` allow.

## Runs

Bounds are the smallest in which the interesting case happens, and named in the
modules.

| run | shows | instance |
|---|---|---|
| `store` | `StoreInv`, and the store refines the ledger, under an arbitrary client; a review believed recorded is recorded; a bound request ends | client: 2 requests of one pull request, 2 runs, so that two rows compete for a run, and an older one meets a newer one; review: 1 run started twice, every callback may come late |
| `apps` | the port refines the ledger, statement by statement, and forgets no run; whatever its single statements and half-run handlers leave, one repair restores. A completed request has its visible review of the authorized head; one review per attempt; no token while the model runs; an orderly exit leaves nothing | two parts that share no state. Port: 2 requests of one pull request, 2 runs, 6 events of an installation. Publication: 1 push, supersession, 3 faults (creation, recovery and submission may each fail), 1 re-run |
| `dispatch_race` | no lost dispatch, tracked runs, leases ended by their holder | 2 overlapping invocations, 2 runs, 1 fault: a takeover needs two owners, an orphan two runs |
| `dispatch_life` | calls are fenced by the epoch; requests are dispatched, superseded runs cancelled, revoked requests stopped | 1 worker in succession, 3 epochs (before, paused, after), 1 fault |
| `exec` | one executor; a request is not ended under its run; the older of two publishing runs is to be cancelled | 2 requests of a pull request, 2 runs, aborts and reports may come late |
| `webhook` | an answered review event is queued; no stale repository after narrowing | 2 handlers, 1 crash; either a review delivered under two ids and its re-run, or the life of an installation in 5 events |
| `control` | an admitted review concludes | one review, its suspension, one invocation, one run; the gate starts paused and is opened under a new epoch; no faults, but every call may be refused or lost |
| `lock` | a living holder keeps its lock; a dead one's is taken away | 3 processes (holder, reclaimer, newcomer) with one lock each, a directory for each, 1 death |
| `plugin` | the hazards of the nine plugin parts, below | per part |
| `finding_*` | the divergences below | |

`store`. `part` says whether a behaviour is the client's or the review's; both begin
with empty tables. `GateIsTurned` lets the client's operator pause once, and open
again, for an App that is fully installed. The review's behaviours are fair
(`RequestEnds` is about them), the client's serve the safety properties: one that
leaves a dispatched request alone for ever is not fair to the watchdog.

`apps`. The bounds of the port (`OneJobIsLeased`, `Settled`) cut what does not interact: leases
look at their own row only, and while there are two requests no event is under way.

`webhook`. `OneHistory` lets a behaviour see the reviews of an existing
installation or the life of one from the beginning. `overlapped` remembers that
two handlers of repository events were at work at once: a grant written by one
that read the old selection may land after the clearing of another, and the code
has nothing against it, so `NoStaleRights` speaks of histories without that.
`handleInstallation` does not clear where `handleInstallationRepositories` does,
either: with `new_permissions_accepted` for a narrowed selection the property
fails (`finding_narrowing`), and a `suspend` that reports the narrowed selection
before the event of the narrowing would have the same effect, so the `suspend` of
the instance reports `"all"`.

`lock`. `SlowMakers = FALSE`: the maker of a directory writes its owner record
within the grace period of 30 s, after which others take an ownerless directory
for abandoned. `Reuse = FALSE`: a new directory has an inode number that no process
remembers. With either of them `HolderKeepsLock` fails; the second is
`finding_mixed_reading`, the first is in the observations. Without, it is proved for any
number of processes, directories and deaths. `MaxCrashes = 1` is for
`DeadLockIsReclaimed`, which two deaths defeat. `MCNext` numbers processes and
directories in the order in which they are first used.

`exec`. `WorkIsProtected` speaks of a run's first attempt: an abort names the run
and not the attempt, and one that is handled after the run was started again ends
the request under it.

`plugin`. The parts share no state; `part` says which one a behaviour explores,
so the state space is their sum. `FirstProcess` and `FirstClient` are symmetry
reductions by hand: of processes that differ in their names only, the first
begins.

| part | properties | bounds |
|---|---|---|
| worktree | `ReadyIsExact`: a journal becomes ready only with an exact, clean tree, unless a provisioner that had lost its attempt took it away after the publisher made or saw it. `TreeOutlivesOthers`: only a provisioner that was overtaken by a lease can remove the tree of a ready worker | 3 processes, fences up to 3, 6 revisions, 1 death: an attempt, the one that overtakes it, and a cleaner |
| artifact | `OneArtifact`, `VerifiedIsPublished`: what a host has verified is the one artifact on record | 2 contents, 3 edits, 2 deaths, 2 applies |
| decision | `OneDecision`: every answer and every record says what the job says | 2 callers, 2 keys, 4 calls, 2 deaths |
| provider | `GrokIsCovered`: a living Grok is always named by the guard and has its profile | 2 launches, 2 ends, 1 process that resists its signal |
| credential | `RevokedIsGone`: after a proved revocation no path leads to secret bytes | 2 failures, 4 files |
| client | `DeliveredIsUncontested`: nothing is delivered that the rest of the output contradicts | 2 requests, batches of 3 frames |
| walk | `IdentityIsOfOneInstant`: a complete walk is of a state that existed, but for files that were given back what was recorded and for a directory's mode | 2 writes, 5 entries |
| context | `NoHiddenWrite`: what is in sight of the budgets and of the calls that answered cannot be written unreported. `NoFalseAlarm`: what other worktrees do to references accuses nobody | 2 changes and 2 turns while every call of git answers; 1 change and 1 turn of a task in a linked worktree while one of seven calls may fail in each capture (`FewerWhenGitFails`); upstreams and many references with a clean checkout only, which they have nothing to do with. 1 dirty and 1 ignored file kept one by one, 2 of 3 ignored files listed and 1 read, so that one is behind each budget |
| jobs | `RuntimeIsExclusive`, `NoTurnAfterCancel`, `ResumedParentIsKept` | 3 jobs, 2 lineages, 2 callers, 4 calls, retention of 1 |

`NoHiddenWrite` names in its conclusion what may hide: an ignored file behind the listed
ones, one that is listed but not read when its size and time are put back, and what a
failing call was to tell. The first is against a comment; see below.

**Deadlock** is checked but where behaviours end: in `lock` and `finding_mixed_reading`
every process has made its bounded attempts, in `apps` the bounded requests of the port
are over, or the run is and its calls are executed, in `plugin` the bounded edits, deaths
and calls of a part are used up.

## Fairness

- Outbox (`WorkerFairness`): the cron starts invocations for ever
  (`runScheduledMaintenance`), and an invocation that is not killed goes on, so
  its own steps are weakly fair. Loading, rechecking and the GitHub calls are
  strongly fair: a job that fails is given back and tried again with backoff, so
  each of them is tried again and again, and GitHub, D1 and the configuration do
  not fail every time.
- Leases run out, the operator reopens a paused gate, and a run ends (its job has
  a timeout).
- Watchdog (`WatchdogFairness`): the cron scans for ever; every candidate becomes
  old because nobody touches it; GitHub answers for each run some time. The last
  one matters: the list is ordered by `request_id` and limited, so runs that
  GitHub never answers for could fill every scan.
- Lock: a living process goes on with what it has begun and releases what it
  holds. Nobody has to begin: `DeadLockIsReclaimed` ends with "or nobody wants it".
- Nothing is assumed of runners, callbacks, webhook deliveries or handlers. The
  other runs check safety only.

## Proofs

Eight modules, for every set of keys, runs, owners, processes, files, and any bound.
A theorem is stated of the component's own `Spec`; a run checks the same property,
and the inductive invariants were checked by TLC on the run's instance before they
were proved. The assumptions are the named `ASSUME`s of the models, which TLC
evaluates too: maps from requests to pull requests and repositories are functions,
NULL is no id, request keys and run ids name different jobs, as their `job_key`
prefixes differ (`RowAssumption`, `PortAssumption`); events carry lists of
repositories (`EventAssumption`); bounds are positive numbers; what stands for
"none" is none of the ids.

**`ReviewStoreProofs`**: `StoreTypeCorrect`, `StoreInvariant`
(`StoreSpec => []StoreInv`), `FenceHolds`, `NothingIsUndone`, and
`StoreImplementsLedger` (`StoreSpec => KeepsLedger`, the refinement), from any
installation.
`StoreInv` is the inductive invariant. The fence is not inductive alone: that an
authorization leaves older requests terminal stays true because a new row gets an
id above every other (`IdsOrderAdmissions`), because only a claimed request can be
authorized (`AuthorizationOrder`), and because no statement moves a row out of a
terminal status. `ReceiptPairing` needs `AuthorizationOrder` for aborts;
`JobCoverage` needs `RunBinding`, because a superseded row never gets a run
afterwards. Statements that behave alike for the invariant share a lemma, and
`StoreCases` splits the next-state relation once for all proofs. The refinement
maps `request_id` to rank, `workflow_run_id` to executor, and any terminal status
to the verdict. `LedgerAuthorize` is the interesting step: were a newer request of
the pull request authorized already, the fence would have made this one terminal,
and it could not be claimed.

**`PortProofs`**: `RepairMakesAllGood`, `NoRunIsLeftRunning`, `PortImplementsLedger`.
A statement of the port is one of a few kinds of change to the tables (`Inserts`,
`Binds`, `Advances`, `GivesUp`, `Reports`, `Authorizes`, `Superseded`), and a batch is
their composition: what the second statement does is proved of what the first has
left. `GoodStep` collects what every batch has: rows move by one of these kinds, no
job disappears, whatever was superseded has its cancellation. `PortInv` is the fence
(`OlderAreOver`) with the order of ids, as in the store. `RepairMakesAllGood` needs
types only: the repair owes nothing to what was there before it.

**`DispatchProofs`**: `DispatchUsesStore` (`Spec => StoreSpec`: whatever invocations
and everybody else do to the tables is a statement of `db.mjs` with arguments of
the right kind, so that the theorems of the store hold here),
`WaitingIsNotForgotten`, `CutoverHolds`, `LeaseBelongsToItsHolder`, `NoRunGetsLost`. The
inductive invariant is `DispatchInv`: the store's, what an invocation holds at each place
(`Local`), that jobs and the jobs in an invocation's hands name admitted requests
(`JobHasRow`, `Known`), that an invocation which is about to finish a dispatch has
seen its request leave the queue (`Settled`), from which nothing returns
(`RowMoves`), and so that a failed request's job is not completed (`Tried`). `CutoverFence`
is inductive with `Local` alone: the gate is read anew before the call, a pause
that comes in between closes it, and the operator reopens only when the calls under
way have ended (`NoCallInFlight`), as the cutover procedure waits for them.
`NoRunGetsLost` counts: the runs that are neither bound nor queued for cancellation nor
in an invocation's hands (`Loose`) form a finite set of at most `faults` (`LooseInv`). A
run that is bound or queued stays so (`TrackedForGood`), and a step lets one run go at
most, by a fault.

**`ExecutionProofs`**: `ExecutionUsesStore`, `ExecutionKeepsStoreInv`,
`RequestHasOneExecutor`, `OlderPublisherGivesWay`, `CompletionIsOnRecord`,
`WorkIsNotInterrupted`. The
inductive invariant `ExecInv` adds to the store's: a run past its claim is the one
its request is bound to (`Bound`), a publishing run's request is authorized
(`PublishersAuthorized`), a run that left with a completed review has it on record
(`Recorded`). The first five rest on `Permanent`: bindings, authorizations and receipts
are never changed, whatever callback is repeated or late. That the older of two
publishers is to be cancelled then needs no knowledge of runs at all: it follows
from the fence (the older request is terminal) and `JobCoverage` (a superseded
request's run has a cancel job). `WorkIsNotInterrupted` does need it (`ProtectInv`):
nothing that a run on its first attempt has sent ends its request, unless it is its own
report (`SaysNoMore`), its row is where the run's stage has left it (`RowFits`), and the
run the watchdog acts on has ended (`DogLooked`).

**`WebhookProofs`**: `WebhookUsesStore`, `NoReviewGetsLost`, `NarrowingIsComplete`. A
delivery that is admitted and has no row yet is routed again, or is in the hands of a
handler whose program still holds the admission (`ReviewsUnderWay`, in `QueueInv`). The
theorem assumes of a history what the property's comment says: an event is routed while
its repository is authorized (`RoutedWhenAuthorized`). `NarrowingIsComplete` is about
handlers one at a time (`OneAtWork`): what is granted beyond the events, the rest of the
program at work, or the next routing of its delivery, will clear. It assumes
`NarrowedByRepositoryEvent`, an action formula that excludes exactly what
`finding_narrowing` and the paragraph on `webhook` above describe.

**`PublicationProofs`**: `PublicationTypes`, `CompletedIsCurrent`, `ReviewIsUnique`,
`ProviderHasNoToken`, `NothingLeftOpen`. `PublicationInv` says what the runner knows at each
place in the program: the phase and the token it has (`PhaseInv`, `TokenInv`), that the
reviewed commit was the head once (`HeadInv`), that an attempt has one review or one call
under way that will make it, and none before it begins (`MarkerInv`), that Check and review at
hand are its own (`CheckInv`, `ReviewInv`), what the verdict stands for (`VerdictInv`), that
a signed attempt does nothing more (`ReceiptInv`), and what is open while every call has
been answered (`CalmInv`). TLC checked it with 2 pushes, 2 faults and 2 re-runs.

**`PluginProofs`**, a part per component:
- `CredentialIsRevoked`: `CredentialInv`, whose core is that no refresh comes once the
  controller may revoke (`NoMoreRefresh`), and that what was proved gone stays gone.
- `LiveGrokIsCovered`: `ProviderInv`. The guard is taken back only with the group gone
  (`LauncherInv`), and what recovery has found stays all there is, because the cleanup
  fence keeps a late bootstrap from registering (`FoundInv`).
- `NoWriteHides`, `NobodyIsAccused`: `ContextInv`. Every manifest that is compared stands for
  a reading of the checkout (`Stands`), that is a tree and the calls that failed, and the
  evidence is computed from two of them. What the readings have in common when there is no
  evidence is then a matter of the operators: `IgnoredSame` for what is listed and hashed, a
  lemma per part of the manifest for the rest. For every value of the budgets.
- `OwnerDecidesOnce`: `DecisionInv`. A record repeats the job's decision, which is never
  replaced.
- `ArtifactIsUnique`, `VerificationIsOfRecord`: `ArtifactInv`, in halves for the writer and the
  host.
- `ReadyTreeIsExact`, `OnlyTheOvertakenRemove`: `WorkerInv`. A tree made by the holder of
  the attempt (`MadeIsExact`) or found exact by the one reconciler (`SettlesOnExact`) is
  touched by processes that come too late in one way only, the removal on a failure path,
  and that puts the maker and the reconciler into `undone`; who makes or looks at a tree
  again leaves it.
- `DeliveriesAreUncontested`: `AcpInv`. What a batch leaves a request in is a function of the
  frames read so far. While the client is open no two frames settle one request, none is
  stray or garbage, and a string that reads but is broken has its error (`UnbrokenBatch`);
  the least number of frames at which one of these would fail (`SmallestNumber`, from the
  well-foundedness of `<`) stands for an induction over the frames.
- `IdentitiesAreOfOneInstant`: `WalkInv`. A path that has moved on from a node never shows
  its inode and version again, and a file that shows the recorded content again is in
  `restored`; so what is there now as it was recorded was there all the time. Where
  the first pass is tells what is recorded (`FirstPass`, a stage per kind of task), and
  when it ends every listed child is (`Whole`); in the second pass every recorded path
  either was there at the instant or is still to be looked at (`LookedAtBefore`).

**`StateProofs`**:
- `RuntimesAreExclusive`, `NoTurnStartsAfterCancel`: `JobsInv`. A record fences the runtime of
  its job until the runtime has ended (`RecordsFence`), one transaction holds the
  workspace (`OneTransaction`), and a listing it goes by stays conservative, because an
  update ends a job and never revives one.
- `ParentsAreKept`: `ParentInv`. The parent of a job that is being admitted is kept
  (`AdmitsFromKept`), for retention runs in a transaction of its own, and retention has
  chosen no job that an active one resumes (`RemovesUnresumed`). `Ancestors` is the least
  set that is closed under parents, so no induction is needed.
- `LockIsKept`, under `~SlowMakers` and `~Reuse`: `LockInv`. The directory of a busy
  process, from `mkdir` to the release, is at the path and is its own (`BusyAt`). What an
  inspection has found, it has found of directories that were there (`FoundBefore`), but
  perhaps of two; so what a reclaimer goes by is either over, its owner or maker dead, or
  has an owner the reclaimer does not know of (`Condemned`). Its second look, under
  the transition it has placed (`Placed`), then tells the two apart (`LookedAgain`): while
  the transition is in place the directory stays, and without reuse whoever finds its
  number finds it. A stale transition has one clearer (`ClearsDead`, `OneClears`).

Two facts found while proving are now in the models: `ReviewStore` begins with any
installation, and the end of a task waits for its runtime (`Ending` in `JobRecords`,
external), without which `RuntimeIsExclusive` fails beyond the run's bounds.

Only model-checked:
- The composition `ReviewControl` as a whole: its components are proved in the smaller systems.
- Liveness (`DispatchHappens`, `SupersededRunStops`, `RevokedRequestStops`, `RequestEnds`,
  `ReviewConcludes`, `DeadLockIsReclaimed`): the provers handle neither fairness nor ENABLED.

## Where code, comments and documents disagree

- `finding_lost_binding`: `outbox.mjs:229-230` says the job stays leased until
  expiry when the run could not be bound; the next line gives the lease back. A
  second run may be dispatched after the backoff; `OneExecutor` and
  `RunsAreTracked` hold nevertheless.
- `finding_narrowing`: `webhook.mjs:679-680` calls the route idempotent after a
  crash; `handleInstallation` writes the new selection before it clears the
  repositories, and does not clear them the second time.
- `finding_mixed_reading`: `state.mjs:917-921` says that a live owner's lock cannot be
  superseded. `inspectLock` (`state.mjs:393`) puts together what it reads through the path. A
  contender takes the time of an old lock's directory, finds no owner in the new one that has
  got the same inode number, judges it abandoned (497-501), claims it and looks again before
  its maker has linked the owner record, and renames it (737) after the maker has checked the
  record and found no transition (836-841). The run is `lock` with `Reuse` and two directories.

Met while modelling, without a run of their own:

- Step 8 of the cutover design
  (`docs/superpowers/specs/2026-08-09-production-in-place-cutover-design.md:195-197`)
  waits for the lease time and then requires zero leased jobs, but
  `leaseOutboxJobs` takes expired leases over only while dispatch is not paused;
  the row of an invocation that died stays `leased` for the whole pause.
- `docs/operations/private-grok-review-app.md:396-397` says ambiguous posting is
  "reconciled by the host receipt marker rather than blindly duplicated". Within
  an attempt it is (`OneReviewPerAttempt`). The marker includes the receipt's
  digest, and that its time of creation (`receipt-contract.mjs:558-585`): a run
  started again after its submission does not find its earlier review and posts a
  second one.
- `grok-provider.mjs:4873-4875` retains a credential while the group may read it;
  on the path of a failed event (about line 4352) the error carries no identity,
  and the catch revokes with the group alive.
- `grok-provider.mjs:579-580`: `revoke()` unlinks the path even when the
  truncation failed.
- `task-contract.mjs:932-934` says that ordinary writes to ignored files stay observable
  and that large inventories fail closed to a marker. The digest is of the first
  `MAX_IGNORED_PATHS` paths and the count (961, 1046): a write behind them shows nowhere.
  Only a structured task of mode `write` is refused such an inventory (851).
- `state.mjs:1388` fences a terminal task until its runtime is known to be
  cleaned (`!== true` at 1401); retention (about 1495) tests `=== false` and removes a record whose
  flag was never written.

## Observations

What the models show beyond their properties, and what bounds or exclusions rest on.

- *Lock.* The maker of a directory inspects the owner record and then the
  transition (`state.mjs:826-841`). If it is stopped for longer than the grace
  period, a reclaimer may rename the directory in between. With two deaths, a
  clearer that dies between linking its witness and unlinking the stale transition
  (`state.mjs:608`) leaves a lock that nobody can clear.
- *Publication.* A terminal answer that is lost leaves a failed Check beside a
  completed receipt; a revocation that fails after the submission, a visible review
  beside a failed Check; a dead process, a Check in progress; a deletion that
  failed, a pending review that blocks later ones. `CleanExit` is about runs without
  such faults.
- *Port.* Redeliveries are processed again. `casMarkRequestSuperseded` leaves the
  cancel job to the repair, which nothing calls yet; `casMarkTerminal`, not
  modelled, would end a review as completed without a receipt.
- *Jobs.* An update under way can write back a record that retention has just
  unlinked. Managed writers have their job's id in their root, so that the conflict
  at 1413 cannot occur between them.
- *Worker.* After its lease ran out, the failure path of a slow provisioner
  (`worker-worktree.mjs:883-948`) may delete a ready worker's tree: `TreeOutlivesOthers`
  says that nobody else can. It may do so to a clean tree, because any exception of the
  preflight leads there (927-934); and if it does between a successor's check and its
  publication, or the adoption by a host, the journal becomes ready without a tree:
  `ReadyIsExact` says that there is no other way. A mismatch of identity removes the tree and not its
  parent. A torn temporary after a crash makes the artifact corrupt for ever. The
  fingerprint in the evidence may be of an edit the user has since undone.
- *Launch.* When the capture of the spawned identity fails, no child is recorded
  although the bootstrap may have registered its guard; `terminateOwnedProcess`
  refuses a group whose leader is gone while Grok lives. `GrokIsCovered` holds
  because recovery and registration share a lock and the cleanup fence
  (`recursion-guard.mjs:1126-1128`, 1192).
- *Credential.* A failure between truncation and unlinking makes every later
  revocation fail. A parent that dies while staging leaves a temporary file with
  the secret that the cleanup of the runtime does not know; a Grok killed in a
  refresh leaves its own until the home is removed.
- *Client.* An answer that comes after its request timed out condemns the session
  and fails every open request.
- *Metadata.* What is created and removed, or changed and restored, between two looks is
  not seen. The mode of a directory is recorded from a look before the listing and never
  compared with one (`task-contract.mjs:1969`, 2230, 1317).
  `git status` and `ls-files` may fail unnoticed (652, 657): a dirty tree then reads as a
  clean one, and a capture that fails like the one it is compared with shows no evidence.
  Index flags that are set before `git status` and cleared before `ls-files -v` of one capture would hide an edit; the model takes the files of a
  capture at one instant. Manifests of version 1 know neither flags nor hooks
  outside the repository.

## Abstractions and what is not modelled

- Identifiers, URLs, signatures, payload validation, formatting and logging. A
  malformed input has no effect on the modelled state.
- Ages and backoff: a job may be leased as soon as it is pending, a request may be
  old as soon as it is active. The models allow more than the clock does.
- The order in which a batch takes its candidates (`job_id`).
- The check id: it is reconciled by an external id made from the request, so that
  all runs of a request name the same check; only "bound or not" is kept.
- `callback_nonces`: a nonce handled before is answered without effect, and the
  client signs each attempt with a fresh one.
- `resolveRepairEpoch` and the repair it fences are one step in the webhook; were
  the gate turned twice in between, the batch would do nothing and the next
  invocation would repair instead.
- In `ReviewRunner` the time between `started` and the receipt is one step with
  any outcome; `ReviewPublication` has its steps, with the callbacks reduced to
  what they read of the request.
- `supersedePrRequestsWithOutbox` is exported and has no caller in the Worker.
- Port: `casMarkTerminal`, `insertSanitizedReceipt`, `setInstallationSuspended`,
  `admitDelivery`, `admitCallbackNonce` and the review events of its webhook.
- External, modelled from how the code uses it: GitHub, the Workers platform, the
  operator, Grok, Git, and the plugin's commands, which are not in the repository:
  what a job does between two calls, when a host recovers, that it waits for a
  cleanup's provisioner to be dead, that one process persists an artifact, that Grok refreshes its
  credential only until it has answered.
- Plugin: the broker recovery scan (`state.mjs:1163-1345`), removal of a job, logs and
  configuration; the credential of ordinary tasks, which is in
  `ProviderBootstrap` only; the legacy walk `gitMetadataIdentity`; task envelopes,
  worker reports, lifecycle events and the tampering of manifests; permission
  requests and notifications of the client; pins and signatures of executables.
- Collection and the model review: one process, its own scratch space, no retry.
  They yield a packet or a verdict, or fail, as the models choose.
- Everything listed as `not_modelled` in `PROJECT.json`, with the reason there:
  stateless parsing, validation, configuration and build scripts.
