# coven-github, specified

A TLA+ development of coven-github, the GitHub App adapter that turns webhook
deliveries into durable tasks and runs them with coven-code familiars. The
modules are written from the Rust code under `crates/`; the lines each
definition stands for are in `PROJECT.json`.

## The system

One process. Axum handlers take webhooks and API requests, a claim loop takes
tasks from SQLite, one tokio task executes each of them against the GitHub API
and a coven-code child process, and a few tickers sweep and schedule. Everything
durable is in one SQLite file behind one mutex; everything else (permits,
executors, the wake-up permit, a request half handled) dies with the process.

| Component | State | Operations | Talks to |
|---|---|---|---|
| Store, queue part (`crates/store`) | `webhook_deliveries`, `tasks`, `task_attempts` | `record_delivery`, `claim_next`, `finish`, `recover_interrupted`, `cancel_queued`, `supersede_queued_except`, `delete_tasks_for_installation`, `expire_terminal_tasks`, and the reads of the dashboard | called by everyone |
| Store, tenant part | account plans, installation accounts, memory activity, revocations, API audit | record / delete / list / expire | webhook, worker, API |
| Webhook intake (`crates/webhook`) | none of its own | `handle_webhook`: verify, route, plan gate, quota gate, record, notify; marketplace; uninstall purge | store, Notify |
| Commands and routing | none (pure) | `parse_event`, `parse_mention`, `command_task`, `event_to_task`, `scope_for`, `routing_view` | config |
| Claim loop (`crates/worker::run`) | permit pool, Notify | acquire, read caps, `claim_next`, spawn, park | store, executors |
| Executor (`execute_task`) | the task it holds, workspace, Check Run id | permission gate, supersession, pre-flight, session, publication, terminal write | store, GitHub, backend |
| Session and backend | workspace, `result.json`, child or container | run, time out, retry on infrastructure errors | coven-code |
| Publication | Check Run, status comment, PR, review verdict (on GitHub) | create, upsert, complete | GitHub |
| Memory governance | revocations, activity | `derive_trust`, `compute_policy`, `validate_memory_used`, revoke, purge, expire | store, session |
| Findings gate, redaction | none (pure) | `sanitize_result`, `gate` | publication |
| Branch gardener | branches and pull requests (on GitHub) | list, compare, classify, plan, re-check, delete, open pull request, report | GitHub |
| Gardener schedule | none (the slot is the delivery id) | per-minute enqueue pass | store, Notify |
| Billing | plans per account | marketplace events, tiers, `effective_limits` | intake, claim loop |
| Server main | process | check the configuration, recover, spawn, serve, sweeps | all |
| API | none | list, revoke, usage, audit with scoped tokens | store |
| Config and doctor | static | parse, `Config::check` | all |
| Python adapter (`deploy/coven-github`) | files | an older deployment, shares no state | GitHub |

What is hard here: several actors write the same row (handler, claim loop,
executor, sweep, purge, recovery) and `finish` looks at no state; a webhook
request is several transactions with other requests in between; GitHub delivers
twice, late and out of order, and its branches move between any two calls; the
process dies between any two transactions and the sessions it started do not;
notifications may be lost; what a session was allowed to do may be revoked
before it is done; and one installation's work must not starve, displace or see
another's. The hazards are listed with their lines in `PROJECT.json`.

What makes each component correct:

- **Store**: one row per delivery, attempts consistent with the row, attempts
  bounded, cap respected, newest push first; seen from outside, a durable queue.
- **Claim loop and executors**: one executor per row, terminal states final, a
  truthful audit trail, no displacement without write access, no lost wake-up,
  every queued task ends.
- **Routing**: whoever sets a familiar to work is somebody else and, for more
  than a reply, is judged by the permission gate; an event has one addressee;
  the dashboard shows what routing does; reviews asked for are not dropped.
- **Intake and billing**: the plan gate and the quota hold up to the requests
  being served at once, a purchase is neither lost nor applied unrecorded, an
  uninstall leaves nothing of the tenant behind but what overlapped it.
- **Session**: a result belongs to the attempt that publishes it.
- **Publication**: every Check Run is completed, at most one status comment per
  conversation, no stale finding presented as current.
- **Memory and API**: what is revoked is refused, a fork writes nothing, a
  tenant sees its own.
- **Findings gate**: filtering is counted and loses no place; no credential is
  published.
- **Gardener**: unmerged commits are lost in races with users only, nothing
  outside the policy is touched; a report counts what its own run did and leaves none of
  its deletions out of the list of those planned.
- **Schedule**: every slot of a minute the pass got through has its run, once.

## Plan

| # | Module | What | State |
|---|---|---|---|
| 1 | `TaskStore`, `DurableQueue`, `TaskStoreQueue` | the queue tables; the abstract queue; the refinement | done, proved |
| 2 | `TaskQueue` | claim loop, executors, crash and restart around the store | done, safety proved |
| 3 | `Plans`, `Intake` | plans and limits; `handle_webhook` transaction by transaction with concurrent handlers, uninstall, marketplace, failures and crashes; on `TaskStore` | done, proved |
| 4 | `TaskExecution`, `TaskExecutionQueue` | one execution in detail: session, retry, workspace, orphans; Check Run, stale gate, pull request, verdict; refinement of `TaskQueue` | done, safety and refinement proved |
| 5 | `StatusComment` | several executors on one thread | done, proved |
| 6 | `MemoryPolicy`, `Findings`, `TaskApi`, `Governance` | memory policy, findings gate, API scopes; sessions, revocations, requests, retention and purge together | done, proved |
| 7 | `GardenPlan`, `Gardener` | judgement of branches and slots; schedule, runs and users call by call; on `TaskStore` | done, proved |
| 8 | `Routing`, `Doctor`, `WebhookRouting` | payload to task, `Config::check`, the server as a router | done, proved |
| 9 | `Oversight` | what the store tells the dashboard, the audit stream and the usage rollup | done, proved |

What the plan leaves open is liveness, which stays with TLC: every invariant of
a passing run, every action property and both refinements are proved. A module
`X_proofs` holds the theorems about `X`; those about `DurableQueue` and
`Oversight` are in `TaskStore_proofs`, those about `GardenPlan`, `Findings`,
`MemoryPolicy`, `TaskApi`, `Routing` and `Doctor` with the module that puts them
to work.

## The modules

### `TaskStore`: the tables

A column is a function on `Task` or `Delivery`: `routing` is
`webhook_deliveries.routing`, `state`, `attempts` and `created` are columns of
`tasks`, `ledger[t]` is the set of `task_attempts` rows of `t`, where outcome
`"open"` stands for `ended_at IS NULL`. Each action is one SQL transaction,
atomic because every call locks the one connection. A task id is a fresh uuid,
so `Source` says which delivery an id can be minted for; giving one delivery two
ids is what lets a replay go wrong. `clock` stands for the insertion time and
grows strictly, which assumes that the wall clock is not set back and that two
inserts do not share a timestamp (the code breaks ties by id).

`Event[d]` abstracts what a delivery asks for to kind, installation, pull
request (the supersession key) and commander, who is nobody for automatic
events and otherwise has write access or has not. A duplicate delivery changes
nothing and is a stutter. Columns that only describe (branch, summary,
`check_run_url`, detail) are left out.

### `DurableQueue` and `TaskStoreQueue`: what the store promises

`DurableQueue` is the queue of `docs/durable-task-store.md` without tables: per
delivery a job that is new, ignored, waiting, taken, settled or expired.
`TaskStoreQueue` maps rows to jobs; `StoreImplementsQueue` is `Queue!Spec`.

### `TaskQueue`: the running server

Extends `TaskStore`, uses its actions as the code uses the store's methods, and
adds the process: `up`, the claim loop's position, the stored permit of
`Notify`, and `exec[t]`, how far the executor of `t` has come. `execute_task`
becomes `PassGate`, `Decline`, `FinishAdapterWork`, `PreflightFails`,
`StartSession`, `EndSession`, `Published`; every early return without a terminal
write, and every panic, is `Abandon`. What the session and GitHub answer is
nondeterministic. `AddressReviewComment` and `FixIssue` are both kind `fix`,
since nothing here distinguishes them. `Uninstall` is the purge transaction; the
record of the event itself is a `DeliverIgnored` step before it, and `Intake`
has what lies between.

`Crash` clears what lives in memory, at any moment; `Restart` recovers before
anything else runs, as `serve` does. What a session leaves behind is the subject
of `TaskExecution`.

### `TaskExecution`: one task in detail

A single task of kind `fix` (fix, mention reply, review comment: the kinds with
a session and no stale gate) or `review`, from its insertion to what GitHub
shows of it. `pc` walks through `execute_task` and `run_and_publish` in the
order of their calls; a `?` inside `run_and_publish` is `Fails`, which goes to
the finalization with `ending = "error"`. The actions from `CleanUp` to
`Conclude` are the three arms of the final `match`, folded into one path because
they make the same calls in the same order: row, verdict (of the result arm
only), comment, Check Run.

A call in `Flaky` may fail, before or after it took effect; best-effort calls
are `Try`. `Session` is a claim and a try within it, since every launch has its
own process or container; `live` is the set of those alive and `file` is
`result.json` with its author, which the code cannot see and the properties
need. `Crash` leaves any subset of them alive. An unusable result stands for a
file that misses keys, breaks a rule of `validate_result_contract`, or is not
JSON. Exit 2 stands for every end other than 0, 1 and 3, signals included.
`endHead`, `spawns`, `crashed`, `lost`, `dirty` and `unkilled` record the past
for the properties and guard nothing.

### `TaskExecutionQueue`: its place in the server

Instantiates `TaskQueue` with this one task and one permit and maps `pc` to the
stage of the executor. `ImplementsExecutor` is the specification of `TaskQueue`:
every row change and every hand-over between stages in the detailed model is one
that the queue model allows, so what holds there of the row holds here.

### `StatusComment`: one thread, several executors

`upsert` as its two calls. `SomebodyComments` is anybody else; deleting comments
is not modelled. `MaxThread` bounds the length, so the runs let the thread end.

### `Routing`, `Doctor`, `WebhookRouting`: from a payload to a task

`Routing` is pure and follows the calls: `ParseEvent` (which fields make a
payload an event), `ScopeFor` and `RoutingView` (the two resolutions of an
installation's familiars and lanes, one for routing, one for the dashboard),
`ParseMention`, `CommandTask`, `AutomaticReview`, and `Route`, which is
`event_to_task` with its order of early returns. A comment is its sequence of
words, each saying which handle it names and what is glued to it, which is all
that `parse_mention` looks at. What the code does by `iter().find()` is here the
familiar at the `Earliest` of a set of positions, and a list it filters keeps
its positions (`Kept`), so that a filtered list and a search in it are sets and
a minimum rather than a recursion. `Doctor` is `Config::check` as the set of fields
it has an error for. `WebhookRouting` is the server around the two: `Serve`
refuses a configuration with an error, `Deliver` routes a payload, `Edit` is the
operator changing the file while the server is down. Payload and configuration
do not interact over time, so this is a large number of short behaviours, and
the value is in the products of configurations and payloads.

### `Plans`, `Intake`: a request is several transactions

`Plans` classifies a plan name, follows its state and derives the limits.
`Intake` extends `TaskStore` by the billing tables, the account mapping and the
tasks with memory records. `handler[h].at` is how far a request has come;
`Begin` takes a delivery (new, or any earlier one again, also while it is being
handled), `ReadPlan`, `CountToday` and `RecordWork` are `entitlement_for`,
`count_tasks_since` and `record_delivery` with whatever may happen in between,
`RecordPurchase` is the marketplace transaction, `Uninstall` and the three
`Purge` steps the removal. `StoreFails` lets any of these calls fail, with what
the code then does: an error answer, or the next step where the call is best
effort. `Crash` boots again, with recovery. Executors appear with what they
write to the tables here. `MCIntake` checks by an assumption that the events it
feeds are those that `Routing` makes of payloads.

`overtaken`, `departed` and `late` are observations: the requests whose tenant's
plan or account changed under them, and what was at work on a departed
installation when its uninstall was recorded, or arrived after.

### `MemoryPolicy`, `Findings`, `TaskApi`, `Governance`: who may remember what

The first three are pure. `MemoryPolicy` has trust, policy, the judgement of an
entry, the recorded rows and what is cited; a key is the sequence of its pieces,
so that the prefixes of the code are prefixes here. `Findings` has redaction and
the publication gate: scope, threshold and duplicates are sets of places in the
report, and the sort is `Ranked`, where a finding comes after as many as are
before it by severity and then by place. `TaskApi` has the callers and their scopes.

`Governance` puts them to work: `Claim` and `Brief` (the denial list is read
between them, and an unreadable list counts as empty), `ReportBack` (a report is
judged and recorded in one transaction), `Publish`, `Crash`; `ListMemory`,
`RevokeMemory`, `ForbidRevocation` and `Deny` for the API, each with its audit
row; `Sweep` for the retention and `Purge` for a departing installation.
`standing` is the observation of what was revoked when a run was claimed and has
stayed so, `unjudged` the sessions whose report said memory was not used.

### `GardenPlan`, `Gardener`: branches that move

`GardenPlan` has the policy of a repository, the fate of a branch given the
facts of a scan, and the slots of a minute. A branch in `Gardener` is the set of
the commits it reaches, so "ahead of the default branch" is set difference, and
a re-created branch with the same commits has the same sha. A run lists, compares
each branch, asks for its pull requests, plans, then re-checks and deletes or
opens pull requests, one GitHub call per action; a compare and a re-check go by
the branch name and a delete by the name alone, as the code's calls do. `Users`
push, rewind, merge, propose and close between any two of them. Two runs may be
at work at a time, one scheduled and one commanded or two commanded. The
schedule is a clock and a pass over the slots of its minute. A slot is the place
of its installation and that of its repository, and the pass takes the first
that is left (`IsFirst`). It ends early by a failed insert, or by a task id that
another repository's name sanitizes to as well. A delete may fail, also after it
took effect, and the installation token for the publication may not be minted.

`ReportOf` is the report: counters of the execution beside the sections of the
plan. Surfacing takes a branch whose pull request was not opened out of its
section and into the skipped ones, but pruning leaves its section as planned, so
a branch that another run deleted, that moved or whose deletion failed is still
listed as pruned, and only the counts tell.

`cut`, `raised` and `since` are observations: the branches a run deleted, the
pull requests it opened, and the number of user moves when it began to list;
`checked` is what its last re-check saw.

### `Oversight`: what the store says of itself

The task list, the audit stream and the usage rollup as functions of the tables
of `TaskStore`. A group of the rollup is an installation.

Definitions marked *wrong on purpose* are variants of an action that no
specification uses; substituted for the original they must break a property,
which shows that the property can fail. `PROJECT.json` pairs them.

## What the runs check

| Run | Instance | Shows |
|---|---|---|
| `store` | 3 task ids for 3 deliveries, 2 installations with cap 1, 2 attempts | five invariants of the store and `StoreImplementsQueue`, under arbitrary callers |
| `reviews` | a push, a drive-by review command and a maintainer's on one PR, 2 permits, 2 attempts | `TypeOK`, `ExecutorOwnsRow`, `AuditTrail`, `DriveByNeverDisplaces`, `TerminalIsFinal` |
| `progress` | a fix and a cancel that compete for cap 1, a garden run of another tenant, an ignored event | `NoLostWakeup`, `Drains` under `LoopSpec` |
| `review_execution` | a blocking review in a container, 2 attempts of 2 tries, 2 heads, 6 flaky calls | `PushWithholds`, `OpenCheckExplained`, `RowAndCheckAgree`, `ImplementsExecutor` |
| `fix_execution` | a fix in a host process, every report and exit code, 6 flaky calls, under `FairSpec` | `NoPrBehindFailure`, `CheckoutRemoved`, `NoStraySession`, `SpawnBudget`, `ExecutorReturns` |
| `status_comment` | three executors, page of 4, thread of up to 6 | `StacksNothing` |
| `routing` | 158 configuration files (familiars x installations x review policies, and one broken field at a time), 335 payloads | `DashboardShowsRouting`, `SetToWorkByOthers`, `OneAddressee`, `ReviewsReachReviewer` |
| `intake` | 2 handlers, 11 deliveries of two tenants, any 3 requests, one fault, one executor | `AdmittedOnPlan`, `NoLostTransition`, `NothingOfTheDeparted`, `QuotaOvershoot` |
| `governance` | a maintainer's and a fork's session of one installation and an automatic one of another, two repositories, 2 runs, a narrowed and a wide tenant, an operator and a stranger, one API request, one fault | `RevocationsHold`, `UntrustedNeverWrites`, `TenantBoundary`, `GateIsHonest` |
| `garden` | 2 commanded runs and a schedule, 4 branches, a human's commit, a bot's and one of an author unknown to GitHub, 2 commits to a page, 2 disturbances of which one may be a fault | `LossesAreRaces`, `WithinPolicy`, `ReportAddsUp`, `TidyAfterQuietRun`, `SlotsServed` |
| `moved_head`, `metering` | the least instance that shows it | the code disagrees with its own text, below |

Bounds. Every task is created once, so a behaviour has as many deliveries as
ids: two of one kind show every order of two, the third adds the bystander that
a cap or a supersession touches by mistake. Two attempts are the least with an
attempt that is neither first nor last-but-bounded. Cap 1 beside cap 2, with two
permits, lets the cap bind before the pool and the pool before the cap. One pull
request suffices for supersession, since keys never interact. All bounds are
finite without state constraints: created ids are never reused and attempts are
bounded by recovery. What depends on more than one tenant or on a replayed
delivery is in `store` and `progress`, what depends on one pull request in
`reviews`. In `TaskExecution`, `Reported` is cut to the reports that a
question tells apart (a review's changes never matter to it), `Flaky` to the
calls that bear on it, and `MaxHead = 2` is one push, which is all that a gate
comparing two heads can tell. One retry and two attempts give a file left by an
earlier try and one left by an earlier attempt. In `StatusComment` the thread
grows beyond the page, so that marked comments fall out of sight.

In `Intake` three requests are what the races take: two that overlap and one
before, between or after them (a plan bought, then cancelled under a request;
an uninstall with a push in flight; a delivery and its replay beside another
against a quota of one). In `Governance` the second session gives the second
repository and the third the second installation, so that each half of a
tenant's boundary leaves rows out; one of the two keys to revoke is all of a repository, and two runs are
two sessions side by side, or one that crashes and its retry. In `Gardener` two disturbances are a push and its
undoing, or a push and a failure; a schedule is given only to configurations that exclude every branch,
since runs commanded by maintainers reach the same code, and three slots are a
repository, one that collides with it and one that comes after. `PageOfCommits`
is two: of the branches to start with one has three commits and is truncated,
one has two whose authors fit the page, one a commit without a login only, and
one such a commit beside a bot's. `CHECK_DEADLOCK FALSE` is
said where the bounds let everybody stop: a full thread, all requests served,
all runs ended. The handlers and the commands are symmetric. The proofs remove
the bounds for safety.

Fairness. `LoopFairness`: tokio polls a ready task and fires a timer, so the
loop claims, or finds nothing and parks, and always wakes by its 5-second
timer; `WakeBySignal` has no fairness, because a handler may be dropped between
commit and `notify_one`. `ExecutorFairness` (assumed by `Drains` alone) says an
executor does not hang: a session is ended by `timeout_secs`, but a GitHub call
returns only if the network answers, for the HTTP client sets no timeout; that
is an assumption on the environment. `FairSpec` of `TaskExecution` is weak
fairness of what the executor does by itself, the timer of the session
included, and none of the session's own end; `ExecutorReturns` derives from it
what `ExecutorFairness` assumes. No fairness is put on deliveries, crash or
restart; the liveness properties are conditional on the process staying up from
some point on. The other modules state safety only: their requests, runs and
passes end in a bounded number of calls, if the calls return.

## What is proved

The theorems about the queue (1 to 3) hold for every set of deliveries, every
finite set of task ids, every assignment of events, any positive caps, attempt
bound and pool size (`StoreAssumption`, `ConcurrencyAssumption`;
`Config::check` refuses zero limits).

1. *The store.* `StoreInv` is inductive. The listed invariants are nearly
   inductive together: `AttemptsBounded` needs the row shape (a row that is gone
   has no attempts), `AttemptLedger` needs it too, because an id's ledger must
   be empty when it is inserted, and `NewerReviewWins` needs that `created`
   never exceeds the clock. `RowsWellFormed` adds exactly that. `CapRespected`
   follows on its own: `Claim` is the only transaction that makes a row run,
   and it looks at the cap in the same transaction. `DashboardAgreesWithAudit`
   (`Oversight`) is a consequence of the ledger.
2. *The refinement.* Under `StoreInv` a delivery has at most one row, so the
   `CHOOSE` of the mapping is that row (`RowsDecideJobs`); then each
   transaction maps to one abstract step or a stutter.
3. *The server.* `ServerUsesStore`: every step of `TaskQueue` is a store step
   or leaves the tables alone, so everything above carries over
   (`ServerRefinesQueue`, `ServerRespectsCap`). `ExecInv` says a live executor's
   row is running or purged; with it `EveryRowStep` lists the seven things a
   step can do to a row. `TerminalIsFinal`, `AuditTrail` and
   `DriveByNeverDisplaces` follow from that list, the last one with the audit
   trail, which tells a withdrawn review from one whose own session ended stale.
4. *One execution*, for either kind and backend, any number of retries and
   heads, and any reports, exits and failing calls (`ExecutionAssumption`).
   `Sound` is types, `Shape` (who is where implies what the row is) and
   `Returned` (an ending is known once `run_and_publish` is left). On top of it
   each property has the strengthening it needs: `RowAndCheckAgree` compares
   values written three steps apart, so `EndsAsTheAttempt` carries the written
   outcome along, and nothing may be concluded before (`NoEarlyConclusion`);
   `NoPrBehindFailure` relates a pull request to a conclusion not yet written,
   so `PrFromProgress` says what it will be; `SpawnBudget` adds what earlier
   claims paid to the tries of this one; `PushWithholds` needs that a review
   past the gate is of the head its session ended at (`Gated`).
   `ExecutionRefinesQueue` is the refinement: what `TaskQueue` sees of an
   execution are five values (`Seen`), a step that leaves them alone is a
   stutter, and each of the others is one action of the claim loop, an executor
   or the process. The mapping derives the ledger from the number of claims and
   the outcome of the last; that closing an attempt closes exactly the last one
   needs `Accounted`, the agreement of outcome and row.
5. *The status comment.* `StacksNothing` is not inductive: an executor about to
   post must have no comment on the page, which its own list established and no
   other executor's post can undo (`PostsItsFirst`).
6. *The intake*, for any number of handlers, accounts, plans, deliveries,
   requests and faults (`IntakeAssumption`). Every step is a store step or
   leaves the tables alone (`IntakeUsesStore`), so the intake implements the
   abstract queue as well. `StageFitsClass` says which request may be where,
   and `LetThrough` that one past the plan gate had a plan or was overtaken.
   `NothingOfTheDeparted` speaks of a purge that has ended; `DepartedInv` adds
   what has been removed after each of its steps (`PurgeProgress`) and that
   whatever may still write is noted (`WritersNoted`). `QuotaOvershoot` is
   about rows, and requests let through have none yet, so `QuotaInv` counts
   rows and admitted requests together: at most the cap, less one, plus the
   handlers.
7. *The gardener*, for any branches, commits, policies, users and faults.
   `RunsGood` says what the facts and the plan of a run are worth while it is at
   each of its calls: what it is about to delete was listed, is in its care, was
   compared with nothing ahead, and was re-checked. `LossesAreRaces`,
   `WithinPolicy` follow. `ReportAddsUp` needs `EffectsGood` besides: what a run
   counts as pruned it deleted, and what it deleted, though the answer may have
   been lost, is counted or spared; with the books of `RunsGood`, in which what
   is done and what is left share out the plan, the numbers add up.
   `GardenUsesStore` and `GardenRefinesQueue` relate it to the store and the
   abstract queue as above. `TidyAfterQuietRun` is about a run's end and the
   facts it took at its beginning; `RunsCurrent` says that as long as nobody
   disturbs it all a run knows of the branches that are left is still so,
   whatever a second run deletes or opens meanwhile, and that what it has dealt
   with is gone or has its pull request. `SlotsServed` is about minutes a pass
   got through; `ScheduleGood` adds the pass at work, which has recorded every
   slot it no longer has before it, and that nothing recorded is taken back,
   since the schedule ignores no delivery.
8. *Governance*, for any sessions, reports, tokens and requests.
   `SessionsGoverned` carries a run from its claim: what stands revoked is still
   in the table until the policy is made (`StandsFor`), then in the policy
   (`Briefed`), then honoured by the recorded rows (`Honoured`) and by what is
   cited (`CitesAccepted`). `RecordInPlace` says that accepted writes are in the
   session's own repository. `RevocationsOutliveRows` is the action property of
   the sweep. `GateIsHonest` needs no invariant but the types. It is about one
   call of the gate on any report: ranking by the number of places before a
   place gives each place its own rank and fills all ranks (`RankedSorts`, by
   counting), every key has a first place (`LeastOf`), and what publishes and
   what the three gates withhold are four parts of the report (`FourParts`).
9. *Routing*, for any configuration files whose familiars are a list of records,
   and any payloads (`RoutingAssumption`). The invariant `Answered` says that
   the task is the route of the payload under the configuration, and that a
   configuration with an error is never served; the rest is about `Route`.
   `RouteIsExplained` gives of every task the familiar it is for, its lane and
   its commander, and `DashboardShowsRouting` and `SetToWorkByOthers` follow.
   `OneAddressee` compares a configuration with its reversal: positions are
   mirrored (`ScopeBackwards`), and where one familiar at most fits, both find
   it (`OneFits`), which the check guarantees of logins and ids
   (`CheckedConfig`). `ReviewsReachReviewer` follows from what the check demands
   of the reviewer of the section and of each override.

The assumptions on constants say that constants have the types the code gives
them, that the bounds are numbers and that markers for "none" are none of the
values. Three say more: the slots the schedule may be asked for are among the
deliveries and ids of the model (`GardenerAssumption`); no tenant's token is the
service token, which `Config::check` refuses, and the mark that redaction leaves
is not itself a live token (both `GovernanceAssumption`).

Type invariants of `TaskExecution`, `Intake`, `Gardener` and `Governance` are
theorems and in no run, and so are `CitedWasAccepted`, `RevocationsOutlive` and
`DashboardAgreesWithAudit`.

Only model-checked: `NoLostWakeup`, `Drains` and `ExecutorReturns`, since
liveness under fairness is beyond the prover. The runs `moved_head` and
`metering` end in a violation, so there is nothing to prove.

No module with a theorem uses a recursive operator. Where code loops over a
list, the model says what the loop finds (the earliest position, the first place
of a key, the number of places before), and the proofs use what that definition
gives: a least element exists because `<` on the naturals is well-founded, and
an injection of a finite set into as many ranks is onto.

## Findings

- **A verdict may land on a head nobody reviewed** (`moved_head`). The gate
  compares heads once; the review is submitted later and names no commit.
  `PushWithholds` holds for pushes during the session.
- **The usage rollup counts attempts** (`metering`). `usage` sums over tasks
  joined with their attempts, so a task that was interrupted and rerun adds two
  to `completed`, and more tasks may be completed than accepted.

Smaller disagreements between text and code have no run of their own; where a
property is named, it is the statement that holds.

Queue and execution:

- An abandoned row keeps its slot. `execute_task` has early returns without a
  terminal write: an unreadable key, a familiar removed from the configuration,
  any GitHub error of a reply or cancel task, a failed `finish`. The row stays
  `running` until the next restart and counts against `max_concurrent`, although
  the design says that saturation only delays work (`Drains`).
- Recovery gives up when `attempts` reaches `max_retries + 1`; the design
  document says when it exceeds it (`AttemptsBounded`).
- The gate of a commanded review withdraws all queued reviews of the pull
  request, also one for a push after the command was claimed; the comment speaks
  of older ones. The commanded review resolves the head when it runs, so what is
  lost is usually only a run.
- Recovery puts an interrupted review back beside a newer queued one, and both
  are claimed; the document says only the newer is (`NewerReviewWins` is about
  reviews that never started).
- A claim may use caps of a plan that was read one transaction earlier.
- After exit 0, 1 or 3 only `status` of the result counts, whatever the exit
  code, contrary to the contract's section 4.
- A result may be another session's: nobody removes `result.json` between tries,
  nor the workspace of an interrupted attempt.
- A workspace may stay, when recovery gives up or the attempt after a crash does
  not reach its own cleanup, and without the audit row the retention document
  promises (`CheckoutRemoved` is what holds without a crash).
- The notice of a pull request that could not be opened is replaced by the final
  status of the same execution.
- A Check Run is completed by one call, whose error is logged, and recovery
  knows nothing of it; the comment says it always concludes
  (`OpenCheckExplained` lists all the reasons for an open one).
- Two executors that list a thread before either posts both post a status
  comment; the module comment speaks of one (`StacksNothing`).
- Recovery closes the attempts of an interrupted process at boot, so the runtime
  of the rollup includes the time it was down.

Intake:

- The quota may be overshot by the requests served at once (`QuotaOvershoot`);
  scheduled runs count against it and pass no gate.
- A request that was let through completes on a plan that has ended meanwhile,
  and one that overlaps an uninstall may leave its records behind
  (`AdmittedOnPlan`, `NothingOfTheDeparted`).
- The purge is best effort and the delivery is recorded first, so a step that
  failed is not repeated by a redelivery.
- An older marketplace or installation event that arrives late wins
  (`NoLostTransition` says that the plan is that of some recorded purchase, not
  of the last).

Gardener:

- "Never delete a branch with >=1 unmerged commit" (`docs/branch-gardener.md`)
  holds but for three races: a push between re-check and delete; a push that is
  undone between the compare, which goes by name, and the re-check; and a
  default branch that is rewound after the compare (`LossesAreRaces`).
- Two repositories whose names `sanitize_id` maps to one share a task id; the
  second insert fails, and the error ends the pass for all later repositories
  and installations (`SlotsServed`).
- A missed minute loses its slots.
- When the token for the publication cannot be minted after branches were
  deleted, the run fails without reporting them; after a crash the retry reports
  what it did itself.
- A branch deleted by a concurrent run between list and compare fails the scan.
- "Pruned and surfaced branches are listed" (`docs/branch-gardener.md`), but the
  report's section of pruned branches lists what was planned, spared ones
  included, so two runs may both list a branch that one of them deleted. The
  counts are those of what was done, and only with no branch spared is the list
  what was deleted (`ReportAddsUp`).
- "The branch's only commits are from the bot": a commit without a login is
  passed over, so one bot's commit among those of authors GitHub does not know
  makes a bot's branch (`TidyAfterQuietRun`).

Memory and API:

- A report that says memory was not used is not judged, and the entries it lists
  all the same are recorded as accepted (`UntrustedNeverWrites` excepts it).
- A revocation made while a session runs does not bind its report, and a denial
  list that cannot be read counts as empty (`RevocationsHold`).
- A verdict on an entry is looked up by operation and key, so entries of one key
  under two scopes share it; redaction does not reach `memory_used`.
- The audit of reads is best effort, and requests refused as malformed are not
  audited. Replies are audited and metered, but not listed.
- In open mode every caller sees everything (`TenantBoundary` is about tokens).

Routing: labels and `/coven garden` go to the first familiar that fits; a
reviewer outside an installation's allow-list, or named by an override that
leaves the lane to the section, passes `Config::check` and gets no reviews
(`OneAddressee`, `ReviewsReachReviewer`).

## Not modelled

The Python adapter and the deployment files are a separate program and static
data. Of the rest, I/O, text and parsing stay out: signature verification, JSON
and TOML, the HTTP client, the assembly of the brief, redaction of texts other
than findings, the wording of comments and reports, the warnings of `doctor`
and the checks of paths and addresses.

The early returns of `execute_task` before its pre-flight, panics, uninstalls and
supersession are in `TaskQueue` and not again in `TaskExecution`; memory
activity and redaction between session and publication are in `Governance` and
change nothing `TaskExecution` keeps. The Check Run and the comment of a garden
run are as in those modules and not again in `Gardener`, where the label that
follows an opened pull request is part of opening it, and an installation is
assumed to have a familiar. Deleting a branch closes its pull request, as GitHub
does. Size limits and dates of memory entries are one class of refused entries.
An error of waiting for a child, and a docker CLI that is killed from outside
while its container lives, are not modelled. A power loss that rolls back
committed transactions (WAL with `synchronous = NORMAL`) is not modelled, nor
are two processes on one store.
