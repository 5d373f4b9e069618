# Formal verification of claudeStruct

TLA+ models of the concurrent core of claudeStruct: the HTTP daemon of
`cs serve` (`src/src/claudestruct/server`, FastAPI, SQLAlchemy, a background
worker, GitHub and Stripe integrations) and the job daemon of claw-squad
(`src/claw-squad/src`, TypeScript, Redis).  Paths below start at the
repository root, which the project's `PROJECT.json` calls `src/`; short names
are `worker.py` for `src/claudestruct/server/worker.py`, `queue.ts` for
`claw-squad/src/queue.ts` and so on.

Each module is translated from the code.  TLC checks it on a small instance,
and the safety properties that matter most are proved with TLAPS for every
value of the constants.

| module | what it is |
|---|---|
| `RunLifecycle` | abstract specification: what the run service promises about one row of `runs` |
| `Submissions`, `AuditTrail`, `TodoBoard` | abstract specifications: what `POST /v1/runs` promises its clients, the audit table an auditor, the todo list of a claw-squad run its user |
| `RunQueue` | `worker.py`: the queue in the database, the claim, the run, the reports to GitHub; several workers |
| `RunSubmit` | `POST /v1/runs`: token cap, idempotency key, insert, audit entry, commit; several requests |
| `AuditLog` | `audit.py`: the hash chain per org, racing recorders, retention, head snapshots, `verify_chain` |
| `Billing` | `billing.py`, `routers/billing.py`: subscription rows under late, repeated and reordered Stripe events |
| `RateLimit` | `rate_limit.py`: token buckets, concurrent calls of `check()`, the rounded `Retry-After` |
| `Access` | `auth.py`, `routers/keys.py`, `routers/oauth.py`: keys, sessions, cookies, revocation and its audit rows |
| `Alerts` | `alerts.py`, `notify.py`: the scheduler thread, a pass over the runs, the notifier |
| `InstallTokens` | the installation-token cache of `github_app/__init__.py` and the calls made with its tokens |
| `BotPr` | `_open_pr_as_bot_safe` and `clone_push.py`: the pull request of a finished run |
| `Latency` | `latency.py`: the histogram and its percentiles |
| `OneShot` | `cli.py`, `runner.py`, `client.py`, `local_cache.py`: one-shot commands on one budget and one answer cache |
| `PrefixCache` | `cache_state.py`: the silent-miss warning and its state file |
| `EmbedIndex` | `indexer.py`, `index.py`, `index_io.py`: builds, the watch, the query of `--smart-context` |
| `JobQueue` | `queue.ts` and `daemon.ts`: the Redis lists, daemons, drains, `requeue-dead`, signals, crashes |
| `Orchestrator` | `orchestrator.ts`: Planner, Coder and Reviewer, git and GitHub, budget and quit, snapshot and resume |
| `MC*`, `*.cfg` | instances for TLC; `MCServices` and `MCLoops` put several small parts into one run |
| `*Proofs` | the theorems: `RunQueue`, `RunSubmit`, `AuditLog`, `RateLimit`, `JobQueue`, `Orchestrator`; `ServicesProofs` (`Access`, `PrefixCache`, `OneShot`, `Billing`) and `LoopProofs` (`Alerts`, `InstallTokens`, `BotPr`) |

## 1. Inventory

For each component: the state it keeps, its operations, whom it talks to, what
is hard about it, and what makes it correct.

**Run queue and worker** (`worker.py`).  State: the columns `status`,
`created_at`, `github_check_run_id` of `runs`, and the `Run` object a worker
holds.  Operations: `_claim_one`, `process_pending_run` with its GitHub
reports (`_post_in_progress_check_run_safe`, `_post_verdict_comment_safe`,
`_post_check_run_safe`, `_open_bot_pr_safe`), `WorkerThread.start/stop`.  It
shares the table with the API and the webhook, reads the tier from
`subscriptions`, calls the runner and GitHub.  Hard: the claim is SELECTs, a
decision in Python and a later UPDATE without a lock; several processes may
run it (`cs serve worker`, `--once`); a worker can die anywhere.  Correct
means: a run goes forward only, is paid for once, leaves the queue in order,
respects the org's concurrency, ends terminal, and GitHub shows one verdict
and no check-run in progress for ever.

**Run submission API** (`routers/runs.py`, `auth.py`).  State: rows of `runs`,
unique on (org, idempotency key); a placeholder row in `subscriptions`.
Operation: `create_run`.  It calls `billing.enforce_token_cap` and
`audit.record` in one transaction.  Hard: requests race, lose a unique index,
roll back and replay; a client retries after a lost answer.  Correct means:
all answers to one key name one run, which exists and is audited once; nobody
waits for ever.

**Audit chain** (`audit.py`, `routers/audit.py`).  State: `audit_entries`,
one hash chain per org.  Operations: `record`, `verify_chain`, `prune_audit`,
the head endpoint.  Called inside the transactions of nearly every router.
Hard: two transactions read the same head; retention deletes the oldest rows
while others append; stored heads must stay comparable.  Correct means:
`verify_chain` never raises a false alarm.

**Redis job queue** (`queue.ts`) and **worker daemon** (`daemon.ts`,
`abort-signal.ts`).  State: the lists `queue`, `processing`, `dead`, the
workers hash; the daemon's stop flag.  Operations: `enqueueJob`, `dequeueJob`,
`completeJob`, `abandonJob`, `requeueDeadJobs`, `runWorkerDaemon`,
`drainQueueOnce`, signal handlers.  Hard: every multi-command operation
interleaves with other processes and may stop half-way.  Correct means: a job
is neither duplicated nor lost, except with the queue when it expires, is
retried a bounded number of times and is settled.

**Orchestrator of claw-squad** (`orchestrator.ts`, `snapshot.ts`).  State: the
todo list and its task statuses, the loop count, cost totals, budget flag,
snapshot file; outside, the commits of HEAD and of the branches on GitHub.
Operations: plan, code, review, delegate, merge, quit, resume, rollback.
Hard: budget and quit are polled at some points only; a snapshot is taken
between steps and resumed by another process; failures of GitHub are only
logged.  Correct means: what is merged was approved, a task counts as done only
when it is merged and is merged once, and the run ends soon after the budget
is gone.

**Rate limiter** (`rate_limit.py`).  State: a dict of buckets.  Operation:
`check`, which the middleware calls on the thread of the event loop.  Hard: what
the bucket holds and what it let through since any moment; a waiting time that
is cut to whole seconds.  Correct means: no window lets through more than the
capacity and the refill, and who waits `Retry-After` is let through.

**GitHub App client** (`github_app/`).  State: the installation-token cache;
for a pull request a clone, a branch on GitHub, the row's `pr_number`.  Hard:
tokens are minted outside the lock and stored unconditionally; a pull request
takes several minutes and any step may fail.  Correct means: a call holds a
valid token, few tokens are minted, and a branch under review does not move.

**GitHub webhook** (`routers/github.py`): signature, trigger filters, one
insert.  GitHub redelivers; each delivery is a run of its own.

**Billing and Stripe events** (`billing.py`, `routers/billing.py`).  State:
`subscriptions`.  Operations: the handlers of the five event kinds.  Hard:
Stripe delivers late, twice and out of order; a handler that does not know the
object returns early; a deletion resets a part of the row only.  Correct means:
once everything has arrived and was handled, tier, status and usage window are
what Stripe says, and no org profits from another org's events.

**API keys, principals, sessions** (`auth.py`, `routers/keys.py`, `oauth.py`).
State: `api_keys`, session rows, two cookies, the audit trail.  Hard: a
request commits what it read a while ago, while another one revokes.  Correct
means: a confirmed revocation holds, and the trail tells who may come in.

**Alerts, notifications** (`alerts.py`, `notify.py`).  State: a thread handle
and a stop flag.  Operations: `start`, `stop`, a pass.  Hard: `stop` gives up
waiting; runs under judgement are part of their own baseline; a notifier may
raise.  Correct means: one loop at a time, which goes on, and bounded noise.

**One-shot runner and local caches** (`cli.py`, `runner.py`, `client.py`,
`local_cache.py`, `cache_state.py`).  State: run logs, answer files, a state
file; all shared by processes without locks.  Correct means: an answer is the
whole answer to this request, the monthly cap is passed by a bounded amount,
and a warning means what it says.

**Embedding index** (`index.py`, `indexer.py`, `index_io.py`).  State: a
table of rows with the hash of the file and a vector.  Hard: a watch and a
second builder overlap, the model changes, the endpoint fails.  Correct means:
the index catches up with the tree, and a query never takes the run with it.

**Latency histogram** (`latency.py`).  Correct means: a percentile is a bound
that this share of the requests kept.

**claw-squad user interfaces and GitHub polling** (`ui/web.ts`, `ui/slack.ts`,
`ui/throttle.ts`, `github/ci-wait.ts`): a pending-prompt slot, a flush timer,
polling of a moving head.

The rest (dashboards, encryption, argument parsing, context building,
providers, MCP servers, editor plugins, the sandbox launcher, packaging) is
sequential, read-only or a thin layer over a library; `PROJECT.json` lists each
part with the reason it is left out, and all hazards with their lines.

How they interact:

    client --POST /v1/runs--> create_run --insert--> runs <--claim-- worker --> runner
    GitHub --webhook--> receive_webhook --insert--> runs        worker --> GitHub (check-run, comment, PR)
    Stripe --webhook--> subscriptions --tier--> _claim_one, enforce_token_cap
    create_run, webhooks, keys ... --record--> audit_entries <--prune, verify, head
    worker --> token cache --> GitHub;   alerts loop --reads--> runs --> notifier
    cs ask/review ... --> run logs (cap), answer cache, cache_state, embedding index
    submitJob --lPush--> queue --rPopLPush--> daemon --> orchestrator

## 2. Plan

Order of work, the most important behaviour first.

1. `RunLifecycle`, `RunQueue`: the abstract promise, the worker, the
   refinement with one worker.  Done.
2. `AuditLog`, `RunSubmit` (which contains the part of the audit chain that
   `create_run` uses), and their promises `AuditTrail` and `Submissions`.  Done.
3. `JobQueue`, then the proofs that a job has one live copy and is neither
   lost nor stranded without a failure.  Done.
4. `Orchestrator`, its promise `TodoBoard` and the proofs.  Done.
5. `Billing`, `Access`: the rows that decide who may do what.  Done.
6. `RateLimit`, `InstallTokens`, `Alerts`, `BotPr`: two or more racing actors
   on little state, each with a theorem.  Done.
7. `OneShot`, `PrefixCache`, `EmbedIndex`, `Latency`: the command line and its
   files.  Done.
8. Left: the worker registry of `queue.ts` (heartbeat hash and TTL), the
   polling of `ci-wait.ts`, the prompt slot of `ui/web.ts`, one period after
   another in `RunSubmit`.

The safety properties of the passing runs are proved, and the four refinements
(section 7).

## 3. The models

### RunQueue (`worker.py`, `models.py`, tier tables of `billing.py`)

State: the database columns as functions on `Runs`, the local variables of
each worker, and what GitHub shows.  `created_at` is the position of a row's
stamp: a default that the session evaluates in Python when it builds the
INSERT, before the database grants a lock and long before the commit that shows
the row (`Stamp`, `Submit`), so that rows of two requests may appear in the
other order.  `leaps` is history: the pairs where a younger run of the org had
been chosen when the older one was committed.  No worker could have known.

| action | code |
|---|---|
| `Stamp` | the flush of a new row: `created_at` is taken |
| `Submit` | `create_run` or `receive_webhook` commits a queued row |
| `ChangeTier` | `_handle_stripe_event` |
| `SelectNext` | `_claim_one` up to the choice: SELECT queued, the concurrency gate, the stable sort |
| `CommitClaim` | status and `started_at` set, commit, refresh |
| `OpenCheckRun` | `_post_in_progress_check_run_safe`: stored, answer lost, refused, or skipped |
| `Invoke`, `StoreOutcome` | the runner is called; done or failed is committed |
| `PostVerdict`, `CompleteCheckRun`, `OpenPr` | the three reports; each may fail or be skipped |
| `LoseWorker` | the process dies, or a database error ends the iteration |

The SELECTs of one `_claim_one` are one step: between them only counts can
change that the next pass would read again.  The branch for an unknown task
ends like a failed run and cannot be reached through the API, which validates
the task.  "App not configured" is covered by the failing call.  The
subscription row is taken to exist: a conflict on the placeholder
`get_or_default` inserts is a `LoseWorker` at `selected`.

`Stream` adds `Reuse`: the name of a run that is over stands for a new run,
its row is dropped and later stamps close the gap.  So a finite instance has
submissions that never end, which is what starves: `_claim_one` takes a higher
tier first, and without a stream every queue runs empty.

### RunSubmit (`routers/runs.py`, `billing.py`, `audit.py`)

One process per request; a retry is another request with the same key.  The
steps are the statements that touch the database.  A unique index is modelled
by what the two databases do: an INSERT whose key is in an uncommitted row
waits, one whose key is committed fails.  PostgreSQL locks rows; SQLite's
single writer is a special case.  `FinishRun`, `Upgrade` and `Downgrade` are
the other writers (the worker and Stripe).  One billing period; random run ids
do not collide.

`Submissions` says what a client may rely on: a request is accepted in one
step, with its run and the next place in its org's audit trail, or leaves
nothing behind; its one answer names its own run, the run of an earlier request
with its key, or none.  `Alone` maps the tables to it as they are: the committed
runs are the accepted requests.  The step in which a request takes effect is its
`Commit`; savepoints, waiting, rollbacks and the placeholder row are stutters.
It contains what `AnswersAgree` (idempotency) and `AuditMatchesRuns` say, which
are theorems of their own and in no run any more; nor is `DoneTasksMerged` of
`Orchestrator`, which follows from its `TodoBoard`.

### AuditLog (`audit.py`)

`ReadHead`, `Stamp`, `Flush`, `Commit`, `Abort` are the steps of `record` and
of the transaction around it; `Prune` is `prune_audit` with any cutoff,
`Snapshot` the head endpoint.  The hash is an injective constant operator, or
in the proofs any operator at all.  Two assumptions about the environment:
the clock that stamps rows does not run backwards, and retention, which is at
least 90 days, does not delete a row younger than the head a request in flight
has read (`OutlivesRequests`).  A prune that empties an org restarts its chain
at 1 (`emptied`); the properties exclude such orgs, because a stored head is
then rightly not found again.

`AuditTrail` has neither hashes nor heads: an entry comes next in its org's
trail, retention cuts what is older than all the rest, and a request makes one
entry.  Of an org that was emptied it promises only that numbers are unique
among the entries kept.  `Commit` is `Record`, `Prune` is `Cut`, everything
else is a stutter.

### JobQueue (`queue.ts`, `daemon.ts`, `abort-signal.ts`)

The three lists are sequences; an entry is a job id with a retry count, since
nothing else in the JSON tells entries apart.  Every awaited Redis command is
one step.  `Finish` is any way `runJob` can end.  A SIGTERM to a drain ends
the process and is a `LoseWorker`.  `MoveDead`, `StripMoved`, `PushReset` are
the three commands of one iteration of `requeueDeadJobs`.  The variable
`raced` counts the moves that lost the race described below; it is history
only.  `enqueueJob` is two commands, `Submit` (lPush) and `SetExpiry`; `ttl` says
whether the key of the queue list carries an expiry, which goes when the list
is empty (`KeyOfQueue`) and does not come back with what `abandonJob` or
`requeue-dead` push.  `Expire` deletes the list, at any time, and `expired` keeps
the jobs that were on it.  The workers hash is not modelled.

### Orchestrator (`orchestrator.ts`, `applier.ts`, `octokit.ts`, `snapshot.ts`)

One run at a time, and the runs that resume it.  A step leads from one await
to the next, because nothing else of the process runs in between; at an await
the user may quit and the process may die.  What models, hooks, tests, CI and
the user answer is any of the outcomes the code tells apart, and an option of
the command line (tests, CI, confirmation, rollback, dry run) is the choice
between doing a step and leaving it out.

| action | code |
|---|---|
| `Start` | `run`, `run --resume`: the state is the snapshot's, git is as it was left |
| `Clarify`, `List`, `PlannerAnswers`, `SubagentAnswers`, `PlannedClarify`, `AnswersGiven`, `PlannedList`, `PlannedReview` | the phases of `runPhases`, with `dispatchDelegates` |
| `Pick` | the choice of the next pending task |
| `Round`, `CoderAnswers`, `HookReturns`, `TestsRun` | one round of `runTaskLoop` up to the commit and the tests |
| `PushReturns`, `ReviewerAnswers`, `VerdictMirrored` | push and pull request, review, review posted |
| `CiReturns`, `ConfirmReturns`, `MergeReturns`, `Landed` | from the approval to the Planner's next review |
| `Abandon`, `RolledBack` | `rollbackTask` |
| `Quit`, `Throw`, `Crash` | `ui.onQuit`, an exception through `finally`, a killed process |

`head` and `remote` are sequences of commits: a task's branch starts from the
HEAD of the task before it (`checkout -B`), and a push moves a branch forward
only.  `late`, `dropped`, `sessions`, `faults` and `crashes` are history that
the properties refer to.  There is one repository with GitHub on; a task with
an unknown repository alias ends the run in `Pick`.  The pending list is taken
in any order.  A save fails only when the process dies, and failing to read git
at the start of a task is not modelled.

`TodoBoard` keeps of all this the status of each task, the saved statuses, the
task in hand and what was merged.  It says that a run takes pending tasks one
at a time, that "done" needs a merge or a call of GitHub that failed, that a
revised plan leaves the status of a task it keeps alone, and what each way to
end leaves for the next run.  `Board` maps `merged` to the tasks in it,
`faults` to whether there was one, and `pc` to whether a run is under way.

### Billing (`billing.py`, `routers/billing.py`)

Stripe keeps the truth (`stripe`), sends an event for every change
(`CompleteCheckout`, `Renew`, `Cancel`) and delivers any of them, any number of
times up to a bound, in any order (`Deliver`).  `Deliver` is one handler with
its commit: `Handled` gives the new row, `Targets` the org it looks up, none
when the handler returns early.  An event carries the fields the handlers read
at its top level, among them `object`: the one the handler of its type asks for,
or another.  (A real envelope of Stripe says "event" there and has the object
under `data`, so every handler would return; the model keeps both answers.)  A deletion leaves customer,
subscription and period in the row; `UsageMonth` and `Capped` are what the caps
read from it.
`DeliverStray` is an event of another
type, or a checkout that names no org.  `NextMonth` lets a usage
period end.  `disordered`, `doubled` and `blind` are history: an event that came
out of turn, an org that held two subscriptions, an org for which the look-up
at Stripe failed.

### RateLimit (`rate_limit.py`)

A unit is what one tick refills, so the floating-point rate becomes integers.
`Arrive` reads the clock, `Admit` and `Deny` are the locked part with its
reading.  The class says it is thread-safe and is modelled as that, with several
callers; the server has one, the event loop, where a reading is never older
than the bucket's last one.  `Watch` opens a window of observation at any moment;
`mark` and `admitted` belong to it.  `RetryAfter` is the code's
`max(1, int(x + 0.999))` in whole seconds of `Second` ticks: `Slack` stands for
the 0.999, and `Rounding` is what it lacks to a second.

### Access (`auth.py`, `routers/keys.py`, `routers/oauth.py`)

A request goes through the steps of its transaction: read the credential, use
it, act, take the next place in the audit trail, commit, answer.  Rows become
visible at `CommitRow`, which fails if another request took the place in the
trail (`PlaceTaken`).  `StartLogin`, `Callback`, `Exchange` are the login with
its state cookie; the browser's jar holds one session.

### Alerts (`alerts.py`, `notify.py`)

`StartLoop` and `StopLoop` are `start` and `stop`; a stop whose join times out
keeps the handle.  A loop checks the flag, computes one pass (`ComputePass`,
all SELECTs of one session), sends the findings one at a time and waits.  The
standard deviations are compared squared, in integers.  A finding keeps the
run, team or window it is about; its severity and text are left out.

### InstallTokens and BotPr (`github_app/`)

`InstallTokens`: `LookUp`, `Mint`, `Store` and `CallGitHub` are the steps of a
thread around the lock; hours pass between any two.  `Minted(t)` holds one pair
for each token that was minted while one of hour `t` is fresh.  `BotPr`: `Clone`,
`CommitClone`, `PushBranch`, `OpenRequest`, `Record` are the commands of one
attempt, `FailAttempt` ends it anywhere, `BaseMoves` are other people.  What
`git add -A` finds in a fresh clone is nothing or files with normalised line
endings, because the run's tree is not read.

### OneShot, PrefixCache, EmbedIndex, Latency

`OneShot`: a command checks the budget, opens its log, looks in the cache,
calls and is billed, writes the shared temporary file in two steps (truncate,
write), renames it, logs the cost; it may be killed anywhere, and `PurgeRuns`
may delete logs.  `Held` is the answer that was billed to a command and is in no
log yet; `unlogged` collects the ones that never will be.  Costs are integers
up to `MaxCost`, and `Dollars` counts one pair for each unit of each call, so
that a sum of costs is a cardinality.  `PrefixCache`: a call compares what it read with the record
on file, which it loaded before, and saves its own.  `EmbedIndex`: a builder
walks the tree file by file, flushes batches, dies or goes on after an error
as the code tells; users edit, change the model, clear, export and import.
`Latency`: `Record` and `Percentile`, nothing else.

### One run for several parts: MCServices, MCLoops, MCRaceStream

These parts share no state, so one run checks several of them: the variable
`active` names the part whose behaviour this is, and the other parts stay as
they begin.  The state space is the sum of the parts, not the product, and a
property of one part holds trivially while another one is active.  `MCServices`
has the parts of which only safety is asked.  `MCLoops` has those with a progress
to make; its `Queue` is an instance of `JobQueue`, and `LoopsSpec` gives each part
the fairness of its own module.  `MCRaceStream` is two instances of one module: `part` says
whether both workers race for the first two runs, or the first one serves the
stream.

## 4. The runs

| run | instance | states | question |
|---|---|---|---|
| `RunQueueOneWorker` | 3 runs, 2 orgs, 2 tiers, all origins, 1 worker, 1 loss | 1 470 000 | does one worker follow `RunLifecycle`, respect the cap and close check-runs? |
| `RunQueueRaceStream` | 2 runs of one org, 2 workers, 2 losses; and 3 runs whose names are used again, 2 orgs, 1 worker, 1 loss | 566 000 | what survives racing workers: FIFO up to late commits, a bound on executions, no orphan without a loss; what can keep a run waiting for ever, under endless submissions? |
| `RunQueueTwoWorkersRace` | 2 runs of one org, 2 workers, no loss | | the documented linear progression: **violated** |
| `JobQueueSafety` | 2 jobs, or 1 and a malformed entry, 1 daemon, 1 drain, 1 requeue, 1 failure, 1 signal, expiry at any time | 3 120 000 | one live copy, losses only by failure or expiry, strandings only by failure, bounded runs |
| `JobQueueDoubleClaim` | 1 job, 2 daemons, 1 requeue, no failure | | "no two workers will claim the same job": **violated** |
| `Orchestrator` | 2 tasks, 1 clarification, 2 rounds, 2 delegations, 1 resumed run, 1 failed GitHub call or lost process | 1 140 000 | what is merged, marked done or repeated, what a quit can still cost, does the list follow `TodoBoard`, does a run end |
| `Services` | `Billing`, `RateLimit`, `Access`, `OneShot`, `PrefixCache`, `AuditLog`, `InstallTokens` | 2 240 000 | does an org's row follow Stripe, do windows hold, do revocations hold and the trail tell them, are answers whole and the cap kept, are warnings earned, does the chain verify and follow `AuditTrail`, are tokens valid and few |
| `Loops` | `Alerts`, `BotPr`, `EmbedIndex`, `RunSubmit` (3 requests of one org, two with one key), `JobQueue` (1 job, 1 malformed entry, no failure) | 200 000 | one alert loop that goes on, reviewed branches stay, the index catches up, every request is answered and handled as if it were alone (`Submissions`: idempotency, run and audit entry together), jobs settle |
| `OrchestratorUnapproved` | 1 task, 2 rounds, no failure | | "Only approved diffs get merged": **violated** |
| `BotPrUnpublished` | 2 runs, 2 attempts | | an attempt without a failure opens a pull request: **violated** |
| `EmbedIndexMixed` | 2 files, 2 models, no outage | | "`--smart-context` should never abort a run by itself": **violated** |
| `LatencyPercentiles` | 3 buckets, 4 requests | | a percentile is a bound this share kept: **violated** |

Bounds.  The numbers of processes and rows are the smallest in which the races
exist: two workers for a double claim, two requests with one key plus a third
that competes for the audit number and the placeholder, three recorders of one
org so that one can fail between two others, and a second org to see that it
is left alone.  `MaxLosses`, `MaxFailures`, `MaxSignals`, `MaxRequeues` bound
how often the environment interferes; each is a guard of one action and a name
in the configuration.  `Orchestrator` has two tasks, so that one is stacked on
the other, two rounds, so that a rejected commit precedes an approved one, and
two sessions; `MaxTroubles` bounds its failed calls and lost processes
together.  It stops when the last session has ended.  `MaxConcurrent` is 1 and
2 instead of 1, 4 and 16, and `MaxRetries` 1 or 2 instead of 3: the comparisons
reach their limit with three runs.  The two jobs of `JobQueueSafety` are
symmetric, as nothing but their names tells them apart; a malformed entry comes
beside one of them only (`Few`).  The instance of `RunSubmit` has one org, so
that orgs do not share keys is shown by the definition of `SameKey` and by the
proof, not by the run.

In `Services`, `Billing` has two subscriptions of one org, one of another,
three events and two deliveries of each: enough for a second subscription, for
an event that overtakes another and for a repeated one.  `RateLimit` has a
capacity of 9 for requests of 5, six ticks, so that a bucket that kept filling up
would pay for two requests at once, and seconds of three ticks with a `Slack` of
one (the code's 0.999 of a second is nearer to two: the model shortens the
waiting time by a third of a second where the code does by a thousandth, so that
the rounding matters within six ticks).  `Access` has two keys, a session and two
requests in flight, an audit trail of three entries: a revocation, a use and a
creation can overlap.  `OneShot` has two processes, two efforts of one prompt
and three billed calls against a cap worth one; `PrefixCache` two commands, two
versions of a prompt, two records.  The recorders of `AuditLog` are four, of
two orgs; `InstallTokens` has a lifetime of 5 hours with a buffer of 2, so that a
token is replaced twice.  In `Loops`, `Alerts` has three runs, so that a baseline, a
regression and a burn rate exist, two loops and `Sigma` 1;
`BotPr` two attempts of each run and a base that moves once; `EmbedIndex` two
files, two models, two acts of users and one outage.

Deadlock checking is off where the system may really stop: when a session of
`Orchestrator` was the last, and in `Services`, `Loops` and the small violation
runs, whose clocks, events, requests and edits run out.

`StarvedOnlyByPriority` has three ways out, and each happens.  A stream of a
higher tier passes a run for ever, as `_claim_one` intends.  A lost worker leaves
its run's row running, and that row keeps a seat of the org: with the free
tier's one seat, the org is never served again.  And the worker may be lost with
the run itself.  Three names are enough for a stream of the run's own org beside
a stream of another.

## 5. Fairness

* `RunQueue`: weak fairness of each worker's next step.  The loop of
  `WorkerThread` polls for ever, HTTP clients have timeouts, the runner
  returns or raises.  Nothing is assumed of clients, Stripe, crashes; nor is
  `RaceOrStream` fair to `Reuse` or `Submit`: the stream may stop, or never end.
* `RunSubmit`: weak fairness of a handler's next step.  A request handler
  runs on its own thread and only waits for a row lock, whose owner is another
  handler.  That waiting is the point of `RequestsAnswered`.
* `JobQueue`: weak fairness of a running process's next step, of the restart
  of a daemon (it is documented to run under a supervisor), and of the rest of
  a move once begun.  Drains are started by hand: no fairness.
* `Alerts`: weak fairness of each loop's next step: a thread runs, database and
  HTTP calls return or raise.  Nobody need start or stop it.
* `EmbedIndex`: weak fairness of the watch's next step, and nothing of users,
  the second builder or the endpoint, whose outages are bounded.
* `LoopsSpec` states these two and the ones of `RunSubmit` and `JobQueue` once
  more, each for the part that is active.  The other parts of `Services` and
  `Loops` have safety properties only.
* `Orchestrator`: weak fairness of the steps of a running process, which says
  that models, hooks, tests, git and GitHub answer or fail in the end.  Nothing
  is assumed of the user, so that a run may wait for one for ever, and nobody
  need start or resume a run.

## 6. What the checks found

Each is a finding in `PROJECT.json`, with the quoted line and a run that shows
it.

1. Two workers on one database can both claim a row; the slower one takes a
   finished run back to `running` and pays for it again.
2. `requeueDeadJobs` shows the dead entry to the workers before it replaces
   it: two workers can run one job without any failure.
3. The pull request of a run is built from a fresh clone in which the run's
   changes are not: an attempt that meets no failure ends in "no changes".
4. After a change of the embedding model the rows of unchanged files keep the
   old dimension, and the next `--smart-context` run ends with an uncaught
   `ValueError`.
5. The latency histogram counts cumulatively when recording and sums again
   when reading: the percentiles shown are too low.
6. "Only approved diffs get merged" (`claw-squad/README.md:158`): a commit that
   failed its tests or was rejected stays on the branch.  The Reviewer reads the
   diff of the commit after it, and the merge brings in both.

Some disagreements and limits have no run of their own.  Those marked P are
built into a condition of a property, as said there.

* Runs.  The runbook (`runbook.md:77`) has in-flight runs claimed again after
  a restart; nothing does it, and a lost worker's row keeps its seat (P,
  `OrphansAreLosses`).  A retry under an idempotency key is answered 402 when
  the org reached its token cap in the meantime (`runs.py:99-105`; `Refuse` of
  `Submissions` allows it).  Runs of one org leave the queue in the order of
  their stamps, which two racing requests may commit the other way round (P,
  `FifoPerOrg`).  The
  `serve worker` process ends its daemon thread on SIGTERM with the run under
  way still `running`.
* claw-squad.  SIGINT during a job exits the process at once, though
  `daemon.ts:18` says the call finishes; the job stays in the processing list
  (P, `StrandedJobsAreFailures`).  The 7-day expiry is set on the whole queue, not
  on a job: a queue nobody submits to for a week vanishes with every job that
  waits (P, `JobsVanishByFailure`).  Even the last commit of a task may be merged
  without approval: when the push of a second round fails, the error is logged,
  the Reviewer approves the local commit, and the merge takes the rejected one
  that GitHub still holds (P, `MergedTipsApproved`).  An
  interrupted task is not taken up again, and its commits lie under the next
  branch (P, `CompleteIsComplete`).
* Billing.  An org that cancelled keeps the period of its last subscription
  (`routers/billing.py:407`), so the free cap counts that month for ever, where
  `billing.py:200-202` says a free org is measured in the calendar month (P,
  `BillingFollowsStripe`).  The handlers compare `event.get("object")` with the
  type of the object inside the event (`routers/billing.py:293, 360, 392, 423,
  453`); what does not match is answered with success and leaves no row and no
  audit entry (P, `BillingFollowsStripe`, whose `UpToDate` leaves such orgs out),
  where `docs/billing.md:75-77` says each successful delivery leaves one.  Events
  are not deduplicated; `past_due` is cleared by an update
  event only; the deletion of an old subscription downgrades an org that has
  opened another (P: the orgs in `doubled` and `disordered`).  Handlers read
  fields of the event at its top level, which is where the models have them.
  The checkout endpoint calls a `create_stripe_checkout_session` that is
  defined nowhere.  A customer id shared by two orgs raises.
* Access.  `serve add-key` writes no audit row; a logout's answer may delete
  the cookie of a newer login; two login tabs overwrite one state cookie.
* Rate limiter.  `Retry-After` is cut, not rounded up, below a thousandth of a
  second, and a client that waits just that long is denied again (P,
  `RetryAfterSuffices`, which grants it the rest).  `request.state.principal` is never set, so every key is an
  address; buckets are never evicted.  The clock is read outside the lock, which
  no caller of today can notice.
* Tokens and pull requests.  `invalidate` has no caller.  The timeouts of an
  attempt add up to some 460 s, more than the refresh buffer of 300 s, so a
  late call may hold an expired token (P, `CallsAuthorised`).  "Unique branch
  name per run so retries create a new branch" is contradicted: a retry meets
  the branch of the first attempt.
* Alerts.  A deviation of a run in its own baseline is at most sqrt(n-1), so
  two sigmas are never reached below five runs though `MIN_BASELINE_RUNS` is 3.
  An `IntegrityError` in `get_or_default`, or a Slack transport error, loses
  the rest of the pass.  A run fires again in each pass of its day.  A `start`
  during a stop that timed out returns early and the flag stays set: then no
  loop is left (P, `PassesGoOn`).
* Command line.  The answer cache's temporary file is shared per key, so a
  half-written file may stay at the canonical path; a replay is logged with
  the original cost and counts against the cap; calls that end in an SDK error
  are billed and not logged (P, `CapHolds`).  Overlapping first calls, or a
  call of more than ten minutes, give a false miss warning (P,
  `WarningsAreEarned`).  Deleted files stay in the index; the watch dies of
  "database is locked" (P, `WatchCatchesUp`).

## 7. What is proved

Every safety property that a passing run checks is a theorem, and so are the
action property and the refinements of the four abstract specifications.  They hold
for any number of workers, requests, recorders, orgs, runs, jobs, tasks, threads
and processes.  The assumptions are the `ASSUME` of each module and nothing else: types of the constants, "no such" values that are none of
the real ones, and that the sets of processes, requests or tasks which a
bound counts are finite.  `SingleWorker`, where a theorem has it as a
hypothesis, is the deployment that the documentation of the worker describes.
Each invariant named here was checked by TLC on the instance of its run before
it was proved.

**`RunQueueProofs`.**

* `TypeCorrect`; `FifoWithinOrg`: `[]FifoPerOrg`.  FIFO is not inductive: a
  worker that chose a run and has not yet claimed it holds stale knowledge.
  `HeldRunsAreHeads` says that the run a worker holds is older than every other
  waiting run of its org, but for those whose commit came too late (`leaps`).  The
  choice establishes it (`ChosenIsHead`: runs of one org share the concurrency
  count and the priority, so all of them were eligible), and it stays true while
  the choice grows stale: rows leave the queue, join it behind, or join it ahead
  and are noted in `leaps`.
* `ExecutionsAreBounded`: `[]ExecutionsBounded`.  A run that was executed is
  out of the queue for good (`ExecutionInv`), so nobody chooses it again; from
  then on each execution uses up one of the workers that held it before, and
  executions and those workers together are at most the workers.
* `OrphansAreCounted`: `[]OrphansAreLosses`.  The bound is inductive with the
  types; each step is shown to add no orphan, but for `LoseWorker`, which adds
  at most one.
* With `SingleWorker`: `CapIsRespected`: `[]ClaimsRespectCap`, from the count of
  running rows at `selected` (`CapInv`).  `OneWorkerKeepsThePromise`:
  `RunsFollowLifecycle`, the refinement: `LifeInv` says what the worker knows
  of the run it holds in each phase, and with it each action is one action of
  `RunLifecycle` or a stutter.  `CheckRunsEndClosed`: `[]CheckRunsClosed`, from
  `CheckInv`, which follows a check-run through being due, open and closed.

**`AuditLogProofs`.**  `AuditTypeCorrect`, `ChainVerifies`,
`RetentionCutsNotTears`, `StoredHeadsHold`.  The rows of an org are an interval
of numbers, linked and stamped in order, and a draft built on a head is either
the next row or doomed to hit the unique index.  `RecordsKeepTheTrail`:
`RecordsFollowTrail`, the refinement of `AuditTrail`.  At a commit a draft that
is not doomed is above every row of its org in number and stamp (`FreshIsTop`);
at a prune the rows are stamped in the order of their numbers, so the expired
ones are the first.

**`RunSubmitProofs`.**  `SubmitTypeCorrect`; `SubmitIsIdempotent`:
`[]AnswersAgree`, from `KeysUnique` (no two rows under one key, committed or
not), `CommitsKnown` and `NamesOwnRun`; `AuditFollowsRuns`:
`[]AuditMatchesRuns`, from `AtTheEnd`: a flushed entry is the next one of its
chain, and at most one entry of an org is flushed at a time.
`RequestsAreAtomic`: `HandledAsIfAlone`, the refinement of `Submissions`, from
`AloneInv`: `KeysUnique`, `CommitsKnown`, the invariant of the audit entries,
and that a request under way has not been answered (`Unanswered`).  With them a
`Commit` adds one entry to the trail of its org, with the next number, and an
answer names a run that is in the table.

**`JobQueueProofs`.**  First lemmas on how often a job occurs in a list when an
entry is put on it, popped or removed (`RemoveFirst` takes the least index,
which is there by well-foundedness).

* `QueueTypeCorrect`; `OneCopyLives`: `[]OneLiveCopy`.  For every action, how the
  number of live copies over the lists and the workers changes.  `Conserved`
  says that it is at most one more than `raced`, and nothing for a job never
  submitted; the second half needs, and gives, that the entry `requeue-dead`
  is moving was submitted.
* `LossNeedsFailure`: `[]JobsVanishByFailure`.  `ClaimInv`: a worker's job is on
  the processing list as often as workers have to take it out (`Covered`), and
  a job that ended well is complete.  A job is then found wherever `Tracked`
  looks for it, and only a failing or dying step can leave it nowhere, or the
  expiry of the queue, which takes the jobs on that list and no other
  (`TrackedOnLapse`).
* `StrandingNeedsFailure`: `[]StrandedJobsAreFailures`.  Being stranded is the
  last stage of being at risk: two claims of one job, two live copies, or a
  worker about to remove an entry that is gone (`Risk`).  A job enters that
  state only when a failure, a signal or a raced requeue is counted.
* `RunsAreBounded`: `[]RunsBounded`.  A bound on runs says nothing of the retries
  that wait, so `DueInv` counts both: a copy of a job in the queue or in a
  worker's hands is worth the runs it is still good for, a worker that is running
  it one less, and an entry that `requeue-dead` is moving what the reset will give
  back.  The runs of a job and the worth of its copies are at most what was paid:
  `MaxRetries` for its submission and for each requeue, and one run for each raced
  one.  A requeue pays its full price only because every dead entry is exhausted
  (`Spent`), which is part of the invariant.

**`OrchestratorProofs`.**  `RunsAreControlled`: the types, and `Control`: which
task, phase of the plan and branch each await belongs to.  `HowRunsEnd` then
splits every step into one that goes on and one of the ways to end a run, and
each property has an invariant of its own.

* `BudgetIsKept`: `[]BudgetOvershoot`.  `LateInv`: a call that came too late is
  one whose answer is checked next, and no other await is reached from there.
* `DoneIsMerged`: `[]DoneTasksMerged`; `DoneInv` adds to the property that at
  `landed` the task was merged.
* `CompleteRunsAreComplete`: `[]CompleteIsComplete`.  `CompleteInv` counts the
  tasks begun and not done: one for each run that ended in the middle of a
  task, and that of the present run only between `Pick` and `landed`; the same
  for the snapshot.
* `WorkIsMergedOnce`: `[]MergedOnce`.  `MergeInv`: a task that is not on the list
  as begun has only the merges that a crash or the Planner made it forget.
* `OnlyApprovedWorkMerges`: `[]MergedTipsApproved`.  `ApprovedInv`: a task begins
  on a HEAD in which the last commit of every task was approved, changes that
  for itself only, and what GitHub holds from the push on is HEAD.
* `RunsKeepTheBoard`: `RunsFollowBoard`, the refinement of `TodoBoard`.
  `BoardInv`: no task is in hand outside of the loop of a task.  With it, the
  control and `DoneInv`, each of the ways a run can end is a `Stop` or `Die`, and
  every other step one action of `TodoBoard` or a stutter.

**`ServicesProofs`.**

* `RevocationsHold`: `[]ConfirmedRevocationsHold`.  Only a commit that writes
  "active" could undo a revocation; a request that may write it is alone with
  its credential (`Alone`), for which there is no row yet (`Grounded`).
* `TrailTells`: `[]TrailTellsCredentials`.  `TrailInv` counts the entries of a
  credential with the requests that are still about to revoke it: from the
  first revocation on no other begins to, so the sum stays within the number
  of requests.
* `WarningsHaveACause`: `[]WarningsAreEarned`.  `RecordVouches`: unless the call on
  record took too long or the provider dropped a prefix since it began, the
  provider has kept the prefix from near the time of the record on.
* `AnswersAreOfThisRequest`: `[]AnswersFit`.  `FilesFit`: whatever overlapping
  processes leave in a file of a key is an answer to that key's request, or
  cannot be read.
* `CapIsKept`: `[]CapHolds`.  Every billed call is in a log, in `unlogged`, or in
  the hand of one process (`HandsApart`, `Accounted`); a process that passed
  the check and is still to be billed counts with `MaxCost` (`Covered`).
* `TenantsKeepApart`: `[]TenantsStayApart`; `RowsFollowStripe`:
  `[]BillingFollowsStripe`.  What Stripe sends about an org that never held two
  subscriptions at a time is a chain in which each event but a checkout
  follows one about the same subscription (`Chained`); handled in that order,
  each finds the row its predecessor left (`RowFollows`), with the customer it
  needs.  `PeriodKept` adds what the row's period is: the one Stripe reports for
  the subscription bought last, live or not, which is what a deletion leaves to
  the free caps.  Orgs with an event whose object was not the handler's are
  excluded (`Served`).

**`RateLimitProofs`.**  `RateInvariant`, `WindowTheorem`: `[]WindowBounded`,
`RetryAfterTheorem`: `[]RetryAfterSuffices`.  The window is bounded because what
a bucket still holds and what it has let through since the window opened
never exceed the capacity and the elapsed ticks (`Paid`): a stale reading of
the clock moves the level and the time of the last refill back together.  A
client that comes after the rounded seconds and `Rounding` finds a token:
`RoundingBound` is the arithmetic of the division.

**`LoopProofs`.**

* `OneLoopTheorem`: `[]OneLoop`.  A loop that lives is the one `start` holds a
  handle of.
* `CallsStayAuthorised`: `[]CallsAuthorised`.  A token in hand was fresh at the
  time its thread read.
* `MintsStayFew`: `[]MintsBounded`.  The bound alone is not inductive, because an
  older answer that is stored over a new token makes every look-up fail again.
  `MintInv` counts the tokens minted while one of hour `t` is fresh, plus one for
  every thread that may mint now and `n` for every one of the `n` threads that
  holds an older answer: a mint moves one from the last two to the first, a
  store of an older answer pays for all the threads it sends to mint.
* `NoiseStaysBounded`: `[]NoiseBounded`, that a share of at most one in
  1 + `Sigma`^2 of the runs counts as a regression.  The sums over the runs are
  folds, and what a fold computes for every set is not provable here by
  induction.  Each fold is shown to obey its equation by a least counterexample
  instead.  The rest is Cantelli's inequality in integers: the squared distances
  of all runs from a line are at least those of the runs that stand out.
* `ReviewedBranchTheorem`: `ReviewedBranchStays`, an action property.  A branch
  with a pull request is there, so a push of the same name is refused.

Only model-checked:

* the liveness properties (`StarvedOnlyByPriority`, `RequestsAnswered`, `JobsSettle`,
  `RunEnds`, `PassesGoOn`, `WatchCatchesUp`), which rest on fairness, and the
  violations, which need one behaviour: both are out of the prover's reach.

`EmbedIndex` and `Latency` have no theorem: the first is about catching up, the
second has one property, which is violated.  The type invariants of `RunQueue`,
`RunSubmit`, `AuditLog`, `RateLimit` and `JobQueue` are theorems and in no run,
and so are the three invariants that a refinement contains (section 3).

## 8. Not modelled

Section 1 and the notes of `PROJECT.json` say what is left out.  In short:
formatting, parsing of model answers, HTTP shapes and cryptography stay
outside, as do launchers whose subject is the operating system, and editor
plugins and SDKs, which are clients.  The rest of point 8 of the plan is small
and could be added: the worker registry is displayed and decides nothing, the
prompt slot holds one promise, and `waitForCi` is one step of `Orchestrator`
with three outcomes.  Calendar months do not end in `OneShot`, billing periods
do not end in `RunSubmit` (they do in `Billing`).  `get_or_default` writing a
placeholder row is modelled although `billing.py` calls the row "Created
lazily on first checkout".

Run a check with `tlc -config RunQueueOneWorker.cfg MCRunQueue.tla` and a proof
with `tlapm RunSubmitProofs.tla`.
