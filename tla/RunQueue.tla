------------------------------ MODULE RunQueue ------------------------------
(***************************************************************************)
(* The background runner of the HTTP daemon (server/worker.py) and the     *)
(* `runs` table it shares with the API.  API requests and GitHub webhooks  *)
(* insert queued rows; a worker reads the queue, picks a row, marks it     *)
(* running, opens a GitHub check-run, calls the runner, stores the outcome *)
(* and reports it back to GitHub.  A row gets its created_at when the      *)
(* session builds its INSERT and can be read after the commit, so that     *)
(* rows may become visible out of the order of their stamps.  Reading the  *)
(* queue and committing the claim are two steps, because _claim_one takes  *)
(* no lock between its SELECTs and its UPDATE; every remote call is a step *)
(* of its own, and a worker may be lost between any two of them.           *)
(***************************************************************************)
EXTENDS Naturals, FiniteSets

CONSTANTS
    Runs,           \* the runs that are ever submitted
    Orgs,
    Workers,        \* processes that call process_pending_run on the same DB
    RunOrg,         \* [Runs -> Orgs], the tenant a run belongs to
    Origin,         \* [Runs -> Origins], how the run was submitted
    Tiers,
    MaxConcurrent,  \* SANDBOX_LIMITS[tier].max_concurrent_runs
    Priority,       \* TIER_PRIORITY[tier]
    MaxLosses,      \* bound: how many times a worker may be lost
    NoRun

Origins == {"api", "comment", "pull_request"}

ASSUME RunQueueAssumption ==
    /\ IsFiniteSet(Runs) /\ IsFiniteSet(Workers)
    /\ RunOrg \in [Runs -> Orgs]
    /\ Origin \in [Runs -> Origins]
    /\ MaxConcurrent \in [Tiers -> Nat]
    /\ Priority \in [Tiers -> Nat]
    /\ MaxLosses \in Nat
    /\ NoRun \notin Runs

VARIABLES
    \* the database
    status,     \* runs.status, "absent" before the insert
    created,    \* runs.created_at, as the position of the stamp; 0 before it
    clock,      \* the next value of created_at
    tier,       \* subscriptions.tier
    checkId,    \* runs.github_check_run_id, 0 for NULL
    leaps,      \* no column: <<s, r>> when s of r's org was taken before the
                \* older r was committed
    \* a worker's local state
    pc,         \* where it stands in process_pending_run
    job,        \* the Run object it holds
    seats,      \* the limit _claim_one read for the chosen run's org
    check,      \* the check-run id on its Run object
    outcome,    \* the terminal status it gave the run
    \* the outside world
    attempts,   \* calls of the runner per run
    github,     \* what GitHub shows for the run
    fault,      \* a call about the run failed, or its worker was lost
    losses

dbVars    == <<status, created, clock, tier, checkId, leaps>>
workerVars == <<pc, job, seats, check, outcome>>
worldVars == <<attempts, github, fault, losses>>
vars      == <<dbVars, workerVars, worldVars>>

Terminal == {"done", "failed"}
Statuses == {"absent", "queued", "running"} \cup Terminal
Phases   == {"idle", "selected", "claimed", "ready", "executing",
             "verdict", "check", "pr"}

\* What GitHub shows: how many check-runs were created (numbered from 1), the
\* ones still in progress, verdict comments, and the bot's pull requests.
GitHubView == [checks : Nat, open : SUBSET Nat, verdicts : Nat, prs : Nat]

NothingShown == [checks |-> 0, open |-> {}, verdicts |-> 0, prs |-> 0]

Init ==
    /\ status = [r \in Runs |-> "absent"]
    /\ created = [r \in Runs |-> 0]
    /\ clock = 1
    /\ tier \in [Orgs -> Tiers]
    /\ checkId = [r \in Runs |-> 0]
    /\ leaps = {}
    /\ pc = [w \in Workers |-> "idle"]
    /\ job = [w \in Workers |-> NoRun]
    /\ seats = [w \in Workers |-> 0]
    /\ check = [w \in Workers |-> 0]
    /\ outcome = [w \in Workers |-> "none"]
    /\ attempts = [r \in Runs |-> 0]
    /\ github = [r \in Runs |-> NothingShown]
    /\ fault = [r \in Runs |-> FALSE]
    /\ losses = 0

-----------------------------------------------------------------------------
(* The other writers of the database.                                      *)

\* create_run or the GitHub webhook flushes a new row: the INSERT carries the
\* time at which the session built it, and waits for the database.
Stamp(r) ==
    /\ created[r] = 0
    /\ created' = [created EXCEPT ![r] = clock]
    /\ clock' = clock + 1
    /\ UNCHANGED <<status, tier, checkId, leaps, workerVars, worldVars>>

\* The runs a worker has already chosen, or that have left the queue.
Taken ==
    {s \in Runs : \/ status[s] \notin {"absent", "queued"}
                 \/ \E w \in Workers : pc[w] = "selected" /\ job[w] = s}

\* The younger runs of the org that r's commit comes too late for.
Leapt(r) == {s \in Taken : RunOrg[s] = RunOrg[r] /\ created[r] < created[s]}

\* The transaction of the stamped row commits; one that fails never does.
Submit(r) ==
    /\ status[r] = "absent" /\ created[r] # 0
    /\ status' = [status EXCEPT ![r] = "queued"]
    /\ leaps' = leaps \cup {<<s, r>> : s \in Leapt(r)}
    /\ UNCHANGED <<created, clock, tier, checkId, workerVars, worldVars>>

\* A Stripe event changes the org's subscription.
ChangeTier(o, t) ==
    /\ tier[o] # t
    /\ tier' = [tier EXCEPT ![o] = t]
    /\ UNCHANGED <<status, created, clock, checkId, leaps, workerVars, worldVars>>

-----------------------------------------------------------------------------
(* _claim_one.                                                             *)

\* Mutant of Queued: rows that are already running are offered again.
QueuedOrRunning == {r \in Runs : status[r] \in {"queued", "running"}}

Queued == {r \in Runs : status[r] = "queued"}

RunningOf(o) == {r \in Runs : status[r] = "running" /\ RunOrg[r] = o}

OrgLimit(o) == MaxConcurrent[tier[o]]

\* Mutant of Eligible: the cap is compared with <=.
EligibleOneTooMany ==
    {r \in Queued : Cardinality(RunningOf(RunOrg[r])) <= OrgLimit(RunOrg[r])}

\* Mutant of Eligible: the run about to start is counted as running.
EligibleOneTooFew ==
    {r \in Queued :
        Cardinality(RunningOf(RunOrg[r])) + 1 < OrgLimit(RunOrg[r])}

Eligible ==
    {r \in Queued : Cardinality(RunningOf(RunOrg[r])) < OrgLimit(RunOrg[r])}

RunPriority(r) == Priority[tier[RunOrg[r]]]

\* Mutant of Before: the newest row of a priority goes first.
BeforeNewestFirst(r, s) ==
    \/ RunPriority(r) > RunPriority(s)
    \/ RunPriority(r) = RunPriority(s) /\ created[r] > created[s]

\* Tier priority first, FIFO within a priority.
Before(r, s) ==
    \/ RunPriority(r) > RunPriority(s)
    \/ RunPriority(r) = RunPriority(s) /\ created[r] < created[s]

\* The SELECTs and the choice, made on what the database holds now.
SelectNext(w) ==
    /\ pc[w] = "idle"
    /\ \E r \in Eligible :
        /\ \A s \in Eligible \ {r} : Before(r, s)
        /\ job' = [job EXCEPT ![w] = r]
        /\ seats' = [seats EXCEPT ![w] = OrgLimit(RunOrg[r])]
    /\ pc' = [pc EXCEPT ![w] = "selected"]
    /\ UNCHANGED <<dbVars, check, outcome, worldVars>>

\* UPDATE runs SET status = 'running' WHERE id = ...: the row's status is
\* not read again; session.refresh then reloads the row.
CommitClaim(w) ==
    /\ pc[w] = "selected"
    /\ status' = [status EXCEPT ![job[w]] = "running"]
    /\ check' = [check EXCEPT ![w] = checkId[job[w]]]
    /\ pc' = [pc EXCEPT ![w] = "claimed"]
    /\ UNCHANGED <<created, clock, tier, checkId, leaps, job, seats, outcome,
                   worldVars>>

-----------------------------------------------------------------------------
(* process_pending_run, after the claim.                                   *)

\* GitHub creates a check-run in progress.
CheckCreated(r) ==
    github' = [github EXCEPT ![r].checks = @ + 1,
                             ![r].open = @ \cup {github[r].checks + 1}]

\* Mutant of CheckStored: the returned id stays off the Run object.
CheckStoredNowhere(w) == UNCHANGED <<checkId, check>>

CheckStored(w) ==
    LET id == github[job[w]].checks + 1 IN
    /\ checkId' = [checkId EXCEPT ![job[w]] = id]
    /\ check' = [check EXCEPT ![w] = id]

\* The in-progress check-run: opened and its id stored; created by GitHub
\* but the answer lost; refused; or skipped, without a head SHA.
OpenCheckRun(w) ==
    LET r == job[w] IN
    /\ pc[w] = "claimed"
    /\ \/ /\ Origin[r] = "pull_request"
          /\ CheckCreated(r)
          /\ CheckStored(w)
          /\ UNCHANGED fault
       \/ /\ Origin[r] = "pull_request"
          /\ CheckCreated(r) \/ UNCHANGED github
          /\ fault' = [fault EXCEPT ![r] = TRUE]
          /\ UNCHANGED <<checkId, check>>
       \/ /\ Origin[r] # "pull_request"
          /\ UNCHANGED <<checkId, check, github, fault>>
    /\ pc' = [pc EXCEPT ![w] = "ready"]
    /\ UNCHANGED <<status, created, clock, tier, leaps, job, seats, outcome,
                   attempts, losses>>

Invoke(w) ==
    /\ pc[w] = "ready"
    /\ attempts' = [attempts EXCEPT ![job[w]] = @ + 1]
    /\ pc' = [pc EXCEPT ![w] = "executing"]
    /\ UNCHANGED <<dbVars, job, seats, check, outcome, github, fault, losses>>

\* Mutant of Recorded: the row is left running when the runner ends.
RecordedNowhere(r, t) == UNCHANGED status

Recorded(r, t) == status' = [status EXCEPT ![r] = t]

\* The runner returned (done) or raised (failed); the outcome is committed.
StoreOutcome(w) ==
    /\ pc[w] = "executing"
    /\ \E t \in Terminal :
        /\ Recorded(job[w], t)
        /\ outcome' = [outcome EXCEPT ![w] = t]
    /\ pc' = [pc EXCEPT ![w] = "verdict"]
    /\ UNCHANGED <<created, clock, tier, checkId, leaps, job, seats, check,
                   worldVars>>

\* The verdict comment: posted, failed, or skipped for an API run.
PostVerdict(w) ==
    LET r == job[w] IN
    /\ pc[w] = "verdict"
    /\ \/ /\ Origin[r] # "api"
          /\ github' = [github EXCEPT ![r].verdicts = @ + 1]
          /\ UNCHANGED fault
       \/ /\ Origin[r] # "api"
          /\ fault' = [fault EXCEPT ![r] = TRUE]
          /\ UNCHANGED github
       \/ Origin[r] = "api" /\ UNCHANGED <<github, fault>>
    /\ pc' = [pc EXCEPT ![w] = "check"]
    /\ UNCHANGED <<dbVars, job, seats, check, outcome, attempts, losses>>

\* process_pending_run returns; the loop starts its next iteration.
Released(w) ==
    /\ pc' = [pc EXCEPT ![w] = "idle"]
    /\ job' = [job EXCEPT ![w] = NoRun]
    /\ seats' = [seats EXCEPT ![w] = 0]
    /\ check' = [check EXCEPT ![w] = 0]
    /\ outcome' = [outcome EXCEPT ![w] = "none"]

\* After the check-run only a done run goes on to open a pull request.
AfterCheck(w) ==
    \/ /\ outcome[w] = "done"
       /\ pc' = [pc EXCEPT ![w] = "pr"]
       /\ UNCHANGED <<job, seats, check, outcome>>
    \/ outcome[w] = "failed" /\ Released(w)

\* PATCH the stored check-run, or POST a completed one when no id was stored.
CompleteCheckRun(w) ==
    LET r == job[w] IN
    /\ pc[w] = "check"
    /\ \/ /\ Origin[r] = "pull_request" /\ check[w] # 0
          /\ github' = [github EXCEPT ![r].open = @ \ {check[w]}]
          /\ UNCHANGED fault
       \/ /\ Origin[r] = "pull_request" /\ check[w] = 0
          /\ github' = [github EXCEPT ![r].checks = @ + 1]
          /\ UNCHANGED fault
       \/ /\ Origin[r] = "pull_request"
          /\ fault' = [fault EXCEPT ![r] = TRUE]
          /\ UNCHANGED github
       \/ Origin[r] # "pull_request" /\ UNCHANGED <<github, fault>>
    /\ AfterCheck(w)
    /\ UNCHANGED <<dbVars, attempts, losses>>

\* The bot's pull request: opened, failed, or skipped without a base branch.
OpenPr(w) ==
    LET r == job[w] IN
    /\ pc[w] = "pr"
    /\ \/ /\ Origin[r] = "pull_request"
          /\ github' = [github EXCEPT ![r].prs = @ + 1]
          /\ UNCHANGED fault
       \/ /\ Origin[r] = "pull_request"
          /\ fault' = [fault EXCEPT ![r] = TRUE]
          /\ UNCHANGED github
       \/ Origin[r] # "pull_request" /\ UNCHANGED <<github, fault>>
    /\ Released(w)
    /\ UNCHANGED <<dbVars, attempts, losses>>

\* The process dies and is restarted, or a database error ends the iteration:
\* the worker forgets its run and polls again; the row stays as it is.
LoseWorker(w) ==
    /\ losses < MaxLosses
    /\ pc[w] # "idle"
    /\ losses' = losses + 1
    /\ fault' = [fault EXCEPT ![job[w]] = TRUE]
    /\ Released(w)
    /\ UNCHANGED <<dbVars, attempts, github>>

-----------------------------------------------------------------------------

WorkerStep(w) ==
    \/ SelectNext(w) \/ CommitClaim(w) \/ OpenCheckRun(w) \/ Invoke(w)
    \/ StoreOutcome(w) \/ PostVerdict(w) \/ CompleteCheckRun(w) \/ OpenPr(w)

Next ==
    \/ \E r \in Runs : Stamp(r) \/ Submit(r)
    \/ \E o \in Orgs, t \in Tiers : ChangeTier(o, t)
    \/ \E w \in Workers : WorkerStep(w) \/ LoseWorker(w)

Spec == Init /\ [][Next]_vars

\* The loop of WorkerThread keeps calling process_pending_run, and every
\* remote call ends (the HTTP clients have timeouts): a worker that can take
\* its next step takes it.  Nothing obliges clients, Stripe or a crash.
FairSpec == Spec /\ \A w \in Workers : WF_vars(WorkerStep(w))

\* An unending stream of submissions over finitely many names: the name of a
\* run that is over and that no worker holds stands for a new run from now
\* on.  Its row is dropped and the later stamps close the gap.
Reuse(r) ==
    /\ status[r] \in Terminal
    /\ \A w \in Workers : job[w] # r
    /\ status' = [status EXCEPT ![r] = "absent"]
    /\ created' = [s \in Runs |-> IF s = r THEN 0
                                  ELSE IF created[s] > created[r]
                                       THEN created[s] - 1 ELSE created[s]]
    /\ clock' = clock - 1
    /\ checkId' = [checkId EXCEPT ![r] = 0]
    /\ leaps' = {p \in leaps : p[1] # r /\ p[2] # r}
    /\ attempts' = [attempts EXCEPT ![r] = 0]
    /\ github' = [github EXCEPT ![r] = NothingShown]
    /\ fault' = [fault EXCEPT ![r] = FALSE]
    /\ UNCHANGED <<tier, workerVars, losses>>

\* A behaviour of Stream never runs out of runs, if the clients go on.
Stream == Next \/ \E r \in Runs : Reuse(r)

-----------------------------------------------------------------------------
(* Properties.                                                             *)

\* Every variable keeps its type, and a worker holds a run exactly while it
\* is between the choice and the return of process_pending_run.
TypeOK ==
    /\ status \in [Runs -> Statuses]
    /\ created \in [Runs -> Nat]
    /\ clock \in Nat
    /\ tier \in [Orgs -> Tiers]
    /\ checkId \in [Runs -> Nat]
    /\ leaps \in SUBSET (Runs \X Runs)
    /\ pc \in [Workers -> Phases]
    /\ job \in [Workers -> Runs \cup {NoRun}]
    /\ seats \in [Workers -> Nat]
    /\ check \in [Workers -> Nat]
    /\ outcome \in [Workers -> Terminal \cup {"none"}]
    /\ attempts \in [Runs -> Nat]
    /\ github \in [Runs -> GitHubView]
    /\ fault \in [Runs -> BOOLEAN]
    /\ losses \in Nat
    /\ \A w \in Workers : pc[w] = "idle" <=> job[w] = NoRun

\* Runs of one org leave the queue in the order of their stamps, however many
\* workers race for them (worker._claim_one, "FIFO within a tier"), up to what
\* the commits make of it: no run has left "queued" while an older run of its
\* org waits there, unless the older one was committed after a worker had
\* already chosen the younger one.
FifoPerOrg ==
    \A r, s \in Runs :
        (/\ RunOrg[r] = RunOrg[s]
         /\ status[r] = "queued"
         /\ status[s] \notin {"absent", "queued"})
            => created[s] < created[r] \/ <<s, r>> \in leaps

\* The runner is called at most once per run and worker: a stale choice can
\* repeat a run on another worker, but never on the same one, and with one
\* worker a run is paid for at most once, whatever crashes.
ExecutionsBounded ==
    \A r \in Runs : attempts[r] <= Cardinality(Workers)

\* A worker that still has to write the run's terminal status.
Owns(w, r) ==
    job[w] = r /\ pc[w] \in {"claimed", "ready", "executing"}

Orphans ==
    {r \in Runs : status[r] = "running" /\ ~\E w \in Workers : Owns(w, r)}

\* A row stays "running" without a worker only because a worker was lost on
\* it: every other path out of process_pending_run writes a terminal status.
OrphansAreLosses == Cardinality(Orphans) <= losses

\* With one worker: when no call to GitHub about a run failed and its worker
\* survived, the check-run the worker opened for it ends completed, with no
\* second one beside it (the id stored by _post_in_progress_check_run_safe).
CheckRunsClosed ==
    \A r \in Runs :
        (/\ status[r] \in Terminal
         /\ Origin[r] = "pull_request"
         /\ ~fault[r]
         /\ \A w \in Workers : job[w] # r)
            => github[r].checks = 1 /\ github[r].open = {}

\* With one worker: a claim never takes an org above the concurrency limit
\* the worker read for it, although other transactions commit between that
\* read and the UPDATE.
ClaimsRespectCap ==
    [][\A w \in Workers :
        (pc[w] = "selected" /\ pc'[w] = "claimed")
            => Cardinality(RunningOf(RunOrg[job[w]])') <= seats[w]]_vars

\* With one worker the service keeps the promise of RunLifecycle.
Lifecycle ==
    INSTANCE RunLifecycle
        WITH verdicts <- [r \in Runs |-> github[r].verdicts]

RunsFollowLifecycle == Lifecycle!Spec

\* The state machine documented at models.RunStatus, "Linear progression
\* queued -> running -> done|failed".
LinearProgression ==
    [][\A r \in Runs :
        status'[r] # status[r] =>
            <<status[r], status'[r]>> \in
                {<<"absent", "queued">>, <<"queued", "running">>,
                 <<"running", "done">>, <<"running", "failed">>}]_vars

\* A run of a higher tier could be claimed as well.
Outranked(r) == \E s \in Eligible : RunPriority(s) > RunPriority(r)

\* The rows that lost workers left running fill the org's limit.
FilledByOrphans(o) ==
    Cardinality({r \in Orphans : RunOrg[r] = o}) >= OrgLimit(o)

\* What may keep a run waiting for ever, under an unending stream of
\* submissions and changes of tier, with one worker: that runs of a higher
\* tier are there to be claimed again and again.  Otherwise it reaches a
\* terminal status, its own worker is lost, or its org has no seat left but
\* those of lost workers.  Neither its own org's stream nor the equal tiers'
\* can strand it.
StarvedOnlyByPriority ==
    \A r \in Runs :
        \/ []<>(status[r] = "queued" /\ Outranked(r))
        \/ (status[r] = "queued") ~>
               \/ status[r] \in Terminal
               \/ r \in Orphans
               \/ FilledByOrphans(RunOrg[r])

=============================================================================
