------------------------------ MODULE JobQueue ------------------------------
(***************************************************************************)
(* The Redis job queue of claw-squad (queue.ts) and the processes that     *)
(* work on it (daemon.ts): `worker start` daemons, `worker once` drains    *)
(* and the `worker requeue-dead` command.  Redis runs one command at a     *)
(* time; every awaited command is a step, so commands of several processes *)
(* interleave, and a process may die or a command fail between two of one. *)
(***************************************************************************)
EXTENDS Naturals, FiniteSets, SequencesExt

CONSTANTS
    Jobs,           \* ids of the jobs submitted with enqueueJob
    Junk,           \* malformed entries another client pushed on the list
    Daemons,        \* processes running runWorkerDaemon
    Drains,         \* processes running drainQueueOnce
    MaxRetries,     \* MAX_RETRIES
    MaxRequeues,    \* bound: entries moved by requeueDeadJobs
    MaxFailures,    \* bound: processes lost, Redis commands failed
    MaxSignals,     \* bound: signals sent to daemons
    Nothing

Workers == Daemons \cup Drains

\* A list entry: the JSON of a job, of which only the id and the retry count
\* tell entries apart, or a malformed string.
Entries == [id : Jobs \cup Junk, retries : Nat]

ASSUME JobQueueAssumption ==
    /\ IsFiniteSet(Jobs) /\ IsFiniteSet(Workers)
    /\ Jobs \cap Junk = {} /\ Daemons \cap Drains = {}
    /\ Nothing \notin Entries
    /\ MaxRetries \in Nat \ {0}
    /\ MaxRequeues \in Nat /\ MaxFailures \in Nat /\ MaxSignals \in Nat

Malformed(e) == e.id \in Junk

VARIABLES
    \* Redis
    queue, processing, dead,    \* the lists, head first
    ttl,        \* the key of the queue carries an expiry
    owed,       \* the jobs whose enqueueJob has pushed, and not yet set it
    \* a worker process
    pc,         \* where it stands in its loop
    job,        \* the job it dequeued
    item,       \* the entry its scan of the processing list found
    outcome,    \* how runJob ended: "ok" or "failed"
    stop,       \* the flag the signal handler sets
    \* the requeue-dead command
    admin,      \* the entry it is moving, Nothing between two moves
    stripped,   \* that entry was removed from the queue again
    \* history
    submitted, completed, runs,
    requeues, failures, signals,
    interrupted,    \* the jobs that were run when a SIGINT arrived
    expired,        \* the jobs that were on the queue when it expired
    raced           \* moves whose entry was gone before it was taken back

redis  == <<queue, processing, dead>>
worker == <<pc, job, item, outcome, stop>>
requeue == <<admin, stripped, requeues, raced>>
history == <<submitted, completed, runs, failures, signals, interrupted>>
expiry == <<ttl, owed, expired>>
vars   == <<redis, worker, requeue, history, expiry>>

Copies(list, j) == Cardinality({i \in DOMAIN list : list[i].id = j})

Phases == {"down", "loop", "polling", "bury", "ready", "running",
           "scan", "remove", "push", "beat"}

Init ==
    /\ queue = << >> /\ processing = << >> /\ dead = << >>
    /\ pc = [w \in Workers |-> "down"]
    /\ job = [w \in Workers |-> Nothing]
    /\ item = [w \in Workers |-> Nothing]
    /\ outcome = [w \in Workers |-> "none"]
    /\ stop = [w \in Workers |-> FALSE]
    /\ admin = Nothing /\ stripped = FALSE
    /\ submitted = {} /\ completed = {}
    /\ runs = [j \in Jobs |-> 0]
    /\ requeues = 0 /\ failures = 0 /\ signals = 0 /\ raced = 0
    /\ interrupted = {} /\ expired = {} /\ ttl = FALSE /\ owed = {}

-----------------------------------------------------------------------------
(* Producers.                                                              *)

\* enqueueJob: lPush of a fresh job.
Submit(j) ==
    /\ j \notin submitted
    /\ queue' = <<[id |-> j, retries |-> 0]>> \o queue
    /\ submitted' = submitted \cup {j}
    /\ owed' = owed \cup {j}
    /\ UNCHANGED <<processing, dead, worker, requeue, completed, runs,
                   failures, signals, interrupted, ttl, expired>>

\* enqueueJob: expire(QUEUE_KEY, JOB_TTL_SECONDS), on the key of the whole
\* list; on a key that is gone again it does nothing.  A producer that dies
\* first, or whose command rejects, owes it for ever.
SetExpiry(j) ==
    /\ j \in owed
    /\ owed' = owed \ {j}
    /\ ttl' = (ttl \/ queue # << >>)
    /\ UNCHANGED <<redis, worker, requeue, history, expired>>

\* No job was submitted for JOB_TTL_SECONDS: Redis deletes the key, with
\* every entry that waits on the list.
Expire ==
    /\ ttl
    /\ queue' = << >> /\ ttl' = FALSE
    /\ expired' = expired \cup {j \in Jobs : Copies(queue, j) > 0}
    /\ UNCHANGED <<processing, dead, worker, requeue, history, owed>>

\* Another client of the Redis server pushes something that is not JSON.
PushJunk(x) ==
    /\ x \notin submitted
    /\ queue' = <<[id |-> x, retries |-> 0]>> \o queue
    /\ submitted' = submitted \cup {x}
    /\ UNCHANGED <<processing, dead, worker, requeue, completed, runs,
                   failures, signals, interrupted, expiry>>

-----------------------------------------------------------------------------
(* A worker: the loop of runWorkerDaemon, or of drainQueueOnce.            *)

Goto(w, phase) == pc' = [pc EXCEPT ![w] = phase]

\* The process starts, with its local variables in their initial state.
Start(w) ==
    /\ pc[w] = "down"
    /\ Goto(w, "loop")
    /\ UNCHANGED <<redis, job, item, outcome, stop, requeue, history, expiry>>

\* The process is gone; what it knew is forgotten.
Gone(w) ==
    /\ Goto(w, "down")
    /\ job' = [job EXCEPT ![w] = Nothing]
    /\ item' = [item EXCEPT ![w] = Nothing]
    /\ outcome' = [outcome EXCEPT ![w] = "none"]
    /\ stop' = [stop EXCEPT ![w] = FALSE]

\* while (!state.stop): the flag is read here and after the job only, so a
\* worker that is already polling may still claim a job.
CheckStop(w) ==
    /\ pc[w] = "loop"
    /\ \/ stop[w] /\ Gone(w)
       \/ /\ ~stop[w]
          /\ Goto(w, "polling")
          /\ UNCHANGED <<job, item, outcome, stop>>
    /\ UNCHANGED <<redis, requeue, history, expiry>>

\* Mutant of Claimed: a worker told to stop drops what it has dequeued.
ClaimedUnlessStopped(w, e) ==
    \/ stop[w] /\ Goto(w, "loop") /\ UNCHANGED job
    \/ /\ ~stop[w]
       /\ job' = [job EXCEPT ![w] = e]
       /\ Goto(w, IF Malformed(e) THEN "bury" ELSE "ready")

Claimed(w, e) ==
    /\ job' = [job EXCEPT ![w] = e]
    /\ Goto(w, IF Malformed(e) THEN "bury" ELSE "ready")

\* A list that is empty is no key: its expiry goes with it.
KeyOfQueue == ttl' = (ttl /\ queue' # << >>) /\ UNCHANGED <<owed, expired>>

\* rPopLPush(QUEUE, PROCESSING) and the parse.
Dequeue(w) ==
    /\ pc[w] = "polling"
    /\ queue # << >>
    /\ queue' = Front(queue)
    /\ processing' = <<Last(queue)>> \o processing
    /\ Claimed(w, Last(queue))
    /\ KeyOfQueue
    /\ UNCHANGED <<dead, item, outcome, stop, requeue, history>>

\* dequeueJob returned null: a daemon sleeps and goes on, a drain ends.
NoJob(w) ==
    \/ w \in Drains /\ Gone(w)
    \/ /\ w \in Daemons
       /\ Goto(w, "loop")
       /\ job' = [job EXCEPT ![w] = Nothing]
       /\ UNCHANGED <<item, outcome, stop>>

FindEmpty(w) ==
    /\ pc[w] = "polling"
    /\ queue = << >>
    /\ NoJob(w)
    /\ UNCHANGED <<redis, requeue, history, expiry>>

\* Mutant of DeadLettered: the entry is dropped.
DeadLetteredNot(e) == UNCHANGED dead

DeadLettered(e) == dead' = <<e>> \o dead

\* lPush(DEAD, raw) of a malformed entry, which stays in processing too.
Bury(w) ==
    /\ pc[w] = "bury"
    /\ DeadLettered(job[w])
    /\ NoJob(w)
    /\ UNCHANGED <<queue, processing, requeue, history, expiry>>

\* runJob starts the orchestrator.
Run(w) ==
    /\ pc[w] = "ready"
    /\ runs' = [runs EXCEPT ![job[w].id] = @ + 1]
    /\ Goto(w, "running")
    /\ UNCHANGED <<redis, job, item, outcome, stop, requeue,
                   submitted, completed, failures, signals, interrupted, expiry>>

\* runJob ends: "complete" and "dry_run" are ok; any other reason and any
\* exception is a failure.
Finish(w) ==
    /\ pc[w] = "running"
    /\ \/ /\ outcome' = [outcome EXCEPT ![w] = "ok"]
          /\ completed' = completed \cup {job[w].id}
       \/ /\ outcome' = [outcome EXCEPT ![w] = "failed"]
          /\ UNCHANGED completed
    /\ Goto(w, "scan")
    /\ UNCHANGED <<redis, job, item, stop, requeue,
                   submitted, runs, failures, signals, interrupted, expiry>>

AfterRemoval(w) == IF outcome[w] = "ok" THEN "beat" ELSE "push"

\* completeJob and abandonJob start alike: lRange, and the first entry that
\* parses and has the job's id.
Scan(w) ==
    LET SameId(e) == e.id = job[w].id
        at == SelectInSeq(processing, SameId)
    IN
    /\ pc[w] = "scan"
    /\ \/ /\ at # 0
          /\ item' = [item EXCEPT ![w] = processing[at]]
          /\ Goto(w, "remove")
       \/ /\ at = 0
          /\ Goto(w, AfterRemoval(w))
          /\ UNCHANGED item
    /\ UNCHANGED <<redis, job, outcome, stop, requeue, history, expiry>>

\* Mutant of Unlisted: the entry is left in the processing list.
UnlistedNot(w) == UNCHANGED processing

\* lRem(processing, 1, item): the first entry equal to the one found.
Unlisted(w) == processing' = RemoveFirst(processing, item[w])

Unlist(w) ==
    /\ pc[w] = "remove"
    /\ Unlisted(w)
    /\ item' = [item EXCEPT ![w] = Nothing]
    /\ Goto(w, AfterRemoval(w))
    /\ UNCHANGED <<queue, dead, job, outcome, stop, requeue, history, expiry>>

\* Mutant of Exhausted: a failed job goes around once more.
ExhaustedLate(e) == e.retries > MaxRetries

Exhausted(e) == e.retries >= MaxRetries

\* abandonJob's lPush of the job with one retry more.
Push(w) ==
    LET updated == [job[w] EXCEPT !.retries = @ + 1] IN
    /\ pc[w] = "push"
    /\ \/ /\ Exhausted(updated)
          /\ DeadLettered(updated)
          /\ UNCHANGED queue
       \/ /\ ~Exhausted(updated)
          /\ queue' = <<updated>> \o queue
          /\ UNCHANGED dead
    /\ Goto(w, "beat")
    /\ UNCHANGED <<processing, job, item, outcome, stop, requeue, history, expiry>>

\* The end of an iteration: a daemon sends its heartbeat, and back to the loop.
EndIteration(w) ==
    /\ pc[w] = "beat"
    /\ Goto(w, "loop")
    /\ job' = [job EXCEPT ![w] = Nothing]
    /\ outcome' = [outcome EXCEPT ![w] = "none"]
    /\ UNCHANGED <<redis, item, stop, requeue, history, expiry>>

-----------------------------------------------------------------------------
(* Signals and failures.                                                   *)

\* SIGTERM, or SIGINT outside runJob: the daemon's handler sets the flag.
Terminate(w) ==
    /\ signals < MaxSignals
    /\ w \in Daemons /\ pc[w] # "down"
    /\ stop' = [stop EXCEPT ![w] = TRUE]
    /\ signals' = signals + 1
    /\ UNCHANGED <<redis, pc, job, item, outcome, requeue,
                   submitted, completed, runs, failures, interrupted, expiry>>

\* SIGINT while runJob is on the stack: the abort-signal handler, which no
\* orchestrator has registered a quit callback with, exits the process.
Interrupt(w) ==
    /\ signals < MaxSignals
    /\ pc[w] = "running"
    /\ Gone(w)
    /\ signals' = signals + 1
    /\ interrupted' = interrupted \cup {job[w].id}
    /\ UNCHANGED <<redis, requeue, submitted, completed, runs, failures, expiry>>

\* The process is killed, or a Redis command outside a try block rejects.
LoseWorker(w) ==
    /\ failures < MaxFailures
    /\ pc[w] \notin {"down", "loop"}
    /\ Gone(w)
    /\ failures' = failures + 1
    /\ UNCHANGED <<redis, requeue, submitted, completed, runs, signals,
                   interrupted, expiry>>

\* A Redis command of completeJob or abandonJob rejects: caught and logged,
\* and the rest of the function is skipped.
CommandFails(w) ==
    /\ failures < MaxFailures
    /\ pc[w] \in {"scan", "remove", "push"}
    /\ item' = [item EXCEPT ![w] = Nothing]
    /\ Goto(w, "beat")
    /\ failures' = failures + 1
    /\ UNCHANGED <<redis, job, outcome, stop, requeue,
                   submitted, completed, runs, signals, interrupted, expiry>>

-----------------------------------------------------------------------------
(* requeueDeadJobs, one entry at a time.                                   *)

\* rPopLPush(DEAD, QUEUE); a malformed entry is left where it arrived.
MoveDead ==
    /\ admin = Nothing
    /\ requeues < MaxRequeues
    /\ dead # << >>
    /\ dead' = Front(dead)
    /\ queue' = <<Last(dead)>> \o queue
    /\ admin' = IF Malformed(Last(dead)) THEN Nothing ELSE Last(dead)
    /\ requeues' = requeues + 1
    /\ UNCHANGED <<processing, worker, stripped, raced, history, expiry>>

\* Mutant of TakenBack: the moved entry stays beside its copy.
TakenBackNot == UNCHANGED queue

TakenBack == queue' = RemoveFirst(queue, admin)

\* lRem(QUEUE, 1, raw): the entry, if no worker has claimed it meanwhile.
StripMoved ==
    /\ admin # Nothing /\ ~stripped
    /\ TakenBack
    /\ raced' = IF Contains(queue, admin) THEN raced ELSE raced + 1
    /\ stripped' = TRUE
    /\ KeyOfQueue
    /\ UNCHANGED <<processing, dead, worker, admin, requeues, history>>

\* lPush of the job with its retries reset.
PushReset ==
    /\ stripped
    /\ queue' = <<[admin EXCEPT !.retries = 0]>> \o queue
    /\ admin' = Nothing /\ stripped' = FALSE
    /\ UNCHANGED <<processing, dead, worker, requeues, raced, history, expiry>>

\* The command is killed, or its next Redis command rejects.
LoseAdmin ==
    /\ failures < MaxFailures
    /\ admin # Nothing
    /\ admin' = Nothing /\ stripped' = FALSE
    /\ failures' = failures + 1
    /\ UNCHANGED <<redis, worker, requeues, raced,
                   submitted, completed, runs, signals, interrupted, expiry>>

-----------------------------------------------------------------------------

WorkerStep(w) ==
    \/ CheckStop(w) \/ Dequeue(w) \/ FindEmpty(w) \/ Bury(w)
    \/ Run(w) \/ Finish(w) \/ Scan(w) \/ Unlist(w) \/ Push(w)
    \/ EndIteration(w)

Admin == MoveDead \/ StripMoved \/ PushReset

Next ==
    \/ \E j \in Jobs : Submit(j) \/ SetExpiry(j)
    \/ Expire
    \/ \E x \in Junk : PushJunk(x)
    \/ \E w \in Workers :
        \/ Start(w) \/ WorkerStep(w) \/ Terminate(w) \/ Interrupt(w)
        \/ LoseWorker(w) \/ CommandFails(w)
    \/ Admin \/ LoseAdmin

Spec == Init /\ [][Next]_vars

\* A running process goes on: the orchestrator returns and Redis answers.
\* Daemons are restarted by their supervisor, drains when somebody wants.
FairSpec ==
    /\ Spec
    /\ \A w \in Workers : WF_vars(WorkerStep(w))
    /\ \A w \in Daemons : WF_vars(Start(w))
    /\ WF_vars(StripMoved \/ PushReset)

-----------------------------------------------------------------------------
(* Properties.                                                             *)

\* Every variable keeps its type, and a worker holds a job exactly between
\* the dequeue and the end of the iteration.
TypeOK ==
    /\ queue \in Seq(Entries) /\ processing \in Seq(Entries)
    /\ dead \in Seq(Entries)
    /\ pc \in [Workers -> Phases]
    /\ job \in [Workers -> Entries \cup {Nothing}]
    /\ item \in [Workers -> Entries \cup {Nothing}]
    /\ outcome \in [Workers -> {"none", "ok", "failed"}]
    /\ stop \in [Workers -> BOOLEAN]
    /\ admin \in Entries \cup {Nothing} /\ stripped \in BOOLEAN
    /\ submitted \subseteq Jobs \cup Junk /\ completed \subseteq Jobs
    /\ runs \in [Jobs -> Nat]
    /\ requeues \in Nat /\ failures \in Nat /\ signals \in Nat /\ raced \in Nat
    /\ interrupted \subseteq Jobs /\ expired \subseteq Jobs
    /\ owed \subseteq Jobs /\ ttl \in BOOLEAN
    /\ \A w \in Workers :
        job[w] = Nothing <=> pc[w] \in {"down", "loop", "polling"}

\* Workers that hold j and may still run it or put it back.
Holders(j) ==
    {w \in Workers :
        /\ job[w] # Nothing /\ job[w].id = j
        /\ pc[w] \in {"ready", "running", "scan", "remove", "push"}
        /\ outcome[w] # "ok"}

\* A copy of j in the hands of requeueDeadJobs.
InTransfer(j) == IF stripped /\ admin.id = j THEN 1 ELSE 0

LiveCopies(j) ==
    Copies(queue, j) + Copies(dead, j) + Cardinality(Holders(j)) + InTransfer(j)

\* A job has one live copy, and none once it completed; the one exception is
\* a move out of the dead-letter list whose entry was gone, claimed by a worker
\* or expired, before lRem took it back.  In particular, while that race is
\* avoided, no two workers hold the same job and a completed job never runs
\* again.
OneLiveCopy ==
    \A j \in Jobs :
        LiveCopies(j) + (IF j \in completed THEN 1 ELSE 0) <= 1 + raced

\* A submitted job that never completed and is neither in a list nor in the
\* hands of a process.
Vanished ==
    {j \in submitted \cap Jobs :
        j \notin completed /\ LiveCopies(j) = 0 /\ Copies(processing, j) = 0}

\* There are two ways for a job to vanish: a failure, which costs one job at
\* most, and the expiry of the queue, which costs every job that waits on the
\* list at that moment and none that a worker has claimed, that was abandoned
\* and waits elsewhere, or that lies in the dead-letter list.
JobsVanishByFailure == Cardinality(Vanished \ expired) <= failures

\* An entry of the processing list that no worker will take out.
Stranded(j) ==
    Copies(processing, j) >
        Cardinality({w \in Workers :
            /\ job[w] # Nothing /\ job[w].id = j
            /\ pc[w] \in {"ready", "running", "scan", "remove"}})

\* The processing list holds exactly the claimed jobs: an entry outlives its
\* claim only through a failure, a SIGINT, or the duplicate of a raced move.
StrandedJobsAreFailures ==
    Cardinality({j \in Jobs : Stranded(j)}) <= failures + signals + raced

\* MAX_RETRIES bounds the orchestrator runs of a job; a requeue buys another
\* MAX_RETRIES, and one more when a worker claimed the entry as it was.
RunsBounded ==
    \A j \in Jobs : runs[j] <= MaxRetries * (1 + requeues) + raced

\* While no command fails, every submitted job completes or reaches the
\* dead-letter list, but for the ones that were being run when a SIGINT came
\* and the ones the queue expired with: malformed entries, other workers and
\* a SIGTERM at any moment, a daemon that has just dequeued included, strand
\* no job.
JobsSettle ==
    \A j \in Jobs :
        (j \in submitted) ~>
            (\/ j \in completed \/ Copies(dead, j) > 0
             \/ failures > 0 \/ j \in interrupted \/ j \in expired)

\* daemon.ts, "BRPOPLPUSH is atomic so no two workers will claim the same job".
NoTwoWorkersSameJob == \A j \in Jobs : Cardinality(Holders(j)) <= 1

=============================================================================
