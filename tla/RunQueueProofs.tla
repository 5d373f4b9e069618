--------------------------- MODULE RunQueueProofs ---------------------------
(***************************************************************************)
(* Proofs about RunQueue, for any number of runs, orgs, tiers and, unless  *)
(* a theorem assumes SingleWorker, any number of workers: the order of the *)
(* queue, executions and orphans of racing workers, and with one worker    *)
(* the cap, the promise of RunLifecycle and the check-runs.                *)
(***************************************************************************)
EXTENDS RunQueue, FiniteSetTheorems, TLAPS

-----------------------------------------------------------------------------
(* Type correctness.                                                       *)

\* The initial database and the idle workers have their types.
LEMMA InitTypeOK == Init => TypeOK
  BY RunQueueAssumption
  DEF Init, TypeOK, Statuses, Phases, GitHubView, NothingShown

\* The steps of _claim_one keep the types.
LEMMA ClaimTypeOK ==
  ASSUME TypeOK, NEW w \in Workers, SelectNext(w) \/ CommitClaim(w)
  PROVE  TypeOK'
<1>1. CASE SelectNext(w)
  <2>1. PICK r \in Eligible :
            /\ job' = [job EXCEPT ![w] = r]
            /\ seats' = [seats EXCEPT ![w] = OrgLimit(RunOrg[r])]
    BY <1>1 DEF SelectNext
  <2>2. r \in Runs /\ OrgLimit(RunOrg[r]) \in Nat
    BY RunQueueAssumption DEF Eligible, Queued, OrgLimit, TypeOK
  <2>3. QED
    BY <1>1, <2>1, <2>2, RunQueueAssumption
    DEF SelectNext, TypeOK, dbVars, worldVars, Phases
<1>2. CASE CommitClaim(w)
  BY <1>2, RunQueueAssumption
  DEF CommitClaim, TypeOK, worldVars, Phases, Statuses
<1>3. QED  BY <1>1, <1>2

\* Opening the check-run keeps the types.
LEMMA OpenCheckTypeOK ==
  ASSUME TypeOK, NEW w \in Workers, OpenCheckRun(w)
  PROVE  TypeOK'
<1> DEFINE r == job[w]
<1>1. r \in Runs
  BY RunQueueAssumption DEF TypeOK, OpenCheckRun
<1>2. github[r] \in GitHubView /\ github[r].checks + 1 \in Nat
  BY <1>1 DEF TypeOK, GitHubView
<1>3. CheckCreated(r) => github' \in [Runs -> GitHubView]
  BY <1>1, <1>2 DEF CheckCreated, TypeOK, GitHubView
<1>4. github' \in [Runs -> GitHubView]
  BY <1>3 DEF OpenCheckRun, TypeOK
<1>5. checkId' \in [Runs -> Nat] /\ check' \in [Workers -> Nat]
  BY <1>1, <1>2 DEF OpenCheckRun, CheckStored, TypeOK
<1>6. fault' \in [Runs -> BOOLEAN]
  BY <1>1 DEF OpenCheckRun, TypeOK
<1>7. QED
  BY <1>4, <1>5, <1>6 DEF OpenCheckRun, TypeOK, Phases

\* Running the task and storing its outcome keep the types.
LEMMA ExecuteTypeOK ==
  ASSUME TypeOK, NEW w \in Workers, Invoke(w) \/ StoreOutcome(w)
  PROVE  TypeOK'
<1>1. job[w] \in Runs
  BY RunQueueAssumption DEF TypeOK, Invoke, StoreOutcome
<1>2. CASE Invoke(w)
  BY <1>1, <1>2 DEF Invoke, TypeOK, Phases, dbVars
<1>3. CASE StoreOutcome(w)
  BY <1>1, <1>3
  DEF StoreOutcome, Recorded, TypeOK, Phases, Statuses, worldVars
<1>4. QED  BY <1>2, <1>3

\* A worker that lets go of its run keeps the types of its local state.
LEMMA ReleasedTypes ==
  ASSUME TypeOK, NEW w \in Workers, Released(w)
  PROVE  /\ pc' \in [Workers -> Phases]
         /\ job' \in [Workers -> Runs \cup {NoRun}]
         /\ seats' \in [Workers -> Nat]
         /\ check' \in [Workers -> Nat]
         /\ outcome' \in [Workers -> Terminal \cup {"none"}]
         /\ \A v \in Workers : pc'[v] = "idle" <=> job'[v] = NoRun
  BY DEF Released, TypeOK, Phases

\* Reporting to GitHub keeps the types.
LEMMA ReportTypeOK ==
  ASSUME TypeOK, NEW w \in Workers,
         PostVerdict(w) \/ CompleteCheckRun(w) \/ OpenPr(w)
  PROVE  TypeOK'
<1> DEFINE r == job[w]
<1>1. r \in Runs
  BY RunQueueAssumption DEF TypeOK, PostVerdict, CompleteCheckRun, OpenPr
<1>2. /\ github[r] \in GitHubView
      /\ github[r].checks + 1 \in Nat
      /\ github[r].verdicts + 1 \in Nat
      /\ github[r].prs + 1 \in Nat
      /\ github[r].open \ {check[w]} \in SUBSET Nat
  BY <1>1 DEF TypeOK, GitHubView
<1>3. CASE PostVerdict(w)
  <2>1. github' \in [Runs -> GitHubView]
    <3>1. github \in [Runs -> GitHubView]
      BY DEF TypeOK
    <3>2. CASE github' = [github EXCEPT ![r].verdicts = @ + 1]
      BY <1>1, <1>2, <3>1, <3>2 DEF GitHubView
    <3>3. CASE github' = github
      BY <3>1, <3>3
    <3>4. QED
      BY <1>3, <3>2, <3>3 DEF PostVerdict
  <2>2. fault' \in [Runs -> BOOLEAN]
    BY <1>1, <1>3 DEF PostVerdict, TypeOK
  <2>3. QED
    BY <1>3, <2>1, <2>2 DEF PostVerdict, TypeOK, dbVars, Phases
<1>4. CASE CompleteCheckRun(w)
  <2>1. github' \in [Runs -> GitHubView]
    BY <1>1, <1>2, <1>4 DEF CompleteCheckRun, TypeOK, GitHubView
  <2>2. fault' \in [Runs -> BOOLEAN]
    BY <1>1, <1>4 DEF CompleteCheckRun, TypeOK
  <2>3. CASE Released(w)
    BY <1>4, <2>1, <2>2, <2>3, ReleasedTypes
    DEF CompleteCheckRun, TypeOK, dbVars
  <2>4. CASE pc' = [pc EXCEPT ![w] = "pr"]
             /\ UNCHANGED <<job, seats, check, outcome>>
    BY <1>4, <2>1, <2>2, <2>4 DEF CompleteCheckRun, TypeOK, dbVars, Phases
  <2>5. QED
    BY <1>4, <2>3, <2>4 DEF CompleteCheckRun, AfterCheck
<1>5. CASE OpenPr(w)
  <2>1. github' \in [Runs -> GitHubView]
    <3>1. github \in [Runs -> GitHubView]
      BY DEF TypeOK
    <3>2. CASE github' = [github EXCEPT ![r].prs = @ + 1]
      BY <1>1, <1>2, <3>1, <3>2 DEF GitHubView
    <3>3. CASE github' = github
      BY <3>1, <3>3
    <3>4. QED
      BY <1>5, <3>2, <3>3 DEF OpenPr
  <2>2. fault' \in [Runs -> BOOLEAN]
    BY <1>1, <1>5 DEF OpenPr, TypeOK
  <2>3. QED
    BY <1>5, <2>1, <2>2, ReleasedTypes DEF OpenPr, TypeOK, dbVars
<1>6. QED  BY <1>3, <1>4, <1>5

\* Every step keeps the types.
LEMMA NextTypeOK == TypeOK /\ [Next]_vars => TypeOK'
<1> SUFFICES ASSUME TypeOK, [Next]_vars PROVE TypeOK'
  OBVIOUS
<1>1. ASSUME NEW r \in Runs, Stamp(r) \/ Submit(r) PROVE TypeOK'
  <2>1. CASE Stamp(r)
    BY <2>1 DEF Stamp, TypeOK, workerVars, worldVars
  <2>2. CASE Submit(r)
    <3>1. {<<s, r>> : s \in Leapt(r)} \in SUBSET (Runs \X Runs)
      BY DEF Leapt, Taken
    <3>2. leaps' \in SUBSET (Runs \X Runs)
      BY <2>2, <3>1 DEF Submit, TypeOK
    <3>. QED
      BY <2>2, <3>2 DEF Submit, TypeOK, Statuses, workerVars, worldVars
  <2>. QED  BY <1>1, <2>1, <2>2
<1>2. ASSUME NEW o \in Orgs, NEW t \in Tiers, ChangeTier(o, t) PROVE TypeOK'
  BY <1>2 DEF ChangeTier, TypeOK, workerVars, worldVars
<1>3. ASSUME NEW w \in Workers, WorkerStep(w) PROVE TypeOK'
  BY <1>3, ClaimTypeOK, OpenCheckTypeOK, ExecuteTypeOK, ReportTypeOK
  DEF WorkerStep
<1>4. ASSUME NEW w \in Workers, LoseWorker(w) PROVE TypeOK'
  BY <1>4, ReleasedTypes DEF LoseWorker, TypeOK, dbVars
<1>5. CASE UNCHANGED vars
  BY <1>5 DEF vars, dbVars, workerVars, worldVars, TypeOK
<1>6. QED
  BY <1>1, <1>2, <1>3, <1>4, <1>5 DEF Next

\* Every reachable state has the declared types, and a worker holds a run
\* exactly between its choice and the return of process_pending_run.
THEOREM TypeCorrect == Spec => []TypeOK
  BY InitTypeOK, NextTypeOK, PTL DEF Spec

-----------------------------------------------------------------------------
(* FIFO within an org, for any number of workers.                          *)

\* created_at is stamped once per row and before the commit, and later stamps
\* are later times.
StampsOrdered ==
    /\ clock > 0
    /\ \A r \in Runs : created[r] < clock
    /\ \A r \in Runs : status[r] # "absent" => created[r] # 0
    /\ \A r, s \in Runs :
        (created[r] # 0 /\ r # s) => created[r] # created[s]

\* The run a worker holds has been committed.  When it was claimed it has left
\* the queue; before that it is older than every run of its org that waits
\* there, up to the ones committed since the choice.
HeldRunsAreHeads ==
    \A w \in Workers :
        /\ pc[w] # "idle" => status[job[w]] # "absent"
        /\ pc[w] \notin {"idle", "selected"} => status[job[w]] # "queued"
        /\ pc[w] = "selected" =>
            \A r \in Runs :
                (RunOrg[r] = RunOrg[job[w]] /\ status[r] = "queued" /\ r # job[w])
                    => created[job[w]] < created[r] \/ <<job[w], r>> \in leaps

FifoInv == TypeOK /\ StampsOrdered /\ HeldRunsAreHeads /\ FifoPerOrg

\* What the steps that neither insert a row nor choose one may do: no row is
\* inserted or queued again, and no worker picks up another run.
NoNewWork ==
    /\ created' = created /\ clock' = clock /\ leaps' = leaps
    /\ \A r \in Runs : status'[r] = "absent" <=> status[r] = "absent"
    /\ \A r \in Runs : status'[r] = "queued" <=> status[r] = "queued"
    /\ \A w \in Workers :
        \/ pc'[w] = "idle"
        \/ /\ job'[w] = job[w] /\ pc[w] # "idle"
           /\ pc'[w] = "selected" <=> pc[w] = "selected"

\* Steps without new work preserve the invariant.
LEMMA NoNewWorkFifo ==
  ASSUME FifoInv, TypeOK', NoNewWork
  PROVE  FifoInv'
<1>1. StampsOrdered'
  BY DEF FifoInv, NoNewWork, StampsOrdered
<1>2. HeldRunsAreHeads'
  <2> SUFFICES ASSUME NEW w \in Workers, pc'[w] # "idle"
               PROVE  /\ status'[job'[w]] # "absent"
                      /\ pc'[w] # "selected" => status'[job'[w]] # "queued"
                      /\ pc'[w] = "selected" =>
                          \A r \in Runs :
                              (/\ RunOrg[r] = RunOrg[job'[w]]
                               /\ status'[r] = "queued" /\ r # job'[w])
                                  => \/ created'[job'[w]] < created'[r]
                                     \/ <<job'[w], r>> \in leaps'
    BY DEF HeldRunsAreHeads
  <2>1. /\ job'[w] = job[w] /\ pc[w] # "idle" /\ job[w] \in Runs
        /\ pc'[w] = "selected" <=> pc[w] = "selected"
    BY RunQueueAssumption DEF NoNewWork, FifoInv, TypeOK
  <2>. QED
    BY <2>1 DEF FifoInv, NoNewWork, HeldRunsAreHeads
<1>3. FifoPerOrg'
  BY DEF FifoInv, NoNewWork, FifoPerOrg
<1>4. QED  BY <1>1, <1>2, <1>3 DEF FifoInv

\* A stamp says nothing about the rows that are visible.
LEMMA StampFifo ==
  ASSUME FifoInv, TypeOK', NEW r \in Runs, Stamp(r)
  PROVE  FifoInv'
<1> USE DEF FifoInv
<1>1. /\ created[r] = 0 /\ created'[r] = clock /\ clock' = clock + 1
      /\ \A s \in Runs \ {r} : created'[s] = created[s]
      /\ UNCHANGED <<status, job, pc, leaps>> /\ clock \in Nat
  BY DEF Stamp, TypeOK, workerVars
<1>2. /\ \A s \in Runs : created[s] \in Nat
      /\ status[r] = "absent"
  BY <1>1 DEF TypeOK, StampsOrdered
<1>3. StampsOrdered'
  BY <1>1, <1>2 DEF StampsOrdered
<1>4. \A w \in Workers : pc[w] # "idle" => job[w] \in Runs \ {r}
  BY <1>2, RunQueueAssumption DEF TypeOK, HeldRunsAreHeads
<1>5. HeldRunsAreHeads'
  BY <1>1, <1>2, <1>4 DEF HeldRunsAreHeads
<1>6. FifoPerOrg'
  BY <1>1, <1>2 DEF FifoPerOrg
<1>7. QED  BY <1>3, <1>5, <1>6

\* A row that is committed precedes the taken ones that are younger only on
\* paper: those are noted.
LEMMA SubmitFifo ==
  ASSUME FifoInv, TypeOK', NEW r \in Runs, Submit(r)
  PROVE  FifoInv'
<1> USE DEF FifoInv
<1>1. /\ status'[r] = "queued" /\ status[r] = "absent" /\ created[r] # 0
      /\ \A s \in Runs \ {r} : status'[s] = status[s]
      /\ UNCHANGED <<created, clock, job, pc>>
      /\ leaps' = leaps \cup {<<s, r>> : s \in Leapt(r)}
  BY DEF Submit, TypeOK, workerVars
<1>2. \A s \in Runs : created[s] \in Nat
  BY DEF TypeOK
<1>3. StampsOrdered'
  BY <1>1, <1>2 DEF StampsOrdered
<1>4. \A s \in Taken :
        (RunOrg[s] = RunOrg[r] /\ s # r)
            => created[s] < created[r] \/ <<s, r>> \in leaps'
  BY <1>1, <1>2 DEF Leapt, Taken, StampsOrdered
<1>5. \A w \in Workers : pc[w] # "idle" => job[w] \in Runs \ {r}
  BY <1>1, RunQueueAssumption DEF TypeOK, HeldRunsAreHeads
<1>6. \A w \in Workers : pc[w] = "selected" => job[w] \in Taken
  BY <1>5 DEF Taken
<1>7. HeldRunsAreHeads'
  BY <1>1, <1>4, <1>5, <1>6 DEF HeldRunsAreHeads
<1>8. FifoPerOrg'
  <2> SUFFICES ASSUME NEW q \in Runs, NEW s \in Runs, RunOrg[q] = RunOrg[s],
                      status'[q] = "queued",
                      status'[s] \notin {"absent", "queued"}
               PROVE  created[s] < created[q] \/ <<s, q>> \in leaps'
    BY <1>1 DEF FifoPerOrg
  <2>1. s # r /\ status[s] \notin {"absent", "queued"}
    BY <1>1
  <2>2. CASE q = r
    BY <1>4, <2>1, <2>2 DEF Taken
  <2>3. CASE q # r
    BY <1>1, <2>1, <2>3 DEF FifoPerOrg
  <2>. QED  BY <2>2, <2>3
<1>9. QED  BY <1>3, <1>7, <1>8

\* The chosen run precedes every other waiting run of its org: those share
\* its concurrency count and its priority, so they were eligible too.
LEMMA ChosenIsHead ==
  ASSUME TypeOK, NEW r \in Eligible,
         \A s \in Eligible \ {r} : Before(r, s),
         NEW s \in Runs, RunOrg[s] = RunOrg[r], status[s] = "queued", s # r
  PROVE  created[r] < created[s]
<1>1. s \in Eligible \ {r}
  BY DEF Eligible, Queued
<1>2. RunPriority(r) = RunPriority(s) /\ RunPriority(r) \in Nat
  BY RunQueueAssumption DEF RunPriority, TypeOK, Eligible, Queued
<1>3. QED
  BY <1>1, <1>2 DEF Before

LEMMA SelectFifo ==
  ASSUME FifoInv, TypeOK', NEW w \in Workers, SelectNext(w)
  PROVE  FifoInv'
<1> USE DEF FifoInv
<1>1. PICK r \in Eligible :
          /\ \A s \in Eligible \ {r} : Before(r, s)
          /\ job' = [job EXCEPT ![w] = r]
  BY DEF SelectNext
<1>2. r \in Runs /\ status[r] = "queued"
  BY DEF Eligible, Queued
<1>3. /\ UNCHANGED <<status, created, clock, leaps>>
      /\ pc' = [pc EXCEPT ![w] = "selected"]
  BY DEF SelectNext, dbVars
<1>4. \A s \in Runs :
        (RunOrg[s] = RunOrg[r] /\ status[s] = "queued" /\ s # r)
            => created[r] < created[s]
  BY <1>1, ChosenIsHead
<1>5. HeldRunsAreHeads'
  BY <1>1, <1>2, <1>3, <1>4 DEF HeldRunsAreHeads, TypeOK
<1>6. QED
  BY <1>3, <1>5 DEF StampsOrdered, FifoPerOrg

\* The claim takes a head out of its org's queue, stale or not.
LEMMA ClaimFifo ==
  ASSUME FifoInv, TypeOK', NEW w \in Workers, CommitClaim(w)
  PROVE  FifoInv'
<1> USE DEF FifoInv
<1> DEFINE h == job[w]
<1>1. h \in Runs
  BY RunQueueAssumption DEF TypeOK, CommitClaim
<1>2. /\ status' = [status EXCEPT ![h] = "running"]
      /\ pc[w] = "selected" /\ pc' = [pc EXCEPT ![w] = "claimed"]
      /\ UNCHANGED <<created, clock, leaps, job>>
  BY DEF CommitClaim
<1>3. status[h] # "absent"
  BY <1>2 DEF HeldRunsAreHeads
<1>4. StampsOrdered'
  BY <1>1, <1>2, <1>3 DEF StampsOrdered, TypeOK
<1>5. HeldRunsAreHeads'
  BY <1>1, <1>2, RunQueueAssumption DEF HeldRunsAreHeads, TypeOK
<1>6. FifoPerOrg'
  BY <1>1, <1>2, <1>3 DEF FifoPerOrg, HeldRunsAreHeads, TypeOK
<1>7. QED  BY <1>4, <1>5, <1>6

\* Storing an outcome cannot touch the queue: the row was claimed before.
\* (A stale row of another worker is overwritten here as well.)
LEMMA OutcomeFifo ==
  ASSUME FifoInv, TypeOK', NEW w \in Workers, StoreOutcome(w)
  PROVE  FifoInv'
<1> DEFINE h == job[w]
<1>1. /\ h \in Runs /\ status[h] \notin {"absent", "queued"}
      /\ pc \in [Workers -> Phases] /\ status \in [Runs -> Statuses]
  BY RunQueueAssumption DEF FifoInv, TypeOK, StoreOutcome, HeldRunsAreHeads
<1>2. PICK t \in Terminal : status' = [status EXCEPT ![h] = t]
  BY DEF StoreOutcome, Recorded
<1>3. /\ UNCHANGED <<created, clock, leaps, job>>
      /\ pc[w] = "executing" /\ pc' = [pc EXCEPT ![w] = "verdict"]
  BY DEF StoreOutcome
<1>4. /\ status'[h] = t /\ t \notin {"absent", "queued"}
      /\ \A r \in Runs \ {h} : status'[r] = status[r]
  BY <1>1, <1>2 DEF Terminal
<1>5. NoNewWork
  BY <1>1, <1>3, <1>4 DEF NoNewWork
<1>6. QED  BY <1>5, NoNewWorkFifo

\* The steps that only talk to GitHub, or let go of a run.
LEMMA QuietSteps ==
  ASSUME TypeOK, NEW w \in Workers,
         \/ OpenCheckRun(w) \/ Invoke(w) \/ PostVerdict(w)
         \/ CompleteCheckRun(w) \/ OpenPr(w) \/ LoseWorker(w)
  PROVE  NoNewWork
<1>1. UNCHANGED <<status, created, clock, leaps>>
  BY DEF OpenCheckRun, Invoke, PostVerdict, CompleteCheckRun, OpenPr,
         LoseWorker, dbVars
<1>2. \/ /\ job' = job
         /\ \/ pc[w] = "claimed" /\ pc' = [pc EXCEPT ![w] = "ready"]
            \/ pc[w] = "ready" /\ pc' = [pc EXCEPT ![w] = "executing"]
            \/ pc[w] = "verdict" /\ pc' = [pc EXCEPT ![w] = "check"]
            \/ pc[w] = "check" /\ pc' = [pc EXCEPT ![w] = "pr"]
      \/ /\ job' = [job EXCEPT ![w] = NoRun]
         /\ pc' = [pc EXCEPT ![w] = "idle"]
  BY DEF OpenCheckRun, Invoke, PostVerdict, CompleteCheckRun, OpenPr,
         LoseWorker, AfterCheck, Released
<1>3. \A v \in Workers :
        \/ pc'[v] = "idle"
        \/ /\ job'[v] = job[v] /\ pc[v] # "idle"
           /\ pc'[v] = "selected" <=> pc[v] = "selected"
  BY <1>2 DEF TypeOK
<1>4. QED
  BY <1>1, <1>3 DEF NoNewWork

LEMMA NextFifo == FifoInv /\ [Next]_vars => FifoInv'
<1> SUFFICES ASSUME FifoInv, [Next]_vars PROVE FifoInv'
  OBVIOUS
<1>1. TypeOK /\ TypeOK'
  BY NextTypeOK DEF FifoInv
<1>2. ASSUME NEW r \in Runs, Stamp(r) \/ Submit(r) PROVE FifoInv'
  BY <1>1, <1>2, StampFifo, SubmitFifo
<1>3. ASSUME NEW o \in Orgs, NEW t \in Tiers, ChangeTier(o, t) PROVE FifoInv'
  <2>1. NoNewWork
    BY <1>3 DEF ChangeTier, NoNewWork, workerVars
  <2>2. QED  BY <1>1, <2>1, NoNewWorkFifo
<1>4. ASSUME NEW w \in Workers, WorkerStep(w) \/ LoseWorker(w) PROVE FifoInv'
  <2>1. CASE SelectNext(w)  BY <1>1, <2>1, SelectFifo
  <2>2. CASE CommitClaim(w)  BY <1>1, <2>2, ClaimFifo
  <2>3. CASE StoreOutcome(w)  BY <1>1, <2>3, OutcomeFifo
  <2>4. CASE \/ OpenCheckRun(w) \/ Invoke(w) \/ PostVerdict(w)
             \/ CompleteCheckRun(w) \/ OpenPr(w) \/ LoseWorker(w)
    <3>1. NoNewWork
      BY <1>1, <2>4, QuietSteps
    <3>2. QED  BY <1>1, <3>1, NoNewWorkFifo
  <2>5. QED
    BY <1>4, <2>1, <2>2, <2>3, <2>4 DEF WorkerStep
<1>5. CASE UNCHANGED vars
  <2>1. NoNewWork
    BY <1>5 DEF vars, dbVars, workerVars, NoNewWork
  <2>2. QED  BY <1>1, <2>1, NoNewWorkFifo
<1>6. QED
  BY <1>2, <1>3, <1>4, <1>5 DEF Next

\* Runs of one org leave the queue in the order of their stamps, but for those
\* committed after a younger one was chosen, for any number of workers racing
\* through _claim_one, tier changes and lost workers included.
THEOREM FifoWithinOrg == Spec => []FifoPerOrg
<1>1. Init => FifoInv
  BY InitTypeOK DEF Init, FifoInv, StampsOrdered, HeldRunsAreHeads, FifoPerOrg
<1>2. FifoInv => FifoPerOrg
  BY DEF FifoInv
<1>3. QED
  BY <1>1, <1>2, NextFifo, PTL DEF Spec

-----------------------------------------------------------------------------
(* How often a run is executed, for any number of workers.                 *)

\* Workers that hold the run and have not called the runner for it yet.
Pending(r) ==
    {w \in Workers : job[w] = r /\ pc[w] \in {"selected", "claimed", "ready"}}

\* A run that was executed has left the queue for good, so that nobody picks
\* it up again: from then on every execution uses up one of the workers that
\* held the run before.
ExecutionInv ==
    /\ TypeOK
    /\ \A w \in Workers :
        /\ pc[w] # "idle" => status[job[w]] # "absent"
        /\ pc[w] \notin {"idle", "selected"} => status[job[w]] # "queued"
    /\ \A r \in Runs :
        /\ status[r] \in {"absent", "queued"} => attempts[r] = 0
        /\ attempts[r] + Cardinality(Pending(r)) <= Cardinality(Workers)

\* A set of workers is finite.
LEMMA WorkersFinite ==
  ASSUME NEW S \in SUBSET Workers
  PROVE  /\ IsFiniteSet(S) /\ Cardinality(S) \in Nat
         /\ Cardinality(S) <= Cardinality(Workers)
         /\ Cardinality(Workers) \in Nat
  BY RunQueueAssumption, FS_Subset, FS_CardinalityType

\* A step that adds no pending worker and executes nothing.
LEMMA NoNewPending ==
  ASSUME NEW r \in Runs, TypeOK, Pending(r)' \subseteq Pending(r),
         attempts'[r] = attempts[r],
         attempts[r] + Cardinality(Pending(r)) <= Cardinality(Workers)
  PROVE  attempts'[r] + Cardinality(Pending(r)') <= Cardinality(Workers)
<1>1. Pending(r) \in SUBSET Workers /\ Pending(r)' \in SUBSET Workers
  BY DEF Pending
<1>2. /\ Cardinality(Pending(r)) \in Nat /\ Cardinality(Pending(r)') \in Nat
      /\ Cardinality(Pending(r)') <= Cardinality(Pending(r))
  BY <1>1, WorkersFinite, FS_Subset
<1>3. attempts[r] \in Nat /\ Cardinality(Workers) \in Nat
  BY <1>1, WorkersFinite DEF TypeOK
<1>. QED  BY <1>2, <1>3

\* The runs of workers that take no step are held as before.
HeldElsewhere(w) == \A v \in Workers \ {w} : job'[v] = job[v] /\ pc'[v] = pc[v]

LEMMA ExecutionSubmit ==
  ASSUME ExecutionInv, TypeOK', NEW s \in Runs, Submit(s)
  PROVE  ExecutionInv'
<1>1. /\ status[s] = "absent" /\ status' = [status EXCEPT ![s] = "queued"]
      /\ UNCHANGED <<job, pc, attempts>>
  BY DEF Submit, workerVars, worldVars
<1>2. \A w \in Workers : pc[w] # "idle" => job[w] \in Runs \ {s}
  BY <1>1, RunQueueAssumption DEF ExecutionInv, TypeOK
<1>3. ASSUME NEW w \in Workers
      PROVE  /\ pc'[w] # "idle" => status'[job'[w]] # "absent"
             /\ pc'[w] \notin {"idle", "selected"} => status'[job'[w]] # "queued"
  BY <1>1, <1>2 DEF ExecutionInv, TypeOK
<1>4. ASSUME NEW r \in Runs
      PROVE  /\ status'[r] \in {"absent", "queued"} => attempts'[r] = 0
             /\ attempts'[r] + Cardinality(Pending(r)') <= Cardinality(Workers)
  <2>1. status'[r] \in {"absent", "queued"} => status[r] \in {"absent", "queued"}
    BY <1>1 DEF ExecutionInv, TypeOK
  <2>2. Pending(r)' = Pending(r)
    BY <1>1 DEF Pending
  <2>. QED  BY <1>1, <2>1, <2>2 DEF ExecutionInv
<1>. QED  BY <1>3, <1>4 DEF ExecutionInv

\* The run chosen is queued, so it was never executed, whoever else holds it.
LEMMA ExecutionSelect ==
  ASSUME ExecutionInv, TypeOK', NEW w \in Workers, SelectNext(w)
  PROVE  ExecutionInv'
<1>1. PICK s \in Eligible : job' = [job EXCEPT ![w] = s]
  BY DEF SelectNext
<1>2. /\ s \in Runs /\ status[s] = "queued"
      /\ pc' = [pc EXCEPT ![w] = "selected"]
      /\ UNCHANGED <<status, attempts>>
  BY DEF SelectNext, dbVars, worldVars, Eligible, Queued
<1>3. ASSUME NEW v \in Workers
      PROVE  /\ pc'[v] # "idle" => status'[job'[v]] # "absent"
             /\ pc'[v] \notin {"idle", "selected"} => status'[job'[v]] # "queued"
  BY <1>1, <1>2 DEF ExecutionInv, TypeOK
<1>4. ASSUME NEW r \in Runs
      PROVE  attempts'[r] + Cardinality(Pending(r)') <= Cardinality(Workers)
  <2>1. CASE r = s
    <3>1. attempts'[r] = 0
      BY <1>2, <2>1 DEF ExecutionInv
    <3>2. Pending(r)' \in SUBSET Workers
      BY DEF Pending
    <3>. QED  BY <3>1, <3>2, WorkersFinite
  <2>2. CASE r # s
    <3>1. Pending(r)' \subseteq Pending(r)
      BY <1>1, <1>2, <2>2 DEF Pending, ExecutionInv, TypeOK
    <3>. QED  BY <1>2, <3>1, NoNewPending DEF ExecutionInv
  <2>. QED  BY <2>1, <2>2
<1>. QED  BY <1>2, <1>3, <1>4 DEF ExecutionInv

\* Claiming and storing the outcome move a row out of the queue for good.
LEMMA ExecutionWrite ==
  ASSUME ExecutionInv, TypeOK', NEW w \in Workers,
         CommitClaim(w) \/ StoreOutcome(w)
  PROVE  ExecutionInv'
<1>1. job[w] \in Runs /\ pc[w] # "idle"
  BY RunQueueAssumption DEF ExecutionInv, TypeOK, CommitClaim, StoreOutcome
<1>2. /\ UNCHANGED <<job, attempts>>
      /\ \E t \in {"running", "done", "failed"} :
            status' = [status EXCEPT ![job[w]] = t]
      /\ \/ pc[w] = "selected" /\ pc' = [pc EXCEPT ![w] = "claimed"]
         \/ pc[w] = "executing" /\ pc' = [pc EXCEPT ![w] = "verdict"]
  BY DEF CommitClaim, StoreOutcome, Recorded, Terminal, worldVars
<1>3. ASSUME NEW r \in Runs, status'[r] \in {"absent", "queued"}
      PROVE  r # job[w] /\ status'[r] = status[r]
  BY <1>1, <1>2, <1>3 DEF ExecutionInv, TypeOK
<1>4. ASSUME NEW v \in Workers
      PROVE  /\ pc'[v] # "idle" => status'[job'[v]] # "absent"
             /\ pc'[v] \notin {"idle", "selected"} => status'[job'[v]] # "queued"
  <2>1. CASE v = w
    BY <1>1, <1>2, <1>3, <2>1
  <2>2. CASE v # w
    <3>1. pc'[v] = pc[v] /\ job'[v] = job[v]
      BY <1>2, <2>2 DEF ExecutionInv, TypeOK
    <3>2. pc[v] # "idle" => job[v] \in Runs
      BY RunQueueAssumption DEF ExecutionInv, TypeOK
    <3>. QED  BY <1>3, <3>1, <3>2 DEF ExecutionInv
  <2>. QED  BY <2>1, <2>2
<1>5. ASSUME NEW r \in Runs
      PROVE  attempts'[r] + Cardinality(Pending(r)') <= Cardinality(Workers)
  <2>1. Pending(r)' \subseteq Pending(r)
    BY <1>2 DEF Pending, ExecutionInv, TypeOK
  <2>. QED  BY <1>2, <2>1, NoNewPending DEF ExecutionInv
<1>. QED  BY <1>2, <1>3, <1>4, <1>5 DEF ExecutionInv

\* The runner is called by a worker that was pending until now.
LEMMA ExecutionInvoke ==
  ASSUME ExecutionInv, TypeOK', NEW w \in Workers, Invoke(w)
  PROVE  ExecutionInv'
<1> DEFINE h == job[w]
<1>1. h \in Runs /\ status[h] \notin {"absent", "queued"}
  BY RunQueueAssumption DEF ExecutionInv, TypeOK, Invoke
<1>2. /\ pc[w] = "ready" /\ pc' = [pc EXCEPT ![w] = "executing"]
      /\ attempts' = [attempts EXCEPT ![h] = @ + 1]
      /\ UNCHANGED <<status, job>>
  BY DEF Invoke, dbVars
<1>3. ASSUME NEW v \in Workers
      PROVE  /\ pc'[v] # "idle" => status'[job'[v]] # "absent"
             /\ pc'[v] \notin {"idle", "selected"} => status'[job'[v]] # "queued"
  BY <1>1, <1>2 DEF ExecutionInv, TypeOK
<1>4. ASSUME NEW r \in Runs
      PROVE  /\ status'[r] \in {"absent", "queued"} => attempts'[r] = 0
             /\ attempts'[r] + Cardinality(Pending(r)') <= Cardinality(Workers)
  <2>1. CASE r = h
    <3>1. Pending(r)' = Pending(r) \ {w} /\ w \in Pending(r)
      BY <1>2, <2>1 DEF Pending, ExecutionInv, TypeOK
    <3>2. Pending(r) \in SUBSET Workers
      BY DEF Pending
    <3>3. /\ Cardinality(Pending(r)) \in Nat
          /\ Cardinality(Pending(r)') = Cardinality(Pending(r)) - 1
      BY <3>1, <3>2, WorkersFinite, FS_RemoveElement
    <3>4. attempts'[r] = attempts[r] + 1 /\ attempts[r] \in Nat
      BY <1>1, <1>2, <2>1 DEF ExecutionInv, TypeOK
    <3>5. Cardinality(Workers) \in Nat
      BY <3>2, WorkersFinite
    <3>. QED  BY <1>1, <1>2, <2>1, <3>3, <3>4, <3>5 DEF ExecutionInv
  <2>2. CASE r # h
    <3>1. attempts'[r] = attempts[r] /\ status'[r] = status[r]
      BY <1>2, <2>2 DEF ExecutionInv, TypeOK
    <3>2. Pending(r)' \subseteq Pending(r)
      BY <1>2 DEF Pending, ExecutionInv, TypeOK
    <3>. QED  BY <3>1, <3>2, NoNewPending DEF ExecutionInv
  <2>. QED  BY <2>1, <2>2
<1>. QED  BY <1>3, <1>4 DEF ExecutionInv

\* The other steps of a worker change no row and make nobody pending.
LEMMA ExecutionQuiet ==
  ASSUME ExecutionInv, TypeOK', NEW w \in Workers,
         \/ OpenCheckRun(w) \/ PostVerdict(w) \/ CompleteCheckRun(w)
         \/ OpenPr(w) \/ LoseWorker(w)
  PROVE  ExecutionInv'
<1>1. UNCHANGED <<status, attempts>>
  BY DEF OpenCheckRun, PostVerdict, CompleteCheckRun, OpenPr, LoseWorker, dbVars
<1>2. \/ /\ job' = job
         /\ \/ pc[w] = "claimed" /\ pc' = [pc EXCEPT ![w] = "ready"]
            \/ pc[w] = "verdict" /\ pc' = [pc EXCEPT ![w] = "check"]
            \/ pc[w] = "check" /\ pc' = [pc EXCEPT ![w] = "pr"]
      \/ /\ job' = [job EXCEPT ![w] = NoRun]
         /\ pc' = [pc EXCEPT ![w] = "idle"]
  BY DEF OpenCheckRun, PostVerdict, CompleteCheckRun, OpenPr, LoseWorker,
         AfterCheck, Released
<1>3. ASSUME NEW v \in Workers
      PROVE  \/ pc'[v] = "idle"
             \/ /\ job'[v] = job[v] /\ pc[v] # "idle"
                /\ pc'[v] = "selected" => pc[v] = "selected"
                /\ pc[v] = "selected" => pc'[v] = "selected"
  BY <1>2 DEF ExecutionInv, TypeOK
<1>4. ASSUME NEW v \in Workers
      PROVE  /\ pc'[v] # "idle" => status'[job'[v]] # "absent"
             /\ pc'[v] \notin {"idle", "selected"} => status'[job'[v]] # "queued"
  BY <1>1, <1>3 DEF ExecutionInv
<1>5. ASSUME NEW r \in Runs
      PROVE  attempts'[r] + Cardinality(Pending(r)') <= Cardinality(Workers)
  <2>1. Pending(r)' \subseteq Pending(r)
    BY <1>2, RunQueueAssumption DEF Pending, ExecutionInv, TypeOK
  <2>. QED  BY <1>1, <2>1, NoNewPending DEF ExecutionInv
<1>. QED  BY <1>1, <1>4, <1>5 DEF ExecutionInv

LEMMA ExecutionStep == ExecutionInv /\ [Next]_vars => ExecutionInv'
<1> SUFFICES ASSUME ExecutionInv, [Next]_vars PROVE ExecutionInv'
  OBVIOUS
<1>1. TypeOK'
  BY NextTypeOK DEF ExecutionInv
<1>2. CASE UNCHANGED <<status, pc, job, attempts>>
  BY <1>1, <1>2 DEF ExecutionInv, Pending
<1>3. ASSUME NEW r \in Runs, Stamp(r) \/ Submit(r) PROVE ExecutionInv'
  BY <1>1, <1>2, <1>3, ExecutionSubmit DEF Stamp, workerVars, worldVars
<1>4. ASSUME NEW o \in Orgs, NEW t \in Tiers, ChangeTier(o, t) PROVE ExecutionInv'
  BY <1>2, <1>4 DEF ChangeTier, workerVars, worldVars
<1>5. ASSUME NEW w \in Workers, WorkerStep(w) \/ LoseWorker(w)
      PROVE  ExecutionInv'
  BY <1>1, <1>5, ExecutionSelect, ExecutionWrite, ExecutionInvoke, ExecutionQuiet
  DEF WorkerStep
<1>6. CASE UNCHANGED vars
  BY <1>2, <1>6 DEF vars, dbVars, workerVars, worldVars
<1>7. QED
  BY <1>3, <1>4, <1>5, <1>6 DEF Next

\* The runner is called at most once per run and worker, however the claims
\* of process_pending_run race and whatever workers are lost.
THEOREM ExecutionsAreBounded == Spec => []ExecutionsBounded
<1>1. Init => ExecutionInv
  <2> SUFFICES ASSUME Init PROVE ExecutionInv
    OBVIOUS
  <2>1. TypeOK
    BY InitTypeOK
  <2>2. ASSUME NEW r \in Runs
        PROVE  attempts[r] + Cardinality(Pending(r)) <= Cardinality(Workers)
    <3>1. Pending(r) = {} /\ attempts[r] = 0
      BY DEF Init, Pending
    <3>. QED  BY <3>1, FS_EmptySet, WorkersFinite
  <2>. QED  BY <2>1, <2>2 DEF Init, ExecutionInv
<1>2. ExecutionInv => ExecutionsBounded
  <2> SUFFICES ASSUME ExecutionInv, NEW r \in Runs
               PROVE  attempts[r] <= Cardinality(Workers)
    BY DEF ExecutionsBounded
  <2>1. Pending(r) \in SUBSET Workers
    BY DEF Pending
  <2>2. Cardinality(Pending(r)) \in Nat /\ Cardinality(Workers) \in Nat
    BY <2>1, WorkersFinite
  <2>3. attempts[r] \in Nat
    BY DEF ExecutionInv, TypeOK
  <2>. QED  BY <2>2, <2>3 DEF ExecutionInv
<1>3. QED
  BY <1>1, <1>2, ExecutionStep, PTL DEF Spec

-----------------------------------------------------------------------------
(* Rows left running, for any number of workers.                           *)

OrphanInv == TypeOK /\ OrphansAreLosses

\* A step that leaves no further row running without an owner.
LEMMA NoNewOrphans ==
  ASSUME OrphanInv, TypeOK', Orphans' \subseteq Orphans, losses' = losses
  PROVE  OrphanInv'
<1>1. Orphans \in SUBSET Runs /\ IsFiniteSet(Runs)
  BY RunQueueAssumption DEF Orphans
<1>2. IsFiniteSet(Orphans)
  BY <1>1, FS_Subset
<1>3. /\ Cardinality(Orphans') <= Cardinality(Orphans)
      /\ Cardinality(Orphans) \in Nat /\ Cardinality(Orphans') \in Nat
  BY <1>2, FS_Subset, FS_CardinalityType
<1>. QED  BY <1>3 DEF OrphanInv, OrphansAreLosses, TypeOK

\* The claim gives a row a new owner, storing the outcome ends the need of one.
LEMMA OrphanWrite ==
  ASSUME OrphanInv, TypeOK', NEW w \in Workers, CommitClaim(w) \/ StoreOutcome(w)
  PROVE  Orphans' \subseteq Orphans
<1>1. job[w] \in Runs
  BY RunQueueAssumption DEF OrphanInv, TypeOK, CommitClaim, StoreOutcome
<1>2. job' = job
  BY DEF CommitClaim, StoreOutcome
<1>3. ASSUME NEW r \in Orphans', r # job[w]
      PROVE  r \in Orphans
  <2>1. r \in Runs /\ status[r] = "running"
    BY <1>1, <1>2, <1>3
    DEF Orphans, CommitClaim, StoreOutcome, Recorded, OrphanInv, TypeOK
  <2>2. \A v \in Workers : Owns(v, r) => Owns(v, r)'
    BY <1>2, <1>3 DEF Owns, CommitClaim, StoreOutcome, OrphanInv, TypeOK
  <2>. QED  BY <1>3, <2>1, <2>2 DEF Orphans
<1>4. job[w] \notin Orphans'
  <2>1. CASE CommitClaim(w)
    <3>1. Owns(w, job[w])'
      BY <1>2, <2>1 DEF Owns, CommitClaim, OrphanInv, TypeOK
    <3>. QED  BY <1>2, <3>1 DEF Orphans
  <2>2. CASE StoreOutcome(w)
    BY <1>1, <2>2 DEF Orphans, StoreOutcome, Recorded, Terminal, OrphanInv, TypeOK
  <2>. QED  BY <2>1, <2>2
<1>. QED  BY <1>3, <1>4

\* The other steps of a worker let go of rows they do not own.
LEMMA OrphanQuiet ==
  ASSUME OrphanInv, TypeOK', NEW w \in Workers,
         \/ SelectNext(w) \/ OpenCheckRun(w) \/ Invoke(w) \/ PostVerdict(w)
         \/ CompleteCheckRun(w) \/ OpenPr(w)
  PROVE  Orphans' \subseteq Orphans /\ losses' = losses
<1>1. UNCHANGED <<status, losses>>
  BY DEF SelectNext, OpenCheckRun, Invoke, PostVerdict, CompleteCheckRun, OpenPr,
         dbVars, worldVars
<1>2. \/ /\ pc[w] \in {"idle", "verdict", "check", "pr"}
         /\ \A v \in Workers \ {w} : pc'[v] = pc[v] /\ job'[v] = job[v]
      \/ /\ job' = job
         /\ \/ pc[w] = "claimed" /\ pc' = [pc EXCEPT ![w] = "ready"]
            \/ pc[w] = "ready" /\ pc' = [pc EXCEPT ![w] = "executing"]
  BY DEF SelectNext, OpenCheckRun, Invoke, PostVerdict, CompleteCheckRun, OpenPr,
         AfterCheck, Released, OrphanInv, TypeOK
<1>3. \A v \in Workers, r \in Runs : Owns(v, r) => Owns(v, r)'
  BY <1>2 DEF Owns, OrphanInv, TypeOK
<1>. QED  BY <1>1, <1>3 DEF Orphans

\* A lost worker leaves one row behind, and is counted.
LEMMA OrphanLoss ==
  ASSUME OrphanInv, TypeOK', NEW w \in Workers, LoseWorker(w)
  PROVE  OrphanInv'
<1>1. /\ status' = status /\ losses' = losses + 1
      /\ \A v \in Workers \ {w} : pc'[v] = pc[v] /\ job'[v] = job[v]
  BY DEF LoseWorker, Released, dbVars, OrphanInv, TypeOK
<1>2. \A r \in Runs \ {job[w]}, v \in Workers : Owns(v, r) => Owns(v, r)'
  BY <1>1 DEF Owns
<1>3. Orphans' \subseteq Orphans \cup {job[w]}
  BY <1>1, <1>2 DEF Orphans
<1>4. IsFiniteSet(Orphans)
  <2>1. Orphans \in SUBSET Runs
    BY DEF Orphans
  <2>. QED  BY <2>1, RunQueueAssumption, FS_Subset
<1>5. /\ IsFiniteSet(Orphans \cup {job[w]})
      /\ Cardinality(Orphans \cup {job[w]}) <= Cardinality(Orphans) + 1
      /\ Cardinality(Orphans) \in Nat
  BY <1>4, FS_AddElement, FS_CardinalityType
<1>6. /\ Cardinality(Orphans') <= Cardinality(Orphans \cup {job[w]})
      /\ Cardinality(Orphans') \in Nat
      /\ Cardinality(Orphans \cup {job[w]}) \in Nat
  BY <1>3, <1>5, FS_Subset, FS_CardinalityType
<1>. QED  BY <1>1, <1>5, <1>6 DEF OrphanInv, OrphansAreLosses, TypeOK

LEMMA OrphanStep == OrphanInv /\ [Next]_vars => OrphanInv'
<1> SUFFICES ASSUME OrphanInv, [Next]_vars PROVE OrphanInv'
  OBVIOUS
<1>1. TypeOK'
  BY NextTypeOK DEF OrphanInv
<1>2. ASSUME NEW r \in Runs, Stamp(r) \/ Submit(r) PROVE OrphanInv'
  <2>1. /\ status' = status \/ status' = [status EXCEPT ![r] = "queued"]
        /\ UNCHANGED <<pc, job, losses>>
    BY <1>2 DEF Stamp, Submit, workerVars, worldVars
  <2>2. Orphans' \subseteq Orphans
    BY <2>1 DEF Orphans, Owns, OrphanInv, TypeOK
  <2>. QED  BY <1>1, <2>1, <2>2, NoNewOrphans
<1>3. CASE UNCHANGED <<status, pc, job, losses>>
  BY <1>1, <1>3, NoNewOrphans DEF Orphans, Owns
<1>4. ASSUME NEW o \in Orgs, NEW t \in Tiers, ChangeTier(o, t) PROVE OrphanInv'
  BY <1>3, <1>4 DEF ChangeTier, workerVars, worldVars
<1>5. ASSUME NEW w \in Workers, CommitClaim(w) \/ StoreOutcome(w)
      PROVE  OrphanInv'
  <2>1. losses' = losses
    BY <1>5 DEF CommitClaim, StoreOutcome, worldVars
  <2>. QED  BY <1>1, <1>5, <2>1, OrphanWrite, NoNewOrphans
<1>6. ASSUME NEW w \in Workers, WorkerStep(w) \/ LoseWorker(w)
      PROVE  OrphanInv'
  BY <1>1, <1>5, <1>6, OrphanQuiet, NoNewOrphans, OrphanLoss DEF WorkerStep
<1>7. CASE UNCHANGED vars
  BY <1>3, <1>7 DEF vars, dbVars, workerVars, worldVars
<1>8. QED
  BY <1>2, <1>4, <1>6, <1>7 DEF Next

\* A row is left running for ever only where a worker was lost on it: every
\* path through process_pending_run gives it a terminal status.
THEOREM OrphansAreCounted == Spec => []OrphansAreLosses
<1>1. Init => OrphanInv
  <2> SUFFICES ASSUME Init PROVE OrphanInv
    OBVIOUS
  <2>1. Orphans = {} /\ losses = 0
    BY DEF Init, Orphans
  <2>. QED  BY <2>1, InitTypeOK, FS_EmptySet DEF OrphanInv, OrphansAreLosses
<1>2. OrphanInv => OrphansAreLosses
  BY DEF OrphanInv
<1>3. QED
  BY <1>1, <1>2, OrphanStep, PTL DEF Spec

-----------------------------------------------------------------------------
(* One worker, the deployment the documentation describes.                 *)

SingleWorker == \A v, w \in Workers : v = w

\* The concurrency limit: between the choice and the claim of the only worker
\* no other run of the org can start, although its tier may change.
CapInv ==
    /\ TypeOK
    /\ \A w \in Workers :
        pc[w] = "selected" =>
            Cardinality(RunningOf(RunOrg[job[w]])) < seats[w]

LEMMA CapStep ==
  ASSUME SingleWorker
  PROVE  CapInv /\ [Next]_vars => CapInv'
<1> SUFFICES ASSUME CapInv, [Next]_vars PROVE CapInv'
  OBVIOUS
<1>1. TypeOK /\ TypeOK'
  BY NextTypeOK DEF CapInv
<1>2. SUFFICES ASSUME NEW w \in Workers, pc'[w] = "selected"
               PROVE  Cardinality(RunningOf(RunOrg[job[w]])') < seats'[w]
  <2>1. \A w \in Workers :
            pc'[w] = "selected" =>
                Cardinality(RunningOf(RunOrg[job[w]])') < seats'[w]
    BY <1>2
  <2>. QED  BY <1>1, <2>1 DEF CapInv, RunningOf
<1>3. ASSUME pc[w] = "selected", UNCHANGED <<job, seats>>,
             \A r \in Runs : status'[r] = "running" <=> status[r] = "running"
      PROVE  Cardinality(RunningOf(RunOrg[job[w]])') < seats'[w]
  <2>1. RunningOf(RunOrg[job[w]])' = RunningOf(RunOrg[job[w]])
    BY <1>3 DEF RunningOf
  <2>. QED  BY <1>3, <2>1 DEF CapInv
<1>4. ASSUME NEW r \in Runs, Stamp(r) \/ Submit(r)
      PROVE  Cardinality(RunningOf(RunOrg[job[w]])') < seats'[w]
  BY <1>1, <1>2, <1>3, <1>4 DEF Stamp, Submit, workerVars, TypeOK
<1>5. ASSUME NEW o \in Orgs, NEW t \in Tiers, ChangeTier(o, t)
      PROVE  Cardinality(RunningOf(RunOrg[job[w]])') < seats'[w]
  BY <1>2, <1>3, <1>5 DEF ChangeTier, workerVars
<1>6. ASSUME NEW v \in Workers, SelectNext(v)
      PROVE  Cardinality(RunningOf(RunOrg[job[w]])') < seats'[w]
  <2>1. v = w
    BY DEF SingleWorker
  <2>2. PICK r \in Eligible :
            /\ job' = [job EXCEPT ![w] = r]
            /\ seats' = [seats EXCEPT ![w] = OrgLimit(RunOrg[r])]
    BY <1>6, <2>1 DEF SelectNext
  <2>3. /\ job'[w] = r /\ seats'[w] = OrgLimit(RunOrg[r])
        /\ status' = status
    BY <1>1, <1>6, <2>2 DEF SelectNext, dbVars, TypeOK
  <2>4. RunningOf(RunOrg[job[w]])' = RunningOf(RunOrg[r])
    BY <2>3 DEF RunningOf
  <2>. QED  BY <2>3, <2>4 DEF Eligible
<1>7. ASSUME NEW v \in Workers,
             \/ CommitClaim(v) \/ OpenCheckRun(v) \/ Invoke(v) \/ StoreOutcome(v)
             \/ PostVerdict(v) \/ CompleteCheckRun(v) \/ OpenPr(v) \/ LoseWorker(v)
      PROVE  FALSE
  <2>1. v = w
    BY DEF SingleWorker
  <2>. QED
    BY <1>1, <1>2, <1>7, <2>1
    DEF CommitClaim, OpenCheckRun, Invoke, StoreOutcome, PostVerdict,
        CompleteCheckRun, OpenPr, LoseWorker, AfterCheck, Released, TypeOK
<1>8. CASE UNCHANGED vars
  BY <1>2, <1>3, <1>8 DEF vars, dbVars, workerVars
<1>9. QED
  BY <1>4, <1>5, <1>6, <1>7, <1>8 DEF Next, WorkerStep

\* One element more at most adds one.
LEMMA OneMore ==
  ASSUME NEW S, NEW x, IsFiniteSet(S)
  PROVE  /\ IsFiniteSet(S \cup {x})
         /\ Cardinality(S \cup {x}) <= Cardinality(S) + 1
         /\ Cardinality(S) \in Nat /\ Cardinality(S \cup {x}) \in Nat
<1>1. Cardinality(S) \in Nat
  BY FS_CardinalityType
<1>2. /\ IsFiniteSet(S \cup {x})
      /\ \/ Cardinality(S \cup {x}) = Cardinality(S)
         \/ Cardinality(S \cup {x}) = Cardinality(S) + 1
  BY FS_AddElement, Zenon
<1>. QED  BY <1>1, <1>2

\* The claim of the only worker adds one running row to those it counted.
LEMMA ClaimAddsOne ==
  ASSUME CapInv, [Next]_vars, NEW w \in Workers,
         pc[w] = "selected", pc'[w] = "claimed"
  PROVE  Cardinality(RunningOf(RunOrg[job[w]])') <= seats[w]
<1>1. TypeOK
  BY DEF CapInv
<1>2. CommitClaim(w)
  <2>1. ASSUME NEW v \in Workers, WorkerStep(v) \/ LoseWorker(v)
        PROVE  CommitClaim(w)
    <3>1. CASE v = w
      BY <1>1, <2>1, <3>1
      DEF WorkerStep, SelectNext, OpenCheckRun, Invoke, StoreOutcome, PostVerdict,
          CompleteCheckRun, OpenPr, LoseWorker, Released, TypeOK
    <3>2. CASE v # w
      <4>1. \E p \in Phases : pc' = [pc EXCEPT ![v] = p]
        BY <2>1
        DEF WorkerStep, SelectNext, CommitClaim, OpenCheckRun, Invoke, StoreOutcome,
            PostVerdict, CompleteCheckRun, AfterCheck, OpenPr, LoseWorker, Released,
            Phases
      <4>. QED  BY <1>1, <3>2, <4>1 DEF TypeOK
    <3>. QED  BY <3>1, <3>2
  <2>2. pc' # pc
    OBVIOUS
  <2>. QED
    BY <2>1, <2>2 DEF Next, Stamp, Submit, ChangeTier, vars, workerVars
<1> DEFINE org == RunOrg[job[w]]
<1>3. RunningOf(org)' \subseteq RunningOf(org) \cup {job[w]}
  BY <1>1, <1>2 DEF CommitClaim, RunningOf, TypeOK
<1>4. RunningOf(org) \in SUBSET Runs /\ RunningOf(org)' \in SUBSET Runs
  BY DEF RunningOf
<1>5. IsFiniteSet(RunningOf(org)) /\ IsFiniteSet(RunningOf(org)')
  BY <1>4, RunQueueAssumption, FS_Subset
<1>6. /\ IsFiniteSet(RunningOf(org) \cup {job[w]})
      /\ Cardinality(RunningOf(org) \cup {job[w]}) <= Cardinality(RunningOf(org)) + 1
      /\ Cardinality(RunningOf(org)) \in Nat
  BY <1>5, OneMore
<1>7. /\ Cardinality(RunningOf(org)') <= Cardinality(RunningOf(org) \cup {job[w]})
      /\ Cardinality(RunningOf(org)') \in Nat
      /\ Cardinality(RunningOf(org) \cup {job[w]}) \in Nat
  BY <1>3, <1>5, <1>6, FS_Subset, FS_CardinalityType
<1>8. Cardinality(RunningOf(org)) < seats[w] /\ seats[w] \in Nat
  BY <1>1 DEF CapInv, TypeOK
<1>. QED  BY <1>6, <1>7, <1>8

\* With one worker no claim takes an org above the limit that was read for
\* it, for any number of runs, orgs and tiers.
THEOREM CapIsRespected ==
  ASSUME SingleWorker
  PROVE  Spec => ClaimsRespectCap
<1>1. Init => CapInv
  BY InitTypeOK DEF Init, CapInv
<1>2. CapInv /\ [Next]_vars =>
        [\A w \in Workers :
            (pc[w] = "selected" /\ pc'[w] = "claimed")
                => Cardinality(RunningOf(RunOrg[job[w]])') <= seats[w]]_vars
  BY ClaimAddsOne
<1>3. QED
  BY <1>1, <1>2, CapStep, PTL DEF Spec, ClaimsRespectCap

\* What the only worker knows about the run it holds: the row is where the
\* worker's place in process_pending_run says, and the run's executions and
\* verdicts are those the worker made.
KnowsItsRun(w) ==
    /\ pc[w] = "selected" => status[job[w]] = "queued"
    /\ pc[w] \in {"claimed", "ready"} =>
        /\ status[job[w]] = "running"
        /\ attempts[job[w]] = 0 /\ github[job[w]].verdicts = 0
    /\ pc[w] = "executing" =>
        /\ status[job[w]] = "running"
        /\ attempts[job[w]] = 1 /\ github[job[w]].verdicts = 0
    /\ pc[w] = "verdict" =>
        status[job[w]] \in Terminal /\ github[job[w]].verdicts = 0

Untouched(r) ==
    status[r] \in {"absent", "queued"} =>
        attempts[r] = 0 /\ github[r].verdicts = 0

LifeInv ==
    /\ TypeOK
    /\ \A r \in Runs : Untouched(r)
    /\ \A w \in Workers : KnowsItsRun(w)

verdicts == [r \in Runs |-> github[r].verdicts]

\* A step in the eyes of RunLifecycle: one of its own, or none.
Promised == [Lifecycle!Next]_(Lifecycle!vars)

\* Nothing that RunLifecycle speaks of changes.
LEMMA Stutters ==
  ASSUME LifeInv, UNCHANGED <<status, attempts>>, verdicts' = verdicts
  PROVE  Promised
  BY DEF Promised, Lifecycle!vars, verdicts

LEMMA Moves ==
  ASSUME NEW r \in Runs,
         \/ Lifecycle!Submit(r) \/ Lifecycle!Start(r) \/ Lifecycle!Attempt(r)
         \/ Lifecycle!Finish(r) \/ Lifecycle!Publish(r)
  PROVE  Promised
  BY DEF Promised, Lifecycle!Next

LEMMA LifeSubmit ==
  ASSUME LifeInv, TypeOK', NEW r \in Runs, Submit(r)
  PROVE  LifeInv' /\ Promised
<1>1. /\ status[r] = "absent" /\ status' = [status EXCEPT ![r] = "queued"]
      /\ UNCHANGED <<pc, job, attempts, github>>
  BY DEF Submit, workerVars, worldVars
<1>2. \A s \in Runs : Untouched(s)'
  BY <1>1 DEF LifeInv, Untouched, TypeOK
<1>3. \A w \in Workers : KnowsItsRun(w)'
  BY <1>1 DEF LifeInv, KnowsItsRun, TypeOK, Terminal
<1>4. Lifecycle!Submit(r)
  BY <1>1 DEF Lifecycle!Submit
<1>. QED  BY <1>2, <1>3, <1>4 DEF LifeInv, Promised, Lifecycle!Next

\* Opening, completing and creating check-runs and opening a pull request
\* leave every run's verdicts alone.
LEMMA VerdictsKept ==
  ASSUME github \in [Runs -> GitHubView], NEW h \in Runs, NEW id,
         \/ CheckCreated(h)
         \/ github' = [github EXCEPT ![h].open = @ \ {id}]
         \/ github' = [github EXCEPT ![h].checks = @ + 1]
         \/ github' = [github EXCEPT ![h].prs = @ + 1]
  PROVE  \A r \in Runs : github'[r].verdicts = github[r].verdicts
<1>1. CASE CheckCreated(h)
  BY <1>1 DEF CheckCreated, GitHubView
<1>2. CASE github' = [github EXCEPT ![h].open = @ \ {id}]
  BY <1>2 DEF GitHubView
<1>3. CASE github' = [github EXCEPT ![h].checks = @ + 1]
  BY <1>3 DEF GitHubView
<1>4. CASE github' = [github EXCEPT ![h].prs = @ + 1]
  BY <1>4 DEF GitHubView
<1>. QED  BY <1>1, <1>2, <1>3, <1>4

\* The choice, and the steps that touch neither row nor verdicts.
LEMMA LifeQuiet ==
  ASSUME LifeInv, TypeOK', SingleWorker, NEW w \in Workers,
         \/ SelectNext(w) \/ OpenCheckRun(w) \/ CompleteCheckRun(w)
         \/ OpenPr(w) \/ LoseWorker(w)
  PROVE  LifeInv' /\ Promised
<1>1. UNCHANGED <<status, attempts>>
  BY DEF SelectNext, OpenCheckRun, CompleteCheckRun, OpenPr, LoseWorker,
         dbVars, worldVars
<1>2. \A r \in Runs : github'[r].verdicts = github[r].verdicts
  <2>1. pc[w] # "idle" => job[w] \in Runs
    BY RunQueueAssumption DEF LifeInv, TypeOK
  <2>2. github \in [Runs -> GitHubView]
    BY DEF LifeInv, TypeOK
  <2>3. \/ github' = github
        \/ job[w] \in Runs /\ CheckCreated(job[w])
        \/ /\ job[w] \in Runs
           /\ \/ github' = [github EXCEPT ![job[w]].open = @ \ {check[w]}]
              \/ github' = [github EXCEPT ![job[w]].checks = @ + 1]
              \/ github' = [github EXCEPT ![job[w]].prs = @ + 1]
    BY <2>1 DEF SelectNext, OpenCheckRun, CompleteCheckRun, OpenPr, LoseWorker,
                worldVars
  <2>. QED
    BY <2>2, <2>3, VerdictsKept
<1>3. \A r \in Runs : Untouched(r)'
  BY <1>1, <1>2 DEF LifeInv, Untouched
<1>4. KnowsItsRun(w)'
  <2>1. CASE SelectNext(w)
    <3>1. PICK r \in Eligible : job' = [job EXCEPT ![w] = r]
      BY <2>1 DEF SelectNext
    <3>2. status[r] = "queued"
      BY DEF Eligible, Queued
    <3>. QED
      BY <1>1, <2>1, <3>1, <3>2
      DEF SelectNext, KnowsItsRun, LifeInv, TypeOK, Terminal
  <2>2. CASE OpenCheckRun(w)
    <3>1. /\ pc[w] = "claimed" /\ pc' = [pc EXCEPT ![w] = "ready"]
          /\ job' = job /\ job[w] \in Runs
      BY <2>2, RunQueueAssumption DEF OpenCheckRun, LifeInv, TypeOK
    <3>. QED  BY <1>1, <1>2, <3>1 DEF KnowsItsRun, LifeInv, TypeOK
  <2>3. CASE CompleteCheckRun(w) \/ OpenPr(w) \/ LoseWorker(w)
    <3>1. pc'[w] \in {"idle", "pr"}
      BY <2>3 DEF CompleteCheckRun, AfterCheck, OpenPr, LoseWorker, Released,
                  LifeInv, TypeOK
    <3>. QED  BY <3>1 DEF KnowsItsRun
  <2>. QED  BY <2>1, <2>2, <2>3
<1>5. \A v \in Workers : v = w
  BY DEF SingleWorker
<1>6. Promised
  BY <1>1, <1>2, Stutters DEF verdicts
<1>. QED  BY <1>3, <1>4, <1>5, <1>6 DEF LifeInv

\* The claim, the call of the runner, the outcome and the verdict are the
\* steps of the lifecycle.
LEMMA LifeMoves ==
  ASSUME LifeInv, TypeOK', SingleWorker, NEW w \in Workers,
         CommitClaim(w) \/ Invoke(w) \/ StoreOutcome(w) \/ PostVerdict(w)
  PROVE  LifeInv' /\ Promised
<1> DEFINE h == job[w]
<1>1. h \in Runs /\ job' = job /\ KnowsItsRun(w)
  BY RunQueueAssumption
  DEF LifeInv, TypeOK, CommitClaim, Invoke, StoreOutcome, PostVerdict
<1>2. \A v \in Workers : v = w
  BY DEF SingleWorker
<1>3. SUFFICES /\ \A r \in Runs : Untouched(r)'
               /\ KnowsItsRun(w)'
               /\ Promised
  BY <1>2 DEF LifeInv
<1>4. CASE CommitClaim(w)
  <2>1. /\ status[h] = "queued" /\ status' = [status EXCEPT ![h] = "running"]
        /\ pc' = [pc EXCEPT ![w] = "claimed"]
        /\ UNCHANGED <<attempts, github>>
    BY <1>1, <1>4 DEF CommitClaim, KnowsItsRun, worldVars
  <2>2. \A r \in Runs : Untouched(r)'
    BY <1>1, <2>1 DEF LifeInv, Untouched, TypeOK
  <2>3. KnowsItsRun(w)'
    BY <1>1, <2>1 DEF LifeInv, Untouched, KnowsItsRun, TypeOK
  <2>4. Lifecycle!Start(h)
    BY <2>1 DEF Lifecycle!Start
  <2>. QED  BY <1>1, <2>2, <2>3, <2>4 DEF Promised, Lifecycle!Next
<1>5. CASE Invoke(w)
  <2>1. /\ status[h] = "running" /\ attempts[h] = 0 /\ github[h].verdicts = 0
        /\ attempts' = [attempts EXCEPT ![h] = 1]
        /\ pc' = [pc EXCEPT ![w] = "executing"]
        /\ UNCHANGED <<status, github>>
    BY <1>1, <1>5 DEF Invoke, KnowsItsRun, dbVars, LifeInv, TypeOK
  <2>2. \A r \in Runs : Untouched(r)'
    BY <1>1, <2>1 DEF LifeInv, Untouched, TypeOK
  <2>3. KnowsItsRun(w)'
    BY <1>1, <2>1 DEF LifeInv, KnowsItsRun, TypeOK
  <2>4. Lifecycle!Attempt(h)
    BY <2>1 DEF Lifecycle!Attempt
  <2>. QED  BY <1>1, <2>2, <2>3, <2>4 DEF Promised, Lifecycle!Next
<1>6. CASE StoreOutcome(w)
  <2>1. PICK t \in Terminal : status' = [status EXCEPT ![h] = t]
    BY <1>6 DEF StoreOutcome, Recorded
  <2>2. /\ status[h] = "running" /\ attempts[h] = 1 /\ github[h].verdicts = 0
        /\ pc' = [pc EXCEPT ![w] = "verdict"]
        /\ UNCHANGED <<attempts, github>>
    BY <1>1, <1>6 DEF StoreOutcome, KnowsItsRun, worldVars
  <2>3. \A r \in Runs : Untouched(r)'
    BY <1>1, <2>1, <2>2 DEF LifeInv, Untouched, TypeOK, Terminal
  <2>4. KnowsItsRun(w)'
    BY <1>1, <2>1, <2>2 DEF LifeInv, KnowsItsRun, TypeOK
  <2>5. Lifecycle!Finish(h)
    BY <2>1, <2>2 DEF Lifecycle!Finish, Lifecycle!Terminal, Terminal
  <2>. QED  BY <1>1, <2>3, <2>4, <2>5 DEF Promised, Lifecycle!Next
<1>7. CASE PostVerdict(w)
  <2>1. /\ status[h] \in Terminal /\ github[h].verdicts = 0
        /\ pc' = [pc EXCEPT ![w] = "check"]
        /\ UNCHANGED <<status, attempts>>
    BY <1>1, <1>7 DEF PostVerdict, KnowsItsRun, dbVars
  <2>2. KnowsItsRun(w)'
    BY <2>1 DEF LifeInv, KnowsItsRun, TypeOK
  <2>3. CASE github' = github
    BY <2>1, <2>2, <2>3, Stutters DEF LifeInv, Untouched, verdicts
  <2>4. CASE github' = [github EXCEPT ![h].verdicts = @ + 1]
    <3>1. /\ github'[h].verdicts = 1
          /\ \A r \in Runs \ {h} : github'[r] = github[r]
      BY <1>1, <2>1, <2>4 DEF LifeInv, TypeOK, GitHubView
    <3>2. \A r \in Runs : Untouched(r)'
      BY <2>1, <3>1 DEF LifeInv, Untouched, Terminal
    <3>3. verdicts' = [verdicts EXCEPT ![h] = 1]
      BY <1>1, <3>1 DEF verdicts
    <3>4. PICK r \in Runs : r = h
      BY <1>1
    <3>5. Lifecycle!Publish(r)
      BY <2>1, <3>3, <3>4
      DEF Lifecycle!Publish, Lifecycle!Terminal, Terminal, verdicts
    <3>6. Promised
      BY <3>5, Moves
    <3>. QED  BY <2>2, <3>2, <3>6
  <2>. QED  BY <1>7, <2>3, <2>4 DEF PostVerdict
<1>. QED  BY <1>4, <1>5, <1>6, <1>7

LEMMA LifeStep ==
  ASSUME SingleWorker
  PROVE  LifeInv /\ [Next]_vars => LifeInv' /\ Promised
<1> SUFFICES ASSUME LifeInv, [Next]_vars PROVE LifeInv' /\ Promised
  OBVIOUS
<1>1. TypeOK'
  BY NextTypeOK DEF LifeInv
<1>2. CASE UNCHANGED <<status, attempts, github, pc, job>>
  <2>1. Promised
    BY <1>2, Stutters DEF verdicts
  <2>. QED  BY <1>1, <1>2, <2>1 DEF LifeInv, Untouched, KnowsItsRun
<1>3. ASSUME NEW r \in Runs, Stamp(r) \/ Submit(r) PROVE LifeInv' /\ Promised
  BY <1>1, <1>2, <1>3, LifeSubmit DEF Stamp, workerVars, worldVars
<1>4. ASSUME NEW o \in Orgs, NEW t \in Tiers, ChangeTier(o, t)
      PROVE  LifeInv' /\ Promised
  BY <1>2, <1>4 DEF ChangeTier, workerVars, worldVars
<1>5. ASSUME NEW w \in Workers, WorkerStep(w) \/ LoseWorker(w)
      PROVE  LifeInv' /\ Promised
  BY <1>1, <1>5, LifeQuiet, LifeMoves DEF WorkerStep
<1>6. CASE UNCHANGED vars
  BY <1>2, <1>6 DEF vars, dbVars, workerVars, worldVars
<1>7. QED
  BY <1>3, <1>4, <1>5, <1>6 DEF Next

\* With one worker the service implements RunLifecycle: a run moves forward
\* only, is paid for at most once, and its verdict is published at most once
\* and after the fact, whatever is lost or refused on the way.
THEOREM OneWorkerKeepsThePromise ==
  ASSUME SingleWorker
  PROVE  Spec => RunsFollowLifecycle
<1>1. Init => LifeInv
  BY InitTypeOK DEF Init, LifeInv, Untouched, KnowsItsRun, NothingShown
<1>2. Init => Lifecycle!Init
  BY DEF Init, Lifecycle!Init, NothingShown
<1>3. QED
  BY <1>1, <1>2, LifeStep, PTL
  DEF Spec, RunsFollowLifecycle, Lifecycle!Spec, Promised

\* Where the check-run of a pull request's run stands, as long as no call
\* about the run failed and its worker lives: still to be opened by a worker
\* that has not claimed the row, or by the one that has; open, its id on the
\* Run object of the worker; completed.
Waiting(r) ==
    /\ status[r] \in {"absent", "queued"}
    /\ checkId[r] = 0 /\ github[r].checks = 0 /\ github[r].open = {}
    /\ \A w \in Workers : job[w] = r => pc[w] = "selected"

CheckDue(r) ==
    /\ github[r].checks = 0 /\ github[r].open = {}
    /\ \E w \in Workers : job[w] = r /\ pc[w] = "claimed" /\ check[w] = 0

CheckOpen(r) ==
    /\ github[r].checks = 1 /\ github[r].open = {1}
    /\ \E w \in Workers :
        /\ job[w] = r /\ check[w] = 1
        /\ pc[w] \in {"ready", "executing", "verdict", "check"}

CheckClosed(r) ==
    /\ github[r].checks = 1 /\ github[r].open = {}
    /\ \A w \in Workers : job[w] = r => pc[w] = "pr"

Begun(r) == status[r] \notin {"absent", "queued"}

Staged(r) ==
    (Origin[r] = "pull_request" /\ ~fault[r]) =>
        \/ Waiting(r)
        \/ Begun(r) /\ (CheckDue(r) \/ CheckOpen(r) \/ CheckClosed(r))

CheckInv == LifeInv /\ \A r \in Runs : Staged(r)

\* A run stays at its stage in a step that changes nothing of it and nothing
\* of a worker that holds it.
LEMMA StageKept ==
  ASSUME NEW r \in Runs, Staged(r),
         status'[r] = status[r], checkId'[r] = checkId[r],
         github'[r] = github[r], fault'[r] = fault[r],
         \A w \in Workers :
             (job[w] = r \/ job'[w] = r) =>
                 job'[w] = job[w] /\ pc'[w] = pc[w] /\ check'[w] = check[w]
  PROVE  Staged(r)'
<1>1. CASE Waiting(r)
  BY <1>1 DEF Waiting, Staged
<1>2. CASE Begun(r) /\ CheckDue(r)
  <2>1. CheckDue(r)'
    BY <1>2 DEF CheckDue
  <2>. QED  BY <1>2, <2>1 DEF Begun, Staged
<1>3. CASE Begun(r) /\ CheckOpen(r)
  <2>1. CheckOpen(r)'
    BY <1>3 DEF CheckOpen
  <2>. QED  BY <1>3, <2>1 DEF Begun, Staged
<1>4. CASE Begun(r) /\ CheckClosed(r)
  <2>1. CheckClosed(r)'
    BY <1>4 DEF CheckClosed
  <2>. QED  BY <1>4, <2>1 DEF Begun, Staged
<1>. QED  BY <1>1, <1>2, <1>3, <1>4 DEF Staged

\* The place of the only worker tells the stage of the run it holds.
LEMMA StageOfHeld ==
  ASSUME SingleWorker, TypeOK, NEW w \in Workers, job[w] \in Runs,
         Origin[job[w]] = "pull_request", ~fault[job[w]], Staged(job[w])
  PROVE  /\ pc[w] = "claimed" => CheckDue(job[w]) /\ check[w] = 0
         /\ pc[w] \in {"ready", "executing", "verdict", "check"} =>
                CheckOpen(job[w]) /\ check[w] = 1
         /\ pc[w] = "pr" => CheckClosed(job[w])
         /\ pc[w] \notin {"idle", "selected"} => Begun(job[w])
<1>1. \A v \in Workers : v = w
  BY DEF SingleWorker
<1>. QED
  BY <1>1 DEF Staged, Waiting, CheckDue, CheckOpen, CheckClosed

\* A step of a worker that holds a run leaves every other run alone.
LEMMA OthersApart ==
  ASSUME TypeOK, NEW w \in Workers, job[w] \in Runs,
         WorkerStep(w) \/ LoseWorker(w), NEW s \in Runs, s # job[w]
  PROVE  /\ status'[s] = status[s] /\ checkId'[s] = checkId[s]
         /\ github'[s] = github[s] /\ fault'[s] = fault[s]
         /\ job'[w] # s
<1>1. pc[w] # "idle"
  BY RunQueueAssumption DEF TypeOK
<1>2. status'[s] = status[s] /\ checkId'[s] = checkId[s]
  BY <1>1
  DEF TypeOK, WorkerStep, SelectNext, CommitClaim, OpenCheckRun, CheckStored,
      Invoke, StoreOutcome, Recorded, PostVerdict, CompleteCheckRun, OpenPr,
      LoseWorker, dbVars
<1>3. fault'[s] = fault[s]
  BY <1>1
  DEF TypeOK, WorkerStep, SelectNext, CommitClaim, OpenCheckRun, Invoke,
      StoreOutcome, PostVerdict, CompleteCheckRun, OpenPr, LoseWorker, worldVars
<1>4. job'[w] # s
  BY <1>1, RunQueueAssumption
  DEF TypeOK, WorkerStep, SelectNext, CommitClaim, OpenCheckRun, Invoke,
      StoreOutcome, PostVerdict, CompleteCheckRun, AfterCheck, OpenPr,
      LoseWorker, Released
<1>5. github'[s] = github[s]
  <2>1. github \in [Runs -> GitHubView]
    BY DEF TypeOK
  <2>2. \/ github' = github
        \/ CheckCreated(job[w])
        \/ github' = [github EXCEPT ![job[w]].verdicts = @ + 1]
        \/ github' = [github EXCEPT ![job[w]].open = @ \ {check[w]}]
        \/ github' = [github EXCEPT ![job[w]].checks = @ + 1]
        \/ github' = [github EXCEPT ![job[w]].prs = @ + 1]
    BY <1>1
    DEF WorkerStep, SelectNext, CommitClaim, OpenCheckRun, Invoke, StoreOutcome,
        PostVerdict, CompleteCheckRun, OpenPr, LoseWorker, worldVars
  <2>. QED  BY <2>1, <2>2 DEF CheckCreated
<1>. QED  BY <1>2, <1>3, <1>4, <1>5

\* What the calls to GitHub do to the check-runs of the run they are about.
LEMMA CheckRunsChange ==
  ASSUME github \in [Runs -> GitHubView], NEW h \in Runs
  PROVE  /\ (CheckCreated(h) /\ github[h].checks = 0 /\ github[h].open = {}) =>
                github'[h].checks = 1 /\ github'[h].open = {1}
         /\ \A id \in Nat :
                github' = [github EXCEPT ![h].open = @ \ {id}] =>
                    /\ github'[h].checks = github[h].checks
                    /\ github'[h].open = github[h].open \ {id}
         /\ (\/ github' = [github EXCEPT ![h].verdicts = @ + 1]
             \/ github' = [github EXCEPT ![h].prs = @ + 1]) =>
                /\ github'[h].checks = github[h].checks
                /\ github'[h].open = github[h].open
<1>1. ASSUME CheckCreated(h), github[h].checks = 0, github[h].open = {}
      PROVE  github'[h].checks = 1 /\ github'[h].open = {1}
  BY <1>1 DEF CheckCreated, GitHubView
<1>2. ASSUME NEW id \in Nat, github' = [github EXCEPT ![h].open = @ \ {id}]
      PROVE  /\ github'[h].checks = github[h].checks
             /\ github'[h].open = github[h].open \ {id}
  BY <1>2 DEF GitHubView
<1>3. ASSUME \/ github' = [github EXCEPT ![h].verdicts = @ + 1]
             \/ github' = [github EXCEPT ![h].prs = @ + 1]
      PROVE  /\ github'[h].checks = github[h].checks
             /\ github'[h].open = github[h].open
  BY <1>3 DEF GitHubView
<1>. QED  BY <1>1, <1>2, <1>3

\* The choice: the chosen run is queued, so its check-run is still due.
LEMMA StagesOnSelect ==
  ASSUME SingleWorker, CheckInv, NEW w \in Workers, SelectNext(w)
  PROVE  \A r \in Runs : Staged(r)'
<1>1. /\ \A v \in Workers : v = w
      /\ TypeOK
  BY DEF SingleWorker, CheckInv, LifeInv
<1>2. /\ pc[w] = "idle" /\ job[w] = NoRun /\ pc'[w] = "selected"
      /\ UNCHANGED <<status, checkId, github, fault, check>>
  BY <1>1 DEF SelectNext, dbVars, worldVars, TypeOK
<1>3. PICK h \in Eligible : job' = [job EXCEPT ![w] = h]
  BY DEF SelectNext
<1>4. h \in Runs /\ status[h] = "queued" /\ job'[w] = h
  BY <1>1, <1>3 DEF Eligible, Queued, TypeOK
<1>5. ASSUME NEW r \in Runs PROVE Staged(r)'
  <2>1. Staged(r)
    BY DEF CheckInv
  <2>2. CASE r = h
    BY <1>1, <1>2, <1>4, <2>1, <2>2 DEF Staged, Waiting, Begun
  <2>3. CASE r # h
    <3>1. \A v \in Workers : job[v] # r /\ job'[v] # r
      BY <1>1, <1>2, <1>4, <2>3, RunQueueAssumption
    <3>. QED  BY <1>2, <2>1, <3>1, StageKept
  <2>. QED  BY <2>2, <2>3
<1>. QED  BY <1>5

\* The step of a worker about the run it holds.
LEMMA StagesOnWork ==
  ASSUME SingleWorker, CheckInv, NEW w \in Workers, pc[w] # "idle",
         WorkerStep(w) \/ LoseWorker(w)
  PROVE  \A r \in Runs : Staged(r)'
<1>1. /\ \A v \in Workers : v = w
      /\ TypeOK /\ github \in [Runs -> GitHubView]
  BY DEF SingleWorker, CheckInv, LifeInv, TypeOK
<1>2. PICK h \in Runs : h = job[w] /\ Staged(h) /\ KnowsItsRun(w)
  BY <1>1 DEF CheckInv, LifeInv, TypeOK
<1>3. ASSUME NEW r \in Runs, r # h PROVE Staged(r)'
  <2>1. \A v \in Workers : job[v] # r /\ job'[v] # r
    BY <1>1, <1>2, <1>3, OthersApart
  <2>2. Staged(r)
    BY DEF CheckInv
  <2>. QED  BY <1>1, <1>2, <1>3, <2>1, <2>2, OthersApart, StageKept
<1>4. ASSUME Origin[h] = "pull_request", ~fault'[h]
      PROVE  \/ Waiting(h)'
             \/ Begun(h)' /\ (CheckDue(h) \/ CheckOpen(h) \/ CheckClosed(h))'
  <2>1. CASE CommitClaim(w)
    <3>1. /\ status[h] = "queued" /\ ~fault[h]
          /\ status' = [status EXCEPT ![h] = "running"]
          /\ job' = job /\ github' = github
          /\ pc'[w] = "claimed" /\ check'[w] = checkId[h]
      BY <1>1, <1>2, <1>4, <2>1
      DEF CommitClaim, KnowsItsRun, worldVars, TypeOK
    <3>2. Waiting(h)
      BY <1>2, <1>4, <3>1 DEF Staged, Begun
    <3>3. CheckDue(h)'
      BY <1>2, <3>1, <3>2 DEF Waiting, CheckDue
    <3>4. Begun(h)'
      BY <1>1, <1>2, <3>1 DEF Begun, TypeOK
    <3>. QED  BY <3>3, <3>4
  <2>2. CASE OpenCheckRun(w)
    <3>1. /\ pc[w] = "claimed" /\ pc'[w] = "ready" /\ ~fault[h]
          /\ CheckCreated(h) /\ CheckStored(w)
          /\ job' = job /\ status' = status
      BY <1>1, <1>2, <1>4, <2>2 DEF OpenCheckRun, TypeOK
    <3>2. CheckDue(h) /\ Begun(h)
      BY <1>1, <1>2, <1>4, <3>1, StageOfHeld
    <3>3. github[h].checks = 0 /\ github[h].open = {}
      BY <3>2 DEF CheckDue
    <3>4. github'[h].checks = 1 /\ github'[h].open = {1}
      BY <1>1, <1>2, <3>1, <3>3, CheckRunsChange
    <3>5. check'[w] = 1
      BY <1>1, <1>2, <3>1, <3>3 DEF CheckStored, TypeOK
    <3>6. CheckOpen(h)'
      BY <1>2, <3>1, <3>4, <3>5 DEF CheckOpen
    <3>. QED  BY <3>1, <3>2, <3>6 DEF Begun
  <2>3. CASE Invoke(w) \/ StoreOutcome(w) \/ PostVerdict(w)
    <3>1. /\ pc[w] \in {"ready", "executing", "verdict"} /\ ~fault[h]
          /\ pc'[w] \in {"executing", "verdict", "check"}
          /\ job' = job /\ check' = check
      BY <1>1, <1>2, <1>4, <2>3
      DEF Invoke, StoreOutcome, PostVerdict, worldVars, TypeOK
    <3>2. CheckOpen(h) /\ check[w] = 1 /\ Begun(h)
      BY <1>1, <1>2, <1>4, <3>1, StageOfHeld
    <3>3. \/ github' = github
          \/ github' = [github EXCEPT ![h].verdicts = @ + 1]
      BY <1>2, <2>3 DEF Invoke, StoreOutcome, PostVerdict, worldVars
    <3>4. github'[h].checks = 1 /\ github'[h].open = {1}
      BY <1>1, <1>2, <3>2, <3>3, CheckRunsChange DEF CheckOpen
    <3>5. CheckOpen(h)'
      BY <1>2, <3>1, <3>2, <3>4 DEF CheckOpen
    <3>6. Begun(h)'
      BY <1>1, <1>2, <2>3, <3>2
      DEF Invoke, StoreOutcome, Recorded, PostVerdict, dbVars, Begun, Terminal,
          TypeOK
    <3>. QED  BY <3>5, <3>6
  <2>4. CASE CompleteCheckRun(w)
    <3>1. pc[w] = "check" /\ ~fault[h] /\ status' = status
      BY <1>1, <1>2, <1>4, <2>4 DEF CompleteCheckRun, dbVars, TypeOK
    <3>2. CheckOpen(h) /\ check[w] = 1 /\ Begun(h)
      BY <1>1, <1>2, <1>4, <3>1, StageOfHeld
    <3>3. github' = [github EXCEPT ![h].open = @ \ {check[w]}]
      BY <1>1, <1>2, <1>4, <2>4, <3>2 DEF CompleteCheckRun, TypeOK
    <3>4. github'[h].checks = 1 /\ github'[h].open = {}
      BY <1>1, <1>2, <3>2, <3>3, CheckRunsChange DEF CheckOpen
    <3>5. job'[w] = NoRun \/ pc'[w] = "pr"
      BY <1>1, <2>4 DEF CompleteCheckRun, AfterCheck, Released, TypeOK
    <3>6. CheckClosed(h)'
      BY <1>1, <1>2, <3>4, <3>5, RunQueueAssumption DEF CheckClosed
    <3>. QED  BY <3>1, <3>2, <3>6 DEF Begun
  <2>5. CASE OpenPr(w)
    <3>1. /\ pc[w] = "pr" /\ ~fault[h] /\ status' = status
          /\ job'[w] = NoRun
          /\ github' = [github EXCEPT ![h].prs = @ + 1]
      BY <1>1, <1>2, <1>4, <2>5 DEF OpenPr, Released, dbVars, TypeOK
    <3>2. CheckClosed(h) /\ Begun(h)
      BY <1>1, <1>2, <1>4, <3>1, StageOfHeld
    <3>3. github'[h].checks = 1 /\ github'[h].open = {}
      BY <1>1, <1>2, <3>1, <3>2, CheckRunsChange DEF CheckClosed
    <3>4. CheckClosed(h)'
      BY <1>1, <1>2, <3>1, <3>3, RunQueueAssumption DEF CheckClosed
    <3>. QED  BY <3>1, <3>2, <3>4 DEF Begun
  <2>6. ~LoseWorker(w) /\ ~SelectNext(w)
    BY <1>1, <1>2, <1>4 DEF LoseWorker, SelectNext, TypeOK
  <2>. QED  BY <2>1, <2>2, <2>3, <2>4, <2>5, <2>6 DEF WorkerStep
<1>5. Staged(h)'
  BY <1>4 DEF Staged
<1>. QED  BY <1>3, <1>5

LEMMA CheckStep ==
  ASSUME SingleWorker
  PROVE  CheckInv /\ [Next]_vars => CheckInv'
<1> SUFFICES ASSUME CheckInv, [Next]_vars PROVE \A r \in Runs : Staged(r)'
  BY LifeStep DEF CheckInv
<1>1. TypeOK
  BY DEF CheckInv, LifeInv
<1>2. ASSUME NEW s \in Runs, Submit(s), NEW r \in Runs PROVE Staged(r)'
  <2>1. Staged(r)
    BY DEF CheckInv
  <2>2. /\ UNCHANGED <<checkId, github, fault, job, pc, check>>
        /\ status[s] = "absent" /\ status' = [status EXCEPT ![s] = "queued"]
    BY <1>2 DEF Submit, workerVars, worldVars
  <2>3. CASE r = s
    BY <1>1, <2>1, <2>2, <2>3 DEF Staged, Waiting, Begun, TypeOK
  <2>4. CASE r # s
    BY <1>1, <2>1, <2>2, <2>4, StageKept DEF TypeOK
  <2>. QED  BY <2>3, <2>4
<1>3. ASSUME UNCHANGED <<status, checkId, github, fault, job, pc, check>>,
             NEW r \in Runs
      PROVE  Staged(r)'
  BY <1>3, StageKept DEF CheckInv
<1>4. ASSUME NEW w \in Workers, WorkerStep(w) \/ LoseWorker(w), NEW r \in Runs
      PROVE  Staged(r)'
  <2>1. CASE SelectNext(w)
    BY <2>1, StagesOnSelect
  <2>2. CASE ~SelectNext(w)
    <3>1. pc[w] # "idle"
      BY <1>4, <2>2
      DEF WorkerStep, CommitClaim, OpenCheckRun, Invoke, StoreOutcome,
          PostVerdict, CompleteCheckRun, OpenPr, LoseWorker
    <3>. QED  BY <1>4, <3>1, StagesOnWork
  <2>. QED  BY <2>1, <2>2
<1>. QED
  BY <1>2, <1>3, <1>4 DEF Next, Stamp, ChangeTier, vars, dbVars, workerVars, worldVars

\* With one worker the check-run that is opened for a run of a pull request
\* ends completed and alone, when no call about the run failed.
THEOREM CheckRunsEndClosed ==
  ASSUME SingleWorker
  PROVE  Spec => []CheckRunsClosed
<1>1. Init => CheckInv
  <2>1. Init => LifeInv
    BY InitTypeOK DEF Init, LifeInv, Untouched, KnowsItsRun, NothingShown
  <2>2. Init => \A r \in Runs : Staged(r)
    BY RunQueueAssumption DEF Init, Staged, Waiting, NothingShown
  <2>. QED  BY <2>1, <2>2 DEF CheckInv
<1>2. CheckInv => CheckRunsClosed
  BY DEF CheckInv, Staged, Waiting, CheckDue, CheckOpen, CheckClosed,
         CheckRunsClosed, Terminal
<1>3. QED
  BY <1>1, <1>2, CheckStep, PTL DEF Spec

=============================================================================
