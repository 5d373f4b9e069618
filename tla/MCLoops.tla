------------------------------ MODULE MCLoops ------------------------------
(***************************************************************************)
(* Small instances of the parts with a progress to make, in one run: a     *)
(* behaviour is a behaviour of the part `active` names, and the others     *)
(* stay as they begin.                                                     *)
(***************************************************************************)
EXTENDS Alerts, BotPr, EmbedIndex, RunSubmit

CONSTANTS o1, q1, q2, q3, k1

\* Requests of one org: all but q3 carry the same idempotency key.
OneOrg == [q \in Requests |-> o1]
RetriesAndOne == [q \in Requests |-> IF q = q3 THEN NoKey ELSE k1]

CONSTANTS Jobs, Junk, Daemons, Drains, MaxRetries, MaxRequeues, MaxFailures,
          MaxSignals, Nothing

VARIABLES
    \* JobQueue's, two of them under another name
    queue, processing, dead, ttl, owed,
    workerPc, job, item, outcome, stop, admin, stripped,
    submitted, completed, jobRuns, requeues, failures, signals, interrupted,
    expired, raced,
    active

Queue == INSTANCE JobQueue WITH pc <- workerPc, runs <- jobRuns

jobQueue == <<queue, processing, dead, ttl, owed, workerPc, job, item, outcome,
              stop, admin, stripped, submitted, completed, jobRuns, requeues,
              failures, signals, interrupted, expired, raced>>

loops == <<alerts, botPr, embedIndex, vars, jobQueue, active>>

LoopsInit ==
    /\ active \in {"alerts", "botpr", "index", "submit", "queue"}
    /\ AlertsInit /\ BotPrInit /\ Init /\ Queue!Init
    \* An empty tree and any one model where the index is not at work.
    /\ IndexInit
    /\ active # "index" => tree = [p \in Paths |-> NoRow]
    /\ active # "index" => embedModel = CHOOSE m \in Models : TRUE

Others(part) ==
    /\ active = part /\ UNCHANGED active
    /\ part # "alerts" => UNCHANGED alerts
    /\ part # "botpr" => UNCHANGED botPr
    /\ part # "index" => UNCHANGED embedIndex
    /\ part # "submit" => UNCHANGED vars
    /\ part # "queue" => UNCHANGED jobQueue

LoopsNext ==
    \/ Others("alerts") /\ AlertsNext
    \/ Others("botpr") /\ BotPrNext
    \/ Others("index") /\ IndexNext
    \/ Others("submit") /\ Next
    \/ Others("queue") /\ Queue!Next

\* The fairness of AlertsSpec, IndexSpec and the two FairSpecs.
LoopsSpec ==
    /\ LoopsInit /\ [][LoopsNext]_loops
    /\ \A t \in Loops : WF_loops(Others("alerts") /\ LoopStep(t))
    /\ WF_loops(Others("index") /\ BuildStep(Watch))
    /\ \A q \in Requests : WF_loops(Others("submit") /\ Handle(q))
    /\ \A w \in Daemons \cup Drains :
            WF_loops(Others("queue") /\ Queue!WorkerStep(w))
    /\ \A w \in Daemons : WF_loops(Others("queue") /\ Queue!Start(w))
    /\ WF_loops(Others("queue") /\ (Queue!StripMoved \/ Queue!PushReset))

\* What JobQueue promises of every submitted job.
JobsSettle == Queue!JobsSettle

=============================================================================
