---------------------------- MODULE Orchestrator ----------------------------
(***************************************************************************)
(* One `claw-squad run` (orchestrator.ts) and the runs that resume it: the *)
(* Planner is asked until it has a todo list, each task goes through       *)
(* rounds of Coder, tests, push and Reviewer, is merged, and the Planner   *)
(* reviews the list.  A step leads from one await to the next, since       *)
(* nothing else runs between two awaits; while the run awaits an answer,   *)
(* the user may quit or the process may die.  Phases that await nothing    *)
(* ("clarify", "list", "pick", "round", "planned", "landed") only join     *)
(* parts of the code that several paths lead to.                           *)
(* Models answer anything, and options of the command line (tests, CI,     *)
(* confirmation, rollback) appear as the alternatives of a step.           *)
(***************************************************************************)
EXTENDS Naturals, FiniteSets, FiniteSetsExt, SequencesExt

CONSTANTS
    Tasks,              \* ids the Planner may give a todo
    MaxClarifications,
    MaxLoops,
    MaxReviewRounds,
    MaxDelegates,       \* bound: subagents one Planner answer asks for
    MaxSessions,        \* bound: runs and resumed runs
    MaxTroubles,        \* bound: failed calls of GitHub and lost processes
    NoTask

ASSUME OrchestratorAssumption ==
    /\ IsFiniteSet(Tasks) /\ NoTask \notin Tasks
    /\ MaxClarifications \in Nat /\ MaxLoops \in Nat
    /\ MaxReviewRounds \in Nat /\ MaxDelegates \in Nat
    /\ MaxSessions \in Nat /\ MaxTroubles \in Nat

VARIABLES
    \* SquadState, in memory
    todo,       \* the status of each task; "absent" if not on the list
    planReady, loopCount,
    \* .claw-squad/state.json: the same three, or nothing to resume
    snapshot,
    \* local variables of the process
    pc,         \* what it awaits
    mode,       \* what it asked the Planner for
    clarifications, delegates, round,
    task,       \* the task of runTaskLoop
    start,      \* taskStartingRef
    pr,         \* prNumber is defined
    tripped,    \* budgetExceeded is set: a cap was passed or the user quit
    \* git and GitHub
    head,       \* the commits of the working tree's HEAD, oldest first
    remote,     \* the commits of a task's branch on GitHub
    \* history
    commits, approved,
    merged,     \* the branches merged, as [task, branch]
    sessions, faults, crashes,
    late,       \* calls of a model begun in this session after it tripped
    dropped,    \* tasks already begun that the Planner left off its list
    result, declared    \* how the last run ended; whether the Planner said so

state   == <<todo, planReady, loopCount>>
inTask  == <<task, start, round, pr>>
local   == <<mode, clarifications, delegates, inTask>>
git     == <<head, remote, commits, approved, merged>>
outside == <<sessions, faults, crashes, dropped>>
ending  == <<result, declared>>
vars    == <<state, snapshot, pc, local, tripped, git, outside, late, ending>>

Statuses == {"absent", "pending", "in_progress", "done", "abandoned"}

Awaits == {"planner", "subagent", "asking", "coder", "hook", "committed",
           "pushing", "reviewer", "mirror", "ci", "confirm", "merge", "closing"}

Joins == {"clarify", "list", "pick", "round", "planned", "landed"}

Results == {"none", "aborted", "blocked", "complete", "dry_run", "max_loops",
            "error", "crashed"}

NoSnapshot == [todo |-> [t \in Tasks |-> "absent"], planReady |-> FALSE,
               loopCount |-> 0]

Init ==
    /\ todo = NoSnapshot.todo /\ planReady = FALSE /\ loopCount = 0
    /\ snapshot = NoSnapshot
    /\ pc = "off" /\ mode = "none"
    /\ clarifications = 0 /\ delegates = 0 /\ round = 0
    /\ task = NoTask /\ start = << >> /\ pr = FALSE /\ tripped = FALSE
    /\ head = << >> /\ remote = [t \in Tasks |-> << >>]
    /\ commits = 0 /\ approved = {} /\ merged = {}
    /\ sessions = 0 /\ faults = 0 /\ crashes = 0
    /\ late = 0 /\ dropped = 0
    /\ result = "none" /\ declared = FALSE

-----------------------------------------------------------------------------
(* The beginning and the end of a run.                                     *)

\* A new run, or one resumed from the snapshot; git is as it was left.
Start ==
    /\ pc = "off" /\ sessions < MaxSessions
    /\ todo' = snapshot.todo /\ planReady' = snapshot.planReady
    /\ loopCount' = snapshot.loopCount
    /\ sessions' = sessions + 1
    /\ pc' = "clarify"
    /\ result' = "none" /\ declared' = FALSE
    /\ UNCHANGED <<snapshot, local, tripped, git, faults, crashes, dropped, late>>

\* The process is gone, and with it what it knew.
Forgotten ==
    /\ pc' = "off" /\ mode' = "none"
    /\ clarifications' = 0 /\ delegates' = 0 /\ round' = 0
    /\ task' = NoTask /\ start' = << >> /\ pr' = FALSE
    /\ tripped' = FALSE /\ late' = 0

\* saveSnapshot in the finally block.
Persisted(status) ==
    snapshot' = [todo |-> status, planReady |-> planReady, loopCount |-> loopCount]

\* runOrchestrator returns or throws, leaving the tasks with that status.
EndsWith(reason, status) ==
    /\ Forgotten
    /\ Persisted(status)
    /\ todo' = status
    /\ result' = reason
    /\ UNCHANGED <<planReady, loopCount>>

\* ... and nothing else happens in that step.
Ends(reason, status) ==
    EndsWith(reason, status) /\ UNCHANGED <<git, outside, declared>>

Goto(phase) == pc' = phase

\* The step only moves on.
Proceed(phase) ==
    /\ Goto(phase)
    /\ UNCHANGED <<state, snapshot, local, tripped, git, outside, late, ending>>

\* invoke() of a model.
Call(agent) ==
    /\ Goto(agent)
    /\ late' = IF tripped THEN late + 1 ELSE late

\* track: the caps are compared after each answer.
Tracked == tripped' \in {tripped, TRUE}

\* Mutant of WithinBudget: the check is missing.
WithinBudgetNot == TRUE

\* checkBudget, right after track.
WithinBudget == ~tripped'

-----------------------------------------------------------------------------
(* The Planner.                                                            *)

AskPlanner(m) ==
    /\ Call("planner")
    /\ mode' = m
    /\ UNCHANGED <<snapshot, delegates, tripped, git, ending>>

\* Phase 1: while (!state.planReady).
Clarify ==
    /\ pc = "clarify"
    /\ \/ /\ planReady \/ clarifications >= MaxClarifications
          /\ planReady' = TRUE
          /\ Goto("list")
          /\ UNCHANGED <<todo, loopCount, snapshot, local, tripped, git,
                         outside, late, ending>>
       \/ /\ ~planReady /\ clarifications < MaxClarifications
          /\ AskPlanner("clarify")
          /\ UNCHANGED <<state, clarifications, inTask, outside>>

Listed == {t \in Tasks : todo[t] # "absent"}

\* Phase 2, and the dry run.
List ==
    /\ pc = "list"
    /\ \/ /\ Listed = {}
          /\ AskPlanner("list")
          /\ UNCHANGED <<state, clarifications, inTask, outside>>
       \/ Listed # {} /\ Proceed("pick")
       \/ Listed # {} /\ Ends("dry_run", todo)

\* The Planner's answer is tracked before its delegations are looked at.
PlannerAnswers ==
    /\ pc = "planner"
    /\ \/ /\ Tracked /\ WithinBudget
          /\ \E n \in 0..MaxDelegates :
              /\ delegates' = n
              /\ Goto(IF n = 0 THEN "planned" ELSE "subagent")
          /\ UNCHANGED <<state, snapshot, mode, clarifications, round, task,
                         start, pr, git, outside, late, ending>>
       \/ Ends("aborted", todo)

\* dispatchDelegates: the loop ends early when the budget is gone, and its
\* caller goes on all the same.
SubagentAnswers ==
    /\ pc = "subagent"
    /\ \/ Tracked               \* it answered
       \/ UNCHANGED tripped     \* it failed: caught and logged
    /\ \/ /\ WithinBudget /\ delegates > 1
          /\ delegates' = delegates - 1
          /\ Call("subagent")
       \/ /\ ~WithinBudget \/ delegates = 1
          /\ delegates' = 0
          /\ Goto("planned")
          /\ UNCHANGED late
    /\ UNCHANGED <<state, snapshot, mode, clarifications, round, task, start,
                   pr, git, outside, ending>>

Fresh(list) == [t \in Tasks |-> IF t \in list THEN "pending" ELSE "absent"]

\* Phase 1: questions, a list, or anything else, which counts as ready.
PlannedClarify ==
    /\ pc = "planned" /\ mode = "clarify"
    /\ \/ Proceed("asking")
       \/ /\ planReady' = TRUE
          /\ \/ UNCHANGED todo
             \/ \E list \in SUBSET Tasks : todo' = Fresh(list)
          /\ Goto("list")
          /\ UNCHANGED <<loopCount, snapshot, local, tripped, git, outside,
                         late, ending>>

\* The user answers the questions.
AnswersGiven ==
    /\ pc = "asking"
    /\ clarifications' = clarifications + 1
    /\ Goto("clarify")
    /\ UNCHANGED <<state, snapshot, mode, delegates, round, task, start, pr,
                   tripped, git, outside, late, ending>>

\* Phase 2: a list, or the run is blocked.
PlannedList ==
    /\ pc = "planned" /\ mode = "list"
    /\ \/ /\ \E list \in (SUBSET Tasks) \ {{}} : todo' = Fresh(list)
          /\ Goto("pick")
          /\ UNCHANGED <<planReady, loopCount, snapshot, local, tripped, git,
                         outside, late, ending>>
       \/ Ends("blocked", todo)

\* Mutant of Revised: the list the Planner sends replaces the old one.
RevisedFresh(list) == Fresh(list)

\* The Planner's list, "merge by id": known tasks keep their status.
Revised(list) ==
    [t \in Tasks |->
        IF t \notin list THEN "absent"
        ELSE IF todo[t] = "absent" THEN "pending" ELSE todo[t]]

Begun == {t \in Tasks : todo[t] \in {"in_progress", "done", "abandoned"}}

\* The review after a task: the run is complete, or goes on with the same
\* list or another one, and the state is saved.
PlannedReview ==
    /\ pc = "planned" /\ mode = "review"
    /\ \/ /\ EndsWith("complete", todo)
          /\ declared' = TRUE
          /\ UNCHANGED <<git, outside>>
       \/ /\ \/ todo' = todo /\ UNCHANGED dropped
             \/ \E list \in (SUBSET Tasks) \ {{}} :
                    /\ todo' = Revised(list)
                    /\ dropped' = dropped + Cardinality(Begun \ list)
          /\ Persisted(todo')
          /\ Goto("pick")
          /\ UNCHANGED <<planReady, loopCount, local, tripped, git, sessions,
                         faults, crashes, late, ending>>

-----------------------------------------------------------------------------
(* The loop over the tasks.                                                *)

Marked(t, status) == [todo EXCEPT ![t] = status]

Workable == {t \in Tasks : todo[t] = "pending"}

\* Phase 3: while (state.loopCount < config.maxLoops).  What the phases before
\* it used is not read again, and forgotten.
Pick ==
    /\ pc = "pick"
    /\ \/ loopCount >= MaxLoops /\ Ends("max_loops", todo)
       \/ /\ loopCount < MaxLoops /\ Workable = {}
          /\ Ends("complete", todo)
       \/ /\ loopCount < MaxLoops
          /\ \E t \in Workable :
              \/ /\ todo' = Marked(t, "in_progress")
                 /\ task' = t
                 /\ start' = head /\ round' = 0 /\ pr' = FALSE
                 /\ mode' = "none" /\ clarifications' = 0
                 /\ Goto("round")
                 /\ UNCHANGED <<planReady, loopCount, snapshot, delegates,
                                tripped, git, outside, late, ending>>
              \/ Ends("blocked", Marked(t, "abandoned"))  \* unknown repo alias

Abandoned == Ends("blocked", Marked(task, "abandoned"))

\* The task is abandoned, with or without a rollback (rollbackTask), which
\* takes HEAD back unless git fails, and closes the pull request if any.
Abandon ==
    \/ /\ EndsWith("blocked", Marked(task, "abandoned"))
       /\ head' = head \/ (~pr /\ head' = start)
       /\ UNCHANGED <<remote, commits, approved, merged, outside, declared>>
    \/ /\ pr /\ head' \in {start, head}
       /\ Goto("closing")
       /\ UNCHANGED <<state, snapshot, local, tripped, remote, commits, approved,
                      merged, outside, late, ending>>

\* Closed or not, nothing looks at the pull request again.
RolledBack == pc = "closing" /\ Abandoned

\* The end of for (let round = 0; round < config.maxReviewRounds; round++).
OutOfRounds == round >= MaxReviewRounds

\* The next round begins with a call of the Coder.
Round ==
    /\ pc = "round"
    /\ \/ OutOfRounds /\ Abandon
       \/ /\ ~OutOfRounds
          /\ round' = round + 1
          /\ Call("coder")
          /\ UNCHANGED <<state, snapshot, mode, clarifications, delegates, task,
                         start, pr, tripped, git, outside, ending>>

\* Mutant of GivesUp: the run goes on with the next task.
GivesUpOn ==
    /\ todo' = Marked(task, "abandoned") /\ task' = NoTask
    /\ Goto("pick")
    /\ UNCHANGED <<planReady, loopCount, snapshot, mode, clarifications,
                   delegates, round, start, pr, tripped, git, outside, late,
                   ending>>

\* BLOCKED: no rollback, and the run ends.
GivesUp == Abandoned

\* Mutant of NoEdits: an answer without edits does not use up a round.
NoEditsFree == Goto("round") /\ round' = round - 1

\* Nothing to commit: continue.
NoEdits == Goto("round") /\ UNCHANGED round

\* The Coder has edits, none, or is blocked.
CoderAnswers ==
    /\ pc = "coder"
    /\ \/ /\ Tracked /\ WithinBudget
          /\ \/ Goto("hook") /\ UNCHANGED round
             \/ NoEdits
          /\ UNCHANGED <<state, snapshot, mode, clarifications, delegates, task,
                         start, pr, git, outside, late, ending>>
       \/ ~tripped /\ GivesUp
       \/ Ends("aborted", todo)

\* After preCommit: applyAndCommit, which finds a change or none; or the
\* hook vetoed the commit.
HookReturns ==
    /\ pc = "hook"
    /\ \/ /\ head' = Append(head, [task |-> task, n |-> commits])
          /\ commits' = commits + 1
          /\ Goto("committed")
          /\ UNCHANGED <<state, snapshot, local, tripped, remote,
                         approved, merged, outside, late, ending>>
       \/ Proceed("round")
       \/ Abandon

\* After postCommit: the tests, if there are any; when they fail, the Coder is
\* sent back without a review.
TestsRun ==
    /\ pc = "committed"
    /\ Proceed("pushing") \/ Proceed("round")

\* git push moves the branch forward only; ensurePr finds the open pull
\* request or makes one.
Pushed ==
    /\ IsPrefix(remote[task], head)
    /\ remote' = [remote EXCEPT ![task] = head]

\* Push and pull request, or the error is logged; then the Reviewer is called.
PushReturns ==
    /\ pc = "pushing"
    /\ \/ /\ Pushed
          /\ pr' = TRUE
          /\ UNCHANGED faults
       \/ /\ faults + crashes < MaxTroubles
          /\ Pushed \/ UNCHANGED remote
          /\ faults' = faults + 1
          /\ UNCHANGED pr
       \/ /\ ~IsPrefix(remote[task], head)
          /\ faults' = faults + 1
          /\ UNCHANGED <<remote, pr>>
    /\ Call("reviewer")
    /\ UNCHANGED <<state, snapshot, mode, clarifications, delegates, round,
                   task, start, tripped, head, commits, approved, merged,
                   sessions, crashes, dropped, ending>>

\* The Reviewer has read the last commit's diff.
ReviewerAnswers ==
    /\ pc = "reviewer"
    /\ \/ /\ Tracked /\ WithinBudget
          /\ \/ approved' = approved \cup {Last(head)}
             \/ UNCHANGED approved
          /\ Goto("mirror")
          /\ UNCHANGED <<state, snapshot, local, head, remote, commits,
                         merged, outside, late, ending>>
       \/ Ends("aborted", todo)

\* Mutant of Approves: changes requested, and merged all the same.
ApprovesAll == TRUE

Approves == Last(head) \in approved

\* The verdict was posted as a review, or not: the error is logged.
VerdictMirrored ==
    /\ pc = "mirror"
    /\ \/ ~Approves /\ Proceed("round")
       \/ Approves /\ pr /\ Proceed("ci")
       \/ Approves /\ ~pr /\ Proceed("landed")

\* Mutant of CiUnverified: the task counts as complete.
CiUnverifiedLands == Proceed("landed")

\* The checks are still pending after the time-out, or cannot be read.
CiUnverified == Ends("blocked", todo)

\* CI failed; could not be seen to pass; passed, or is not waited for.  The
\* user is asked about the merge, or not.
CiReturns ==
    /\ pc = "ci"
    /\ \/ Proceed("round")
       \/ CiUnverified
       \/ Proceed("confirm")
       \/ Proceed("merge")

\* The user declines the merge or accepts it.
ConfirmReturns ==
    /\ pc = "confirm"
    /\ \/ Ends("aborted", todo)
       \/ Proceed("merge")

\* GitHub merges what the branch holds there.
Merge ==
    merged' = merged \cup
        {[task |-> task, branch |-> remote[task], at |-> commits]}

\* The answer, or the failure, merged or not, that is only logged.
MergeReturns ==
    /\ pc = "merge"
    /\ \/ Merge /\ UNCHANGED faults
       \/ /\ faults + crashes < MaxTroubles
          /\ Merge \/ UNCHANGED merged
          /\ faults' = faults + 1
    /\ Goto("landed")
    /\ UNCHANGED <<state, snapshot, local, tripped, head, remote, commits,
                   approved, sessions, crashes, dropped, late, ending>>

\* runTaskLoop returned "complete": the task is done and the Planner reviews.
Landed ==
    /\ pc = "landed"
    /\ \/ tripped /\ Ends("aborted", todo)
       \/ /\ ~tripped
          /\ todo' = Marked(task, "done")
          /\ loopCount' = loopCount + 1
          /\ task' = NoTask /\ start' = << >> /\ round' = 0 /\ pr' = FALSE
          /\ AskPlanner("review")
          /\ UNCHANGED <<planReady, clarifications, outside>>

-----------------------------------------------------------------------------
(* What happens around the run.                                            *)

\* The user quits: noticed at the next checkBudget.
Quit ==
    /\ pc \in Awaits /\ ~tripped
    /\ tripped' = TRUE
    /\ UNCHANGED <<state, snapshot, pc, local, git, outside, late, ending>>

\* A model, a hook or git throws: out of runOrchestrator, by way of finally.
Throw ==
    /\ pc \in {"planner", "coder", "hook", "committed", "reviewer"}
    /\ Ends("error", todo)

\* The process dies; in the middle of a save it leaves a file that cannot be
\* parsed, so that there is nothing to resume.
Crash ==
    /\ pc \in Awaits /\ faults + crashes < MaxTroubles
    /\ Forgotten
    /\ snapshot' \in {snapshot, NoSnapshot}
    /\ todo' = snapshot'.todo /\ planReady' = snapshot'.planReady
    /\ loopCount' = snapshot'.loopCount
    /\ crashes' = crashes + 1
    /\ result' = "crashed"
    /\ UNCHANGED <<git, sessions, faults, dropped, declared>>

-----------------------------------------------------------------------------
(* The specification.                                                      *)

Planner ==
    \/ Clarify \/ List \/ PlannerAnswers \/ SubagentAnswers
    \/ PlannedClarify \/ PlannedList \/ PlannedReview

TaskStep ==
    \/ Pick \/ Round \/ RolledBack \/ CoderAnswers \/ HookReturns \/ TestsRun
    \/ PushReturns \/ ReviewerAnswers \/ VerdictMirrored \/ CiReturns
    \/ MergeReturns \/ Landed

Human == AnswersGiven \/ ConfirmReturns

Next ==
    \/ Start \/ Planner \/ TaskStep \/ Human
    \/ Quit \/ Throw \/ Crash

Spec == Init /\ [][Next]_vars

\* Models, hooks, tests, git and GitHub answer or fail in the end, and the loop
\* then goes on by itself; a user need not answer, and nobody need resume.
FairSpec == Spec /\ WF_vars(Planner \/ TaskStep)

-----------------------------------------------------------------------------
(* Properties.                                                             *)

Commits == [task : Tasks, n : Nat]

\* Once a cap is passed or the user has quit, at most one more model is
\* called before the run stops, wherever it was: every path from an await to
\* a call goes through a checkBudget, or reaches one after that call.
BudgetOvershoot == late <= 1

\* The last commit of the task on a branch was approved, if there is one.
TipApproved(branch, t) ==
    LET own == {i \in DOMAIN branch : branch[i].task = t}
    IN  own # {} => branch[Max(own)] \in approved

\* As long as every call of GitHub succeeds and no run was interrupted and
\* resumed, a merge brings in no task whose last commit the Reviewer did not
\* approve, although a task's branch starts from the branch of the task
\* before it.  Of the commits below it this says nothing: those that failed
\* the tests or were rejected in earlier rounds are merged with it.
MergedTipsApproved ==
    faults = 0 /\ sessions <= 1 =>
        \A m \in merged : \A t \in Tasks : TipApproved(m.branch, t)

\* claw-squad/README.md: only approved diffs get merged.  They do not: the
\* Reviewer reads the diff of the last commit, and the merge takes the branch.
OnlyApprovedDiffsMerged ==
    faults = 0 /\ sessions <= 1 =>
        \A m \in merged : ToSet(m.branch) \subseteq approved

\* As long as every call of GitHub succeeds, a task is marked done, in memory
\* or in the snapshot a later run resumes from, only after its pull request
\* was merged.
DoneTasksMerged ==
    faults = 0 =>
        \A t \in Tasks :
            "done" \in {todo[t], snapshot.todo[t]} => \E m \in merged : m.task = t

\* The work of a task is merged again only if a process was lost before it
\* had saved the first merge, or if the Planner left the task off its list
\* and put it back.
MergedOnce ==
    \A t \in Tasks :
        Cardinality({m \in merged : m.task = t}) <= 1 + crashes + dropped

\* A run that ends because no task is pending leaves at most one task
\* unfinished for each earlier run that it or its predecessors resumed.
CompleteIsComplete ==
    result = "complete" /\ ~declared =>
        Cardinality({t \in Listed : todo[t] # "done"}) < sessions

\* The todo list keeps the promise of TodoBoard.
Board ==
    INSTANCE TodoBoard WITH
        saved <- snapshot.todo, running <- (pc # "off"),
        shipped <- {m.task : m \in merged}, outage <- (faults > 0)

RunsFollowBoard == Board!Spec

\* A run ends, or waits for its user: clarifications, rounds, tasks and
\* delegations are all bounded.
RunEnds == pc # "off" ~> pc \in {"off", "asking", "confirm"}

=============================================================================
