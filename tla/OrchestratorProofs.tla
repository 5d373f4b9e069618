------------------------- MODULE OrchestratorProofs -------------------------
(***************************************************************************)
(* Proofs about Orchestrator, for any number of tasks, rounds, sessions,   *)
(* failures and crashes.  The control of a run (what it awaits, which      *)
(* task it is at, whether its plan is ready) is one invariant; each safety *)
(* property has one of its own on top of it, and so has the refinement     *)
(* of TodoBoard.                                                           *)
(***************************************************************************)
EXTENDS Orchestrator, FiniteSetTheorems, TLAPS

Phases == {"off"} \cup Awaits \cup Joins

Modes == {"none", "clarify", "list", "review"}

Lists == [Tasks -> Statuses]

Saves == [todo : Lists, planReady : BOOLEAN, loopCount : Nat]

Merges == [task : Tasks, branch : Seq(Commits), at : Nat]

MemoryTypes ==
    todo \in Lists /\ loopCount \in Nat /\ snapshot \in Saves /\ result \in Results

Switches ==
    planReady \in BOOLEAN /\ declared \in BOOLEAN /\ pr \in BOOLEAN /\ tripped \in BOOLEAN

LocalTypes ==
    /\ pc \in Phases /\ mode \in Modes
    /\ delegates \in Nat /\ round \in Nat /\ clarifications \in Nat
    /\ task \in Tasks \cup {NoTask} /\ start \in Seq(Commits)

GitTypes ==
    /\ head \in Seq(Commits) /\ remote \in [Tasks -> Seq(Commits)]
    /\ approved \subseteq Commits /\ merged \subseteq Merges

Counters ==
    /\ commits \in Nat /\ sessions \in Nat /\ faults \in Nat
    /\ crashes \in Nat /\ dropped \in Nat /\ late \in Nat

OrchTypes == MemoryTypes /\ Switches /\ LocalTypes /\ GitTypes /\ Counters

\* The phases of runTaskLoop.
AtTask == {"round", "coder", "hook", "committed", "pushing", "reviewer",
           "mirror", "ci", "confirm", "merge", "closing", "landed"}

\* Those in which HEAD ends with a commit of the task.
Presented == {"committed", "pushing", "reviewer", "mirror", "ci", "confirm",
              "merge", "landed"}

Untouched(list) == \A t \in Tasks : list[t] \in {"absent", "pending"}

Control ==
    /\ pc \in AtTask => /\ task \in Tasks /\ todo[task] = "in_progress" /\ planReady
    /\ pc \in {"list", "pick"} => planReady
    /\ pc \in {"planner", "subagent", "planned"} =>
            /\ mode \in {"clarify", "list", "review"}
            /\ mode = "clarify" <=> ~planReady
            /\ mode = "list" => Listed = {}
    /\ ~planReady => Untouched(todo)
    /\ ~snapshot.planReady => Untouched(snapshot.todo)
    /\ pc = "off" => todo = snapshot.todo /\ planReady = snapshot.planReady
    /\ pc # "off" => result = "none" /\ ~declared
    /\ pc \in Presented => head # << >> /\ Last(head).task = task

LEMMA NothingSaved ==
    /\ NoSnapshot \in Saves
    /\ ~NoSnapshot.planReady /\ \A t \in Tasks : NoSnapshot.todo[t] = "absent"
    /\ NoSnapshot.todo \in Lists /\ NoSnapshot.loopCount = 0
    /\ NoSnapshot.planReady \in BOOLEAN
BY DEF NoSnapshot, Saves, Lists, Statuses

\* A list the Planner sends, and a task that changes.
LEMMA Relisted ==
    ASSUME OrchTypes, NEW list \in SUBSET Tasks
    PROVE  Fresh(list) \in Lists /\ Revised(list) \in Lists
BY DEF OrchTypes, MemoryTypes, Fresh, Revised, Lists, Statuses

LEMMA Remarked ==
    ASSUME OrchTypes, NEW t \in Tasks, NEW status \in Statuses
    PROVE  /\ Marked(t, status) \in Lists /\ Marked(t, status)[t] = status
           /\ \A u \in Tasks \ {t} : Marked(t, status)[u] = todo[u]
BY DEF OrchTypes, MemoryTypes, Marked, Lists

LEMMA BegunFinite ==
    ASSUME NEW list
    PROVE  /\ IsFiniteSet(Begun \ list) /\ Cardinality(Begun \ list) \in Nat
           /\ \A t \in Begun \ list : Cardinality(Begun \ list) >= 1
<1>1. Begun \ list \subseteq Tasks
  BY DEF Begun
<1>2. IsFiniteSet(Begun \ list) /\ Cardinality(Begun \ list) \in Nat
  BY <1>1, OrchestratorAssumption, FS_Subset, FS_CardinalityType
<1>3. ASSUME NEW t \in Begun \ list
      PROVE  Cardinality(Begun \ list) >= 1
  <2>1. Cardinality(Begun \ list) # 0
    BY <1>2, <1>3, FS_EmptySet
  <2>. QED  BY <1>2, <2>1
<1>. QED  BY <1>2, <1>3

LEMMA OrchInitTypes == Init => OrchTypes /\ Control
<1>. SUFFICES ASSUME Init
              PROVE  OrchTypes /\ Control
  OBVIOUS
<1>1. MemoryTypes
  BY NothingSaved DEF Init, MemoryTypes, Results
<1>2. Switches
  BY DEF Init, Switches
<1>3. LocalTypes
  BY DEF Init, LocalTypes, Phases, Modes
<1>4. GitTypes
  BY DEF Init, GitTypes
<1>5. Counters
  BY DEF Init, Counters
<1>6. Control
  BY NothingSaved DEF Init, Control, AtTask, Presented, Untouched
<1>. QED  BY <1>1, <1>2, <1>3, <1>4, <1>5, <1>6 DEF OrchTypes

\* The process is gone, and its memory is a list that was saved.
LEMMA EndsTypes ==
    ASSUME OrchTypes, Forgotten, todo' \in Lists, loopCount' \in Nat,
           snapshot' \in Saves, planReady' \in BOOLEAN, declared' \in BOOLEAN,
           result' \in Results, head' \in Seq(Commits), crashes' \in Nat,
           UNCHANGED <<remote, commits, approved, merged, sessions, faults, dropped>>
    PROVE  OrchTypes'
<1>1. MemoryTypes'
  BY DEF OrchTypes, MemoryTypes
<1>2. Switches'
  BY DEF Forgotten, Switches
<1>3. LocalTypes'
  BY DEF Forgotten, LocalTypes, Phases, Modes
<1>4. GitTypes'
  BY DEF OrchTypes, GitTypes
<1>5. Counters'
  BY DEF Forgotten, OrchTypes, Counters
<1>. QED  BY <1>1, <1>2, <1>3, <1>4, <1>5 DEF OrchTypes

LEMMA EndsWithTypes ==
    ASSUME OrchTypes, NEW reason \in Results, NEW status \in Lists,
           EndsWith(reason, status), head' \in Seq(Commits), declared' \in BOOLEAN,
           UNCHANGED <<remote, commits, approved, merged, outside>>
    PROVE  OrchTypes' /\ snapshot'.todo = status /\ snapshot'.planReady = planReady
<1>1. /\ snapshot' = [todo |-> status, planReady |-> planReady,
                      loopCount |-> loopCount]
      /\ todo' = status /\ result' = reason /\ planReady' = planReady
      /\ loopCount' = loopCount /\ Forgotten
  BY DEF EndsWith, Persisted
<1>2. loopCount \in Nat /\ planReady \in BOOLEAN /\ crashes \in Nat
  BY DEF OrchTypes, MemoryTypes, Switches, Counters
<1>3. snapshot' \in Saves
  BY <1>1, <1>2 DEF Saves
<1>4. UNCHANGED <<sessions, faults, dropped, crashes>>
  BY DEF outside
<1>5. OrchTypes'
  BY <1>1, <1>2, <1>3, <1>4, EndsTypes
<1>. QED  BY <1>1, <1>5

LEMMA EndsIs ==
    ASSUME OrchTypes, NEW reason \in Results, NEW status \in Lists, Ends(reason, status)
    PROVE  /\ OrchTypes' /\ snapshot'.todo = status /\ snapshot'.planReady = planReady
           /\ EndsWith(reason, status) /\ UNCHANGED <<git, outside, declared>>
<1>1. /\ EndsWith(reason, status) /\ UNCHANGED <<git, outside, declared>>
  BY DEF Ends
<1>2. /\ head' \in Seq(Commits) /\ declared' \in BOOLEAN
      /\ UNCHANGED <<remote, commits, approved, merged, outside>>
  BY <1>1 DEF git, OrchTypes, GitTypes, Switches
<1>. QED  BY <1>1, <1>2, EndsWithTypes
\* How a run ends other than by a crash: its tasks as they are, or one that
\* was begun or could not be begun is abandoned.
Stops(reason, status) ==
    /\ EndsWith(reason, status)
    /\ UNCHANGED <<remote, commits, approved, merged, outside>>
    /\ head' = head \/ (pc \in AtTask /\ head' = start)
    /\ \/ status = todo
       \/ pc = "pick" /\ \E t \in Workable : status = Marked(t, "abandoned")
       \/ pc \in AtTask /\ status = Marked(task, "abandoned")
    /\ \/ declared' = declared
       \/ declared' = TRUE
    /\ reason = "complete" =>
            status = todo /\ (declared' = TRUE \/ (pc = "pick" /\ Workable = {}))

LEMMA EndsStops ==
    ASSUME NEW reason, NEW status, Ends(reason, status), reason # "complete",
           \/ status = todo
           \/ pc = "pick" /\ \E t \in Workable : status = Marked(t, "abandoned")
           \/ pc \in AtTask /\ status = Marked(task, "abandoned")
    PROVE  Stops(reason, status)
BY DEF Ends, Stops, git

LEMMA AbandonStops ==
    ASSUME pc \in AtTask, Abandon, pc' = "off"
    PROVE  Stops("blocked", Marked(task, "abandoned"))
BY DEF Abandon, Stops, Goto

LEMMA AbandonedStops ==
    ASSUME pc \in AtTask, Abandoned
    PROVE  Stops("blocked", Marked(task, "abandoned"))
BY EndsStops DEF Abandoned

LEMMA HowRunsEnd ==
    ASSUME OrchTypes, Control, Next, pc' = "off"
    PROVE  \/ Crash
           \/ \E reason \in Results, status \in Lists : Stops(reason, status)
<1>. DEFINE Over == \E reason \in Results, status \in Lists : Stops(reason, status)
            Left == /\ todo \in Lists
                    /\ \A t \in Tasks : Marked(t, "abandoned") \in Lists
                    /\ Workable \subseteq Tasks
                    /\ pc \in AtTask => task \in Tasks
<1>0. Left
  <2>1. \A t \in Tasks : Marked(t, "abandoned") \in Lists
    BY Remarked DEF Statuses
  <2>. QED  BY <2>1 DEF Workable, OrchTypes, MemoryTypes, Control
<1>. HIDE DEF Left
<1>1. ASSUME NEW reason \in Results \ {"complete"}, Ends(reason, todo)
      PROVE  Over
  BY <1>0, <1>1, EndsStops DEF Left
<1>2. ASSUME pc \in AtTask, Abandon \/ Abandoned
      PROVE  Over
  BY <1>0, <1>2, AbandonStops, AbandonedStops DEF Left, Results
<1>. SUFFICES ASSUME ~Crash
              PROVE  Over
  OBVIOUS
<1>. HIDE DEF Over
<1>. USE DEF Goto, Proceed
<1>3. ~(Start \/ Clarify \/ AnswersGiven \/ SubagentAnswers \/ PlannedClarify \/ TestsRun
        \/ PushReturns \/ VerdictMirrored \/ MergeReturns)
  BY DEF Start, Clarify, AnswersGiven, SubagentAnswers, PlannedClarify, TestsRun, PushReturns,
         VerdictMirrored, MergeReturns, AskPlanner, Call
<1>4. CASE List
  BY <1>1, <1>4 DEF List, AskPlanner, Call, Results
<1>5. CASE PlannerAnswers
  BY <1>1, <1>5 DEF PlannerAnswers, Results
<1>6. CASE PlannedList
  BY <1>1, <1>6 DEF PlannedList, Results
<1>7. CASE PlannedReview
  <2>1. EndsWith("complete", todo) /\ declared' = TRUE /\ UNCHANGED <<git, outside>>
    BY <1>7 DEF PlannedReview
  <2>2. Stops("complete", todo)
    BY <2>1 DEF Stops, git
  <2>. QED  BY <2>2, <1>0 DEF Over, Left, Results
<1>8. CASE Pick
  <2>1. CASE Ends("max_loops", todo)
    BY <2>1, <1>1 DEF Results
  <2>2. CASE Workable = {} /\ Ends("complete", todo)
    <3>1. Stops("complete", todo)
      BY <1>8, <2>2 DEF Stops, Ends, git, Pick
    <3>. QED  BY <3>1, <1>0 DEF Over, Left, Results
  <2>3. ASSUME NEW t \in Workable, Ends("blocked", Marked(t, "abandoned"))
        PROVE  Over
    <3>1. Stops("blocked", Marked(t, "abandoned"))
      BY <1>8, <2>3, EndsStops DEF Pick
    <3>. QED  BY <3>1, <1>0 DEF Over, Left, Results
  <2>. QED  BY <1>8, <2>1, <2>2, <2>3 DEF Pick
<1>9. CASE Round
  BY <1>2, <1>9 DEF Round, Call, AtTask
<1>10. CASE RolledBack
  BY <1>2, <1>10 DEF RolledBack, AtTask
<1>11. CASE CoderAnswers
  BY <1>1, <1>2, <1>11 DEF CoderAnswers, NoEdits, GivesUp, AtTask, Results
<1>12. CASE HookReturns
  BY <1>2, <1>12 DEF HookReturns, AtTask
<1>13. CASE ReviewerAnswers
  BY <1>1, <1>13 DEF ReviewerAnswers, Results
<1>14. CASE CiReturns
  BY <1>1, <1>14 DEF CiReturns, CiUnverified, Results
<1>15. CASE ConfirmReturns
  BY <1>1, <1>15 DEF ConfirmReturns, Results
<1>16. CASE Landed
  BY <1>1, <1>16 DEF Landed, AskPlanner, Call, Results
<1>17. CASE Quit
  BY <1>17 DEF Quit, Awaits
<1>18. CASE Throw
  BY <1>1, <1>18 DEF Throw, Results
<1>. QED
  BY <1>3, <1>4, <1>5, <1>6, <1>7, <1>8, <1>9, <1>10, <1>11, <1>12, <1>13, <1>14, <1>15,
     <1>16, <1>17, <1>18 DEF Next, Planner, TaskStep, Human
LEMMA EndingsEnd ==
    /\ \A reason, status : Ends(reason, status) \/ EndsWith(reason, status) => pc' = "off"
    /\ Crash \/ Throw \/ RolledBack \/ Abandoned => pc' = "off"
BY DEF Ends, EndsWith, Forgotten, Crash, Throw, RolledBack, Abandoned
\* While a run goes on, one part of the state after the other.
LEMMA SwitchesStep == OrchTypes /\ Next /\ pc' # "off" => Switches'
<1>. SUFFICES ASSUME OrchTypes, Next, pc' # "off"
              PROVE  Switches'
  OBVIOUS
<1>. USE EndingsEnd DEF OrchTypes, Switches, Proceed, Goto, Call, AskPlanner, state, inTask,
       local, git, outside, ending, Tracked, WithinBudget
<1>1. CASE Start \/ Human \/ Quit
  BY <1>1 DEF Start, Human, AnswersGiven, ConfirmReturns, Quit, MemoryTypes, Saves
<1>2. CASE Planner
  BY <1>2 DEF Planner, Clarify, List, PlannerAnswers, SubagentAnswers, PlannedClarify,
       PlannedList, PlannedReview
<1>3. CASE TaskStep
  BY <1>3 DEF TaskStep, Pick, Round, Abandon, CoderAnswers, NoEdits, GivesUp,
       HookReturns, TestsRun, PushReturns, ReviewerAnswers, VerdictMirrored, CiReturns,
       CiUnverified, MergeReturns, Landed
<1>. QED  BY <1>1, <1>2, <1>3 DEF Next

LEMMA CountersStep == OrchTypes /\ Next /\ pc' # "off" => Counters'
<1>. SUFFICES ASSUME OrchTypes, Next, pc' # "off"
              PROVE  Counters'
  OBVIOUS
<1>. USE EndingsEnd DEF Proceed, Goto, state, inTask, local, git, outside, ending
<1>1. /\ commits \in Nat /\ sessions \in Nat /\ faults \in Nat
      /\ crashes \in Nat /\ dropped \in Nat /\ late \in Nat
  BY DEF OrchTypes, Counters
<1>2. late' \in {late, late + 1}
  <2>1. \A agent : Call(agent) => late' \in {late, late + 1}
    BY DEF Call
  <2>2. CASE Start \/ Human \/ Quit
    BY <2>2 DEF Start, Human, AnswersGiven, ConfirmReturns, Quit
  <2>3. CASE Planner
    BY <2>1, <2>3 DEF Planner, Clarify, List, AskPlanner, PlannerAnswers, SubagentAnswers,
         PlannedClarify, PlannedList, PlannedReview
  <2>4. CASE TaskStep
    BY <2>1, <2>4 DEF TaskStep, Pick, Round, Abandon, CoderAnswers, NoEdits, GivesUp,
         HookReturns, TestsRun, PushReturns, ReviewerAnswers, VerdictMirrored, CiReturns,
         CiUnverified, MergeReturns, Landed, AskPlanner
  <2>. QED  BY <2>2, <2>3, <2>4 DEF Next
<1>3. dropped' = dropped \/ \E list : dropped' = dropped + Cardinality(Begun \ list)
  <2>2. CASE Start \/ Human \/ Quit
    BY <2>2 DEF Start, Human, AnswersGiven, ConfirmReturns, Quit
  <2>3. CASE Planner
    BY <2>3 DEF Planner, Clarify, List, AskPlanner, PlannerAnswers, SubagentAnswers,
         PlannedClarify, PlannedList, PlannedReview
  <2>4. CASE TaskStep
    BY <2>4 DEF TaskStep, Pick, Round, Abandon, CoderAnswers, NoEdits, GivesUp,
         HookReturns, TestsRun, PushReturns, ReviewerAnswers, VerdictMirrored, CiReturns,
         CiUnverified, MergeReturns, Landed, AskPlanner
  <2>. QED  BY <2>2, <2>3, <2>4 DEF Next
<1>4. /\ commits' \in {commits, commits + 1} /\ sessions' \in {sessions, sessions + 1}
      /\ faults' \in {faults, faults + 1} /\ crashes' = crashes
  <2>2. CASE Start \/ Human \/ Quit
    BY <2>2 DEF Start, Human, AnswersGiven, ConfirmReturns, Quit
  <2>3. CASE Planner
    BY <2>3 DEF Planner, Clarify, List, AskPlanner, PlannerAnswers, SubagentAnswers,
         PlannedClarify, PlannedList, PlannedReview
  <2>4. CASE TaskStep
    BY <2>4 DEF TaskStep, Pick, Round, Abandon, CoderAnswers, NoEdits, GivesUp,
         HookReturns, TestsRun, PushReturns, ReviewerAnswers, VerdictMirrored, CiReturns,
         CiUnverified, MergeReturns, Landed, AskPlanner
  <2>. QED  BY <2>2, <2>3, <2>4 DEF Next
<1>5. late' \in Nat
  BY <1>1, <1>2
<1>6. dropped' \in Nat
  <2>1. ASSUME NEW list, dropped' = dropped + Cardinality(Begun \ list)
        PROVE  dropped' \in Nat
    <3>1. Cardinality(Begun \ list) \in Nat
      BY BegunFinite
    <3>. QED  BY <1>1, <2>1, <3>1
  <2>. QED  BY <1>1, <1>3, <2>1
<1>7. commits' \in Nat /\ sessions' \in Nat /\ faults' \in Nat /\ crashes' \in Nat
  BY <1>1, <1>4
<1>. QED  BY <1>5, <1>6, <1>7 DEF Counters

LEMMA MemoryStep == OrchTypes /\ Control /\ Next /\ pc' # "off" => MemoryTypes'
<1>. SUFFICES ASSUME OrchTypes, Control, Next, pc' # "off"
              PROVE  MemoryTypes'
  OBVIOUS
<1>. USE EndingsEnd DEF OrchTypes, MemoryTypes, Proceed, Goto, Call, AskPlanner, state, inTask,
       local, git, outside, ending
<1>1. CASE Start
  <2>1. snapshot.todo \in Lists /\ snapshot.loopCount \in Nat
    BY DEF Saves
  <2>. QED  BY <1>1, <2>1 DEF Start, Results
<1>2. CASE Human \/ Quit
  BY <1>2 DEF Human, AnswersGiven, ConfirmReturns, Quit
<1>3. CASE Clarify \/ List \/ PlannerAnswers \/ SubagentAnswers
  BY <1>3 DEF Clarify, List, PlannerAnswers, SubagentAnswers
<1>4. CASE PlannedClarify \/ PlannedList
  <2>1. \A list \in SUBSET Tasks : Fresh(list) \in Lists
    BY Relisted
  <2>. QED  BY <1>4, <2>1 DEF PlannedClarify, PlannedList
<1>5. CASE PlannedReview
  <2>1. \A list \in SUBSET Tasks : Revised(list) \in Lists
    BY Relisted
  <2>2. /\ todo' \in Lists /\ Persisted(todo') /\ UNCHANGED <<planReady, loopCount, result>>
    BY <1>5, <2>1 DEF PlannedReview
  <2>. QED  BY <2>2 DEF Persisted, Saves, Switches
<1>6. CASE Pick \/ Landed
  <2>1. \A t \in Tasks : Marked(t, "in_progress") \in Lists /\ Marked(t, "done") \in Lists
    BY Remarked DEF Statuses
  <2>. QED  BY <1>6, <2>1 DEF Pick, Landed, Workable, Control, AtTask
<1>7. CASE TaskStep /\ ~Pick /\ ~Landed
  BY <1>7 DEF TaskStep, Round, Abandon, CoderAnswers, NoEdits, GivesUp, HookReturns, TestsRun,
       PushReturns, ReviewerAnswers, VerdictMirrored, CiReturns, CiUnverified, MergeReturns
<1>. QED  BY <1>1, <1>2, <1>3, <1>4, <1>5, <1>6, <1>7 DEF Next, Planner

LEMMA LocalStep == OrchTypes /\ Control /\ Next /\ pc' # "off" => LocalTypes'
<1>. SUFFICES ASSUME OrchTypes, Control, Next, pc' # "off"
              PROVE  LocalTypes'
  OBVIOUS
<1>. USE EndingsEnd DEF OrchTypes, LocalTypes, Proceed, Goto, Call, AskPlanner, state, inTask,
       local, git, outside, ending, Phases, Modes, Awaits, Joins
<1>1. CASE Start \/ Human \/ Quit
  BY <1>1 DEF Start, Human, AnswersGiven, ConfirmReturns, Quit
<1>2. CASE Planner /\ ~PlannerAnswers
  BY <1>2 DEF Planner, Clarify, List, SubagentAnswers, PlannedClarify, PlannedList,
       PlannedReview
<1>3. CASE PlannerAnswers
  <2>1. \A n \in 0..MaxDelegates : n \in Nat
    BY OrchestratorAssumption
  <2>. QED  BY <1>3, <2>1 DEF PlannerAnswers
<1>4. CASE TaskStep /\ ~Pick /\ ~Landed
  BY <1>4 DEF TaskStep, Round, Abandon, CoderAnswers, NoEdits, GivesUp, HookReturns, TestsRun,
       PushReturns, ReviewerAnswers, VerdictMirrored, CiReturns, CiUnverified, MergeReturns
<1>5. CASE Pick
  BY <1>5 DEF Pick, Workable, GitTypes
<1>6. CASE Landed
  <2>1. /\ pc' = "planner" /\ mode' = "review" /\ delegates' = delegates /\ round' = 0
        /\ clarifications' = clarifications /\ task' = NoTask /\ start' = << >>
    BY <1>6 DEF Landed
  <2>. QED  BY <2>1
<1>. QED  BY <1>1, <1>2, <1>3, <1>4, <1>5, <1>6 DEF Next, TaskStep

LEMMA GitStep == OrchTypes /\ Control /\ Next /\ pc' # "off" => GitTypes'
<1>. SUFFICES ASSUME OrchTypes, Control, Next, pc' # "off"
              PROVE  GitTypes'
  OBVIOUS
<1>. USE EndingsEnd DEF OrchTypes, GitTypes, Proceed, Goto, Call, AskPlanner, state, inTask,
       local, git, outside, ending
<1>1. CASE Start \/ Human \/ Quit \/ Planner
  BY <1>1 DEF Start, Human, AnswersGiven, ConfirmReturns, Quit, Planner, Clarify, List,
       PlannerAnswers, SubagentAnswers, PlannedClarify, PlannedList, PlannedReview
<1>2. CASE Pick \/ Round \/ CoderAnswers \/ TestsRun \/ VerdictMirrored \/ CiReturns \/ Landed
  BY <1>2 DEF Pick, Round, Abandon, CoderAnswers, NoEdits, GivesUp, TestsRun,
       VerdictMirrored, CiReturns, CiUnverified, Landed, LocalTypes
<1>3. CASE HookReturns
  <2>1. [task |-> task, n |-> commits] \in Commits
    BY <1>3 DEF HookReturns, Control, AtTask, Commits, Counters
  <2>2. Append(head, [task |-> task, n |-> commits]) \in Seq(Commits)
    BY <2>1
  <2>. HIDE DEF OrchTypes
  <2>3. head' \in Seq(Commits)
    BY <1>3, <2>2 DEF HookReturns, Abandon, OrchTypes, LocalTypes
  <2>4. UNCHANGED <<remote, approved, merged>>
    BY <1>3 DEF HookReturns, Abandon
  <2>. QED  BY <2>3, <2>4 DEF OrchTypes
<1>4. CASE PushReturns
  <2>1. task \in Tasks /\ (remote' = remote \/ remote' = [remote EXCEPT ![task] = head])
    BY <1>4 DEF PushReturns, Pushed, Control, AtTask
  <2>. QED  BY <1>4, <2>1 DEF PushReturns
<1>5. CASE ReviewerAnswers
  <2>1. Last(head) \in Commits
    BY <1>5 DEF ReviewerAnswers, Control, Presented, Last
  <2>. QED  BY <1>5, <2>1 DEF ReviewerAnswers
<1>6. CASE MergeReturns
  <2>1. [task |-> task, branch |-> remote[task], at |-> commits] \in Merges
    BY <1>6 DEF MergeReturns, Control, AtTask, Merges, Counters
  <2>. QED  BY <1>6, <2>1 DEF MergeReturns, Merge
<1>. QED  BY <1>1, <1>2, <1>3, <1>4, <1>5, <1>6 DEF Next, TaskStep

LEMMA OrchStepTypes == OrchTypes /\ Control /\ [Next]_vars => OrchTypes'
<1>. SUFFICES ASSUME OrchTypes, Control, [Next]_vars
              PROVE  OrchTypes'
  OBVIOUS
<1>1. CASE Next /\ pc' # "off"
  BY <1>1, SwitchesStep, CountersStep, MemoryStep, LocalStep, GitStep DEF OrchTypes
<1>2. CASE Crash
  <2>1. snapshot' \in Saves
    BY <1>2, NothingSaved DEF Crash, OrchTypes, MemoryTypes
  <2>2. todo' \in Lists /\ loopCount' \in Nat /\ planReady' \in BOOLEAN
    BY <1>2, <2>1 DEF Crash, Saves
  <2>3. /\ head' \in Seq(Commits) /\ declared' \in BOOLEAN /\ crashes' \in Nat
        /\ UNCHANGED <<remote, commits, approved, merged, sessions, faults, dropped>>
        /\ Forgotten /\ result' = "crashed"
    BY <1>2 DEF Crash, git, OrchTypes, GitTypes, Switches, Counters
  <2>. QED  BY <2>1, <2>2, <2>3, EndsTypes DEF Results
<1>3. ASSUME NEW reason \in Results, NEW status \in Lists, Stops(reason, status)
      PROVE  OrchTypes'
  <2>1. /\ head' \in Seq(Commits) /\ declared' \in BOOLEAN /\ EndsWith(reason, status)
        /\ UNCHANGED <<remote, commits, approved, merged, outside>>
    BY <1>3 DEF Stops, OrchTypes, GitTypes, LocalTypes, Switches
  <2>. QED  BY <2>1, EndsWithTypes
<1>4. CASE UNCHANGED vars
  BY <1>4 DEF vars, state, inTask, local, git, outside, ending, OrchTypes, MemoryTypes,
       Switches, LocalTypes, GitTypes, Counters
<1>. QED  BY <1>1, <1>2, <1>3, <1>4, HowRunsEnd
\* Control is kept.
LEMMA EndsControl ==
    ASSUME OrchTypes, Control, Forgotten, todo' = snapshot'.todo,
           planReady' = snapshot'.planReady, ~planReady' => Untouched(todo')
    PROVE  Control'
BY DEF Control, Forgotten, AtTask, Presented, Untouched

LEMMA StopsControl ==
    ASSUME OrchTypes, Control, NEW reason \in Results, NEW status \in Lists,
           Stops(reason, status)
    PROVE  Control'
<1>1. /\ todo' = status /\ planReady' = planReady /\ Forgotten
      /\ snapshot' = [todo |-> status, planReady |-> planReady, loopCount |-> loopCount]
  BY DEF Stops, EndsWith, Persisted
<1>2. ~planReady => status = todo
  BY DEF Stops, Control
<1>. QED  BY <1>1, <1>2, EndsControl DEF Control

LEMMA CrashControl == OrchTypes /\ Control /\ Crash => Control'
<1>. SUFFICES ASSUME OrchTypes, Control, Crash
              PROVE  Control'
  OBVIOUS
<1>1. /\ Forgotten /\ todo' = snapshot'.todo /\ planReady' = snapshot'.planReady
      /\ snapshot' = snapshot \/ snapshot' = NoSnapshot
  BY DEF Crash
<1>2. ~planReady' => Untouched(todo')
  BY <1>1, NothingSaved DEF Control, Untouched
<1>. QED  BY <1>1, <1>2, EndsControl

LEMMA GoingControl == OrchTypes /\ Control /\ Next /\ pc' # "off" => Control'
<1>. SUFFICES ASSUME OrchTypes, Control, Next, pc' # "off"
              PROVE  Control'
  OBVIOUS
<1>. USE EndingsEnd DEF Proceed, Goto, Call, AskPlanner, state, inTask,
       local, git, outside, ending, Control, AtTask, Presented
<1>1. CASE Start \/ Human \/ Quit
  BY <1>1 DEF Start, Human, AnswersGiven, ConfirmReturns, Quit, Awaits, Listed
<1>2. CASE Clarify \/ List \/ PlannerAnswers \/ SubagentAnswers
  BY <1>2 DEF Clarify, List, PlannerAnswers, SubagentAnswers, Listed
<1>3. CASE PlannedClarify \/ PlannedList \/ PlannedReview
  BY <1>3 DEF PlannedClarify, PlannedList, PlannedReview, Persisted
<1>4. CASE Pick
  <2>1. PICK t \in Workable : /\ todo' = Marked(t, "in_progress") /\ task' = t
                              /\ pc' = "round" /\ UNCHANGED <<planReady, snapshot, ending>>
    BY <1>4 DEF Pick
  <2>2. t \in Tasks /\ todo'[t] = "in_progress"
    BY <2>1, Remarked DEF Workable, Statuses
  <2>. QED  BY <1>4, <2>1, <2>2 DEF Pick
<1>5. CASE Round \/ CoderAnswers \/ TestsRun
  BY <1>5 DEF Round, Abandon, CoderAnswers, NoEdits, GivesUp, TestsRun
<1>6. CASE HookReturns
  <2>1. CASE pc' = "committed"
    <3>1. /\ head' = Append(head, [task |-> task, n |-> commits])
          /\ UNCHANGED <<state, snapshot, local, ending>> /\ pc = "hook"
      BY <1>6, <2>1 DEF HookReturns, Abandon
    <3>2. head' # << >> /\ Last(head') = [task |-> task, n |-> commits]
      BY <3>1 DEF Last, OrchTypes, GitTypes
    <3>3. Last(head').task = task
      BY <3>2
    <3>. QED  BY <2>1, <3>1, <3>2, <3>3
  <2>2. CASE pc' # "committed"
    <3>1. pc = "hook" /\ pc' \in {"round", "closing"} /\ UNCHANGED <<state, snapshot, local, ending>>
      BY <1>6, <2>2 DEF HookReturns, Abandon
    <3>. QED  BY <3>1
  <2>. QED  BY <2>1, <2>2
<1>7. CASE PushReturns \/ ReviewerAnswers \/ VerdictMirrored \/ CiReturns \/ MergeReturns
  BY <1>7 DEF PushReturns, ReviewerAnswers, VerdictMirrored, CiReturns, CiUnverified, MergeReturns
<1>8. CASE Landed
  <2>1. /\ pc = "landed" /\ pc' = "planner" /\ mode' = "review"
        /\ UNCHANGED <<planReady, snapshot, ending>>
    BY <1>8 DEF Landed
  <2>. QED  BY <2>1
<1>. QED  BY <1>1, <1>2, <1>3, <1>4, <1>5, <1>6, <1>7, <1>8 DEF Next, Planner, TaskStep
LEMMA OrchStepControl == OrchTypes /\ Control /\ [Next]_vars => Control'
<1>. SUFFICES ASSUME OrchTypes, Control, [Next]_vars
              PROVE  Control'
  OBVIOUS
<1>1. CASE UNCHANGED vars
  BY <1>1 DEF vars, state, inTask, local, git, outside, ending, Control, Listed
<1>. QED  BY <1>1, HowRunsEnd, GoingControl, CrashControl, StopsControl

\* In every state the variables have their types, and the run is where its
\* control says.
THEOREM RunsAreControlled == Spec => [](OrchTypes /\ Control)
<1>1. Init => OrchTypes /\ Control
  BY OrchInitTypes
<1>2. OrchTypes /\ Control /\ [Next]_vars => (OrchTypes /\ Control)'
  BY OrchStepTypes, OrchStepControl
<1>. QED  BY <1>1, <1>2, PTL DEF Spec

-----------------------------------------------------------------------------
(* The budget.  A model called too late is one whose answer is checked: no *)
(* other await is reached from there.                                      *)

Checked == {"planner", "coder", "reviewer"}

LateInv == late \in {0, 1} /\ (late = 1 => tripped /\ pc \in Checked)

\* A run that goes on has found the budget kept since the last checked call,
\* and calls at most one model.
LEMMA GoingIsChecked ==
    ASSUME OrchTypes, Next, pc' # "off", ~Quit
    PROVE  /\ pc \in Checked => ~tripped
           /\ \/ late' = late
              \/ \E agent \in Checked : Call(agent) /\ tripped' = tripped
              \/ Call("subagent") /\ ~tripped
<1>. USE EndingsEnd DEF Checked, Proceed, Goto, AskPlanner, Tracked, WithinBudget,
       OrchTypes, Switches
<1>1. CASE Start \/ Human
  BY <1>1 DEF Start, Human, AnswersGiven, ConfirmReturns
<1>2. CASE Planner
  BY <1>2 DEF Planner, Clarify, List, PlannerAnswers, SubagentAnswers, PlannedClarify,
       PlannedList, PlannedReview
<1>3. CASE Pick \/ Round \/ CoderAnswers \/ HookReturns \/ TestsRun
  BY <1>3 DEF Pick, Round, Abandon, CoderAnswers, NoEdits, GivesUp, HookReturns, TestsRun
<1>4. CASE PushReturns \/ ReviewerAnswers \/ VerdictMirrored \/ CiReturns \/ MergeReturns \/ Landed
  BY <1>4 DEF PushReturns, ReviewerAnswers, VerdictMirrored, CiReturns, CiUnverified,
       MergeReturns, Landed
<1>. QED  BY <1>1, <1>2, <1>3, <1>4 DEF Next, TaskStep

LEMMA EndForgets == OrchTypes /\ Control /\ Next /\ pc' = "off" => Forgotten
BY HowRunsEnd DEF Crash, Stops, EndsWith

LEMMA LateStep == OrchTypes /\ Control /\ LateInv /\ [Next]_vars => LateInv'
<1>. SUFFICES ASSUME OrchTypes, Control, LateInv, [Next]_vars
              PROVE  LateInv'
  OBVIOUS
<1>1. CASE UNCHANGED vars
  BY <1>1 DEF vars, LateInv
<1>2. CASE Next /\ pc' = "off"
  BY <1>2, EndForgets DEF Forgotten, LateInv
<1>3. CASE Quit
  BY <1>3 DEF Quit, LateInv
<1>4. CASE Next /\ pc' # "off" /\ ~Quit
  <2>1. late = 0
    BY <1>4, GoingIsChecked DEF LateInv
  <2>2. CASE late' = late
    BY <2>1, <2>2 DEF LateInv
  <2>3. ASSUME NEW agent \in Checked, Call(agent), tripped' = tripped
        PROVE  LateInv'
    <3>1. CASE tripped
      <4>1. late' = 1
        BY <2>1, <2>3, <3>1 DEF Call
      <4>. QED  BY <2>3, <3>1, <4>1 DEF LateInv, Call, Goto
    <3>2. CASE ~tripped
      <4>1. late' = 0
        BY <2>1, <2>3, <3>2 DEF Call
      <4>. QED  BY <4>1 DEF LateInv
    <3>. QED  BY <3>1, <3>2
  <2>4. CASE Call("subagent") /\ ~tripped
    <3>1. late' = 0
      BY <2>1, <2>4 DEF Call
    <3>. QED  BY <3>1 DEF LateInv
  <2>. QED  BY <1>4, <2>2, <2>3, <2>4, GoingIsChecked
<1>. QED  BY <1>1, <1>2, <1>3, <1>4

\* BudgetOvershoot: after a cap is passed or the user has quit, one more model
\* is called at most.
THEOREM BudgetIsKept == Spec => []BudgetOvershoot
<1>1. Init => LateInv
  BY DEF Init, LateInv
<1>2. LateInv => BudgetOvershoot
  BY DEF LateInv, BudgetOvershoot
<1>. QED  BY <1>1, <1>2, RunsAreControlled, LateStep, PTL DEF Spec
-----------------------------------------------------------------------------
(* Tasks done are merged, as long as no call of GitHub fails.              *)

In(branches, t) == \E m \in branches : m.task = t

WasMerged(t) == In(merged, t)

DoneInv ==
    faults = 0 =>
        /\ \A t \in Tasks : "done" \in {todo[t], snapshot.todo[t]} => WasMerged(t)
        /\ pc \in {"reviewer", "mirror", "ci", "confirm", "merge"} => pr
        /\ pc = "landed" => WasMerged(task)

\* What happened stays so.
LEMMA HistoryGrows ==
    ASSUME OrchTypes, Control, Next
    PROVE  /\ faults' \in {faults, faults + 1} /\ merged \subseteq merged'
           /\ faults' = 0 => faults = 0
           /\ \A t : WasMerged(t) => In(merged', t)
<1>. USE DEF Proceed, Goto, AskPlanner, git, outside
<1>1. faults' \in {faults, faults + 1} /\ merged \subseteq merged'
  <2>1. CASE pc' = "off"
    BY <2>1, HowRunsEnd DEF Crash, Stops
  <2>2. CASE pc' # "off" /\ (Start \/ Human \/ Quit)
    BY <2>2, EndingsEnd DEF Start, Human, AnswersGiven, ConfirmReturns, Quit
  <2>3. CASE pc' # "off" /\ Planner
    BY <2>3, EndingsEnd DEF Planner, Clarify, List, PlannerAnswers, SubagentAnswers,
         PlannedClarify, PlannedList, PlannedReview
  <2>4. CASE pc' # "off" /\ TaskStep
    BY <2>4, EndingsEnd DEF TaskStep, Pick, Round, Abandon, CoderAnswers, NoEdits, GivesUp,
         HookReturns, TestsRun, PushReturns, ReviewerAnswers, VerdictMirrored, CiReturns,
         CiUnverified, MergeReturns, Merge, Landed
  <2>. QED  BY <2>1, <2>2, <2>3, <2>4, EndingsEnd DEF Next
<1>2. faults' = 0 => faults = 0
  BY <1>1 DEF OrchTypes, Counters
<1>. QED  BY <1>1, <1>2 DEF WasMerged, In

LEMMA DoneStep == OrchTypes /\ Control /\ DoneInv /\ [Next]_vars => DoneInv'
<1>. SUFFICES ASSUME OrchTypes, Control, DoneInv, [Next]_vars, faults' = 0
              PROVE  DoneInv'
  BY DEF DoneInv
<1>1. CASE UNCHANGED vars
  BY <1>1 DEF vars, state, local, inTask, git, outside, DoneInv, WasMerged, In
<1>. SUFFICES ASSUME Next
              PROVE  DoneInv'
  BY <1>1
<1>2. faults = 0 /\ \A t : WasMerged(t) => In(merged', t)
  BY HistoryGrows
<1>3. \A t \in Tasks : "done" \in {todo[t], snapshot.todo[t]} => In(merged', t)
  BY <1>2 DEF DoneInv
<1>4. ASSUME \A t \in Tasks : "done" \in {todo'[t], snapshot'.todo[t]} =>
                "done" \in {todo[t], snapshot.todo[t]} \/ In(merged', t),
             pc' \in {"reviewer", "mirror", "ci", "confirm", "merge"} => pr',
             pc' = "landed" => In(merged', task')
      PROVE  DoneInv'
  BY <1>3, <1>4 DEF DoneInv, WasMerged
<1>5. CASE pc' = "off"
  <2>1. CASE Crash
    BY <1>4, <1>5, <2>1, NothingSaved DEF Crash
  <2>2. ASSUME NEW reason \in Results, NEW status \in Lists, Stops(reason, status)
        PROVE  DoneInv'
    <3>1. \A t \in Tasks : status[t] = "done" => todo[t] = "done"
      <4>1. CASE pc = "pick" /\ \E t \in Workable : status = Marked(t, "abandoned")
        BY <4>1, Remarked DEF Workable, Statuses
      <4>2. CASE pc \in AtTask /\ status = Marked(task, "abandoned")
        BY <4>2, Remarked DEF Control, Statuses
      <4>. QED  BY <2>2, <4>1, <4>2 DEF Stops
    <3>2. todo' = status /\ snapshot'.todo = status
      BY <2>2 DEF Stops, EndsWith, Persisted
    <3>. QED  BY <1>4, <1>5, <3>1, <3>2
  <2>. QED  BY <1>5, <2>1, <2>2, HowRunsEnd
<1>. SUFFICES ASSUME pc' # "off"
              PROVE  DoneInv'
  BY <1>5
<1>. USE EndingsEnd DEF Proceed, Goto, Call, AskPlanner, local, inTask, state
<1>6. CASE Start \/ Clarify \/ List \/ PlannerAnswers \/ SubagentAnswers
  BY <1>4, <1>6 DEF Start, Clarify, List, PlannerAnswers, SubagentAnswers
<1>7. CASE PlannedClarify \/ PlannedList
  BY <1>4, <1>7 DEF PlannedClarify, PlannedList, Fresh
<1>8. CASE PlannedReview
  <2>1. \A t \in Tasks : todo'[t] = "done" => todo[t] = "done"
    BY <1>8 DEF PlannedReview, Revised
  <2>2. snapshot'.todo = todo' /\ pc' = "pick"
    BY <1>8 DEF PlannedReview, Persisted
  <2>. QED  BY <1>4, <2>1, <2>2
<1>9. CASE Pick
  <2>1. PICK t \in Workable : todo' = Marked(t, "in_progress") /\ pc' = "round" /\ snapshot' = snapshot
    BY <1>9 DEF Pick
  <2>2. \A u \in Tasks : todo'[u] = "done" => todo[u] = "done"
    BY <2>1, Remarked DEF Workable, Statuses
  <2>. QED  BY <1>4, <2>1, <2>2
<1>10. CASE Round \/ CoderAnswers \/ HookReturns \/ TestsRun \/ AnswersGiven
  BY <1>4, <1>10 DEF Round, Abandon, CoderAnswers, NoEdits, GivesUp, HookReturns, TestsRun,
       AnswersGiven
<1>11. CASE PushReturns
  <2>1. faults' # faults + 1
    BY <1>2, HistoryGrows
  <2>2. pr' = TRUE /\ pc' = "reviewer" /\ UNCHANGED <<todo, snapshot>>
    BY <1>11, <2>1 DEF PushReturns
  <2>. QED  BY <1>4, <2>2
<1>12. CASE ReviewerAnswers \/ VerdictMirrored \/ CiReturns \/ ConfirmReturns
  BY <1>2, <1>4, <1>12 DEF ReviewerAnswers, VerdictMirrored, CiReturns, CiUnverified,
       ConfirmReturns, DoneInv
<1>13. CASE MergeReturns
  <2>1. Merge /\ pc' = "landed" /\ UNCHANGED <<todo, snapshot, task>>
    BY <1>2, <1>13 DEF MergeReturns
  <2>2. \E m \in merged' : m.task = task
    <3>. DEFINE m == [task |-> task, branch |-> remote[task], at |-> commits]
    <3>1. m \in merged' /\ m.task = task
      BY <2>1 DEF Merge
    <3>. HIDE DEF m
    <3>. QED  BY <3>1
  <2>3. In(merged', task')
    BY <2>1, <2>2 DEF In
  <2>. QED  BY <1>4, <2>1, <2>3
<1>14. CASE Landed
  <2>1. /\ todo' = Marked(task, "done") /\ snapshot' = snapshot /\ pc' = "planner"
        /\ task \in Tasks /\ In(merged', task)
    BY <1>2, <1>14 DEF Landed, Control, AtTask, DoneInv
  <2>2. \A u \in Tasks : todo'[u] = "done" => todo[u] = "done" \/ u = task
    BY <2>1, Remarked DEF Statuses
  <2>. QED  BY <1>4, <2>1, <2>2
<1>15. CASE Quit
  BY <1>2, <1>4, <1>15 DEF Quit, DoneInv
<1>. QED
  BY <1>6, <1>7, <1>8, <1>9, <1>10, <1>11, <1>12, <1>13, <1>14, <1>15, EndingsEnd
     DEF Next, Planner, TaskStep, Human

\* DoneTasksMerged: as long as every call of GitHub succeeds, a task is marked
\* done only after its pull request was merged.
THEOREM DoneIsMerged == Spec => []DoneTasksMerged
<1>1. Init => DoneInv
  BY NothingSaved DEF Init, DoneInv
<1>2. DoneInv => DoneTasksMerged
  BY DEF DoneInv, DoneTasksMerged, WasMerged, In
<1>. QED  BY <1>1, <1>2, RunsAreControlled, DoneStep, PTL DEF Spec
-----------------------------------------------------------------------------
(* Tasks begun and not done: one for each run that ended in the middle of  *)
(* a task, and that run's own only after its task.                         *)

Undone(list) == {t \in Tasks : list[t] \in {"in_progress", "abandoned"}}

CompleteInv ==
    /\ pc = "off" => Cardinality(Undone(todo)) <= sessions
    /\ pc # "off" => Cardinality(Undone(snapshot.todo)) < sessions
    /\ pc # "off" => Cardinality(Undone(todo)) <= sessions
    /\ pc \notin AtTask \cup {"off"} => Cardinality(Undone(todo)) < sessions
    /\ result = "complete" /\ ~declared =>
            Workable = {} /\ Cardinality(Undone(todo)) < sessions

LEMMA UndoneCounted ==
    /\ \A list : IsFiniteSet(Undone(list)) /\ Cardinality(Undone(list)) \in Nat
    /\ \A one, other : Undone(one) \subseteq Undone(other) =>
            Cardinality(Undone(one)) <= Cardinality(Undone(other))
    /\ \A one, other : \A t \in Tasks : Undone(one) \subseteq Undone(other) \cup {t} =>
            Cardinality(Undone(one)) <= Cardinality(Undone(other)) + 1
    /\ \A one, other : \A t \in Undone(other) : Undone(one) \subseteq Undone(other) \ {t} =>
            Cardinality(Undone(one)) + 1 <= Cardinality(Undone(other))
<1>1. \A list : IsFiniteSet(Undone(list)) /\ Cardinality(Undone(list)) \in Nat
  BY OrchestratorAssumption, FS_Subset, FS_CardinalityType DEF Undone
<1>2. \A one, other : Undone(one) \subseteq Undone(other) =>
            Cardinality(Undone(one)) <= Cardinality(Undone(other))
  BY <1>1, FS_Subset
<1>3. ASSUME NEW one, NEW other, NEW t \in Tasks, Undone(one) \subseteq Undone(other) \cup {t}
      PROVE  Cardinality(Undone(one)) <= Cardinality(Undone(other)) + 1
  <2>1. /\ IsFiniteSet(Undone(other) \cup {t})
        /\ Cardinality(Undone(other) \cup {t}) <= Cardinality(Undone(other)) + 1
        /\ Cardinality(Undone(other) \cup {t}) \in Nat
    <3>1. IsFiniteSet(Undone(other)) /\ Cardinality(Undone(other)) \in Nat
      BY <1>1
    <3>2. CASE t \in Undone(other)
      <4>1. Undone(other) \cup {t} = Undone(other)
        BY <3>2
      <4>2. /\ IsFiniteSet(Undone(other) \cup {t})
            /\ Cardinality(Undone(other) \cup {t}) = Cardinality(Undone(other))
        BY <3>1, <4>1, Zenon
      <4>3. Cardinality(Undone(other)) <= Cardinality(Undone(other)) + 1
        BY <3>1
      <4>. QED  BY <3>1, <4>2, <4>3, Zenon
    <3>3. CASE t \notin Undone(other)
      BY <3>1, <3>3, FS_AddElement
    <3>. QED  BY <3>2, <3>3
  <2>2. Cardinality(Undone(one)) <= Cardinality(Undone(other) \cup {t})
    BY <1>3, <2>1, FS_Subset
  <2>. QED  BY <1>1, <2>1, <2>2
<1>4. ASSUME NEW one, NEW other, NEW t \in Undone(other),
             Undone(one) \subseteq Undone(other) \ {t}
      PROVE  Cardinality(Undone(one)) + 1 <= Cardinality(Undone(other))
  <2>1. /\ IsFiniteSet(Undone(other) \ {t})
        /\ Cardinality(Undone(other) \ {t}) = Cardinality(Undone(other)) - 1
    BY <1>1, FS_RemoveElement
  <2>2. Cardinality(Undone(one)) <= Cardinality(Undone(other) \ {t})
    BY <1>4, <2>1, FS_Subset
  <2>. QED  BY <1>1, <2>1, <2>2
<1>. QED  BY <1>1, <1>2, <1>3, <1>4

\* A step outside tasks, or inside one, after which no more is undone.
LEMMA NoMoreUndone ==
    ASSUME OrchTypes, CompleteInv, sessions' = sessions, pc # "off", pc' # "off",
           result' = "none", Undone(todo') \subseteq Undone(todo),
           snapshot' = snapshot \/ (snapshot'.todo = todo' /\ pc \notin AtTask),
           pc \in AtTask => pc' \in AtTask
    PROVE  CompleteInv'
<1>. DEFINE u == Cardinality(Undone(todo))
            v == Cardinality(Undone(todo'))
            w == Cardinality(Undone(snapshot.todo))
            x == Cardinality(Undone(snapshot'.todo))
<1>1. u \in Nat /\ v \in Nat /\ w \in Nat /\ x \in Nat /\ v <= u /\ sessions \in Nat
  BY UndoneCounted DEF OrchTypes, Counters
<1>2. w < sessions /\ u <= sessions /\ (pc \notin AtTask => u < sessions)
  BY DEF CompleteInv
<1>3. x = w \/ (x = v /\ pc \notin AtTask)
  OBVIOUS
<1>. HIDE DEF u, v, w, x
<1>4. x < sessions' /\ v <= sessions' /\ (pc' \notin AtTask => v < sessions')
  BY <1>1, <1>2, <1>3
<1>. QED  BY <1>4 DEF CompleteInv, u, v, w, x

LEMMA CompleteStops ==
    ASSUME OrchTypes, Control, CompleteInv, pc # "off",
           NEW reason \in Results, NEW status \in Lists, Stops(reason, status)
    PROVE  CompleteInv'
<1>1. /\ todo' = status /\ pc' = "off" /\ result' = reason /\ sessions' = sessions
  BY DEF Stops, EndsWith, Forgotten, outside
<1>2. CASE status = todo
  <2>1. /\ Undone(todo') = Undone(todo) /\ Workable' = Workable
        /\ reason = "complete" /\ ~declared' => pc = "pick" /\ Workable = {}
    BY <1>1, <1>2 DEF Workable, Stops
  <2>. QED  BY <1>1, <2>1 DEF CompleteInv, AtTask
<1>3. CASE status # todo
  <2>1. reason # "complete"
    BY <1>3 DEF Stops
  <2>2. CASE pc = "pick" /\ \E t \in Workable : status = Marked(t, "abandoned")
    <3>1. PICK t \in Tasks : status = Marked(t, "abandoned")
      BY <2>2 DEF Workable
    <3>2. Undone(status) \subseteq Undone(todo) \cup {t}
      BY <3>1, Remarked DEF Undone, Statuses
    <3>3. /\ Cardinality(Undone(status)) <= Cardinality(Undone(todo)) + 1
          /\ Cardinality(Undone(todo)) \in Nat /\ Cardinality(Undone(status)) \in Nat
      BY <3>2, UndoneCounted
    <3>4. Cardinality(Undone(todo)) < sessions /\ sessions \in Nat
      BY <2>2 DEF CompleteInv, AtTask, OrchTypes, Counters
    <3>5. Cardinality(Undone(status)) <= sessions
      BY <3>3, <3>4
    <3>. QED  BY <1>1, <2>1, <3>5 DEF CompleteInv
  <2>3. CASE pc \in AtTask /\ status = Marked(task, "abandoned")
    <3>1. Undone(status) \subseteq Undone(todo)
      BY <2>3, Remarked DEF Undone, Statuses, Control
    <3>2. /\ Cardinality(Undone(status)) <= Cardinality(Undone(todo))
          /\ Cardinality(Undone(todo)) \in Nat /\ Cardinality(Undone(status)) \in Nat
      BY <3>1, UndoneCounted
    <3>3. Cardinality(Undone(todo)) <= sessions /\ sessions \in Nat
      BY <2>3 DEF CompleteInv, AtTask, OrchTypes, Counters
    <3>4. Cardinality(Undone(status)) <= sessions
      BY <3>2, <3>3
    <3>. QED  BY <1>1, <2>1, <3>4 DEF CompleteInv
  <2>. QED  BY <1>3, <2>2, <2>3 DEF Stops
<1>. QED  BY <1>2, <1>3

LEMMA CompleteStep == OrchTypes /\ Control /\ CompleteInv /\ [Next]_vars => CompleteInv'
<1>. SUFFICES ASSUME OrchTypes, Control, CompleteInv, [Next]_vars
              PROVE  CompleteInv'
  OBVIOUS
<1>1. CASE UNCHANGED vars
  BY <1>1 DEF vars, state, ending, outside, CompleteInv, Workable
<1>2. CASE Start
  <2>1. /\ todo' = todo /\ snapshot' = snapshot /\ sessions' = sessions + 1 /\ pc = "off"
        /\ snapshot.todo = todo /\ pc' = "clarify" /\ result' = "none"
    BY <1>2 DEF Start, Control
  <2>2. Cardinality(Undone(todo)) \in Nat /\ sessions \in Nat
    BY UndoneCounted DEF OrchTypes, Counters
  <2>3. Cardinality(Undone(todo)) < sessions + 1 /\ Cardinality(Undone(todo)) <= sessions + 1
    BY <2>1, <2>2 DEF CompleteInv
  <2>. QED  BY <2>1, <2>3 DEF CompleteInv
<1>3. CASE Crash
  <2>1. /\ todo' = snapshot'.todo /\ (snapshot' = snapshot \/ snapshot' = NoSnapshot)
        /\ pc # "off" /\ pc' = "off" /\ result' = "crashed" /\ sessions' = sessions
    BY <1>3 DEF Crash, Forgotten, Awaits
  <2>2. Undone(todo') \subseteq Undone(snapshot.todo)
    BY <2>1, NothingSaved DEF Undone
  <2>3. /\ Cardinality(Undone(todo')) <= Cardinality(Undone(snapshot.todo))
        /\ Cardinality(Undone(todo')) \in Nat /\ Cardinality(Undone(snapshot.todo)) \in Nat
    BY <2>2, UndoneCounted
  <2>4. Cardinality(Undone(snapshot.todo)) < sessions /\ sessions \in Nat
    BY <2>1 DEF CompleteInv, OrchTypes, Counters
  <2>5. Cardinality(Undone(todo')) <= sessions
    BY <2>3, <2>4
  <2>. QED  BY <2>1, <2>5 DEF CompleteInv
<1>. SUFFICES ASSUME Next, ~Start, ~Crash
              PROVE  CompleteInv'
  BY <1>1, <1>2, <1>3
<1>4. pc # "off"
  BY DEF Next, Planner, TaskStep, Human, Clarify, List, PlannerAnswers, SubagentAnswers,
       PlannedClarify, PlannedList, PlannedReview, Pick, Round, RolledBack, CoderAnswers,
       HookReturns, TestsRun, PushReturns, ReviewerAnswers, VerdictMirrored, CiReturns,
       MergeReturns, Landed, AnswersGiven, ConfirmReturns, Quit, Throw, Awaits
<1>5. CASE pc' = "off"
  BY <1>4, <1>5, HowRunsEnd, CompleteStops
<1>. SUFFICES ASSUME pc' # "off"
              PROVE  CompleteInv'
  BY <1>5
<1>6. result' = "none"
  BY GoingControl DEF Control
<1>. USE EndingsEnd DEF Proceed, Goto, Call, AskPlanner, local, inTask, state, outside
<1>7. CASE Clarify \/ List \/ PlannerAnswers \/ SubagentAnswers \/ Human \/ Quit
  <2>1. /\ todo' = todo /\ snapshot' = snapshot /\ sessions' = sessions
        /\ (pc \in AtTask <=> pc' \in AtTask)
    BY <1>7 DEF Clarify, List, PlannerAnswers, SubagentAnswers, Human, AnswersGiven,
         ConfirmReturns, Quit, AtTask
  <2>2. Undone(todo') \subseteq Undone(todo) /\ (pc \in AtTask => pc' \in AtTask)
    BY <2>1
  <2>3. snapshot' = snapshot \/ (snapshot'.todo = todo' /\ pc \notin AtTask)
    BY <2>1
  <2>4. sessions' = sessions
    BY <2>1
  <2>. QED  BY ONLY <1>4, <1>6, <2>2, <2>3, <2>4, OrchTypes, CompleteInv, pc' # "off", NoMoreUndone
<1>8. CASE PlannedClarify \/ PlannedList
  <2>1. /\ UNCHANGED <<snapshot, sessions>> /\ pc \notin AtTask
        /\ todo' = todo \/ \E list : todo' = Fresh(list)
    BY <1>8 DEF PlannedClarify, PlannedList, AtTask
  <2>2. Undone(todo') \subseteq Undone(todo)
    BY <2>1 DEF Fresh, Undone
  <2>. QED  BY <1>4, <1>6, <2>1, <2>2, NoMoreUndone
<1>9. CASE PlannedReview
  <2>1. snapshot'.todo = todo'
    BY <1>9 DEF PlannedReview, Persisted
  <2>3. /\ sessions' = sessions /\ pc = "planned"
        /\ todo' = todo \/ \E list : todo' = Revised(list)
    BY <1>9 DEF PlannedReview
  <2>2. Undone(todo') \subseteq Undone(todo)
    BY <2>3 DEF Revised, Undone
  <2>. QED  BY <1>4, <1>6, <2>1, <2>2, <2>3, NoMoreUndone DEF AtTask
<1>10. CASE Pick
  <2>1. PICK t \in Workable : /\ todo' = Marked(t, "in_progress") /\ pc' = "round"
                              /\ snapshot' = snapshot /\ sessions' = sessions /\ pc = "pick"
    BY <1>10 DEF Pick
  <2>2. t \in Tasks /\ Undone(todo') \subseteq Undone(todo) \cup {t}
    BY <2>1, Remarked DEF Workable, Undone, Statuses
  <2>3. /\ Cardinality(Undone(todo')) <= Cardinality(Undone(todo)) + 1
        /\ Cardinality(Undone(todo)) \in Nat /\ Cardinality(Undone(todo')) \in Nat
    BY <2>2, UndoneCounted
  <2>4. Cardinality(Undone(todo)) < sessions /\ sessions \in Nat
    BY <2>1 DEF CompleteInv, AtTask, OrchTypes, Counters
  <2>5. Cardinality(Undone(todo')) <= sessions
    BY <2>3, <2>4
  <2>. QED  BY <1>6, <2>1, <2>5 DEF CompleteInv, AtTask
<1>11. CASE TaskStep /\ ~Pick /\ ~Landed
  <2>1. /\ todo' = todo /\ snapshot' = snapshot /\ sessions' = sessions
        /\ pc \in AtTask /\ pc' \in AtTask
    BY <1>11 DEF TaskStep, Round, Abandon, CoderAnswers, NoEdits, GivesUp, HookReturns,
         TestsRun, PushReturns, ReviewerAnswers, VerdictMirrored, CiReturns, CiUnverified,
         MergeReturns, AtTask
  <2>2. Undone(todo') \subseteq Undone(todo) /\ (pc \in AtTask => pc' \in AtTask)
    BY <2>1
  <2>3. snapshot' = snapshot \/ (snapshot'.todo = todo' /\ pc \notin AtTask)
    BY <2>1
  <2>4. sessions' = sessions
    BY <2>1
  <2>. QED  BY ONLY <1>4, <1>6, <2>2, <2>3, <2>4, OrchTypes, CompleteInv, pc' # "off", NoMoreUndone
<1>12. CASE Landed
  <2>1. /\ todo' = Marked(task, "done") /\ pc = "landed" /\ pc' = "planner"
        /\ snapshot' = snapshot /\ sessions' = sessions
    BY <1>12 DEF Landed
  <2>2. task \in Undone(todo) /\ Undone(todo') \subseteq Undone(todo) \ {task}
    BY <2>1, Remarked DEF Undone, Statuses, Control, AtTask
  <2>3. /\ Cardinality(Undone(todo')) + 1 <= Cardinality(Undone(todo))
        /\ Cardinality(Undone(todo)) \in Nat /\ Cardinality(Undone(todo')) \in Nat
    BY <2>2, UndoneCounted
  <2>4. Cardinality(Undone(todo)) <= sessions /\ sessions \in Nat
    BY <2>1 DEF CompleteInv, OrchTypes, Counters
  <2>5. Cardinality(Undone(todo')) < sessions
    BY <2>3, <2>4
  <2>6. Cardinality(Undone(todo')) <= sessions
    BY <2>3, <2>4
  <2>. QED  BY <1>6, <2>1, <2>5, <2>6 DEF CompleteInv
<1>. QED  BY <1>7, <1>8, <1>9, <1>10, <1>11, <1>12 DEF Next, Planner, TaskStep

\* CompleteIsComplete: a run that ends because no task is pending leaves at
\* most one task unfinished for each earlier run.
THEOREM CompleteRunsAreComplete == Spec => []CompleteIsComplete
<1>1. Init => CompleteInv
  <2>. SUFFICES ASSUME Init
                PROVE  CompleteInv
    OBVIOUS
  <2>1. Undone(todo) = {}
    BY NothingSaved DEF Init, Undone
  <2>2. Cardinality(Undone(todo)) = 0
    BY <2>1, FS_EmptySet
  <2>. QED  BY <2>2 DEF Init, CompleteInv
<1>2. OrchTypes /\ CompleteInv => CompleteIsComplete
  <2>. SUFFICES ASSUME OrchTypes, CompleteInv, result = "complete", ~declared
                PROVE  Cardinality({t \in Listed : todo[t] # "done"}) < sessions
    BY DEF CompleteIsComplete
  <2>1. {t \in Listed : todo[t] # "done"} = Undone(todo)
    BY DEF CompleteInv, Listed, Workable, Undone, OrchTypes, MemoryTypes, Lists, Statuses
  <2>. QED  BY <2>1 DEF CompleteInv
<1>. QED  BY <1>1, <1>2, RunsAreControlled, CompleteStep, PTL DEF Spec
-----------------------------------------------------------------------------
(* Merges of a task.  One that is not on the list as begun has only those  *)
(* that a crash or the Planner made it forget.                             *)

Started == {"in_progress", "done", "abandoned"}

Branches(t) == {m \in merged : m.task = t}

\* The merges of a task that need no excuse yet.
Merging == AtTask \ {"landed"}

MergeInv ==
    /\ IsFiniteSet(merged)
    /\ \A t \in Tasks : Cardinality(Branches(t)) <= 1 + crashes + dropped
    /\ \A t \in Tasks : todo[t] \notin Started => Cardinality(Branches(t)) <= crashes + dropped
    /\ pc \in Merging => Cardinality(Branches(task)) <= crashes + dropped

LEMMA BranchesCounted ==
    ASSUME IsFiniteSet(merged), NEW t
    PROVE  IsFiniteSet(Branches(t)) /\ Cardinality(Branches(t)) \in Nat
BY FS_Subset, FS_CardinalityType DEF Branches

\* A step that merges nothing and makes the run forget no task for free.
LEMMA NothingMerged ==
    ASSUME OrchTypes, MergeInv, merged' = merged, crashes' = crashes,
           dropped' \in Nat, dropped <= dropped',
           \A t \in Tasks : todo'[t] \in Started \/ todo[t] \notin Started \/ dropped + 1 <= dropped',
           \/ pc' \notin Merging
           \/ pc \in Merging /\ task' = task
           \/ task' \in Tasks /\ todo[task'] \notin Started
    PROVE  MergeInv'
<1>0. crashes \in Nat /\ dropped \in Nat
  BY DEF OrchTypes, Counters
<1>1. IsFiniteSet(merged') /\ \A t : Branches(t)' = Branches(t) /\ Cardinality(Branches(t)) \in Nat
  BY BranchesCounted DEF MergeInv, Branches
<1>2. ASSUME NEW t \in Tasks
      PROVE  /\ Cardinality(Branches(t)) <= 1 + crashes' + dropped'
             /\ todo'[t] \notin Started => Cardinality(Branches(t)) <= crashes' + dropped'
  <2>1. Cardinality(Branches(t)) <= 1 + crashes + dropped
    BY DEF MergeInv
  <2>2. Cardinality(Branches(t)) <= 1 + crashes' + dropped'
    BY <1>0, <1>1, <2>1
  <2>3. ASSUME todo'[t] \notin Started
        PROVE  Cardinality(Branches(t)) <= crashes' + dropped'
    <3>1. CASE todo[t] \notin Started
      <4>1. Cardinality(Branches(t)) <= crashes + dropped
        BY <3>1 DEF MergeInv
      <4>. QED  BY <1>0, <1>1, <4>1
    <3>2. CASE dropped + 1 <= dropped'
      BY <1>0, <1>1, <2>1, <3>2
    <3>. QED  BY <2>3, <3>1, <3>2
  <2>. QED  BY <2>2, <2>3
<1>3. ASSUME pc' \in Merging
      PROVE  Cardinality({m \in merged : m.task = task'}) <= crashes' + dropped'
  <2>1. PICK t : t = task'
    OBVIOUS
  <2>2. Cardinality(Branches(t)) <= crashes + dropped
    BY <1>3, <2>1 DEF MergeInv, Branches
  <2>3. Cardinality(Branches(t)) <= crashes' + dropped'
    BY <1>0, <1>1, <2>2
  <2>. QED  BY <2>1, <2>3 DEF Branches
<1>. QED  BY <1>1, <1>2, <1>3 DEF MergeInv, Branches
\* The same for a step that takes no task off the list.
LEMMA NothingForgotten ==
    ASSUME OrchTypes, MergeInv, merged' = merged, crashes' = crashes, dropped' = dropped,
           \A t \in Tasks : todo'[t] \in Started \/ todo[t] \notin Started,
           \/ pc' \notin Merging
           \/ pc \in Merging /\ task' = task
           \/ task' \in Tasks /\ todo[task'] \notin Started
    PROVE  MergeInv'
<1>1. dropped' \in Nat /\ dropped <= dropped'
  BY DEF OrchTypes, Counters
<1>. QED  BY <1>1, NothingMerged

LEMMA EndsMergeInv ==
    ASSUME OrchTypes, Control, MergeInv, Next, pc' = "off"
    PROVE  MergeInv'
<1>1. CASE Crash
  <2>1. merged' = merged /\ dropped' = dropped /\ crashes' = crashes + 1
    BY <1>1 DEF Crash, git
  <2>2. crashes \in Nat /\ dropped \in Nat
    BY DEF OrchTypes, Counters
  <2>3. \A t : Branches(t)' = Branches(t) /\ Cardinality(Branches(t)) \in Nat
    BY <2>1, BranchesCounted DEF MergeInv, Branches
  <2>4. ASSUME NEW t \in Tasks
        PROVE  /\ Cardinality(Branches(t)) <= 1 + crashes' + dropped'
               /\ Cardinality(Branches(t)) <= crashes' + dropped'
    <3>1. Cardinality(Branches(t)) <= 1 + crashes + dropped
      BY DEF MergeInv
    <3>. QED  BY <2>1, <2>2, <2>3, <3>1
  <2>. QED  BY <2>1, <2>3, <2>4 DEF MergeInv, Merging, AtTask
<1>2. ASSUME NEW reason \in Results, NEW status \in Lists, Stops(reason, status)
      PROVE  MergeInv'
  <2>1. merged' = merged /\ crashes' = crashes /\ dropped' = dropped /\ todo' = status
    BY <1>2 DEF Stops, outside, EndsWith
  <2>2. \A t \in Tasks : status[t] \in Started \/ todo[t] \notin Started
    <3>1. CASE pc = "pick" /\ \E t \in Workable : status = Marked(t, "abandoned")
      BY <3>1, Remarked DEF Workable, Statuses, Started
    <3>2. CASE pc \in AtTask /\ status = Marked(task, "abandoned")
      BY <3>2, Remarked DEF Control, Statuses, Started
    <3>. QED  BY <1>2, <3>1, <3>2 DEF Stops
  <2>3. \A t \in Tasks : todo'[t] \in Started \/ todo[t] \notin Started
    BY <2>1, <2>2
  <2>4. pc' \notin Merging
    BY DEF Merging, AtTask
  <2>. QED  BY <2>1, <2>3, <2>4, NothingForgotten
<1>. QED  BY <1>1, <1>2, HowRunsEnd

LEMMA ReviewMergeInv ==
    ASSUME OrchTypes, Control, MergeInv, PlannedReview, pc' # "off"
    PROVE  MergeInv'
<1>. USE EndingsEnd DEF Goto
<1>1. /\ merged' = merged /\ crashes' = crashes /\ pc' = "pick"
      /\ \/ todo' = todo /\ dropped' = dropped
         \/ \E list \in SUBSET Tasks :
                todo' = Revised(list) /\ dropped' = dropped + Cardinality(Begun \ list)
  BY DEF PlannedReview, git
<1>2. pc' \notin Merging
  BY <1>1 DEF Merging, AtTask
<1>3. CASE todo' = todo /\ dropped' = dropped
  BY <1>1, <1>2, <1>3, NothingForgotten
<1>4. ASSUME NEW list \in SUBSET Tasks, todo' = Revised(list),
             dropped' = dropped + Cardinality(Begun \ list)
      PROVE  MergeInv'
  <2>1. dropped \in Nat /\ Cardinality(Begun \ list) \in Nat
    BY BegunFinite DEF OrchTypes, Counters
  <2>2. dropped' \in Nat /\ dropped <= dropped'
    BY <1>4, <2>1
  <2>3. ASSUME NEW t \in Tasks, todo'[t] \notin Started, todo[t] \in Started
        PROVE  dropped + 1 <= dropped'
    <3>1. t \in Begun \ list
      BY <1>4, <2>3 DEF Revised, Begun, Started
    <3>2. Cardinality(Begun \ list) >= 1
      BY <3>1, BegunFinite
    <3>. QED  BY <1>4, <2>1, <3>2
  <2>. QED  BY <1>1, <1>2, <2>2, <2>3, NothingMerged
<1>. QED  BY <1>1, <1>3, <1>4

LEMMA MergedMergeInv ==
    ASSUME OrchTypes, Control, MergeInv, MergeReturns
    PROVE  MergeInv'
<1>1. /\ pc = "merge" /\ pc' = "landed" /\ task \in Tasks /\ todo[task] = "in_progress"
      /\ todo' = todo /\ crashes' = crashes /\ dropped' = dropped
      /\ merged' = merged \/ Merge
  BY DEF MergeReturns, Goto, state, local, inTask, Control, AtTask
<1>2. pc' \notin Merging /\ pc \in Merging
  BY <1>1 DEF Merging, AtTask
<1>3. CASE merged' = merged
  BY <1>1, <1>2, <1>3, NothingForgotten
<1>4. CASE Merge
  <2>. DEFINE m == [task |-> task, branch |-> remote[task], at |-> commits]
  <2>1. merged' = merged \cup {m} /\ m.task = task
    BY <1>4 DEF Merge
  <2>. HIDE DEF m
  <2>2. PICK t \in Tasks : t = task
    BY <1>1
  <2>3. /\ \A u \in Tasks \ {t} : Branches(u)' = Branches(u)
        /\ Branches(t)' = Branches(t) \cup {m}
    BY <2>1, <2>2 DEF Branches
  <2>4. IsFiniteSet(merged) /\ IsFiniteSet(merged')
    BY <2>1, FS_AddElement DEF MergeInv
  <2>5. IsFiniteSet(Branches(t)) /\ Cardinality(Branches(t)) \in Nat
    BY <2>4, BranchesCounted
  <2>6. Cardinality(Branches(t) \cup {m}) <= Cardinality(Branches(t)) + 1
    <3>1. CASE m \in Branches(t)
      <4>1. Cardinality(Branches(t) \cup {m}) = Cardinality(Branches(t))
        <5>1. Branches(t) \cup {m} = Branches(t)
          BY <3>1
        <5>. QED  BY <5>1, Zenon
      <4>. QED  BY <2>5, <4>1
    <3>2. CASE m \notin Branches(t)
      <4>1. Cardinality(Branches(t) \cup {m}) = Cardinality(Branches(t)) + 1
        BY <2>5, <3>2, FS_AddElement
      <4>. QED  BY <2>5, <4>1
    <3>. QED  BY <3>1, <3>2
  <2>7. Cardinality(Branches(t)) <= crashes + dropped /\ crashes \in Nat /\ dropped \in Nat
    BY <1>1, <1>2, <2>2 DEF MergeInv, OrchTypes, Counters
  <2>8. Cardinality(Branches(t) \cup {m}) \in Nat
    BY <2>3, <2>4, BranchesCounted, FS_AddElement, <2>5, FS_CardinalityType
  <2>9. Cardinality(Branches(t) \cup {m}) <= 1 + crashes + dropped
    BY <2>5, <2>6, <2>7, <2>8
  <2>10. \A u \in Tasks : Cardinality(Branches(u)') <= 1 + crashes + dropped
    BY <2>3, <2>9 DEF MergeInv
  <2>11. ASSUME NEW u \in Tasks, todo[u] \notin Started
         PROVE  Cardinality(Branches(u)') <= crashes + dropped
    <3>1. u # t
      BY <1>1, <2>2, <2>11 DEF Started
    <3>. QED  BY <2>3, <2>11, <3>1 DEF MergeInv
  <2>. QED  BY <1>1, <1>2, <2>4, <2>10, <2>11 DEF MergeInv
<1>. QED  BY <1>1, <1>3, <1>4

LEMMA MergeInvStep == OrchTypes /\ Control /\ MergeInv /\ [Next]_vars => MergeInv'
<1>. SUFFICES ASSUME OrchTypes, Control, MergeInv, [Next]_vars
              PROVE  MergeInv'
  OBVIOUS
<1>1. CASE UNCHANGED vars
  <2>1. /\ todo' = todo /\ pc' = pc /\ task' = task /\ merged' = merged
        /\ crashes' = crashes /\ dropped' = dropped
    BY <1>1 DEF vars, state, local, inTask, git, outside
  <2>. QED  BY <2>1 DEF MergeInv, Branches
<1>2. CASE Next /\ pc' = "off"
  BY <1>2, EndsMergeInv
<1>. SUFFICES ASSUME Next, pc' # "off"
              PROVE  MergeInv'
  BY <1>1, <1>2
<1>. USE EndingsEnd DEF Proceed, Goto, Call, AskPlanner, local, inTask, state, outside, git,
       Merging, AtTask
<1>3. CASE Start
  <2>1. /\ merged' = merged /\ crashes' = crashes /\ dropped' = dropped /\ pc' = "clarify"
        /\ todo' = todo
    BY <1>3 DEF Start, Control
  <2>. QED  BY <2>1, NothingForgotten
<1>4. CASE Clarify \/ List \/ PlannerAnswers \/ SubagentAnswers
  <2>1. /\ merged' = merged /\ crashes' = crashes /\ dropped' = dropped /\ todo' = todo
        /\ pc' \in {"list", "planner", "pick", "planned", "subagent"}
    BY <1>4 DEF Clarify, List, PlannerAnswers, SubagentAnswers
  <2>. QED  BY <2>1, NothingForgotten
<1>5. CASE PlannedClarify \/ PlannedList
  <2>1. /\ merged' = merged /\ crashes' = crashes /\ dropped' = dropped
        /\ pc' \in {"asking", "list", "pick"}
    BY <1>5 DEF PlannedClarify, PlannedList
  <2>2. \A t \in Tasks : todo[t] \notin Started
    BY <1>5 DEF PlannedClarify, PlannedList, Control, Untouched, Listed, Started
  <2>. QED  BY <2>1, <2>2, NothingForgotten
<1>6. CASE PlannedReview
  BY <1>6, ReviewMergeInv
<1>7. CASE Pick
  <2>1. PICK t \in Workable : /\ todo' = Marked(t, "in_progress") /\ task' = t
                              /\ merged' = merged /\ crashes' = crashes /\ dropped' = dropped
    BY <1>7 DEF Pick
  <2>2. /\ task' \in Tasks /\ todo[task'] \notin Started
        /\ \A u \in Tasks : todo'[u] \in Started \/ todo[u] \notin Started
    BY <2>1, Remarked DEF Workable, Started, Statuses
  <2>. QED  BY <2>1, <2>2, NothingForgotten
<1>8. CASE Round \/ CoderAnswers \/ HookReturns \/ TestsRun \/ PushReturns \/ ReviewerAnswers
           \/ VerdictMirrored \/ CiReturns \/ ConfirmReturns
  <2>1. /\ merged' = merged /\ crashes' = crashes /\ dropped' = dropped
        /\ todo' = todo /\ task' = task
    BY <1>8 DEF Round, Abandon, CoderAnswers, NoEdits, GivesUp, HookReturns, TestsRun,
         PushReturns, ReviewerAnswers, VerdictMirrored, CiReturns, CiUnverified, ConfirmReturns
  <2>2. pc \in Merging
    BY <1>8 DEF Round, CoderAnswers, HookReturns, TestsRun, PushReturns, ReviewerAnswers,
         VerdictMirrored, CiReturns, ConfirmReturns
  <2>. QED  BY <2>1, <2>2, NothingForgotten
<1>9. CASE MergeReturns
  BY <1>9, MergedMergeInv
<1>10. CASE Landed
  <2>1. /\ merged' = merged /\ crashes' = crashes /\ dropped' = dropped /\ pc' = "planner"
        /\ todo' = Marked(task, "done") /\ task \in Tasks
    BY <1>10 DEF Landed, Control
  <2>2. \A u \in Tasks : todo'[u] \in Started \/ todo[u] \notin Started
    BY <2>1, Remarked DEF Started, Statuses
  <2>. QED  BY <2>1, <2>2, NothingForgotten
<1>11. CASE AnswersGiven \/ Quit
  <2>1. /\ merged' = merged /\ crashes' = crashes /\ dropped' = dropped /\ todo' = todo
        /\ task' = task /\ (pc' = pc \/ pc' = "clarify")
    BY <1>11 DEF AnswersGiven, Quit
  <2>. QED  BY <2>1, NothingForgotten
<1>. QED
  BY <1>3, <1>4, <1>5, <1>6, <1>7, <1>8, <1>9, <1>10, <1>11 DEF Next, Planner, TaskStep, Human

\* MergedOnce: the work of a task is merged again only if a process was lost
\* or the Planner left the task off its list.
THEOREM WorkIsMergedOnce == Spec => []MergedOnce
<1>1. Init => MergeInv
  <2>. SUFFICES ASSUME Init
                PROVE  MergeInv
    OBVIOUS
  <2>1. merged = {} /\ crashes = 0 /\ dropped = 0 /\ pc = "off"
    BY DEF Init
  <2>2. \A t : Branches(t) = {}
    BY <2>1 DEF Branches
  <2>3. IsFiniteSet(merged) /\ \A t : Cardinality(Branches(t)) = 0
    BY <2>1, <2>2, FS_EmptySet
  <2>. QED  BY <2>1, <2>3 DEF MergeInv, Merging, AtTask
<1>2. MergeInv => MergedOnce
  BY DEF MergeInv, MergedOnce, Branches
<1>. QED  BY <1>1, <1>2, RunsAreControlled, MergeInvStep, PTL DEF Spec
-----------------------------------------------------------------------------
(* Approved work.  A task begins on a HEAD where the last commit of every  *)
(* task was approved, and spoils that only for its own.                    *)

Known(branch, t, good) ==
    \/ \A i \in DOMAIN branch : branch[i].task # t
    \/ \E i \in DOMAIN branch :
        /\ branch[i].task = t /\ branch[i] \in good
        /\ \A j \in DOMAIN branch : branch[j].task = t => j <= i

AllKnown(branch, good) == \A t \in Tasks : Known(branch, t, good)

\* The phases in which the branch is on GitHub; in which it is approved.
Opened == {"reviewer", "mirror", "ci", "confirm", "merge"}
Verdict == {"ci", "confirm", "merge", "landed"}

ApprovedInv ==
    faults = 0 /\ sessions <= 1 =>
        /\ \A m \in merged : AllKnown(m.branch, approved)
        /\ pc \notin AtTask \cup {"off"} => AllKnown(head, approved)
        /\ pc \in AtTask \ {"closing"} =>
                \A t \in Tasks \ {task} : Known(head, t, approved)
        /\ pc \in Opened => remote[task] = head
        /\ pc \in Verdict => Last(head) \in approved
        /\ sessions = 0 => head = << >> /\ pc = "off"

LEMMA KnownIsApproved ==
    ASSUME NEW branch \in Seq(Commits), NEW t, Known(branch, t, approved)
    PROVE  TipApproved(branch, t)
<1>. DEFINE own == {i \in DOMAIN branch : branch[i].task = t}
<1>. SUFFICES ASSUME own # {}
              PROVE  branch[Max(own)] \in approved
  BY DEF TipApproved
<1>1. PICK i \in own : branch[i] \in approved /\ \A j \in own : j <= i
  BY DEF Known
<1>2. own \subseteq Nat
  OBVIOUS
<1>. HIDE DEF own
<1>3. \E x \in own : \A y \in own : x >= y
  BY <1>1, <1>2
<1>4. Max(own) \in own /\ \A y \in own : Max(own) >= y
  BY <1>3 DEF Max
<1>5. Max(own) <= i /\ Max(own) >= i
  BY <1>1, <1>4
<1>6. Max(own) \in Nat /\ i \in Nat
  BY <1>1, <1>2, <1>4
<1>7. Max(own) = i
  BY <1>5, <1>6
<1>. QED  BY <1>1, <1>7

\* A HEAD that ends with an approved commit of the task is known for it.
LEMMA LastIsKnown ==
    ASSUME NEW branch \in Seq(Commits), NEW good, branch # << >>, Last(branch) \in good
    PROVE  Known(branch, Last(branch).task, good)
BY DEF Known, Last

\* A commit of one task says nothing of another.
LEMMA AppendKnown ==
    ASSUME NEW branch \in Seq(Commits), NEW c \in Commits, NEW t, NEW good, c.task # t,
           Known(branch, t, good)
    PROVE  Known(Append(branch, c), t, good)
<1>. DEFINE longer == Append(branch, c)
<1>1. /\ DOMAIN longer = 1..(Len(branch) + 1) /\ DOMAIN branch = 1..Len(branch)
      /\ Len(branch) \in Nat
      /\ \A i \in 1..Len(branch) : longer[i] = branch[i]
      /\ longer[Len(branch) + 1] = c
  OBVIOUS
<1>. HIDE DEF longer
<1>2. Known(longer, t, good)
  <2>1. CASE \A i \in DOMAIN branch : branch[i].task # t
    BY <1>1, <2>1 DEF Known
  <2>2. ASSUME NEW i \in DOMAIN branch, branch[i].task = t, branch[i] \in good,
               \A j \in DOMAIN branch : branch[j].task = t => j <= i
        PROVE  Known(longer, t, good)
    <3>1. i \in DOMAIN longer /\ longer[i] = branch[i]
      BY <1>1
    <3>2. \A j \in DOMAIN longer : longer[j].task = t => j <= i
      BY <1>1, <2>2
    <3>. QED  BY <2>2, <3>1, <3>2 DEF Known
  <2>. QED  BY <2>1, <2>2 DEF Known
<1>. QED  BY <1>2 DEF longer

LEMMA MoreApproved ==
    ASSUME NEW good, NEW better, good \subseteq better
    PROVE  \A branch, t : Known(branch, t, good) => Known(branch, t, better)
BY DEF Known

\* What the counters of the premise do in a step.
LEMMA PremiseHeld ==
    ASSUME OrchTypes, Control, Next, faults' = 0, sessions' <= 1
    PROVE  /\ faults = 0 /\ sessions <= 1
           /\ Start => sessions = 0
           /\ ~Start => sessions' = sessions
<1>. USE DEF Proceed, Goto, AskPlanner, outside
<1>1. sessions \in Nat /\ faults = 0
  BY HistoryGrows DEF OrchTypes, Counters
<1>2. CASE Start
  <2>1. sessions' = sessions + 1
    BY <1>2 DEF Start
  <2>2. sessions = 0 /\ sessions <= 1
    BY <1>1, <2>1
  <2>. QED  BY <1>1, <1>2, <2>2, Zenon
<1>3. CASE ~Start
  <2>1. ASSUME pc' = "off" PROVE sessions' = sessions
    BY <1>3, <2>1, HowRunsEnd DEF Crash, Stops
  <2>2. ASSUME pc' # "off", Human \/ Quit PROVE sessions' = sessions
    BY <2>2, EndingsEnd DEF Human, AnswersGiven, ConfirmReturns, Quit
  <2>3. ASSUME pc' # "off", Planner PROVE sessions' = sessions
    BY <2>3, EndingsEnd DEF Planner, Clarify, List, PlannerAnswers, SubagentAnswers,
         PlannedClarify, PlannedList, PlannedReview
  <2>4. ASSUME pc' # "off", TaskStep PROVE sessions' = sessions
    BY <2>4, EndingsEnd DEF TaskStep, Pick, Round, Abandon, CoderAnswers, NoEdits, GivesUp,
         HookReturns, TestsRun, PushReturns, ReviewerAnswers, VerdictMirrored, CiReturns,
         CiUnverified, MergeReturns, Landed
  <2>5. sessions' = sessions
    BY <1>3, <2>1, <2>2, <2>3, <2>4, EndingsEnd DEF Next
  <2>6. sessions <= 1
    BY <2>5
  <2>. QED  BY <1>1, <1>3, <2>5, <2>6, Zenon
<1>. QED  BY <1>2, <1>3
LEMMA ApprovedStep == OrchTypes /\ Control /\ ApprovedInv /\ [Next]_vars => ApprovedInv'
<1>. SUFFICES ASSUME OrchTypes, Control, ApprovedInv, [Next]_vars, faults' = 0, sessions' <= 1
              PROVE  ApprovedInv'
  BY DEF ApprovedInv
<1>1. CASE UNCHANGED vars
  <2>1. /\ pc' = pc /\ task' = task /\ head' = head /\ remote' = remote /\ merged' = merged
        /\ approved' = approved /\ sessions' = sessions /\ faults' = faults
    BY <1>1 DEF vars, local, inTask, git, outside
  <2>. QED  BY <2>1 DEF ApprovedInv
<1>. SUFFICES ASSUME Next
              PROVE  ApprovedInv'
  BY <1>1
<1>2. /\ \A m \in merged : AllKnown(m.branch, approved)
      /\ pc \notin AtTask \cup {"off"} => AllKnown(head, approved)
      /\ pc \in AtTask \ {"closing"} => \A t \in Tasks \ {task} : Known(head, t, approved)
      /\ pc \in Opened => remote[task] = head
      /\ pc \in Verdict => Last(head) \in approved
      /\ sessions = 0 => head = << >> /\ pc = "off"
  BY PremiseHeld DEF ApprovedInv
<1>3. ASSUME merged' = merged, approved' = approved,
             pc' \notin AtTask \cup {"off"} => AllKnown(head', approved),
             pc' \in AtTask \ {"closing"} => \A t \in Tasks \ {task'} : Known(head', t, approved),
             pc' \in Opened => remote'[task'] = head',
             pc' \in Verdict => Last(head') \in approved,
             ~(sessions' = 0)
      PROVE  ApprovedInv'
  BY <1>2, <1>3 DEF ApprovedInv
<1>4. CASE Start
  <2>1. /\ pc = "off" /\ head = << >> /\ head' = head /\ pc' = "clarify" /\ merged' = merged
        /\ approved' = approved
    BY <1>2, <1>4, PremiseHeld DEF Start, git, Goto
  <2>2. sessions' # 0
    BY <1>4 DEF Start, OrchTypes, Counters
  <2>3. AllKnown(head', approved)
    BY <2>1 DEF AllKnown, Known
  <2>. QED  BY <1>3, <2>1, <2>2, <2>3 DEF AtTask, Opened, Verdict
<1>. SUFFICES ASSUME ~Start
              PROVE  ApprovedInv'
  BY <1>4
<1>5. ~(sessions' = 0)
  <2>1. pc # "off"
    BY DEF Next, Planner, TaskStep, Human, Clarify, List, PlannerAnswers, SubagentAnswers,
         PlannedClarify, PlannedList, PlannedReview, Pick, Round, RolledBack, CoderAnswers,
         HookReturns, TestsRun, PushReturns, ReviewerAnswers, VerdictMirrored, CiReturns,
         MergeReturns, Landed, AnswersGiven, ConfirmReturns, Quit, Throw, Crash, Awaits
  <2>. QED  BY <1>2, <2>1, PremiseHeld
<1>6. CASE pc' = "off"
  <2>1. merged' = merged /\ approved' = approved
    BY <1>6, HowRunsEnd DEF Crash, Stops, git
  <2>. QED  BY <1>3, <1>5, <1>6, <2>1 DEF AtTask, Opened, Verdict
<1>. SUFFICES ASSUME pc' # "off"
              PROVE  ApprovedInv'
  BY <1>6
<1>. USE EndingsEnd DEF Proceed, Goto, Call, AskPlanner, local, inTask, state, outside, git,
       AtTask, Opened, Verdict
<1>7. CASE Planner
  <2>1. /\ merged' = merged /\ approved' = approved /\ head' = head
        /\ pc \notin AtTask \cup {"off"} /\ pc' \notin AtTask
    BY <1>7 DEF Planner, Clarify, List, PlannerAnswers, SubagentAnswers, PlannedClarify,
         PlannedList, PlannedReview
  <2>2. AllKnown(head', approved)
    BY <1>2, <2>1
  <2>. QED  BY <1>3, <1>5, <2>1, <2>2
<1>8. CASE Pick
  <2>1. /\ merged' = merged /\ approved' = approved /\ head' = head
        /\ pc = "pick" /\ pc' = "round"
    BY <1>8 DEF Pick
  <2>2. AllKnown(head', approved)
    BY <1>2, <2>1
  <2>. QED  BY <1>3, <1>5, <2>1, <2>2 DEF AllKnown
<1>9. CASE Round \/ CoderAnswers \/ TestsRun
  <2>1. /\ merged' = merged /\ approved' = approved
        /\ pc' # "closing" => head' = head
        /\ task' = task /\ pc \in {"round", "coder", "committed"}
        /\ pc' \in {"closing", "coder", "hook", "round", "pushing"}
    BY <1>9 DEF Round, Abandon, CoderAnswers, NoEdits, GivesUp, TestsRun
  <2>. QED  BY <1>2, <1>3, <1>5, <2>1
<1>10. CASE HookReturns
  <2>1. CASE pc' = "committed"
    <3>. DEFINE c == [task |-> task, n |-> commits]
    <3>1. /\ merged' = merged /\ approved' = approved /\ task' = task /\ pc = "hook"
          /\ head' = Append(head, c) /\ task \in Tasks
      BY <1>10, <2>1 DEF HookReturns, Abandon, Control
    <3>2. c \in Commits /\ c.task = task /\ head \in Seq(Commits)
      BY <3>1 DEF Commits, OrchTypes, GitTypes, Counters
    <3>. HIDE DEF c
    <3>3. \A t \in Tasks \ {task} : Known(head', t, approved)
      BY <1>2, <3>1, <3>2, AppendKnown
    <3>. QED  BY <1>3, <1>5, <2>1, <3>1, <3>3
  <2>2. CASE pc' # "committed"
    <3>1. /\ merged' = merged /\ approved' = approved /\ task' = task /\ pc = "hook"
          /\ pc' = "closing" \/ (pc' = "round" /\ head' = head)
      BY <1>10, <2>2 DEF HookReturns, Abandon
    <3>. QED  BY <1>2, <1>3, <1>5, <3>1
  <2>. QED  BY <2>1, <2>2
<1>11. CASE PushReturns
  <2>1. faults' # faults + 1
    BY PremiseHeld
  <2>2. /\ merged' = merged /\ approved' = approved /\ head' = head /\ task' = task
        /\ pc = "pushing" /\ pc' = "reviewer" /\ Pushed /\ task \in Tasks
    BY <1>11, <2>1 DEF PushReturns, Control
  <2>3. remote'[task'] = head'
    BY <2>2 DEF Pushed, OrchTypes, GitTypes
  <2>. QED  BY <1>2, <1>3, <1>5, <2>2, <2>3
<1>12. CASE ReviewerAnswers
  <2>1. /\ merged' = merged /\ approved \subseteq approved' /\ head' = head /\ task' = task
        /\ remote' = remote /\ pc = "reviewer" /\ pc' = "mirror"
    BY <1>12 DEF ReviewerAnswers
  <2>2. \A branch, t : Known(branch, t, approved) => Known(branch, t, approved')
    BY <2>1, MoreApproved
  <2>3. /\ \A m \in merged : AllKnown(m.branch, approved')
        /\ \A t \in Tasks \ {task} : Known(head, t, approved')
    BY <1>2, <2>1, <2>2 DEF AllKnown
  <2>. QED  BY <1>2, <1>5, <2>1, <2>3 DEF ApprovedInv
<1>13. CASE VerdictMirrored \/ CiReturns \/ ConfirmReturns
  <2>1. /\ merged' = merged /\ approved' = approved /\ head' = head /\ task' = task
        /\ remote' = remote /\ pc \in Opened \ {"reviewer"}
        /\ pc' \in {"round", "ci", "confirm", "merge", "landed"}
        /\ pc' \in Verdict => pc \in Verdict \/ Approves
    BY <1>13 DEF VerdictMirrored, CiReturns, CiUnverified, ConfirmReturns
  <2>. QED  BY <1>2, <1>3, <1>5, <2>1 DEF Approves
<1>14. CASE MergeReturns
  <2>. DEFINE m == [task |-> task, branch |-> remote[task], at |-> commits]
  <2>1. /\ approved' = approved /\ head' = head /\ task' = task /\ pc = "merge"
        /\ pc' = "landed" /\ (merged' = merged \/ merged' = merged \cup {m})
        /\ m.branch = head
    BY <1>2, <1>14 DEF MergeReturns, Merge
  <2>. HIDE DEF m
  <2>2. Known(head, task, approved)
    BY <1>2, <2>1, LastIsKnown DEF Control, Presented, OrchTypes, GitTypes
  <2>3. AllKnown(head, approved)
    BY <1>2, <2>1, <2>2 DEF AllKnown
  <2>4. \A b \in merged' : AllKnown(b.branch, approved)
    BY <1>2, <2>1, <2>3
  <2>5. /\ Last(head') \in approved'
        /\ \A t \in Tasks \ {task'} : Known(head', t, approved')
    BY <1>2, <2>1
  <2>6. \A b \in merged' : AllKnown(b.branch, approved')
    BY <2>1, <2>4
  <2>. QED  BY <1>5, <2>1, <2>5, <2>6 DEF ApprovedInv
<1>15. CASE Landed
  <2>1. /\ merged' = merged /\ approved' = approved /\ head' = head /\ pc = "landed"
        /\ pc' = "planner"
    BY <1>15 DEF Landed
  <2>2. Known(head, task, approved)
    BY <1>2, <2>1, LastIsKnown DEF Control, Presented, OrchTypes, GitTypes
  <2>3. AllKnown(head', approved)
    BY <1>2, <2>1, <2>2 DEF AllKnown
  <2>. QED  BY <1>3, <1>5, <2>1, <2>3
<1>16. CASE AnswersGiven
  <2>1. /\ merged' = merged /\ approved' = approved /\ head' = head /\ pc = "asking"
        /\ pc' = "clarify"
    BY <1>16 DEF AnswersGiven
  <2>. QED  BY <1>2, <1>3, <1>5, <2>1
<1>17. CASE Quit
  <2>1. /\ merged' = merged /\ approved' = approved /\ head' = head /\ pc' = pc /\ task' = task
        /\ remote' = remote
    BY <1>17 DEF Quit
  <2>. QED  BY <1>2, <1>3, <1>5, <2>1
<1>. QED
  BY <1>7, <1>8, <1>9, <1>10, <1>11, <1>12, <1>13, <1>14, <1>15, <1>16, <1>17
     DEF Next, TaskStep, Human

\* MergedTipsApproved: as long as every call of GitHub succeeds and no run was
\* resumed, a merge brings in no task whose last commit was not approved.
THEOREM OnlyApprovedWorkMerges == Spec => []MergedTipsApproved
<1>1. Init => ApprovedInv
  <2>. SUFFICES ASSUME Init
                PROVE  ApprovedInv
    OBVIOUS
  <2>1. merged = {} /\ head = << >> /\ pc = "off"
    BY DEF Init
  <2>. QED  BY <2>1 DEF ApprovedInv, AtTask, Opened, Verdict
<1>2. OrchTypes /\ ApprovedInv => MergedTipsApproved
  <2>. SUFFICES ASSUME OrchTypes, ApprovedInv, faults = 0, sessions <= 1, NEW m \in merged,
                       NEW t \in Tasks
                PROVE  TipApproved(m.branch, t)
    BY DEF MergedTipsApproved
  <2>1. m.branch \in Seq(Commits)
    BY DEF OrchTypes, GitTypes, Merges
  <2>2. Known(m.branch, t, approved)
    BY DEF ApprovedInv, AllKnown
  <2>. QED  BY <2>1, <2>2, KnownIsApproved
<1>. QED  BY <1>1, <1>2, RunsAreControlled, ApprovedStep, PTL DEF Spec

-----------------------------------------------------------------------------
(* The refinement of TodoBoard: every step of a run is one of the board's, *)
(* or changes nothing that the board speaks of.                            *)

BoardInv == pc \notin AtTask => task = NoTask

\* A step in the eyes of TodoBoard: one of its own, or none.
Played == [Board!Next]_(Board!board)

LEMMA BoardInvStep == OrchTypes /\ BoardInv /\ [Next]_vars => BoardInv'
<1>. SUFFICES ASSUME OrchTypes, BoardInv, [Next]_vars
              PROVE  BoardInv'
  OBVIOUS
<1>1. CASE UNCHANGED vars
  BY <1>1 DEF vars, local, inTask, BoardInv
<1>. USE DEF BoardInv, AtTask, Proceed, Goto, Call, AskPlanner, local, inTask, Forgotten, Ends,
       EndsWith, Abandoned
<1>2. CASE Start \/ Human \/ Quit \/ Throw \/ Crash
  BY <1>2 DEF Start, Human, AnswersGiven, ConfirmReturns, Quit, Throw, Crash
<1>3. CASE Planner
  BY <1>3 DEF Planner, Clarify, List, PlannerAnswers, SubagentAnswers, PlannedClarify,
       PlannedList, PlannedReview
<1>4. CASE TaskStep
  BY <1>4 DEF TaskStep, Pick, Round, Abandon, RolledBack, CoderAnswers, NoEdits, GivesUp,
       HookReturns, TestsRun, PushReturns, ReviewerAnswers, VerdictMirrored, CiReturns,
       CiUnverified, MergeReturns, Landed
<1>. QED  BY <1>1, <1>2, <1>3, <1>4 DEF Next

LEMMA QuietOnBoard ==
    ASSUME pc # "off", pc' # "off", snapshot'.todo = snapshot.todo,
           UNCHANGED <<todo, task, merged, faults, result>>
    PROVE  Played
BY DEF Played, Board!board

\* Any list the Planner sends is a plan of the board.
LEMMA Planned ==
    ASSUME OrchTypes, NEW list \in SUBSET Tasks, pc # "off", pc' # "off", task = NoTask,
           \/ todo' = Revised(list)
           \/ todo' = Fresh(list) /\ Untouched(todo)
           \/ todo' = todo /\ list = Listed,
           snapshot'.todo \in {snapshot.todo, todo'},
           UNCHANGED <<task, merged, faults, result>>
    PROVE  Played
<1>1. todo' = Revised(list)
  <2>1. todo \in [Tasks -> Statuses]
    BY DEF OrchTypes, MemoryTypes, Lists
  <2>2. ASSUME Untouched(todo)
        PROVE  Fresh(list) = Revised(list)
    BY <2>2 DEF Fresh, Revised, Untouched
  <2>3. ASSUME list = Listed
        PROVE  Revised(list) = todo
    BY <2>1, <2>3 DEF Listed, Revised
  <2>. QED  BY <2>2, <2>3
<1>2. Board!Plan(list)
  BY <1>1 DEF Board!Plan, Revised
<1>. QED  BY <1>2 DEF Played, Board!Next

\* Why a run ends by itself: a task given up blocks it, and only a run with no
\* task in hand is complete, dry or out of loops.
LEMMA WhyRunsEnd ==
    ASSUME OrchTypes, Control, Next, pc' = "off", ~Crash
    PROVE  /\ result' \in Board!Between \cup Board!Anywhere
           /\ result' \in Board!Between => pc \notin AtTask
           /\ todo' = todo \/ result' = "blocked"
<1>. USE DEF Board!Between, Board!Anywhere, AtTask
<1>1. \A reason, status :
        Ends(reason, status) \/ EndsWith(reason, status) => result' = reason /\ todo' = status
  BY DEF Ends, EndsWith
<1>2. ~(Start \/ Clarify \/ AnswersGiven \/ SubagentAnswers \/ PlannedClarify \/ TestsRun
        \/ PushReturns \/ VerdictMirrored \/ MergeReturns)
  BY DEF Start, Clarify, AnswersGiven, SubagentAnswers, PlannedClarify, TestsRun, PushReturns,
         VerdictMirrored, MergeReturns, AskPlanner, Call, Goto, Proceed
<1>3. CASE Planner
  BY <1>1, <1>2, <1>3 DEF Planner, List, PlannerAnswers, PlannedList, PlannedReview, AskPlanner,
       Call, Goto, Proceed
<1>4. CASE Pick
  BY <1>1, <1>4 DEF Pick, Goto
<1>5. CASE Round \/ RolledBack \/ HookReturns
  BY <1>1, <1>5 DEF Round, RolledBack, HookReturns, Abandon, Abandoned, Call, Goto, Proceed
<1>6. CASE CoderAnswers \/ ReviewerAnswers \/ CiReturns
  BY <1>1, <1>6 DEF CoderAnswers, NoEdits, GivesUp, Abandoned, ReviewerAnswers, CiReturns,
       CiUnverified, Goto, Proceed
<1>7. CASE Landed \/ ConfirmReturns \/ Throw
  BY <1>1, <1>7 DEF Landed, ConfirmReturns, Throw, AskPlanner, Call, Goto, Proceed
<1>8. CASE Quit
  BY <1>8 DEF Quit, Awaits
<1>. QED
  BY <1>2, <1>3, <1>4, <1>5, <1>6, <1>7, <1>8 DEF Next, TaskStep, Human

LEMMA EndsOnBoard ==
    ASSUME OrchTypes, Control, BoardInv, Next, pc' = "off"
    PROVE  Played
<1>1. pc # "off"
  BY DEF Next, Planner, TaskStep, Human, Start, Clarify, List, PlannerAnswers, SubagentAnswers,
         PlannedClarify, PlannedList, PlannedReview, Pick, Round, RolledBack, CoderAnswers,
         HookReturns, TestsRun, PushReturns, ReviewerAnswers, VerdictMirrored, CiReturns,
         MergeReturns, Landed, AnswersGiven, ConfirmReturns, Quit, Throw, Crash, Awaits, Goto
<1>2. CASE Crash
  <2>1. /\ snapshot' \in {snapshot, NoSnapshot} /\ todo' = snapshot'.todo /\ task' = NoTask
        /\ result' = "crashed" /\ UNCHANGED <<merged, faults>>
    BY <1>2 DEF Crash, Forgotten, git
  <2>2. Board!Die
    BY <1>1, <2>1 DEF Board!Die, Board!Empty, NoSnapshot
  <2>. QED  BY <2>2 DEF Played, Board!Next
<1>3. CASE ~Crash
  <2>1. PICK reason \in Results, status \in Lists : Stops(reason, status)
    BY <1>3, HowRunsEnd
  <2>2. /\ result' = reason /\ todo' = status /\ snapshot'.todo = status /\ task' = NoTask
        /\ UNCHANGED <<merged, faults>>
    BY <2>1 DEF Stops, EndsWith, Persisted, Forgotten, outside
  <2>3. /\ reason \in Board!Between \cup Board!Anywhere
        /\ reason \in Board!Between => task = NoTask
        /\ status = todo \/ reason = "blocked"
    BY <1>3, <2>2, WhyRunsEnd DEF BoardInv
  <2>4. \/ status = todo
        \/ /\ reason = "blocked"
           /\ \E t \in Tasks :
                /\ t = task \/ (task = NoTask /\ todo[t] = "pending")
                /\ status = [todo EXCEPT ![t] = "abandoned"]
    <3>1. CASE pc = "pick" /\ \E t \in Workable : status = Marked(t, "abandoned")
      BY <2>3, <3>1 DEF Workable, Marked, BoardInv, AtTask
    <3>2. CASE pc \in AtTask /\ status = Marked(task, "abandoned")
      BY <2>3, <3>2 DEF Marked, Control
    <3>. QED  BY <2>1, <3>1, <3>2 DEF Stops
  <2>5. Board!Stop(reason)
    BY <1>1, <2>2, <2>3, <2>4 DEF Board!Stop
  <2>. QED  BY <2>3, <2>5 DEF Played, Board!Next
<1>. QED  BY <1>2, <1>3

\* The planner's part of a run.
LEMMA PlannerOnBoard ==
    ASSUME OrchTypes, Control, BoardInv, Planner, pc' # "off"
    PROVE  Played
<1>. USE EndingsEnd DEF Proceed, Goto, Call, AskPlanner, local, inTask, state, outside, git,
       ending
<1>1. pc # "off" /\ pc \notin AtTask /\ task = NoTask
  BY DEF Planner, Clarify, List, PlannerAnswers, SubagentAnswers, PlannedClarify, PlannedList,
         PlannedReview, AtTask, BoardInv
<1>2. task' = task /\ UNCHANGED <<merged, faults, result>>
  BY DEF Planner, Clarify, List, PlannerAnswers, SubagentAnswers, PlannedClarify, PlannedList,
         PlannedReview
<1>3. CASE Clarify \/ List \/ PlannerAnswers \/ SubagentAnswers
  <2>1. UNCHANGED <<todo, snapshot>>
    BY <1>3 DEF Clarify, List, PlannerAnswers, SubagentAnswers
  <2>. QED  BY <1>1, <1>2, <2>1, QuietOnBoard
<1>4. CASE PlannedClarify \/ PlannedList
  <2>1. /\ snapshot' = snapshot
        /\ todo' = todo \/ \E list \in SUBSET Tasks : todo' = Fresh(list)
    BY <1>4 DEF PlannedClarify, PlannedList
  <2>2. Untouched(todo)
    BY <1>4 DEF PlannedClarify, PlannedList, Control, Listed, Untouched
  <2>. QED  BY <1>1, <1>2, <2>1, <2>2, QuietOnBoard, Planned
<1>5. CASE PlannedReview
  <2>1. /\ todo' = todo \/ \E list \in SUBSET Tasks : todo' = Revised(list)
        /\ Persisted(todo')
    BY <1>5 DEF PlannedReview
  <2>2. snapshot'.todo = todo'
    BY <2>1 DEF Persisted
  <2>3. Listed \in SUBSET Tasks
    BY DEF Listed
  <2>. QED  BY <1>1, <1>2, <2>1, <2>2, <2>3, Planned
<1>. QED  BY <1>3, <1>4, <1>5 DEF Planner

\* The runs of a task: taken, merged, and done.
LEMMA TaskOnBoard ==
    ASSUME OrchTypes, Control, DoneInv, BoardInv, TaskStep, pc' # "off"
    PROVE  Played
<1>. USE EndingsEnd DEF Proceed, Goto, Call, AskPlanner, local, inTask, state, outside, git,
       ending
<1>1. task # NoTask \/ pc = "pick"
  BY OrchestratorAssumption
  DEF TaskStep, Pick, Round, RolledBack, CoderAnswers, HookReturns, TestsRun, PushReturns,
      ReviewerAnswers, VerdictMirrored, CiReturns, MergeReturns, Landed, Control, AtTask
<1>2. faults \in Nat
  BY DEF OrchTypes, Counters
<1>3. CASE Pick
  <2>1. PICK t \in Workable :
            /\ todo' = Marked(t, "in_progress") /\ task' = t
            /\ UNCHANGED <<snapshot, merged, faults, result>>
    BY <1>3 DEF Pick
  <2>2. pc # "off" /\ task = NoTask /\ t \in Tasks /\ todo[t] = "pending"
    BY <1>3 DEF Pick, BoardInv, AtTask, Workable
  <2>3. Board!Take(t)
    BY <2>1, <2>2 DEF Board!Take, Marked
  <2>. QED  BY <2>2, <2>3 DEF Played, Board!Next
<1>4. CASE Round \/ CoderAnswers \/ HookReturns \/ TestsRun \/ ReviewerAnswers
           \/ VerdictMirrored \/ CiReturns
  <2>1. pc # "off" /\ UNCHANGED <<todo, snapshot, task, merged, faults, result>>
    BY <1>4 DEF Round, Abandon, CoderAnswers, NoEdits, GivesUp, HookReturns, TestsRun,
         ReviewerAnswers, VerdictMirrored, CiReturns, CiUnverified
  <2>. QED  BY <2>1, QuietOnBoard
<1>5. CASE PushReturns
  <2>1. /\ pc = "pushing" /\ UNCHANGED <<todo, snapshot, task, merged, result>>
        /\ faults' \in {faults, faults + 1}
    BY <1>5 DEF PushReturns
  <2>2. CASE faults' = faults
    BY <2>1, <2>2, QuietOnBoard
  <2>3. CASE faults' = faults + 1
    <3>1. faults' > 0
      BY <1>2, <2>3
    <3>2. Board!Fail
      BY <1>1, <2>1, <3>1 DEF Board!Fail
    <3>. QED  BY <3>2 DEF Played, Board!Next
  <2>. QED  BY <2>1, <2>2, <2>3
<1>6. CASE MergeReturns
  <2>. DEFINE m == [task |-> task, branch |-> remote[task], at |-> commits]
              known(branches) == {b.task : b \in branches}
  <2>1. /\ pc = "merge" /\ UNCHANGED <<todo, snapshot, task, result>>
        /\ \/ merged' = merged \cup {m} /\ faults' = faults
           \/ merged' \in {merged, merged \cup {m}} /\ faults' = faults + 1
    BY <1>6 DEF MergeReturns, Merge
  <2>2. m.task = task
    OBVIOUS
  <2>. HIDE DEF m
  <2>3. known(merged \cup {m}) = known(merged) \cup {task}
    BY <2>2
  <2>4. CASE merged' = merged \cup {m} /\ faults' = faults
    <3>1. Board!Ship
      BY <1>1, <2>1, <2>3, <2>4 DEF Board!Ship
    <3>. QED  BY <3>1 DEF Played, Board!Next
  <2>5. CASE merged' \in {merged, merged \cup {m}} /\ faults' = faults + 1
    <3>1. faults' > 0
      BY <1>2, <2>5
    <3>2. known(merged') \in {known(merged), known(merged) \cup {task}}
      BY <2>3, <2>5
    <3>3. Board!Fail
      BY <1>1, <2>1, <3>1, <3>2 DEF Board!Fail
    <3>. QED  BY <3>3 DEF Played, Board!Next
  <2>. QED  BY <2>1, <2>4, <2>5
<1>7. CASE Landed
  <2>1. /\ pc = "landed" /\ todo' = Marked(task, "done") /\ task' = NoTask
        /\ UNCHANGED <<snapshot, merged, faults, result>>
    BY <1>7 DEF Landed
  <2>2. faults = 0 => task \in {m.task : m \in merged}
    BY <2>1 DEF DoneInv, WasMerged, In
  <2>3. task \in {m.task : m \in merged} \/ faults > 0
    BY <1>2, <2>2
  <2>4. Board!Finish
    BY <1>1, <2>1, <2>3 DEF Board!Finish, Marked
  <2>. QED  BY <2>4 DEF Played, Board!Next
<1>8. CASE RolledBack
  BY <1>8 DEF RolledBack
<1>. QED  BY <1>3, <1>4, <1>5, <1>6, <1>7, <1>8 DEF TaskStep

LEMMA StepOnBoard == OrchTypes /\ Control /\ DoneInv /\ BoardInv /\ [Next]_vars => Played
<1>. SUFFICES ASSUME OrchTypes, Control, DoneInv, BoardInv, [Next]_vars
              PROVE  Played
  OBVIOUS
<1>1. CASE UNCHANGED vars
  <2>1. UNCHANGED <<todo, snapshot, pc, task, merged, faults, result>>
    BY <1>1 DEF vars, state, local, inTask, git, outside, ending
  <2>. QED  BY <2>1 DEF Played, Board!board
<1>2. CASE Next /\ pc' = "off"
  BY <1>2, EndsOnBoard
<1>3. CASE Planner /\ pc' # "off"
  BY <1>3, PlannerOnBoard
<1>4. CASE TaskStep /\ pc' # "off"
  BY <1>4, TaskOnBoard
<1>5. CASE Start
  <2>1. /\ pc = "off" /\ pc' # "off" /\ todo' = snapshot.todo /\ todo = snapshot.todo
        /\ result' = "none" /\ UNCHANGED <<snapshot, task, merged, faults>>
    BY <1>5 DEF Start, Goto, local, inTask, git, Control
  <2>2. Board!Begin
    BY <2>1 DEF Board!Begin
  <2>. QED  BY <2>2 DEF Played, Board!Next
<1>6. CASE (Human \/ Quit) /\ pc' # "off"
  <2>1. pc # "off" /\ UNCHANGED <<todo, snapshot, task, merged, faults, result>>
    BY <1>6, EndingsEnd
    DEF Human, AnswersGiven, ConfirmReturns, Quit, Proceed, Goto, state, local, inTask, git,
        outside, ending, Awaits
  <2>. QED  BY <1>6, <2>1, QuietOnBoard
<1>. QED  BY <1>1, <1>2, <1>3, <1>4, <1>5, <1>6, EndingsEnd DEF Next

\* RunsFollowBoard: whatever models, user, git and GitHub do, and wherever a
\* run ends or dies, the todo list keeps the promise of TodoBoard.
THEOREM RunsKeepTheBoard == Spec => RunsFollowBoard
<1>1. Init => DoneInv /\ BoardInv
  BY NothingSaved DEF Init, DoneInv, BoardInv
<1>2. Init => Board!Init
  BY DEF Init, Board!Init, Board!Empty, NoSnapshot
<1>. QED
  BY <1>1, <1>2, RunsAreControlled, DoneStep, BoardInvStep, StepOnBoard, PTL
  DEF Spec, RunsFollowBoard, Board!Spec, Played

=============================================================================
