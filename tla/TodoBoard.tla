----------------------------- MODULE TodoBoard -----------------------------
(***************************************************************************)
(* What `claw-squad run` promises about its todo list, with no model,      *)
(* budget, round or branch in sight: a run takes one pending task at a     *)
(* time; a task is done only when it was taken and its work is merged,     *)
(* unless a call of GitHub failed; whatever the Planner sends later, a     *)
(* task it keeps keeps its status; and however a run ends, what it knows   *)
(* is what the next run resumes from, or was saved earlier, or is nothing. *)
(***************************************************************************)
CONSTANTS Tasks, NoTask

VARIABLES todo,      \* the status of each task, "absent" if not on the list
          saved,     \* the statuses that a resumed run starts with
          running,   \* whether a run is under way
          task,      \* the task the run has taken
          shipped,   \* the tasks whose work was merged
          outage,    \* whether a call of GitHub has failed
          result     \* how the last run ended

board == <<todo, saved, running, task, shipped, outage, result>>

Empty == [t \in Tasks |-> "absent"]

\* `result` of runOrchestrator, or the error it throws: those of a run that
\* had no task in hand, and those that may come at any time.
Between  == {"complete", "dry_run", "max_loops"}
Anywhere == {"aborted", "blocked", "error"}

Init ==
    /\ todo = Empty /\ saved = Empty
    /\ running = FALSE /\ task = NoTask
    /\ shipped = {} /\ outage = FALSE /\ result = "none"

\* A new run, or one that is resumed.
Begin ==
    /\ ~running /\ running' = TRUE
    /\ result' = "none"
    /\ UNCHANGED <<todo, saved, task, shipped, outage>>

\* The Planner sends a list, and the state may be saved: "merge by id".
Plan(list) ==
    /\ running /\ task = NoTask
    /\ todo' = [t \in Tasks |->
                    IF t \notin list THEN "absent"
                    ELSE IF todo[t] = "absent" THEN "pending" ELSE todo[t]]
    /\ saved' \in {saved, todo'}
    /\ UNCHANGED <<running, task, shipped, outage, result>>

Take(t) ==
    /\ running /\ task = NoTask /\ todo[t] = "pending"
    /\ todo' = [todo EXCEPT ![t] = "in_progress"]
    /\ task' = t
    /\ UNCHANGED <<saved, running, shipped, outage, result>>

\* The pull request of the task is merged.
Ship ==
    /\ task # NoTask
    /\ shipped' = shipped \cup {task}
    /\ UNCHANGED <<todo, saved, running, task, outage, result>>

\* A call of GitHub fails; a merge may have gone through all the same.
Fail ==
    /\ task # NoTask
    /\ outage' = TRUE
    /\ shipped' \in {shipped, shipped \cup {task}}
    /\ UNCHANGED <<todo, saved, running, task, result>>

Finish ==
    /\ task # NoTask
    /\ task \in shipped \/ outage
    /\ todo' = [todo EXCEPT ![task] = "done"]
    /\ task' = NoTask
    /\ UNCHANGED <<saved, running, shipped, outage, result>>

\* The run ends by itself and saves the list: as it is, or with a task given
\* up, which blocks the run.
Stop(reason) ==
    /\ running /\ running' = FALSE
    /\ reason \in Between => task = NoTask
    /\ \/ todo' = todo
       \/ /\ reason = "blocked"
          /\ \E t \in Tasks :
                /\ t = task \/ (task = NoTask /\ todo[t] = "pending")
                /\ todo' = [todo EXCEPT ![t] = "abandoned"]
    /\ saved' = todo'
    /\ task' = NoTask /\ result' = reason
    /\ UNCHANGED <<shipped, outage>>

\* The process dies: the list is as it was saved, or lost.
Die ==
    /\ running /\ running' = FALSE
    /\ saved' \in {saved, Empty} /\ todo' = saved'
    /\ task' = NoTask /\ result' = "crashed"
    /\ UNCHANGED <<shipped, outage>>

Next ==
    \/ Begin \/ Ship \/ Fail \/ Finish \/ Die
    \/ \E list \in SUBSET Tasks : Plan(list)
    \/ \E t \in Tasks : Take(t)
    \/ \E reason \in Between \cup Anywhere : Stop(reason)

Spec == Init /\ [][Next]_board

=============================================================================
