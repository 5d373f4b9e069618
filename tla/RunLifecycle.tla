---------------------------- MODULE RunLifecycle ----------------------------
(***************************************************************************)
(* What the run service promises about one row of the `runs` table, with   *)
(* no worker, tier or transaction in sight: a run is submitted once, moves *)
(* queued -> running -> done | failed (models.RunStatus) and never back,   *)
(* its runner is invoked at most once, and the verdict is published at     *)
(* most once and only when the row is terminal.                            *)
(***************************************************************************)
EXTENDS Naturals

CONSTANT Runs

VARIABLES status,     \* the `status` column, "absent" before the insert
          attempts,   \* how many times the runner was called for the run
          verdicts    \* how many verdict comments were posted for the run

vars == <<status, attempts, verdicts>>

Terminal == {"done", "failed"}

Init ==
    /\ status = [r \in Runs |-> "absent"]
    /\ attempts = [r \in Runs |-> 0]
    /\ verdicts = [r \in Runs |-> 0]

Submit(r) ==
    /\ status[r] = "absent"
    /\ status' = [status EXCEPT ![r] = "queued"]
    /\ UNCHANGED <<attempts, verdicts>>

Start(r) ==
    /\ status[r] = "queued"
    /\ status' = [status EXCEPT ![r] = "running"]
    /\ UNCHANGED <<attempts, verdicts>>

Attempt(r) ==
    /\ status[r] = "running"
    /\ attempts[r] = 0
    /\ attempts' = [attempts EXCEPT ![r] = 1]
    /\ UNCHANGED <<status, verdicts>>

Finish(r) ==
    /\ status[r] = "running"
    /\ attempts[r] = 1
    /\ \E t \in Terminal : status' = [status EXCEPT ![r] = t]
    /\ UNCHANGED <<attempts, verdicts>>

Publish(r) ==
    /\ status[r] \in Terminal
    /\ verdicts[r] = 0
    /\ verdicts' = [verdicts EXCEPT ![r] = 1]
    /\ UNCHANGED <<status, attempts>>

Next ==
    \E r \in Runs :
        Submit(r) \/ Start(r) \/ Attempt(r) \/ Finish(r) \/ Publish(r)

Spec == Init /\ [][Next]_vars

=============================================================================
