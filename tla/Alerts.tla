------------------------------- MODULE Alerts -------------------------------
(***************************************************************************)
(* The alerts daemon (server/alerts.py, server/notify.py): a thread that   *)
(* folds an org's runs into findings, hands each to the notifier, waits    *)
(* and starts over.  start() and stop() may be called at any time, and     *)
(* stop() may return before the pass under way is over.  Time is counted   *)
(* in hours, money in whole units, and the runs are those of one org whose *)
(* members form one team; a pass treats orgs and teams one by one.  Within *)
(* a kind the order of the findings is left open.                          *)
(***************************************************************************)
EXTENDS Integers, FiniteSets, FiniteSetsExt, SequencesExt

CONSTANTS
    NumRuns,        \* bound: runs of the org, numbered as they end
    Prices,         \* what a run may cost
    Loops,          \* threads start() may create
    NoLoop,         \* None
    Sigma,          \* --sigma, a whole number
    MinBaseline,    \* MIN_BASELINE_RUNS
    BurnMin,        \* BURN_RATE_MIN_RUNS
    OrgCap,         \* the org's tier_usd_cap; 0 for none
    Recent,         \* --check-recent-hours
    LastPass        \* bound: hours until no more run finishes

ASSUME AlertsAssumption ==
    /\ NoLoop \notin Loops
    /\ Prices \subseteq Nat /\ Sigma \in Nat \ {0}
    /\ {NumRuns, MinBaseline, BurnMin, OrgCap, Recent, LastPass} \subseteq Nat

RunIds == 1..NumRuns

VARIABLES
    hours,          \* the clock
    ran,            \* a run: its cost, whether it succeeded, its hour
    loop,           \* a thread: where its loop is
    found,          \* the alerts of the pass under way, not yet sent
    handle,         \* _thread
    stopFlag        \* _stop

alerts == <<hours, ran, loop, found, handle, stopFlag>>

NotRun == [cost |-> 0, ok |-> FALSE, at |-> -1]

AlertsInit ==
    /\ hours = 0
    /\ ran = [j \in RunIds |-> NotRun]
    /\ loop = [t \in Loops |-> "new"]
    /\ found = << >>
    /\ handle = NoLoop /\ stopFlag = FALSE

RunEnds(j, cost, ok) ==
    /\ ran[j] = NotRun /\ \A i \in 1..(j - 1) : ran[i] # NotRun
    /\ ran' = [ran EXCEPT ![j] = [cost |-> cost, ok |-> ok, at |-> hours]]
    /\ UNCHANGED <<hours, loop, found, handle, stopFlag>>

AnHourPasses ==
    /\ hours < LastPass
    /\ hours' = hours + 1
    /\ UNCHANGED <<ran, loop, found, handle, stopFlag>>

-----------------------------------------------------------------------------
(* The detectors.                                                          *)

Cost(j) == ran[j].cost
Total(js) == MapThenSumSet(Cost, js)
Squares(js) == MapThenSumSet(LAMBDA j : Cost(j) * Cost(j), js)

Finished == {j \in RunIds : ran[j] # NotRun}

IsRecent(j) == hours - ran[j].at <= Recent

\* Mutant of Baseline: the recent runs are left out.
BaselineOfOld == {j \in Finished : ran[j].ok /\ ~IsRecent(j)}

\* All successful runs in the lookback window, the candidates included.
Baseline == {j \in Finished : ran[j].ok}

\* n times the distance of run j from the mean, and n^2 times the variance.
Above(j) == Cardinality(Baseline) * Cost(j) - Total(Baseline)
Spread   == Cardinality(Baseline) * Squares(Baseline)
                - Total(Baseline) * Total(Baseline)

IsAbove(j) ==
    /\ Above(j) > 0
    /\ Above(j) * Above(j) >= Sigma * Sigma * Spread

\* compute_cost_regression_alerts.
Regressions ==
    IF Cardinality(Baseline) < MinBaseline THEN {}
    ELSE {j \in Finished : ran[j].ok /\ IsRecent(j) /\ IsAbove(j)}

\* What it is about tells two alerts of a kind apart; severity and texts are
\* left out.
Alert(kind, about) == [kind |-> kind, about |-> about]

\* finding_to_alert.
CostAlert(j) == Alert("cost_regression", j)

\* compute_team_budget_alerts: failed runs cost as well.
TeamAlerts ==
    IF OrgCap = 0 \/ 10 * Total(Finished) < 8 * OrgCap THEN {}
    ELSE {Alert("team_budget_burn", "team")}

\* _compute_burn_for_window, with the error rate 14.4 or 6 times 0.001.
Burns(js, threshold) ==
    /\ Cardinality(js) >= BurnMin
    /\ 10000 * Cardinality({j \in js : ~ran[j].ok}) >= threshold * Cardinality(js)

BurnAlerts ==
    {Alert("slo_error_budget_burn", w.name) : w \in
        {v \in {[name |-> "1h", hours |-> 1, threshold |-> 144],
                [name |-> "6h", hours |-> 6, threshold |-> 60]} :
            Burns({j \in Finished : hours - ran[j].at <= v.hours}, v.threshold)}}

\* The three kinds, one after the other.
Findings == SetToSeq({CostAlert(j) : j \in Regressions})
                \o SetToSeq(TeamAlerts) \o SetToSeq(BurnAlerts)

-----------------------------------------------------------------------------
(* The thread.                                                             *)

Goes(t, where) == loop' = [loop EXCEPT ![t] = where]

\* Mutant of Alive: a thread that was told to stop counts as gone.
AliveUnlessStopped(t) == loop[t] \in {"check", "pass", "send", "wait"} /\ ~stopFlag

Alive(t) == loop[t] \in {"check", "pass", "send", "wait"}

\* start() returns at once while the last thread is alive, stopped or not.
StartLoop(t) ==
    /\ loop[t] = "new"
    /\ handle # NoLoop => ~Alive(handle)
    /\ stopFlag' = FALSE
    /\ handle' = t
    /\ Goes(t, "check")
    /\ UNCHANGED <<hours, ran, found>>

\* stop() sets the flag; its join may time out.
StopLoop ==
    /\ ~stopFlag /\ handle # NoLoop
    /\ stopFlag' = TRUE
    /\ UNCHANGED <<hours, ran, loop, found, handle>>

CheckFlag(t) ==
    /\ loop[t] = "check"
    /\ Goes(t, IF stopFlag THEN "gone" ELSE "pass")
    /\ UNCHANGED <<hours, ran, found, handle, stopFlag>>

\* Mutant of AfterCrash: the exception ends the thread.
AfterCrashUncaught == "gone"

AfterCrash == "wait"

\* run_alert_pass computes everything in one session; a query may fail, or
\* another request insert the default subscription first.
ComputePass(t) ==
    /\ loop[t] = "pass"
    /\ \/ found' = Findings /\ Goes(t, "send")
       \/ found' = << >> /\ Goes(t, AfterCrash)
    /\ UNCHANGED <<hours, ran, handle, stopFlag>>

\* notify: the channel takes the alert, or logs that it did not; the Slack
\* notifier lets an error of the transport through, which ends the pass.
SendAlert(t) ==
    /\ loop[t] = "send"
    /\ \/ /\ found = << >>
          /\ Goes(t, "wait")
          /\ UNCHANGED found
       \/ /\ found # << >>
          /\ found' = Tail(found)
          /\ UNCHANGED loop
       \/ /\ found # << >>
          /\ found' = << >>
          /\ Goes(t, AfterCrash)
    /\ UNCHANGED <<hours, ran, handle, stopFlag>>

\* The interval is over, or stop() ends it.
Wake(t) ==
    /\ loop[t] = "wait"
    /\ Goes(t, "check")
    /\ UNCHANGED <<hours, ran, found, handle, stopFlag>>

LoopStep(t) == CheckFlag(t) \/ ComputePass(t) \/ SendAlert(t) \/ Wake(t)

AlertsNext ==
    \/ \E j \in RunIds, cost \in Prices, ok \in BOOLEAN : RunEnds(j, cost, ok)
    \/ AnHourPasses
    \/ \E t \in Loops : StartLoop(t) \/ LoopStep(t)
    \/ StopLoop

AlertsSpec == AlertsInit /\ [][AlertsNext]_alerts
                /\ \A t \in Loops : WF_alerts(LoopStep(t))

-----------------------------------------------------------------------------
(* Properties.                                                             *)

\* start, whatever calls of stop() timed out before: two passes never run at
\* a time, so no finding of one is sent by another.
OneLoop == Cardinality({t \in Loops : Alive(t)}) <= 1

\* compute_cost_regression_alerts: because a candidate counts in its own
\* baseline, no history of an org makes more than one run in 1 + sigma^2 an
\* alert; a burst of expensive runs raises the mean it is measured by.
NoiseBounded ==
    Cardinality(Regressions) * (1 + Sigma * Sigma) <= Cardinality(Baseline)

\* AlertsScheduler, "a transient DB blip or a bad notifier reply must not take
\* the daemon down": until stop() is called the next pass comes.
PassesGoOn ==
    \A t \in Loops : Alive(t) ~> (loop[t] = "pass" \/ stopFlag)

=============================================================================
