------------------------------- MODULE BotPr -------------------------------
(***************************************************************************)
(* The pull request of a finished run: _open_pr_as_bot_safe of worker.py   *)
(* and open_pr_as_bot of server/github_app/clone_push.py.  The run edited  *)
(* files in the worker's tree.  The attempt clones the base branch into a  *)
(* directory of its own, commits what differs there, pushes the branch of  *)
(* the run and asks GitHub for the pull request.  Every step may fail, by  *)
(* a timeout, an expired token or the death of the worker; a run that was  *)
(* reclaimed is executed, and published, again.                            *)
(***************************************************************************)
EXTENDS Naturals, FiniteSets

CONSTANTS
    PrRuns,         \* finished runs with the context of a webhook
    NoCommit,       \* no such branch, nothing cloned
    MaxAttempts,    \* bound: executions of a run
    MaxBase         \* bound: commits others push to the base branch

\* What git add -A finds in a directory that was just cloned: nothing, or the
\* files whose line endings the checkout rewrote.  The run's tree is not read.
FoundInClone == {"nothing", "normalised"}

Commits == [run : PrRuns, base : Nat, try : Nat, holds : FoundInClone]

ASSUME BotPrAssumption ==
    /\ MaxAttempts \in Nat /\ MaxBase \in Nat
    /\ NoCommit \notin PrRuns \cup Commits

VARIABLES
    base,           \* commits on the base branch
    branch,         \* the commit a run's branch points to at GitHub
    prs,            \* pull requests opened for a run
    prNumber,       \* what the run's row says
    attempt,        \* the attempt of the single worker thread
    attempts,       \* attempts of a run so far
    \* history
    undisturbed     \* runs whose first attempt met no failure and is over

botPr == <<base, branch, prs, prNumber, attempt, attempts, undisturbed>>

NoAttempt == [run |-> NoCommit, step |-> "idle", commit |-> NoCommit]

BotPrInit ==
    /\ base = 0
    /\ branch = [r \in PrRuns |-> NoCommit]
    /\ prs = [r \in PrRuns |-> 0]
    /\ prNumber = [r \in PrRuns |-> "none"]
    /\ attempt = NoAttempt
    /\ attempts = [r \in PrRuns |-> 0]
    /\ undisturbed = {}

BaseMoves ==
    /\ base < MaxBase
    /\ base' = base + 1
    /\ UNCHANGED <<branch, prs, prNumber, attempt, attempts, undisturbed>>

StartAttempt(r) ==
    /\ attempt = NoAttempt /\ attempts[r] < MaxAttempts
    /\ attempt' = [NoAttempt EXCEPT !.run = r, !.step = "clone"]
    /\ attempts' = [attempts EXCEPT ![r] = @ + 1]
    /\ UNCHANGED <<base, branch, prs, prNumber, undisturbed>>

\* _prepare_repo_push: clone the tip of the base, switch to the run's branch.
Clone ==
    /\ attempt.step = "clone"
    /\ \E found \in FoundInClone :
        attempt' = [attempt EXCEPT !.step = "commit",
                        !.commit = [run |-> attempt.run, base |-> base,
                                    try |-> attempts[attempt.run],
                                    holds |-> found]]
    /\ UNCHANGED <<base, branch, prs, prNumber, attempts, undisturbed>>

GiveUp == attempt' = NoAttempt

\* _push_branch_via_git: "no changes to commit in PR branch".
CommitClone ==
    /\ attempt.step = "commit"
    /\ \/ /\ attempt.commit.holds = "nothing"
          /\ GiveUp
          /\ undisturbed' = IF attempts[attempt.run] = 1
                            THEN undisturbed \cup {attempt.run} ELSE undisturbed
       \/ /\ attempt.commit.holds # "nothing"
          /\ attempt' = [attempt EXCEPT !.step = "push"]
          /\ UNCHANGED undisturbed
    /\ UNCHANGED <<base, branch, prs, prNumber, attempts>>

\* Mutant of PushAccepted: the push is forced.
PushForced(r) == TRUE

\* GitHub refuses to move a branch to a commit that does not descend from it;
\* two commits of a run never do.
PushAccepted(r) == branch[r] = NoCommit

PushBranch ==
    LET r == attempt.run IN
    /\ attempt.step = "push"
    /\ \/ PushAccepted(r) /\ branch' = [branch EXCEPT ![r] = attempt.commit]
                          /\ attempt' = [attempt EXCEPT !.step = "open"]
       \/ ~PushAccepted(r) /\ GiveUp /\ UNCHANGED branch
    /\ UNCHANGED <<base, prs, prNumber, attempts, undisturbed>>

\* create_pull_request; GitHub refuses a second one for the same branch.
OpenRequest ==
    LET r == attempt.run IN
    /\ attempt.step = "open"
    /\ \/ prs[r] = 0 /\ prs' = [prs EXCEPT ![r] = 1]
                     /\ attempt' = [attempt EXCEPT !.step = "record"]
       \/ prs[r] > 0 /\ GiveUp /\ UNCHANGED prs
    /\ UNCHANGED <<base, branch, prNumber, attempts, undisturbed>>

\* run.github_pr_number is overwritten with the new number and committed.
Record ==
    LET r == attempt.run IN
    /\ attempt.step = "record"
    /\ prNumber' = [prNumber EXCEPT ![r] = "opened"]
    /\ GiveUp
    /\ undisturbed' = IF attempts[r] = 1 THEN undisturbed \cup {r}
                                         ELSE undisturbed
    /\ UNCHANGED <<base, branch, prs, attempts>>

\* The step fails, before or after it took effect; the error is logged and
\* the directory removed.
FailAttempt ==
    /\ attempt # NoAttempt
    /\ GiveUp
    /\ UNCHANGED <<base, branch, prs, prNumber, attempts, undisturbed>>

BotPrNext ==
    \/ BaseMoves
    \/ \E r \in PrRuns : StartAttempt(r)
    \/ Clone \/ CommitClone \/ PushBranch \/ OpenRequest \/ Record \/ FailAttempt

BotPrSpec == BotPrInit /\ [][BotPrNext]_botPr

-----------------------------------------------------------------------------
(* Properties.                                                             *)

\* However often a run is executed and wherever its attempts fail, the pull
\* request a reviewer sees holds one commit, which no later attempt replaces,
\* and the row points at it only once it is there.
ReviewedBranchStays ==
    [][\A r \in PrRuns :
        /\ prs[r] > 0 => branch'[r] = branch[r]
        /\ prNumber'[r] = "opened" => prs[r] > 0 /\ branch[r] # NoCommit]_botPr

\* open_pr_as_bot, "stage + push the working tree changes as a new branch,
\* then open a PR": a run published without a failure has a pull request.
PublishedRunsHavePrs == \A r \in undisturbed : prs[r] = 1

=============================================================================
