------------------------------ MODULE OneShot ------------------------------
(***************************************************************************)
(* claudestruct's one-shot command: _run_common of cli.py checks the       *)
(* monthly cap against the run logs, run_task_and_log of runner.py opens a *)
(* log, run_task of client.py answers from local_cache.py or calls the     *)
(* provider and stores the answer, and the log gets its cost.  Several     *)
(* commands run at a time, on one directory of logs and one cache, within  *)
(* one calendar month.                                                     *)
(***************************************************************************)
EXTENDS Naturals, Sequences, FiniteSets

CONSTANTS
    Shots,          \* processes, each running one command after another
    Prompts,        \* what the context, the task and the description make
    Efforts,        \* --effort
    NoFile, NoAnswer, \* no such file; no answer yet
    Empty, Torn,    \* contents: truncated; not JSON
    CapUsd,         \* --monthly-cap-usd
    Costs, MaxCost, \* what the provider may bill for a call, and at most
    MaxCalls        \* bound: calls that are billed

ASSUME OneShotAssumption ==
    /\ CapUsd \in Nat \ {0} /\ MaxCalls \in Nat
    /\ MaxCost \in Nat /\ MaxCost \in Costs /\ Costs \subseteq 0..MaxCost
    /\ IsFiniteSet(Shots) /\ NoAnswer \notin Nat

VARIABLES
    billed,         \* the provider's bill: calls with request and cost
    logged,         \* cost in the run logs
    cacheFile,      \* <key>.json: the file there
    tempFile,       \* <key>.json.tmp: the file there
    content,        \* what a file holds: the number of a call, Empty or Torn
    shot,           \* the process: step, request, answer, file it writes
    \* history
    unlogged        \* billed calls that no run log tells of

oneShot == <<billed, logged, cacheFile, tempFile, content, shot, unlogged>>
files == <<cacheFile, tempFile, content>>

Wanted == [prompt : Prompts, effort : Efforts]

\* Mutant of KeyOf: the effort is not hashed.
KeyWithoutEffort(w) == [prompt |-> w.prompt, effort |-> CHOOSE e \in Efforts : TRUE]

\* cache_key: one file per provider, model, prompt, effort and max_tokens.
KeyOf(w) == w

\* The answer that was billed to a command which has still to log it, if any.
Held(s) == {n \in {shot[s].answer} : n # NoAnswer /\ shot[s].step # "replay"}

InHand == UNION {Held(s) : s \in Shots}

Resting == [step |-> "idle", wants |-> NoAnswer, keeps |-> FALSE,
            answer |-> NoAnswer, file |-> NoFile]

OneShotInit ==
    /\ billed = << >>
    /\ logged = 0
    /\ cacheFile = [k \in Wanted |-> NoFile]
    /\ tempFile = [k \in Wanted |-> NoFile]
    /\ content = [n \in 1..MaxCalls |-> Empty]
    /\ shot = [s \in Shots |-> Resting]
    /\ unlogged = {}

\* load_summaries: what the usage of every log in the directory adds up to.
MonthSpend == logged

\* Mutant of Exceeded: spent > cap.
ExceededLate(spent) == spent > CapUsd

\* check_budget: the runs that started in the current month.
Exceeded(spent) == spent >= CapUsd

\* _run_common: the check, before the context is gathered.
CheckBudget(s, w) ==
    /\ shot[s].step = "idle"
    /\ ~Exceeded(MonthSpend)
    /\ shot' = [shot EXCEPT ![s] = [Resting EXCEPT !.step = "start", !.wants = w]]
    /\ UNCHANGED <<billed, logged, files, unlogged>>

\* run.start; is_enabled_for decides whether the cache is used.
StartRun(s, keeps) ==
    /\ shot[s].step = "start"
    /\ shot' = [shot EXCEPT ![s].step = IF keeps THEN "look" ELSE "call",
                            ![s].keeps = keeps]
    /\ UNCHANGED <<billed, logged, files, unlogged>>

\* get: a file that is missing or is not JSON is a miss.
Readable(f) == f # NoFile /\ content[f] \notin {Empty, Torn}

\* A hit is replayed and logged with the cost of the first call.
LookInCache(s) ==
    /\ shot[s].step = "look"
    /\ LET f == cacheFile[KeyOf(shot[s].wants)]
       IN  shot' = IF Readable(f)
                   THEN [shot EXCEPT ![s].step = "replay", ![s].keeps = FALSE,
                                    ![s].answer = content[f]]
                   ELSE [shot EXCEPT ![s].step = "call"]
    /\ UNCHANGED <<billed, logged, files, unlogged>>

Bill(s, cost) ==
    /\ Len(billed) < MaxCalls
    /\ billed' = Append(billed, [wants |-> shot[s].wants, cost |-> cost])

\* provider.run_task: the whole answer, with its usage ...
CallProvider(s, cost) ==
    /\ shot[s].step = "call"
    /\ Bill(s, cost)
    /\ shot' = [shot EXCEPT ![s].answer = Len(billed) + 1, ![s].keeps = FALSE,
                            ![s].step = IF shot[s].keeps THEN "open" ELSE "usage"]
    /\ UNCHANGED <<logged, files, unlogged>>

\* ... or an error.  A ClaudestructError is logged as a run that cost nothing;
\* an error of the SDK ends the command, after tokens were billed or before.
CallFails(s) ==
    /\ shot[s].step = "call"
    /\ \/ UNCHANGED <<billed, unlogged>>
       \/ /\ \E cost \in Costs : Bill(s, cost)
          /\ unlogged' = unlogged \cup {Len(billed) + 1}
    /\ shot' = [shot EXCEPT ![s] = Resting]
    /\ UNCHANGED <<logged, files>>

\* put, tmp.write_text opens: creates the key's one temporary file, or
\* truncates the one another process is writing.
OpenTemp(s) ==
    /\ shot[s].step = "open"
    /\ LET k == KeyOf(shot[s].wants)
           f == IF tempFile[k] = NoFile THEN shot[s].answer ELSE tempFile[k]
       IN  /\ tempFile' = [tempFile EXCEPT ![k] = f]
           /\ content' = [content EXCEPT ![f] = Empty]
           /\ shot' = [shot EXCEPT ![s].step = "write", ![s].file = f]
    /\ UNCHANGED <<billed, logged, cacheFile, unlogged>>

\* What is there after a write from the start of a file: over another answer,
\* a longer text replaces it and a shorter one leaves its tail.
Overlaid(f, n) == IF content[f] = Empty THEN {n} ELSE {n, Torn}

WriteTemp(s) ==
    /\ shot[s].step = "write"
    /\ \E c \in Overlaid(shot[s].file, shot[s].answer) :
        content' = [content EXCEPT ![shot[s].file] = c]
    /\ shot' = [shot EXCEPT ![s].step = "rename"]
    /\ UNCHANGED <<billed, logged, cacheFile, tempFile, unlogged>>

\* tmp.replace moves whatever file has the name; none is an OSError, which
\* run_task reports on stderr.
RenameTemp(s) ==
    /\ shot[s].step = "rename"
    /\ LET k == KeyOf(shot[s].wants)
       IN  IF tempFile[k] = NoFile
           THEN UNCHANGED <<cacheFile, tempFile>>
           ELSE /\ cacheFile' = [cacheFile EXCEPT ![k] = tempFile[k]]
                /\ tempFile' = [tempFile EXCEPT ![k] = NoFile]
    /\ shot' = [shot EXCEPT ![s].step = "usage", ![s].file = NoFile]
    /\ UNCHANGED <<billed, logged, content, unlogged>>

\* A full disk, while the answer is stored: the run goes on.
StoreFails(s) ==
    /\ shot[s].step \in {"open", "write"}
    /\ shot' = [shot EXCEPT ![s].step = "usage", ![s].file = NoFile]
    /\ content' = IF shot[s].step = "write"
                  THEN [content EXCEPT ![shot[s].file] = Torn] ELSE content
    /\ UNCHANGED <<billed, logged, cacheFile, tempFile, unlogged>>

\* agent.usage and run.end.
LogUsage(s) ==
    /\ shot[s].step \in {"usage", "replay"}
    /\ logged' = logged + billed[shot[s].answer].cost
    /\ shot' = [shot EXCEPT ![s] = Resting]
    /\ UNCHANGED <<billed, files, unlogged>>

\* The user interrupts the command, or the process dies.
Killed(s) ==
    /\ shot[s].step # "idle"
    /\ unlogged' = unlogged \cup Held(s)
    /\ shot' = [shot EXCEPT ![s] = Resting]
    /\ UNCHANGED <<billed, logged, files>>

\* purge_runs: the logs of the runs that are over are deleted.
PurgeRuns ==
    /\ logged' = 0
    /\ unlogged' = DOMAIN billed \ InHand
    /\ UNCHANGED <<billed, files, shot>>

OneShotNext ==
    \/ PurgeRuns
    \/ \E s \in Shots :
        \/ \E w \in Wanted : CheckBudget(s, w)
        \/ \E keeps \in BOOLEAN : StartRun(s, keeps)
        \/ \E cost \in Costs : CallProvider(s, cost)
        \/ LookInCache(s) \/ CallFails(s) \/ OpenTemp(s) \/ WriteTemp(s)
        \/ RenameTemp(s) \/ StoreFails(s) \/ LogUsage(s) \/ Killed(s)

OneShotSpec == OneShotInit /\ [][OneShotNext]_oneShot

-----------------------------------------------------------------------------
(* Properties.                                                             *)

\* local_cache.get after put by any number of processes at a time: what a
\* command prints is the whole answer the provider gave to this very request,
\* though the file it is read from may be another's, empty or torn.
AnswersFit ==
    \A s \in Shots : shot[s].step \in {"usage", "replay"} =>
        /\ shot[s].answer \in DOMAIN billed
        /\ billed[shot[s].answer].wants = shot[s].wants

\* What those calls cost together: one pair for each dollar of each.
Dollars(calls) ==
    Cardinality({p \in calls \X (1..MaxCost) : p[2] <= billed[p[1]].cost})

\* _run_common, "Aborting before any API call": the cap is read before the run
\* and the cost written after it, so the bill may pass the cap, but by less than
\* one call for each process at work and each call that is in no log, because
\* its process ended before agent.usage or the log was purged.
CapHolds ==
    Dollars(DOMAIN billed)
        < CapUsd + MaxCost * (Cardinality(Shots) + Cardinality(unlogged))

=============================================================================
