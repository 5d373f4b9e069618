---------------------------- MODULE MCRaceStream ----------------------------
(***************************************************************************)
(* Two instances of RunQueue in one run: two workers that race for the     *)
(* first two runs, which belong to one org, and one worker under an        *)
(* unending stream of submissions of all three.                            *)
(***************************************************************************)
EXTENDS MCRunQueue

VARIABLE part

mcVars == <<vars, part>>

Working == IF part = "race" THEN Workers ELSE {w1}

\* The first two runs and their org; two losses.
RaceNext ==
    /\ part = "race" /\ Next
    /\ created'[r3] = 0 /\ tier'[o2] = tier[o2]

\* The first worker only; one loss.
StreamNext ==
    /\ part = "stream" /\ Stream
    /\ pc'[w2] = "idle" /\ losses' < MaxLosses

RaceOrStream ==
    /\ part \in {"race", "stream"} /\ Init
    /\ part = "race" => tier[o2] = "free"
    /\ [][(RaceNext \/ StreamNext) /\ UNCHANGED part]_mcVars
    /\ \A w \in Workers :
            WF_mcVars(w \in Working /\ WorkerStep(w) /\ UNCHANGED part)

=============================================================================
