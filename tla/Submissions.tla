---------------------------- MODULE Submissions ----------------------------
(***************************************************************************)
(* What POST /v1/runs promises its clients: a request is answered as if it *)
(* were alone.  It is accepted in one step, with its run and its entry at  *)
(* the end of the org's audit trail, or it leaves nothing behind; the runs *)
(* of one org and key are one run; a refusal is final, and a client that   *)
(* got no answer may find its run accepted or not.                         *)
(***************************************************************************)
EXTENDS Naturals

CONSTANTS Requests, RequestOrg, RequestKey, NoKey, NoRun

VARIABLES accepted,    \* the requests whose run is in the table
          trail,       \* the audit entries: [org, seq, run]
          outcome,     \* what the client of a request saw
          named        \* the run that its answer names

submissions == <<accepted, trail, outcome, named>>

SameKey(p, q) ==
    /\ RequestOrg[p] = RequestOrg[q]
    /\ RequestKey[p] = RequestKey[q] /\ RequestKey[q] # NoKey

Init ==
    /\ accepted = {} /\ trail = {}
    /\ outcome = [q \in Requests |-> "none"]
    /\ named = [q \in Requests |-> NoRun]

TrailOf(o) == {e \in trail : e.org = o}

\* The entry has the first number that is free in the trail of its org.
Continues(e) == e.seq > 0 /\ {d.seq : d \in TrailOf(e.org)} = 1..(e.seq - 1)

Accept(q) ==
    /\ outcome[q] = "none" /\ q \notin accepted
    /\ ~\E r \in accepted : SameKey(r, q)
    /\ accepted' = accepted \cup {q}
    /\ \E e \in trail' :
        /\ e.org = RequestOrg[q] /\ e.run = q /\ Continues(e)
        /\ trail' = trail \cup {e}
    /\ UNCHANGED <<outcome, named>>

\* The client gets its answer, the only one.
Sees(q, what, run) ==
    /\ outcome[q] = "none"
    /\ outcome' = [outcome EXCEPT ![q] = what]
    /\ named' = [named EXCEPT ![q] = run]
    /\ UNCHANGED <<accepted, trail>>

Confirm(q) == q \in accepted /\ Sees(q, "202", q)

Replay(q) ==
    /\ q \notin accepted
    /\ \E r \in accepted : SameKey(r, q) /\ Sees(q, "202", r)

\* Over the cap, or the request met another one.
Refuse(q) ==
    /\ q \notin accepted
    /\ Sees(q, "402", NoRun) \/ Sees(q, "500", NoRun)

Lose(q) == Sees(q, "lost", named[q])

Next ==
    \E q \in Requests :
        Accept(q) \/ Confirm(q) \/ Replay(q) \/ Refuse(q) \/ Lose(q)

Spec == Init /\ [][Next]_submissions

=============================================================================
