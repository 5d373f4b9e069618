----------------------------- MODULE AuditTrail -----------------------------
(***************************************************************************)
(* What the audit table promises an auditor, with no request, hash or      *)
(* transaction in sight: the trail of an org grows at its end, one entry   *)
(* at a time and in the order of the stamps, and is cut from its start; a  *)
(* request has one entry at most.  The promise to an org ends when all its *)
(* entries were cut; then its numbers are still unique.                    *)
(***************************************************************************)
EXTENDS Naturals

CONSTANTS Orgs, Recorders, RecorderOrg

VARIABLES trail,       \* the entries kept: [org, seq, entry, at]
          recorded,    \* the requests that made their entry
          void         \* orgs whose entries were all cut at some time

auditTrail == <<trail, recorded, void>>

Init == trail = {} /\ recorded = {} /\ void = {}

TrailOf(o) == {e \in trail : e.org = o}

\* The entry comes next in the trail of its org.
Continues(e) ==
    \/ TrailOf(e.org) = {} /\ e.seq = 1
    \/ /\ \E d \in TrailOf(e.org) : e.seq = d.seq + 1
       /\ \A d \in TrailOf(e.org) : d.seq < e.seq /\ d.at <= e.at

Record(c) ==
    /\ c \notin recorded /\ recorded' = recorded \cup {c}
    /\ \E e \in trail' :
        /\ e.org = RecorderOrg[c] /\ e.entry = c
        /\ \A d \in TrailOf(e.org) : d.seq # e.seq
        /\ e.org \notin void => Continues(e)
        /\ trail' = trail \cup {e}
    /\ UNCHANGED void

\* Retention cuts what is older than the rest, and so the start.
Cut(o) ==
    /\ \E gone \in (SUBSET TrailOf(o)) \ {{}} :
        /\ \A e \in gone : \A d \in TrailOf(o) \ gone :
            e.at < d.at /\ (o \notin void => e.seq < d.seq)
        /\ trail' = trail \ gone
        /\ void' = IF gone = TrailOf(o) THEN void \cup {o} ELSE void
    /\ UNCHANGED recorded

Next ==
    \/ \E c \in Recorders : Record(c)
    \/ \E o \in Orgs : Cut(o)

Spec == Init /\ [][Next]_auditTrail

=============================================================================
