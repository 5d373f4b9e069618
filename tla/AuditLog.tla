------------------------------ MODULE AuditLog ------------------------------
(***************************************************************************)
(* The hash-chained audit table (server/audit.py).  Request handlers on    *)
(* several threads and processes append to the chain of their org: record  *)
(* reads the head, stamps and hashes the new row, and flushes it, where    *)
(* the unique index on (org_id, seq) lets one of two racing rows through;  *)
(* the caller commits later.  Operators store heads outside the database,  *)
(* and the retention job deletes old rows.                                 *)
(***************************************************************************)
EXTENDS Naturals

CONSTANTS
    Orgs,
    Recorders,      \* one handler execution each: it records one entry
    RecorderOrg,    \* [Recorders -> Orgs]
    Hash(_, _, _),  \* compute_entry_hash(prev_hash, entry, created_at)
    Genesis,        \* GENESIS_HASH
    MaxClock        \* bound: the last instant of the run

ASSUME AuditLogAssumption ==
    /\ RecorderOrg \in [Recorders -> Orgs]
    /\ MaxClock \in Nat

VARIABLES
    rows,       \* the committed rows of audit_entries
    clock,      \* _now_utc(), shared by the recorders
    pc,         \* where a recorder stands
    seq,        \* the seq, prev_hash and created_at of the row it builds
    prev,
    at,
    snapshots,  \* heads stored outside: [org, seq, hash]
    emptied     \* orgs whose whole chain was deleted at some time

draftVars == <<seq, prev, at>>
vars == <<rows, clock, pc, draftVars, snapshots, emptied>>

Phases == {"start", "linked", "hashed", "flushed", "committed", "aborted"}

RowsOf(o) == {r \in rows : r.org = o}

\* Mutant of Row: created_at is left to the column's default at the insert.
RowStampedAgain(c) ==
    [org   |-> RecorderOrg[c],
     seq   |-> seq[c],
     entry |-> c,
     at    |-> clock,
     prev  |-> prev[c],
     hash  |-> Hash(prev[c], c, at[c])]

\* The row a recorder inserts.
Row(c) == [org   |-> RecorderOrg[c],
           seq   |-> seq[c],
           entry |-> c,
           at    |-> at[c],
           prev  |-> prev[c],
           hash  |-> Hash(prev[c], c, at[c])]

Init ==
    /\ rows = {}
    /\ clock = 1
    /\ pc = [c \in Recorders |-> "start"]
    /\ seq = [c \in Recorders |-> 0]
    /\ prev = [c \in Recorders |-> Genesis]
    /\ at = [c \in Recorders |-> 0]
    /\ snapshots = {}
    /\ emptied = {}

-----------------------------------------------------------------------------
(* record().                                                               *)

NextSeq(n) == n + 1

\* head_for_org: the row of the org with the highest seq.
Newest(o, r) == r \in RowsOf(o) /\ \A s \in RowsOf(o) : s.seq <= r.seq

ReadHead(c) ==
    LET o == RecorderOrg[c] IN
    /\ pc[c] = "start"
    /\ \/ \E h \in rows :
            /\ Newest(o, h)
            /\ seq' = [seq EXCEPT ![c] = NextSeq(h.seq)]
            /\ prev' = [prev EXCEPT ![c] = h.hash]
       \/ /\ RowsOf(o) = {}
          /\ seq' = [seq EXCEPT ![c] = NextSeq(0)]
          /\ prev' = [prev EXCEPT ![c] = Genesis]
    /\ pc' = [pc EXCEPT ![c] = "linked"]
    /\ UNCHANGED <<rows, clock, at, snapshots, emptied>>

Stamp(c) ==
    /\ pc[c] = "linked"
    /\ at' = [at EXCEPT ![c] = clock]
    /\ pc' = [pc EXCEPT ![c] = "hashed"]
    /\ UNCHANGED <<rows, clock, seq, prev, snapshots, emptied>>

\* The unique index on (org_id, seq): an uncommitted row under the same key
\* makes the INSERT wait, a committed one makes it fail.
Waits(c) ==
    \E d \in Recorders \ {c} :
        pc[d] = "flushed" /\ RecorderOrg[d] = RecorderOrg[c] /\ seq[d] = seq[c]

\* Mutant of Taken: no unique index on (org_id, seq).
NeverTaken(c) == FALSE

Taken(c) == \E r \in RowsOf(RecorderOrg[c]) : r.seq = seq[c]

\* The INSERT: taken numbers raise IntegrityError, which no caller catches;
\* the request fails and its transaction is rolled back.
Flush(c) ==
    /\ pc[c] = "hashed"
    /\ ~Waits(c)
    /\ pc' = [pc EXCEPT ![c] = IF Taken(c) THEN "aborted" ELSE "flushed"]
    /\ UNCHANGED <<rows, clock, draftVars, snapshots, emptied>>

Commit(c) ==
    /\ pc[c] = "flushed"
    /\ rows' = rows \cup {Row(c)}
    /\ pc' = [pc EXCEPT ![c] = "committed"]
    /\ UNCHANGED <<clock, draftVars, snapshots, emptied>>

\* A later failure of the handler, or of its process, before the commit.
Abort(c) ==
    /\ pc[c] \in {"linked", "hashed", "flushed"}
    /\ pc' = [pc EXCEPT ![c] = "aborted"]
    /\ UNCHANGED <<rows, clock, draftVars, snapshots, emptied>>

-----------------------------------------------------------------------------
(* Around the recorders.                                                   *)

Tick ==
    /\ clock < MaxClock
    /\ clock' = clock + 1
    /\ UNCHANGED <<rows, pc, draftVars, snapshots, emptied>>

\* GET /v1/audit/head, stored outside the database.
Snapshot(o) ==
    /\ \E h \in rows :
        /\ Newest(o, h)
        /\ snapshots' =
            snapshots \cup {[org |-> o, seq |-> h.seq, hash |-> h.hash]}
    /\ UNCHANGED <<rows, clock, pc, draftVars, emptied>>

\* Mutant of Expired: the age is compared the wrong way around.
NotExpired(r, cutoff) == r.at >= cutoff

Expired(r, cutoff) == r.at < cutoff

\* Retention is 90 days or more and a request takes seconds: one in flight
\* has read a head no older than any row that is old enough to go.
OutlivesRequests(o, gone) ==
    \A c \in Recorders : \A r \in gone :
        (RecorderOrg[c] = o /\ pc[c] \in {"linked", "hashed", "flushed"})
            => r.seq < seq[c]

\* prune_audit and its caller's commit.
Prune(o) ==
    /\ \E cutoff \in 1..clock :
        LET gone == {r \in RowsOf(o) : Expired(r, cutoff)} IN
        /\ gone # {}
        /\ OutlivesRequests(o, gone)
        /\ rows' = rows \ gone
        /\ emptied' = IF gone = RowsOf(o) THEN emptied \cup {o} ELSE emptied
    /\ UNCHANGED <<clock, pc, draftVars, snapshots>>

-----------------------------------------------------------------------------

Recorder(c) == ReadHead(c) \/ Stamp(c) \/ Flush(c) \/ Commit(c) \/ Abort(c)

Next ==
    \/ \E c \in Recorders : Recorder(c)
    \/ Tick
    \/ \E o \in Orgs : Snapshot(o) \/ Prune(o)

Spec == Init /\ [][Next]_vars

-----------------------------------------------------------------------------
(* verify_chain.                                                           *)

\* The row the walk expects right after r: the next one of the org by seq.
Follows(r, s) ==
    /\ s.org = r.org /\ r.seq < s.seq
    /\ \A t \in rows : ~(t.org = r.org /\ r.seq < t.seq /\ t.seq < s.seq)

\* What the walk requires of a row by itself, and of two adjacent rows.
HashMatches(r) == r.hash = Hash(r.prev, r.entry, r.at)

LinksTo(r, s) == s.seq = r.seq + 1 /\ s.prev = r.hash

\* The walk reports ok: it starts at the genesis and meets no divergence.
Verifies(o) ==
    /\ \A r \in RowsOf(o) : HashMatches(r)
    /\ \A r, s \in RowsOf(o) : Follows(r, s) => LinksTo(r, s)
    /\ \A r \in RowsOf(o) :
        (\A s \in RowsOf(o) : r.seq <= s.seq) => r.seq = 1 /\ r.prev = Genesis

-----------------------------------------------------------------------------
(* Properties.                                                             *)

\* Every variable keeps its type.
TypeOK ==
    /\ \A r \in rows :
        /\ r.org \in Orgs /\ r.entry \in Recorders
        /\ r.seq \in Nat \ {0} /\ r.at \in Nat
    /\ clock \in Nat
    /\ pc \in [Recorders -> Phases]
    /\ seq \in [Recorders -> Nat]
    /\ DOMAIN prev = Recorders
    /\ at \in [Recorders -> Nat]
    /\ \A x \in snapshots : x.org \in Orgs /\ x.seq \in Nat \ {0}
    /\ emptied \subseteq Orgs

\* GET /v1/audit/verify reports ok for an org whose genesis row was never
\* pruned, however its recorders raced and whichever of them failed.
UnprunedChainVerifies ==
    \A o \in Orgs :
        (o \notin emptied /\ \E r \in RowsOf(o) : r.seq = 1) => Verifies(o)

\* Retention cuts a chain, it does not tear it: unless a prune emptied the
\* org, the rows that are left are consecutive, each links to the one before
\* it, and their stamps are in the order of their numbers.
PrunedChainStaysLinked ==
    \A o \in Orgs \ emptied : \A r, s \in RowsOf(o) :
        Follows(r, s) => LinksTo(r, s) /\ r.at <= s.at

\* The tamper check of docs/audit.md raises no false alarm: unless a prune
\* emptied the org, a stored head is found again under its number as long
\* as the chain still reaches down to it.
SnapshotsHold ==
    \A x \in snapshots : \A r \in RowsOf(x.org) :
        (x.org \notin emptied /\ r.seq = x.seq) => r.hash = x.hash

\* The table, with racing requests and hashes left out, keeps the promise of
\* AuditTrail: it grows at its end and is cut from its start.
Trail ==
    INSTANCE AuditTrail WITH
        trail <- {[org |-> r.org, seq |-> r.seq, entry |-> r.entry, at |-> r.at]
                     : r \in rows},
        recorded <- {c \in Recorders : pc[c] = "committed"},
        void <- emptied

RecordsFollowTrail == Trail!Spec

=============================================================================
