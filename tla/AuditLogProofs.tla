--------------------------- MODULE AuditLogProofs ---------------------------
(***************************************************************************)
(* Proofs about AuditLog for any orgs, any number of recorders and any     *)
(* hash function.  The heart is Pending: the row a request is building     *)
(* either continues the chain as it stands, or its number is taken and the *)
(* unique index will refuse it.  At the end the steps that show, commits   *)
(* and prunes, are matched with those of AuditTrail.                       *)
(***************************************************************************)
EXTENDS AuditLog, TLAPS

InFlight(c) == pc[c] \in {"linked", "hashed", "flushed"}

\* The row c is building would extend the chain of its org as it stands.
Fresh(c) ==
    LET o == RecorderOrg[c] IN
    \/ RowsOf(o) = {} /\ seq[c] = 1 /\ prev[c] = Genesis
    \/ \E h \in rows :
        /\ Newest(o, h)
        /\ seq[c] = h.seq + 1 /\ prev[c] = h.hash
        /\ pc[c] # "linked" => h.at <= at[c]

\* The table by itself: numbers are unique, stamps lie in the past.
RowsSound ==
    \A r \in rows :
        /\ HashMatches(r)
        /\ r.at <= clock
        /\ r.seq = 1 => r.prev = Genesis
        /\ \A s \in rows : (r.org = s.org /\ r.seq = s.seq) => r = s

\* Below every row but the lowest of an org stands the row it links to.
Chained ==
    \A r, s \in rows :
        (r.org = s.org /\ r.org \notin emptied /\ r.seq < s.seq) =>
            /\ r.at <= s.at
            /\ \E t \in rows : t.org = s.org /\ LinksTo(t, s)

\* A row in the making has a number.
Numbered == \A c \in Recorders : InFlight(c) => seq[c] >= 1

Typed == TypeOK /\ Numbered

\* A request in flight: its row continues the chain, or will be refused.
Pending(c) ==
    /\ at[c] <= clock
    /\ InFlight(c) =>
        /\ seq[c] = 1 => prev[c] = Genesis
        /\ RecorderOrg[c] \notin emptied => Taken(c) \/ Fresh(c)

\* An inserted row that is not committed yet owns its number.
Owned(c) == pc[c] = "flushed" => ~Taken(c) /\ ~Waits(c)

\* Stored heads: the chain still reaches up to them, and agrees with them.
SnapshotsKept ==
    \A x \in snapshots :
        x.org \notin emptied =>
            /\ \E r \in rows : r.org = x.org /\ x.seq <= r.seq
            /\ \A r \in rows : (r.org = x.org /\ r.seq = x.seq) => r.hash = x.hash

ChainInv ==
    /\ Typed /\ RowsSound /\ Chained /\ SnapshotsKept
    /\ \A c \in Recorders : Pending(c) /\ Owned(c)

-----------------------------------------------------------------------------
(* Type correctness.                                                       *)

\* The empty table and the idle recorders have their types.
LEMMA InitTyped == Init => Typed
  BY AuditLogAssumption DEF Init, Typed, TypeOK, Numbered, InFlight, Phases

\* Every step keeps the types, and the numbers of the rows in the making.
LEMMA NextTyped == Typed /\ [Next]_vars => Typed'
<1> SUFFICES ASSUME Typed, [Next]_vars PROVE Typed'
  OBVIOUS
<1> USE DEF Typed, TypeOK, Numbered, InFlight, Phases
<1>1. ASSUME NEW c \in Recorders, ReadHead(c) PROVE Typed'
  <2>1. PICK n \in Nat \ {0} : seq' = [seq EXCEPT ![c] = n]
    BY <1>1 DEF ReadHead, NextSeq
  <2>2. DOMAIN prev' = Recorders
    BY <1>1 DEF ReadHead
  <2>3. QED  BY <1>1, <2>1, <2>2 DEF ReadHead
<1>2. ASSUME NEW c \in Recorders, Stamp(c) PROVE Typed'
  BY <1>2 DEF Stamp
<1>3. ASSUME NEW c \in Recorders, Flush(c) PROVE Typed'
  BY <1>3 DEF Flush, draftVars
<1>4. ASSUME NEW c \in Recorders, Commit(c) PROVE Typed'
  <2>1. /\ Row(c).org \in Orgs /\ Row(c).entry \in Recorders
        /\ Row(c).seq \in Nat \ {0} /\ Row(c).at \in Nat
    <3>1. RecorderOrg[c] \in Orgs
      BY AuditLogAssumption
    <3>2. seq[c] \in Nat /\ at[c] \in Nat /\ seq[c] >= 1
      BY <1>4 DEF Commit
    <3>3. QED  BY <3>1, <3>2 DEF Row
  <2>2. rows' = rows \cup {Row(c)} /\ pc' = [pc EXCEPT ![c] = "committed"]
        /\ UNCHANGED <<clock, seq, prev, at, snapshots, emptied>>
    BY <1>4 DEF Commit, draftVars
  <2>3. TypeOK'
    BY <2>1, <2>2
  <2>4. Numbered'
    BY <2>2
  <2>5. QED  BY <2>3, <2>4
<1>5. ASSUME NEW c \in Recorders, Abort(c) PROVE Typed'
  BY <1>5 DEF Abort, draftVars
<1>6. CASE Tick
  BY <1>6, AuditLogAssumption DEF Tick, draftVars
<1>7. ASSUME NEW o \in Orgs, Snapshot(o) PROVE Typed'
  <2>1. PICK h \in rows :
            snapshots' =
                snapshots \cup {[org |-> o, seq |-> h.seq, hash |-> h.hash]}
    BY <1>7 DEF Snapshot
  <2>2. QED  BY <1>7, <2>1 DEF Snapshot, draftVars
<1>8. ASSUME NEW o \in Orgs, Prune(o) PROVE Typed'
  <2>1. rows' \subseteq rows /\ emptied' \subseteq Orgs
    BY <1>8 DEF Prune
  <2>2. QED  BY <1>8, <2>1 DEF Prune, draftVars
<1>9. CASE UNCHANGED vars
  BY <1>9 DEF vars, draftVars
<1>10. QED
  BY <1>1, <1>2, <1>3, <1>4, <1>5, <1>6, <1>7, <1>8, <1>9 DEF Next, Recorder

\* Every reachable state of the audit table has the declared types; a
\* committed row is never numbered 0.
THEOREM AuditTypeCorrect == Spec => []TypeOK
<1>1. Typed => TypeOK
  BY DEF Typed
<1>2. QED
  BY <1>1, InitTyped, NextTyped, PTL DEF Spec

-----------------------------------------------------------------------------
(* The steps of a request before its commit: they leave the table alone.   *)

\* What those steps of c have in common.
StepOf(c) ==
    /\ UNCHANGED <<rows, clock, snapshots, emptied>>
    /\ \A d \in Recorders \ {c} :
        /\ pc'[d] = pc[d] /\ seq'[d] = seq[d]
        /\ prev'[d] = prev[d] /\ at'[d] = at[d]
    /\ pc[c] # "flushed"

LEMMA StepOfInv ==
  ASSUME ChainInv, Typed', NEW c \in Recorders, StepOf(c),
         Pending(c)', Owned(c)',
         pc'[c] = "flushed" => \A d \in Recorders \ {c} :
             pc[d] = "flushed" =>
                ~(RecorderOrg[d] = RecorderOrg[c] /\ seq[d] = seq'[c])
  PROVE  ChainInv'
<1>1. RowsSound'
  BY DEF ChainInv, RowsSound, StepOf, HashMatches
<1>2. Chained'
  BY DEF ChainInv, Chained, StepOf, LinksTo
<1>3. SnapshotsKept'
  BY DEF ChainInv, SnapshotsKept, StepOf
<1>4. ASSUME NEW d \in Recorders \ {c} PROVE Pending(d)'
  BY DEF ChainInv, StepOf, Pending, InFlight, Taken, Fresh, Newest, RowsOf
<1>5. ASSUME NEW d \in Recorders \ {c} PROVE Owned(d)'
  BY DEF ChainInv, StepOf, Owned, Taken, Waits, RowsOf
<1>6. QED
  BY <1>1, <1>2, <1>3, <1>4, <1>5 DEF ChainInv

\* The head a request reads makes its row fresh.
LEMMA ReadHeadStep ==
  ASSUME ChainInv, Typed', NEW c \in Recorders, ReadHead(c)
  PROVE  ChainInv'
<1> DEFINE o == RecorderOrg[c]
<1>1. StepOf(c) /\ pc'[c] = "linked" /\ at' = at
  BY DEF ReadHead, StepOf, ChainInv, Typed, TypeOK
<1>2. \/ RowsOf(o) = {} /\ seq'[c] = 1 /\ prev'[c] = Genesis
      \/ \E h \in rows :
            Newest(o, h) /\ seq'[c] = h.seq + 1 /\ prev'[c] = h.hash
  BY DEF ReadHead, NextSeq, ChainInv, Typed, TypeOK
<1>3. Fresh(c)'
  BY <1>1, <1>2 DEF Fresh, RowsOf, Newest, StepOf
<1>4. seq'[c] = 1 => prev'[c] = Genesis
  BY <1>2 DEF Newest, RowsOf, ChainInv, Typed, TypeOK
<1>5. Pending(c)'
  BY <1>1, <1>3, <1>4 DEF Pending, ChainInv, StepOf
<1>6. Owned(c)'
  BY <1>1 DEF Owned
<1>7. QED
  BY <1>1, <1>5, <1>6, StepOfInv

\* The stamp is not before the stamps in the table.
LEMMA StampStep ==
  ASSUME ChainInv, Typed', NEW c \in Recorders, Stamp(c)
  PROVE  ChainInv'
<1>1. /\ StepOf(c) /\ pc[c] = "linked" /\ pc'[c] = "hashed"
      /\ at'[c] = clock /\ seq' = seq /\ prev' = prev
  BY DEF Stamp, StepOf, ChainInv, Typed, TypeOK
<1>2. Fresh(c) => Fresh(c)'
  BY <1>1 DEF Fresh, RowsOf, Newest, StepOf, ChainInv, RowsSound
<1>3. Taken(c) => Taken(c)'
  BY <1>1 DEF Taken, RowsOf, StepOf
<1>4. Pending(c)'
  BY <1>1, <1>2, <1>3 DEF Pending, ChainInv, StepOf, InFlight, Typed, TypeOK
<1>5. Owned(c)'
  BY <1>1 DEF Owned
<1>6. QED
  BY <1>1, <1>4, <1>5, StepOfInv

\* The INSERT takes a free number, or fails.
LEMMA FlushStep ==
  ASSUME ChainInv, Typed', NEW c \in Recorders, Flush(c)
  PROVE  ChainInv'
<1>1. /\ StepOf(c) /\ pc[c] = "hashed" /\ ~Waits(c)
      /\ pc'[c] = IF Taken(c) THEN "aborted" ELSE "flushed"
      /\ at' = at /\ seq' = seq /\ prev' = prev
  BY DEF Flush, StepOf, ChainInv, Typed, TypeOK, draftVars
<1>2. Taken(c)' <=> Taken(c)
  BY <1>1 DEF Taken, RowsOf, StepOf
<1>3. Fresh(c) => Fresh(c)'
  BY <1>1 DEF Fresh, RowsOf, Newest, StepOf
<1>4. Pending(c)'
  BY <1>1, <1>2, <1>3 DEF Pending, ChainInv, StepOf, InFlight
<1>5. Owned(c)'
  BY <1>1, <1>2 DEF Owned, Waits, StepOf
<1>6. QED
  BY <1>1, <1>4, <1>5, StepOfInv DEF Waits

\* A request that fails lets go of its number.
LEMMA AbortStep ==
  ASSUME ChainInv, Typed', NEW c \in Recorders, Abort(c)
  PROVE  ChainInv'
<1> USE DEF ChainInv
<1>1. /\ pc' = [pc EXCEPT ![c] = "aborted"]
      /\ UNCHANGED <<rows, clock, seq, prev, at, snapshots, emptied>>
  BY DEF Abort, draftVars
<1>2. /\ pc'[c] = "aborted"
      /\ \A d \in Recorders \ {c} : pc'[d] = pc[d]
  BY <1>1 DEF Typed, TypeOK
<1>3. RowsSound' /\ Chained' /\ SnapshotsKept'
  BY <1>1 DEF RowsSound, Chained, SnapshotsKept, HashMatches, LinksTo
<1>4. ASSUME NEW d \in Recorders PROVE Pending(d)'
  BY <1>1, <1>2 DEF Pending, InFlight, Taken, Fresh, Newest, RowsOf
<1>5. ASSUME NEW d \in Recorders PROVE Owned(d)'
  BY <1>1, <1>2 DEF Owned, Taken, Waits, RowsOf
<1>6. QED
  BY <1>3, <1>4, <1>5

-----------------------------------------------------------------------------
(* The commit.                                                             *)

\* A fresh row stands above every row of its org, and links to the highest.
LEMMA FreshIsTop ==
  ASSUME ChainInv, NEW c \in Recorders, pc[c] = "flushed",
         RecorderOrg[c] \notin emptied, NEW r \in RowsOf(RecorderOrg[c])
  PROVE  /\ r.seq < seq[c] /\ r.at <= at[c]
         /\ \E t \in RowsOf(RecorderOrg[c]) : LinksTo(t, Row(c))
<1> DEFINE o == RecorderOrg[c]
<1>1. Fresh(c)
  BY DEF ChainInv, Pending, Owned, InFlight
<1>2. PICK h \in rows :
        Newest(o, h) /\ seq[c] = h.seq + 1 /\ prev[c] = h.hash /\ h.at <= at[c]
  BY <1>1 DEF Fresh
<1>3. h \in RowsOf(o) /\ r.seq <= h.seq
  BY <1>2 DEF Newest
<1>4. /\ r.seq \in Nat /\ h.seq \in Nat /\ seq[c] \in Nat
      /\ r.at \in Nat /\ h.at \in Nat /\ at[c] \in Nat
  BY <1>3 DEF RowsOf, ChainInv, Typed, TypeOK
<1>5. r.at <= h.at
  <2>1. CASE r.seq < h.seq
    BY <1>3, <2>1 DEF RowsOf, ChainInv, Chained
  <2>2. CASE r.seq = h.seq
    BY <1>3, <1>4, <2>2 DEF RowsOf, ChainInv, RowsSound
  <2>3. QED  BY <1>3, <1>4, <2>1, <2>2
<1>6. LinksTo(h, Row(c))
  BY <1>2 DEF LinksTo, Row
<1>7. QED
  BY <1>2, <1>3, <1>4, <1>5, <1>6

\* A commit extends the chain of a fresh row, and takes its number from the
\* others who read the same head.
LEMMA CommitStep ==
  ASSUME ChainInv, Typed', NEW c \in Recorders, Commit(c)
  PROVE  ChainInv'
<1> USE DEF ChainInv
<1> DEFINE o == RecorderOrg[c]
           n == Row(c)
<1>1. /\ pc[c] = "flushed" /\ rows' = rows \cup {n}
      /\ pc' = [pc EXCEPT ![c] = "committed"]
      /\ UNCHANGED <<clock, seq, prev, at, snapshots, emptied>>
  BY DEF Commit, draftVars
<1>2. /\ n.org = o /\ n.seq = seq[c] /\ n.at = at[c] /\ n.prev = prev[c]
      /\ HashMatches(n)
  BY DEF Row, HashMatches
<1>3. /\ pc'[c] = "committed"
      /\ \A d \in Recorders \ {c} : pc'[d] = pc[d]
  BY <1>1 DEF Typed, TypeOK
<1>4. /\ ~Taken(c) /\ ~Waits(c)
      /\ at[c] <= clock /\ (seq[c] = 1 => prev[c] = Genesis)
  BY <1>1 DEF Owned, Pending, InFlight
<1>5. RowsSound'
  <2>1. \A r \in rows : ~(r.org = n.org /\ r.seq = n.seq)
    BY <1>2, <1>4 DEF Taken, RowsOf
  <2>2. \A r \in rows : HashMatches(r)' <=> HashMatches(r)
    BY DEF HashMatches
  <2>3. HashMatches(n)'
    BY <1>1, <1>2 DEF HashMatches, Row
  <2>4. QED
    BY <1>1, <1>2, <1>4, <2>1, <2>2, <2>3 DEF RowsSound, HashMatches
<1>6. ASSUME o \notin emptied, NEW r \in rows, r.org = o
      PROVE  /\ r.seq < n.seq /\ r.at <= n.at
             /\ \E t \in rows : t.org = o /\ LinksTo(t, n)
  <2>1. r \in RowsOf(RecorderOrg[c])
    BY <1>6 DEF RowsOf
  <2>2. QED
    BY <1>1, <1>2, <1>6, <2>1, FreshIsTop DEF RowsOf
<1>7. Chained'
  <2>1. SUFFICES ASSUME NEW r \in rows', NEW s \in rows', r.org = s.org,
                        r.org \notin emptied', r.seq < s.seq
                 PROVE  /\ r.at <= s.at
                        /\ \E t \in rows' : t.org = s.org /\ LinksTo(t, s)
    BY DEF Chained, LinksTo
  <2>2. CASE r \in rows /\ s \in rows
    BY <1>1, <2>1, <2>2 DEF Chained
  <2>3. CASE r \in rows /\ s = n
    BY <1>1, <1>2, <1>6, <2>1, <2>3
  <2>4. CASE r = n /\ s \in rows
    <3>1. s.seq < n.seq
      BY <1>1, <1>2, <1>6, <2>1, <2>4
    <3>2. s.seq \in Nat /\ n.seq \in Nat
      BY <1>2, <2>4 DEF Typed, TypeOK
    <3>3. QED  BY <2>1, <2>4, <3>1, <3>2
  <2>5. CASE r = n /\ s = n
    <3>1. n.seq \in Nat
      BY <1>2 DEF Typed, TypeOK
    <3>2. QED  BY <2>1, <2>5, <3>1
  <2>6. QED  BY <1>1, <2>2, <2>3, <2>4, <2>5
<1>8. SnapshotsKept'
  <2>1. SUFFICES ASSUME NEW x \in snapshots, x.org \notin emptied
                 PROVE  /\ \E r \in rows' : r.org = x.org /\ x.seq <= r.seq
                        /\ \A r \in rows' :
                            (r.org = x.org /\ r.seq = x.seq) => r.hash = x.hash
    BY <1>1 DEF SnapshotsKept
  <2>2. PICK s \in rows : s.org = x.org /\ x.seq <= s.seq
    BY <2>1 DEF SnapshotsKept
  <2>3. ASSUME x.org = o PROVE n.seq # x.seq
    <3>1. s.seq < n.seq
      BY <1>6, <2>1, <2>2, <2>3
    <3>2. s.seq \in Nat /\ n.seq \in Nat /\ x.seq \in Nat
      BY <1>2 DEF Typed, TypeOK
    <3>3. QED  BY <2>2, <3>1, <3>2
  <2>4. QED  BY <1>1, <1>2, <2>1, <2>2, <2>3 DEF SnapshotsKept
<1>9. ASSUME NEW d \in Recorders \ {c} PROVE Pending(d)' /\ Owned(d)'
  <2>1. ASSUME RecorderOrg[d] # o
        PROVE  /\ RowsOf(RecorderOrg[d])' = RowsOf(RecorderOrg[d])
               /\ Fresh(d) => Fresh(d)'
    <3>1. RowsOf(RecorderOrg[d])' = RowsOf(RecorderOrg[d])
      BY <1>1, <1>2, <2>1 DEF RowsOf
    <3>2. ASSUME NEW h, Newest(RecorderOrg[d], h)
          PROVE  Newest(RecorderOrg[d], h)'
      BY <3>1, <3>2 DEF Newest
    <3>3. QED  BY <1>1, <1>3, <3>1, <3>2 DEF Fresh
  <2>2. Taken(d) => Taken(d)'
    BY <1>1 DEF Taken, RowsOf
  <2>3. ASSUME RecorderOrg[d] = o, o \notin emptied, Fresh(d) PROVE Taken(d)'
    <3>1. Fresh(c)
      BY <1>1, <1>4, <2>3 DEF Pending, InFlight
    <3>2. seq[d] = seq[c]
      BY <2>3, <3>1 DEF Fresh, Newest, RowsOf, Typed, TypeOK
    <3>3. QED  BY <1>1, <1>2, <2>3, <3>2 DEF Taken, RowsOf
  <2>4. Pending(d)'
    BY <1>1, <1>3, <2>1, <2>2, <2>3 DEF Pending, InFlight
  <2>5. ASSUME pc[d] = "flushed" PROVE ~Taken(d)'
    <3>1. ~(RecorderOrg[d] = o /\ seq[d] = seq[c])
      BY <1>1, <1>4, <2>5 DEF Waits
    <3>2. ~Taken(d)
      BY <2>5 DEF Owned
    <3>3. QED  BY <1>1, <1>2, <3>1, <3>2 DEF Taken, RowsOf
  <2>6. ASSUME pc[d] = "flushed" PROVE ~Waits(d)'
    BY <1>1, <1>3, <2>6 DEF Owned, Waits
  <2>7. QED  BY <1>3, <2>4, <2>5, <2>6 DEF Owned
<1>10. Pending(c)' /\ Owned(c)'
  BY <1>1, <1>3, <1>4 DEF Pending, InFlight, Owned
<1>11. QED
  BY <1>5, <1>7, <1>8, <1>9, <1>10

-----------------------------------------------------------------------------
(* The clock, the operators and the retention job.                         *)

LEMMA TickStep ==
  ASSUME ChainInv, Typed', Tick
  PROVE  ChainInv'
<1> USE DEF ChainInv
<1>1. /\ clock' = clock + 1 /\ clock \in Nat
      /\ UNCHANGED <<rows, pc, seq, prev, at, snapshots, emptied>>
  BY DEF Tick, draftVars, Typed, TypeOK
<1>2. RowsSound'
  BY <1>1 DEF RowsSound, HashMatches, Typed, TypeOK
<1>3. Chained' /\ SnapshotsKept'
  BY <1>1 DEF Chained, LinksTo, SnapshotsKept
<1>4. ASSUME NEW d \in Recorders PROVE Pending(d)'
  BY <1>1 DEF Pending, InFlight, Taken, Fresh, Newest, RowsOf, Typed, TypeOK
<1>5. ASSUME NEW d \in Recorders PROVE Owned(d)'
  BY <1>1 DEF Owned, Taken, Waits, RowsOf
<1>6. QED  BY <1>2, <1>3, <1>4, <1>5

\* A stored head is a row of the table.
LEMMA SnapshotStep ==
  ASSUME ChainInv, Typed', NEW o \in Orgs, Snapshot(o)
  PROVE  ChainInv'
<1> USE DEF ChainInv
<1>1. PICK h \in rows :
        /\ Newest(o, h)
        /\ snapshots' =
            snapshots \cup {[org |-> o, seq |-> h.seq, hash |-> h.hash]}
  BY DEF Snapshot
<1>2. UNCHANGED <<rows, clock, pc, seq, prev, at, emptied>>
  BY DEF Snapshot, draftVars
<1>3. h.org = o /\ h.seq \in Nat
      /\ \A r \in rows : (r.org = o /\ r.seq = h.seq) => r = h
  BY <1>1 DEF Newest, RowsOf, RowsSound, Typed, TypeOK
<1>4. SnapshotsKept'
  BY <1>1, <1>2, <1>3 DEF SnapshotsKept
<1>5. RowsSound' /\ Chained'
  BY <1>2 DEF RowsSound, HashMatches, Chained, LinksTo
<1>6. ASSUME NEW d \in Recorders PROVE Pending(d)' /\ Owned(d)'
  BY <1>2
  DEF Pending, InFlight, Taken, Fresh, Newest, RowsOf, Owned, Waits
<1>7. QED  BY <1>4, <1>5, <1>6

\* Stamps follow numbers, so retention removes the low end of a chain.
LEMMA PruneStep ==
  ASSUME ChainInv, Typed', NEW o \in Orgs, Prune(o)
  PROVE  ChainInv'
<1> USE DEF ChainInv
<1>1. PICK cutoff \in 1..clock :
        LET gone == {r \in RowsOf(o) : Expired(r, cutoff)} IN
        /\ gone # {}
        /\ OutlivesRequests(o, gone)
        /\ rows' = rows \ gone
        /\ emptied' = IF gone = RowsOf(o) THEN emptied \cup {o} ELSE emptied
  BY DEF Prune
<1> DEFINE gone == {r \in RowsOf(o) : Expired(r, cutoff)}
<1>2. UNCHANGED <<clock, pc, seq, prev, at, snapshots>>
  BY DEF Prune, draftVars
<1>3. /\ rows' = rows \ gone /\ emptied \subseteq emptied'
      /\ \A r \in gone : r \in rows /\ r.org = o /\ r.at < cutoff
      /\ \A r \in rows' : r \in rows /\ (r.org = o => ~(r.at < cutoff))
  BY <1>1 DEF RowsOf, Expired
<1>4. cutoff \in Nat /\ \A r \in rows : r.at \in Nat /\ r.seq \in Nat
  BY <1>1 DEF Typed, TypeOK
<1>5. RowsSound'
  BY <1>2, <1>3 DEF RowsSound, HashMatches
<1>6. ASSUME o \notin emptied'
      PROVE  /\ \E s \in rows' : s.org = o
             /\ \A r \in gone, s \in rows' : s.org = o => r.seq < s.seq
  <2>1. gone # RowsOf(o) /\ o \notin emptied
    BY <1>1, <1>6
  <2>2. \E s \in rows' : s.org = o
    BY <1>3, <2>1 DEF RowsOf
  <2>3. ASSUME NEW r \in gone, NEW s \in rows', s.org = o PROVE r.seq < s.seq
    <3>1. /\ r \in rows /\ s \in rows /\ r.org = o
          /\ r.at < cutoff /\ ~(s.at < cutoff)
      BY <1>3, <2>3
    <3>2. ~(s.seq < r.seq)
      <4>1. s.seq < r.seq => s.at <= r.at
        BY <2>1, <2>3, <3>1 DEF Chained
      <4>2. QED  BY <1>4, <3>1, <4>1
    <3>3. r.seq # s.seq
      <4>1. r.seq = s.seq => r = s
        BY <2>3, <3>1 DEF RowsSound
      <4>2. QED  BY <3>1, <4>1
    <3>4. QED  BY <1>4, <3>1, <3>2, <3>3
  <2>4. QED  BY <2>2, <2>3
<1>7. Chained'
  <2>1. SUFFICES ASSUME NEW r \in rows', NEW s \in rows', r.org = s.org,
                        r.org \notin emptied', r.seq < s.seq
                 PROVE  /\ r.at <= s.at
                        /\ \E t \in rows' : t.org = s.org /\ LinksTo(t, s)
    BY DEF Chained, LinksTo
  <2>2. r \in rows /\ s \in rows /\ r.org \notin emptied
    BY <1>3, <2>1
  <2>3. r.at <= s.at
    BY <2>1, <2>2 DEF Chained
  <2>4. PICK t \in rows : t.org = s.org /\ LinksTo(t, s)
    BY <2>1, <2>2 DEF Chained
  <2>5. r.seq <= t.seq
    BY <1>4, <2>1, <2>2, <2>4 DEF LinksTo
  <2>6. t \notin gone
    <3>1. ASSUME t \in gone PROVE FALSE
      <4>1. r.org = o /\ o \notin emptied'
        BY <1>3, <2>1, <2>4, <3>1
      <4>2. t.seq < r.seq
        BY <1>6, <2>1, <3>1, <4>1
      <4>3. QED  BY <1>4, <2>2, <2>5, <4>2
    <3>2. QED  BY <3>1
  <2>7. QED  BY <1>3, <2>3, <2>4, <2>6
<1>8. SnapshotsKept'
  <2>1. SUFFICES ASSUME NEW x \in snapshots, x.org \notin emptied'
                 PROVE  /\ \E r \in rows' : r.org = x.org /\ x.seq <= r.seq
                        /\ \A r \in rows' :
                            (r.org = x.org /\ r.seq = x.seq) => r.hash = x.hash
    BY <1>2 DEF SnapshotsKept
  <2>2. x.org \notin emptied /\ x.seq \in Nat
    BY <1>3, <2>1 DEF Typed, TypeOK
  <2>3. PICK r \in rows : r.org = x.org /\ x.seq <= r.seq
    BY <2>2 DEF SnapshotsKept
  <2>4. \E s \in rows' : s.org = x.org /\ x.seq <= s.seq
    <3>1. CASE r \in rows'
      BY <2>3, <3>1
    <3>2. CASE r \in gone
      <4>1. x.org = o /\ o \notin emptied'
        BY <1>3, <2>1, <2>3, <3>2
      <4>2. PICK s \in rows' : s.org = o /\ r.seq < s.seq
        BY <1>6, <3>2, <4>1
      <4>3. s.seq \in Nat /\ r.seq \in Nat
        BY <1>3, <1>4
      <4>4. QED  BY <2>2, <2>3, <4>1, <4>2, <4>3
    <3>3. QED  BY <1>3, <3>1, <3>2
  <2>5. QED  BY <1>3, <2>2, <2>4 DEF SnapshotsKept
<1>9. ASSUME NEW d \in Recorders PROVE Pending(d)' /\ Owned(d)'
  <2> DEFINE p == RecorderOrg[d]
  <2>1. ASSUME InFlight(d), Taken(d) PROVE Taken(d)'
    <3>1. PICK r \in rows : r.org = p /\ r.seq = seq[d]
      BY <2>1 DEF Taken, RowsOf
    <3>2. r \notin gone
      BY <1>1, <1>3, <1>4, <2>1, <3>1 DEF OutlivesRequests, InFlight
    <3>3. QED  BY <1>2, <1>3, <3>1, <3>2 DEF Taken, RowsOf
  <2>2. ASSUME Fresh(d), p \notin emptied' PROVE Fresh(d)'
    <3>1. CASE RowsOf(p) = {}
      <4>1. seq[d] = 1 /\ prev[d] = Genesis
        BY <2>2, <3>1 DEF Fresh, Newest
      <4>2. RowsOf(p)' = {}
        BY <1>3, <3>1 DEF RowsOf
      <4>3. QED  BY <1>2, <4>1, <4>2 DEF Fresh
    <3>2. CASE RowsOf(p) # {}
      <4>1. PICK h \in rows :
                /\ Newest(p, h)
                /\ seq[d] = h.seq + 1 /\ prev[d] = h.hash
                /\ pc[d] # "linked" => h.at <= at[d]
        BY <2>2, <3>2 DEF Fresh
      <4>2. h \notin gone
        <5>1. ASSUME h \in gone PROVE FALSE
          <6>1. p = o /\ o \notin emptied'
            BY <1>3, <2>2, <4>1, <5>1 DEF Newest, RowsOf
          <6>2. PICK s \in rows' : s.org = o /\ h.seq < s.seq
            BY <1>6, <5>1, <6>1
          <6>3. s.seq <= h.seq
            BY <1>3, <4>1, <6>1, <6>2 DEF Newest, RowsOf
          <6>4. QED  BY <1>3, <1>4, <6>2, <6>3
        <5>2. QED  BY <5>1
      <4>3. h \in rows' /\ Newest(p, h)'
        BY <1>3, <4>1, <4>2 DEF Newest, RowsOf
      <4>4. QED  BY <1>2, <4>1, <4>3 DEF Fresh
    <3>3. QED  BY <3>1, <3>2
  <2>3. Pending(d)'
    BY <1>2, <1>3, <2>1, <2>2 DEF Pending, InFlight
  <2>4. Taken(d)' => Taken(d)
    BY <1>2, <1>3 DEF Taken, RowsOf
  <2>5. Owned(d)'
    BY <1>2, <2>4 DEF Owned, Waits
  <2>6. QED  BY <2>3, <2>5
<1>10. QED  BY <1>5, <1>7, <1>8, <1>9

-----------------------------------------------------------------------------
(* The theorems.                                                           *)

LEMMA InitChain == Init => ChainInv
  BY InitTyped
  DEF Init, ChainInv, RowsSound, Chained, SnapshotsKept, Pending, InFlight,
      Owned, Typed, TypeOK

LEMMA NextChain == ChainInv /\ [Next]_vars => ChainInv'
<1> SUFFICES ASSUME ChainInv, [Next]_vars PROVE ChainInv'
  OBVIOUS
<1>1. Typed'
  BY NextTyped DEF ChainInv
<1>2. ASSUME NEW c \in Recorders, Recorder(c) PROVE ChainInv'
  BY <1>1, <1>2, ReadHeadStep, StampStep, FlushStep, CommitStep, AbortStep
  DEF Recorder
<1>3. CASE Tick
  BY <1>1, <1>3, TickStep
<1>4. ASSUME NEW o \in Orgs, Snapshot(o) \/ Prune(o) PROVE ChainInv'
  BY <1>1, <1>4, SnapshotStep, PruneStep
<1>5. CASE UNCHANGED vars
  BY <1>1, <1>5
  DEF vars, draftVars, ChainInv, RowsSound, HashMatches, Chained, LinksTo,
      SnapshotsKept, Pending, InFlight, Taken, Fresh, Newest, RowsOf, Owned,
      Waits
<1>6. QED
  BY <1>2, <1>3, <1>4, <1>5 DEF Next

LEMMA ChainReachable == Spec => []ChainInv
  BY InitChain, NextChain, PTL DEF Spec

\* Adjacent rows of an org that was never emptied are linked.
LEMMA AdjacentRowsLink ==
  ASSUME ChainInv, NEW r \in rows, NEW s \in rows,
         r.org \notin emptied, Follows(r, s)
  PROVE  LinksTo(r, s) /\ r.at <= s.at
<1>1. r.org = s.org /\ r.seq < s.seq
  BY DEF Follows
<1>2. PICK t \in rows : t.org = s.org /\ LinksTo(t, s)
  BY <1>1 DEF ChainInv, Chained
<1>3. r.seq \in Nat /\ s.seq \in Nat /\ t.seq \in Nat /\ s.seq = t.seq + 1
  BY <1>2 DEF ChainInv, Typed, TypeOK, LinksTo
<1>4. ~(r.seq < t.seq)
  BY <1>1, <1>2, <1>3 DEF Follows
<1>5. r.seq = t.seq
  BY <1>1, <1>3, <1>4
<1>6. r = t
  BY <1>1, <1>2, <1>5 DEF ChainInv, RowsSound
<1>7. QED
  BY <1>1, <1>2, <1>6 DEF ChainInv, Chained

\* GET /v1/audit/verify reports ok for every org whose genesis row is still
\* there, for any number of racing and failing requests.
THEOREM ChainVerifies == Spec => []UnprunedChainVerifies
<1>1. ChainInv => UnprunedChainVerifies
  <2>1. SUFFICES ASSUME ChainInv, NEW o \in Orgs, o \notin emptied,
                        NEW g \in RowsOf(o), g.seq = 1
                 PROVE  Verifies(o)
    BY DEF UnprunedChainVerifies
  <2>2. \A r \in RowsOf(o) : r \in rows /\ r.org = o /\ HashMatches(r)
    BY <2>1 DEF RowsOf, ChainInv, RowsSound
  <2>3. \A r, s \in RowsOf(o) : Follows(r, s) => LinksTo(r, s)
    BY <2>1, <2>2, AdjacentRowsLink
  <2>4. ASSUME NEW r \in RowsOf(o), \A s \in RowsOf(o) : r.seq <= s.seq
        PROVE  r.seq = 1 /\ r.prev = Genesis
    <3>1. r.seq <= 1 /\ r.seq \in Nat \ {0}
      BY <2>1, <2>2, <2>4 DEF ChainInv, Typed, TypeOK
    <3>2. r.seq = 1
      BY <3>1
    <3>3. QED  BY <2>1, <2>2, <3>2 DEF ChainInv, RowsSound
  <2>5. QED  BY <2>2, <2>3, <2>4 DEF Verifies
<1>2. QED
  BY <1>1, ChainReachable, PTL

\* Retention leaves one linked stretch of the chain, stamped in order.
THEOREM RetentionCutsNotTears == Spec => []PrunedChainStaysLinked
<1>1. ChainInv => PrunedChainStaysLinked
  BY AdjacentRowsLink DEF PrunedChainStaysLinked, RowsOf
<1>2. QED
  BY <1>1, ChainReachable, PTL

\* A head stored outside the database is never contradicted by the chain,
\* unless a prune emptied the org.
THEOREM StoredHeadsHold == Spec => []SnapshotsHold
<1>1. ChainInv => SnapshotsHold
  BY DEF ChainInv, SnapshotsKept, SnapshotsHold, RowsOf
<1>2. QED
  BY <1>1, ChainReachable, PTL

-----------------------------------------------------------------------------
(* The refinement of AuditTrail: a commit adds at the end, a prune cuts at *)
(* the start, and no other step shows.                                     *)

Entry(r) == [org |-> r.org, seq |-> r.seq, entry |-> r.entry, at |-> r.at]

Entries == {Entry(r) : r \in rows}

Recorded == {c \in Recorders : pc[c] = "committed"}

\* A step in the eyes of AuditTrail: one of its own, or none.
Promised == [Trail!Next]_(Trail!auditTrail)

LEMMA EntriesOfOrg ==
  \A o : Trail!TrailOf(o) = {Entry(r) : r \in RowsOf(o)}
BY DEF Trail!TrailOf, RowsOf, Entry

\* Only a commit makes an entry.
LEMMA Unseen ==
  ASSUME ChainInv, UNCHANGED <<rows, emptied>>,
         \/ pc' = pc
         \/ \E c \in Recorders, phase \in Phases \ {"committed"} :
                pc[c] # "committed" /\ pc' = [pc EXCEPT ![c] = phase]
  PROVE  Promised
<1>1. Recorded' = Recorded
  BY DEF Recorded, ChainInv, Typed, TypeOK
<1>2. QED  BY <1>1 DEF Promised, Trail!auditTrail, Recorded

LEMMA CommitRecords ==
  ASSUME ChainInv, NEW c \in Recorders, Commit(c)
  PROVE  Trail!Record(c)
<1> DEFINE o == RecorderOrg[c]
           n == Row(c)
           e == Entry(n)
<1>1. /\ pc[c] = "flushed" /\ rows' = rows \cup {n}
      /\ pc' = [pc EXCEPT ![c] = "committed"] /\ emptied' = emptied
  BY DEF Commit
<1>2. /\ e.org = o /\ e.entry = c /\ e.seq = seq[c] /\ e.at = at[c]
  BY DEF Entry, Row
<1>3. c \notin Recorded /\ Recorded' = Recorded \cup {c}
  BY <1>1 DEF Recorded, ChainInv, Typed, TypeOK
<1>4. e \in Entries' /\ Entries' = Entries \cup {e}
  BY <1>1 DEF Entries
<1>5. \A d \in Trail!TrailOf(o) : d.seq # seq[c]
  BY <1>1, EntriesOfOrg DEF ChainInv, Owned, Taken, Entry
<1>6. ASSUME o \notin emptied
      PROVE  Trail!Continues(e)
  <2>1. CASE RowsOf(o) = {}
    <3>1. seq[c] = 1
      BY <1>1, <1>6, <2>1 DEF ChainInv, Pending, InFlight, Owned, Fresh, Newest
    <3>2. Trail!TrailOf(o) = {}
      BY <2>1, EntriesOfOrg
    <3>3. QED  BY <1>2, <3>1, <3>2 DEF Trail!Continues
  <2>2. CASE RowsOf(o) # {}
    <3>1. \A r \in RowsOf(o) : r.seq < seq[c] /\ r.at <= at[c]
      BY <1>1, <1>6, FreshIsTop
    <3>2. \E r \in RowsOf(o) : seq[c] = r.seq + 1
      BY <1>1, <1>6, <2>2, FreshIsTop DEF LinksTo, Row
    <3>3. \A d \in Trail!TrailOf(o) : \E r \in RowsOf(o) : d = Entry(r)
      BY EntriesOfOrg
    <3>4. \A r \in RowsOf(o) : Entry(r) \in Trail!TrailOf(o)
      BY EntriesOfOrg
    <3>5. \A r : Entry(r).seq = r.seq /\ Entry(r).at = r.at
      BY DEF Entry
    <3>6. \A d \in Trail!TrailOf(o) : d.seq < seq[c] /\ d.at <= at[c]
      BY <3>1, <3>3, <3>5
    <3>7. \E d \in Trail!TrailOf(o) : seq[c] = d.seq + 1
      BY <3>2, <3>4, <3>5
    <3>8. QED  BY <1>2, <3>6, <3>7 DEF Trail!Continues
  <2>3. QED  BY <2>1, <2>2
<1> HIDE DEF e
<1>7. QED
  BY <1>1, <1>2, <1>3, <1>4, <1>5, <1>6 DEF Trail!Record, Entries, Entry, Recorded

LEMMA PruneCuts ==
  ASSUME ChainInv, NEW o \in Orgs, Prune(o)
  PROVE  Trail!Cut(o)
<1>1. PICK cutoff \in 1..clock :
        LET gone == {r \in RowsOf(o) : Expired(r, cutoff)} IN
        /\ gone # {}
        /\ rows' = rows \ gone
        /\ emptied' = IF gone = RowsOf(o) THEN emptied \cup {o} ELSE emptied
  BY DEF Prune
<1> DEFINE gone == {r \in RowsOf(o) : Expired(r, cutoff)}
           cut == {Entry(r) : r \in gone}
           kept == RowsOf(o) \ gone
<1>2. /\ gone # {} /\ rows' = rows \ gone /\ pc' = pc
      /\ emptied' = IF gone = RowsOf(o) THEN emptied \cup {o} ELSE emptied
  BY <1>1 DEF Prune
<1>3. /\ cutoff \in Nat /\ \A r \in rows : r.at \in Nat /\ r.seq \in Nat
      /\ \A r \in gone : r \in rows /\ r.org = o /\ r.at < cutoff
      /\ \A r \in kept : r \in rows /\ r.org = o /\ ~(r.at < cutoff)
      /\ \A r \in rows \ gone : r.org = o => ~(r.at < cutoff)
  BY <1>1 DEF RowsOf, Expired, ChainInv, Typed, TypeOK
<1>4. \A r \in gone, s \in kept :
        r.at < s.at /\ (o \notin emptied => r.seq < s.seq)
  <2> SUFFICES ASSUME NEW r \in gone, NEW s \in kept
               PROVE  r.at < s.at /\ (o \notin emptied => r.seq < s.seq)
    OBVIOUS
  <2>1. r.at < s.at
    BY <1>3
  <2>2. ASSUME o \notin emptied PROVE r.seq < s.seq
    <3>1. r \in rows /\ s \in rows /\ r.org = s.org /\ r.org \notin emptied
      BY <1>3, <2>2
    <3>2. ~(s.seq < r.seq)
      BY <1>3, <2>1, <3>1 DEF ChainInv, Chained
    <3>3. r.seq # s.seq
      BY <1>3, <2>1, <3>1 DEF ChainInv, RowsSound
    <3>4. QED  BY <1>3, <3>1, <3>2, <3>3
  <2>3. QED  BY <2>1, <2>2
<1> HIDE DEF gone
<1>5. /\ \A r : Entry(r).org = r.org /\ Entry(r).seq = r.seq /\ Entry(r).at = r.at
  BY DEF Entry
<1>6. gone \subseteq RowsOf(o) /\ RowsOf(o) \subseteq rows
  BY DEF gone, RowsOf
<1>7. /\ cut # {} /\ cut \subseteq Trail!TrailOf(o)
      /\ \A d \in Trail!TrailOf(o) \ cut : \E s \in kept : d = Entry(s)
  BY <1>2, <1>6, EntriesOfOrg
<1>8. \A s \in rows \ gone : Entry(s) \notin cut
  <2> SUFFICES ASSUME NEW s \in rows \ gone, NEW r \in gone, Entry(s) = Entry(r)
               PROVE  FALSE
    OBVIOUS
  <2>1. s.org = r.org /\ s.at = r.at
    BY <1>5
  <2>2. QED  BY <1>3, <2>1
<1>9. Entries' = Entries \ cut
  BY <1>2, <1>6, <1>8 DEF Entries
<1>10. cut = Trail!TrailOf(o) <=> gone = RowsOf(o)
  <2>1. ASSUME NEW s \in kept PROVE Entry(s) \in Trail!TrailOf(o) \ cut
    BY <1>6, <1>8, <2>1, EntriesOfOrg
  <2>2. QED  BY <1>6, <2>1, EntriesOfOrg
<1>11. \A e \in cut : \A d \in Trail!TrailOf(o) \ cut :
            e.at < d.at /\ (o \notin emptied => e.seq < d.seq)
  BY <1>4, <1>5, <1>7
<1>12. emptied' = IF cut = Trail!TrailOf(o) THEN emptied \cup {o} ELSE emptied
  BY <1>2, <1>10
<1> HIDE DEF cut, kept
<1>13. QED
  BY <1>2, <1>7, <1>9, <1>11, <1>12 DEF Trail!Cut, Entries, Entry

LEMMA StepSeen == ChainInv /\ [Next]_vars => Promised
<1> SUFFICES ASSUME ChainInv, [Next]_vars PROVE Promised
  OBVIOUS
<1>1. ASSUME NEW c \in Recorders, Commit(c) PROVE Promised
  BY <1>1, CommitRecords DEF Promised, Trail!Next
<1>2. ASSUME NEW o \in Orgs, Prune(o) PROVE Promised
  BY <1>2, PruneCuts DEF Promised, Trail!Next
<1>3. ASSUME NEW c \in Recorders, ReadHead(c) \/ Stamp(c) \/ Flush(c) \/ Abort(c)
      PROVE  Promised
  BY <1>3, Unseen DEF ReadHead, Stamp, Flush, Abort, Phases
<1>4. ASSUME NEW o \in Orgs, Snapshot(o) PROVE Promised
  BY <1>4, Unseen DEF Snapshot
<1>5. CASE Tick \/ UNCHANGED vars
  BY <1>5, Unseen DEF Tick, vars
<1>6. QED
  BY <1>1, <1>2, <1>3, <1>4, <1>5 DEF Next, Recorder

\* RecordsFollowTrail: however requests race, wait and fail, the table of
\* audit entries grows at its end, in order, and is cut from its start.
THEOREM RecordsKeepTheTrail == Spec => RecordsFollowTrail
<1>1. Init => Trail!Init
  BY DEF Init, Trail!Init
<1>2. QED
  BY <1>1, ChainReachable, StepSeen, PTL
  DEF Spec, RecordsFollowTrail, Trail!Spec, Promised

=============================================================================
