-------------------------- MODULE RunSubmitProofs --------------------------
(***************************************************************************)
(* Proofs about RunSubmit, for any number of requests, orgs and keys and   *)
(* any cap.  The invariants say what the three unique indexes are for: the *)
(* one on (org, key) covers the committed and the uncommitted rows         *)
(* together, and the one on (org, seq) lets a single entry of an org be in *)
(* flight at the end of its chain.  From them follows that each request    *)
(* is handled as in Submissions, in one step: its commit.                  *)
(***************************************************************************)
EXTENDS RunSubmit, FiniteSetTheorems, TLAPS

\* The phases in which a request may hold the placeholder.
Holding == {"check", "lookup", "insert", "inserted", "linked", "flushed"}

\* The entry a request builds has a number from 1 on.
SeqSet == \A q \in Requests : pc[q] \in {"linked", "flushed"} => seq[q] # 0

-----------------------------------------------------------------------------
(* Type correctness.                                                       *)

\* A request that goes on keeps the types, if it stays in a phase that may
\* hold the placeholder or holds none.
LEMMA ProceedTypeOK ==
  ASSUME TypeOK, NEW q \in Requests, NEW phase \in Phases,
         Proceed(q, phase), q \in placeholder => phase \in Holding
  PROVE  TypeOK'
  BY DEF Proceed, Goto, stored, TypeOK, Holding

\* An answer keeps the types.
LEMMA AnswerTypeOK ==
  ASSUME TypeOK, NEW q \in Requests, NEW status \in Codes,
         NEW run \in Requests \cup {NoRun}, Answer(q, status, run)
  PROVE  TypeOK'
  BY DEF Answer, Goto, RolledBack, stored, TypeOK, Phases

\* The steps up to the key lookup keep the types.
LEMMA CheckTypeOK ==
  ASSUME TypeOK, NEW q \in Requests,
         Begin(q) \/ ReadSubscription(q) \/ Materialize(q) \/ CheckCap(q)
                  \/ LookupKey(q)
  PROVE  TypeOK'
<1>1. /\ {"begun", "check", "materialize", "lookup", "insert"} \subseteq Phases
      /\ {"402", "500", "202"} \subseteq Codes
  BY DEF Phases, Codes
<1>2. CASE Begin(q)
  <2>1. q \notin placeholder /\ Proceed(q, "begun")
    BY <1>2 DEF Begin, TypeOK
  <2>2. QED  BY <1>1, <2>1, ProceedTypeOK
<1>3. CASE ReadSubscription(q)
  <2>1. /\ q \notin placeholder
        /\ Proceed(q, "check") \/ Proceed(q, "materialize")
    BY <1>3 DEF ReadSubscription, TypeOK
  <2>2. QED  BY <1>1, <2>1, ProceedTypeOK
<1>4. CASE Materialize(q)
  <2>1. CASE Fail(q)
    BY <1>1, <2>1, AnswerTypeOK DEF Fail
  <2>2. CASE ~Fail(q)
    BY <1>4, <2>2 DEF Materialize, Goto, stored, TypeOK, Phases
  <2>3. QED  BY <2>1, <2>2
<1>5. CASE CheckCap(q)
  <2>1. Proceed(q, "lookup") \/ Answer(q, "402", NoRun)
    BY <1>5 DEF CheckCap
  <2>2. QED  BY <1>1, <2>1, ProceedTypeOK, AnswerTypeOK DEF Holding
<1>6. CASE LookupKey(q)
  <2>1. ASSUME NEW r \in Existing(q), Answer(q, "202", r) PROVE TypeOK'
    <3>1. r \in Requests  BY DEF Existing, TypeOK
    <3>2. QED  BY <1>1, <2>1, <3>1, AnswerTypeOK
  <2>2. ASSUME Proceed(q, "insert") PROVE TypeOK'
    BY <1>1, <2>2, ProceedTypeOK DEF Holding
  <2>3. QED  BY <1>6, <2>1, <2>2 DEF LookupKey
<1>7. QED  BY <1>2, <1>3, <1>4, <1>5, <1>6

\* Inserting the run, or answering with the winner's, keeps the types.
LEMMA InsertTypeOK ==
  ASSUME TypeOK, NEW q \in Requests, InsertRun(q) \/ Refetch(q)
  PROVE  TypeOK'
<1>1. CASE InsertRun(q)
  <2>1. CASE Proceed(q, "inserted")
    BY <2>1, ProceedTypeOK DEF Phases, Holding
  <2>2. CASE ~Proceed(q, "inserted")
    BY <1>1, <2>2 DEF InsertRun, Goto, RolledBack, stored, TypeOK, Phases
  <2>3. QED  BY <2>1, <2>2
<1>2. CASE Refetch(q)
  <2>1. PICK r \in Existing(q) : Answer(q, "202", r)
    BY <1>2 DEF Refetch
  <2>2. r \in Requests  BY DEF Existing, TypeOK
  <2>3. QED  BY <2>1, <2>2, AnswerTypeOK DEF Codes
<1>3. QED  BY <1>1, <1>2

\* Building and flushing the audit entry, the commit and the reply keep the
\* types.
LEMMA CommitTypeOK ==
  ASSUME TypeOK, SeqSet, NEW q \in Requests,
         ReadHead(q) \/ FlushAudit(q) \/ Commit(q) \/ Reply(q)
  PROVE  TypeOK'
<1>1. CASE ReadHead(q)
  <2>1. PICK n \in Nat : seq' = [seq EXCEPT ![q] = n]
    BY <1>1 DEF ReadHead, EntriesOf, TypeOK
  <2>2. QED
    BY <1>1, <2>1 DEF ReadHead, Goto, stored, TypeOK, Phases
<1>2. CASE FlushAudit(q)
  <2>1. Fail(q) \/ (q \in Requests /\ Proceed(q, "flushed"))
    BY <1>2 DEF FlushAudit
  <2>2. QED
    BY <2>1, ProceedTypeOK, AnswerTypeOK DEF Fail, Phases, Holding, Codes
<1>3. CASE Commit(q)
  <2>1. seq[q] \in Nat \ {0}
    BY <1>3 DEF Commit, TypeOK, SeqSet
  <2>2. RequestOrg[q] \in Orgs
    BY RunSubmitAssumption
  <2>3. \A a \in audit' :
            a.org \in Orgs /\ a.seq \in Nat \ {0} /\ a.run \in Requests
    BY <1>3, <2>1, <2>2 DEF Commit, TypeOK
  <2>4. subscribed' \subseteq Orgs /\ uncapped' \subseteq subscribed'
    BY <1>3, <2>2 DEF Commit, TypeOK
  <2>5. pc' \in [Requests -> Phases]
    BY <1>3 DEF Commit, Goto, TypeOK, Phases
  <2>6. QED
    BY <1>3, <2>3, <2>4, <2>5 DEF Commit, Goto, TypeOK
<1>4. CASE Reply(q)
  BY <1>4, AnswerTypeOK DEF Reply, Codes
<1>5. QED  BY <1>1, <1>2, <1>3, <1>4

\* The worker, the billing events and the loss of a request keep the types.
LEMMA OtherTypeOK ==
  /\ \A q \in Requests : TypeOK /\ (Lose(q) \/ FinishRun(q)) => TypeOK'
  /\ \A o \in Orgs : TypeOK /\ (Upgrade(o) \/ Downgrade(o)) => TypeOK'
<1>1. ASSUME NEW q \in Requests, TypeOK, Lose(q) PROVE TypeOK'
  BY <1>1 DEF Lose, Goto, RolledBack, stored, TypeOK, Phases
<1>2. ASSUME NEW q \in Requests, TypeOK, FinishRun(q) PROVE TypeOK'
  <2>1. PICK tokens \in 0..MaxCost :
            usage' = [usage EXCEPT ![RequestOrg[q]] = @ + tokens]
    BY <1>2 DEF FinishRun
  <2>2. RequestOrg[q] \in Orgs /\ tokens \in Nat
    BY RunSubmitAssumption
  <2>3. usage' \in [Orgs -> Nat]
    BY <1>2, <2>1, <2>2 DEF TypeOK
  <2>4. QED
    BY <1>2, <2>3 DEF FinishRun, request, TypeOK
<1>3. ASSUME NEW o \in Orgs, TypeOK, Upgrade(o) PROVE TypeOK'
  BY <1>3 DEF Upgrade, request, TypeOK
<1>4. ASSUME NEW o \in Orgs, TypeOK, Downgrade(o) PROVE TypeOK'
  BY <1>4 DEF Downgrade, request, TypeOK
<1>5. QED  BY <1>1, <1>2, <1>3, <1>4

\* A request has numbered its entry once it read the head of the chain.
LEMMA StepSeqSet == TypeOK /\ SeqSet /\ [Next]_vars => SeqSet'
<1> SUFFICES ASSUME TypeOK, SeqSet, [Next]_vars PROVE SeqSet'
  OBVIOUS
<1>1. ASSUME NEW q \in Requests, ReadHead(q) PROVE SeqSet'
  <2>1. PICK n \in Nat \ {0} : seq' = [seq EXCEPT ![q] = n]
    BY <1>1 DEF ReadHead, EntriesOf, TypeOK
  <2>2. QED  BY <1>1, <2>1 DEF ReadHead, Goto, TypeOK, SeqSet
<1>2. ASSUME NEW q \in Requests, Begin(q) \/ (Handle(q) /\ ~ReadHead(q)) \/ Lose(q)
      PROVE  SeqSet'
  <2>1. seq' = seq /\ \A p \in Requests \ {q} : pc'[p] = pc[p]
    BY <1>2 DEF Begin, Handle, ReadSubscription, Materialize, CheckCap,
         LookupKey, InsertRun, Refetch, FlushAudit, Commit, Reply, Lose,
         Fail, Answer, Proceed, Goto, TypeOK
  <2>2. pc'[q] \in {"linked", "flushed"} => pc[q] = "linked"
    BY <1>2 DEF Begin, Handle, ReadSubscription, Materialize, CheckCap,
         LookupKey, InsertRun, Refetch, FlushAudit, Commit, Reply, Lose,
         Fail, Answer, Proceed, Goto, TypeOK
  <2>3. QED  BY <2>1, <2>2 DEF SeqSet
<1>3. ASSUME NEW q \in Requests, FinishRun(q) PROVE SeqSet'
  BY <1>3 DEF FinishRun, request, SeqSet
<1>4. ASSUME NEW o \in Orgs, Upgrade(o) \/ Downgrade(o) PROVE SeqSet'
  BY <1>4 DEF Upgrade, Downgrade, request, SeqSet
<1>5. CASE UNCHANGED vars
  BY <1>5 DEF vars, request, SeqSet
<1>6. QED  BY <1>1, <1>2, <1>3, <1>4, <1>5 DEF Next

\* Every reachable state has the declared types; in particular only a request
\* inside its transaction holds an uncommitted subscriptions row.
THEOREM SubmitTypeCorrect == Spec => [](TypeOK /\ SeqSet)
<1>1. Init => TypeOK /\ SeqSet
  BY RunSubmitAssumption DEF Init, TypeOK, SeqSet, Phases, Codes
<1>2. TypeOK /\ SeqSet /\ [Next]_vars => TypeOK'
  <2> SUFFICES ASSUME TypeOK, SeqSet, [Next]_vars PROVE TypeOK'
    OBVIOUS
  <2>1. ASSUME NEW q \in Requests, Begin(q) \/ Handle(q) PROVE TypeOK'
    BY <2>1, CheckTypeOK, InsertTypeOK, CommitTypeOK DEF Handle
  <2>2. CASE UNCHANGED vars
    BY <2>2 DEF vars, stored, request, TypeOK
  <2>3. QED  BY <2>1, <2>2, OtherTypeOK DEF Next
<1>3. QED  BY <1>1, <1>2, StepSeqSet, PTL DEF Spec

-----------------------------------------------------------------------------
(* Idempotency.                                                            *)

\* The unique index on (org, key) covers all rows, committed or not.
KeysUnique ==
    \A p, q \in runs \cup Uncommitted : p # q => ~SameKey(p, q)

\* A handler that committed has its run in the table, and a run in the table
\* has a handler that committed.
CommitsKnown ==
    \A q \in Requests :
        /\ pc[q] = "committed" => q \in runs
        /\ q \in runs => pc[q] \in {"committed", "answered", "lost"}

\* A 202 names the request's own run or the one under its key.
NamesOwnRun ==
    \A q \in Requests : code[q] = "202" =>
        named[q] \in runs /\ (named[q] = q \/ SameKey(named[q], q))

IdempotencyInv == TypeOK /\ KeysUnique /\ CommitsKnown /\ NamesOwnRun

\* The inductive invariant is strong enough: two answers to one key name
\* committed runs under that key, and there is only one.
LEMMA InvAnswersAgree == IdempotencyInv => AnswersAgree
<1> SUFFICES ASSUME IdempotencyInv, NEW q \in Requests, code[q] = "202"
             PROVE  /\ named[q] \in runs
                    /\ RequestOrg[named[q]] = RequestOrg[q]
                    /\ \A p \in Requests :
                        (code[p] = "202" /\ SameKey(p, q)) => named[p] = named[q]
  BY DEF AnswersAgree
<1>1. named[q] \in runs /\ (named[q] = q \/ SameKey(named[q], q))
  BY DEF IdempotencyInv, NamesOwnRun
<1>2. RequestOrg[named[q]] = RequestOrg[q]
  BY <1>1 DEF SameKey
<1>3. ASSUME NEW p \in Requests, code[p] = "202", SameKey(p, q)
      PROVE  named[p] = named[q]
  <2>1. named[p] \in runs /\ (named[p] = p \/ SameKey(named[p], p))
    BY <1>3 DEF IdempotencyInv, NamesOwnRun
  <2>2. SameKey(named[p], named[q])
    BY <1>1, <1>3, <2>1 DEF SameKey
  <2>3. QED  BY <1>1, <2>1, <2>2 DEF IdempotencyInv, KeysUnique
<1>4. QED  BY <1>1, <1>2, <1>3

\* A handler that answers, goes on before the INSERT or is lost adds no row.
LEMMA RowsKept ==
  ASSUME IdempotencyInv, NEW q \in Requests, runs' = runs,
         \A p \in Requests \ {q} : pc'[p] = pc[p],
         pc'[q] \in {"inserted", "linked", "flushed"}
            => pc[q] \in {"inserted", "linked", "flushed"}
  PROVE  KeysUnique'
<1>1. (runs \cup Uncommitted)' \subseteq runs \cup Uncommitted
  BY DEF Uncommitted
<1>2. QED  BY <1>1 DEF IdempotencyInv, KeysUnique, SameKey

\* The INSERT succeeds only if no row, committed or not, has the key.
LEMMA InsertKeepsUnique ==
  ASSUME IdempotencyInv, NEW q \in Requests, InsertRun(q)
  PROVE  KeysUnique'
<1>1. CASE KeyTaken(q)
  BY <1>1, RowsKept DEF InsertRun, Goto, stored, IdempotencyInv, TypeOK
<1>2. CASE ~KeyTaken(q)
  <2>1. runs' = runs /\ \A p \in Requests : p # q => pc'[p] = pc[p]
    BY <1>2 DEF InsertRun, Proceed, Goto, stored, IdempotencyInv, TypeOK
  <2>2. (runs \cup Uncommitted)' \subseteq runs \cup Uncommitted \cup {q}
    BY <2>1 DEF Uncommitted
  <2>3. \A p \in (runs \cup Uncommitted) \ {q} : ~SameKey(p, q) /\ ~SameKey(q, p)
    BY <1>2 DEF InsertRun, KeyTaken, Existing, SameKey
  <2>4. QED
    BY <2>2, <2>3 DEF IdempotencyInv, KeysUnique, SameKey
<1>3. QED  BY <1>1, <1>2

\* COMMIT turns uncommitted rows into committed ones.
LEMMA CommitKeepsUnique ==
  ASSUME IdempotencyInv, NEW q \in Requests, Commit(q)
  PROVE  KeysUnique'
<1>1. (runs \cup Uncommitted)' \subseteq runs \cup Uncommitted
  BY DEF Commit, Goto, Uncommitted, IdempotencyInv, TypeOK
<1>2. QED  BY <1>1 DEF IdempotencyInv, KeysUnique, SameKey

\* A request that answers keeps every 202 in the table true.
LEMMA AnswerKeepsNames ==
  ASSUME IdempotencyInv, NEW q \in Requests, NEW status, NEW run,
         Answer(q, status, run),
         status = "202" => run \in runs /\ (run = q \/ SameKey(run, q)),
         q \in runs => pc[q] \in {"committed", "answered", "lost"}
  PROVE  KeysUnique' /\ CommitsKnown' /\ NamesOwnRun'
<1>1. /\ runs' = runs
      /\ pc' = [pc EXCEPT ![q] = "answered"]
      /\ code' = [code EXCEPT ![q] = status]
      /\ named' = [named EXCEPT ![q] = run]
  BY DEF Answer, Goto, stored
<1>2. KeysUnique'
  BY <1>1, RowsKept DEF IdempotencyInv, TypeOK
<1>3. CommitsKnown'
  BY <1>1 DEF CommitsKnown, IdempotencyInv, TypeOK
<1>4. NamesOwnRun'
  BY <1>1 DEF NamesOwnRun, IdempotencyInv, TypeOK, SameKey
<1>5. QED  BY <1>2, <1>3, <1>4

\* A request that goes on without committing leaves the answers alone.
LEMMA ProceedKeeps ==
  ASSUME IdempotencyInv, NEW q \in Requests, NEW phase,
         runs' = runs, code' = code, named' = named,
         Goto(q, phase), phase # "committed",
         q \notin runs \/ phase = "lost"
  PROVE  CommitsKnown' /\ NamesOwnRun'
<1>1. CommitsKnown'
  BY DEF Goto, CommitsKnown, IdempotencyInv, TypeOK
<1>2. NamesOwnRun'
  BY DEF NamesOwnRun, IdempotencyInv, SameKey
<1>3. QED  BY <1>1, <1>2

\* The steps of a request keep the invariant.
LEMMA HandleKeepsIdempotency ==
  ASSUME IdempotencyInv, NEW q \in Requests, Begin(q) \/ Handle(q) \/ Lose(q)
  PROVE  KeysUnique' /\ CommitsKnown' /\ NamesOwnRun'
<1>0. pc[q] \notin {"committed", "answered", "lost"} => q \notin runs
  BY DEF IdempotencyInv, CommitsKnown
<1>1. ASSUME NEW phase, Proceed(q, phase), phase # "committed",
             phase \in {"inserted", "linked", "flushed"}
                => pc[q] \in {"inserted", "linked", "flushed"},
             pc[q] \notin {"committed", "answered", "lost"}
      PROVE  KeysUnique' /\ CommitsKnown' /\ NamesOwnRun'
  <2>1. runs' = runs /\ code' = code /\ named' = named /\ Goto(q, phase)
    BY <1>1 DEF Proceed, stored
  <2>2. KeysUnique'
    BY <1>1, <2>1, RowsKept DEF Goto, IdempotencyInv, TypeOK
  <2>3. QED  BY <1>0, <1>1, <2>1, <2>2, ProceedKeeps
<1>2. ASSUME NEW status \in {"402", "500"}, Answer(q, status, NoRun),
             pc[q] \notin {"committed", "answered", "lost"}
      PROVE  KeysUnique' /\ CommitsKnown' /\ NamesOwnRun'
  BY <1>0, <1>2, AnswerKeepsNames
<1>3. ASSUME NEW r \in Existing(q), Answer(q, "202", r),
             pc[q] \notin {"committed", "answered", "lost"}
      PROVE  KeysUnique' /\ CommitsKnown' /\ NamesOwnRun'
  BY <1>0, <1>3, AnswerKeepsNames DEF Existing
<1>4. CASE Begin(q) \/ ReadSubscription(q) \/ CheckCap(q) \/ LookupKey(q)
                    \/ Refetch(q) \/ FlushAudit(q)
  BY <1>1, <1>2, <1>3, <1>4
  DEF Begin, ReadSubscription, CheckCap, LookupKey, Refetch, FlushAudit, Fail
<1>5. CASE Materialize(q)
  <2>1. CASE Fail(q)
    BY <1>2, <1>5, <2>1 DEF Materialize, Fail
  <2>2. CASE ~Fail(q)
    <3>1. /\ runs' = runs /\ code' = code /\ named' = named
          /\ Goto(q, "check") /\ q \notin runs
      BY <1>0, <1>5, <2>2 DEF Materialize, stored
    <3>2. KeysUnique'
      BY <3>1, RowsKept DEF Goto, IdempotencyInv, TypeOK
    <3>3. QED  BY <3>1, <3>2, ProceedKeeps
  <2>3. QED  BY <2>1, <2>2
<1>6. CASE InsertRun(q)
  <2>1. /\ runs' = runs /\ code' = code /\ named' = named /\ q \notin runs
        /\ Goto(q, "inserted") \/ Goto(q, "refetch")
    BY <1>0, <1>6 DEF InsertRun, Proceed, stored
  <2>2. QED  BY <1>6, <2>1, InsertKeepsUnique, ProceedKeeps
<1>7. CASE ReadHead(q)
  <2>1. /\ runs' = runs /\ code' = code /\ named' = named
        /\ Goto(q, "linked") /\ pc[q] = "inserted" /\ q \notin runs
    BY <1>0, <1>7 DEF ReadHead, stored
  <2>2. KeysUnique'
    BY <2>1, RowsKept DEF Goto, IdempotencyInv, TypeOK
  <2>3. QED  BY <2>1, <2>2, ProceedKeeps
<1>8. CASE Commit(q)
  <2>1. CommitsKnown'
    BY <1>8 DEF Commit, Goto, CommitsKnown, IdempotencyInv, TypeOK
  <2>2. NamesOwnRun'
    BY <1>8 DEF Commit, NamesOwnRun, IdempotencyInv, SameKey
  <2>3. QED  BY <1>8, <2>1, <2>2, CommitKeepsUnique
<1>9. CASE Reply(q)
  <2>1. q \in runs /\ pc[q] = "committed" /\ Answer(q, "202", q)
    BY <1>9 DEF Reply, IdempotencyInv, CommitsKnown
  <2>2. QED  BY <2>1, AnswerKeepsNames
<1>10. CASE Lose(q)
  <2>1. /\ runs' = runs /\ code' = code /\ named' = named /\ Goto(q, "lost")
    BY <1>10 DEF Lose, stored
  <2>2. KeysUnique'
    BY <2>1, RowsKept DEF Goto, IdempotencyInv, TypeOK
  <2>3. QED  BY <2>1, <2>2, ProceedKeeps
<1>11. QED
  BY <1>4, <1>5, <1>6, <1>7, <1>8, <1>9, <1>10 DEF Handle

\* The idempotency invariant holds in every reachable state.
THEOREM IdempotencyInvariant ==
  Spec => [](TypeOK /\ KeysUnique /\ CommitsKnown /\ NamesOwnRun)
<1>1. Init => KeysUnique /\ CommitsKnown /\ NamesOwnRun
  BY DEF Init, KeysUnique, Uncommitted, CommitsKnown, NamesOwnRun
<1>2. /\ TypeOK /\ KeysUnique /\ CommitsKnown /\ NamesOwnRun
      /\ [Next]_vars
      => KeysUnique' /\ CommitsKnown' /\ NamesOwnRun'
  <2> SUFFICES ASSUME IdempotencyInv, [Next]_vars
               PROVE  KeysUnique' /\ CommitsKnown' /\ NamesOwnRun'
    BY DEF IdempotencyInv
  <2>1. ASSUME NEW q \in Requests, Begin(q) \/ Handle(q) \/ Lose(q)
        PROVE  KeysUnique' /\ CommitsKnown' /\ NamesOwnRun'
    BY <2>1, HandleKeepsIdempotency
  <2>2. CASE \/ \E q \in Requests : FinishRun(q)
             \/ \E o \in Orgs : Upgrade(o) \/ Downgrade(o)
             \/ UNCHANGED vars
    <3>1. runs' = runs /\ pc' = pc /\ code' = code /\ named' = named
      BY <2>2 DEF FinishRun, Upgrade, Downgrade, vars, stored, request
    <3>2. QED
      BY <3>1 DEF IdempotencyInv, KeysUnique, Uncommitted, CommitsKnown,
           NamesOwnRun, SameKey
  <2>3. QED  BY <2>1, <2>2 DEF Next
<1>3. QED  BY <1>1, <1>2, SubmitTypeCorrect, PTL DEF Spec

\* All 202 answers to one (org, key) name one committed run, for any number
\* of racing, failing and lost requests.
THEOREM SubmitIsIdempotent == Spec => []AnswersAgree
<1>1. TypeOK /\ KeysUnique /\ CommitsKnown /\ NamesOwnRun => AnswersAgree
  BY InvAnswersAgree DEF IdempotencyInv
<1>2. QED  BY <1>1, IdempotencyInvariant, PTL

-----------------------------------------------------------------------------
(* The audit entries of the submitted runs.                                *)

Entries(o) == Cardinality(EntriesOf(o))

\* The entries of an org are numbered from 1 without a gap.
Numbered ==
    /\ IsFiniteSet(audit)
    /\ \A o \in Orgs : {a.seq : a \in EntriesOf(o)} = 1..Entries(o)

\* An entry under construction extends the chain or repeats a number of it;
\* once flushed it extends the chain, and no other of its org does.
AtTheEnd ==
    \A q \in Requests :
        /\ pc[q] \in {"linked", "flushed"}
              => seq[q] \in 1..(Entries(RequestOrg[q]) + 1)
        /\ pc[q] = "flushed" =>
              /\ ~SeqTaken(q)
              /\ \A p \in Rivals(q) : pc[p] = "flushed" => seq[p] # seq[q]

\* The entries and the runs correspond one to one.
OneToOne ==
    /\ \A a \in audit : a.run \in runs /\ a.org = RequestOrg[a.run]
    /\ \A r \in runs : \E a \in audit : a.run = r
    /\ \A a, b \in audit : a.run = b.run => a = b

AuditInv == Numbered /\ AtTheEnd /\ OneToOne

\* The number of entries of an org is a natural number.
LEMMA EntriesNat ==
  ASSUME Numbered, NEW o
  PROVE  IsFiniteSet(EntriesOf(o)) /\ Entries(o) \in Nat
<1>1. IsFiniteSet(EntriesOf(o))
  BY FS_Subset DEF Numbered, EntriesOf
<1>2. QED  BY <1>1, FS_CardinalityType DEF Entries

\* A flushed entry is the next one of its chain.
LEMMA FlushedIsNext ==
  ASSUME Numbered, AtTheEnd, NEW q \in Requests, pc[q] = "flushed"
  PROVE  seq[q] = Entries(RequestOrg[q]) + 1
<1>1. RequestOrg[q] \in Orgs /\ Entries(RequestOrg[q]) \in Nat
  BY EntriesNat, RunSubmitAssumption
<1>2. seq[q] \notin 1..Entries(RequestOrg[q])
  BY <1>1 DEF AtTheEnd, SeqTaken, Numbered
<1>3. QED  BY <1>1, <1>2 DEF AtTheEnd

\* The invariant gives the property.
LEMMA InvAuditMatches == TypeOK /\ AuditInv => AuditMatchesRuns
<1> SUFFICES ASSUME TypeOK, AuditInv PROVE AuditMatchesRuns
  OBVIOUS
<1>1. ASSUME NEW q \in runs
      PROVE  Cardinality({a \in audit : a.run = q}) = 1
  <2>1. PICK a \in audit : a.run = q
    BY DEF AuditInv, OneToOne
  <2>2. {b \in audit : b.run = q} = {a}
    BY <2>1 DEF AuditInv, OneToOne
  <2>3. QED  BY <2>2, FS_Singleton
<1>2. ASSUME NEW q \in Requests, q \notin runs
      PROVE  Cardinality({a \in audit : a.run = q}) = 0
  <2>1. {b \in audit : b.run = q} = {}
    BY <1>2 DEF AuditInv, OneToOne
  <2>2. QED  BY <2>1, FS_EmptySet
<1>3. QED
  BY <1>1, <1>2 DEF AuditMatchesRuns, AuditInv, OneToOne, Numbered, Entries

\* A step that leaves the audit table and the runs alone and flushes nothing
\* keeps the invariant.
LEMMA AuditKept ==
  ASSUME AuditInv, audit' = audit, runs' = runs,
         \A q \in Requests : pc'[q] \in {"linked", "flushed"} =>
             pc'[q] = pc[q] /\ seq'[q] = seq[q]
  PROVE  AuditInv'
<1>1. /\ \A o : EntriesOf(o)' = EntriesOf(o) /\ Entries(o)' = Entries(o)
  BY DEF EntriesOf, Entries
<1>2. Numbered' /\ OneToOne'
  BY <1>1 DEF AuditInv, Numbered, OneToOne
<1>3. AtTheEnd'
  <2> SUFFICES ASSUME NEW q \in Requests, pc'[q] \in {"linked", "flushed"}
               PROVE  /\ seq'[q] \in 1..(Entries(RequestOrg[q]) + 1)
                      /\ pc'[q] = "flushed" =>
                           /\ ~SeqTaken(q)'
                           /\ \A p \in Rivals(q) :
                                pc'[p] = "flushed" => seq'[p] # seq'[q]
    BY <1>1 DEF AtTheEnd, Rivals
  <2>1. pc'[q] = pc[q] /\ seq'[q] = seq[q]
    OBVIOUS
  <2>2. SeqTaken(q)' = SeqTaken(q)
    BY <1>1, <2>1 DEF SeqTaken
  <2>3. \A p \in Rivals(q) :
            pc'[p] = "flushed" => pc[p] = "flushed" /\ seq'[p] = seq[p]
    BY DEF Rivals
  <2>4. QED  BY <2>1, <2>2, <2>3 DEF AuditInv, AtTheEnd
<1>4. QED  BY <1>2, <1>3 DEF AuditInv

\* The head that was read gives the next number, or one already taken.
LEMMA ReadHeadKeeps ==
  ASSUME TypeOK, AuditInv, NEW q \in Requests, ReadHead(q)
  PROVE  AuditInv'
<1> DEFINE n == Entries(RequestOrg[q])
<1>1. RequestOrg[q] \in Orgs /\ n \in Nat
  BY EntriesNat, RunSubmitAssumption DEF AuditInv
<1>2. PICK k \in 1..(n + 1) : seq' = [seq EXCEPT ![q] = k]
  <2>1. CASE EntriesOf(RequestOrg[q]) = {}
    BY <1>1, <2>1 DEF ReadHead
  <2>2. CASE EntriesOf(RequestOrg[q]) # {}
    <3>1. PICK a \in EntriesOf(RequestOrg[q]) :
              seq' = [seq EXCEPT ![q] = a.seq + 1]
      BY <2>2 DEF ReadHead
    <3>2. a.seq \in 1..n
      BY <1>1 DEF AuditInv, Numbered
    <3>3. a.seq + 1 \in 1..(n + 1)
      BY <1>1, <3>2
    <3>4. QED  BY <3>1, <3>3
  <2>3. QED  BY <2>1, <2>2
<1>3. /\ audit' = audit /\ runs' = runs /\ pc' = [pc EXCEPT ![q] = "linked"]
      /\ \A o : EntriesOf(o)' = EntriesOf(o) /\ Entries(o)' = Entries(o)
  BY DEF ReadHead, Goto, stored, EntriesOf, Entries
<1>4. Numbered' /\ OneToOne'
  BY <1>3 DEF AuditInv, Numbered, OneToOne
<1>5. AtTheEnd'
  <2> SUFFICES ASSUME NEW p \in Requests, pc'[p] \in {"linked", "flushed"}
               PROVE  /\ seq'[p] \in 1..(Entries(RequestOrg[p]) + 1)
                      /\ pc'[p] = "flushed" =>
                           /\ ~SeqTaken(p)'
                           /\ \A v \in Rivals(p) :
                                pc'[v] = "flushed" => seq'[v] # seq'[p]
    BY <1>3 DEF AtTheEnd, Rivals
  <2>1. CASE p = q
    BY <1>2, <1>3, <2>1 DEF TypeOK
  <2>2. CASE p # q
    <3>1. pc'[p] = pc[p] /\ seq'[p] = seq[p]
      BY <1>2, <1>3, <2>2 DEF TypeOK
    <3>2. \A v \in Rivals(p) :
              pc'[v] = "flushed" => pc[v] = "flushed" /\ seq'[v] = seq[v]
      BY <1>2, <1>3 DEF TypeOK, Rivals
    <3>3. SeqTaken(p)' = SeqTaken(p)
      BY <1>3, <3>1 DEF SeqTaken
    <3>4. QED  BY <3>1, <3>2, <3>3 DEF AuditInv, AtTheEnd
  <2>3. QED  BY <2>1, <2>2
<1>6. QED  BY <1>4, <1>5 DEF AuditInv

\* The unique index on (org, seq) lets only an entry through that no other,
\* flushed or committed, repeats.
LEMMA FlushKeeps ==
  ASSUME TypeOK, AuditInv, NEW q \in Requests, FlushAudit(q)
  PROVE  AuditInv'
<1>1. CASE Fail(q)
  <2>1. \A p \in Requests : pc'[p] \in {"linked", "flushed"} =>
            pc'[p] = pc[p] /\ seq'[p] = seq[p]
    BY <1>1 DEF Fail, Answer, Goto, TypeOK
  <2>2. QED  BY <1>1, <2>1, AuditKept DEF Fail, Answer, stored
<1>2. CASE ~Fail(q)
  <2>1. /\ ~SeqTaken(q) /\ pc[q] = "linked"
        /\ audit' = audit /\ runs' = runs /\ seq' = seq
        /\ pc' = [pc EXCEPT ![q] = "flushed"]
        /\ ~\E p \in Rivals(q) : pc[p] = "flushed" /\ seq[p] = seq[q]
    BY <1>2 DEF FlushAudit, Proceed, Goto, stored
  <2>2. \A o : EntriesOf(o)' = EntriesOf(o) /\ Entries(o)' = Entries(o)
    BY <2>1 DEF EntriesOf, Entries
  <2>3. Numbered' /\ OneToOne'
    BY <2>1, <2>2 DEF AuditInv, Numbered, OneToOne
  <2>4. \A p \in Requests : SeqTaken(p)' = SeqTaken(p)
    BY <2>1, <2>2 DEF SeqTaken
  <2>5. \A p \in Requests : q \in Rivals(p) <=> p \in Rivals(q)
    BY DEF Rivals
  <2>6. \A p \in Requests \ {q} : pc'[p] = pc[p]
    BY <2>1 DEF TypeOK
  <2>7. pc'[q] = "flushed"
    BY <2>1 DEF TypeOK
  <2>8. AtTheEnd'
    <3> SUFFICES ASSUME NEW p \in Requests, pc'[p] \in {"linked", "flushed"}
                 PROVE  /\ seq[p] \in 1..(Entries(RequestOrg[p]) + 1)
                        /\ pc'[p] = "flushed" =>
                             /\ ~SeqTaken(p)
                             /\ \A v \in Rivals(p) :
                                  pc'[v] = "flushed" => seq[v] # seq[p]
      BY <2>1, <2>2, <2>4 DEF AtTheEnd, Rivals
    <3>1. CASE p = q
      BY <2>1, <2>6, <3>1 DEF AuditInv, AtTheEnd, Rivals
    <3>2. CASE p # q
      BY <2>1, <2>5, <2>6, <3>2 DEF AuditInv, AtTheEnd, Rivals
    <3>3. QED  BY <3>1, <3>2
  <2>9. QED  BY <2>3, <2>8 DEF AuditInv
<1>3. QED  BY <1>1, <1>2

\* A commit appends the next entry, and no other flushed one was waiting.
LEMMA CommitKeepsAudit ==
  ASSUME TypeOK, CommitsKnown, AuditInv, NEW q \in Requests, Commit(q)
  PROVE  AuditInv'
<1> DEFINE o == RequestOrg[q]
           e == [org |-> o, seq |-> seq[q], run |-> q]
           n == Entries(o)
<1>1. /\ audit' = audit \cup {e} /\ runs' = runs \cup {q} /\ seq' = seq
      /\ pc[q] = "flushed" /\ pc' = [pc EXCEPT ![q] = "committed"]
      /\ o \in Orgs /\ q \notin runs
  BY RunSubmitAssumption DEF Commit, Goto, CommitsKnown
<1>2. /\ IsFiniteSet(EntriesOf(o)) /\ n \in Nat /\ seq[q] = n + 1
  BY <1>1, EntriesNat, FlushedIsNext DEF AuditInv
<1>3. /\ EntriesOf(o)' = EntriesOf(o) \cup {e}
      /\ \A p \in Orgs \ {o} : EntriesOf(p)' = EntriesOf(p)
  BY <1>1 DEF EntriesOf
<1>4. e \notin EntriesOf(o)
  BY <1>1 DEF AuditInv, OneToOne, EntriesOf
<1>5. Entries(o)' = n + 1
  BY <1>2, <1>3, <1>4, FS_AddElement DEF Entries
<1>6. \A p \in Orgs \ {o} : Entries(p)' = Entries(p)
  BY <1>3 DEF Entries
<1>7. {a.seq : a \in EntriesOf(o)}' = 1..(n + 1)
  <2> DEFINE E == EntriesOf(o)
  <2>1. {a.seq : a \in EntriesOf(o)}' = {a.seq : a \in EntriesOf(o)} \cup {n + 1}
    <3>1. e.seq = n + 1
      BY <1>2
    <3>2. {a.seq : a \in E'} = {a.seq : a \in E \cup {e}}
      BY <1>3
    <3>3. \A x : x \in {a.seq : a \in E \cup {e}}
                <=> x \in {a.seq : a \in E} \/ x = e.seq
      BY Zenon
    <3>4. QED  BY <3>1, <3>2, <3>3
  <2>2. {a.seq : a \in EntriesOf(o)} = 1..n
    BY <1>1 DEF AuditInv, Numbered
  <2>3. (1..n) \cup {n + 1} = 1..(n + 1)
    BY <1>2
  <2>4. QED  BY <2>1, <2>2, <2>3
<1>8. Numbered'
  <2>1. IsFiniteSet(audit')
    BY <1>1, FS_AddElement DEF AuditInv, Numbered
  <2>2. \A p \in Orgs : {a.seq : a \in EntriesOf(p)}' = 1..(Entries(p)')
    BY <1>3, <1>5, <1>6, <1>7 DEF AuditInv, Numbered
  <2>3. QED  BY <2>1, <2>2 DEF Numbered
<1>9. OneToOne'
  <2>1. e.run = q /\ e.org = RequestOrg[q] /\ \A a \in audit : a.run # q
    BY <1>1 DEF AuditInv, OneToOne
  <2>2. \A a \in audit' : a.run \in runs' /\ a.org = RequestOrg[a.run]
    BY <1>1, <2>1 DEF AuditInv, OneToOne
  <2>3. \A r \in runs' : \E a \in audit' : a.run = r
    BY <1>1, <2>1 DEF AuditInv, OneToOne
  <2>4. \A a, b \in audit' : a.run = b.run => a = b
    BY <1>1, <2>1 DEF AuditInv, OneToOne
  <2>5. QED  BY <2>2, <2>3, <2>4 DEF OneToOne
<1>10. AtTheEnd'
  <2> SUFFICES ASSUME NEW p \in Requests, pc'[p] \in {"linked", "flushed"}
               PROVE  /\ seq[p] \in 1..(Entries(RequestOrg[p])' + 1)
                      /\ pc'[p] = "flushed" =>
                           /\ ~SeqTaken(p)'
                           /\ \A v \in Rivals(p) :
                                pc'[v] = "flushed" => seq[v] # seq[p]
    BY <1>1 DEF AtTheEnd, Rivals
  <2>1. p # q /\ pc'[p] = pc[p]
    BY <1>1 DEF TypeOK
  <2>2. RequestOrg[p] \in Orgs /\ Entries(RequestOrg[p]) \in Nat
    BY EntriesNat, RunSubmitAssumption DEF AuditInv
  <2>3. CASE RequestOrg[p] = o
    <3>1. seq[p] \in 1..(n + 1)
      BY <2>1, <2>3 DEF AuditInv, AtTheEnd
    <3>2. pc[p] # "flushed"
      <4> SUFFICES ASSUME pc[p] = "flushed" PROVE FALSE
        OBVIOUS
      <4>1. seq[p] = n + 1
        BY <2>3, FlushedIsNext DEF AuditInv
      <4>2. p \in Rivals(q)
        BY <2>1, <2>3 DEF Rivals
      <4>3. QED  BY <1>1, <1>2, <4>1, <4>2 DEF AuditInv, AtTheEnd
    <3>3. QED  BY <1>2, <1>5, <2>1, <2>3, <3>1, <3>2
  <2>4. CASE RequestOrg[p] # o
    <3>1. /\ EntriesOf(RequestOrg[p])' = EntriesOf(RequestOrg[p])
          /\ Entries(RequestOrg[p])' = Entries(RequestOrg[p])
      BY <1>3, <1>6, <2>2, <2>4
    <3>2. SeqTaken(p)' = SeqTaken(p)
      BY <1>1, <3>1 DEF SeqTaken
    <3>3. \A v \in Rivals(p) : pc'[v] = "flushed" => pc[v] = "flushed"
      BY <1>1 DEF TypeOK, Rivals
    <3>4. QED  BY <2>1, <3>1, <3>2, <3>3 DEF AuditInv, AtTheEnd
  <2>5. QED  BY <2>3, <2>4
<1>11. QED  BY <1>8, <1>9, <1>10 DEF AuditInv

\* The entries of each org are numbered, in step with its runs, in every
\* reachable state.
LEMMA AuditInvariant == Spec => []AuditInv
<1>1. Init => AuditInv
  <2> SUFFICES ASSUME Init PROVE AuditInv
    OBVIOUS
  <2>1. audit = {} /\ runs = {} /\ \A q \in Requests : pc[q] = "idle"
    BY DEF Init
  <2>2. \A o : EntriesOf(o) = {} /\ Entries(o) = 0
    BY <2>1, FS_EmptySet DEF EntriesOf, Entries
  <2>3. Numbered
    BY <2>1, <2>2, FS_EmptySet DEF Numbered
  <2>4. QED  BY <2>1, <2>3 DEF AuditInv, AtTheEnd, OneToOne
<1>2. TypeOK /\ CommitsKnown /\ AuditInv /\ [Next]_vars => AuditInv'
  <2> SUFFICES ASSUME TypeOK, CommitsKnown, AuditInv, [Next]_vars
               PROVE  AuditInv'
    OBVIOUS
  <2>1. ASSUME NEW q \in Requests, Begin(q) \/ Handle(q) \/ Lose(q)
        PROVE  AuditInv'
    <3>1. CASE ReadHead(q)
      BY <3>1, ReadHeadKeeps
    <3>2. CASE FlushAudit(q)
      BY <3>2, FlushKeeps
    <3>3. CASE Commit(q)
      BY <3>3, CommitKeepsAudit
    <3>4. CASE ~ReadHead(q) /\ ~FlushAudit(q) /\ ~Commit(q)
      <4>1. /\ audit' = audit /\ runs' = runs /\ seq' = seq
            /\ \E phase \in Phases \ {"linked", "flushed"} : Goto(q, phase)
        BY <2>1, <3>4
        DEF Begin, Handle, Lose, ReadSubscription, Materialize, CheckCap,
            LookupKey, InsertRun, Refetch, Reply, Fail, Answer, Proceed,
            stored, Phases
      <4>2. \A p \in Requests : pc'[p] \in {"linked", "flushed"} =>
                pc'[p] = pc[p]
        BY <4>1 DEF Goto, TypeOK
      <4>3. QED  BY <4>1, <4>2, AuditKept
    <3>5. QED  BY <3>1, <3>2, <3>3, <3>4
  <2>2. CASE \/ \E q \in Requests : FinishRun(q)
             \/ \E o \in Orgs : Upgrade(o) \/ Downgrade(o)
             \/ UNCHANGED vars
    <3>1. audit' = audit /\ runs' = runs /\ pc' = pc /\ seq' = seq
      BY <2>2 DEF FinishRun, Upgrade, Downgrade, vars, stored, request
    <3>2. QED  BY <3>1, AuditKept
  <2>3. QED  BY <2>1, <2>2 DEF Next
<1>3. QED  BY <1>1, <1>2, IdempotencyInvariant, PTL DEF Spec

\* Every run has one audit entry, no other request has any, and the numbers
\* of an org have neither a gap nor a repetition, whatever requests race.
THEOREM AuditFollowsRuns == Spec => []AuditMatchesRuns
<1>1. TypeOK /\ AuditInv => AuditMatchesRuns
  BY InvAuditMatches
<1>2. QED  BY <1>1, IdempotencyInvariant, AuditInvariant, PTL
-----------------------------------------------------------------------------
(* The refinement of Submissions: a transaction takes effect when it       *)
(* commits, and an answer or a loss is a step of its own.                  *)

Outcome == [q \in Requests |-> IF pc[q] = "lost" THEN "lost" ELSE code[q]]

\* A step in the eyes of Submissions: one of its own, or none.
Promised == [Alone!Next]_(Alone!submissions)

\* No request has an answer before it is answered.
Unanswered == \A q \in Requests : pc[q] # "answered" => code[q] = "none"

AloneInv == TypeOK /\ KeysUnique /\ CommitsKnown /\ AuditInv /\ Unanswered

LEMMA UnansweredStep == TypeOK /\ Unanswered /\ [Next]_vars => Unanswered'
<1> SUFFICES ASSUME TypeOK, Unanswered, [Next]_vars PROVE Unanswered'
  OBVIOUS
<1> USE DEF TypeOK, Unanswered
<1>1. ASSUME NEW q \in Requests, NEW phase, Goto(q, phase), UNCHANGED code,
             pc[q] # "answered"
      PROVE  Unanswered'
  BY <1>1 DEF Goto
<1>2. ASSUME NEW q \in Requests, NEW status, NEW run, Answer(q, status, run)
      PROVE  Unanswered'
  BY <1>2 DEF Answer, Goto
<1>3. ASSUME NEW q \in Requests, Begin(q) \/ Handle(q) \/ Lose(q)
      PROVE  Unanswered'
  <2>1. pc[q] # "answered"
    BY <1>3 DEF Begin, Handle, Lose, ReadSubscription, Materialize, CheckCap, LookupKey,
         InsertRun, Refetch, ReadHead, FlushAudit, Commit, Reply
  <2>2. \/ \E phase : Goto(q, phase) /\ UNCHANGED code
        \/ \E status, run : Answer(q, status, run)
    BY <1>3 DEF Begin, Handle, Lose, ReadSubscription, Materialize, CheckCap, LookupKey,
         InsertRun, Refetch, ReadHead, FlushAudit, Commit, Reply, Proceed, Fail
  <2>3. QED  BY <1>1, <1>2, <2>1, <2>2
<1>4. CASE \/ \E q \in Requests : FinishRun(q)
           \/ \E o \in Orgs : Upgrade(o) \/ Downgrade(o)
           \/ UNCHANGED vars
  BY <1>4 DEF FinishRun, Upgrade, Downgrade, vars, request
<1>5. QED  BY <1>3, <1>4 DEF Next

\* Nothing that Submissions speaks of changes.
LEMMA Unseen ==
  ASSUME UNCHANGED <<runs, audit, named>>, Outcome' = Outcome
  PROVE  Promised
BY DEF Promised, Alone!submissions, Outcome

\* The client gets an answer, or none ever.
LEMMA Seen ==
  ASSUME AloneInv, NEW q \in Requests, NEW status, NEW run,
         Outcome[q] = "none", UNCHANGED <<runs, audit>>,
         Outcome' = [Outcome EXCEPT ![q] = status],
         named' = [named EXCEPT ![q] = run]
  PROVE  Alone!Sees(q, status, run)
BY DEF Alone!Sees, Outcome

LEMMA AnswerSeen ==
  ASSUME AloneInv, NEW q \in Requests, NEW status, NEW run,
         Answer(q, status, run), pc[q] \notin {"answered", "lost"}
  PROVE  Alone!Sees(q, status, run)
<1>1. /\ pc' = [pc EXCEPT ![q] = "answered"]
      /\ code' = [code EXCEPT ![q] = status]
      /\ named' = [named EXCEPT ![q] = run]
      /\ UNCHANGED <<runs, audit>>
  BY DEF Answer, Goto, stored
<1>2. Outcome[q] = "none"
  BY DEF Outcome, AloneInv, Unanswered
<1>3. Outcome' = [Outcome EXCEPT ![q] = status]
  BY <1>1 DEF Outcome, AloneInv, TypeOK
<1>4. QED  BY <1>1, <1>2, <1>3, Seen

LEMMA LoseSeen ==
  ASSUME AloneInv, NEW q \in Requests, Lose(q)
  PROVE  Promised
<1>1. /\ pc' = [pc EXCEPT ![q] = "lost"] /\ pc[q] \notin {"answered", "lost"}
      /\ UNCHANGED <<runs, audit, code, named>>
  BY DEF Lose, Goto, stored
<1>2. Outcome[q] = "none"
  BY <1>1 DEF Outcome, AloneInv, Unanswered
<1>3. Outcome' = [Outcome EXCEPT ![q] = "lost"]
  BY <1>1 DEF Outcome, AloneInv, TypeOK
<1>4. named' = [named EXCEPT ![q] = named[q]]
  BY <1>1 DEF AloneInv, TypeOK
<1>5. Alone!Lose(q)
  <2>1. PICK run : run = named[q]
    OBVIOUS
  <2>2. Alone!Sees(q, "lost", run)
    BY <1>1, <1>2, <1>3, <1>4, <2>1, Seen
  <2>3. QED  BY <2>1, <2>2 DEF Alone!Lose, Alone!Sees
<1>6. QED  BY <1>5 DEF Promised, Alone!Next

\* The entry that is committed is the next one of its org.
LEMMA CommitIsNext ==
  ASSUME AloneInv, NEW q \in Requests, Commit(q),
         NEW e, e.org = RequestOrg[q], e.seq = seq[q]
  PROVE  Alone!Continues(e)
<1>1. pc[q] = "flushed" /\ RequestOrg[q] \in Orgs
  BY RunSubmitAssumption DEF Commit
<1>2. PICK n \in Nat : n = Entries(RequestOrg[q])
  BY <1>1, EntriesNat DEF AuditInv, AloneInv
<1>3. seq[q] = n + 1
  BY <1>1, <1>2, FlushedIsNext DEF AuditInv, AloneInv
<1>4. {a.seq : a \in EntriesOf(RequestOrg[q])} = 1..n
  BY <1>1, <1>2 DEF AloneInv, AuditInv, Numbered
<1>5. e.seq > 0 /\ e.seq - 1 = n
  BY <1>3
<1>6. QED  BY <1>4, <1>5 DEF EntriesOf, Alone!Continues, Alone!TrailOf

LEMMA CommitSeen ==
  ASSUME AloneInv, NEW q \in Requests, Commit(q)
  PROVE  Promised
<1>1. /\ pc[q] = "flushed" /\ pc' = [pc EXCEPT ![q] = "committed"]
      /\ runs' = runs \cup {q} /\ UNCHANGED <<code, named>>
  BY DEF Commit, Goto
<1>2. q \notin runs
  BY <1>1 DEF AloneInv, CommitsKnown
<1>3. ~\E r \in runs : SameKey(r, q)
  BY <1>1, <1>2 DEF AloneInv, KeysUnique, Uncommitted
<1>4. Outcome' = Outcome /\ Outcome[q] = "none"
  BY <1>1 DEF Outcome, AloneInv, TypeOK, Unanswered
<1>5. PICK e : /\ e.org = RequestOrg[q] /\ e.seq = seq[q] /\ e.run = q
               /\ audit' = audit \cup {e}
  BY DEF Commit
<1>6. Alone!Accept(q)
  <2>1. ~\E r \in runs : Alone!SameKey(r, q)
    BY <1>3 DEF Alone!SameKey, SameKey
  <2>2. Alone!Continues(e)
    BY <1>5, CommitIsNext
  <2>3. QED
    BY <1>1, <1>2, <1>4, <1>5, <2>1, <2>2 DEF Alone!Accept, Outcome
<1>7. QED  BY <1>6 DEF Promised, Alone!Next

LEMMA HandleSeen ==
  ASSUME AloneInv, NEW q \in Requests, Begin(q) \/ Handle(q)
  PROVE  Promised
<1>1. pc[q] \notin {"committed", "answered", "lost"} => q \notin runs
  BY DEF AloneInv, CommitsKnown
<1>2. ASSUME NEW phase, phase \notin {"answered", "lost"}, Goto(q, phase),
             UNCHANGED <<runs, audit, code, named>>, pc[q] \notin {"answered", "lost"}
      PROVE  Promised
  <2>1. Outcome' = Outcome
    BY <1>2 DEF Outcome, Goto, AloneInv, TypeOK
  <2>2. QED  BY <1>2, <2>1, Unseen
<1>3. ASSUME NEW status \in {"402", "500"}, Answer(q, status, NoRun),
             pc[q] \notin {"committed", "answered", "lost"}
      PROVE  Promised
  BY <1>1, <1>3, AnswerSeen DEF Promised, Alone!Next, Alone!Refuse
<1>4. ASSUME NEW r \in Existing(q), Answer(q, "202", r),
             pc[q] \notin {"committed", "answered", "lost"}
      PROVE  Promised
  <2>1. r \in runs /\ Alone!SameKey(r, q) /\ q \notin runs
    BY <1>1, <1>4 DEF Existing, SameKey, Alone!SameKey
  <2>2. Alone!Replay(q)
    BY <1>4, <2>1, AnswerSeen DEF Alone!Replay
  <2>3. QED  BY <2>2 DEF Promised, Alone!Next
<1>5. CASE Commit(q)
  BY <1>5, CommitSeen
<1>6. CASE Reply(q)
  <2>1. q \in runs /\ Alone!Sees(q, "202", q)
    BY <1>6, AnswerSeen DEF Reply, AloneInv, CommitsKnown
  <2>2. QED  BY <2>1 DEF Promised, Alone!Next, Alone!Confirm
<1>7. CASE ReadHead(q)
  BY <1>2, <1>7 DEF ReadHead, stored
<1>8. CASE Begin(q) \/ ReadSubscription(q)
  BY <1>2, <1>8 DEF Begin, ReadSubscription, Proceed, stored
<1>9. CASE Materialize(q) \/ CheckCap(q)
  BY <1>2, <1>3, <1>9 DEF Materialize, CheckCap, Fail, Proceed, stored
<1>10. CASE LookupKey(q) \/ Refetch(q)
  BY <1>2, <1>4, <1>10 DEF LookupKey, Refetch, Proceed, stored
<1>11. CASE InsertRun(q) \/ FlushAudit(q)
  BY <1>2, <1>3, <1>11 DEF InsertRun, FlushAudit, Fail, Proceed, stored
<1>12. QED
  BY <1>5, <1>6, <1>7, <1>8, <1>9, <1>10, <1>11 DEF Handle

LEMMA StepSeen == AloneInv /\ [Next]_vars => Promised
<1> SUFFICES ASSUME AloneInv, [Next]_vars PROVE Promised
  OBVIOUS
<1>1. CASE \/ \E q \in Requests : FinishRun(q)
           \/ \E o \in Orgs : Upgrade(o) \/ Downgrade(o)
           \/ UNCHANGED vars
  <2>1. UNCHANGED <<runs, audit, pc, code, named>>
    BY <1>1 DEF FinishRun, Upgrade, Downgrade, vars, stored, request
  <2>2. QED  BY <2>1, Unseen DEF Outcome
<1>2. QED  BY <1>1, HandleSeen, LoseSeen DEF Next

\* HandledAsIfAlone: however transactions interleave, block, fail and are
\* lost, each request is accepted, answered or refused in one step.
THEOREM RequestsAreAtomic == Spec => HandledAsIfAlone
<1>1. Init => Unanswered /\ Alone!Init
  <2> SUFFICES ASSUME Init PROVE Unanswered /\ Alone!Init
    OBVIOUS
  <2>1. Unanswered /\ Outcome = [q \in Requests |-> "none"]
    BY DEF Init, Unanswered, Outcome
  <2>2. QED  BY <2>1 DEF Init, Alone!Init, Outcome
<1>2. QED
  BY <1>1, IdempotencyInvariant, AuditInvariant, UnansweredStep, StepSeen, PTL
  DEF Spec, AloneInv, HandledAsIfAlone, Alone!Spec, Promised

=============================================================================
