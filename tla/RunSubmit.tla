----------------------------- MODULE RunSubmit -----------------------------
(***************************************************************************)
(* POST /v1/runs (server/routers/runs.py).  Several requests are handled   *)
(* at a time, each in a transaction of its own: create_run checks the      *)
(* monthly token cap, looks the idempotency key up, inserts the run, adds  *)
(* an entry to the audit chain of the org and commits.  Three unique       *)
(* indexes arbitrate between requests: subscriptions(org), runs(org, key)  *)
(* and audit_entries(org, seq).  Under each, an uncommitted row makes      *)
(* another INSERT of the same key wait, and a committed one makes it fail. *)
(* A handler may be lost at any point, and its client may ask again.       *)
(***************************************************************************)
EXTENDS Naturals, FiniteSets

CONSTANTS
    Requests,       \* one execution of create_run each; a retry is another
    Orgs,
    RequestOrg,     \* [Requests -> Orgs]
    RequestKey,     \* the Idempotency-Key of a request, or NoKey
    NoKey,          \* no header, or a blank one
    NoRun,
    Cap,            \* TIER_TOKEN_CAPS of the capped tier
    MaxCost         \* bound: the tokens one run may use

ASSUME RunSubmitAssumption ==
    /\ RequestOrg \in [Requests -> Orgs]
    /\ DOMAIN RequestKey = Requests
    /\ NoRun \notin Requests
    /\ Cap \in Nat \ {0} /\ MaxCost \in Nat

VARIABLES
    \* committed state
    runs,           \* runs inserted by create_run, named by their request
    finished,       \* those the worker is done with
    usage,          \* tokens of an org's runs in the billing period
    subscribed,     \* orgs with a row in subscriptions
    uncapped,       \* those on a tier without token cap
    audit,          \* run.submit entries: [org, seq, run]
    \* a request
    pc,             \* where create_run stands
    placeholder,    \* requests holding an uncommitted subscriptions row
    seq,            \* the seq of the audit entry it builds
    code,           \* the status code of its answer
    named           \* the run its answer names

stored  == <<runs, finished, usage, subscribed, uncapped, audit>>
request == <<pc, placeholder, seq, code, named>>
vars    == <<stored, request>>

Phases == {"idle", "begun", "materialize", "check", "lookup", "insert",
           "refetch", "inserted", "linked", "flushed", "committed",
           "answered", "lost"}

Codes == {"none", "202", "402", "500"}

Init ==
    /\ runs = {} /\ finished = {} /\ audit = {}
    /\ usage = [o \in Orgs |-> 0]
    /\ subscribed = {} /\ uncapped = {}
    /\ pc = [q \in Requests |-> "idle"]
    /\ placeholder = {}
    /\ seq = [q \in Requests |-> 0]
    /\ code = [q \in Requests |-> "none"]
    /\ named = [q \in Requests |-> NoRun]

Goto(q, phase) == pc' = [pc EXCEPT ![q] = phase]

Rivals(q) == {p \in Requests \ {q} : RequestOrg[p] = RequestOrg[q]}

-----------------------------------------------------------------------------
(* The end of a transaction.                                               *)

\* Mutant of RolledBack: the session is not closed on the way out.
RolledBackNot(q) == UNCHANGED placeholder

\* session.rollback(), or get_session closing the session.
RolledBack(q) == placeholder' = placeholder \ {q}

\* The handler returns or raises without having committed.
Answer(q, status, run) ==
    /\ Goto(q, "answered")
    /\ RolledBack(q)
    /\ code' = [code EXCEPT ![q] = status]
    /\ named' = [named EXCEPT ![q] = run]
    /\ UNCHANGED <<stored, seq>>

Fail(q) == Answer(q, "500", NoRun)

\* The handler goes on.
Proceed(q, phase) ==
    Goto(q, phase) /\ UNCHANGED <<stored, placeholder, seq, code, named>>

-----------------------------------------------------------------------------
(* create_run, statement by statement.                                     *)

Begin(q) ==
    /\ pc[q] = "idle"
    /\ Proceed(q, "begun")

\* get_or_default: the SELECT.
ReadSubscription(q) ==
    /\ pc[q] = "begun"
    /\ Proceed(q, IF RequestOrg[q] \in subscribed THEN "check" ELSE "materialize")

\* get_or_default: the INSERT of the free-tier placeholder.
Materialize(q) ==
    /\ pc[q] = "materialize"
    /\ Rivals(q) \cap placeholder = {}
    /\ \/ RequestOrg[q] \in subscribed /\ Fail(q)
       \/ /\ RequestOrg[q] \notin subscribed
          /\ placeholder' = placeholder \cup {q}
          /\ Goto(q, "check")
          /\ UNCHANGED <<stored, seq, code, named>>

\* _enforce_token_cap.
CheckCap(q) ==
    LET o == RequestOrg[q] IN
    /\ pc[q] = "check"
    /\ \/ (o \in uncapped \/ usage[o] < Cap) /\ Proceed(q, "lookup")
       \/ o \notin uncapped /\ usage[o] >= Cap /\ Answer(q, "402", NoRun)

SameKey(p, q) ==
    /\ RequestOrg[p] = RequestOrg[q]
    /\ RequestKey[p] = RequestKey[q] /\ RequestKey[q] # NoKey

\* The committed run under q's key.
Existing(q) == {r \in runs : SameKey(r, q)}

LookupKey(q) ==
    /\ pc[q] = "lookup"
    /\ \/ \E r \in Existing(q) : Answer(q, "202", r)
       \/ Existing(q) = {} /\ Proceed(q, "insert")

\* Requests with an uncommitted row in runs.
Uncommitted == {p \in Requests : pc[p] \in {"inserted", "linked", "flushed"}}

\* Mutant of KeyTaken: no unique index on (org_id, idempotency_key).
KeyTakenNever(q) == FALSE

KeyTaken(q) == Existing(q) # {}

\* INSERT INTO runs; on a conflict the transaction is rolled back.
InsertRun(q) ==
    /\ pc[q] = "insert"
    /\ ~\E p \in Uncommitted \ {q} : SameKey(p, q)
    /\ \/ ~KeyTaken(q) /\ Proceed(q, "inserted")
       \/ /\ KeyTaken(q)
          /\ RolledBack(q)
          /\ Goto(q, "refetch")
          /\ UNCHANGED <<stored, seq, code, named>>

\* The replay after a lost race.  Runs are never deleted, so the winner's is
\* there, and the `raise` behind it is out of reach.
Refetch(q) ==
    /\ pc[q] = "refetch"
    /\ \E r \in Existing(q) : Answer(q, "202", r)

EntriesOf(o) == {a \in audit : a.org = o}

\* audit.record reads the head of the chain.
ReadHead(q) ==
    LET o == RequestOrg[q] IN
    /\ pc[q] = "inserted"
    /\ \/ \E a \in EntriesOf(o) :
            /\ \A b \in EntriesOf(o) : b.seq <= a.seq
            /\ seq' = [seq EXCEPT ![q] = a.seq + 1]
       \/ EntriesOf(o) = {} /\ seq' = [seq EXCEPT ![q] = 1]
    /\ Goto(q, "linked")
    /\ UNCHANGED <<stored, placeholder, code, named>>

SeqTaken(q) == \E a \in EntriesOf(RequestOrg[q]) : a.seq = seq[q]

\* audit.record inserts the entry; nobody catches the conflict.
FlushAudit(q) ==
    /\ pc[q] = "linked"
    /\ ~\E p \in Rivals(q) : pc[p] = "flushed" /\ seq[p] = seq[q]
    /\ \/ SeqTaken(q) /\ Fail(q)
       \/ ~SeqTaken(q) /\ Proceed(q, "flushed")

\* session.commit(): the placeholder, the run and its entry, together.
Commit(q) ==
    /\ pc[q] = "flushed"
    /\ runs' = runs \cup {q}
    /\ audit' = audit \cup {[org |-> RequestOrg[q], seq |-> seq[q], run |-> q]}
    /\ subscribed' = IF q \in placeholder THEN subscribed \cup {RequestOrg[q]}
                                          ELSE subscribed
    /\ placeholder' = placeholder \ {q}
    /\ Goto(q, "committed")
    /\ UNCHANGED <<finished, usage, uncapped, seq, code, named>>

Reply(q) ==
    /\ pc[q] = "committed"
    /\ Answer(q, "202", q)

\* The process dies, or the connection breaks: no answer, and the database
\* drops what was not committed.
Lose(q) ==
    /\ pc[q] \notin {"idle", "answered", "lost"}
    /\ Goto(q, "lost")
    /\ RolledBack(q)
    /\ UNCHANGED <<stored, seq, code, named>>

-----------------------------------------------------------------------------
(* The other writers.                                                      *)

\* The worker stores the outcome of a run; a failed one stores no tokens.
FinishRun(r) ==
    /\ r \in runs \ finished
    /\ finished' = finished \cup {r}
    /\ \E tokens \in 0..MaxCost :
        usage' = [usage EXCEPT ![RequestOrg[r]] = @ + tokens]
    /\ UNCHANGED <<runs, subscribed, uncapped, audit, request>>

\* A Stripe checkout completes; it needs the subscriptions row too.
Upgrade(o) ==
    /\ o \notin uncapped
    /\ \A q \in placeholder : RequestOrg[q] # o
    /\ subscribed' = subscribed \cup {o}
    /\ uncapped' = uncapped \cup {o}
    /\ UNCHANGED <<runs, finished, usage, audit, request>>

\* The subscription is deleted: back to the free tier.
Downgrade(o) ==
    /\ o \in uncapped
    /\ uncapped' = uncapped \ {o}
    /\ UNCHANGED <<runs, finished, usage, subscribed, audit, request>>

-----------------------------------------------------------------------------

Handle(q) ==
    \/ ReadSubscription(q) \/ Materialize(q) \/ CheckCap(q) \/ LookupKey(q)
    \/ InsertRun(q) \/ Refetch(q) \/ ReadHead(q) \/ FlushAudit(q)
    \/ Commit(q) \/ Reply(q)

Next ==
    \/ \E q \in Requests : Begin(q) \/ Handle(q) \/ Lose(q) \/ FinishRun(q)
    \/ \E o \in Orgs : Upgrade(o) \/ Downgrade(o)

Spec == Init /\ [][Next]_vars

\* A handler thread that can go on does; it only ever waits for a row lock.
FairSpec == Spec /\ \A q \in Requests : WF_vars(Handle(q))

-----------------------------------------------------------------------------
(* Properties.                                                             *)

\* Every variable keeps its type, and only a request in its transaction
\* holds an uncommitted subscriptions row.
TypeOK ==
    /\ runs \subseteq Requests /\ finished \subseteq runs
    /\ usage \in [Orgs -> Nat]
    /\ subscribed \subseteq Orgs /\ uncapped \subseteq subscribed
    /\ \A a \in audit :
        a.org \in Orgs /\ a.seq \in Nat \ {0} /\ a.run \in Requests
    /\ pc \in [Requests -> Phases]
    /\ placeholder \subseteq
        {q \in Requests : pc[q] \in {"check", "lookup", "insert",
                                     "inserted", "linked", "flushed"}}
    /\ seq \in [Requests -> Nat]
    /\ code \in [Requests -> Codes]
    /\ named \in [Requests -> Requests \cup {NoRun}]

\* The idempotency promise of create_run: all 202 answers to one (org, key),
\* whichever of the requests raced, failed or was lost, name one committed
\* run; and no answer ever names a run that does not exist.
AnswersAgree ==
    \A q \in Requests : code[q] = "202" =>
        /\ named[q] \in runs
        /\ RequestOrg[named[q]] = RequestOrg[q]
        /\ \A p \in Requests :
            (code[p] = "202" /\ SameKey(p, q)) => named[p] = named[q]

\* Every submitted run has exactly one run.submit entry, replayed and failed
\* requests have none, and the entries of an org are numbered without a gap
\* or a repetition.
AuditMatchesRuns ==
    /\ \A q \in Requests :
        Cardinality({a \in audit : a.run = q}) = (IF q \in runs THEN 1 ELSE 0)
    /\ \A a \in audit : a.org = RequestOrg[a.run]
    /\ \A o \in Orgs :
        {a.seq : a \in EntriesOf(o)} = 1..Cardinality(EntriesOf(o))

\* The requests, in interleaved transactions, keep the promise of Submissions,
\* where each takes effect in one step.
Alone ==
    INSTANCE Submissions WITH
        accepted <- runs, trail <- audit,
        outcome <- [q \in Requests |->
                        IF pc[q] = "lost" THEN "lost" ELSE code[q]]

HandledAsIfAlone == Alone!Spec

\* No two requests wait for each other: a request that began is answered,
\* unless it is lost, although it may block on three unique indexes.
RequestsAnswered ==
    \A q \in Requests : (pc[q] = "begun") ~> (pc[q] \in {"answered", "lost"})

=============================================================================
