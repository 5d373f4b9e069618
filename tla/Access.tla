------------------------------ MODULE Access ------------------------------
(***************************************************************************)
(* API keys, browser sessions and the requests that use, create and revoke *)
(* them (server/auth.py, routers/keys.py, routers/oauth.py).  A credential *)
(* is a key, or the session of one login at GitHub.  A request runs in its *)
(* own thread and database session: what it read may be stale when it      *)
(* commits, and what it flushed is gone unless the commit succeeds, which  *)
(* it does not if another request took the next place in the org's audit   *)
(* trail.  One browser holds the two cookies.                              *)
(***************************************************************************)
EXTENDS Naturals, FiniteSets, SequencesExt

CONSTANTS
    ApiKeys,        \* keys that may be created
    Logins,         \* logins started at GitHub; a session is named after its
    Tenants,        \* orgs
    Home,           \* [ApiKeys \cup Logins -> Tenants]
    Admins,         \* credentials whose user is an admin of the org
    Strangers,      \* logins of an email that is in no org
    Requests,       \* requests in flight
    NoCred,         \* no cookie, no credential
    MaxTrail        \* bound: audit entries of an org

Creds == ApiKeys \cup Logins

ASSUME AccessAssumption ==
    /\ ApiKeys \cap Logins = {} /\ NoCred \notin Creds
    /\ Home \in [Creds -> Tenants]
    /\ Admins \subseteq Creds /\ Strangers \subseteq Logins
    /\ IsFiniteSet(Requests)

VARIABLES
    row,            \* a credential's row: "none", "active" or "revoked"
    expired,        \* sessions past expires_at
    spent,          \* codes GitHub has exchanged
    accessTrail,    \* an org's audit entries about its credentials
    stateCookie,    \* the login the state cookie is of
    jar,            \* the session in the session cookie
    call,           \* a request: what it does, by and to which credential
    \* history
    confirmed       \* credentials whose revocation was answered with success

access == <<row, expired, spent, accessTrail, stateCookie, jar, call, confirmed>>
cookies == <<stateCookie, jar>>

Steps == {"idle", "read", "use", "act", "exchange", "head", "commit", "answer"}

NoCall == [step |-> "idle", op |-> "none", by |-> NoCred, on |-> NoCred,
           head |-> 0]

AccessInit ==
    /\ row = [c \in Creds |-> "none"]
    /\ expired = {} /\ spent = {}
    /\ accessTrail = [o \in Tenants |-> << >>]
    /\ stateCookie = NoCred /\ jar = NoCred
    /\ call = [r \in Requests |-> NoCall]
    /\ confirmed = {}

\* serve add-key: an operator mints a key, which no audit entry tells.
AddKey(k) ==
    /\ row[k] = "none" /\ \A q \in Requests : call[q].on # k
    /\ row' = [row EXCEPT ![k] = "active"]
    /\ UNCHANGED <<expired, spent, accessTrail, cookies, call, confirmed>>

\* SESSION_TTL is over.
Expire(l) ==
    /\ row[l] # "none" /\ l \notin expired
    /\ expired' = expired \cup {l}
    /\ UNCHANGED <<row, spent, accessTrail, cookies, call, confirmed>>

\* is_active.
Active(c) == row[c] = "active" /\ c \notin expired

-----------------------------------------------------------------------------
(* The steps of a request.                                                 *)

Continue(r, c) ==
    /\ call' = [call EXCEPT ![r] = c]
    /\ UNCHANGED <<row, expired, spent, accessTrail, cookies, confirmed>>

\* A request with a bearer key, or with the session cookie of the browser.
Present(r, op, c, k) ==
    /\ call[r].step = "idle"
    /\ c \in Logins => jar = c
    /\ row[c] # "none"
    /\ CASE op = "create" -> /\ k \in ApiKeys /\ row[k] = "none" /\ Home[k] = Home[c]
                             /\ \A q \in Requests : call[q].on # k
         [] op = "revoke" -> k \in ApiKeys /\ row[k] # "none"
         [] op = "list"   -> k = c
    /\ Continue(r, [NoCall EXCEPT !.step = "read", !.op = op,
                                  !.by = c, !.on = k])

\* authenticate or authenticate_session_cookie; 401 unless it is active.
ReadCredential(r) ==
    /\ call[r].step = "read"
    /\ Continue(r, IF Active(call[r].by)
                   THEN [call[r] EXCEPT !.step = "use"]
                   ELSE NoCall)

\* Mutant of Used: the commit writes back the row as it was read.
UsedWhole(r) == [row EXCEPT ![call[r].by] = "active"]

\* The rows after last_used_at is committed: nothing else is written.
Used(r) == row

UseCredential(r) ==
    /\ call[r].step = "use"
    /\ row' = Used(r)
    /\ call' = [call EXCEPT ![r].step = "act"]
    /\ UNCHANGED <<expired, spent, accessTrail, cookies, confirmed>>

\* list_keys and every other endpoint that leaves the credentials alone.
List(r) == call[r].step = "act" /\ call[r].op = "list" /\ Continue(r, NoCall)

\* create_key, which flushes the new row first; 403 unless an admin asks.
Create(r) ==
    /\ call[r].step = "act" /\ call[r].op = "create"
    /\ Continue(r, IF call[r].by \in Admins
                   THEN [call[r] EXCEPT !.step = "head"] ELSE NoCall)

\* Mutant of Revoked: revoked_at is not looked at.
RevokedUnchecked(c) == FALSE

Revoked(c) == row[c] = "revoked"

\* The row of revoke_key and of logout is loaded; nothing is left to do if it
\* is revoked, and a key of another org is not found.
Revoke(r) ==
    /\ call[r].step = "act" /\ call[r].op \in {"revoke", "logout"}
    /\ LET c == call[r].on
           may == \/ call[r].op = "logout"
                  \/ call[r].by \in Admins /\ Home[call[r].by] = Home[c]
       IN Continue(r, IF ~may THEN NoCall
                      ELSE IF Revoked(c) THEN [call[r] EXCEPT !.step = "answer"]
                      ELSE [call[r] EXCEPT !.step = "head"])

\* logout: the cookie alone names the session, expired or not.
Logout(r) ==
    /\ call[r].step = "idle" /\ jar # NoCred
    /\ Continue(r, [NoCall EXCEPT !.step = "act", !.op = "logout", !.on = jar])

\* github_login: one state cookie, whatever the number of tabs.
StartLogin(l) ==
    /\ l \notin spent /\ stateCookie # l
    /\ stateCookie' = l
    /\ UNCHANGED <<row, expired, spent, accessTrail, jar, call, confirmed>>

\* github_callback; 400 unless the state is that of the cookie.
Callback(r, l) ==
    /\ call[r].step = "idle" /\ stateCookie = l
    /\ Continue(r, [NoCall EXCEPT !.step = "exchange", !.op = "login", !.on = l])

\* GitHub takes a code once.  The answers may fail later, or the email be
\* unknown: 400, 403.
Exchange(r) ==
    /\ call[r].step = "exchange"
    /\ \/ /\ call[r].on \notin spent \cup Strangers
          /\ call' = [call EXCEPT ![r].step = "head"]
       \/ call' = [call EXCEPT ![r] = NoCall]
    /\ spent' = spent \cup {call[r].on}
    /\ UNCHANGED <<row, expired, accessTrail, cookies, confirmed>>

Org(r) == Home[call[r].on]

ReadTrail(r) ==
    /\ call[r].step = "head"
    /\ Len(accessTrail[Org(r)]) < MaxTrail
    /\ Continue(r, [call[r] EXCEPT !.step = "commit",
                                   !.head = Len(accessTrail[Org(r)])])

\* The next place in the trail was taken since.
PlaceTaken(r) == Len(accessTrail[Org(r)]) # call[r].head

Written(r) == IF call[r].op \in {"create", "login"} THEN "active" ELSE "revoked"

\* The row and its audit entry are one transaction; 500 without a trace if the
\* entry collides.
CommitRow(r) ==
    LET c == call[r].on IN
    /\ call[r].step = "commit"
    /\ \/ /\ PlaceTaken(r)
          /\ call' = [call EXCEPT ![r] = NoCall]
          /\ UNCHANGED <<row, accessTrail>>
       \/ /\ ~PlaceTaken(r)
          /\ call' = [call EXCEPT ![r].step = "answer"]
          /\ row' = [row EXCEPT ![c] = Written(r)]
          /\ accessTrail' = [accessTrail EXCEPT ![Org(r)] =
                                Append(@, <<Written(r), c>>)]
    /\ UNCHANGED <<expired, spent, cookies, confirmed>>

\* The answer arrives with its cookies.
Reply(r) ==
    /\ call[r].step = "answer"
    /\ call' = [call EXCEPT ![r] = NoCall]
    /\ CASE call[r].op = "login" ->
                /\ jar' = call[r].on /\ stateCookie' = NoCred
                /\ UNCHANGED confirmed
         [] call[r].op = "logout" ->
                /\ jar' = NoCred /\ confirmed' = confirmed \cup {call[r].on}
                /\ UNCHANGED stateCookie
         [] call[r].op = "revoke" ->
                /\ confirmed' = confirmed \cup {call[r].on}
                /\ UNCHANGED cookies
         [] OTHER -> UNCHANGED <<cookies, confirmed>>
    /\ UNCHANGED <<row, expired, spent, accessTrail>>

\* The process dies, a query fails or the client is gone.
Drop(r) == call[r].step # "idle" /\ Continue(r, NoCall)

Request(r) ==
    \/ \E c, k \in Creds, op \in {"list", "create", "revoke"} :
            Present(r, op, c, k)
    \/ ReadCredential(r) \/ UseCredential(r) \/ List(r) \/ Create(r)
    \/ Revoke(r) \/ Logout(r)
    \/ \E l \in Logins : Callback(r, l)
    \/ Exchange(r) \/ ReadTrail(r) \/ CommitRow(r) \/ Reply(r) \/ Drop(r)

AccessNext ==
    \/ \E k \in ApiKeys : AddKey(k)
    \/ \E l \in Logins : Expire(l) \/ StartLogin(l)
    \/ \E r \in Requests : Request(r)

AccessSpec == AccessInit /\ [][AccessNext]_access

-----------------------------------------------------------------------------
(* Properties.                                                             *)

Told(c, what) == Cardinality({i \in DOMAIN accessTrail[Home[c]] :
                                accessTrail[Home[c]][i] = <<what, c>>})

\* revoke_key and logout: once a caller was told that a credential is revoked,
\* it stays revoked, whatever other requests read before and commit later.
ConfirmedRevocationsHold == \A c \in confirmed : row[c] = "revoked"

\* A credential was revoked exactly if the trail says so, and no more
\* often than requests can be in flight at a time; a session exists exactly if
\* its one login is in the trail, and a key is created there at most once.
TrailTellsCredentials ==
    \A c \in Creds :
        /\ row[c] = "revoked" <=> Told(c, "revoked") > 0
        /\ Told(c, "revoked") <= Cardinality(Requests)
        /\ Told(c, "active") <= 1
        /\ c \in Logins => (row[c] # "none" <=> Told(c, "active") = 1)

=============================================================================
