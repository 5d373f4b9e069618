--------------------------- MODULE ServicesProofs ---------------------------
(***************************************************************************)
(* Proofs about four parts of the system that share no state: Access,      *)
(* PrefixCache, OneShot and Billing.  Each section begins with the         *)
(* argument its invariant makes.                                           *)
(***************************************************************************)
EXTENDS Access, PrefixCache, OneShot, Billing, FiniteSetTheorems, TLAPS

-----------------------------------------------------------------------------
(* Access.  A revocation can only be undone by a commit that writes        *)
(* "active" over it, so the invariant says who may: a request that creates *)
(* a key or logs in is alone with its credential and finds no row.         *)

Kinds == {"none", "list", "create", "revoke", "login", "logout"}

Maybe == Creds \cup {NoCred}

Entries == {"active", "revoked"} \X Creds

AccessTypes ==
    /\ row \in [Creds -> {"none", "active", "revoked"}]
    /\ spent \subseteq Logins
    /\ accessTrail \in [Tenants -> Seq(Entries)]
    /\ stateCookie \in Logins \cup {NoCred}
    /\ jar \in Logins \cup {NoCred}
    /\ call \in [Requests -> [step : Steps, op : Kinds, by : Maybe, on : Maybe,
                              head : Nat]]
    /\ confirmed \subseteq Creds

\* What a request is about, from what it is for and how far it got.
Subject(r) ==
    /\ call[r].step = "idle" <=> call[r].op = "none"
    /\ call[r].step # "idle" => call[r].on \in Creds
    /\ call[r].step \in {"read", "use"} =>
            call[r].by \in Creds /\ call[r].op \notin {"login", "logout"}
    /\ call[r].step \in {"head", "commit", "answer"} => call[r].op # "list"
    /\ call[r].step = "exchange" => call[r].op = "login"
    /\ call[r].op = "create" => call[r].on \in ApiKeys
    /\ call[r].op = "login" => call[r].on \in Logins

\* A request that may still write "active": for a new key from the start,
\* for a session once GitHub took the code.
WillActivate(r) ==
    \/ call[r].op = "create" /\ call[r].step # "answer"
    \/ call[r].op = "login" /\ call[r].step \in {"head", "commit"}

\* It finds no row, and no other request will write one.
Alone(r) ==
    WillActivate(r) =>
        /\ row[call[r].on] = "none"
        /\ call[r].op = "login" => call[r].on \in spent
        /\ \A q \in Requests \ {r} :
            /\ call[r].op = "create" => call[q].on # call[r].on
            /\ WillActivate(q) => call[q].on # call[r].on

\* The row a request revokes, or has revoked; the row of the session it is
\* about to hand out.
Grounded(r) ==
    /\ call[r].op \in {"revoke", "logout"} => row[call[r].on] # "none"
    /\ call[r].step = "answer" =>
        /\ row[call[r].on] # "none"
        /\ call[r].op \in {"revoke", "logout"} => row[call[r].on] = "revoked"

RequestsInv ==
    \A r \in Requests : Subject(r) /\ Alone(r) /\ Grounded(r)

\* The rows that cookies and answers promise.
CookiesInv ==
    /\ jar # NoCred => row[jar] # "none"
    /\ \A l \in Logins \ spent : row[l] = "none"
    /\ ConfirmedRevocationsHold

AccessInv == AccessTypes /\ RequestsInv /\ CookiesInv

Calls == [step : Steps, op : Kinds, by : Maybe, on : Maybe, head : Nat]

LEMMA AccessInitInv == AccessInit => AccessInv
<1>. SUFFICES ASSUME AccessInit
              PROVE  AccessInv
  OBVIOUS
<1>1. NoCall \in Calls
  BY DEF NoCall, Calls, Steps, Kinds, Maybe
<1>2. AccessTypes
  BY <1>1 DEF AccessInit, AccessTypes, Calls, Entries
<1>3. \A r \in Requests : call[r].step = "idle" /\ call[r].op = "none"
  BY DEF AccessInit, NoCall
<1>4. RequestsInv
  BY <1>3 DEF RequestsInv, Subject, Alone, Grounded, WillActivate
<1>5. CookiesInv
  BY DEF AccessInit, CookiesInv, ConfirmedRevocationsHold, Creds
<1>. QED  BY <1>2, <1>4, <1>5 DEF AccessInv

\* One request takes a step that writes no row.
Turns(r, c) ==
    /\ c \in Calls
    /\ call' = [call EXCEPT ![r] = c]
    /\ row' = row /\ accessTrail' = accessTrail /\ spent \subseteq spent'

LEMMA Turned ==
    ASSUME AccessInv, NEW r \in Requests, NEW c \in Calls, Turns(r, c)
    PROVE  /\ call' \in [Requests -> Calls]
           /\ call'[r] = c
           /\ \A q \in Requests \ {r} : call'[q] = call[q]
BY DEF Turns, AccessInv, AccessTypes, Calls

\* A new call, or one that begins to write "active", must not meet another
\* that does.
LEMMA TurnKeeps ==
    ASSUME AccessInv, NEW r \in Requests, NEW c \in Calls, Turns(r, c),
           Subject(r)', Alone(r)', Grounded(r)',
           \A q \in Requests \ {r} :
               WillActivate(q) =>
                   /\ call[q].op = "create" => c.on # call[q].on
                   /\ WillActivate(r)' => c.on # call[q].on
    PROVE  RequestsInv'
<1>1. /\ call'[r] = c
      /\ \A q \in Requests \ {r} : call'[q] = call[q]
  BY Turned
<1>2. ASSUME NEW q \in Requests, q # r
      PROVE  Subject(q)' /\ Alone(q)' /\ Grounded(q)'
  <2>1. call'[q] = call[q] /\ row' = row /\ spent \subseteq spent'
    BY <1>1, <1>2 DEF Turns
  <2>2. Subject(q)' /\ Grounded(q)'
    BY <2>1 DEF AccessInv, RequestsInv, Subject, Grounded
  <2>3. Alone(q)
    BY DEF AccessInv, RequestsInv
  <2>4. WillActivate(q)' => WillActivate(q)
    BY <2>1 DEF WillActivate
  <2>5. ASSUME WillActivate(q)', NEW p \in Requests, p # q
        PROVE  /\ call'[q].op = "create" => call'[p].on # call'[q].on
               /\ WillActivate(p)' => call'[p].on # call'[q].on
    <3>1. CASE p = r
      BY <1>1, <2>1, <2>4, <2>5, <3>1
    <3>2. CASE p # r
      <4>1. call'[p] = call[p]
        BY <1>1, <3>2
      <4>. QED  BY <2>1, <2>3, <2>4, <2>5, <4>1 DEF Alone, WillActivate
    <3>. QED  BY <3>1, <3>2
  <2>6. Alone(q)'
    BY <2>1, <2>3, <2>4, <2>5 DEF Alone
  <2>. QED  BY <2>2, <2>6
<1>. QED  BY <1>2 DEF RequestsInv

\* A call that goes on with what it was about, or is over, meets nobody new.
LEMMA GoesOn ==
    ASSUME AccessInv, NEW r \in Requests, NEW c \in Calls, Turns(r, c),
           \/ c = NoCall
           \/ /\ c.op = call[r].op /\ c.on = call[r].on
              /\ WillActivate(r)' => WillActivate(r)
              /\ Subject(r)' /\ Grounded(r)'
    PROVE  RequestsInv'
<1>1. /\ call'[r] = c
      /\ \A q \in Requests \ {r} : call'[q] = call[q]
  BY Turned
<1>2. \A q \in Requests : Subject(q) /\ Alone(q)
  BY DEF AccessInv, RequestsInv
<1>3. CASE c = NoCall
  <2>1. c.step = "idle" /\ c.op = "none" /\ c.on = NoCred
    BY <1>3 DEF NoCall
  <2>2. Subject(r)' /\ Alone(r)' /\ Grounded(r)' /\ ~WillActivate(r)'
    BY <1>1, <2>1 DEF Subject, Alone, Grounded, WillActivate
  <2>3. \A q \in Requests : WillActivate(q) => call[q].on # NoCred
    BY <1>2, AccessAssumption DEF WillActivate, Subject, Creds
  <2>. QED  BY <2>1, <2>2, <2>3, TurnKeeps
<1>4. CASE /\ c.op = call[r].op /\ c.on = call[r].on
           /\ WillActivate(r)' => WillActivate(r)
           /\ Subject(r)' /\ Grounded(r)'
  <2>1. \A q \in Requests \ {r} : WillActivate(q)' <=> WillActivate(q)
    BY <1>1 DEF WillActivate
  <2>2. Alone(r)'
    <3>1. row' = row /\ spent \subseteq spent'
      BY DEF Turns
    <3>. QED  BY <1>1, <1>2, <1>4, <2>1, <3>1 DEF Alone
  <2>3. \A q \in Requests \ {r} :
            WillActivate(q) =>
                /\ call[q].op = "create" => c.on # call[q].on
                /\ WillActivate(r)' => c.on # call[q].on
    BY <1>2, <1>4 DEF Alone
  <2>. QED  BY <1>4, <2>2, <2>3, TurnKeeps
<1>. QED  BY <1>3, <1>4

LEMMA AccessStep ==
    ASSUME AccessInv, [AccessNext]_access
    PROVE  AccessInv'
<1>1. AccessTypes /\ RequestsInv /\ CookiesInv
  BY DEF AccessInv
<1>2. \A r \in Requests : call[r] \in Calls /\ Subject(r) /\ Alone(r) /\ Grounded(r)
  BY <1>1 DEF AccessTypes, Calls, RequestsInv
<1>3. NoCall \in Calls /\ Creds = ApiKeys \cup Logins /\ NoCred \notin Creds
  BY AccessAssumption DEF NoCall, Calls, Steps, Kinds, Maybe, Creds
<1>4. ASSUME NEW r \in Requests, NEW c \in Calls, Turns(r, c), RequestsInv',
             UNCHANGED <<spent, cookies, confirmed>>
      PROVE  AccessInv'
  BY <1>1, <1>4, Turned
     DEF Turns, cookies, AccessInv, AccessTypes, Calls, CookiesInv,
         ConfirmedRevocationsHold
<1>5. ASSUME NEW k \in ApiKeys, AddKey(k)
      PROVE  AccessInv'
  <2>1. /\ row[k] = "none" /\ \A q \in Requests : call[q].on # k
        /\ row' = [row EXCEPT ![k] = "active"]
        /\ UNCHANGED <<spent, accessTrail, stateCookie, jar, call, confirmed>>
    BY <1>5 DEF AddKey, cookies
  <2>2. RequestsInv'
    BY <1>1, <1>2, <1>3, <2>1
       DEF AccessTypes, RequestsInv, Subject, Alone, Grounded, WillActivate
  <2>3. AccessTypes' /\ CookiesInv'
    BY <1>1, <1>3, <2>1, AccessAssumption
       DEF AccessTypes, CookiesInv, ConfirmedRevocationsHold
  <2>. QED  BY <2>2, <2>3 DEF AccessInv
<1>6. ASSUME UNCHANGED <<row, spent, accessTrail, jar, call, confirmed>>,
             stateCookie' \in Logins \cup {NoCred}
      PROVE  AccessInv'
  BY <1>1, <1>6
     DEF AccessInv, AccessTypes, RequestsInv, CookiesInv, Subject, Alone, Grounded,
         WillActivate, ConfirmedRevocationsHold
<1>7. ASSUME NEW r \in Requests, Request(r)
      PROVE  AccessInv'
  <2>1. ASSUME Continue(r, NoCall)
        PROVE  AccessInv'
    <3>1. Turns(r, NoCall) /\ UNCHANGED <<spent, cookies, confirmed>>
      BY <1>3, <2>1 DEF Continue, Turns
    <3>. QED  BY <1>3, <1>4, <3>1, GoesOn
  <2>2. ASSUME NEW s \in Steps, NEW h \in Nat,
               Continue(r, [call[r] EXCEPT !.step = s, !.head = h]),
               call[r].step # "idle", s # "idle",
               s \in {"read", "use"} => call[r].step = "read",
               s = "exchange" => call[r].step = "exchange",
               s \in {"head", "commit", "answer"} => call[r].op # "list",
               s \in {"head", "commit"} =>
                   call[r].step \in {"head", "commit"} \/ call[r].op # "login",
               s = "answer" =>
                   /\ row[call[r].on] # "none"
                   /\ call[r].op \in {"revoke", "logout"}
                        => row[call[r].on] = "revoked",
               call[r].step = "answer" => s = "answer"
        PROVE  AccessInv'
    <3>. DEFINE c == [call[r] EXCEPT !.step = s, !.head = h]
    <3>1. /\ c \in Calls /\ c.op = call[r].op /\ c.on = call[r].on
          /\ c.by = call[r].by /\ c.step = s
      BY <1>2 DEF Calls
    <3>. HIDE DEF c
    <3>2. Turns(r, c) /\ UNCHANGED <<spent, cookies, confirmed>>
      BY <2>2, <3>1 DEF Continue, Turns, c
    <3>3. call'[r] = c /\ row' = row
      BY <3>1, <3>2, Turned DEF Turns
    <3>4. WillActivate(r)' => WillActivate(r)
      BY <2>2, <3>1, <3>3 DEF WillActivate
    <3>5. Subject(r)' /\ Grounded(r)'
      BY <1>2, <2>2, <3>1, <3>3 DEF Subject, Grounded
    <3>. QED  BY <1>4, <3>1, <3>2, <3>4, <3>5, GoesOn
  \* A new call, about a credential that is there or that nobody else is about.
  <2>3. ASSUME NEW c \in Calls, Continue(r, c), c.step # "answer",
               c.op \in {"create", "revoke", "list", "logout", "login"}, c.on \in Creds,
               c.step \in {"read", "use"} =>
                   c.by \in Creds /\ c.op \notin {"login", "logout"},
               c.step \in {"read", "act", "exchange"},
               c.step = "exchange" <=> c.op = "login",
               c.op = "login" => c.on \in Logins,
               c.op = "create" => /\ c.on \in ApiKeys /\ row[c.on] = "none"
                                  /\ \A q \in Requests : call[q].on # c.on,
               c.op \notin {"create", "login"} => row[c.on] # "none"
        PROVE  AccessInv'
    <3>1. Turns(r, c) /\ UNCHANGED <<spent, cookies, confirmed>>
      BY <2>3 DEF Continue, Turns
    <3>2. /\ call'[r] = c /\ row' = row /\ spent' = spent
          /\ \A q \in Requests \ {r} : call'[q] = call[q]
      BY <3>1, Turned DEF Turns
    <3>3. Subject(r)' /\ Grounded(r)'
      BY <2>3, <3>2 DEF Subject, Grounded
    <3>4. WillActivate(r)' => c.op = "create"
      BY <2>3, <3>2 DEF WillActivate
    <3>5. Alone(r)'
      BY <2>3, <3>2, <3>4 DEF Alone
    <3>6. \A q \in Requests \ {r} :
              WillActivate(q) =>
                  /\ call[q].op = "create" => c.on # call[q].on
                  /\ WillActivate(r)' => c.on # call[q].on
      <4>1. ASSUME NEW q \in Requests, WillActivate(q), call[q].op = "create"
            PROVE  c.on # call[q].on
        <5>1. row[call[q].on] = "none" /\ call[q].on \in ApiKeys
          BY <1>2, <4>1 DEF Alone, Subject
        <5>2. CASE c.op = "login"
          BY <2>3, <5>1, <5>2, AccessAssumption
        <5>. QED  BY <2>3, <5>1, <5>2
      <4>. QED  BY <2>3, <3>4, <4>1
    <3>. QED  BY <1>4, <3>1, <3>3, <3>5, <3>6, TurnKeeps
  <2>4. ASSUME NEW c \in Creds, NEW k \in Creds,
               NEW op \in {"list", "create", "revoke"}, Present(r, op, c, k)
        PROVE  AccessInv'
    <3>. DEFINE new == [NoCall EXCEPT !.step = "read", !.op = op, !.by = c, !.on = k]
    <3>1. new.step = "read" /\ new.op = op /\ new.by = c /\ new.on = k
      BY <1>3 DEF Calls
    <3>2. new \in Calls
      BY <1>3 DEF Calls, Steps, Kinds, Maybe
    <3>3. /\ op = "create" => /\ k \in ApiKeys /\ row[k] = "none"
                              /\ \A q \in Requests : call[q].on # k
          /\ op # "create" => row[k] # "none"
          /\ Continue(r, new)
      BY <2>4 DEF Present
    <3>. HIDE DEF new
    <3>. QED  BY <2>3, <3>1, <3>2, <3>3
  <2>5. CASE ReadCredential(r)
    <3>1. CASE Active(call[r].by)
      <4>1. [call[r] EXCEPT !.step = "use"]
              = [call[r] EXCEPT !.step = "use", !.head = call[r].head]
        BY <1>2 DEF Calls
      <4>2. Continue(r, [call[r] EXCEPT !.step = "use", !.head = call[r].head])
        BY <2>5, <3>1, <4>1 DEF ReadCredential
      <4>. QED  BY <1>2, <2>2, <2>5, <4>2 DEF ReadCredential, Steps, Calls
    <3>2. CASE ~Active(call[r].by)
      BY <2>1, <2>5, <3>2 DEF ReadCredential
    <3>. QED  BY <3>1, <3>2
  <2>6. CASE UseCredential(r)
    <3>1. [call EXCEPT ![r].step = "act"]
            = [call EXCEPT ![r] = [call[r] EXCEPT !.step = "act", !.head = call[r].head]]
      BY <1>1, <1>2 DEF AccessTypes, Calls
    <3>2. Continue(r, [call[r] EXCEPT !.step = "act", !.head = call[r].head])
      BY <2>6, <3>1 DEF UseCredential, Used, Continue
    <3>. QED  BY <1>2, <2>2, <2>6, <3>2 DEF UseCredential, Steps, Calls
  <2>7. CASE List(r)
    BY <2>1, <2>7 DEF List
  <2>8. CASE Create(r)
    <3>1. [call[r] EXCEPT !.step = "head"]
            = [call[r] EXCEPT !.step = "head", !.head = call[r].head]
      BY <1>2 DEF Calls
    <3>2. CASE Continue(r, [call[r] EXCEPT !.step = "head", !.head = call[r].head])
      BY <1>2, <2>2, <2>8, <3>2 DEF Create, Steps, Calls
    <3>. QED  BY <2>1, <2>8, <3>1, <3>2 DEF Create
  <2>9. CASE Revoke(r)
    <3>1. ASSUME NEW s \in {"answer", "head"},
                 s = "answer" => row[call[r].on] = "revoked",
                 Continue(r, [call[r] EXCEPT !.step = s])
          PROVE  AccessInv'
      <4>1. [call[r] EXCEPT !.step = s]
              = [call[r] EXCEPT !.step = s, !.head = call[r].head]
        BY <1>2 DEF Calls
      <4>2. Continue(r, [call[r] EXCEPT !.step = s, !.head = call[r].head])
        BY <3>1, <4>1
      <4>3. call[r].step = "act" /\ call[r].op \in {"revoke", "logout"}
        BY <2>9 DEF Revoke
      <4>4. s \in Steps /\ call[r].head \in Nat
        BY <1>2 DEF Steps, Calls
      <4>. QED  BY <2>2, <3>1, <4>2, <4>3, <4>4
    <3>2. CASE Continue(r, NoCall)
      BY <2>1, <3>2
    <3>3. CASE Continue(r, [call[r] EXCEPT !.step = "head"])
      BY <3>1, <3>3
    <3>4. CASE /\ Revoked(call[r].on)
               /\ Continue(r, [call[r] EXCEPT !.step = "answer"])
      BY <3>1, <3>4 DEF Revoked
    <3>. QED  BY <2>9, <3>2, <3>3, <3>4 DEF Revoke
  <2>10. CASE Logout(r)
    <3>. DEFINE new == [NoCall EXCEPT !.step = "act", !.op = "logout", !.on = jar]
    <3>1. new.step = "act" /\ new.op = "logout" /\ new.on = jar
      BY <1>3 DEF Calls
    <3>2. jar \in Creds /\ row[jar] # "none" /\ Continue(r, new)
      BY <1>1, <1>3, <2>10 DEF Logout, AccessTypes, CookiesInv
    <3>3. new \in Calls
      BY <1>3, <3>2 DEF Calls, Steps, Kinds, Maybe
    <3>. HIDE DEF new
    <3>. QED  BY <2>3, <3>1, <3>2, <3>3
  <2>11. ASSUME NEW l \in Logins, Callback(r, l)
         PROVE  AccessInv'
    <3>. DEFINE new == [NoCall EXCEPT !.step = "exchange", !.op = "login", !.on = l]
    <3>1. new.step = "exchange" /\ new.op = "login" /\ new.on = l
      BY <1>3 DEF Calls
    <3>2. l \in Creds /\ Continue(r, new)
      BY <1>3, <2>11 DEF Callback
    <3>3. new \in Calls
      BY <1>3, <3>2 DEF Calls, Steps, Kinds, Maybe
    <3>. HIDE DEF new
    <3>. QED  BY <2>3, <3>1, <3>2, <3>3
  <2>12. CASE Exchange(r)
    <3>1. /\ call[r].step = "exchange" /\ call[r].op = "login"
          /\ call[r].on \in Logins /\ spent' = spent \cup {call[r].on}
          /\ UNCHANGED <<row, accessTrail, cookies, confirmed>>
      BY <1>2, <2>12 DEF Exchange, Subject
    <3>2. spent' \subseteq Logins
      BY <1>1, <3>1 DEF AccessTypes
    <3>3. CookiesInv'
      BY <1>1, <3>1 DEF CookiesInv, cookies, ConfirmedRevocationsHold
    <3>4. ASSUME NEW c \in Calls, call' = [call EXCEPT ![r] = c], RequestsInv'
          PROVE  AccessInv'
      BY <1>1, <3>1, <3>2, <3>3, <3>4
         DEF AccessInv, AccessTypes, Calls, cookies
    <3>5. CASE call' = [call EXCEPT ![r] = NoCall]
      BY <1>3, <3>1, <3>4, <3>5, GoesOn DEF Turns
    <3>6. CASE /\ call[r].on \notin spent
               /\ call' = [call EXCEPT ![r].step = "head"]
      <4>. DEFINE c == [call[r] EXCEPT !.step = "head"]
      <4>1. /\ c \in Calls /\ c.step = "head" /\ c.op = "login"
            /\ c.on = call[r].on
        BY <1>2, <3>1 DEF Calls, Steps
      <4>2. call' = [call EXCEPT ![r] = c]
        BY <1>1, <1>2, <3>6 DEF AccessTypes, Calls
      <4>. HIDE DEF c
      <4>3. Turns(r, c)
        BY <3>1, <4>1, <4>2 DEF Turns
      <4>4. /\ call'[r] = c
            /\ \A q \in Requests \ {r} : call'[q] = call[q]
        BY <4>1, <4>3, Turned
      <4>5. Subject(r)' /\ Grounded(r)'
        BY <1>3, <3>1, <4>1, <4>4 DEF Subject, Grounded
      <4>6. \A q \in Requests \ {r} : WillActivate(q) => call[q].on # c.on
        <5>1. ASSUME NEW q \in Requests, WillActivate(q), call[q].on = c.on
              PROVE  FALSE
          BY <1>2, <3>1, <3>6, <4>1, <5>1, AccessAssumption
             DEF WillActivate, Alone, Subject
        <5>. QED  BY <5>1
      <4>7. Alone(r)'
        <5>1. \A q \in Requests \ {r} : WillActivate(q)' <=> WillActivate(q)
          BY <4>4 DEF WillActivate
        <5>2. row'[c.on] = "none" /\ c.on \in spent'
          BY <1>1, <3>1, <3>6, <4>1 DEF CookiesInv
        <5>. QED  BY <4>1, <4>4, <4>6, <5>1, <5>2 DEF Alone
      <4>8. \A q \in Requests \ {r} :
                WillActivate(q) =>
                    /\ call[q].op = "create" => c.on # call[q].on
                    /\ WillActivate(r)' => c.on # call[q].on
        BY <4>6
      <4>. QED  BY <3>4, <4>1, <4>2, <4>3, <4>5, <4>7, <4>8, TurnKeeps
    <3>. QED  BY <2>12, <3>5, <3>6 DEF Exchange
  <2>13. CASE ReadTrail(r)
    <3>1. Org(r) \in Tenants /\ call[r].step = "head"
      BY <1>2, <2>13, AccessAssumption DEF ReadTrail, Org, Subject, Creds
    <3>2. Len(accessTrail[Org(r)]) \in Nat
      BY <1>1, <3>1 DEF AccessTypes
    <3>3. Continue(r, [call[r] EXCEPT !.step = "commit", !.head = Len(accessTrail[Org(r)])])
      BY <2>13 DEF ReadTrail
    <3>4. call[r].op # "list"
      BY <1>2, <3>1 DEF Subject
    <3>. QED  BY <2>2, <3>1, <3>2, <3>3, <3>4 DEF Steps
  <2>14. CASE CommitRow(r)
    <3>. DEFINE c == call[r].on
    <3>1. /\ call[r].step = "commit" /\ c \in Creds /\ call[r].op \in Kinds
          /\ UNCHANGED <<spent, stateCookie, jar, confirmed>>
      BY <1>2, <2>14 DEF CommitRow, Subject, Calls, cookies
    <3>2. CASE call' = [call EXCEPT ![r] = NoCall] /\ UNCHANGED <<row, accessTrail>>
      <4>1. Turns(r, NoCall) /\ UNCHANGED <<spent, cookies, confirmed>>
        BY <1>3, <3>1, <3>2 DEF Turns, cookies
      <4>. QED  BY <1>3, <1>4, <4>1, GoesOn
    <3>3. CASE /\ call' = [call EXCEPT ![r].step = "answer"]
               /\ row' = [row EXCEPT ![c] = Written(r)]
               /\ accessTrail' = [accessTrail EXCEPT ![Org(r)] =
                                     Append(@, <<Written(r), c>>)]
      <4>1. /\ call'[r] = [call[r] EXCEPT !.step = "answer"]
            /\ \A q \in Requests \ {r} : call'[q] = call[q]
            /\ call' \in [Requests -> Calls]
        BY <1>1, <1>2, <3>3 DEF AccessTypes, Calls, Steps
      <4>2. /\ call'[r].step = "answer" /\ call'[r].op = call[r].op
            /\ call'[r].on = c
        BY <1>2, <4>1 DEF Calls
      <4>3. /\ row' \in [Creds -> {"none", "active", "revoked"}]
            /\ row'[c] = Written(r)
            /\ \A d \in Creds \ {c} : row'[d] = row[d]
        BY <1>1, <3>1, <3>3 DEF AccessTypes, Written
      <4>4. Org(r) \in Tenants /\ <<Written(r), c>> \in Entries
        BY <3>1, AccessAssumption DEF Org, Written, Entries
      <4>5. accessTrail' \in [Tenants -> Seq(Entries)]
        BY <1>1, <3>3, <4>4 DEF AccessTypes
      \* "active" is only written where nothing was.
      <4>6. Written(r) = "revoked" <=> call[r].op \in {"revoke", "logout"}
        BY <1>2, <3>1 DEF Written, Subject, Kinds
      <4>7. call[r].op \notin {"revoke", "logout"} => WillActivate(r) /\ row[c] = "none"
        <5>1. call[r].op \notin {"revoke", "logout"} => WillActivate(r)
          BY <1>2, <3>1 DEF WillActivate, Subject, Kinds
        <5>. QED  BY <1>2, <5>1 DEF Alone
      <4>8. Written(r) \in {"active", "revoked"}
        BY DEF Written
      <4>9. Subject(r)' /\ Alone(r)' /\ Grounded(r)'
        BY <1>2, <3>1, <4>2, <4>3, <4>6, <4>8
           DEF Subject, Alone, Grounded, WillActivate
      <4>10. ASSUME NEW q \in Requests, q # r
             PROVE  Subject(q)' /\ Alone(q)' /\ Grounded(q)'
        <5>1. call'[q] = call[q]
          BY <4>1, <4>10
        <5>2. Subject(q)'
          BY <1>2, <5>1 DEF Subject
        <5>3. WillActivate(q) => call[q].on # c
          <6>1. CASE call[r].op \in {"revoke", "logout"}
            BY <1>2, <6>1 DEF Alone, Grounded
          <6>2. CASE call[r].op \notin {"revoke", "logout"}
            BY <1>2, <4>7, <4>10, <6>2 DEF Alone
          <6>. QED  BY <6>1, <6>2
        <5>4. \A p \in Requests : WillActivate(p)' => WillActivate(p)
          BY <4>1, <4>2 DEF WillActivate
        <5>5. \A p \in Requests : call'[p].on = call[p].on
          BY <4>1, <4>2
        <5>6. Alone(q)'
          <6>1. ASSUME WillActivate(q)
                PROVE  row'[call[q].on] = "none"
            <7>1. call[q].on \in Creds
              BY <1>2, <1>3, <6>1 DEF Subject, WillActivate
            <7>. QED  BY <1>2, <4>3, <5>3, <6>1, <7>1 DEF Alone
          <6>. QED  BY <1>2, <3>1, <5>1, <5>4, <5>5, <6>1 DEF Alone
        <5>7. Grounded(q)'
          <6>1. CASE call[q].on = c
            BY <1>2, <4>3, <4>6, <4>7, <4>8, <5>1, <6>1 DEF Grounded
          <6>2. CASE call[q].on # c /\ call[q].step # "idle"
            BY <1>2, <4>3, <5>1, <6>2 DEF Grounded, Subject
          <6>3. CASE call[q].step = "idle" /\ call[q].on # c
            BY <1>2, <4>3, <5>1, <6>3 DEF Grounded, Subject
          <6>. QED  BY <6>1, <6>2, <6>3
        <5>. QED  BY <5>2, <5>6, <5>7
      <4>11. RequestsInv'
        BY <4>9, <4>10 DEF RequestsInv
      <4>12. CookiesInv'
        <5>1. jar # NoCred => row'[jar] # "none"
          BY <1>1, <1>3, <4>3, <4>8 DEF AccessTypes, CookiesInv
        <5>2. \A l \in Logins \ spent : row'[l] = "none"
          <6>1. c \in Logins => c \in spent
            <7>1. CASE call[r].op \in {"revoke", "logout"}
              BY <1>1, <1>2, <7>1 DEF CookiesInv, Grounded
            <7>2. CASE call[r].op \notin {"revoke", "logout"}
              BY <1>2, <1>3, <3>1, <4>7, <7>2, AccessAssumption
                 DEF Alone, Subject, WillActivate
            <7>. QED  BY <7>1, <7>2
          <6>. QED  BY <1>1, <1>3, <4>3, <6>1 DEF CookiesInv
        <5>3. \A d \in confirmed : row'[d] = "revoked"
          <6>1. c \in confirmed => Written(r) = "revoked"
            BY <1>1, <4>6, <4>7 DEF CookiesInv, ConfirmedRevocationsHold
          <6>. QED
            BY <1>1, <4>3, <6>1
               DEF AccessTypes, CookiesInv, ConfirmedRevocationsHold
        <5>. QED
          BY <3>1, <5>1, <5>2, <5>3 DEF CookiesInv, ConfirmedRevocationsHold
      <4>. QED
        BY <1>1, <3>1, <4>1, <4>3, <4>5, <4>11, <4>12
           DEF AccessInv, AccessTypes, Calls
    <3>. QED  BY <2>14, <3>2, <3>3 DEF CommitRow
  <2>15. CASE Reply(r)
    <3>1. /\ call[r].step = "answer" /\ call[r].on \in Creds
          /\ call' = [call EXCEPT ![r] = NoCall]
          /\ UNCHANGED <<row, spent, accessTrail>>
      BY <1>2, <2>15 DEF Reply, Subject
    <3>2. RequestsInv'
      BY <1>3, <3>1, GoesOn DEF Turns
    <3>3. /\ row[call[r].on] # "none"
          /\ call[r].op \in {"revoke", "logout"} => row[call[r].on] = "revoked"
      BY <1>2, <3>1 DEF Grounded
    <3>4. CASE /\ call[r].op = "login" /\ jar' = call[r].on /\ stateCookie' = NoCred
               /\ UNCHANGED confirmed
      <4>1. call[r].on \in Logins
        BY <1>2, <3>4 DEF Subject
      <4>. QED
        BY <1>1, <1>3, <3>1, <3>2, <3>3, <3>4, <4>1
           DEF AccessInv, AccessTypes, Calls, CookiesInv, ConfirmedRevocationsHold
    <3>5. CASE /\ call[r].op \in {"revoke", "logout"}
               /\ jar' \in {jar, NoCred} /\ confirmed' = confirmed \cup {call[r].on}
               /\ UNCHANGED stateCookie
      BY <1>1, <1>3, <3>1, <3>2, <3>3, <3>5
         DEF AccessInv, AccessTypes, Calls, CookiesInv, ConfirmedRevocationsHold
    <3>6. CASE UNCHANGED <<cookies, confirmed>>
      BY <1>1, <1>3, <3>1, <3>2, <3>6
         DEF AccessInv, AccessTypes, Calls, CookiesInv, ConfirmedRevocationsHold,
             cookies
    <3>. QED  BY <2>15, <3>4, <3>5, <3>6 DEF Reply, cookies
  <2>16. CASE Drop(r)
    BY <2>1, <2>16 DEF Drop
  <2>. QED
    BY <1>7, <2>4, <2>5, <2>6, <2>7, <2>8, <2>9, <2>10, <2>11, <2>12, <2>13,
       <2>14, <2>15, <2>16 DEF Request
<1>8. ASSUME NEW l \in Logins, Expire(l) \/ StartLogin(l)
      PROVE  AccessInv'
  BY <1>1, <1>6, <1>8 DEF Expire, StartLogin, cookies, AccessTypes
<1>9. CASE UNCHANGED access
  BY <1>1, <1>6, <1>9 DEF access, AccessTypes
<1>. QED  BY <1>5, <1>7, <1>8, <1>9 DEF AccessNext

\* revoke_key and logout: a credential whose revocation was answered with
\* success stays revoked, whatever the requests in flight read before, for any
\* number of keys, logins, orgs and requests.
THEOREM RevocationsHold == AccessSpec => []ConfirmedRevocationsHold
<1>1. AccessInv /\ [AccessNext]_access => AccessInv'
  BY AccessStep
<1>2. AccessInv => ConfirmedRevocationsHold
  BY DEF AccessInv, CookiesInv
<1>. QED
  BY AccessInitInv, <1>1, <1>2, PTL DEF AccessSpec

-----------------------------------------------------------------------------
(* What the trail tells.  At the moment a credential is first revoked every *)
(* request may be about to revoke it too; from then on no other begins to,  *)
(* so the entries and the requests still on their way stay within the       *)
(* number of requests.                                                      *)

Tells(s, e) == Cardinality({i \in DOMAIN s : s[i] = e})

LEMMA TellsOne ==
    ASSUME NEW s \in Seq(Entries), NEW x \in Entries, NEW e
    PROVE  /\ Tells(s, e) \in Nat
           /\ Tells(Append(s, x), e) = Tells(s, e) + (IF x = e THEN 1 ELSE 0)
<1>. DEFINE at  == {i \in DOMAIN s : s[i] = e}
            now == {i \in DOMAIN Append(s, x) : Append(s, x)[i] = e}
<1>1. /\ Len(s) \in Nat /\ DOMAIN s = 1..Len(s)
      /\ DOMAIN Append(s, x) = 1..(Len(s) + 1)
      /\ Append(s, x)[Len(s) + 1] = x
      /\ \A i \in 1..Len(s) : Append(s, x)[i] = s[i]
  OBVIOUS
<1>2. IsFiniteSet(at) /\ Cardinality(at) \in Nat
  <2>1. IsFiniteSet(1..Len(s))
    BY <1>1, FS_Interval
  <2>2. at \subseteq 1..Len(s)
    BY <1>1
  <2>. QED  BY <2>1, <2>2, FS_Subset, FS_CardinalityType
<1>3. CASE x = e
  <2>1. now = at \cup {Len(s) + 1} /\ Len(s) + 1 \notin at
    BY <1>1, <1>3
  <2>2. Cardinality(now) = Cardinality(at) + 1
    BY <1>2, <2>1, FS_AddElement
  <2>. QED  BY <1>2, <1>3, <2>2 DEF Tells
<1>4. CASE x # e
  <2>1. now = at
    BY <1>1, <1>4
  <2>2. Tells(Append(s, x), e) = Tells(s, e)
    BY <2>1 DEF Tells
  <2>3. Tells(s, e) \in Nat
    BY <1>2 DEF Tells
  <2>. QED  BY <1>4, <2>2, <2>3
<1>. QED  BY <1>3, <1>4

Revoking(c) ==
    {r \in Requests : /\ call[r].step \in {"head", "commit"}
                      /\ call[r].op \in {"revoke", "logout"} /\ call[r].on = c}

\* A credential and its entries.
TellsRow(c) ==
    /\ row[c] = "none" => Told(c, "active") = 0
    /\ row[c] # "revoked" => Told(c, "revoked") = 0
    /\ row[c] = "revoked" =>
        /\ Told(c, "revoked") > 0
        /\ Told(c, "revoked") + Cardinality(Revoking(c)) <= Cardinality(Requests)
    /\ Told(c, "active") <= 1
    /\ c \in Logins /\ row[c] # "none" => Told(c, "active") = 1

TrailInv == \A c \in Creds : TellsRow(c)

LEMMA TrailInitInv == AccessInit => TrailInv
<1>. SUFFICES ASSUME AccessInit, NEW c \in Creds
              PROVE  TellsRow(c)
  BY DEF TrailInv
<1>1. row[c] = "none" /\ accessTrail[Home[c]] = << >>
  BY AccessAssumption DEF AccessInit, Creds
<1>2. ASSUME NEW what
      PROVE  Told(c, what) = 0
  <2>1. {i \in DOMAIN accessTrail[Home[c]] :
            accessTrail[Home[c]][i] = <<what, c>>} = {}
    BY <1>1
  <2>. QED  BY <2>1, FS_EmptySet DEF Told
<1>. QED  BY <1>1, <1>2 DEF TellsRow

LEMMA RevokingFinite ==
    ASSUME NEW c
    PROVE  /\ IsFiniteSet(Revoking(c)) /\ Cardinality(Revoking(c)) \in Nat
           /\ Cardinality(Revoking(c)) <= Cardinality(Requests)
           /\ Cardinality(Requests) \in Nat
<1>1. Revoking(c) \subseteq Requests
  BY DEF Revoking
<1>. QED  BY <1>1, AccessAssumption, FS_Subset, FS_CardinalityType

LEMMA RevokingFiniteNext ==
    TRUE => \A c : /\ IsFiniteSet(Revoking(c)') /\ Cardinality(Revoking(c)') \in Nat
                   /\ Cardinality(Revoking(c)') <= Cardinality(Requests)
<1>1. \A c : Revoking(c)' \subseteq Requests
  BY DEF Revoking
<1>. QED  BY <1>1, AccessAssumption, FS_Subset, FS_CardinalityType

\* The counts of a credential, before and after a step.
LEMMA ToldTypes ==
    ASSUME AccessTypes, NEW c \in Creds
    PROVE  /\ Told(c, "active") \in Nat /\ Told(c, "revoked") \in Nat
           /\ \A what : Told(c, what) = Tells(accessTrail[Home[c]], <<what, c>>)
<1>1. accessTrail[Home[c]] \in Seq(Entries)
  BY AccessAssumption DEF AccessTypes, Creds
<1>2. \A what : Told(c, what) = Tells(accessTrail[Home[c]], <<what, c>>)
  BY DEF Told, Tells
<1>3. <<"active", c>> \in Entries /\ <<"revoked", c>> \in Entries
  BY DEF Entries
<1>4. Tells(accessTrail[Home[c]], <<"active", c>>) \in Nat
  BY <1>1, <1>3, TellsOne
<1>5. Tells(accessTrail[Home[c]], <<"revoked", c>>) \in Nat
  BY <1>1, <1>3, TellsOne
<1>. QED  BY <1>2, <1>4, <1>5

\* A step that writes neither a row nor an entry, and sends nobody after a
\* credential that is revoked.
LEMMA QuietTrail ==
    ASSUME AccessTypes, TrailInv, row' = row, accessTrail' = accessTrail,
           \A c \in Creds : row[c] = "revoked" => Revoking(c)' \subseteq Revoking(c)
    PROVE  TrailInv'
<1>. SUFFICES ASSUME NEW c \in Creds
              PROVE  TellsRow(c)'
  BY DEF TrailInv
<1>1. \A what : Told(c, what)' = Told(c, what)
  BY DEF Told
<1>2. Told(c, "revoked") \in Nat
  BY ToldTypes
<1>3. row[c] = "revoked" => Cardinality(Revoking(c)') <= Cardinality(Revoking(c))
  BY RevokingFinite, FS_Subset
<1>4. /\ Cardinality(Revoking(c)) \in Nat /\ Cardinality(Requests) \in Nat
      /\ Cardinality(Revoking(c)') \in Nat
  BY RevokingFinite, RevokingFiniteNext
<1>5. TellsRow(c) /\ row'[c] = row[c]
  BY DEF TrailInv
<1>. QED  BY <1>1, <1>2, <1>3, <1>4, <1>5 DEF TellsRow

LEMMA TrailStep ==
    ASSUME AccessInv, TrailInv, [AccessNext]_access
    PROVE  TrailInv'
<1>1. AccessTypes /\ RequestsInv
  BY DEF AccessInv
<1>2. \A r \in Requests : call[r] \in Calls /\ Subject(r) /\ Alone(r) /\ Grounded(r)
  BY <1>1 DEF AccessTypes, Calls, RequestsInv
<1>3. ASSUME NEW k \in ApiKeys, AddKey(k)
      PROVE  TrailInv'
  <2>. SUFFICES ASSUME NEW c \in Creds
                PROVE  TellsRow(c)'
    BY DEF TrailInv
  <2>1. \A what : Told(c, what)' = Told(c, what)
    BY <1>3 DEF AddKey, Told
  <2>2. Revoking(c)' = Revoking(c)
    BY <1>3 DEF AddKey, Revoking
  <2>3. TellsRow(c)
    BY DEF TrailInv
  <2>4. CASE c = k
    <3>1. row[c] = "none" /\ row'[c] = "active" /\ c \notin Logins
      BY <1>1, <1>3, <2>4, AccessAssumption DEF AddKey, AccessTypes
    <3>. QED  BY <2>1, <2>3, <3>1 DEF TellsRow
  <2>5. CASE c # k
    <3>1. row'[c] = row[c]
      BY <1>1, <1>3, <2>5 DEF AddKey, AccessTypes
    <3>. QED  BY <2>1, <2>2, <2>3, <3>1 DEF TellsRow
  <2>. QED  BY <2>4, <2>5
<1>4. ASSUME NEW r \in Requests, Request(r)
      PROVE  TrailInv'
  <2>1. ASSUME NEW new \in Calls, call' = [call EXCEPT ![r] = new],
               row' = row, accessTrail' = accessTrail,
               \/ new.step \notin {"head", "commit"}
               \/ new.op \notin {"revoke", "logout"}
               \/ /\ new.op = call[r].op /\ new.on = call[r].on
                  /\ call[r].step \in {"head", "commit"} \/ row[new.on] # "revoked"
        PROVE  TrailInv'
    <3>1. /\ call'[r] = new
          /\ \A q \in Requests \ {r} : call'[q] = call[q]
      BY <1>1, <2>1 DEF AccessTypes
    <3>2. ASSUME NEW c \in Creds, row[c] = "revoked"
          PROVE  Revoking(c)' \subseteq Revoking(c)
      BY <2>1, <3>1, <3>2 DEF Revoking
    <3>. QED  BY <1>1, <2>1, <3>2, QuietTrail
  <2>2. NoCall \in Calls /\ NoCall.step = "idle"
    BY DEF NoCall, Calls, Steps, Kinds, Maybe
  <2>3. ASSUME NEW new \in Calls, Continue(r, new), new.step \notin {"head", "commit"}
        PROVE  TrailInv'
    BY <2>1, <2>3 DEF Continue
  <2>4. CASE Drop(r) \/ List(r)
    BY <2>2, <2>3, <2>4 DEF Drop, List
  <2>5. ASSUME NEW c \in Creds, NEW k \in Creds,
               NEW op \in {"list", "create", "revoke"}, Present(r, op, c, k)
        PROVE  TrailInv'
    <3>. DEFINE new == [NoCall EXCEPT !.step = "read", !.op = op, !.by = c, !.on = k]
    <3>1. new \in Calls /\ new.step = "read"
      BY <2>2 DEF Calls, Steps, Kinds, Maybe
    <3>2. Continue(r, new)
      BY <2>5 DEF Present
    <3>. HIDE DEF new
    <3>. QED  BY <2>3, <3>1, <3>2
  <2>6. CASE ReadCredential(r)
    <3>1. [call[r] EXCEPT !.step = "use"] \in Calls
      BY <1>2 DEF Calls, Steps
    <3>2. [call[r] EXCEPT !.step = "use"].step = "use"
      BY <1>2 DEF Calls
    <3>. QED  BY <2>2, <2>3, <2>6, <3>1, <3>2 DEF ReadCredential
  <2>7. CASE UseCredential(r)
    <3>1. [call[r] EXCEPT !.step = "act"] \in Calls
      BY <1>2 DEF Calls, Steps
    <3>2. [call[r] EXCEPT !.step = "act"].step = "act"
      BY <1>2 DEF Calls
    <3>3. call' = [call EXCEPT ![r] = [call[r] EXCEPT !.step = "act"]]
      BY <1>1, <2>7 DEF UseCredential, AccessTypes
    <3>. QED  BY <2>1, <2>7, <3>1, <3>2, <3>3 DEF UseCredential, Used
  <2>8. ASSUME NEW s \in {"head", "answer"},
               call[r].op \notin {"revoke", "logout"} \/ s = "answer"
                 \/ call[r].step = "head" \/ row[call[r].on] # "revoked",
               Continue(r, [call[r] EXCEPT !.step = s])
        PROVE  TrailInv'
    <3>1. [call[r] EXCEPT !.step = s] \in Calls
      BY <1>2 DEF Calls, Steps
    <3>2. /\ [call[r] EXCEPT !.step = s].step = s
          /\ [call[r] EXCEPT !.step = s].op = call[r].op
          /\ [call[r] EXCEPT !.step = s].on = call[r].on
      BY <1>2 DEF Calls
    <3>. QED  BY <2>1, <2>8, <3>1, <3>2 DEF Continue
  <2>9. CASE Create(r)
    <3>1. CASE Continue(r, [call[r] EXCEPT !.step = "head"])
      BY <2>8, <2>9, <3>1 DEF Create
    <3>. QED  BY <2>2, <2>3, <2>9, <3>1 DEF Create
  <2>10. CASE Revoke(r)
    <3>1. CASE Continue(r, NoCall)
      BY <2>2, <2>3, <3>1
    <3>2. CASE Continue(r, [call[r] EXCEPT !.step = "answer"])
      BY <2>8, <3>2
    <3>3. CASE /\ ~Revoked(call[r].on)
               /\ Continue(r, [call[r] EXCEPT !.step = "head"])
      BY <2>8, <3>3 DEF Revoked
    <3>. QED  BY <2>10, <3>1, <3>2, <3>3 DEF Revoke
  <2>11. CASE Logout(r)
    <3>. DEFINE new == [NoCall EXCEPT !.step = "act", !.op = "logout", !.on = jar]
    <3>1. jar \in Maybe /\ Continue(r, new)
      BY <1>1, <2>11 DEF Logout, AccessTypes, Maybe, Creds
    <3>2. new \in Calls /\ new.step = "act"
      BY <2>2, <3>1 DEF Calls, Steps, Kinds
    <3>. HIDE DEF new
    <3>. QED  BY <2>3, <3>1, <3>2
  <2>12. ASSUME NEW l \in Logins, Callback(r, l)
         PROVE  TrailInv'
    <3>. DEFINE new == [NoCall EXCEPT !.step = "exchange", !.op = "login", !.on = l]
    <3>1. new \in Calls /\ new.step = "exchange"
      BY <2>2 DEF Calls, Steps, Kinds, Maybe, Creds
    <3>2. Continue(r, new)
      BY <2>12 DEF Callback
    <3>. HIDE DEF new
    <3>. QED  BY <2>3, <3>1, <3>2
  <2>13. CASE Exchange(r)
    <3>1. row' = row /\ accessTrail' = accessTrail
      BY <2>13 DEF Exchange
    <3>2. CASE call' = [call EXCEPT ![r] = NoCall]
      BY <2>1, <2>2, <3>1, <3>2
    <3>3. CASE call' = [call EXCEPT ![r].step = "head"]
      <4>1. [call[r] EXCEPT !.step = "head"] \in Calls
        BY <1>2 DEF Calls, Steps
      <4>2. [call[r] EXCEPT !.step = "head"].op = "login"
        BY <1>2, <2>13 DEF Calls, Exchange, Subject
      <4>3. call' = [call EXCEPT ![r] = [call[r] EXCEPT !.step = "head"]]
        BY <1>1, <3>3 DEF AccessTypes
      <4>. QED  BY <2>1, <3>1, <4>1, <4>2, <4>3
    <3>. QED  BY <2>13, <3>2, <3>3 DEF Exchange
  <2>14. CASE ReadTrail(r)
    <3>. DEFINE new == [call[r] EXCEPT !.step = "commit",
                                       !.head = Len(accessTrail[Org(r)])]
    <3>1. accessTrail[Org(r)] \in Seq(Entries) /\ call[r].step = "head"
      BY <1>1, <1>2, <2>14, AccessAssumption
         DEF ReadTrail, Org, Subject, Creds, AccessTypes
    <3>2. Len(accessTrail[Org(r)]) \in Nat
      BY <3>1
    <3>3. new \in Calls /\ new.op = call[r].op /\ new.on = call[r].on
      BY <1>2, <3>2 DEF Calls, Steps
    <3>4. Continue(r, new)
      BY <2>14 DEF ReadTrail
    <3>. HIDE DEF new
    <3>. QED  BY <2>1, <3>1, <3>3, <3>4 DEF Continue
  <2>15. CASE CommitRow(r)
    <3>. DEFINE c == call[r].on
                what == Written(r)
    <3>1. /\ call[r].step = "commit" /\ c \in Creds
          /\ what \in {"active", "revoked"}
      BY <1>2, <2>15 DEF CommitRow, Subject, Written
    <3>2. CASE call' = [call EXCEPT ![r] = NoCall] /\ UNCHANGED <<row, accessTrail>>
      BY <2>1, <2>2, <3>2
    <3>3. CASE /\ call' = [call EXCEPT ![r].step = "answer"]
               /\ row' = [row EXCEPT ![c] = what]
               /\ accessTrail' = [accessTrail EXCEPT ![Org(r)] =
                                     Append(@, <<what, c>>)]
      <4>1. /\ call'[r].step = "answer"
            /\ \A q \in Requests \ {r} : call'[q] = call[q]
        BY <1>1, <1>2, <3>3 DEF AccessTypes, Calls
      <4>2. \A d \in Creds : Revoking(d)' \subseteq Revoking(d) \ {r}
        BY <4>1 DEF Revoking
      <4>3. row'[c] = what /\ \A d \in Creds \ {c} : row'[d] = row[d]
        BY <1>1, <3>1, <3>3 DEF AccessTypes
      <4>4. /\ what = "revoked" => r \in Revoking(c) /\ row[c] # "none"
            /\ what = "active" => row[c] = "none"
        <5>1. call[r].op \in {"revoke", "logout", "create", "login"}
          BY <1>2, <3>1 DEF Subject, Calls, Kinds
        <5>. QED  BY <1>2, <3>1, <5>1 DEF Written, Revoking, Alone, Grounded, WillActivate
      <4>5. <<what, c>> \in Entries /\ Home[c] = Org(r) /\ Org(r) \in Tenants
        BY <3>1, AccessAssumption DEF Org, Entries, Creds
      <4>6. ASSUME NEW d \in Creds, NEW which \in {"active", "revoked"}
            PROVE  /\ Told(d, which) \in Nat
                   /\ Told(d, which)' = Told(d, which)
                        + (IF d = c /\ which = what THEN 1 ELSE 0)
        <5>1. accessTrail[Home[d]] \in Seq(Entries) /\ Home[d] \in Tenants
          BY <1>1, AccessAssumption DEF AccessTypes, Creds
        <5>2. /\ Told(d, which) = Tells(accessTrail[Home[d]], <<which, d>>)
              /\ Told(d, which)' = Tells(accessTrail'[Home[d]], <<which, d>>)
          BY DEF Told, Tells
        <5>3. <<what, c>> = <<which, d>> <=> d = c /\ which = what
          OBVIOUS
        <5>4. CASE Home[d] = Org(r)
          <6>1. accessTrail'[Home[d]] = Append(accessTrail[Home[d]], <<what, c>>)
            BY <1>1, <3>3, <4>5, <5>4 DEF AccessTypes
          <6>. QED  BY <4>5, <5>1, <5>2, <5>3, <6>1, TellsOne
        <5>5. CASE Home[d] # Org(r)
          <6>1. accessTrail'[Home[d]] = accessTrail[Home[d]]
            BY <1>1, <3>3, <5>1, <5>5 DEF AccessTypes
          <6>2. d # c
            BY <4>5, <5>5
          <6>3. Told(d, which) \in Nat
            BY <1>1, ToldTypes
          <6>. QED  BY <5>2, <6>1, <6>2, <6>3
        <5>. QED  BY <5>4, <5>5
      <4>7. ASSUME NEW d \in Creds
            PROVE  TellsRow(d)'
        <5>1. TellsRow(d)
          BY DEF TrailInv
        <5>2. /\ Told(d, "active") \in Nat /\ Told(d, "revoked") \in Nat
              /\ Told(d, "active")' = Told(d, "active")
                    + (IF d = c /\ what = "active" THEN 1 ELSE 0)
              /\ Told(d, "revoked")' = Told(d, "revoked")
                    + (IF d = c /\ what = "revoked" THEN 1 ELSE 0)
          BY <4>6
        <5>3. /\ Cardinality(Revoking(d)') <= Cardinality(Revoking(d))
              /\ r \in Revoking(d) =>
                    Cardinality(Revoking(d)') <= Cardinality(Revoking(d)) - 1
          <6>1. IsFiniteSet(Revoking(d)) /\ IsFiniteSet(Revoking(d) \ {r})
            BY RevokingFinite, FS_Subset
          <6>2. Cardinality(Revoking(d)') <= Cardinality(Revoking(d) \ {r})
            BY <4>2, <6>1, FS_Subset
          <6>3. Cardinality(Revoking(d) \ {r}) =
                  IF r \in Revoking(d) THEN Cardinality(Revoking(d)) - 1
                                       ELSE Cardinality(Revoking(d))
            BY <6>1, FS_RemoveElement
          <6>. QED  BY <6>1, <6>2, <6>3, RevokingFinite, RevokingFiniteNext
        <5>4. /\ Cardinality(Revoking(d)) \in Nat /\ Cardinality(Requests) \in Nat
              /\ Cardinality(Revoking(d)) <= Cardinality(Requests)
              /\ Cardinality(Revoking(d)') \in Nat
          BY RevokingFinite, RevokingFiniteNext
        <5>5. CASE d # c
          BY <4>3, <5>1, <5>2, <5>3, <5>4, <5>5 DEF TellsRow
        <5>6. CASE d = c /\ what = "active"
          BY <4>3, <4>4, <5>1, <5>2, <5>6 DEF TellsRow
        <5>7. CASE d = c /\ what = "revoked"
          BY <4>3, <4>4, <5>1, <5>2, <5>3, <5>4, <5>7 DEF TellsRow
        <5>. QED  BY <3>1, <5>5, <5>6, <5>7
      <4>. QED  BY <4>7 DEF TrailInv
    <3>. QED  BY <2>15, <3>2, <3>3 DEF CommitRow
  <2>16. CASE Reply(r)
    BY <2>1, <2>2, <2>16 DEF Reply
  <2>. QED
    BY <1>4, <2>4, <2>5, <2>6, <2>7, <2>9, <2>10, <2>11, <2>12, <2>13, <2>14,
       <2>15, <2>16 DEF Request
<1>5. ASSUME UNCHANGED <<row, accessTrail, call>>
      PROVE  TrailInv'
  <2>1. \A c \in Creds : Revoking(c)' = Revoking(c)
    BY <1>5 DEF Revoking
  <2>. QED  BY <1>1, <1>5, <2>1, QuietTrail
<1>6. ASSUME NEW l \in Logins, Expire(l) \/ StartLogin(l)
      PROVE  TrailInv'
  BY <1>5, <1>6 DEF Expire, StartLogin
<1>7. CASE UNCHANGED access
  BY <1>5, <1>7 DEF access
<1>. QED  BY <1>3, <1>4, <1>6, <1>7 DEF AccessNext

\* The rows and the audit trail tell the same story: a revocation is there
\* exactly if its entry is, a session exactly if its one login is, for any
\* number of orgs, credentials and requests.
THEOREM TrailTells == AccessSpec => []TrailTellsCredentials
<1>1. AccessInv /\ TrailInv /\ [AccessNext]_access => AccessInv' /\ TrailInv'
  BY AccessStep, TrailStep
<1>2. AccessInv /\ TrailInv => TrailTellsCredentials
  <2>. SUFFICES ASSUME AccessInv, TrailInv, NEW c \in Creds
                PROVE  /\ row[c] = "revoked" <=> Told(c, "revoked") > 0
                       /\ Told(c, "revoked") <= Cardinality(Requests)
                       /\ Told(c, "active") <= 1
                       /\ c \in Logins => (row[c] # "none" <=> Told(c, "active") = 1)
    BY DEF TrailTellsCredentials
  <2>1. TellsRow(c)
    BY DEF TrailInv
  <2>2. Told(c, "active") \in Nat /\ Told(c, "revoked") \in Nat
    BY ToldTypes DEF AccessInv
  <2>3. Cardinality(Revoking(c)) \in Nat /\ Cardinality(Requests) \in Nat
    BY RevokingFinite
  <2>. QED  BY <2>1, <2>2, <2>3 DEF TellsRow
<1>. QED
  BY AccessInitInv, TrailInitInv, <1>1, <1>2, PTL DEF AccessSpec

-----------------------------------------------------------------------------
(* PrefixCache.  A record vouches for the prefix: unless the call on record *)
(* took too long or the provider dropped a prefix since it began, the       *)
(* provider has kept it from near the time of the record on.  A call that   *)
(* misses in spite of such a record came too late for it, so the check,     *)
(* which is later still, lets it pass.                                      *)

Records == [hash : Versions, at : Nat, n : Nat, long : BOOLEAN, dropped : Nat]

TurnStates == [step : {"idle", "asked", "streaming", "record"},
           hash : Versions \cup {NoRecord}, read : BOOLEAN, began : Nat,
           saved : Nat, dropped : Nat, by : Records \cup {NoRecord}]

PrefixTypes ==
    /\ minute \in Nat /\ saves \in Nat /\ drops \in Nat
    /\ prefix \in [Versions -> Nat \cup {Gone}]
    /\ stateFile \in Records \cup {NoRecord}
    /\ turn \in [Commands -> TurnStates]
    /\ \A v \in Versions : prefix[v] # Gone => prefix[v] <= minute

\* The provider has kept the version since that minute, or longer.
KeptSince(v, since) == prefix[v] # Gone /\ prefix[v] >= since

\* The record is a sound witness that its prefix was kept.
Vouches(r) == r # NoRecord /\ ~r.long /\ r.dropped = drops

RecordVouches ==
    /\ stateFile # NoRecord => stateFile.dropped <= drops /\ stateFile.n <= saves
    /\ Vouches(stateFile) =>
            KeptSince(stateFile.hash, stateFile.at - (ProviderTtl - CacheTtl))

TurnInv(c) ==
    /\ turn[c].step # "idle" => turn[c].hash \in Versions
    /\ turn[c].began <= minute /\ turn[c].saved <= saves /\ turn[c].dropped <= drops
    /\ turn[c].step \in {"streaming", "record"} /\ turn[c].dropped = drops =>
            KeptSince(turn[c].hash, turn[c].began)
    /\ /\ turn[c].step \in {"asked", "streaming"} /\ ~turn[c].read
       /\ Vouches(stateFile) /\ stateFile.hash = turn[c].hash
       /\ stateFile.n <= turn[c].saved
       => turn[c].began > stateFile.at + CacheTtl
    /\ turn[c].by # NoRecord =>
        \/ drops > turn[c].by.dropped
        \/ turn[c].by.n > turn[c].saved
        \/ turn[c].by.long

PrefixInv == PrefixTypes /\ RecordVouches /\ \A c \in Commands : TurnInv(c)

LEMMA PrefixInitInv == PrefixInit => PrefixInv
<1>. SUFFICES ASSUME PrefixInit
              PROVE  PrefixInv
  OBVIOUS
<1>1. NoTurn \in TurnStates /\ NoTurn.step = "idle" /\ NoTurn.by = NoRecord
      /\ NoTurn.began = 0 /\ NoTurn.saved = 0 /\ NoTurn.dropped = 0
  BY DEF NoTurn, TurnStates
<1>2. PrefixTypes
  BY <1>1 DEF PrefixInit, PrefixTypes
<1>3. RecordVouches
  BY DEF PrefixInit, RecordVouches, Vouches
<1>4. ASSUME NEW c \in Commands
      PROVE  TurnInv(c)
  BY <1>1 DEF PrefixInit, TurnInv
<1>. QED  BY <1>2, <1>3, <1>4 DEF PrefixInv

LEMMA PrefixStep ==
    ASSUME PrefixInv, [PrefixNext]_prefixCache
    PROVE  PrefixInv'
<1>1. PrefixTypes /\ RecordVouches /\ \A c \in Commands : TurnInv(c)
  BY DEF PrefixInv
<1>2. \A c \in Commands : turn[c] \in TurnStates
  BY <1>1 DEF PrefixTypes
<1>3. NoTurn \in TurnStates /\ NoTurn.step = "idle" /\ NoTurn.by = NoRecord
      /\ NoTurn.began = 0 /\ NoTurn.saved = 0 /\ NoTurn.dropped = 0
  BY DEF NoTurn, TurnStates
<1>4. CASE TimePasses
  BY <1>1, <1>4
     DEF TimePasses, PrefixInv, PrefixTypes, RecordVouches, Vouches, KeptSince,
         TurnInv, TurnStates
<1>5. ASSUME NEW v \in Versions, DropPrefix(v)
      PROVE  PrefixInv'
  <2>1. drops' = drops + 1 /\ drops' \in Nat /\ UNCHANGED <<minute, stateFile, turn, saves>>
    BY <1>1, <1>5 DEF DropPrefix, PrefixTypes
  <2>2. PrefixTypes'
    BY <1>1, <1>5, <2>1 DEF DropPrefix, PrefixTypes
  <2>3. RecordVouches'
    BY <1>1, <2>1 DEF RecordVouches, Vouches, PrefixTypes, Records
  <2>4. ASSUME NEW c \in Commands
        PROVE  TurnInv(c)'
    <3>1. turn[c].dropped < drops' /\ ~Vouches(stateFile)'
      BY <1>1, <1>2, <2>1
         DEF TurnInv, RecordVouches, Vouches, PrefixTypes, Records, TurnStates
    <3>2. turn[c].by # NoRecord => turn[c].by.dropped \in Nat
      BY <1>2 DEF TurnStates, Records
    <3>. QED  BY <1>1, <1>2, <2>1, <3>1, <3>2 DEF TurnInv, TurnStates, PrefixTypes
  <2>. QED  BY <2>2, <2>3, <2>4 DEF PrefixInv
\* A prefix that is used again is kept no shorter.
<1>6. ASSUME NEW c \in Commands, NEW new \in TurnStates,
             turn' = [turn EXCEPT ![c] = new],
             \/ prefix' = prefix
             \/ \E v \in Versions : prefix' = [prefix EXCEPT ![v] = minute],
             UNCHANGED <<minute, stateFile, saves, drops>>, TurnInv(c)'
      PROVE  PrefixInv'
  <2>1. /\ turn'[c] = new /\ turn' \in [Commands -> TurnStates]
        /\ \A d \in Commands \ {c} : turn'[d] = turn[d]
    BY <1>1, <1>6 DEF PrefixTypes
  <2>2. minute \in Nat /\ minute # Gone
    BY <1>1, PrefixAssumption DEF PrefixTypes
  <2>3. \A v \in Versions : prefix'[v] \in {prefix[v], minute}
    BY <1>1, <1>6 DEF PrefixTypes
  <2>4. PrefixTypes'
    BY <1>1, <1>6, <2>1, <2>2, <2>3 DEF PrefixTypes
  <2>5. ASSUME NEW v \in Versions, NEW s \in Int, KeptSince(v, s)
        PROVE  prefix'[v] # Gone /\ prefix'[v] >= s
    <3>1. prefix[v] \in Nat /\ prefix[v] <= minute
      BY <1>1, <2>5 DEF PrefixTypes, KeptSince
    <3>. QED  BY <2>2, <2>3, <2>5, <3>1 DEF KeptSince
  <2>6. RecordVouches'
    <3>1. ASSUME Vouches(stateFile)'
          PROVE  KeptSince(stateFile.hash, stateFile.at - (ProviderTtl - CacheTtl))'
      <4>1. Vouches(stateFile) /\ stateFile \in Records
        BY <1>1, <1>6, <3>1 DEF Vouches, PrefixTypes
      <4>2. /\ stateFile.hash \in Versions
            /\ stateFile.at - (ProviderTtl - CacheTtl) \in Int
        BY <4>1, PrefixAssumption DEF Records
      <4>3. KeptSince(stateFile.hash, stateFile.at - (ProviderTtl - CacheTtl))
        BY <1>1, <4>1 DEF RecordVouches
      <4>. QED  BY <1>6, <2>5, <4>2, <4>3 DEF KeptSince
    <3>. QED  BY <1>1, <1>6, <3>1 DEF RecordVouches
  <2>7. ASSUME NEW d \in Commands, d # c
        PROVE  TurnInv(d)'
    <3>1. turn'[d] = turn[d]
      BY <2>1, <2>7
    <3>2. PICK v, s : v = turn[d].hash /\ s = turn[d].began
      OBVIOUS
    <3>3. turn[d].step # "idle" => v \in Versions /\ s \in Int
      BY <1>1, <1>2, <3>2 DEF TurnInv, TurnStates
    <3>4. turn[d].step \in {"streaming", "record"} /\ turn[d].dropped = drops =>
            prefix'[v] # Gone /\ prefix'[v] >= s
      BY <1>1, <2>5, <3>2, <3>3 DEF TurnInv
    <3>. QED  BY <1>1, <1>6, <3>1, <3>2, <3>4 DEF TurnInv, Vouches, KeptSince
  <2>. QED  BY <1>6, <2>4, <2>6, <2>7 DEF PrefixInv
<1>7. ASSUME NEW c \in Commands, NEW v \in Versions, AskProvider(c, v)
      PROVE  PrefixInv'
  <2>1. PICK new : new = [NoTurn EXCEPT !.step = IF Kept(v) THEN "streaming" ELSE "asked",
                              !.hash = v, !.read = Kept(v),
                              !.began = minute, !.saved = saves, !.dropped = drops]
    OBVIOUS
  <2>2. /\ new.step = (IF Kept(v) THEN "streaming" ELSE "asked") /\ new.hash = v
        /\ new.read = Kept(v) /\ new.began = minute /\ new.saved = saves
        /\ new.dropped = drops /\ new.by = NoRecord
    BY <1>3, <2>1 DEF TurnStates
  <2>3. Kept(v) \in BOOLEAN
    BY DEF Kept
  <2>4. new \in TurnStates
    BY <1>1, <1>3, <2>1, <2>3 DEF TurnStates, PrefixTypes
  <2>5. /\ turn' = [turn EXCEPT ![c] = new]
        /\ UNCHANGED <<minute, stateFile, saves, drops>>
    BY <1>7, <2>1 DEF AskProvider
  <2>6. turn'[c] = new
    BY <1>1, <2>5 DEF PrefixTypes
  <2>7. CASE Kept(v)
    <3>1. prefix' = [prefix EXCEPT ![v] = minute]
      BY <1>7, <2>7 DEF AskProvider
    <3>2. prefix'[v] = minute /\ minute \in Nat /\ minute # Gone
      BY <1>1, <3>1, PrefixAssumption DEF PrefixTypes
    <3>3. saves \in Nat /\ drops \in Nat
      BY <1>1 DEF PrefixTypes
    <3>4. turn'[c].read /\ turn'[c].step = "streaming"
      BY <2>2, <2>6, <2>7
    <3>5. TurnInv(c)'
      BY <2>2, <2>5, <2>6, <3>2, <3>3, <3>4 DEF TurnInv, KeptSince
    <3>. QED  BY <1>6, <2>4, <2>5, <3>1, <3>5
  <2>8. CASE ~Kept(v)
    <3>1. prefix' = prefix
      BY <1>7, <2>8 DEF AskProvider
    <3>2. minute \in Nat /\ saves \in Nat /\ drops \in Nat
      BY <1>1 DEF PrefixTypes
    \* A sound record is too old for the prefix to be gone.
    <3>3. ASSUME Vouches(stateFile), stateFile.hash = v
          PROVE  minute > stateFile.at + CacheTtl
      <4>1. stateFile \in Records
        BY <1>1, <3>3 DEF Vouches, PrefixTypes
      <4>2. stateFile.at \in Nat
        BY <4>1 DEF Records
      <4>3. KeptSince(v, stateFile.at - (ProviderTtl - CacheTtl))
        BY <1>1, <3>3 DEF RecordVouches
      <4>4. prefix[v] \in Nat
        BY <1>1, <4>3 DEF PrefixTypes, KeptSince
      <4>5. minute - prefix[v] > ProviderTtl
        BY <2>8, <3>2, <4>3, <4>4, PrefixAssumption DEF Kept, KeptSince
      <4>. QED  BY <3>2, <4>2, <4>3, <4>4, <4>5, PrefixAssumption DEF KeptSince
    <3>4. TurnInv(c)'
      BY <2>2, <2>5, <2>6, <2>8, <3>1, <3>2, <3>3 DEF TurnInv, Vouches
    <3>. QED  BY <1>6, <2>4, <2>5, <3>1, <3>4
  <2>. QED  BY <2>7, <2>8
<1>8. ASSUME NEW c \in Commands, AnswerBegins(c)
      PROVE  PrefixInv'
  <2>. DEFINE new == [turn[c] EXCEPT !.step = "streaming"]
  <2>1. /\ turn[c].step = "asked" /\ turn' = [turn EXCEPT ![c] = new]
        /\ prefix' = [prefix EXCEPT ![turn[c].hash] = minute]
        /\ UNCHANGED <<minute, stateFile, saves, drops>>
    BY <1>1, <1>8 DEF AnswerBegins, PrefixTypes
  <2>2. new \in TurnStates /\ turn[c].hash \in Versions
    BY <1>1, <1>2, <2>1 DEF TurnStates, TurnInv
  <2>3. turn'[c] = new
    BY <1>1, <2>1 DEF PrefixTypes
  <2>4. /\ new.step = "streaming" /\ new.hash = turn[c].hash
        /\ new.read = turn[c].read /\ new.began = turn[c].began
        /\ new.saved = turn[c].saved /\ new.dropped = turn[c].dropped
        /\ new.by = turn[c].by
    BY <1>2 DEF TurnStates
  <2>5. prefix'[turn[c].hash] = minute /\ minute # Gone
    BY <1>1, <2>1, <2>2, PrefixAssumption DEF PrefixTypes
  <2>. HIDE DEF new
  <2>6. TurnInv(c)'
    BY <1>1, <2>1, <2>3, <2>4, <2>5 DEF TurnInv, KeptSince, Vouches
  <2>. QED  BY <1>6, <2>1, <2>2, <2>6
<1>9. ASSUME NEW c \in Commands, CheckMiss(c)
      PROVE  PrefixInv'
  <2>1. PICK why : why = IF Suspected(c, stateFile) THEN stateFile ELSE NoRecord
    OBVIOUS
  <2>. DEFINE new == [turn[c] EXCEPT !.step = "record", !.by = why]
  <2>2. /\ turn[c].step = "streaming" /\ turn' = [turn EXCEPT ![c] = new]
        /\ UNCHANGED <<minute, prefix, stateFile, saves, drops>>
    BY <1>1, <1>9, <2>1 DEF CheckMiss, PrefixTypes
  <2>3. why \in Records \cup {NoRecord}
    BY <1>1, <2>1 DEF PrefixTypes
  <2>4. new \in TurnStates
    BY <1>2, <2>3 DEF TurnStates
  <2>5. turn'[c] = new
    BY <1>1, <2>2 DEF PrefixTypes
  <2>6. /\ new.step = "record" /\ new.hash = turn[c].hash
        /\ new.read = turn[c].read /\ new.began = turn[c].began
        /\ new.saved = turn[c].saved /\ new.dropped = turn[c].dropped
        /\ new.by = why
    BY <1>2 DEF TurnStates
  <2>. HIDE DEF new
  <2>7. ASSUME why # NoRecord
        PROVE  drops > why.dropped \/ why.n > turn[c].saved \/ why.long
    <3>1. Suspected(c, why) /\ why = stateFile /\ why \in Records
      BY <2>1, <2>3, <2>7
    <3>2. /\ why.at \in Nat /\ why.n \in Nat /\ why.dropped \in Nat
          /\ minute \in Nat /\ drops \in Nat /\ turn[c].began \in Nat
          /\ turn[c].saved \in Nat
      BY <1>1, <1>2, <3>1 DEF Records, PrefixTypes, TurnStates
    <3>3. why.dropped <= drops /\ turn[c].began <= minute
      BY <1>1, <2>7, <3>1 DEF RecordVouches, TurnInv
    <3>4. ASSUME ~why.long, why.dropped = drops, why.n <= turn[c].saved
          PROVE  FALSE
      <4>1. turn[c].began > why.at + CacheTtl
        BY <1>1, <2>2, <2>7, <3>1, <3>4 DEF TurnInv, Vouches, Suspected
      <4>. QED  BY <3>1, <3>2, <3>3, <4>1, PrefixAssumption DEF Suspected
    <3>. QED  BY <3>2, <3>3, <3>4
  <2>8. TurnInv(c)'
    BY <1>1, <2>2, <2>5, <2>6, <2>7 DEF TurnInv, KeptSince
  <2>. QED  BY <1>6, <2>2, <2>4, <2>8
<1>10. ASSUME NEW c \in Commands, RecordCall(c)
       PROVE  PrefixInv'
  <2>1. /\ turn[c].step = "record" /\ saves' = saves + 1
        /\ turn' = [turn EXCEPT ![c] = NoTurn] /\ UNCHANGED <<minute, prefix, drops>>
    BY <1>10 DEF RecordCall
  <2>2. /\ turn'[c] = NoTurn /\ turn' \in [Commands -> TurnStates]
        /\ \A d \in Commands \ {c} : turn'[d] = turn[d]
    BY <1>1, <1>3, <2>1 DEF PrefixTypes
  <2>3. /\ minute \in Nat /\ saves \in Nat /\ drops \in Nat
        /\ \A d \in Commands : turn[d].saved \in Nat /\ turn[d].saved <= saves
    BY <1>1, <1>2 DEF PrefixTypes, TurnInv, TurnStates
  <2>4. CASE stateFile' \in {stateFile, NoRecord}
    <3>1. stateFile' \in Records \cup {NoRecord}
      BY <1>1, <2>4 DEF PrefixTypes
    <3>2. PrefixTypes'
      BY <1>1, <2>1, <2>2, <2>3, <3>1 DEF PrefixTypes
    <3>3. Vouches(stateFile)' => Vouches(stateFile) /\ stateFile' = stateFile
      BY <2>1, <2>4 DEF Vouches
    <3>4. RecordVouches'
      BY <1>1, <2>1, <2>3, <2>4, <3>3
         DEF RecordVouches, KeptSince, PrefixTypes, Records
    <3>5. ASSUME NEW d \in Commands
          PROVE  TurnInv(d)'
      <4>1. CASE d = c
        BY <1>3, <2>1, <2>2, <2>3, <4>1 DEF TurnInv
      <4>2. CASE d # c
        BY <1>1, <2>1, <2>2, <2>3, <3>3, <4>2 DEF TurnInv, KeptSince
      <4>. QED  BY <4>1, <4>2
    <3>. QED  BY <3>2, <3>4, <3>5 DEF PrefixInv
  <2>5. CASE stateFile' = [hash |-> turn[c].hash, at |-> minute, n |-> saves + 1,
                           long |-> minute - turn[c].began > ProviderTtl - CacheTtl,
                           dropped |-> turn[c].dropped]
    <3>1. /\ stateFile'.hash = turn[c].hash /\ stateFile'.at = minute
          /\ stateFile'.n = saves + 1 /\ stateFile'.dropped = turn[c].dropped
          /\ stateFile'.long = (minute - turn[c].began > ProviderTtl - CacheTtl)
      BY <2>5
    <3>2. /\ turn[c].hash \in Versions /\ turn[c].dropped \in Nat
          /\ turn[c].began \in Nat /\ turn[c].dropped <= drops
      BY <1>1, <1>2, <2>1 DEF TurnInv, TurnStates
    <3>3. stateFile' \in Records
      BY <2>3, <2>5, <3>2 DEF Records
    <3>4. PrefixTypes'
      BY <1>1, <2>1, <2>2, <2>3, <3>3 DEF PrefixTypes
    <3>5. RecordVouches'
      <4>1. ASSUME Vouches(stateFile)'
            PROVE  /\ prefix[turn[c].hash] # Gone
                   /\ prefix[turn[c].hash] >= minute - (ProviderTtl - CacheTtl)
        <5>1. turn[c].dropped = drops /\ minute - turn[c].began <= ProviderTtl - CacheTtl
          <6>1. ~stateFile'.long /\ stateFile'.dropped = drops
            BY <2>1, <4>1 DEF Vouches
          <6>2. ~(minute - turn[c].began > ProviderTtl - CacheTtl)
            BY <3>1, <6>1
          <6>. QED  BY <2>3, <3>1, <3>2, <6>1, <6>2, PrefixAssumption
        <5>2. KeptSince(turn[c].hash, turn[c].began)
          BY <1>1, <2>1, <5>1 DEF TurnInv
        <5>3. prefix[turn[c].hash] \in Nat
          BY <1>1, <3>2, <5>2 DEF PrefixTypes, KeptSince
        <5>. QED  BY <2>3, <3>2, <5>1, <5>2, <5>3, PrefixAssumption DEF KeptSince
      <4>. QED
        BY <2>1, <2>3, <3>1, <3>2, <4>1 DEF RecordVouches, KeptSince
    <3>6. ASSUME NEW d \in Commands
          PROVE  TurnInv(d)'
      <4>1. CASE d = c
        BY <1>3, <2>1, <2>2, <2>3, <4>1 DEF TurnInv
      <4>2. CASE d # c
        <5>1. ~(stateFile'.n <= turn[d].saved)
          BY <2>3, <3>1
        <5>. QED  BY <1>1, <2>1, <2>2, <2>3, <4>2, <5>1 DEF TurnInv, KeptSince
      <4>. QED  BY <4>1, <4>2
    <3>. QED  BY <3>4, <3>5, <3>6 DEF PrefixInv
  <2>. QED  BY <1>10, <2>4, <2>5 DEF RecordCall
<1>11. ASSUME NEW c \in Commands, CallEnds(c)
       PROVE  PrefixInv'
  <2>1. TurnInv(c)'
    BY <1>1, <1>3, <1>11 DEF CallEnds, TurnInv, PrefixTypes
  <2>. QED  BY <1>3, <1>6, <1>11, <2>1 DEF CallEnds
<1>12. CASE UNCHANGED prefixCache
  BY <1>1, <1>12
     DEF prefixCache, PrefixInv, PrefixTypes, RecordVouches, Vouches, KeptSince,
         TurnInv
<1>. QED
  BY <1>4, <1>5, <1>7, <1>8, <1>9, <1>10, <1>11, <1>12 DEF PrefixNext

\* check_for_silent_miss: whatever calls overlap, whatever records they
\* overwrite and for any lifetimes, a warning is only given for a prefix that
\* the provider dropped, or next to one of the two calls the record is not
\* about.
THEOREM WarningsHaveACause == PrefixSpec => []WarningsAreEarned
<1>1. PrefixInv /\ [PrefixNext]_prefixCache => PrefixInv'
  BY PrefixStep
<1>2. PrefixInv => WarningsAreEarned
  BY DEF PrefixInv, TurnInv, WarningsAreEarned
<1>. QED
  BY PrefixInitInv, <1>1, <1>2, PTL DEF PrefixSpec

-----------------------------------------------------------------------------
(* OneShot.  A file in the cache is named after the call that created it:   *)
(* it is the file of that call's request, and whatever an overlapping       *)
(* process leaves in it is the answer to the same request, or unreadable.   *)

Bills == [wants : Wanted, cost : Costs]

ShotSteps == {"idle", "start", "look", "call", "open", "write", "rename",
              "usage", "replay"}

\* Steps at which the provider has been paid, and the log not yet written.
Owing == {"open", "write", "rename", "usage"}

ShotStates == [step : ShotSteps, wants : Wanted \cup {NoAnswer}, keeps : BOOLEAN,
               answer : Nat \cup {NoAnswer}, file : Nat \cup {NoFile}]

OneShotTypes ==
    /\ billed \in Seq(Bills) /\ Len(billed) <= MaxCalls
    /\ logged \in Nat
    /\ cacheFile \in [Wanted -> Nat \cup {NoFile}]
    /\ tempFile \in [Wanted -> Nat \cup {NoFile}]
    /\ content \in [1..MaxCalls -> Nat \cup {Empty, Torn}]
    /\ shot \in [Shots -> ShotStates]
    /\ unlogged \subseteq DOMAIN billed

\* Call n answered the request w.
Answers(n, w) == n \in DOMAIN billed /\ billed[n].wants = w

FilesFit ==
    /\ \A w \in Wanted : /\ cacheFile[w] # NoFile => Answers(cacheFile[w], w)
                         /\ tempFile[w] # NoFile => Answers(tempFile[w], w)
    /\ \A f \in 1..MaxCalls :
            content[f] \notin {Empty, Torn} =>
                /\ f \in DOMAIN billed
                /\ Answers(content[f], billed[f].wants)

ShotFits(s) ==
    /\ shot[s].step # "idle" => shot[s].wants \in Wanted
    /\ shot[s].step \in Owing \cup {"replay"} => Answers(shot[s].answer, shot[s].wants)
    /\ shot[s].step \notin Owing \cup {"replay"} => shot[s].answer = NoAnswer
    /\ shot[s].step = "write" => Answers(shot[s].file, shot[s].wants)

FitInv == OneShotTypes /\ FilesFit /\ \A s \in Shots : ShotFits(s)

LEMMA OneShotInitInv == OneShotInit => FitInv
<1>. SUFFICES ASSUME OneShotInit
              PROVE  FitInv
  OBVIOUS
<1>1. /\ Resting \in ShotStates /\ Resting.step = "idle"
      /\ Resting.answer = NoAnswer
  BY DEF Resting, ShotStates, ShotSteps
<1>2. OneShotTypes
  BY <1>1, OneShotAssumption DEF OneShotInit, OneShotTypes
<1>3. FilesFit
  BY DEF OneShotInit, FilesFit
<1>4. \A s \in Shots : ShotFits(s)
  BY <1>1 DEF OneShotInit, ShotFits, Owing
<1>. QED  BY <1>2, <1>3, <1>4 DEF FitInv

\* The bill only grows.
Grows == \/ billed' = billed
         \/ \E b \in Bills : billed' = Append(billed, b)

LEMMA StillAnswers ==
    ASSUME OneShotTypes, Grows
    PROVE  /\ billed' \in Seq(Bills)
           /\ DOMAIN billed \subseteq DOMAIN billed'
           /\ \A n \in DOMAIN billed : billed'[n] = billed[n]
           /\ \A n, w : Answers(n, w) => Answers(n, w)'
<1>1. billed \in Seq(Bills)
  BY DEF OneShotTypes
<1>2. CASE billed' = billed
  BY <1>1, <1>2 DEF Answers
<1>3. ASSUME NEW b \in Bills, billed' = Append(billed, b)
      PROVE  /\ billed' \in Seq(Bills)
             /\ DOMAIN billed \subseteq DOMAIN billed'
             /\ \A n \in DOMAIN billed : billed'[n] = billed[n]
  BY <1>1, <1>3
<1>4. CASE \E b \in Bills : billed' = Append(billed, b)
  BY <1>3, <1>4 DEF Answers
<1>. QED  BY <1>2, <1>4 DEF Grows

LEMMA FilesKeep ==
    ASSUME FitInv, Grows, UNCHANGED files
    PROVE  FilesFit'
<1>1. /\ OneShotTypes /\ FilesFit
      /\ cacheFile' = cacheFile /\ tempFile' = tempFile /\ content' = content
  BY DEF FitInv, files
<1>2. ASSUME NEW w \in Wanted
      PROVE  /\ cacheFile[w] # NoFile => Answers(cacheFile[w], w)'
             /\ tempFile[w] # NoFile => Answers(tempFile[w], w)'
  BY <1>1, StillAnswers DEF FilesFit, Answers
<1>3. ASSUME NEW f \in 1..MaxCalls, content[f] \notin {Empty, Torn}
      PROVE  /\ f \in DOMAIN billed'
             /\ content[f] \in DOMAIN billed'
             /\ billed'[content[f]].wants = billed'[f].wants
  BY <1>1, <1>3, StillAnswers DEF FilesFit, Answers
<1>. QED  BY <1>1, <1>2, <1>3 DEF FilesFit, Answers

LEMMA ShotsKeep ==
    ASSUME FitInv, Grows, NEW s \in Shots, NEW new \in ShotStates,
           shot' = [shot EXCEPT ![s] = new], ShotFits(s)'
    PROVE  /\ shot' \in [Shots -> ShotStates]
           /\ \A t \in Shots : ShotFits(t)'
<1>1. /\ OneShotTypes /\ \A t \in Shots : ShotFits(t)
      /\ shot' \in [Shots -> ShotStates]
      /\ \A t \in Shots \ {s} : shot'[t] = shot[t]
  BY DEF FitInv, OneShotTypes
<1>2. ASSUME NEW t \in Shots, t # s
      PROVE  ShotFits(t)'
  <2>1. shot'[t] = shot[t] /\ ShotFits(t)
    BY <1>1, <1>2
  <2>. QED  BY <1>1, <2>1, StillAnswers DEF ShotFits, Answers
<1>. QED  BY <1>1, <1>2

LEMMA FitStep ==
    ASSUME FitInv, [OneShotNext]_oneShot
    PROVE  FitInv'
<1>1. OneShotTypes /\ FilesFit /\ \A s \in Shots : ShotFits(s)
  BY DEF FitInv
<1>2. \A s \in Shots : shot[s] \in ShotStates
  BY <1>1 DEF OneShotTypes
<1>3. /\ Resting \in ShotStates /\ Resting.step = "idle"
      /\ Resting.answer = NoAnswer
  BY DEF Resting, ShotStates, ShotSteps
<1>4. Len(billed) \in Nat /\ DOMAIN billed = 1..Len(billed)
  BY <1>1 DEF OneShotTypes
\* A process goes on by itself.
<1>5. ASSUME NEW s \in Shots, NEW new \in ShotStates,
             shot' = [shot EXCEPT ![s] = new], UNCHANGED <<billed, files>>,
             logged' \in Nat, unlogged' \subseteq DOMAIN billed,
             new.step # "idle" => new.wants \in Wanted,
             new.step \in Owing \cup {"replay"} => Answers(new.answer, new.wants),
             new.step \notin Owing \cup {"replay"} => new.answer = NoAnswer,
             new.step # "write"
      PROVE  FitInv'
  <2>1. Grows /\ UNCHANGED files /\ billed' = billed
    BY <1>5 DEF Grows
  <2>2. shot'[s] = new
    BY <1>1, <1>5 DEF OneShotTypes
  <2>3. ShotFits(s)'
    BY <1>5, <2>1, <2>2 DEF ShotFits, Answers
  <2>4. FilesFit' /\ shot' \in [Shots -> ShotStates] /\ \A t \in Shots : ShotFits(t)'
    BY <1>5, <2>1, <2>3, FilesKeep, ShotsKeep
  <2>. QED  BY <1>1, <1>5, <2>1, <2>4 DEF FitInv, OneShotTypes, files
<1>6. CASE PurgeRuns
  <2>1. /\ Grows /\ UNCHANGED files /\ billed' = billed /\ shot' = shot
        /\ logged' = 0 /\ unlogged' \subseteq DOMAIN billed
    BY <1>6 DEF PurgeRuns, Grows
  <2>2. FilesFit'
    BY <2>1, FilesKeep
  <2>. QED
    BY <1>1, <2>1, <2>2 DEF FitInv, OneShotTypes, ShotFits, Answers, files
<1>7. ASSUME NEW s \in Shots, NEW w \in Wanted, CheckBudget(s, w)
      PROVE  FitInv'
  <2>. DEFINE new == [Resting EXCEPT !.step = "start", !.wants = w]
  <2>1. /\ new \in ShotStates /\ new.step = "start" /\ new.wants = w
        /\ new.answer = NoAnswer
    BY <1>3 DEF ShotStates, ShotSteps
  <2>2. shot' = [shot EXCEPT ![s] = new] /\ UNCHANGED <<billed, logged, files, unlogged>>
    BY <1>7 DEF CheckBudget
  <2>. HIDE DEF new
  <2>. QED  BY <1>1, <1>5, <2>1, <2>2 DEF Owing, OneShotTypes
<1>8. ASSUME NEW s \in Shots, NEW keeps \in BOOLEAN, StartRun(s, keeps)
      PROVE  FitInv'
  <2>1. PICK where : where = IF keeps THEN "look" ELSE "call"
    OBVIOUS
  <2>. DEFINE new == [shot[s] EXCEPT !.step = where, !.keeps = keeps]
  <2>2. /\ new \in ShotStates /\ new.step = where /\ new.wants = shot[s].wants
        /\ new.answer = shot[s].answer
    BY <1>2, <2>1 DEF ShotStates, ShotSteps
  <2>3. shot' = [shot EXCEPT ![s] = new] /\ UNCHANGED <<billed, logged, files, unlogged>>
    BY <1>1, <1>8, <2>1 DEF StartRun, OneShotTypes
  <2>4. shot[s].wants \in Wanted /\ shot[s].answer = NoAnswer
    BY <1>1, <1>8 DEF StartRun, ShotFits, Owing
  <2>. HIDE DEF new
  <2>. QED  BY <1>1, <1>5, <2>1, <2>2, <2>3, <2>4 DEF Owing, OneShotTypes
<1>9. ASSUME NEW s \in Shots, LookInCache(s)
      PROVE  FitInv'
  <2>. DEFINE w == shot[s].wants
              f == cacheFile[w]
  <2>1. /\ shot[s].step = "look" /\ w \in Wanted /\ shot[s].answer = NoAnswer
        /\ UNCHANGED <<billed, logged, files, unlogged>>
    BY <1>1, <1>9 DEF LookInCache, ShotFits, Owing
  <2>2. CASE /\ Readable(f)
             /\ shot' = [shot EXCEPT ![s].step = "replay", ![s].keeps = FALSE,
                                     ![s].answer = content[f]]
    <3>. DEFINE new == [shot[s] EXCEPT !.step = "replay", !.keeps = FALSE,
                                       !.answer = content[f]]
    <3>1. Answers(f, w)
      BY <1>1, <2>1, <2>2 DEF Readable, FilesFit
    <3>2. f \in 1..MaxCalls
      BY <1>1, <1>4, <3>1, OneShotAssumption DEF Answers, OneShotTypes
    <3>3. Answers(content[f], w)
      BY <1>1, <2>2, <3>1, <3>2 DEF Readable, FilesFit, Answers
    <3>4. content[f] \in Nat
      BY <1>4, <3>3 DEF Answers
    <3>5. /\ new \in ShotStates /\ new.step = "replay" /\ new.wants = w
          /\ new.answer = content[f]
      BY <1>2, <3>4 DEF ShotStates, ShotSteps
    <3>6. shot' = [shot EXCEPT ![s] = new]
      BY <1>1, <2>2 DEF OneShotTypes
    <3>. HIDE DEF new
    <3>. QED
      BY <1>1, <1>5, <2>1, <3>3, <3>5, <3>6 DEF OneShotTypes, Owing
  <2>3. CASE shot' = [shot EXCEPT ![s].step = "call"]
    <3>. DEFINE new == [shot[s] EXCEPT !.step = "call"]
    <3>1. /\ new \in ShotStates /\ new.step = "call" /\ new.wants = w
          /\ new.answer = NoAnswer
      BY <1>2, <2>1 DEF ShotStates, ShotSteps
    <3>2. shot' = [shot EXCEPT ![s] = new]
      BY <1>1, <2>3 DEF OneShotTypes
    <3>. HIDE DEF new
    <3>. QED  BY <1>1, <1>5, <2>1, <3>1, <3>2 DEF Owing, OneShotTypes
  <2>. QED  BY <1>9, <2>2, <2>3 DEF LookInCache, KeyOf
<1>10. ASSUME NEW s \in Shots, NEW cost \in Costs, CallProvider(s, cost)
       PROVE  FitInv'
  <2>1. PICK where \in {"open", "usage"}, n \in Nat :
            /\ where = IF shot[s].keeps THEN "open" ELSE "usage"
            /\ n = Len(billed) + 1
    BY <1>4
  <2>. DEFINE b   == [wants |-> shot[s].wants, cost |-> cost]
              new == [shot[s] EXCEPT !.answer = n, !.keeps = FALSE, !.step = where]
  <2>2. /\ billed' = Append(billed, b) /\ Len(billed) < MaxCalls
        /\ shot[s].step = "call" /\ UNCHANGED <<logged, files, unlogged>>
    BY <1>10 DEF CallProvider, Bill
  <2>3. shot[s].wants \in Wanted /\ b \in Bills
    BY <1>1, <2>2 DEF ShotFits, Bills
  <2>4. /\ new \in ShotStates /\ new.step \in {"open", "usage"}
        /\ new.wants = shot[s].wants /\ new.answer = n
    BY <1>2, <1>4, <2>1 DEF ShotStates, ShotSteps
  <2>5. shot' = [shot EXCEPT ![s] = new] /\ shot'[s] = new
    BY <1>1, <1>10, <2>1, <2>4 DEF CallProvider, OneShotTypes
  <2>. HIDE DEF new, b
  <2>6. Grows
    BY <2>2, <2>3 DEF Grows
  <2>7. /\ n \in DOMAIN billed' /\ billed'[n] = b /\ Len(billed') = n
        /\ billed' \in Seq(Bills)
    BY <1>1, <2>1, <2>2, <2>3 DEF OneShotTypes
  <2>8. ShotFits(s)'
    BY <2>3, <2>4, <2>5, <2>7 DEF ShotFits, Answers, Owing, b
  <2>9. /\ FilesFit' /\ shot' \in [Shots -> ShotStates] /\ \A t \in Shots : ShotFits(t)'
        /\ DOMAIN billed \subseteq DOMAIN billed'
    BY <1>1, <2>2, <2>4, <2>5, <2>6, <2>8, FilesKeep, ShotsKeep, StillAnswers
  <2>. QED
    BY <1>1, <1>4, <2>1, <2>2, <2>7, <2>9, OneShotAssumption
       DEF FitInv, OneShotTypes, files
<1>11. ASSUME NEW s \in Shots, CallFails(s)
       PROVE  FitInv'
  <2>1. /\ shot' = [shot EXCEPT ![s] = Resting] /\ shot'[s] = Resting
        /\ UNCHANGED <<logged, files>>
    BY <1>1, <1>11 DEF CallFails, OneShotTypes
  <2>2. CASE UNCHANGED <<billed, unlogged>>
    BY <1>1, <1>3, <1>5, <2>1, <2>2 DEF Owing, OneShotTypes
  <2>3. ASSUME NEW cost \in Costs, Bill(s, cost), unlogged' = unlogged \cup {Len(billed) + 1}
        PROVE  FitInv'
    <3>. DEFINE b == [wants |-> shot[s].wants, cost |-> cost]
    <3>1. billed' = Append(billed, b) /\ Len(billed) < MaxCalls
      BY <2>3 DEF Bill
    <3>2. b \in Bills
      BY <1>1, <1>11 DEF CallFails, ShotFits, Bills
    <3>. HIDE DEF b
    <3>3. Grows
      BY <3>1, <3>2 DEF Grows
    <3>4. /\ Len(billed) + 1 \in DOMAIN billed' /\ Len(billed') = Len(billed) + 1
          /\ billed' \in Seq(Bills)
      BY <1>1, <3>1, <3>2 DEF OneShotTypes
    <3>5. ShotFits(s)'
      BY <1>3, <2>1 DEF ShotFits, Owing
    <3>6. /\ FilesFit' /\ shot' \in [Shots -> ShotStates] /\ \A t \in Shots : ShotFits(t)'
          /\ DOMAIN billed \subseteq DOMAIN billed'
      BY <1>1, <1>3, <2>1, <3>3, <3>5, FilesKeep, ShotsKeep, StillAnswers
    <3>. QED
      BY <1>1, <1>4, <2>1, <2>3, <3>1, <3>4, <3>6, OneShotAssumption
         DEF FitInv, OneShotTypes, files
  <2>. QED  BY <1>11, <2>2, <2>3 DEF CallFails
\* A process works on the files, with the answer it was given.
<1>12. ASSUME NEW s \in Shots, NEW new \in ShotStates,
              shot' = [shot EXCEPT ![s] = new], UNCHANGED <<billed, logged, unlogged>>,
              shot[s].step \in Owing, new.step \in Owing,
              new.wants = shot[s].wants, new.answer = shot[s].answer,
              new.step = "write" => Answers(new.file, new.wants),
              cacheFile' \in [Wanted -> Nat \cup {NoFile}],
              tempFile' \in [Wanted -> Nat \cup {NoFile}],
              content' \in [1..MaxCalls -> Nat \cup {Empty, Torn}],
              FilesFit'
       PROVE  FitInv'
  <2>1. Grows /\ billed' = billed
    BY <1>12 DEF Grows
  <2>2. shot'[s] = new
    BY <1>1, <1>12 DEF OneShotTypes
  <2>3. ShotFits(s)'
    BY <1>1, <1>12, <2>1, <2>2 DEF ShotFits, Answers, Owing
  <2>4. shot' \in [Shots -> ShotStates] /\ \A t \in Shots : ShotFits(t)'
    BY <1>12, <2>1, <2>3, ShotsKeep
  <2>. QED  BY <1>1, <1>12, <2>1, <2>4 DEF FitInv, OneShotTypes
<1>13. ASSUME NEW s \in Shots, shot[s].step \in Owing
       PROVE  /\ shot[s].wants \in Wanted
              /\ Answers(shot[s].answer, shot[s].wants)
              /\ shot[s].answer \in 1..MaxCalls
  <2>1. shot[s].wants \in Wanted /\ Answers(shot[s].answer, shot[s].wants)
    BY <1>1, <1>13 DEF ShotFits, Owing
  <2>. QED  BY <1>1, <1>4, <2>1, OneShotAssumption DEF Answers, OneShotTypes
<1>14. ASSUME NEW s \in Shots, OpenTemp(s)
       PROVE  FitInv'
  <2>1. PICK k : k = shot[s].wants
    OBVIOUS
  <2>2. PICK f : f = IF tempFile[k] = NoFile THEN shot[s].answer ELSE tempFile[k]
    OBVIOUS
  <2>. DEFINE new == [shot[s] EXCEPT !.step = "write", !.file = f]
  <2>3. /\ shot[s].step = "open"
        /\ tempFile' = [tempFile EXCEPT ![k] = f]
        /\ content' = [content EXCEPT ![f] = Empty]
        /\ UNCHANGED <<billed, logged, cacheFile, unlogged>>
    BY <1>14, <2>1, <2>2 DEF OpenTemp, KeyOf
  <2>4. k \in Wanted /\ Answers(f, k)
    BY <1>1, <1>13, <2>1, <2>2, <2>3 DEF FilesFit, Owing
  <2>5. f \in 1..MaxCalls /\ f \in Nat
    BY <1>1, <1>4, <2>4, OneShotAssumption DEF Answers, OneShotTypes
  <2>6. /\ new \in ShotStates /\ new.step = "write" /\ new.wants = k
        /\ new.answer = shot[s].answer /\ new.file = f
    BY <1>2, <2>1, <2>5 DEF ShotStates, ShotSteps
  <2>7. shot' = [shot EXCEPT ![s] = new]
    BY <1>1, <1>14, <2>1, <2>2 DEF OpenTemp, KeyOf, OneShotTypes
  <2>8. FilesFit'
    BY <1>1, <2>3, <2>4, <2>5 DEF FilesFit, Answers, OneShotTypes
  <2>9. /\ tempFile' \in [Wanted -> Nat \cup {NoFile}]
        /\ content' \in [1..MaxCalls -> Nat \cup {Empty, Torn}]
    BY <1>1, <2>3, <2>5 DEF OneShotTypes
  <2>. HIDE DEF new
  <2>. QED
    BY <1>1, <1>12, <2>1, <2>3, <2>4, <2>6, <2>7, <2>8, <2>9 DEF Owing, OneShotTypes
<1>15. ASSUME NEW s \in Shots, WriteTemp(s)
       PROVE  FitInv'
  <2>1. PICK n, f, c :
            /\ n = shot[s].answer /\ f = shot[s].file /\ c \in {n, Torn}
            /\ content' = [content EXCEPT ![f] = c]
    BY <1>15 DEF WriteTemp, Overlaid
  <2>. DEFINE new == [shot[s] EXCEPT !.step = "rename"]
  <2>2. /\ shot[s].step = "write" /\ shot' = [shot EXCEPT ![s] = new]
        /\ UNCHANGED <<billed, logged, cacheFile, tempFile, unlogged>>
    BY <1>1, <1>15 DEF WriteTemp, OneShotTypes
  <2>3. /\ new \in ShotStates /\ new.step = "rename" /\ new.wants = shot[s].wants
        /\ new.answer = n
    BY <1>2, <2>1 DEF ShotStates, ShotSteps
  <2>4. PICK w : w = shot[s].wants
    OBVIOUS
  <2>5. Answers(f, w) /\ Answers(n, w) /\ n \in Nat
    BY <1>1, <1>13, <2>1, <2>2, <2>4 DEF ShotFits, Owing
  <2>6. FilesFit'
    BY <1>1, <2>1, <2>2, <2>5 DEF FilesFit, Answers, OneShotTypes
  <2>7. content' \in [1..MaxCalls -> Nat \cup {Empty, Torn}]
    BY <1>1, <2>1, <2>5 DEF OneShotTypes
  <2>. HIDE DEF new
  <2>. QED
    BY <1>1, <1>12, <2>1, <2>2, <2>3, <2>6, <2>7 DEF Owing, OneShotTypes
<1>16. ASSUME NEW s \in Shots, RenameTemp(s)
       PROVE  FitInv'
  <2>1. PICK k : k = shot[s].wants
    OBVIOUS
  <2>. DEFINE new == [shot[s] EXCEPT !.step = "usage", !.file = NoFile]
  <2>2. /\ shot[s].step = "rename" /\ shot' = [shot EXCEPT ![s] = new]
        /\ UNCHANGED <<billed, logged, content, unlogged>>
    BY <1>1, <1>16 DEF RenameTemp, OneShotTypes
  <2>3. /\ new \in ShotStates /\ new.step = "usage" /\ new.wants = shot[s].wants
        /\ new.answer = shot[s].answer
    BY <1>2 DEF ShotStates, ShotSteps
  <2>4. \/ cacheFile' = cacheFile /\ tempFile' = tempFile
        \/ /\ tempFile[k] # NoFile
           /\ cacheFile' = [cacheFile EXCEPT ![k] = tempFile[k]]
           /\ tempFile' = [tempFile EXCEPT ![k] = NoFile]
    BY <1>16, <2>1 DEF RenameTemp, KeyOf
  <2>5. k \in Wanted
    BY <1>13, <2>1, <2>2 DEF Owing
  <2>6. FilesFit'
    BY <1>1, <2>2, <2>4, <2>5 DEF FilesFit, Answers, OneShotTypes
  <2>7. /\ cacheFile' \in [Wanted -> Nat \cup {NoFile}]
        /\ tempFile' \in [Wanted -> Nat \cup {NoFile}]
    BY <1>1, <2>4, <2>5 DEF OneShotTypes
  <2>. HIDE DEF new
  <2>. QED
    BY <1>1, <1>12, <2>2, <2>3, <2>6, <2>7 DEF Owing, OneShotTypes
<1>17. ASSUME NEW s \in Shots, StoreFails(s)
       PROVE  FitInv'
  <2>1. PICK f : f = shot[s].file
    OBVIOUS
  <2>. DEFINE new == [shot[s] EXCEPT !.step = "usage", !.file = NoFile]
  <2>2. /\ shot[s].step \in {"open", "write"} /\ shot' = [shot EXCEPT ![s] = new]
        /\ UNCHANGED <<billed, logged, cacheFile, tempFile, unlogged>>
    BY <1>1, <1>17 DEF StoreFails, OneShotTypes
  <2>3. /\ new \in ShotStates /\ new.step = "usage" /\ new.wants = shot[s].wants
        /\ new.answer = shot[s].answer
    BY <1>2 DEF ShotStates, ShotSteps
  <2>4. content' = content \/ content' = [content EXCEPT ![f] = Torn]
    BY <1>17, <2>1 DEF StoreFails
  <2>5. FilesFit'
    BY <1>1, <2>2, <2>4 DEF FilesFit, Answers, OneShotTypes
  <2>6. content' \in [1..MaxCalls -> Nat \cup {Empty, Torn}]
    BY <1>1, <2>4 DEF OneShotTypes
  <2>. HIDE DEF new
  <2>. QED
    BY <1>1, <1>12, <2>2, <2>3, <2>5, <2>6 DEF Owing, OneShotTypes
<1>18. ASSUME NEW s \in Shots, LogUsage(s)
       PROVE  FitInv'
  <2>1. /\ shot[s].step \in {"usage", "replay"}
        /\ logged' = logged + billed[shot[s].answer].cost
        /\ shot' = [shot EXCEPT ![s] = Resting] /\ UNCHANGED <<billed, files, unlogged>>
    BY <1>18 DEF LogUsage
  <2>2. billed[shot[s].answer] \in Bills
    BY <1>1, <2>1 DEF ShotFits, Answers, Owing, OneShotTypes
  <2>3. PICK c \in Costs : c = billed[shot[s].answer].cost
    BY <2>2 DEF Bills
  <2>4. c \in Nat /\ logged \in Nat
    BY <1>1, <2>3, OneShotAssumption DEF OneShotTypes
  <2>5. logged' \in Nat
    BY <2>1, <2>3, <2>4
  <2>. QED  BY <1>1, <1>3, <1>5, <2>1, <2>5 DEF Owing, OneShotTypes
<1>19. ASSUME NEW s \in Shots, Killed(s)
       PROVE  FitInv'
  <2>1. /\ shot' = [shot EXCEPT ![s] = Resting] /\ UNCHANGED <<billed, logged, files>>
        /\ unlogged' = unlogged \cup Held(s)
    BY <1>19 DEF Killed
  <2>2. Held(s) \subseteq DOMAIN billed
    BY <1>1 DEF Held, ShotFits, Answers
  <2>. QED  BY <1>1, <1>3, <1>5, <2>1, <2>2 DEF Owing, OneShotTypes
<1>20. CASE UNCHANGED oneShot
  BY <1>1, <1>20
     DEF oneShot, files, FitInv, OneShotTypes, FilesFit, ShotFits, Answers
<1>. QED
  BY <1>6, <1>7, <1>8, <1>9, <1>10, <1>11, <1>14, <1>15, <1>16, <1>17, <1>18,
     <1>19, <1>20 DEF OneShotNext

\* local_cache.get after put: whatever processes share the cache, whatever they
\* overwrite or leave half written, a command prints the answer to its own
\* request.
THEOREM AnswersAreOfThisRequest == OneShotSpec => []AnswersFit
<1>1. FitInv /\ [OneShotNext]_oneShot => FitInv'
  BY FitStep
<1>2. FitInv => AnswersFit
  BY DEF FitInv, ShotFits, Owing, Answers, AnswersFit
<1>. QED
  BY OneShotInitInv, <1>1, <1>2, PTL DEF OneShotSpec

-----------------------------------------------------------------------------
(* The cap.  What a set of calls cost is the number of their dollars, so    *)
(* that it can be counted.  Every billed call is in a log, in nobody's log  *)
(* or in the hand of one process; a process that passed the check and has   *)
(* still to be billed counts with the most a call may cost.                 *)

Worth(bill, calls) ==
    Cardinality({p \in calls \X (1..MaxCost) : p[2] <= bill[p[1]].cost})

Pending == {s \in Shots : shot[s].step \in {"start", "look", "call"}}

Outstanding == unlogged \cup InHand

HandsApart ==
    \A s \in Shots :
        /\ Held(s) \cap unlogged = {}
        /\ \A t \in Shots \ {s} : Held(s) \cap Held(t) = {}

Accounted == Dollars(DOMAIN billed) <= logged + Dollars(Outstanding)

Covered ==
    Dollars(DOMAIN billed) + MaxCost * Cardinality(Pending)
        < CapUsd + MaxCost * (Cardinality(Shots) + Cardinality(unlogged))

CapInv == HandsApart /\ Accounted /\ Covered

LEMMA WorthOf ==
    ASSUME NEW bill \in Seq(Bills), NEW N \in SUBSET (DOMAIN bill)
    PROVE  /\ IsFiniteSet(N) /\ Cardinality(N) \in Nat
           /\ Worth(bill, N) \in Nat
           /\ Worth(bill, N) <= MaxCost * Cardinality(N)
           /\ \A M \in SUBSET N : Worth(bill, M) <= Worth(bill, N)
<1>. DEFINE Pairs(M) == {p \in M \X (1..MaxCost) : p[2] <= bill[p[1]].cost}
<1>1. IsFiniteSet(N) /\ Cardinality(N) \in Nat
  <2>1. DOMAIN bill = 1..Len(bill) /\ Len(bill) \in Nat
    OBVIOUS
  <2>2. IsFiniteSet(1..Len(bill))
    BY <2>1, FS_Interval
  <2>. QED  BY <2>1, <2>2, FS_Subset, FS_CardinalityType
<1>2. IsFiniteSet(1..MaxCost) /\ Cardinality(1..MaxCost) = MaxCost
  BY OneShotAssumption, FS_Interval
<1>3. /\ IsFiniteSet(N \X (1..MaxCost))
      /\ Cardinality(N \X (1..MaxCost)) = Cardinality(N) * MaxCost
  BY <1>1, <1>2, FS_Product
<1>4. Pairs(N) \subseteq N \X (1..MaxCost)
  OBVIOUS
<1>5. /\ IsFiniteSet(Pairs(N)) /\ Cardinality(Pairs(N)) \in Nat
      /\ Cardinality(Pairs(N)) <= Cardinality(N \X (1..MaxCost))
  BY <1>3, <1>4, FS_Subset, FS_CardinalityType
<1>6. Worth(bill, N) \in Nat /\ Worth(bill, N) <= MaxCost * Cardinality(N)
  <2>1. Cardinality(N) * MaxCost = MaxCost * Cardinality(N)
    BY <1>1, OneShotAssumption
  <2>. QED  BY <1>3, <1>5, <2>1 DEF Worth
<1>7. ASSUME NEW M \in SUBSET N
      PROVE  Worth(bill, M) <= Worth(bill, N)
  <2>1. Pairs(M) \subseteq Pairs(N)
    OBVIOUS
  <2>2. Cardinality(Pairs(M)) <= Cardinality(Pairs(N))
    BY <1>5, <2>1, FS_Subset
  <2>. QED  BY <2>2 DEF Worth
<1>. QED  BY <1>1, <1>6, <1>7

\* One more call costs what it costs.
LEMMA WorthOfOneMore ==
    ASSUME NEW bill \in Seq(Bills), NEW N \in SUBSET (DOMAIN bill),
           NEW n \in (DOMAIN bill) \ N
    PROVE  Worth(bill, N \cup {n}) = Worth(bill, N) + bill[n].cost
<1>. DEFINE Pairs(M) == {p \in M \X (1..MaxCost) : p[2] <= bill[p[1]].cost}
            new == {n} \X (1..(bill[n].cost))
<1>1. PICK c \in Costs : bill[n].cost = c
  <2>1. bill[n] \in Bills
    OBVIOUS
  <2>. QED  BY <2>1 DEF Bills
<1>2. c \in Nat /\ c <= MaxCost /\ MaxCost \in Nat
  BY OneShotAssumption
<1>3. IsFiniteSet(Pairs(N)) /\ Cardinality(Pairs(N)) \in Nat
  <2>1. IsFiniteSet(N) /\ IsFiniteSet(1..MaxCost)
    BY <1>2, WorthOf, FS_Interval
  <2>2. IsFiniteSet(N \X (1..MaxCost))
    BY <2>1, FS_Product
  <2>3. Pairs(N) \subseteq N \X (1..MaxCost)
    OBVIOUS
  <2>. QED  BY <2>2, <2>3, FS_Subset, FS_CardinalityType
<1>4. IsFiniteSet(new) /\ Cardinality(new) = c
  <2>1. IsFiniteSet(1..c) /\ Cardinality(1..c) = c
    BY <1>2, FS_Interval
  <2>2. IsFiniteSet({n}) /\ Cardinality({n}) = 1
    BY FS_Singleton
  <2>3. IsFiniteSet({n} \X (1..c)) /\ Cardinality({n} \X (1..c)) = 1 * c
    BY <2>1, <2>2, FS_Product
  <2>. QED  BY <1>1, <1>2, <2>3
<1>5. Pairs(N \cup {n}) = Pairs(N) \cup new
  <2>1. ASSUME NEW p
        PROVE  p \in Pairs(N \cup {n}) <=> p \in Pairs(N) \cup new
    <3>1. CASE p \in Pairs(N \cup {n})
      <4>1. p[1] \in N \cup {n} /\ p[2] \in 1..MaxCost /\ p[2] <= bill[p[1]].cost
            /\ p = <<p[1], p[2]>>
        BY <3>1
      <4>2. CASE p[1] = n
        BY <1>1, <1>2, <4>1, <4>2
      <4>3. CASE p[1] # n
        BY <4>1, <4>3
      <4>. QED  BY <4>2, <4>3
    <3>2. CASE p \in Pairs(N)
      BY <3>2
    <3>3. CASE p \in new
      BY <1>1, <1>2, <3>3
    <3>. QED  BY <3>1, <3>2, <3>3
  <2>. QED  BY <2>1
<1>6. Pairs(N) \cap new = {}
  OBVIOUS
<1>7. Cardinality(Pairs(N) \cup new)
        = Cardinality(Pairs(N)) + Cardinality(new) - Cardinality(Pairs(N) \cap new)
  BY <1>3, <1>4, FS_Union
<1>8. Cardinality({}) = 0
  BY FS_EmptySet
<1>9. Cardinality(Pairs(N \cup {n})) = Cardinality(Pairs(N)) + c
  <2>1. Cardinality(Pairs(N) \cap new) = 0
    BY <1>6, <1>8
  <2>2. Cardinality(Pairs(N) \cup new) = Cardinality(Pairs(N)) + c - 0
    BY <1>4, <1>7, <2>1
  <2>3. Cardinality(Pairs(N \cup {n})) = Cardinality(Pairs(N) \cup new)
    BY <1>5
  <2>. QED  BY <1>2, <1>3, <2>2, <2>3
<1>. QED  BY <1>1, <1>9 DEF Worth

\* The calls billed before cost what they did.
LEMMA WorthStays ==
    ASSUME NEW bill \in Seq(Bills), NEW b \in Bills, NEW N \in SUBSET (DOMAIN bill)
    PROVE  Worth(Append(bill, b), N) = Worth(bill, N)
<1>1. \A n \in N : Append(bill, b)[n] = bill[n]
  OBVIOUS
<1>2. {p \in N \X (1..MaxCost) : p[2] <= Append(bill, b)[p[1]].cost}
        = {p \in N \X (1..MaxCost) : p[2] <= bill[p[1]].cost}
  BY <1>1
<1>. QED  BY <1>2 DEF Worth

LEMMA Weighted ==
    ASSUME NEW M \in Nat, NEW a \in Nat, NEW b \in Nat, a <= b
    PROVE  M * a <= M * b
<1>1. b - a \in Nat /\ b = a + (b - a)
  OBVIOUS
<1>2. \A c, d \in Nat : M * (c + d) = M * c + M * d /\ M * d \in Nat
  OBVIOUS
<1>3. M * b = M * a + M * (b - a) /\ M * (b - a) \in Nat
  BY <1>1, <1>2
<1>4. M * a \in Nat
  OBVIOUS
<1>. QED  BY <1>3, <1>4

\* Processes in a bound, weighted with the most a call may cost.
LEMMA CapArithmetic ==
    ASSUME NEW M \in Nat, NEW C \in Nat, NEW S \in Nat,
           NEW d \in Nat, NEW p \in Nat, NEW u \in Nat, d + M * p < C + M * (S + u),
           NEW e \in Nat, NEW q \in Nat, NEW v \in Nat, u <= v,
           \/ e <= d /\ q <= p
           \/ e <= d + M /\ q + 1 <= p
           \/ e <= d + M /\ q <= p /\ u + 1 <= v
    PROVE  e + M * q < C + M * (S + v)
<1>1. \A a, b \in Nat : a <= b => M * a <= M * b
  BY Weighted
<1>2. CASE e <= d /\ q <= p
  <2>1. M * q <= M * p /\ M * (S + u) <= M * (S + v)
    BY <1>1, <1>2
  <2>. QED  BY <1>2, <2>1
<1>3. CASE e <= d + M /\ q + 1 <= p
  <2>1. M * (q + 1) <= M * p /\ M * (S + u) <= M * (S + v)
    BY <1>1, <1>3
  <2>2. M * (q + 1) = M * q + M
    OBVIOUS
  <2>. QED  BY <1>3, <2>1, <2>2
<1>4. CASE e <= d + M /\ q <= p /\ u + 1 <= v
  <2>1. M * q <= M * p /\ M * (S + u + 1) <= M * (S + v)
    BY <1>1, <1>4
  <2>2. M * (S + u + 1) = M * (S + u) + M
    OBVIOUS
  <2>. QED  BY <1>4, <2>1, <2>2
<1>. QED  BY <1>2, <1>3, <1>4

LEMMA HeldIs ==
    ASSUME FitInv, NEW s \in Shots
    PROVE  /\ shot[s].step \in Owing => Held(s) = {shot[s].answer}
           /\ shot[s].step \notin Owing => Held(s) = {}
           /\ Held(s) \subseteq DOMAIN billed
<1>1. /\ ShotFits(s) /\ shot[s] \in ShotStates
      /\ DOMAIN billed \subseteq Nat /\ NoAnswer \notin Nat
  BY OneShotAssumption DEF FitInv, OneShotTypes
<1>2. CASE shot[s].step \in Owing
  <2>1. shot[s].answer \in DOMAIN billed /\ shot[s].step # "replay"
    BY <1>1, <1>2 DEF ShotFits, Answers, Owing
  <2>. QED  BY <1>1, <1>2, <2>1 DEF Held
<1>3. CASE shot[s].step \notin Owing
  BY <1>1, <1>3 DEF Held, ShotFits, Owing
<1>. QED  BY <1>2, <1>3

LEMMA PendingFinite ==
    /\ IsFiniteSet(Pending) /\ Cardinality(Pending) \in Nat
    /\ Cardinality(Shots) \in Nat
<1>1. Pending \subseteq Shots
  BY DEF Pending
<1>. QED  BY <1>1, OneShotAssumption, FS_Subset, FS_CardinalityType

LEMMA PendingFiniteNext ==
    TRUE => IsFiniteSet(Pending') /\ Cardinality(Pending') \in Nat
<1>1. Pending' \subseteq Shots
  BY DEF Pending
<1>. QED  BY <1>1, OneShotAssumption, FS_Subset, FS_CardinalityType

\* What a step does to the accounts: nothing; it passes the check; the
\* provider bills a process, which holds the answer or is gone; the answer is
\* logged; its process dies; the logs are purged.
Leaves(s) == \A t \in Shots \ {s} : Held(t)' = Held(t)

Quiet == /\ UNCHANGED <<billed, unlogged, logged>> /\ Pending' \subseteq Pending
         /\ \A t \in Shots : Held(t)' = Held(t)

Passes(s) == /\ UNCHANGED <<billed, unlogged, logged>>
             /\ \A t \in Shots : Held(t)' = Held(t)
             /\ s \in Shots \ Pending /\ shot[s].step \notin Owing
             /\ Pending' = Pending \cup {s}
             /\ logged < CapUsd

IsBilled(s, b) ==
    /\ b \in Bills /\ billed' = Append(billed, b) /\ logged' = logged
    /\ s \in Pending /\ Pending' = Pending \ {s}
    /\ Leaves(s) /\ Held(s) = {}
    /\ \/ Held(s)' = {Len(billed) + 1} /\ unlogged' = unlogged
       \/ Held(s)' = {} /\ unlogged' = unlogged \cup {Len(billed) + 1}

Logs(s, n) ==
    /\ UNCHANGED <<billed, unlogged>> /\ Pending' \subseteq Pending
    /\ Leaves(s) /\ Held(s) \subseteq {n} /\ Held(s)' = {}
    /\ n \in DOMAIN billed /\ logged' = logged + billed[n].cost

Dies(s) ==
    /\ UNCHANGED <<billed, logged>> /\ Pending' \subseteq Pending
    /\ Leaves(s) /\ Held(s)' = {} /\ unlogged' = unlogged \cup Held(s)

Purges ==
    /\ UNCHANGED billed /\ Pending' = Pending
    /\ \A t \in Shots : Held(t)' = Held(t)
    /\ logged' = 0 /\ unlogged' = DOMAIN billed \ InHand

LEMMA TurnOfOne ==
    ASSUME FitInv, NEW s \in Shots, NEW new,
           shot' = [shot EXCEPT ![s] = new]
    PROVE  /\ Leaves(s)
           /\ Held(s)' = {n \in {new.answer} : n # NoAnswer /\ new.step # "replay"}
           /\ new.step \in {"start", "look", "call"} => Pending' = Pending \cup {s}
           /\ new.step \notin {"start", "look", "call"} => Pending' = Pending \ {s}
<1>1. /\ shot'[s] = new
      /\ \A t \in Shots \ {s} : shot'[t] = shot[t]
  BY DEF FitInv, OneShotTypes
<1>2. Leaves(s)
  BY <1>1 DEF Leaves, Held
<1>3. Held(s)' = {n \in {new.answer} : n # NoAnswer /\ new.step # "replay"}
  BY <1>1 DEF Held
<1>4. \A t \in Shots \ {s} : t \in Pending' <=> t \in Pending
  BY <1>1 DEF Pending
<1>5. s \in Pending' <=> new.step \in {"start", "look", "call"}
  BY <1>1 DEF Pending
<1>6. Pending \subseteq Shots /\ Pending' \subseteq Shots
  BY DEF Pending
<1>. QED  BY <1>2, <1>3, <1>4, <1>5, <1>6

LEMMA Effects ==
    ASSUME FitInv, [OneShotNext]_oneShot
    PROVE  \/ Quiet \/ Purges
           \/ \E s \in Shots : Passes(s) \/ Dies(s)
           \/ \E s \in Shots, b \in Bills : IsBilled(s, b)
           \/ \E s \in Shots : \E n : Logs(s, n)
<1>1. /\ OneShotTypes /\ \A s \in Shots : ShotFits(s)
      /\ \A s \in Shots : shot[s] \in ShotStates
  BY DEF FitInv, OneShotTypes
<1>2. /\ Resting \in ShotStates /\ Resting.step = "idle"
      /\ Resting.answer = NoAnswer
  BY DEF Resting, ShotStates, ShotSteps
<1>3. /\ NoAnswer \notin Nat /\ Len(billed) \in Nat
      /\ DOMAIN billed = 1..Len(billed)
  BY <1>1, OneShotAssumption DEF OneShotTypes
<1>4. CASE PurgeRuns
  BY <1>4 DEF PurgeRuns, Purges, Held, Pending
<1>5. CASE UNCHANGED oneShot
  BY <1>5 DEF oneShot, Quiet, Held, Pending
\* A process that only moves on keeps what it holds.
<1>6. ASSUME NEW s \in Shots, NEW new,
             shot' = [shot EXCEPT ![s] = new], UNCHANGED <<billed, unlogged, logged>>,
             \/ new.answer = shot[s].answer /\ shot[s].step # "replay"
                                            /\ new.step # "replay"
             \/ shot[s].answer = NoAnswer /\ new.step = "replay",
             new.step \in {"start", "look", "call"} => s \in Pending
      PROVE  Quiet
  <2>1. /\ Leaves(s)
        /\ Held(s)' = {n \in {new.answer} : n # NoAnswer /\ new.step # "replay"}
        /\ new.step \in {"start", "look", "call"} => Pending' = Pending \cup {s}
        /\ new.step \notin {"start", "look", "call"} => Pending' = Pending \ {s}
    BY <1>6, TurnOfOne
  <2>2. Held(s)' = Held(s)
    BY <1>6, <2>1 DEF Held
  <2>3. \A t \in Shots : Held(t)' = Held(t)
    BY <2>1, <2>2 DEF Leaves
  <2>. QED  BY <1>6, <2>1, <2>3 DEF Quiet
<1>rest. ASSUME NEW s \in Shots, shot' = [shot EXCEPT ![s] = Resting]
       PROVE  Leaves(s) /\ Held(s)' = {} /\ Pending' = Pending \ {s}
  <2>1. /\ Leaves(s)
        /\ Held(s)' = {n \in {Resting.answer} :
                         n # NoAnswer /\ Resting.step # "replay"}
        /\ Resting.step \notin {"start", "look", "call"} =>
                Pending' = Pending \ {s}
    BY <1>rest, TurnOfOne
  <2>. QED  BY <1>2, <2>1
<1>7. ASSUME NEW s \in Shots, NEW w \in Wanted, CheckBudget(s, w)
      PROVE  Passes(s)
  <2>. DEFINE new == [Resting EXCEPT !.step = "start", !.wants = w]
  <2>1. /\ new.step = "start" /\ new.answer = NoAnswer
        /\ shot' = [shot EXCEPT ![s] = new] /\ UNCHANGED <<billed, unlogged, logged>>
        /\ shot[s].step = "idle"
    BY <1>2, <1>7 DEF CheckBudget, ShotStates
  <2>. HIDE DEF new
  <2>2. /\ Leaves(s) /\ Held(s)' = {} /\ Pending' = Pending \cup {s}
    BY <2>1, TurnOfOne
  <2>3. Held(s) = {} /\ s \notin Pending /\ shot[s].step \notin Owing
    BY <2>1, HeldIs DEF Owing, Pending
  <2>4. \A t \in Shots : Held(t)' = Held(t)
    BY <2>2, <2>3 DEF Leaves
  <2>5. logged < CapUsd
    BY <1>1, <1>7, OneShotAssumption
       DEF CheckBudget, Exceeded, MonthSpend, OneShotTypes
  <2>. QED  BY <2>1, <2>2, <2>3, <2>4, <2>5 DEF Passes
<1>8. ASSUME NEW s \in Shots, NEW keeps \in BOOLEAN, StartRun(s, keeps)
      PROVE  Quiet
  <2>1. PICK where \in {"look", "call"} : where = IF keeps THEN "look" ELSE "call"
    OBVIOUS
  <2>. DEFINE new == [shot[s] EXCEPT !.step = where, !.keeps = keeps]
  <2>2. new \in ShotStates /\ new.step = where /\ new.answer = shot[s].answer
    BY <1>1, <2>1 DEF ShotStates, ShotSteps
  <2>3. /\ shot' = [shot EXCEPT ![s] = new] /\ UNCHANGED <<billed, unlogged, logged>>
        /\ shot[s].step = "start" /\ s \in Pending
    BY <1>1, <1>8, <2>1 DEF StartRun, OneShotTypes, Pending
  <2>. HIDE DEF new
  <2>. QED  BY <1>6, <2>1, <2>2, <2>3
<1>9. ASSUME NEW s \in Shots, LookInCache(s)
      PROVE  Quiet
  <2>1. /\ shot[s].step = "look" /\ s \in Pending /\ shot[s].answer = NoAnswer
        /\ UNCHANGED <<billed, unlogged, logged>>
    BY <1>1, <1>9 DEF LookInCache, ShotFits, Owing, Pending
  <2>2. PICK new : /\ shot' = [shot EXCEPT ![s] = new]
                   /\ \/ new.step = "replay"
                      \/ new.step = "call" /\ new.answer = NoAnswer
    <3>1. CASE \E a : shot' = [shot EXCEPT ![s].step = "replay", ![s].keeps = FALSE,
                                           ![s].answer = a]
      <4>1. PICK a : shot' = [shot EXCEPT ![s].step = "replay", ![s].keeps = FALSE,
                                          ![s].answer = a]
        BY <3>1
      <4>. DEFINE new == [shot[s] EXCEPT !.step = "replay", !.keeps = FALSE,
                                         !.answer = a]
      <4>2. new.step = "replay"
        BY <1>1 DEF ShotStates
      <4>3. shot' = [shot EXCEPT ![s] = new]
        BY <1>1, <4>1 DEF OneShotTypes
      <4>. HIDE DEF new
      <4>. QED  BY <4>2, <4>3
    <3>2. CASE shot' = [shot EXCEPT ![s].step = "call"]
      <4>. DEFINE new == [shot[s] EXCEPT !.step = "call"]
      <4>2. new.step = "call" /\ new.answer = NoAnswer
        BY <1>1, <2>1 DEF ShotStates
      <4>3. shot' = [shot EXCEPT ![s] = new]
        BY <1>1, <3>2 DEF OneShotTypes
      <4>. HIDE DEF new
      <4>. QED  BY <4>2, <4>3
    <3>. QED  BY <1>9, <3>1, <3>2 DEF LookInCache
  <2>. QED  BY <1>6, <2>1, <2>2
<1>10. ASSUME NEW s \in Shots, NEW cost \in Costs, CallProvider(s, cost)
       PROVE  \E b \in Bills : IsBilled(s, b)
  <2>1. PICK where \in {"open", "usage"}, n \in Nat :
            /\ where = IF shot[s].keeps THEN "open" ELSE "usage"
            /\ n = Len(billed) + 1
    BY <1>3
  <2>. DEFINE b   == [wants |-> shot[s].wants, cost |-> cost]
              new == [shot[s] EXCEPT !.answer = n, !.keeps = FALSE, !.step = where]
  <2>2. /\ billed' = Append(billed, b) /\ shot[s].step = "call"
        /\ UNCHANGED <<logged, unlogged>>
    BY <1>10 DEF CallProvider, Bill
  <2>3. b \in Bills
    BY <1>1, <2>2 DEF ShotFits, Bills
  <2>4. new.step = where /\ new.answer = n
    BY <1>1 DEF ShotStates
  <2>5. shot' = [shot EXCEPT ![s] = new]
    BY <1>1, <1>10, <2>1 DEF CallProvider, OneShotTypes
  <2>. HIDE DEF new, b
  <2>6. Leaves(s) /\ Held(s)' = {n} /\ Pending' = Pending \ {s}
    <3>1. /\ Leaves(s)
          /\ Held(s)' = {a \in {new.answer} : a # NoAnswer /\ new.step # "replay"}
          /\ new.step \notin {"start", "look", "call"} => Pending' = Pending \ {s}
      BY <2>5, TurnOfOne
    <3>2. n # NoAnswer /\ new.step \notin {"start", "look", "call", "replay"}
      BY <1>3, <2>1, <2>4
    <3>. QED  BY <2>4, <3>1, <3>2
  <2>7. s \in Pending /\ Held(s) = {}
    BY <2>2, HeldIs DEF Pending, Owing
  <2>8. IsBilled(s, b)
    BY <2>1, <2>2, <2>3, <2>6, <2>7 DEF IsBilled
  <2>. QED  BY <2>3, <2>8
<1>11. ASSUME NEW s \in Shots, CallFails(s)
       PROVE  Quiet \/ \E b \in Bills : IsBilled(s, b)
  <2>1. /\ shot' = [shot EXCEPT ![s] = Resting] /\ UNCHANGED logged
        /\ shot[s].step = "call"
    BY <1>11 DEF CallFails
  <2>2. Leaves(s) /\ Held(s)' = {} /\ Pending' = Pending \ {s}
    BY <1>rest, <2>1
  <2>3. s \in Pending /\ Held(s) = {}
    BY <2>1, HeldIs DEF Pending, Owing
  <2>4. CASE UNCHANGED <<billed, unlogged>>
    BY <2>1, <2>2, <2>3, <2>4 DEF Quiet, Leaves
  <2>5. ASSUME NEW cost \in Costs, Bill(s, cost),
               unlogged' = unlogged \cup {Len(billed) + 1}
        PROVE  \E b \in Bills : IsBilled(s, b)
    <3>. DEFINE b == [wants |-> shot[s].wants, cost |-> cost]
    <3>1. b \in Bills /\ billed' = Append(billed, b)
      BY <1>1, <2>1, <2>5 DEF ShotFits, Bills, Bill
    <3>. HIDE DEF b
    <3>2. IsBilled(s, b)
      BY <2>1, <2>2, <2>3, <2>5, <3>1 DEF IsBilled
    <3>. QED  BY <3>1, <3>2
  <2>. QED  BY <1>11, <2>4, <2>5 DEF CallFails
\* A process at work on the files keeps its answer.
<1>12. ASSUME NEW s \in Shots, NEW new, shot' = [shot EXCEPT ![s] = new],
              UNCHANGED <<billed, unlogged, logged>>,
              shot[s].step \in Owing, new.step \in Owing,
              new.answer = shot[s].answer
       PROVE  Quiet
  BY <1>6, <1>12 DEF Owing
<1>13. ASSUME NEW s \in Shots, OpenTemp(s)
       PROVE  Quiet
  <2>1. PICK f : f = IF tempFile[shot[s].wants] = NoFile
                     THEN shot[s].answer ELSE tempFile[shot[s].wants]
    OBVIOUS
  <2>. DEFINE new == [shot[s] EXCEPT !.step = "write", !.file = f]
  <2>2. new.step = "write" /\ new.answer = shot[s].answer
    BY <1>1 DEF ShotStates
  <2>3. /\ shot' = [shot EXCEPT ![s] = new] /\ UNCHANGED <<billed, unlogged, logged>>
        /\ shot[s].step = "open"
    BY <1>1, <1>13, <2>1 DEF OpenTemp, KeyOf, OneShotTypes
  <2>. HIDE DEF new
  <2>. QED  BY <1>12, <2>2, <2>3 DEF Owing
<1>14. ASSUME NEW s \in Shots, WriteTemp(s)
       PROVE  Quiet
  <2>. DEFINE new == [shot[s] EXCEPT !.step = "rename"]
  <2>1. new.step = "rename" /\ new.answer = shot[s].answer
    BY <1>1 DEF ShotStates
  <2>2. /\ shot' = [shot EXCEPT ![s] = new] /\ UNCHANGED <<billed, unlogged, logged>>
        /\ shot[s].step = "write"
    BY <1>1, <1>14 DEF WriteTemp, OneShotTypes
  <2>. HIDE DEF new
  <2>. QED  BY <1>12, <2>1, <2>2 DEF Owing
<1>15. ASSUME NEW s \in Shots, RenameTemp(s) \/ StoreFails(s)
       PROVE  Quiet
  <2>. DEFINE new == [shot[s] EXCEPT !.step = "usage", !.file = NoFile]
  <2>1. new.step = "usage" /\ new.answer = shot[s].answer
    BY <1>1 DEF ShotStates
  <2>2. /\ shot' = [shot EXCEPT ![s] = new] /\ UNCHANGED <<billed, unlogged, logged>>
        /\ shot[s].step \in Owing
    BY <1>1, <1>15 DEF RenameTemp, StoreFails, OneShotTypes, Owing
  <2>. HIDE DEF new
  <2>. QED  BY <1>12, <2>1, <2>2 DEF Owing
<1>16. ASSUME NEW s \in Shots, LogUsage(s)
       PROVE  \E n : Logs(s, n)
  <2>1. PICK n : n = shot[s].answer
    OBVIOUS
  <2>2. /\ shot' = [shot EXCEPT ![s] = Resting] /\ UNCHANGED <<billed, unlogged>>
        /\ logged' = logged + billed[n].cost /\ shot[s].step \in {"usage", "replay"}
    BY <1>16, <2>1 DEF LogUsage
  <2>3. Leaves(s) /\ Held(s)' = {} /\ Pending' = Pending \ {s}
    BY <1>rest, <2>2
  <2>4. n \in DOMAIN billed
    BY <1>1, <2>1, <2>2 DEF ShotFits, Answers, Owing
  <2>5. Held(s) \subseteq {n}
    BY <2>1 DEF Held
  <2>. QED  BY <2>2, <2>3, <2>4, <2>5 DEF Logs
<1>17. ASSUME NEW s \in Shots, Killed(s)
       PROVE  Dies(s)
  <2>1. shot' = [shot EXCEPT ![s] = Resting] /\ UNCHANGED <<billed, logged>>
        /\ unlogged' = unlogged \cup Held(s)
    BY <1>17 DEF Killed
  <2>2. Leaves(s) /\ Held(s)' = {} /\ Pending' = Pending \ {s}
    BY <1>rest, <2>1
  <2>. QED  BY <2>1, <2>2 DEF Dies
<1>. QED
  BY <1>4, <1>5, <1>7, <1>8, <1>9, <1>10, <1>11, <1>13, <1>14, <1>15, <1>16,
     <1>17 DEF OneShotNext

\* The processes that hold an answer, and how many there can be.
Owers == {s \in Shots : shot[s].step \in Owing}

LEMMA HandSize ==
    ASSUME FitInv
    PROVE  /\ InHand \subseteq DOMAIN billed /\ IsFiniteSet(InHand)
           /\ Cardinality(InHand) \in Nat /\ Cardinality(Owers) \in Nat
           /\ Cardinality(InHand) <= Cardinality(Owers)
<1>1. \A s \in Shots : /\ shot[s].step \in Owing => Held(s) = {shot[s].answer}
                       /\ shot[s].step \notin Owing => Held(s) = {}
                       /\ Held(s) \subseteq DOMAIN billed
  BY HeldIs
<1>2. IsFiniteSet(Owers) /\ Cardinality(Owers) \in Nat
  <2>1. Owers \subseteq Shots
    BY DEF Owers
  <2>. QED  BY <2>1, OneShotAssumption, FS_Subset, FS_CardinalityType
<1>3. InHand \subseteq DOMAIN billed
  BY <1>1 DEF InHand
<1>. DEFINE f == [s \in Owers |-> shot[s].answer]
<1>4. f \in Surjection(Owers, InHand)
  <2>1. ASSUME NEW s \in Owers
        PROVE  f[s] \in InHand
    BY <1>1 DEF Owers, InHand
  <2>2. ASSUME NEW n \in InHand
        PROVE  \E s \in Owers : f[s] = n
    <3>1. PICK s \in Shots : n \in Held(s)
      BY DEF InHand
    <3>. QED  BY <1>1, <3>1 DEF Owers
  <2>. HIDE DEF f
  <2>3. f \in [Owers -> InHand]
    BY <2>1 DEF f
  <2>. QED  BY <2>2, <2>3 DEF Surjection
<1>5. IsFiniteSet(InHand) /\ Cardinality(InHand) <= Cardinality(Owers)
  <2>. HIDE DEF f
  <2>. QED  BY <1>2, <1>4, FS_Surjection
<1>. QED  BY <1>2, <1>3, <1>5, FS_CardinalityType

\* A process that is about to pass the check is neither of those that hold an
\* answer nor of those that are still to be billed.
LEMMA Room ==
    ASSUME FitInv, NEW s \in Shots \ Pending, shot[s].step \notin Owing
    PROVE  Cardinality(Owers) + Cardinality(Pending) + 1 <= Cardinality(Shots)
<1>1. /\ IsFiniteSet(Pending) /\ Cardinality(Pending) \in Nat
      /\ Cardinality(Shots) \in Nat /\ Cardinality(Owers) \in Nat
  BY PendingFinite, HandSize
<1>2. IsFiniteSet(Owers)
  <2>1. Owers \subseteq Shots
    BY DEF Owers
  <2>. QED  BY <2>1, OneShotAssumption, FS_Subset
<1>3. Cardinality(Owers \cap Pending) = 0
  <2>1. Owers \cap Pending = {}
    BY DEF Owers, Pending, Owing
  <2>. QED  BY <2>1, FS_EmptySet
<1>4. /\ IsFiniteSet(Owers \cup Pending)
      /\ Cardinality(Owers \cup Pending) =
            Cardinality(Owers) + Cardinality(Pending) - Cardinality(Owers \cap Pending)
  BY <1>1, <1>2, FS_Union
<1>5. Cardinality(Owers \cup Pending) = Cardinality(Owers) + Cardinality(Pending)
  BY <1>1, <1>3, <1>4
<1>6. s \notin Owers \cup Pending
  BY DEF Owers
<1>7. Cardinality((Owers \cup Pending) \cup {s}) = Cardinality(Owers \cup Pending) + 1
  BY <1>4, <1>6, FS_AddElement
<1>8. (Owers \cup Pending) \cup {s} \subseteq Shots
  BY DEF Owers, Pending
<1>9. Cardinality((Owers \cup Pending) \cup {s}) <= Cardinality(Shots)
  BY <1>8, OneShotAssumption, FS_Subset
<1>. QED  BY <1>5, <1>7, <1>9

\* The numbers of a state that CapArithmetic speaks of.
LEMMA Numbers ==
    ASSUME FitInv
    PROVE  /\ IsFiniteSet(unlogged) /\ Cardinality(unlogged) \in Nat
           /\ Outstanding \in SUBSET (DOMAIN billed)
           /\ Dollars(DOMAIN billed) \in Nat /\ Dollars(Outstanding) \in Nat
           /\ Dollars(Outstanding) <= Dollars(DOMAIN billed)
           /\ Dollars(Outstanding)
                <= MaxCost * (Cardinality(unlogged) + Cardinality(Owers))
<1>1. /\ billed \in Seq(Bills) /\ unlogged \in SUBSET (DOMAIN billed)
      /\ InHand \subseteq DOMAIN billed
  BY HandSize DEF FitInv, OneShotTypes
<1>2. /\ Outstanding \in SUBSET (DOMAIN billed)
      /\ DOMAIN billed \in SUBSET (DOMAIN billed)
  BY <1>1 DEF Outstanding
<1>3. IsFiniteSet(unlogged) /\ Cardinality(unlogged) \in Nat
  BY <1>1, WorthOf
<1>4. /\ Worth(billed, Outstanding) \in Nat /\ Worth(billed, DOMAIN billed) \in Nat
      /\ Worth(billed, Outstanding) <= MaxCost * Cardinality(Outstanding)
      /\ Worth(billed, Outstanding) <= Worth(billed, DOMAIN billed)
      /\ Cardinality(Outstanding) \in Nat
  BY <1>1, <1>2, WorthOf
<1>5. /\ IsFiniteSet(InHand) /\ Cardinality(InHand) \in Nat
      /\ Cardinality(Owers) \in Nat /\ Cardinality(InHand) <= Cardinality(Owers)
  BY HandSize
<1>6. Cardinality(Outstanding) <= Cardinality(unlogged) + Cardinality(Owers)
  <2>1. Cardinality(unlogged \cup InHand) =
            Cardinality(unlogged) + Cardinality(InHand) - Cardinality(unlogged \cap InHand)
    BY <1>3, <1>5, FS_Union
  <2>2. Cardinality(unlogged \cap InHand) \in Nat
    <3>1. unlogged \cap InHand \subseteq InHand
      OBVIOUS
    <3>. QED  BY <1>5, <3>1, FS_Subset, FS_CardinalityType
  <2>3. Cardinality(Outstanding) = Cardinality(unlogged \cup InHand)
    BY DEF Outstanding
  <2>. QED  BY <1>3, <1>5, <2>1, <2>2, <2>3
<1>7. MaxCost * Cardinality(Outstanding)
        <= MaxCost * (Cardinality(unlogged) + Cardinality(Owers))
  BY <1>3, <1>4, <1>5, <1>6, Weighted, OneShotAssumption
<1>8. /\ Dollars(Outstanding) = Worth(billed, Outstanding)
      /\ Dollars(DOMAIN billed) = Worth(billed, DOMAIN billed)
  BY DEF Dollars, Worth
<1>9. /\ MaxCost * Cardinality(Outstanding) \in Nat
      /\ MaxCost * (Cardinality(unlogged) + Cardinality(Owers)) \in Nat
  BY <1>3, <1>4, <1>5, OneShotAssumption
<1>. QED  BY <1>2, <1>3, <1>4, <1>7, <1>8, <1>9

LEMMA HandsNow ==
    ASSUME NEW s \in Shots, Leaves(s)
    PROVE  \E others : /\ InHand = others \cup Held(s)
                       /\ InHand' = others \cup Held(s)'
                       /\ others = UNION {Held(t) : t \in Shots \ {s}}
<1>. DEFINE others == UNION {Held(t) : t \in Shots \ {s}}
<1>1. InHand = others \cup Held(s)
  BY DEF InHand
<1>2. InHand' = others \cup Held(s)'
  BY DEF InHand, Leaves
<1>. QED  BY <1>1, <1>2

LEMMA NextNumbers ==
    ASSUME FitInv'
    PROVE  /\ billed' \in Seq(Bills) /\ unlogged' \subseteq DOMAIN billed'
           /\ IsFiniteSet(unlogged') /\ Cardinality(unlogged') \in Nat
           /\ Dollars(DOMAIN billed)' = Worth(billed', DOMAIN billed')
           /\ Dollars(Outstanding)' = Worth(billed', Outstanding')
           /\ logged' \in Nat
<1>1. /\ billed' \in Seq(Bills) /\ unlogged' \in SUBSET (DOMAIN billed')
      /\ logged' \in Nat
  BY DEF FitInv, OneShotTypes
<1>2. IsFiniteSet(unlogged') /\ Cardinality(unlogged') \in Nat
  BY <1>1, WorthOf
<1>. QED  BY <1>1, <1>2 DEF Dollars, Worth

\* When the bill, what is in no log and who has still to be billed do not grow.
LEMMA CoverStays ==
    ASSUME FitInv, FitInv', Covered, UNCHANGED billed,
           Pending' \subseteq Pending, unlogged \subseteq unlogged'
    PROVE  Covered'
<1>1. /\ MaxCost \in Nat /\ CapUsd \in Nat /\ Cardinality(Shots) \in Nat
      /\ Cardinality(Pending) \in Nat /\ Cardinality(unlogged) \in Nat
      /\ Dollars(DOMAIN billed) \in Nat /\ Cardinality(Pending') \in Nat
      /\ IsFiniteSet(unlogged') /\ Cardinality(unlogged') \in Nat
  BY OneShotAssumption, PendingFinite, PendingFiniteNext, Numbers, NextNumbers
<1>2. Cardinality(Pending') <= Cardinality(Pending)
  BY PendingFinite, FS_Subset
<1>3. Cardinality(unlogged) <= Cardinality(unlogged')
  BY <1>1, FS_Subset
<1>4. Dollars(DOMAIN billed)' = Dollars(DOMAIN billed)
  BY DEF Dollars
<1>5. PICK d \in Nat, e \in Nat : d = Dollars(DOMAIN billed) /\ e = Dollars(DOMAIN billed)'
  BY <1>1, <1>4
<1>6. d + MaxCost * Cardinality(Pending)
        < CapUsd + MaxCost * (Cardinality(Shots) + Cardinality(unlogged))
  BY <1>5 DEF Covered
<1>7. e + MaxCost * Cardinality(Pending')
        < CapUsd + MaxCost * (Cardinality(Shots) + Cardinality(unlogged'))
  BY <1>1, <1>2, <1>3, <1>4, <1>5, <1>6, CapArithmetic
<1>. QED  BY <1>5, <1>7 DEF Covered

LEMMA HandsFit ==
    FitInv => \A t \in Shots : Held(t) \subseteq DOMAIN billed
BY HeldIs

LEMMA Priced == \A c \in Costs : c \in Nat /\ c <= MaxCost
BY OneShotAssumption

LEMMA CapStep ==
    ASSUME FitInv, CapInv, [OneShotNext]_oneShot
    PROVE  CapInv'
<1>1. FitInv' /\ HandsApart /\ Accounted /\ Covered
  BY FitStep DEF CapInv
<1>2. /\ billed \in Seq(Bills) /\ logged \in Nat /\ unlogged \subseteq DOMAIN billed
      /\ DOMAIN billed = 1..Len(billed) /\ Len(billed) \in Nat
  BY DEF FitInv, OneShotTypes
<1>3. \A t \in Shots : Held(t) \subseteq DOMAIN billed
  BY HandsFit
<1>4. CASE Quiet
  <2>1. InHand' = InHand
    BY <1>4 DEF Quiet, InHand
  <2>2. HandsApart'
    BY <1>1, <1>4 DEF Quiet, HandsApart
  <2>3. Accounted'
    BY <1>1, <1>4, <2>1 DEF Quiet, Accounted, Dollars, Outstanding
  <2>4. Covered'
    BY <1>1, <1>4, CoverStays DEF Quiet
  <2>. QED  BY <2>2, <2>3, <2>4 DEF CapInv
<1>5. CASE Purges
  <2>1. unlogged \subseteq unlogged' /\ Outstanding' = DOMAIN billed
    <3>1. unlogged \cap InHand = {}
      BY <1>1 DEF HandsApart, InHand
    <3>2. InHand' = InHand /\ InHand \subseteq DOMAIN billed
      BY <1>3, <1>5 DEF Purges, InHand
    <3>. QED  BY <1>2, <1>5, <3>1, <3>2 DEF Purges, Outstanding
  <2>2. HandsApart'
    BY <1>1, <1>5 DEF Purges, HandsApart, InHand
  <2>3. Accounted'
    <3>1. /\ Dollars(Outstanding)' = Dollars(DOMAIN billed)
          /\ Dollars(DOMAIN billed)' = Dollars(DOMAIN billed) /\ logged' = 0
      BY <1>5, <2>1 DEF Purges, Dollars
    <3>2. Dollars(DOMAIN billed) \in Nat
      BY Numbers
    <3>. QED  BY <3>1, <3>2 DEF Accounted
  <2>4. Covered'
    BY <1>1, <1>5, <2>1, CoverStays DEF Purges
  <2>. QED  BY <2>2, <2>3, <2>4 DEF CapInv
<1>6. ASSUME NEW s \in Shots, Passes(s)
      PROVE  CapInv'
  <2>1. InHand' = InHand /\ UNCHANGED <<billed, unlogged, logged>>
    BY <1>6 DEF Passes, InHand
  <2>2. HandsApart'
    BY <1>1, <1>6 DEF Passes, HandsApart
  <2>3. Accounted'
    BY <1>1, <2>1 DEF Accounted, Dollars, Outstanding
  <2>4. Covered'
    <3>1. /\ MaxCost \in Nat /\ CapUsd \in Nat /\ Cardinality(Shots) \in Nat
          /\ Cardinality(Pending) \in Nat /\ Cardinality(unlogged) \in Nat
          /\ Cardinality(Owers) \in Nat
          /\ Dollars(DOMAIN billed) \in Nat /\ Dollars(Outstanding) \in Nat
          /\ Dollars(Outstanding)
                <= MaxCost * (Cardinality(unlogged) + Cardinality(Owers))
      BY OneShotAssumption, PendingFinite, HandSize, Numbers
    <3>2. Cardinality(Owers) + Cardinality(Pending) + 1 <= Cardinality(Shots)
      BY <1>6, Room DEF Passes
    <3>3. Cardinality(Pending') = Cardinality(Pending) + 1
      BY <1>6, PendingFinite, FS_AddElement DEF Passes
    <3>4. Dollars(DOMAIN billed) < CapUsd + Dollars(Outstanding)
      <4>1. logged < CapUsd /\ Dollars(DOMAIN billed) <= logged + Dollars(Outstanding)
        BY <1>1, <1>6 DEF Passes, Accounted
      <4>2. \A d, o, l \in Nat : l < CapUsd /\ d <= l + o => d < CapUsd + o
        BY <3>1
      <4>. QED  BY <1>2, <3>1, <4>1, <4>2
    <3>5. PICK u, w, p, S \in Nat :
              u = Cardinality(unlogged) /\ w = Cardinality(Owers)
              /\ p = Cardinality(Pending) /\ S = Cardinality(Shots)
      BY <3>1
    <3>6. MaxCost * ((u + w) + (p + 1)) <= MaxCost * (S + u)
      <4>1. (u + w) + (p + 1) <= S + u
        BY <3>2, <3>5
      <4>. QED  BY <3>1, <4>1, Weighted
    <3>7. /\ MaxCost * ((u + w) + (p + 1)) = MaxCost * (u + w) + MaxCost * (p + 1)
          /\ MaxCost * (u + w) \in Nat /\ MaxCost * (p + 1) \in Nat
          /\ MaxCost * (S + u) \in Nat
      BY <3>1
    <3>8. Dollars(DOMAIN billed) + MaxCost * (p + 1) < CapUsd + MaxCost * (S + u)
      BY <3>1, <3>4, <3>5, <3>6, <3>7
    <3>9. Dollars(DOMAIN billed)' = Dollars(DOMAIN billed) /\ unlogged' = unlogged
      BY <2>1 DEF Dollars
    <3>. QED  BY <3>3, <3>5, <3>8, <3>9 DEF Covered
  <2>. QED  BY <2>2, <2>3, <2>4 DEF CapInv
<1>7. ASSUME NEW s \in Shots, Dies(s)
      PROVE  CapInv'
  <2>1. PICK others : /\ InHand = others \cup Held(s)
                      /\ InHand' = others \cup Held(s)'
    BY <1>7, HandsNow DEF Dies
  <2>2. Outstanding' = Outstanding /\ unlogged \subseteq unlogged'
    BY <1>7, <2>1 DEF Dies, Outstanding
  <2>3. HandsApart'
    BY <1>1, <1>7 DEF Dies, Leaves, HandsApart
  <2>4. Accounted'
    BY <1>1, <1>7, <2>2 DEF Dies, Accounted, Dollars
  <2>5. Covered'
    BY <1>1, <1>7, <2>2, CoverStays DEF Dies
  <2>. QED  BY <2>3, <2>4, <2>5 DEF CapInv
<1>8. ASSUME NEW s \in Shots, NEW n, Logs(s, n)
      PROVE  CapInv'
  <2>1. PICK others : /\ InHand = others \cup Held(s)
                      /\ InHand' = others \cup Held(s)'
    BY <1>8, HandsNow DEF Logs
  <2>2. Outstanding \subseteq Outstanding' \cup {n} /\ Outstanding' \subseteq Outstanding
    BY <1>8, <2>1 DEF Logs, Outstanding
  <2>3. HandsApart'
    BY <1>1, <1>8 DEF Logs, Leaves, HandsApart
  <2>4. Accounted'
    <3>1. PICK N : N = Outstanding'
      OBVIOUS
    <3>2. PICK M : M = Outstanding
      OBVIOUS
    <3>3. /\ M \in SUBSET (DOMAIN billed) /\ N \in SUBSET (DOMAIN billed)
          /\ n \in DOMAIN billed /\ N \cup {n} \in SUBSET (DOMAIN billed)
          /\ M \in SUBSET (N \cup {n})
      BY <1>8, <2>2, <3>1, <3>2, Numbers DEF Logs
    <3>4. PICK c \in Nat : c = billed[n].cost
      <4>1. billed[n] \in Bills
        BY <1>2, <3>3
      <4>2. billed[n].cost \in Costs
        BY <4>1 DEF Bills
      <4>. QED  BY <4>2, Priced
    <3>5. /\ Worth(billed, M) \in Nat /\ Worth(billed, N) \in Nat
          /\ Worth(billed, N \cup {n}) \in Nat
          /\ Worth(billed, M) <= Worth(billed, N \cup {n})
      BY <1>2, <3>3, WorthOf
    <3>6. Worth(billed, N \cup {n}) <= Worth(billed, N) + c
      <4>1. CASE n \in N
        <5>1. N \cup {n} = N
          BY <4>1
        <5>2. PICK x \in Nat : x = Worth(billed, N)
          BY <3>5
        <5>3. x <= x + c
          BY <3>4
        <5>. QED  BY <5>1, <5>2, <5>3
      <4>2. CASE n \notin N
        BY <1>2, <3>3, <3>4, <3>5, <4>2, WorthOfOneMore
      <4>. QED  BY <4>1, <4>2
    <3>7. /\ Dollars(Outstanding) = Worth(billed, M)
          /\ Dollars(Outstanding)' = Worth(billed, N)
          /\ Dollars(DOMAIN billed)' = Dollars(DOMAIN billed)
          /\ logged' = logged + c
      BY <1>8, <3>1, <3>2, <3>4 DEF Logs, Dollars, Worth
    <3>8. Dollars(DOMAIN billed) <= logged + Worth(billed, M)
      BY <1>1, <3>7 DEF Accounted
    <3>9. Dollars(DOMAIN billed) \in Nat
      BY Numbers
    <3>10. Dollars(DOMAIN billed) <= (logged + c) + Worth(billed, N)
      BY <1>2, <3>5, <3>6, <3>8, <3>9
    <3>. QED  BY <3>7, <3>10 DEF Accounted
  <2>5. Covered'
    BY <1>1, <1>8, CoverStays DEF Logs
  <2>. QED  BY <2>3, <2>4, <2>5 DEF CapInv
<1>9. ASSUME NEW s \in Shots, NEW b \in Bills, IsBilled(s, b)
      PROVE  CapInv'
  <2>1. PICK others : /\ InHand = others \cup Held(s)
                      /\ InHand' = others \cup Held(s)'
    BY <1>9, HandsNow DEF IsBilled
  <2>2. PICK n \in Nat : n = Len(billed) + 1
    BY <1>2
  <2>3. PICK bill, D, N, M : /\ bill = billed' /\ D = DOMAIN billed
                             /\ N = Outstanding /\ M = Outstanding'
    OBVIOUS
  <2>4. /\ bill = Append(billed, b) /\ bill \in Seq(Bills) /\ DOMAIN bill = D \cup {n}
        /\ bill[n] = b /\ n \notin D /\ D \in SUBSET (DOMAIN bill)
    BY <1>2, <1>9, <2>2, <2>3 DEF IsBilled
  <2>5. M = N \cup {n}
    BY <1>9, <2>1, <2>2, <2>3 DEF IsBilled, Outstanding
  <2>6. N \in SUBSET D /\ N \in SUBSET (DOMAIN bill) /\ n \notin N /\ n \in DOMAIN bill
    BY <2>3, <2>4, Numbers
  <2>7. HandsApart'
    <3>1. n \notin unlogged /\ \A t \in Shots : n \notin Held(t)
      BY <1>2, <1>3, <2>3, <2>4
    <3>. QED  BY <1>1, <1>9, <2>2, <3>1 DEF IsBilled, Leaves, HandsApart
  <2>8. PICK c \in Nat : c = b.cost /\ c <= MaxCost
    <3>1. b.cost \in Costs
      BY DEF Bills
    <3>. QED  BY <3>1, Priced
  <2>9. /\ Worth(bill, D \cup {n}) = Worth(billed, D) + c
        /\ Worth(bill, N \cup {n}) = Worth(billed, N) + c
    <3>1. /\ Worth(bill, D \cup {n}) = Worth(bill, D) + bill[n].cost
          /\ Worth(bill, N \cup {n}) = Worth(bill, N) + bill[n].cost
      BY <2>4, <2>6, WorthOfOneMore
    <3>2. Worth(bill, D) = Worth(billed, D) /\ Worth(bill, N) = Worth(billed, N)
      BY <1>2, <2>3, <2>4, <2>6, WorthStays
    <3>. QED  BY <2>4, <2>8, <3>1, <3>2
  <2>10. /\ Dollars(DOMAIN billed) = Worth(billed, D)
         /\ Dollars(Outstanding) = Worth(billed, N)
         /\ Dollars(DOMAIN billed)' = Worth(bill, D \cup {n})
         /\ Dollars(Outstanding)' = Worth(bill, N \cup {n})
    BY <1>1, <2>3, <2>4, <2>5, NextNumbers DEF Dollars, Worth
  <2>11. PICK d \in Nat, o \in Nat, e \in Nat :
            /\ d = Dollars(DOMAIN billed) /\ o = Dollars(Outstanding)
            /\ e = Dollars(DOMAIN billed)'
            /\ e = d + c /\ Dollars(Outstanding)' = o + c
    BY <2>8, <2>9, <2>10, Numbers
  <2>12. Accounted'
    <3>1. d <= logged + o /\ logged' = logged
      BY <1>1, <1>9, <2>11 DEF Accounted, IsBilled
    <3>2. e <= logged + (o + c)
      BY <1>2, <2>11, <3>1
    <3>. QED  BY <2>11, <3>1, <3>2 DEF Accounted
  <2>13. Covered'
    <3>1. /\ MaxCost \in Nat /\ CapUsd \in Nat /\ Cardinality(Shots) \in Nat
          /\ Cardinality(Pending) \in Nat /\ Cardinality(unlogged) \in Nat
          /\ Cardinality(Pending') \in Nat
          /\ IsFiniteSet(unlogged') /\ Cardinality(unlogged') \in Nat
      BY <1>1, OneShotAssumption, PendingFinite, PendingFiniteNext, Numbers, NextNumbers
    <3>2. Cardinality(unlogged) <= Cardinality(unlogged')
      <4>1. unlogged \subseteq unlogged'
        BY <1>9 DEF IsBilled
      <4>. QED  BY <3>1, <4>1, FS_Subset
    <3>3. Cardinality(Pending') + 1 <= Cardinality(Pending)
      <4>1. Cardinality(Pending') = Cardinality(Pending) - 1
        BY <1>9, PendingFinite, FS_RemoveElement DEF IsBilled
      <4>. QED  BY <3>1, <4>1
    <3>4. d + MaxCost * Cardinality(Pending)
            < CapUsd + MaxCost * (Cardinality(Shots) + Cardinality(unlogged))
      BY <1>1, <2>11 DEF Covered
    <3>5. e <= d + MaxCost
      BY <2>8, <2>11, <3>1
    <3>6. e + MaxCost * Cardinality(Pending')
            < CapUsd + MaxCost * (Cardinality(Shots) + Cardinality(unlogged'))
      BY <3>1, <3>2, <3>3, <3>4, <3>5, CapArithmetic
    <3>. QED  BY <2>11, <3>6 DEF Covered
  <2>. QED  BY <2>7, <2>12, <2>13 DEF CapInv
<1>. QED  BY <1>4, <1>5, <1>6, <1>7, <1>8, <1>9, Effects

LEMMA CapInitInv == OneShotInit => CapInv
<1>. SUFFICES ASSUME OneShotInit
              PROVE  CapInv
  OBVIOUS
<1>1. FitInv
  BY OneShotInitInv
<1>2. /\ unlogged = {} /\ logged = 0 /\ DOMAIN billed = {}
      /\ \A s \in Shots : Held(s) = {} /\ s \notin Pending
  BY DEF OneShotInit, Resting, Held, Pending
<1>3. Pending = {}
  BY <1>2 DEF Pending
<1>4. HandsApart
  BY <1>2 DEF HandsApart
<1>5. Dollars({}) = 0 /\ Cardinality({}) = 0
  <2>1. {p \in {} \X (1..MaxCost) : p[2] <= billed[p[1]].cost} = {}
    OBVIOUS
  <2>. QED  BY <2>1, FS_EmptySet DEF Dollars
<1>6. Dollars(Outstanding) \in Nat
  BY <1>1, Numbers
<1>7. Accounted
  BY <1>2, <1>5, <1>6 DEF Accounted
<1>8. Covered
  <2>1. /\ MaxCost * 0 = 0 /\ MaxCost * (Cardinality(Shots) + 0) \in Nat
        /\ CapUsd \in Nat \ {0}
    BY OneShotAssumption, PendingFinite
  <2>2. 0 + MaxCost * 0 < CapUsd + MaxCost * (Cardinality(Shots) + 0)
    BY <2>1
  <2>. QED  BY <1>2, <1>3, <1>5, <2>2 DEF Covered
<1>. QED  BY <1>4, <1>7, <1>8 DEF CapInv

\* _run_common, check_budget: however many commands run at a time, die or fail
\* in the middle of a call, and whenever the logs are purged, the bill exceeds
\* the cap by less than one call for each process and each call in no log.
THEOREM CapIsKept == OneShotSpec => []CapHolds
<1>1. OneShotInit => FitInv /\ CapInv
  BY OneShotInitInv, CapInitInv
<1>2. FitInv /\ CapInv /\ [OneShotNext]_oneShot => (FitInv /\ CapInv)'
  BY FitStep, CapStep
<1>3. FitInv /\ CapInv => CapHolds
  <2>. SUFFICES ASSUME FitInv, CapInv
                PROVE  CapHolds
    OBVIOUS
  <2>1. MaxCost * Cardinality(Pending) \in Nat
    BY OneShotAssumption, PendingFinite
  <2>2. PICK d \in Nat, m \in Nat :
            d = Dollars(DOMAIN billed) /\ m = MaxCost * Cardinality(Pending)
    BY <2>1, Numbers
  <2>3. /\ Cardinality(Shots) + Cardinality(unlogged) \in Nat
        /\ MaxCost \in Nat /\ CapUsd \in Nat
    BY OneShotAssumption, PendingFinite, Numbers
  <2>4. PICK k \in Nat :
            k = CapUsd + MaxCost * (Cardinality(Shots) + Cardinality(unlogged))
    BY <2>3
  <2>5. d + m < k
    BY <2>2, <2>4 DEF CapInv, Covered
  <2>6. d < k
    BY <2>5
  <2>. QED  BY <2>2, <2>4, <2>6 DEF CapHolds
<1>. QED
  BY <1>1, <1>2, <1>3, PTL DEF OneShotSpec

-----------------------------------------------------------------------------
(* Billing.  What Stripe sends about an org that never opened two           *)
(* subscriptions at a time is a chain: each event but a checkout follows    *)
(* one about the same subscription.  Handled in that order, each event      *)
(* finds the row its predecessor left, with the customer it needs.          *)

Plans == {"none", "active", "past_due", "canceled"}

EventKinds == {"checkout.session.completed", "customer.subscription.updated",
               "customer.subscription.deleted", "invoice.payment_failed",
               "invoice.payment_succeeded"}

EventsSent == [kind : EventKinds, of : Subs, status : Plans, object : Objects]

Tiers == {"free"} \cup {SubTier[s] : s \in Subs}

Rows == [tier : Tiers, customer : {Nobody} \cup {SubCustomer[s] : s \in Subs},
         bought : {Nobody} \cup Subs, status : Plans, period : Nat \cup {Nobody}]

BillTypes ==
    /\ month \in Nat
    /\ plan \in [Subs -> Plans]
    /\ paidFor \in [Subs -> Nat]
    /\ events \in Seq(EventsSent) /\ delivered \in Seq(Nat)
    /\ Len(delivered) = Len(events)
    /\ sub \in [Customers -> Rows]

\* An event says what its kind is about.
EventFits(i) ==
    /\ plan[events[i].of] # "none"
    /\ events[i].kind = "checkout.session.completed" => events[i].status = "active"
    /\ events[i].kind = "customer.subscription.deleted" => events[i].status = "canceled"
    /\ events[i].kind = "invoice.payment_failed" => events[i].status = "past_due"

Own(o) == {i \in DOMAIN events : SubOrg[events[i].of] = o}

\* What a row holds came from its org's own subscriptions and events.
RowFits(o) ==
    /\ sub[o].tier # "free" => \E s \in SubsOf(o) :
                                    plan[s] # "none" /\ SubTier[s] = sub[o].tier
    /\ sub[o].status # "none" => \E i \in Own(o) :
                delivered[i] > 0 /\ events[i].status = sub[o].status
    /\ sub[o].customer # Nobody => \E s \in SubsOf(o) : sub[o].customer = SubCustomer[s]

TenantInv ==
    /\ BillTypes
    /\ \A i \in DOMAIN events : EventFits(i)
    /\ \A o \in Customers : RowFits(o)

\* The last event about the org.
IsLast(i, o) == i \in Own(o) /\ \A j \in Own(o) : j <= i

HasLast(o) == Own(o) # {} => \E i \in Own(o) : IsLast(i, o)

\* What Stripe did for an org with one subscription at a time.
OneAtATime(o) == \A s, t \in SubsOf(o) : Live(s) /\ Live(t) => s = t

TellsLive(o) ==
    \A s \in SubsOf(o) : Live(s) => \E i \in Own(o) :
        /\ IsLast(i, o) /\ events[i].of = s /\ events[i].status = plan[s]
        /\ events[i].kind \in {"checkout.session.completed",
                               "customer.subscription.updated"}

TellsEnd(o) ==
    \A i \in Own(o) :
        IsLast(i, o) /\ events[i].kind # "customer.subscription.deleted"
            => Live(events[i].of)

Continues(i, o) ==
    \E j \in Own(o) :
        /\ j < i /\ events[j].of = events[i].of
        /\ events[j].kind # "customer.subscription.deleted"
        /\ \A k \in Own(o) : k <= j \/ k >= i

Chained(o) ==
    \A i \in Own(o) :
        events[i].kind # "checkout.session.completed" => Continues(i, o)

\* What the server made of it, in order and once.
InTurn(o) ==
    \A i, j \in Own(o) : i < j /\ delivered[j] > 0 => delivered[i] > 0

LastHandled(i, o) ==
    /\ i \in Own(o) /\ delivered[i] > 0
    /\ \A j \in Own(o) : j > i => delivered[j] = 0

RowAfter(e, r) ==
    /\ r.customer = SubCustomer[e.of] /\ r.bought = e.of
    /\ r.tier = IF e.kind = "customer.subscription.deleted" THEN "free"
                                                         ELSE SubTier[e.of]
    /\ e.kind # "invoice.payment_succeeded" => r.status = e.status

RowFollows(o) ==
    /\ \A i \in Own(o) : LastHandled(i, o) => RowAfter(events[i], sub[o])
    /\ (\A i \in Own(o) : delivered[i] = 0) =>
            /\ sub[o].tier = "free"
            /\ sub[o].bought = Nobody /\ sub[o].period = Nobody

\* The period of the row is the one Stripe has, until Stripe says otherwise.
PeriodKept(o) ==
    \A i \in Own(o) :
        /\ LastHandled(i, o) /\ o \notin blind
        /\ \A j \in Own(o) : j > i /\ LooksUp(events[j]) =>
                                events[j].of # events[i].of
        => sub[o].period = paidFor[events[i].of]

StripeFits(o) ==
    HasLast(o) /\ OneAtATime(o) /\ TellsLive(o) /\ TellsEnd(o) /\ Chained(o)

RowKept(o) == InTurn(o) /\ RowFollows(o) /\ PeriodKept(o)

\* The org got its events in order and once, and every handler reads them.
Served(o) ==
    o \notin disordered /\ \A i \in Own(o) : events[i].object = "expected"

FollowInv ==
    \A o \in Customers \ doubled :
        StripeFits(o) /\ (Served(o) => RowKept(o))

LEMMA BillingInitInv == BillingInit => TenantInv /\ FollowInv
<1>. SUFFICES ASSUME BillingInit
              PROVE  TenantInv /\ FollowInv
  OBVIOUS
<1>1. /\ Placeholder \in Rows /\ Placeholder.tier = "free"
      /\ Placeholder.status = "none" /\ Placeholder.customer = Nobody
      /\ Placeholder.bought = Nobody /\ Placeholder.period = Nobody
  BY DEF Placeholder, Rows, Tiers, Plans
<1>2. /\ sub \in [Customers -> Rows]
      /\ \A o \in Customers : /\ sub[o].tier = "free" /\ sub[o].status = "none"
                              /\ sub[o].customer = Nobody
                              /\ sub[o].bought = Nobody /\ sub[o].period = Nobody
  BY <1>1 DEF BillingInit
<1>3. BillTypes
  BY <1>2 DEF BillingInit, BillTypes, Plans
<1>4. DOMAIN events = {} /\ \A o : Own(o) = {}
  BY DEF BillingInit, Own
<1>5. \A s \in Subs : ~Live(s)
  BY DEF BillingInit, Live
<1>6. TenantInv
  BY <1>2, <1>3, <1>4 DEF TenantInv, RowFits
<1>7. ASSUME NEW o \in Customers
      PROVE  StripeFits(o) /\ RowKept(o)
  <2>1. StripeFits(o)
    BY <1>4, <1>5 DEF StripeFits, HasLast, OneAtATime, TellsLive, TellsEnd, Chained,
                      SubsOf
  <2>2. RowKept(o)
    BY <1>2, <1>4 DEF RowKept, InTurn, RowFollows, PeriodKept
  <2>. QED  BY <2>1, <2>2
<1>. QED  BY <1>6, <1>7 DEF FollowInv

\* What Stripe sends comes after everything it sent, and is not yet delivered.
Longer(n) ==
    /\ n = Len(events) /\ DOMAIN events = 1..n
    /\ events' \in Seq(EventsSent) /\ delivered' \in Seq(Nat)
    /\ Len(delivered') = Len(events') /\ DOMAIN events \subseteq DOMAIN events'
    /\ \A i \in DOMAIN events : events'[i] = events[i] /\ delivered'[i] = delivered[i]
    /\ \A i \in DOMAIN events' \ DOMAIN events : i > n /\ delivered'[i] = 0

LEMMA Joined ==
    ASSUME NEW S, NEW a \in Seq(S), NEW b \in Seq(S)
    PROVE  /\ a \o b \in Seq(S) /\ Len(a \o b) = Len(a) + Len(b)
           /\ \A i \in 1..Len(a) : (a \o b)[i] = a[i]
           /\ \A i \in 1..Len(b) : (a \o b)[Len(a) + i] = b[i]
OBVIOUS

LEMMA Sent ==
    ASSUME BillTypes, NEW batch \in Seq(EventsSent), Send(batch)
    PROVE  \E n \in Nat :
              /\ Longer(n) /\ DOMAIN events' = 1..(n + Len(batch))
              /\ \A k \in 1..Len(batch) : events'[n + k] = batch[k]
              /\ \A i \in DOMAIN events' \ DOMAIN events :
                    i - n \in 1..Len(batch) /\ i = n + (i - n)
<1>. DEFINE zeros == [i \in DOMAIN batch |-> 0]
<1>1. PICK n \in Nat, k \in Nat :
          /\ n = Len(events) /\ n = Len(delivered) /\ k = Len(batch)
          /\ DOMAIN events = 1..n /\ DOMAIN delivered = 1..n /\ DOMAIN batch = 1..k
          /\ events \in Seq(EventsSent) /\ delivered \in Seq(Nat)
  BY DEF BillTypes
<1>2. zeros \in Seq(Nat) /\ Len(zeros) = k /\ \A i \in 1..k : zeros[i] = 0
  <2>1. zeros \in [1..k -> Nat]
    BY <1>1
  <2>. QED  BY <1>1, <2>1
<1>. HIDE DEF zeros
<1>3. events' = events \o batch /\ delivered' = delivered \o zeros
  BY DEF Send, zeros
<1>4. /\ events' \in Seq(EventsSent) /\ Len(events') = n + k
      /\ DOMAIN events' = 1..(n + k)
      /\ \A i \in 1..n : events'[i] = events[i]
      /\ \A i \in 1..k : events'[n + i] = batch[i]
  <2>1. /\ events' \in Seq(EventsSent) /\ Len(events') = Len(events) + Len(batch)
        /\ \A i \in 1..Len(events) : events'[i] = events[i]
        /\ \A i \in 1..Len(batch) : events'[Len(events) + i] = batch[i]
    <3>1. events \in Seq(EventsSent) /\ events' = events \o batch
      BY <1>1, <1>3
    <3>. QED  BY ONLY <3>1, batch \in Seq(EventsSent), Joined
  <2>2. DOMAIN events' = 1..Len(events')
    BY <2>1
  <2>. QED  BY <1>1, <2>1, <2>2
<1>5. /\ delivered' \in Seq(Nat) /\ Len(delivered') = n + k
      /\ \A i \in 1..n : delivered'[i] = delivered[i]
      /\ \A i \in 1..k : delivered'[n + i] = 0
  <2>1. /\ delivered' \in Seq(Nat) /\ Len(delivered') = Len(delivered) + Len(zeros)
        /\ \A i \in 1..Len(delivered) : delivered'[i] = delivered[i]
        /\ \A i \in 1..Len(zeros) : delivered'[Len(delivered) + i] = zeros[i]
    <3>1. /\ delivered \in Seq(Nat) /\ delivered' = delivered \o zeros
          /\ zeros \in Seq(Nat)
      BY <1>1, <1>2, <1>3
    <3>. QED  BY ONLY <3>1, Joined
  <2>. QED  BY <1>1, <1>2, <2>1
<1>6. \A i \in DOMAIN events' \ DOMAIN events :
          i > n /\ i - n \in 1..k /\ i = n + (i - n)
  BY <1>1, <1>4
<1>7. Longer(n)
  BY <1>1, <1>4, <1>5, <1>6 DEF Longer
<1>. QED  BY <1>1, <1>4, <1>6, <1>7

\* The events of an org, when those sent are about one subscription.
LEMMA OwnNow ==
    ASSUME BillTypes, NEW n \in Nat, Longer(n), NEW s \in Subs,
           \A i \in DOMAIN events' \ DOMAIN events : events'[i].of = s
    PROVE  /\ \A o \in Customers \ {SubOrg[s]} : Own(o)' = Own(o)
           /\ Own(SubOrg[s])' = Own(SubOrg[s]) \cup (DOMAIN events' \ DOMAIN events)
           /\ \A o \in Customers : Own(o) \subseteq Own(o)' /\ Own(o) \subseteq 1..n
BY DEF Longer, Own

LEMMA TenantSent ==
    ASSUME TenantInv, NEW n \in Nat, Longer(n), NEW s \in Subs,
           \A i \in DOMAIN events' \ DOMAIN events :
              events'[i].of = s /\ EventFits(i)',
           NEW status \in Plans \ {"none"}, plan' = [plan EXCEPT ![s] = status],
           paidFor' \in [Subs -> Nat], month' = month, UNCHANGED tenants
    PROVE  TenantInv'
<1>1. BillTypes /\ (\A i \in DOMAIN events : EventFits(i))
      /\ \A o \in Customers : RowFits(o)
  BY DEF TenantInv
<1>2. /\ plan' \in [Subs -> Plans] /\ \A t \in Subs : plan[t] # "none" => plan'[t] # "none"
  BY <1>1 DEF BillTypes
<1>3. BillTypes'
  BY <1>1, <1>2 DEF BillTypes, Longer, tenants
<1>4. ASSUME NEW i \in DOMAIN events'
      PROVE  EventFits(i)'
  <2>1. CASE i \in DOMAIN events
    <3>1. events'[i] = events[i] /\ events[i] \in EventsSent /\ EventFits(i)
      BY <1>1, <2>1 DEF Longer, BillTypes
    <3>2. events[i].of \in Subs
      BY <3>1 DEF EventsSent
    <3>. QED  BY <1>2, <3>1, <3>2 DEF EventFits
  <2>. QED  BY <2>1
<1>5. ASSUME NEW o \in Customers
      PROVE  RowFits(o)'
  <2>1. sub' = sub /\ Own(o) \subseteq Own(o)' /\ Own(o) \subseteq DOMAIN events
    BY <1>1, OwnNow DEF tenants, Own
  <2>2. RowFits(o)
    BY <1>1
  <2>3. sub'[o].tier # "free" => \E t \in SubsOf(o) :
                                    plan'[t] # "none" /\ SubTier[t] = sub'[o].tier
    BY <1>2, <2>1, <2>2 DEF RowFits, SubsOf
  <2>4. sub'[o].status # "none" => \E i \in Own(o)' :
                delivered'[i] > 0 /\ events'[i].status = sub'[o].status
    BY <2>1, <2>2 DEF RowFits, Longer
  <2>5. sub'[o].customer # Nobody => \E t \in SubsOf(o) : sub'[o].customer = SubCustomer[t]
    BY <2>1, <2>2 DEF RowFits
  <2>. QED  BY <2>3, <2>4, <2>5 DEF RowFits, SubsOf
<1>. QED  BY <1>3, <1>4, <1>5 DEF TenantInv

\* What nothing happened to.
LEMMA StripeStays ==
    ASSUME NEW o \in Customers, Own(o)' = Own(o),
           \A i \in Own(o) : events'[i] = events[i],
           \A s \in SubsOf(o) : plan'[s] = plan[s], StripeFits(o),
           \A i \in Own(o) : events[i].of \in SubsOf(o)
    PROVE  StripeFits(o)'
<1>1. \A i \in Own(o) : IsLast(i, o)' <=> IsLast(i, o)
  BY DEF IsLast
<1>2. \A s \in SubsOf(o) : Live(s)' <=> Live(s)
  BY DEF Live
<1>3. HasLast(o)' /\ OneAtATime(o)' /\ TellsEnd(o)'
  BY <1>1, <1>2 DEF StripeFits, HasLast, OneAtATime, TellsEnd, SubsOf
<1>4. TellsLive(o)'
  BY <1>1, <1>2 DEF StripeFits, TellsLive, SubsOf
<1>5. Chained(o)'
  BY DEF StripeFits, Chained, Continues
<1>. QED  BY <1>3, <1>4, <1>5 DEF StripeFits

LEMMA RowStays ==
    ASSUME NEW o \in Customers, Own(o)' = Own(o),
           \A i \in Own(o) : events'[i] = events[i] /\ delivered'[i] = delivered[i],
           \A s \in SubsOf(o) : plan'[s] = plan[s] /\ paidFor'[s] = paidFor[s],
           \A i \in Own(o) : events[i].of \in SubsOf(o),
           sub'[o] = sub[o], o \in blind' <=> o \in blind, RowKept(o)
    PROVE  RowKept(o)'
<1>1. InTurn(o)'
  BY DEF RowKept, InTurn
<1>2. \A i \in Own(o) : /\ IsLast(i, o)' <=> IsLast(i, o)
                        /\ LastHandled(i, o)' <=> LastHandled(i, o)
                        /\ Live(events[i].of)' <=> Live(events[i].of)
  BY DEF IsLast, LastHandled, Live
<1>3. RowFollows(o)'
  BY <1>2 DEF RowKept, RowFollows
<1>4. PeriodKept(o)'
  BY <1>2 DEF RowKept, PeriodKept, LooksUp
<1>. QED  BY <1>1, <1>3, <1>4 DEF RowKept

LEMMA OwnSubs ==
    ASSUME BillTypes, NEW o
    PROVE  \A i \in Own(o) : /\ events[i] \in EventsSent /\ events[i].of \in SubsOf(o)
                             /\ i \in DOMAIN events /\ i \in Nat /\ delivered[i] \in Nat
<1>1. events \in Seq(EventsSent) /\ delivered \in Seq(Nat) /\ Len(delivered) = Len(events)
  BY DEF BillTypes
<1>2. ASSUME NEW i \in Own(o)
      PROVE  /\ events[i] \in EventsSent /\ SubOrg[events[i].of] = o
             /\ i \in DOMAIN events /\ i \in Nat /\ delivered[i] \in Nat
  BY <1>1 DEF Own
<1>3. \A e \in EventsSent : e.of \in Subs
  BY DEF EventsSent
<1>. QED  BY <1>2, <1>3 DEF SubsOf

\* What is not delivered yet does not change what a row should hold.
LEMMA RowSent ==
    ASSUME BillTypes, NEW n \in Nat, Longer(n), NEW o \in Customers,
           Own(o)' = Own(o) \cup (DOMAIN events' \ DOMAIN events),
           NEW s \in Subs,
           \A i \in DOMAIN events' \ DOMAIN events : events'[i].of = s,
           \/ \E i \in DOMAIN events' \ DOMAIN events : LooksUp(events'[i])
           \/ paidFor'[s] = paidFor[s],
           \A t \in Subs \ {s} : paidFor'[t] = paidFor[t],
           sub'[o] = sub[o], blind' = blind, RowKept(o)
    PROVE  RowKept(o)'
<1>1. /\ Own(o) \subseteq Own(o)' /\ Own(o) \subseteq 1..n
      /\ \A i \in Own(o) : events'[i] = events[i] /\ delivered'[i] = delivered[i]
      /\ \A i \in Own(o)' \ Own(o) : i > n /\ delivered'[i] = 0
      /\ Own(o)' \subseteq Nat
  <2>1. Own(o) \subseteq 1..n
    BY DEF Longer, Own
  <2>2. Own(o)' \subseteq Nat
    BY DEF Longer, Own
  <2>. QED  BY <2>1, <2>2 DEF Longer
<1>2. \A i \in Own(o)' : delivered'[i] > 0 => i \in Own(o) /\ delivered[i] > 0
  BY <1>1
<1>3. InTurn(o)'
  BY <1>1, <1>2 DEF RowKept, InTurn
<1>4. \A i \in Own(o)' : LastHandled(i, o)' => LastHandled(i, o)
  BY <1>1, <1>2 DEF LastHandled
<1>5. RowFollows(o)'
  BY <1>1, <1>4 DEF RowKept, RowFollows, LastHandled
<1>6. ASSUME NEW i \in Own(o)', LastHandled(i, o)', o \notin blind',
             \A j \in Own(o)' : j > i /\ LooksUp(events'[j]) =>
                                 events'[j].of # events'[i].of
      PROVE  sub'[o].period = paidFor'[events'[i].of]
  <2>1. i \in Own(o) /\ LastHandled(i, o) /\ events'[i] = events[i]
    BY <1>1, <1>4, <1>6 DEF LastHandled
  <2>2. \A j \in Own(o) : j > i /\ LooksUp(events[j]) =>
                              events[j].of # events[i].of
    <3>1. \A j \in Own(o) : LooksUp(events'[j]) <=> LooksUp(events[j])
      BY <1>1 DEF LooksUp
    <3>. QED  BY <1>1, <1>6, <2>1, <3>1
  <2>3. sub[o].period = paidFor[events[i].of]
    BY <1>6, <2>1, <2>2 DEF RowKept, PeriodKept
  <2>4. events[i].of \in Subs
    BY <2>1, OwnSubs DEF EventsSent
  <2>5. paidFor'[events[i].of] = paidFor[events[i].of]
    <3>1. CASE events[i].of # s
      BY <2>4, <3>1
    <3>2. CASE events[i].of = s
      <4>1. \A j \in DOMAIN events' \ DOMAIN events :
                j \in Own(o)' /\ j > i /\ events'[j].of = s
        BY <1>1, <2>1 DEF Longer
      <4>. QED  BY <1>6, <2>1, <3>2, <4>1
    <3>. QED  BY <3>1, <3>2
  <2>. QED  BY <2>1, <2>3, <2>5
<1>7. PeriodKept(o)'
  BY <1>6 DEF PeriodKept, LooksUp
<1>. QED  BY <1>3, <1>5, <1>7 DEF RowKept

\* Who is served, was.
LEMMA WasServed ==
    ASSUME NEW o, Own(o) \subseteq Own(o)', \A i \in Own(o) : events'[i] = events[i],
           disordered \subseteq disordered', Served(o)'
    PROVE  Served(o)
BY DEF Served

\* A chain goes on with the events sent about a subscription.
LEMMA ChainSent ==
    ASSUME BillTypes, NEW n \in Nat, Longer(n), NEW o \in Customers,
           Own(o)' = Own(o) \cup (DOMAIN events' \ DOMAIN events),
           NEW m \in DOMAIN events' \ DOMAIN events,
           \A i \in DOMAIN events' \ DOMAIN events : i <= m
    PROVE  /\ IsLast(m, o)' /\ HasLast(o)' /\ m \in Nat
           /\ \A i \in Own(o)' : IsLast(i, o)' => i = m
           /\ \A i \in Own(o) : Continues(i, o) => Continues(i, o)'
<1>1. /\ Own(o) \subseteq Own(o)' /\ Own(o) \subseteq 1..n
      /\ \A i \in Own(o) : events'[i] = events[i]
      /\ \A i \in Own(o)' \ Own(o) : i > n
      /\ Own(o)' \subseteq Nat /\ m > n /\ m \in Own(o)'
  <2>1. Own(o) \subseteq 1..n
    BY DEF Longer, Own
  <2>2. Own(o)' \subseteq Nat
    BY DEF Longer, Own
  <2>. QED  BY <2>1, <2>2 DEF Longer
<1>2. \A i \in Own(o)' : i <= m
  BY <1>1
<1>3. IsLast(m, o)' /\ \A i \in Own(o)' : IsLast(i, o)' => i = m
  BY <1>1, <1>2 DEF IsLast
<1>4. ASSUME NEW i \in Own(o), Continues(i, o)
      PROVE  Continues(i, o)'
  <2>1. PICK j \in Own(o) :
            /\ j < i /\ events[j].of = events[i].of
            /\ events[j].kind # "customer.subscription.deleted"
            /\ \A k \in Own(o) : k <= j \/ k >= i
    BY <1>4 DEF Continues
  <2>2. \A k \in Own(o)' : k <= j \/ k >= i
    BY <1>1, <2>1
  <2>. QED  BY <1>1, <2>1, <2>2 DEF Continues
<1>. QED  BY <1>1, <1>3, <1>4 DEF HasLast

LEMMA OneSent ==
    ASSUME BillTypes, NEW e \in EventsSent, Send(<<e>>)
    PROVE  \E n \in Nat :
              Longer(n) /\ DOMAIN events' = 1..(n + 1) /\ events'[n + 1] = e
<1>1. PICK batch : batch = <<e>>
  OBVIOUS
<1>2. batch \in Seq(EventsSent) /\ Len(batch) = 1 /\ batch[1] = e /\ Send(batch)
  BY <1>1
<1>3. PICK n \in Nat :
          /\ Longer(n) /\ DOMAIN events' = 1..(n + Len(batch))
          /\ \A k \in 1..Len(batch) : events'[n + k] = batch[k]
  BY <1>2, Sent
<1>. QED  BY <1>1, <1>3

\* CompleteCheckout.
LEMMA CheckoutStep ==
    ASSUME TenantInv, FollowInv, NEW s \in Subs, NEW x \in Objects, CompleteCheckout(s, x)
    PROVE  TenantInv' /\ FollowInv'
<1>1. BillTypes /\ SubOrg[s] \in Customers
  BY BillingAssumption DEF TenantInv
<1>. DEFINE e == Event("checkout.session.completed", s, "active", x)
<1>2. /\ e \in EventsSent /\ e.of = s /\ e.status = "active"
      /\ e.kind = "checkout.session.completed"
  BY DEF Event, EventsSent, EventKinds, Plans
<1>. HIDE DEF e
<1>3. /\ plan[s] = "none" /\ plan' = [plan EXCEPT ![s] = "active"]
      /\ paidFor' = [paidFor EXCEPT ![s] = month] /\ month' = month
      /\ Send(<<e>>)
      /\ doubled \subseteq doubled'
      /\ SubOrg[s] \notin doubled' => \A t \in SubsOf(SubOrg[s]) : ~Live(t)
      /\ UNCHANGED <<tenants, disordered, blind>>
  BY DEF CompleteCheckout, Send, e
<1>5. PICK n \in Nat :
          /\ Longer(n) /\ DOMAIN events' = 1..(n + 1) /\ events'[n + 1] = e
  BY <1>1, <1>2, <1>3, OneSent
<1>6. DOMAIN events' \ DOMAIN events = {n + 1}
  BY <1>5 DEF Longer
<1>7. /\ plan'[s] = "active" /\ \A t \in Subs \ {s} : plan'[t] = plan[t]
      /\ \A t \in Subs \ {s} : paidFor'[t] = paidFor[t]
      /\ paidFor' \in [Subs -> Nat]
  BY <1>1, <1>3 DEF BillTypes
<1>8. /\ \A o \in Customers \ {SubOrg[s]} : Own(o)' = Own(o)
      /\ Own(SubOrg[s])' = Own(SubOrg[s]) \cup (DOMAIN events' \ DOMAIN events)
  BY <1>1, <1>2, <1>5, <1>6, OwnNow
<1>a. ASSUME NEW o \in Customers, Served(o)'
      PROVE  Served(o)
  <2>1. Own(o) \subseteq Own(o)' /\ \A i \in Own(o) : events'[i] = events[i]
    BY <1>5 DEF Longer, Own
  <2>. QED  BY <1>3, <1>a, <2>1, WasServed
<1>9. TenantInv'
  <2>1. EventFits(n + 1)'
    BY <1>2, <1>5, <1>7 DEF EventFits
  <2>2. /\ \A i \in DOMAIN events' \ DOMAIN events : events'[i].of = s /\ EventFits(i)'
        /\ "active" \in Plans \ {"none"} /\ UNCHANGED tenants
    BY <1>2, <1>3, <1>5, <1>6, <2>1 DEF Plans
  <2>. QED  BY <1>3, <1>5, <1>7, <2>2, TenantSent
<1>10. ASSUME NEW o \in Customers \ doubled', o # SubOrg[s]
       PROVE  StripeFits(o)' /\ (Served(o)' => RowKept(o)')
  <2>1. /\ Own(o)' = Own(o) /\ StripeFits(o) /\ o \in Customers
        /\ Served(o)' => RowKept(o)
    BY <1>3, <1>8, <1>a, <1>10 DEF FollowInv
  <2>2. /\ \A i \in Own(o) : events'[i] = events[i] /\ delivered'[i] = delivered[i]
        /\ \A i \in Own(o) : events[i].of \in SubsOf(o)
    BY <1>1, <1>5, OwnSubs DEF Longer
  <2>3. \A t \in SubsOf(o) : plan'[t] = plan[t] /\ paidFor'[t] = paidFor[t]
    BY <1>7, <1>10 DEF SubsOf
  <2>4. sub'[o] = sub[o] /\ (o \in blind' <=> o \in blind)
    BY <1>3 DEF tenants
  <2>. QED  BY <2>1, <2>2, <2>3, <2>4, StripeStays, RowStays
<1>11. ASSUME NEW o \in Customers \ doubled', o = SubOrg[s]
       PROVE  StripeFits(o)' /\ (Served(o)' => RowKept(o)')
  <2>1. /\ StripeFits(o) /\ (Served(o)' => RowKept(o))
        /\ \A t \in SubsOf(o) : ~Live(t)
        /\ Own(o)' = Own(o) \cup (DOMAIN events' \ DOMAIN events)
        /\ sub'[o] = sub[o]
    BY <1>3, <1>8, <1>a, <1>11 DEF FollowInv, tenants
  <2>2. \A t \in SubsOf(o) : Live(t)' <=> t = s
    BY <1>7, <1>11, <2>1 DEF Live, SubsOf
  <2>3. /\ IsLast(n + 1, o)' /\ HasLast(o)' /\ n + 1 \in Own(o)'
        /\ \A i \in Own(o)' : IsLast(i, o)' => i = n + 1
        /\ \A i \in Own(o) : Continues(i, o) => Continues(i, o)'
    BY <1>1, <1>5, <1>6, <2>1, ChainSent DEF IsLast
  <2>4. OneAtATime(o)' /\ TellsLive(o)' /\ TellsEnd(o)'
    <3>1. s \in SubsOf(o)
      BY <1>11 DEF SubsOf
    <3>2. OneAtATime(o)'
      BY <2>2 DEF OneAtATime, SubsOf
    <3>3. TellsLive(o)'
      BY <1>2, <1>5, <1>7, <2>2, <2>3 DEF TellsLive, SubsOf
    <3>4. TellsEnd(o)'
      BY <1>2, <1>5, <2>2, <2>3, <3>1 DEF TellsEnd
    <3>. QED  BY <3>2, <3>3, <3>4
  <2>5. Chained(o)'
    <3>1. ASSUME NEW i \in Own(o)', events'[i].kind # "checkout.session.completed"
          PROVE  Continues(i, o)'
      <4>1. i \in Own(o)
        BY <1>2, <1>5, <1>6, <2>1, <3>1
      <4>2. events'[i] = events[i]
        BY <1>5, <4>1 DEF Longer, Own
      <4>. QED  BY <2>1, <2>3, <3>1, <4>1, <4>2 DEF StripeFits, Chained
    <3>. QED  BY <3>1 DEF Chained
  <2>6. ASSUME Served(o)'
        PROVE  RowKept(o)'
    <3>1. LooksUp(events'[n + 1])
      BY <1>2, <1>5 DEF LooksUp
    <3>2. \A i \in DOMAIN events' \ DOMAIN events : events'[i].of = s
      BY <1>2, <1>5, <1>6
    <3>3. RowKept(o) /\ blind' = blind
      BY <1>3, <1>a, <2>1, <2>6
    <3>. QED  BY <1>1, <1>5, <1>6, <1>7, <2>1, <3>1, <3>2, <3>3, RowSent
  <2>. QED  BY <2>3, <2>4, <2>5, <2>6 DEF StripeFits
<1>. QED  BY <1>9, <1>10, <1>11 DEF FollowInv

\* Cancel.
LEMMA CancelStep ==
    ASSUME TenantInv, FollowInv, NEW s \in Subs, NEW x \in Objects, Cancel(s, x)
    PROVE  TenantInv' /\ FollowInv'
<1>1. BillTypes /\ SubOrg[s] \in Customers
  BY BillingAssumption DEF TenantInv
<1>. DEFINE e == Event("customer.subscription.deleted", s, "canceled", x)
<1>2. /\ e \in EventsSent /\ e.of = s /\ e.status = "canceled"
      /\ e.kind = "customer.subscription.deleted"
  BY DEF Event, EventsSent, EventKinds, Plans
<1>. HIDE DEF e
<1>3. /\ Live(s) /\ plan' = [plan EXCEPT ![s] = "canceled"]
      /\ paidFor' = paidFor /\ month' = month /\ doubled' = doubled
      /\ Send(<<e>>)
      /\ UNCHANGED <<tenants, disordered, blind>>
  BY DEF Cancel, Send, e
<1>5. PICK n \in Nat :
          /\ Longer(n) /\ DOMAIN events' = 1..(n + 1) /\ events'[n + 1] = e
  BY <1>1, <1>2, <1>3, OneSent
<1>6. DOMAIN events' \ DOMAIN events = {n + 1}
  BY <1>5 DEF Longer
<1>7. /\ plan'[s] = "canceled" /\ \A t \in Subs \ {s} : plan'[t] = plan[t]
      /\ paidFor' \in [Subs -> Nat]
  BY <1>1, <1>3 DEF BillTypes
<1>8. /\ \A o \in Customers \ {SubOrg[s]} : Own(o)' = Own(o)
      /\ Own(SubOrg[s])' = Own(SubOrg[s]) \cup (DOMAIN events' \ DOMAIN events)
  BY <1>1, <1>2, <1>5, <1>6, OwnNow
<1>a. ASSUME NEW o \in Customers, Served(o)'
      PROVE  Served(o)
  <2>1. Own(o) \subseteq Own(o)' /\ \A i \in Own(o) : events'[i] = events[i]
    BY <1>5 DEF Longer, Own
  <2>. QED  BY <1>3, <1>a, <2>1, WasServed
<1>9. TenantInv'
  <2>1. EventFits(n + 1)'
    BY <1>2, <1>5, <1>7 DEF EventFits
  <2>2. /\ \A i \in DOMAIN events' \ DOMAIN events : events'[i].of = s /\ EventFits(i)'
        /\ "canceled" \in Plans \ {"none"} /\ UNCHANGED tenants
    BY <1>2, <1>3, <1>5, <1>6, <2>1 DEF Plans
  <2>. QED  BY <1>3, <1>5, <1>7, <2>2, TenantSent
<1>10. ASSUME NEW o \in Customers \ doubled', o # SubOrg[s]
       PROVE  StripeFits(o)' /\ (Served(o)' => RowKept(o)')
  <2>1. /\ Own(o)' = Own(o) /\ StripeFits(o) /\ o \in Customers
        /\ Served(o)' => RowKept(o)
    BY <1>3, <1>8, <1>a, <1>10 DEF FollowInv
  <2>2. /\ \A i \in Own(o) : events'[i] = events[i] /\ delivered'[i] = delivered[i]
        /\ \A i \in Own(o) : events[i].of \in SubsOf(o)
    BY <1>1, <1>5, OwnSubs DEF Longer
  <2>3. \A t \in SubsOf(o) : plan'[t] = plan[t] /\ paidFor'[t] = paidFor[t]
    BY <1>3, <1>7, <1>10 DEF SubsOf
  <2>4. sub'[o] = sub[o] /\ (o \in blind' <=> o \in blind)
    BY <1>3 DEF tenants
  <2>. QED  BY <2>1, <2>2, <2>3, <2>4, StripeStays, RowStays
<1>11. ASSUME NEW o \in Customers \ doubled', o = SubOrg[s]
       PROVE  StripeFits(o)' /\ (Served(o)' => RowKept(o)')
  <2>1. /\ StripeFits(o) /\ (Served(o)' => RowKept(o))
        /\ Own(o)' = Own(o) \cup (DOMAIN events' \ DOMAIN events)
        /\ sub'[o] = sub[o]
    BY <1>3, <1>8, <1>a, <1>11 DEF FollowInv, tenants
  <2>2. \A t \in SubsOf(o) : ~Live(t)'
    <3>1. \A t \in SubsOf(o) : Live(t) => t = s
      BY <1>3, <1>11, <2>1 DEF StripeFits, OneAtATime, SubsOf
    <3>. QED  BY <1>7, <3>1 DEF Live, SubsOf
  <2>3. /\ IsLast(n + 1, o)' /\ HasLast(o)' /\ n + 1 \in Own(o)'
        /\ \A i \in Own(o)' : IsLast(i, o)' => i = n + 1
        /\ \A i \in Own(o) : Continues(i, o) => Continues(i, o)'
    BY <1>1, <1>5, <1>6, <2>1, ChainSent DEF IsLast
  <2>4. OneAtATime(o)' /\ TellsLive(o)' /\ TellsEnd(o)'
    BY <1>2, <1>5, <2>2, <2>3 DEF OneAtATime, TellsLive, TellsEnd, SubsOf
  <2>5. Chained(o)'
    <3>1. ASSUME NEW i \in Own(o), events'[i].kind # "checkout.session.completed"
          PROVE  Continues(i, o)'
      <4>1. events'[i] = events[i]
        BY <1>5 DEF Longer, Own
      <4>. QED  BY <2>1, <2>3, <3>1, <4>1 DEF StripeFits, Chained
    <3>2. Continues(n + 1, o)'
      <4>1. PICK j \in Own(o) :
                /\ IsLast(j, o) /\ events[j].of = s
                /\ events[j].kind # "customer.subscription.deleted"
        BY <1>3, <1>11, <2>1 DEF StripeFits, TellsLive, SubsOf
      <4>2. events'[j] = events[j] /\ j <= n /\ j \in Nat /\ j \in Own(o)'
        BY <1>5, <2>1 DEF Longer, Own
      <4>3. \A k \in Own(o)' : k <= j \/ k >= n + 1
        BY <1>6, <2>1, <4>1 DEF IsLast
      <4>. QED  BY <1>2, <1>5, <4>1, <4>2, <4>3 DEF Continues
    <3>3. Own(o)' = Own(o) \cup {n + 1}
      BY <1>6, <2>1
    <3>. QED  BY <3>1, <3>2, <3>3 DEF Chained
  <2>6. ASSUME Served(o)'
        PROVE  RowKept(o)'
    <3>1. \A i \in DOMAIN events' \ DOMAIN events : events'[i].of = s
      BY <1>2, <1>5, <1>6
    <3>2. RowKept(o) /\ blind' = blind
      BY <1>3, <1>a, <2>1, <2>6
    <3>. QED  BY <1>1, <1>3, <1>5, <1>6, <2>1, <3>1, <3>2, RowSent
  <2>. QED  BY <2>3, <2>4, <2>5, <2>6 DEF StripeFits
<1>. QED  BY <1>9, <1>10, <1>11 DEF FollowInv

LEMMA TwoSent ==
    ASSUME BillTypes, NEW d \in EventsSent, NEW e \in EventsSent, Send(<<d, e>>)
    PROVE  \E n \in Nat :
              /\ Longer(n) /\ DOMAIN events' = 1..(n + 2)
              /\ events'[n + 1] = d /\ events'[n + 2] = e
<1>1. PICK batch : batch = <<d, e>>
  OBVIOUS
<1>2. /\ batch \in Seq(EventsSent) /\ Len(batch) = 2 /\ Send(batch)
      /\ batch[1] = d /\ batch[2] = e
  BY <1>1
<1>3. PICK n \in Nat :
          /\ Longer(n) /\ DOMAIN events' = 1..(n + Len(batch))
          /\ \A k \in 1..Len(batch) : events'[n + k] = batch[k]
  BY <1>2, Sent
<1>. QED  BY <1>2, <1>3

\* Renew: an invoice, paid or not, and the subscription as it then is.
LEMMA RenewStep ==
    ASSUME TenantInv, FollowInv, NEW s \in Subs, NEW x \in Objects, NEW status, NEW invoice,
           \/ status = "active" /\ invoice = "invoice.payment_succeeded"
           \/ status = "past_due" /\ invoice = "invoice.payment_failed",
           Renew(s, status, invoice, x)
    PROVE  TenantInv' /\ FollowInv'
<1>1. BillTypes /\ SubOrg[s] \in Customers
  BY BillingAssumption DEF TenantInv
<1>. DEFINE d == Event(invoice, s, status, x)
            e == Event("customer.subscription.updated", s, status, x)
<1>2. /\ d \in EventsSent /\ d.of = s /\ d.status = status /\ d.kind = invoice
      /\ e \in EventsSent /\ e.of = s /\ e.status = status
      /\ e.kind = "customer.subscription.updated"
      /\ status \in {"active", "past_due"} /\ status \in Plans
  BY DEF Event, EventsSent, EventKinds, Plans
<1>. HIDE DEF d, e
<1>3. /\ Live(s) /\ plan' = [plan EXCEPT ![s] = status]
      /\ paidFor' = [paidFor EXCEPT ![s] = month] /\ month' = month
      /\ doubled' = doubled /\ Send(<<d, e>>)
      /\ UNCHANGED <<tenants, disordered, blind>>
  BY DEF Renew, Send, d, e
<1>4. PICK n \in Nat : /\ Longer(n) /\ DOMAIN events' = 1..(n + 2)
                       /\ events'[n + 1] = d /\ events'[n + 2] = e
  BY <1>1, <1>2, <1>3, TwoSent
<1>5. DOMAIN events' \ DOMAIN events = {n + 1, n + 2}
  BY <1>4 DEF Longer
<1>6. /\ plan'[s] = status /\ \A t \in Subs \ {s} : plan'[t] = plan[t]
      /\ \A t \in Subs \ {s} : paidFor'[t] = paidFor[t]
      /\ paidFor' \in [Subs -> Nat]
  BY <1>1, <1>3 DEF BillTypes
<1>7. \A i \in DOMAIN events' \ DOMAIN events : events'[i].of = s
  BY <1>2, <1>4, <1>5
<1>8. /\ \A o \in Customers \ {SubOrg[s]} : Own(o)' = Own(o)
      /\ Own(SubOrg[s])' = Own(SubOrg[s]) \cup (DOMAIN events' \ DOMAIN events)
  BY <1>1, <1>4, <1>7, OwnNow
<1>a. ASSUME NEW o \in Customers, Served(o)'
      PROVE  Served(o)
  <2>1. Own(o) \subseteq Own(o)' /\ \A i \in Own(o) : events'[i] = events[i]
    BY <1>4 DEF Longer, Own
  <2>. QED  BY <1>3, <1>a, <2>1, WasServed
<1>9. TenantInv'
  <2>1. EventFits(n + 1)'
    BY <1>2, <1>4, <1>6 DEF EventFits
  <2>2. EventFits(n + 2)'
    BY <1>2, <1>4, <1>6 DEF EventFits
  <2>3. /\ \A i \in DOMAIN events' \ DOMAIN events : events'[i].of = s /\ EventFits(i)'
        /\ status \in Plans \ {"none"} /\ UNCHANGED tenants
    BY <1>2, <1>3, <1>5, <1>7, <2>1, <2>2
  <2>. QED  BY <1>3, <1>4, <1>6, <2>3, TenantSent
<1>10. ASSUME NEW o \in Customers \ doubled', o # SubOrg[s]
       PROVE  StripeFits(o)' /\ (Served(o)' => RowKept(o)')
  <2>1. /\ Own(o)' = Own(o) /\ StripeFits(o) /\ o \in Customers
        /\ Served(o)' => RowKept(o)
    BY <1>3, <1>8, <1>a, <1>10 DEF FollowInv
  <2>2. /\ \A i \in Own(o) : events'[i] = events[i] /\ delivered'[i] = delivered[i]
        /\ \A i \in Own(o) : events[i].of \in SubsOf(o)
    BY <1>1, <1>4, OwnSubs DEF Longer
  <2>3. \A t \in SubsOf(o) : plan'[t] = plan[t] /\ paidFor'[t] = paidFor[t]
    BY <1>6, <1>10 DEF SubsOf
  <2>4. sub'[o] = sub[o] /\ (o \in blind' <=> o \in blind)
    BY <1>3 DEF tenants
  <2>. QED  BY <2>1, <2>2, <2>3, <2>4, StripeStays, RowStays
<1>11. ASSUME NEW o \in Customers \ doubled', o = SubOrg[s]
       PROVE  StripeFits(o)' /\ (Served(o)' => RowKept(o)')
  <2>1. /\ StripeFits(o) /\ (Served(o)' => RowKept(o))
        /\ Own(o)' = Own(o) \cup (DOMAIN events' \ DOMAIN events)
        /\ sub'[o] = sub[o] /\ s \in SubsOf(o)
    BY <1>3, <1>8, <1>a, <1>11 DEF FollowInv, tenants, SubsOf
  <2>2. \A t \in SubsOf(o) : Live(t)' <=> t = s
    <3>1. \A t \in SubsOf(o) : Live(t) => t = s
      BY <1>3, <1>11, <2>1 DEF StripeFits, OneAtATime
    <3>. QED  BY <1>2, <1>6, <3>1 DEF Live, SubsOf
  <2>3. /\ IsLast(n + 2, o)' /\ HasLast(o)' /\ n + 2 \in Own(o)'
        /\ \A i \in Own(o)' : IsLast(i, o)' => i = n + 2
        /\ \A i \in Own(o) : Continues(i, o) => Continues(i, o)'
    BY <1>1, <1>4, <1>5, <2>1, ChainSent DEF IsLast
  <2>4. OneAtATime(o)' /\ TellsLive(o)' /\ TellsEnd(o)'
    <3>1. OneAtATime(o)'
      BY <2>2 DEF OneAtATime, SubsOf
    <3>2. TellsLive(o)'
      BY <1>2, <1>4, <1>6, <2>2, <2>3 DEF TellsLive, SubsOf
    <3>3. TellsEnd(o)'
      BY <1>2, <1>4, <2>1, <2>2, <2>3 DEF TellsEnd
    <3>. QED  BY <3>1, <3>2, <3>3
  <2>5. Chained(o)'
    <3>1. ASSUME NEW i \in Own(o), events'[i].kind # "checkout.session.completed"
          PROVE  Continues(i, o)'
      <4>1. events'[i] = events[i]
        BY <1>4 DEF Longer, Own
      <4>. QED  BY <2>1, <2>3, <3>1, <4>1 DEF StripeFits, Chained
    <3>2. Own(o)' = Own(o) \cup {n + 1, n + 2} /\ Own(o) \subseteq 1..n
      <4>1. Own(o) \subseteq 1..n
        BY <1>4 DEF Longer, Own
      <4>. QED  BY <1>5, <2>1, <4>1
    <3>3. Continues(n + 1, o)'
      <4>1. PICK j \in Own(o) :
                /\ IsLast(j, o) /\ events[j].of = s
                /\ events[j].kind # "customer.subscription.deleted"
        BY <1>3, <2>1 DEF StripeFits, TellsLive
      <4>2. events'[j] = events[j] /\ j <= n /\ j \in Nat /\ j \in Own(o)'
        BY <1>4, <2>1 DEF Longer, Own
      <4>3. \A k \in Own(o)' : k <= j \/ k >= n + 1
        BY <3>2, <4>1 DEF IsLast
      <4>. QED  BY <1>2, <1>4, <4>1, <4>2, <4>3 DEF Continues
    <3>4. Continues(n + 2, o)'
      <4>1. \A k \in Own(o)' : k <= n + 1 \/ k >= n + 2
        BY <3>2
      <4>2. n + 1 \in Own(o)' /\ n + 1 < n + 2
        BY <3>2
      <4>3. events'[n + 1].of = s /\ events'[n + 2].of = s
            /\ events'[n + 1].kind # "customer.subscription.deleted"
        BY <1>2, <1>4
      <4>. QED  BY <4>1, <4>2, <4>3 DEF Continues
    <3>. QED  BY <3>1, <3>2, <3>3, <3>4 DEF Chained
  <2>6. ASSUME Served(o)'
        PROVE  RowKept(o)'
    <3>1. LooksUp(events'[n + 2])
      BY <1>2, <1>4 DEF LooksUp
    <3>2. RowKept(o) /\ blind' = blind
      BY <1>3, <1>a, <2>1, <2>6
    <3>. QED  BY <1>1, <1>4, <1>5, <1>6, <1>7, <2>1, <3>1, <3>2, RowSent
  <2>. QED  BY <2>3, <2>4, <2>5, <2>6 DEF StripeFits
<1>. QED  BY <1>9, <1>10, <1>11 DEF FollowInv

\* A handler leaves a row, with what its event is about.
LEMMA HandledIs ==
    ASSUME NEW e \in EventsSent, NEW r \in Rows
    PROVE  /\ Handled(e, r) \in Rows
           /\ e.kind = "checkout.session.completed" =>
                /\ Handled(e, r).tier = SubTier[e.of]
                /\ Handled(e, r).status = "active"
                /\ Handled(e, r).customer = SubCustomer[e.of]
                /\ Handled(e, r).bought = e.of
           /\ e.kind # "checkout.session.completed" =>
                /\ Handled(e, r).customer = r.customer
                /\ Handled(e, r).bought = r.bought
                /\ Handled(e, r).tier = IF e.kind = "customer.subscription.deleted"
                                        THEN "free" ELSE r.tier
                /\ Handled(e, r).status =
                     CASE e.kind = "customer.subscription.updated" -> e.status
                       [] e.kind = "customer.subscription.deleted" -> "canceled"
                       [] e.kind = "invoice.payment_failed" -> "past_due"
                       [] e.kind = "invoice.payment_succeeded" -> r.status
           /\ Handled(e, r).period = r.period
<1>1. e.kind \in EventKinds /\ e.of \in Subs /\ e.status \in Plans
  BY DEF EventsSent
<1>2. CASE e.kind = "checkout.session.completed"
  <2>. DEFINE new == [r EXCEPT !.tier = SubTier[e.of], !.status = "active",
                               !.customer = SubCustomer[e.of], !.bought = e.of]
  <2>1. Handled(e, r) = new
    BY <1>2 DEF Handled, CheckoutCompleted
  <2>2. /\ new \in Rows /\ new.tier = SubTier[e.of] /\ new.status = "active"
        /\ new.customer = SubCustomer[e.of] /\ new.bought = e.of
        /\ new.period = r.period
    BY <1>1 DEF Rows, Tiers, Plans
  <2>. QED  BY <1>2, <2>1, <2>2
<1>3. CASE e.kind = "customer.subscription.updated"
  <2>. DEFINE new == [r EXCEPT !.status = e.status]
  <2>1. Handled(e, r) = new
    BY <1>3 DEF Handled, SubscriptionUpdated
  <2>2. /\ new \in Rows /\ new.tier = r.tier /\ new.status = e.status
        /\ new.customer = r.customer /\ new.bought = r.bought
        /\ new.period = r.period
    BY <1>1 DEF Rows
  <2>. QED  BY <1>3, <2>1, <2>2
<1>4. CASE e.kind = "customer.subscription.deleted"
  <2>. DEFINE new == [r EXCEPT !.tier = "free", !.status = "canceled"]
  <2>1. Handled(e, r) = new
    BY <1>4 DEF Handled, SubscriptionDeleted
  <2>2. /\ new \in Rows /\ new.tier = "free" /\ new.status = "canceled"
        /\ new.customer = r.customer /\ new.bought = r.bought
        /\ new.period = r.period
    BY DEF Rows, Tiers, Plans
  <2>. QED  BY <1>4, <2>1, <2>2
<1>5. CASE e.kind = "invoice.payment_failed"
  <2>. DEFINE new == [r EXCEPT !.status = "past_due"]
  <2>1. Handled(e, r) = new
    BY <1>5 DEF Handled, PaymentFailed
  <2>2. /\ new \in Rows /\ new.tier = r.tier /\ new.status = "past_due"
        /\ new.customer = r.customer /\ new.bought = r.bought
        /\ new.period = r.period
    BY DEF Rows, Plans
  <2>. QED  BY <1>5, <2>1, <2>2
<1>6. CASE e.kind = "invoice.payment_succeeded"
  <2>1. Handled(e, r) = r
    BY <1>6 DEF Handled
  <2>. QED  BY <1>6, <2>1
<1>. QED  BY <1>1, <1>2, <1>3, <1>4, <1>5, <1>6 DEF EventKinds

\* stripe_webhook finds no row but that of the org the event is about.
LEMMA TargetsAreOwn ==
    ASSUME TenantInv, NEW e \in EventsSent
    PROVE  Targets(e) \subseteq {SubOrg[e.of]}
<1>1. e.of \in Subs
  BY DEF EventsSent
<1>2. ASSUME NEW p \in Account(e.of)
      PROVE  p = SubOrg[e.of]
  <2>1. /\ p \in Customers /\ RowFits(p) /\ sub[p].customer = SubCustomer[e.of]
        /\ SubCustomer[e.of] # Nobody
    BY <1>1, BillingAssumption DEF TenantInv, Account
  <2>2. PICK t \in SubsOf(p) : SubCustomer[t] = SubCustomer[e.of]
    BY <2>1 DEF RowFits
  <2>. QED  BY <1>1, <2>2, BillingAssumption DEF SubsOf
<1>. QED  BY <1>2 DEF Targets

LEMMA Outcome ==
    ASSUME TenantInv, NEW i \in DOMAIN events, Deliver(i),
           NEW e \in EventsSent, e = events[i], NEW o \in Customers, o = SubOrg[e.of]
    PROVE  \E r \in Rows :
              /\ sub' = [sub EXCEPT ![o] = r]
              /\ \A p \in Customers \ {o} : p \in blind' <=> p \in blind
              /\ \/ r = sub[o] /\ blind' = blind /\ Targets(e) = {}
                 \/ /\ r.tier = Handled(e, sub[o]).tier
                    /\ r.status = Handled(e, sub[o]).status
                    /\ r.customer = Handled(e, sub[o]).customer
                    /\ r.bought = Handled(e, sub[o]).bought
                    /\ IF LooksUp(e) THEN r.period = paidFor[e.of] \/ o \in blind'
                       ELSE r.period = sub[o].period /\ blind' = blind
<1>1. /\ BillTypes /\ sub \in [Customers -> Rows] /\ sub[o] \in Rows
      /\ paidFor \in [Subs -> Nat] /\ e.of \in Subs
  BY DEF TenantInv, BillTypes, EventsSent
<1>2. PICK h \in Rows : h = Handled(e, sub[o]) /\ h.period = sub[o].period
  BY <1>1, HandledIs
<1>3. CASE Targets(e) = {} /\ UNCHANGED <<sub, trail, blind>>
  <2>1. sub' = [sub EXCEPT ![o] = sub[o]]
    BY <1>1, <1>3
  <2>. QED  BY <1>1, <1>3, <2>1
<1>4. ASSUME Apply(e, o)
      PROVE  \E r \in Rows :
              /\ sub' = [sub EXCEPT ![o] = r]
              /\ \A p \in Customers \ {o} : p \in blind' <=> p \in blind
              /\ r.tier = h.tier /\ r.status = h.status /\ r.customer = h.customer
              /\ r.bought = h.bought
              /\ IF LooksUp(e) THEN r.period = paidFor[e.of] \/ o \in blind'
                 ELSE r.period = sub[o].period /\ blind' = blind
  <2>1. CASE /\ LooksUp(e) /\ blind' = blind \ {o}
             /\ sub' = [sub EXCEPT ![o] = [Handled(e, sub[o]) EXCEPT !.period = paidFor[e.of]]]
    <3>. DEFINE r == [h EXCEPT !.period = paidFor[e.of]]
    <3>1. /\ r \in Rows /\ r.tier = h.tier /\ r.status = h.status
          /\ r.customer = h.customer /\ r.bought = h.bought
          /\ r.period = paidFor[e.of]
      BY <1>1 DEF Rows
    <3>2. sub' = [sub EXCEPT ![o] = r]
      BY <1>2, <2>1
    <3>. HIDE DEF r
    <3>. QED  BY <2>1, <3>1, <3>2
  <2>2. CASE /\ sub' = [sub EXCEPT ![o] = Handled(e, sub[o])]
             /\ blind' = IF LooksUp(e) THEN blind \cup {o} ELSE blind
    BY <1>2, <2>2
  <2>. QED  BY <1>4, <2>1, <2>2 DEF Apply
<1>5. CASE \E p \in Targets(e) : Targets(e) = {p} /\ Apply(e, p)
  <2>1. Apply(e, o)
    BY <1>5, TargetsAreOwn
  <2>. QED  BY <1>2, <1>4, <2>1
<1>. QED  BY <1>3, <1>5 DEF Deliver

LEMMA DeliverStep ==
    ASSUME TenantInv, FollowInv, NEW i \in DOMAIN events, Deliver(i)
    PROVE  TenantInv' /\ FollowInv'
<1>1. /\ BillTypes /\ (\A j \in DOMAIN events : EventFits(j))
      /\ \A p \in Customers : RowFits(p)
  BY DEF TenantInv
<1>2. PICK e \in EventsSent : e = events[i]
  BY <1>1 DEF BillTypes
<1>3. PICK s \in Subs : s = e.of
  BY DEF EventsSent
<1>4. PICK o \in Customers : o = SubOrg[s] /\ s \in SubsOf(o)
  BY BillingAssumption DEF SubsOf
<1>5. PICK r \in Rows :
          /\ sub' = [sub EXCEPT ![o] = r]
          /\ \A p \in Customers \ {o} : p \in blind' <=> p \in blind
          /\ \/ r = sub[o] /\ blind' = blind /\ Targets(e) = {}
             \/ /\ r.tier = Handled(e, sub[o]).tier
                /\ r.status = Handled(e, sub[o]).status
                /\ r.customer = Handled(e, sub[o]).customer
                /\ r.bought = Handled(e, sub[o]).bought
                /\ IF LooksUp(e) THEN r.period = paidFor[e.of] \/ o \in blind'
                   ELSE r.period = sub[o].period /\ blind' = blind
  BY <1>2, <1>3, <1>4, Outcome
<1>6. /\ delivered' = [delivered EXCEPT ![i] = @ + 1]
      /\ disordered \subseteq disordered' /\ doubled' = doubled
      /\ o \notin disordered' => ~OutOfTurn(i)
      /\ month' = month /\ plan' = plan /\ paidFor' = paidFor /\ events' = events
  BY <1>2, <1>3, <1>4 DEF Deliver, stripe
<1>7. /\ delivered' \in Seq(Nat) /\ Len(delivered') = Len(events)
      /\ i \in DOMAIN delivered /\ delivered[i] \in Nat
      /\ delivered'[i] = delivered[i] + 1 /\ delivered'[i] > 0
      /\ \A j \in DOMAIN events : /\ j # i => delivered'[j] = delivered[j]
                                  /\ delivered[j] \in Nat
                                  /\ delivered[j] > 0 => delivered'[j] > 0
  <2>1. /\ delivered \in Seq(Nat) /\ DOMAIN delivered = DOMAIN events
        /\ Len(delivered) = Len(events)
    BY <1>1 DEF BillTypes
  <2>2. delivered' \in Seq(Nat) /\ Len(delivered') = Len(delivered)
    BY <1>6, <2>1
  <2>. QED  BY <1>6, <2>1, <2>2
<1>8. /\ sub \in [Customers -> Rows] /\ sub' \in [Customers -> Rows] /\ sub'[o] = r
      /\ \A p \in Customers \ {o} : sub'[p] = sub[p]
  BY <1>1, <1>5 DEF BillTypes
<1>9. /\ \A p : Own(p)' = Own(p) /\ Own(p) \subseteq DOMAIN events
      /\ i \in Own(o) /\ \A p \in Customers \ {o} : i \notin Own(p)
  BY <1>2, <1>3, <1>4, <1>6 DEF Own
<1>10. /\ e.kind = "checkout.session.completed" => e.status = "active"
       /\ e.kind = "customer.subscription.deleted" => e.status = "canceled"
       /\ e.kind = "invoice.payment_failed" => e.status = "past_due"
       /\ plan[s] # "none" /\ e.kind \in EventKinds
  BY <1>1, <1>2, <1>3 DEF EventFits, EventsSent
\* The row after the event, if it reached the org at all.
<1>11. \/ r = sub[o] /\ Targets(e) = {}
       \/ /\ r.customer = SubCustomer[s] \/ r.customer = sub[o].customer
          /\ \/ e.kind = "checkout.session.completed" /\ r.tier = SubTier[s]
                                                      /\ r.customer = SubCustomer[s]
             \/ e.kind = "customer.subscription.deleted" /\ r.tier = "free"
             \/ /\ e.kind \notin {"checkout.session.completed",
                                  "customer.subscription.deleted"}
                /\ r.tier = sub[o].tier
          /\ IF e.kind = "checkout.session.completed" THEN r.bought = s
             ELSE r.customer = sub[o].customer /\ r.bought = sub[o].bought
          /\ IF e.kind = "invoice.payment_succeeded" THEN r.status = sub[o].status
                                                     ELSE r.status = e.status
          /\ IF LooksUp(e) THEN r.period = paidFor[s] \/ o \in blind'
             ELSE r.period = sub[o].period /\ blind' = blind
  <2>1. sub[o] \in Rows
    BY <1>8
  <2>2. CASE e.kind = "checkout.session.completed"
    BY <1>3, <1>5, <1>10, <2>1, <2>2, HandledIs
  <2>3. CASE e.kind # "checkout.session.completed"
    BY <1>3, <1>5, <1>10, <2>1, <2>3, HandledIs DEF EventKinds
  <2>. QED  BY <2>2, <2>3
<1>12. TenantInv'
  <2>1. BillTypes'
    BY <1>1, <1>6, <1>7, <1>8 DEF BillTypes
  <2>2. \A j \in DOMAIN events' : EventFits(j)'
    BY <1>1, <1>6 DEF EventFits
  <2>3. ASSUME NEW p \in Customers, p # o
        PROVE  RowFits(p)'
    <3>1. sub'[p] = sub[p] /\ Own(p)' = Own(p) /\ RowFits(p)
      BY <1>1, <1>8, <1>9, <2>3
    <3>. QED  BY <1>6, <1>7, <1>9, <3>1 DEF RowFits, SubsOf
  <2>4. RowFits(o)'
    <3>1. RowFits(o)
      BY <1>1
    <3>2. r.tier # "free" => \E t \in SubsOf(o) : plan'[t] # "none" /\ SubTier[t] = r.tier
      BY <1>4, <1>6, <1>10, <1>11, <3>1 DEF RowFits
    <3>3. r.status # "none" => \E j \in Own(o)' :
                                  delivered'[j] > 0 /\ events'[j].status = r.status
      BY <1>2, <1>6, <1>7, <1>9, <1>11, <3>1 DEF RowFits
    <3>4. r.customer # Nobody => \E t \in SubsOf(o) : r.customer = SubCustomer[t]
      BY <1>4, <1>11, <3>1 DEF RowFits
    <3>. QED  BY <1>8, <3>2, <3>3, <3>4 DEF RowFits, SubsOf
  <2>. QED  BY <2>1, <2>2, <2>3, <2>4 DEF TenantInv
<1>13. ASSUME NEW p \in Customers \ doubled'
       PROVE  StripeFits(p)'
  <2>1. StripeFits(p)
    BY <1>6, <1>13 DEF FollowInv
  <2>2. \A j \in Own(p) : events[j].of \in SubsOf(p)
    BY <1>1, OwnSubs
  <2>. QED  BY <1>6, <1>9, <1>13, <2>1, <2>2, StripeStays
<1>a. ASSUME NEW p \in Customers, Served(p)'
      PROVE  Served(p)
  BY <1>6, <1>9, <1>a, WasServed
<1>14. ASSUME NEW p \in Customers \ doubled', p # o, Served(p)'
       PROVE  RowKept(p)'
  <2>1. RowKept(p) /\ sub'[p] = sub[p] /\ (p \in blind' <=> p \in blind)
    BY <1>5, <1>6, <1>8, <1>a, <1>14 DEF FollowInv
  <2>2. \A j \in Own(p) : /\ events'[j] = events[j] /\ delivered'[j] = delivered[j]
                          /\ events[j].of \in SubsOf(p)
    BY <1>1, <1>6, <1>7, <1>9, <1>14, OwnSubs
  <2>3. \A t \in SubsOf(p) : plan'[t] = plan[t] /\ paidFor'[t] = paidFor[t]
    BY <1>6
  <2>. QED  BY <1>9, <1>14, <2>1, <2>2, <2>3, RowStays
\* In its turn, the event finds the row of its predecessor.
<1>15. ASSUME o \in Customers \ doubled', Served(o)'
       PROVE  RowKept(o)'
  <2>1. /\ StripeFits(o) /\ InTurn(o) /\ RowFollows(o) /\ PeriodKept(o)
        /\ o \notin disordered'
    BY <1>6, <1>a, <1>15 DEF FollowInv, RowKept, Served
  <2>2. /\ Own(o) \subseteq DOMAIN events /\ Own(o) \subseteq Nat /\ i \in Own(o)
        /\ \A j \in Own(o) : delivered[j] \in Nat
    BY <1>1, <1>9, OwnSubs
  <2>3. /\ delivered[i] = 0
        /\ \A j \in Own(o) : j < i => delivered[j] > 0
        /\ \A j \in Own(o) : j > i => delivered[j] = 0
    <3>1. ~OutOfTurn(i)
      BY <1>6, <2>1
    <3>2. \A j \in Own(o) : j \in DOMAIN events /\ SubOrg[events[j].of] = SubOrg[events[i].of]
      BY <1>2, <1>3, <1>4 DEF Own
    <3>. QED  BY <2>2, <3>1, <3>2 DEF OutOfTurn
  <2>4. \A j \in Own(o) : (delivered'[j] > 0 <=> j <= i) /\ (delivered'[j] = 0 <=> j > i)
    BY <1>7, <2>2, <2>3
  <2>5. InTurn(o)'
    <3>1. \A j, k \in Own(o) : j < k /\ delivered'[k] > 0 => delivered'[j] > 0
      BY <2>2, <2>4
    <3>. QED  BY <1>9, <3>1 DEF InTurn
  <2>c. e.object = "expected"
    BY <1>2, <1>9, <1>a, <1>15 DEF Served
\* The event the row was left by, unless this one opens the subscription.
  <2>d. ASSUME e.kind # "checkout.session.completed"
        PROVE  \E j \in Own(o) :
                /\ j < i /\ events[j].of = s /\ LastHandled(j, o)
                /\ events[j].kind # "customer.subscription.deleted"
                /\ \A k \in Own(o) : k <= j \/ k >= i
                /\ sub[o].customer = SubCustomer[s] /\ sub[o].tier = SubTier[s]
                /\ sub[o].bought = s
    <3>1. PICK j \in Own(o) :
              /\ j < i /\ events[j].of = events[i].of
              /\ events[j].kind # "customer.subscription.deleted"
              /\ \A k \in Own(o) : k <= j \/ k >= i
      BY <1>2, <2>1, <2>2, <2>d DEF StripeFits, Chained, Continues
    <3>2. LastHandled(j, o)
      BY <2>2, <2>3, <3>1 DEF LastHandled
    <3>. QED  BY <1>2, <1>3, <2>1, <3>1, <3>2 DEF RowFollows, RowAfter
  <2>e. Targets(e) # {}
    <3>1. CASE e.kind = "checkout.session.completed"
      BY <2>c, <3>1 DEF Targets
    <3>2. CASE e.kind # "checkout.session.completed"
      <4>1. o \in Account(e.of)
        BY <1>3, <2>d, <3>2 DEF Account
      <4>. QED  BY <2>c, <3>2, <4>1 DEF Targets
    <3>. QED  BY <3>1, <3>2
  <2>6. RowAfter(e, r)
    <3>1. CASE e.kind = "checkout.session.completed"
      BY <1>3, <1>11, <2>e, <3>1 DEF RowAfter
    <3>2. CASE e.kind # "checkout.session.completed"
      BY <1>3, <1>11, <2>d, <2>e, <3>2 DEF RowAfter
    <3>. QED  BY <3>1, <3>2
  <2>7. \A j \in Own(o) : LastHandled(j, o)' => j = i
    BY <1>9, <2>2, <2>4 DEF LastHandled
  <2>8. RowFollows(o)'
    BY <1>2, <1>6, <1>7, <1>8, <1>9, <2>6, <2>7 DEF RowFollows
  <2>9. PeriodKept(o)'
    <3>1. ASSUME o \notin blind',
                 \A j \in Own(o) : j > i /\ LooksUp(events[j]) => events[j].of # s
          PROVE  r.period = paidFor[s]
      <4>1. CASE LooksUp(e)
        BY <1>11, <2>e, <3>1, <4>1
      <4>2. CASE ~LooksUp(e)
        <5>1. e.kind # "checkout.session.completed"
          BY <4>2 DEF LooksUp
        <5>2. PICK j \in Own(o) : /\ j < i /\ events[j].of = s /\ LastHandled(j, o)
                                  /\ \A k \in Own(o) : k <= j \/ k >= i
          BY <2>d, <5>1
        <5>3. \A k \in Own(o) : k > j /\ LooksUp(events[k]) => events[k].of # s
          BY <1>2, <2>2, <3>1, <4>2, <5>2
        <5>4. r.period = sub[o].period /\ o \notin blind
          BY <1>11, <2>e, <3>1, <4>2
        <5>. QED  BY <2>1, <5>2, <5>3, <5>4 DEF PeriodKept
      <4>. QED  BY <4>1, <4>2
    <3>2. \A j \in Own(o) : LooksUp(events[j])' <=> LooksUp(events[j])
      BY <1>6 DEF LooksUp
    <3>. QED  BY <1>2, <1>3, <1>6, <1>8, <1>9, <2>7, <3>1, <3>2 DEF PeriodKept
  <2>. QED  BY <2>5, <2>8, <2>9 DEF RowKept
<1>. QED  BY <1>12, <1>13, <1>14, <1>15 DEF FollowInv

LEMMA BillingStep ==
    ASSUME TenantInv, FollowInv, [BillingNext]_billing
    PROVE  TenantInv' /\ FollowInv'
\* Nothing happens to what Stripe sent and to the rows.
<1>1. ASSUME UNCHANGED <<plan, paidFor, events, sub, delivered, doubled, disordered,
                         blind>>,
             month' \in Nat
      PROVE  TenantInv' /\ FollowInv'
  <2>1. BillTypes /\ \A o \in Customers : Own(o)' = Own(o)
    BY <1>1 DEF TenantInv, Own
  <2>2. TenantInv'
    <3>1. BillTypes'
      BY <1>1, <2>1 DEF BillTypes
    <3>2. \A i \in DOMAIN events' : EventFits(i)'
      BY <1>1 DEF TenantInv, EventFits
    <3>3. \A o \in Customers : RowFits(o)'
      BY <1>1, <2>1 DEF TenantInv, RowFits
    <3>. QED  BY <3>1, <3>2, <3>3 DEF TenantInv
  <2>3. ASSUME NEW o \in Customers \ doubled'
        PROVE  StripeFits(o)' /\ (Served(o)' => RowKept(o)')
    <3>1. StripeFits(o) /\ (Served(o)' => RowKept(o))
      BY <1>1, <2>1, <2>3 DEF FollowInv, Served
    <3>2. \A i \in Own(o) : events[i].of \in SubsOf(o)
      BY <2>1, OwnSubs
    <3>. QED  BY <1>1, <2>1, <2>3, <3>1, <3>2, StripeStays, RowStays
  <2>. QED  BY <2>2, <2>3 DEF FollowInv
<1>2. BillTypes
  BY DEF TenantInv
<1>3. CASE NextMonth
  BY <1>1, <1>2, <1>3 DEF NextMonth, BillTypes, tenants
<1>4. CASE DeliverStray
  BY <1>1, <1>2, <1>4 DEF DeliverStray, BillTypes, stripe
<1>5. CASE UNCHANGED billing
  BY <1>1, <1>2, <1>5 DEF billing, BillTypes, stripe, tenants
<1>6. ASSUME NEW s \in Subs, NEW x \in Objects,
             Renew(s, "active", "invoice.payment_succeeded", x)
      PROVE  TenantInv' /\ FollowInv'
  BY <1>6, RenewStep
<1>7. ASSUME NEW s \in Subs, NEW x \in Objects,
             Renew(s, "past_due", "invoice.payment_failed", x)
      PROVE  TenantInv' /\ FollowInv'
  BY <1>7, RenewStep
<1>. QED
  BY <1>3, <1>4, <1>5, <1>6, <1>7, CheckoutStep, CancelStep, DeliverStep
     DEF BillingNext

\* stripe_webhook and what reads the row: whatever the order and the number of
\* deliveries, a paid tier was bought by the org itself, its status was said of
\* its own subscription and its invoices are its own.
THEOREM TenantsKeepApart == BillingSpec => []TenantsStayApart
<1>1. BillingInit => TenantInv /\ FollowInv
  BY BillingInitInv
<1>2. TenantInv /\ FollowInv /\ [BillingNext]_billing => (TenantInv /\ FollowInv)'
  BY BillingStep
<1>3. TenantInv => TenantsStayApart
  <2>. SUFFICES ASSUME TenantInv, NEW o \in Customers
                PROVE  /\ ~Capped(o) => \E s \in SubsOf(o) :
                              plan[s] # "none" /\ SubTier[s] = sub[o].tier
                       /\ sub[o].status # "none" => \E i \in DOMAIN events :
                              /\ SubOrg[events[i].of] = o /\ delivered[i] > 0
                              /\ events[i].status = sub[o].status
                       /\ \A s \in Subs : MayFetchInvoice(o, s) => SubOrg[s] = o
    BY DEF TenantsStayApart
  <2>1. RowFits(o)
    BY DEF TenantInv
  <2>2. ASSUME NEW s \in Subs, MayFetchInvoice(o, s)
        PROVE  SubOrg[s] = o
    <3>1. PICK t \in SubsOf(o) : SubCustomer[t] = SubCustomer[s]
      BY <2>1, <2>2 DEF RowFits, MayFetchInvoice
    <3>. QED  BY <3>1, BillingAssumption DEF SubsOf
  <2>. QED  BY <2>1, <2>2 DEF RowFits, Capped, Own
<1>. QED
  BY <1>1, <1>2, <1>3, PTL DEF BillingSpec

\* The handlers: an org that got its events in order and once, and never held
\* two subscriptions at a time, has the tier, the status and the period of its
\* subscription at Stripe; after that the free caps, over the last period.
THEOREM RowsFollowStripe == BillingSpec => []BillingFollowsStripe
<1>1. BillingInit => TenantInv /\ FollowInv
  BY BillingInitInv
<1>2. TenantInv /\ FollowInv /\ [BillingNext]_billing => (TenantInv /\ FollowInv)'
  BY BillingStep
<1>3. TenantInv /\ FollowInv => BillingFollowsStripe
  <2>. SUFFICES ASSUME TenantInv, FollowInv,
                       NEW o \in Customers \ (disordered \cup doubled), UpToDate(o)
                PROVE  /\ \A s \in SubsOf(o) : Live(s) =>
                            /\ sub[o].tier = SubTier[s]
                            /\ sub[o].status = plan[s]
                            /\ o \notin blind => UsageMonth(o) = paidFor[s]
                       /\ (~\E s \in SubsOf(o) : Live(s)) =>
                            /\ Capped(o)
                            /\ sub[o].bought = Nobody => UsageMonth(o) = month
                            /\ sub[o].bought # Nobody /\ o \notin blind =>
                                    UsageMonth(o) = paidFor[sub[o].bought]
    BY DEF BillingFollowsStripe
  <2>1. /\ HasLast(o) /\ TellsLive(o) /\ TellsEnd(o)
        /\ RowFollows(o) /\ PeriodKept(o) /\ BillTypes
    <3>1. Served(o)
      BY DEF Served, UpToDate, Own
    <3>. QED  BY <3>1 DEF FollowInv, StripeFits, RowKept, TenantInv
  <2>2. /\ \A i \in Own(o) : /\ delivered[i] > 0 /\ i \in Nat
                             /\ events[i].of \in SubsOf(o)
        /\ \A i \in Own(o) : IsLast(i, o) => LastHandled(i, o)
        /\ \A i \in Own(o) : IsLast(i, o) /\ o \notin blind =>
                                sub[o].period = paidFor[events[i].of]
    <3>1. \A i \in Own(o) : delivered[i] > 0
      BY DEF UpToDate, Own
    <3>2. \A i \in Own(o) : i \in Nat /\ events[i].of \in SubsOf(o)
      BY <2>1, OwnSubs
    <3>3. \A i \in Own(o) : IsLast(i, o) =>
              LastHandled(i, o) /\ \A j \in Own(o) : ~(j > i)
      BY <3>1, <3>2 DEF IsLast, LastHandled
    <3>. QED  BY <2>1, <3>1, <3>2, <3>3 DEF PeriodKept
  <2>3. ASSUME NEW s \in SubsOf(o), Live(s)
        PROVE  /\ sub[o].tier = SubTier[s] /\ sub[o].status = plan[s]
               /\ o \notin blind => UsageMonth(o) = paidFor[s]
    <3>1. PICK i \in Own(o) :
              /\ IsLast(i, o) /\ events[i].of = s /\ events[i].status = plan[s]
              /\ events[i].kind \in {"checkout.session.completed",
                                     "customer.subscription.updated"}
      BY <2>1, <2>3 DEF TellsLive
    <3>2. RowAfter(events[i], sub[o])
      BY <2>1, <2>2, <3>1 DEF RowFollows
    <3>3. sub[o].tier = SubTier[s] /\ sub[o].status = plan[s]
      BY <3>1, <3>2 DEF RowAfter
    <3>4. o \notin blind => sub[o].period = paidFor[s]
      BY <2>2, <3>1
    <3>5. paidFor[s] \in Nat /\ Nobody \notin Nat
      BY <2>1, BillingAssumption DEF BillTypes, SubsOf
    <3>. QED  BY <3>3, <3>4, <3>5 DEF UsageMonth
  <2>4. ASSUME ~\E s \in SubsOf(o) : Live(s)
        PROVE  /\ Capped(o)
               /\ sub[o].bought = Nobody => UsageMonth(o) = month
               /\ sub[o].bought # Nobody /\ o \notin blind =>
                       UsageMonth(o) = paidFor[sub[o].bought]
    <3>1. CASE Own(o) = {}
      BY <2>1, <3>1 DEF RowFollows, Capped, UsageMonth
    <3>2. CASE Own(o) # {}
      <4>1. PICK i \in Own(o) : IsLast(i, o)
        BY <2>1, <3>2 DEF HasLast
      <4>2. events[i].kind = "customer.subscription.deleted"
        BY <2>1, <2>2, <2>4, <4>1 DEF TellsEnd
      <4>3. RowAfter(events[i], sub[o])
        BY <2>1, <2>2, <4>1 DEF RowFollows
      <4>4. /\ sub[o].bought = events[i].of /\ sub[o].bought \in Subs
            /\ paidFor[sub[o].bought] \in Nat
            /\ Nobody \notin Subs /\ Nobody \notin Nat
        BY <2>1, <2>2, <4>3, BillingAssumption DEF RowAfter, BillTypes, SubsOf
      <4>5. o \notin blind => sub[o].period = paidFor[sub[o].bought]
        BY <2>2, <4>1, <4>4
      <4>. QED  BY <4>2, <4>3, <4>4, <4>5 DEF RowAfter, Capped, UsageMonth
    <3>. QED  BY <3>1, <3>2
  <2>. QED  BY <2>3, <2>4
<1>. QED
  BY <1>1, <1>2, <1>3, PTL DEF BillingSpec

=============================================================================
