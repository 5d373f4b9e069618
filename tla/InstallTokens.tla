--------------------------- MODULE InstallTokens ---------------------------
(***************************************************************************)
(* Installation tokens of the GitHub App (server/github_app/__init__.py)   *)
(* and the calls made with them: comments, check-runs, pull requests.      *)
(* Threads of one process share an InstallationTokenCache.  The lock       *)
(* covers the look-up and the store, not the request to GitHub between     *)
(* them.  One installation is modelled: the cache is a dict of them.       *)
(***************************************************************************)
EXTENDS Integers, FiniteSets

CONSTANTS
    Posters,        \* threads that call GitHub as the App
    Lifetime,       \* of a token, as GitHub issues it
    Buffer,         \* REFRESH_BUFFER
    LastHour        \* bound: the clock

ASSUME TokenAssumption ==
    /\ Buffer \in Nat /\ Lifetime \in Nat /\ Buffer < Lifetime
    /\ IsFiniteSet(Posters) /\ LastHour \in Nat

VARIABLES
    hour,           \* the clock of both sides
    cached,         \* when the cached token expires; 0: none is cached
    post,           \* a thread: its step, the time it read and its token
    \* history
    mints           \* [hour] tokens the App was given at that time

tokenVars == <<hour, cached, post, mints>>

Idle == [step |-> "idle", at |-> 0, expires |-> 0]

TokenInit ==
    /\ hour = 0 /\ cached = 0
    /\ post = [p \in Posters |-> Idle]
    /\ mints = [t \in 0..LastHour |-> 0]

HourPasses ==
    /\ hour < LastHour
    /\ hour' = hour + 1
    /\ UNCHANGED <<cached, post, mints>>

\* get reads the time.
StartPost(p) ==
    /\ post[p].step = "idle"
    /\ post' = [post EXCEPT ![p] = [step |-> "look", at |-> hour, expires |-> 0]]
    /\ UNCHANGED <<hour, cached, mints>>

\* Mutant of Fresh: any token that has not expired is handed out.
FreshUntilExpiry(expires, now) == expires > now

Fresh(expires, now) == expires - now > Buffer

LookUp(p) ==
    /\ post[p].step = "look"
    /\ post' = [post EXCEPT ![p] = IF Fresh(cached, post[p].at)
                                   THEN [@ EXCEPT !.step = "call",
                                                  !.expires = cached]
                                   ELSE [@ EXCEPT !.step = "mint"]]
    /\ UNCHANGED <<hour, cached, mints>>

\* GitHub answers the signed JWT with a token of an hour, or the request fails.
Mint(p) ==
    /\ post[p].step = "mint"
    /\ \/ /\ post' = [post EXCEPT ![p].step = "store",
                                  ![p].expires = hour + Lifetime]
          /\ mints' = [mints EXCEPT ![hour] = @ + 1]
       \/ /\ post' = [post EXCEPT ![p] = Idle]
          /\ UNCHANGED mints
    /\ UNCHANGED <<hour, cached>>

\* Mutant of Stored: a token that is there already is kept.
StoredIfAbsent(expires) == IF cached = 0 THEN expires ELSE cached

\* The store is unconditional: an older answer may replace a newer one.
Stored(expires) == expires

Store(p) ==
    /\ post[p].step = "store"
    /\ cached' = Stored(post[p].expires)
    /\ post' = [post EXCEPT ![p].step = "call"]
    /\ UNCHANGED <<hour, mints>>

\* A call with the token, and possibly another with the same one.
CallGitHub(p) ==
    /\ post[p].step = "call"
    /\ post' = [post EXCEPT ![p] = Idle]
    /\ UNCHANGED <<hour, cached, mints>>

TokenNext ==
    \/ HourPasses
    \/ \E p \in Posters : StartPost(p) \/ LookUp(p) \/ Mint(p) \/ Store(p)
                          \/ CallGitHub(p)

TokenSpec == TokenInit /\ [][TokenNext]_tokenVars

-----------------------------------------------------------------------------
(* Properties.                                                             *)

\* REFRESH_BUFFER, "so we don't expire mid-request": whatever token the
\* threads left in the cache, a call within the buffer of asking for one is
\* made with a token that is still valid.
CallsAuthorised ==
    \A p \in Posters : post[p].step = "call" /\ hour <= post[p].at + Buffer
                       => hour < post[p].expires

\* The hours in which a token of hour t still counts as fresh, and the tokens
\* the App was given in them.
StillFresh(t) == {u \in 0..LastHour : t <= u /\ u < t + Lifetime - Buffer}
Minted(t) == UNION {{u} \X (1..mints[u]) : u \in StillFresh(t)}

\* _token_cache, "so a webhook flood doesn't mint a token per event": while a
\* token stays fresh every thread mints once, and once more for every other
\* thread that overwrites the new token with an older answer.
MintsBounded ==
    \A t \in 0..LastHour :
        Cardinality(Minted(t)) <= Cardinality(Posters) * Cardinality(Posters)

=============================================================================
