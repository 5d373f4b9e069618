---------------------------- MODULE MCServices ----------------------------
(***************************************************************************)
(* Small instances of the parts that share no state, in one run: a         *)
(* behaviour is a behaviour of the part `active` names, and the others     *)
(* stay as they begin.                                                     *)
(***************************************************************************)
EXTENDS Billing, RateLimit, Access, OneShot, PrefixCache, AuditLog,
        InstallTokens, TLC

CONSTANTS c1, c2, c3, c4

VARIABLE active

services == <<billing, limiter, access, oneShot, prefixCache, vars,
              tokenVars, active>>

\* Two subscriptions of one org and one of another, two tiers.
SubOrgs == ("s1" :> "c1") @@ ("s2" :> "c1") @@ ("s3" :> "c2")
SubTiers == ("s1" :> "pro") @@ ("s2" :> "team") @@ ("s3" :> "pro")
SubCustomers == ("s1" :> "cus1") @@ ("s2" :> "cus1") @@ ("s3" :> "cus2")

\* Every credential belongs to the one org.
OneHome == [c \in ApiKeys \cup Logins |-> "o1"]

\* Four recorders of the audit log, three of them for one org.  A hash is the
\* sequence of what was hashed into it: equal hashes have equal histories.
TwoOrgs == (c1 :> "o1") @@ (c2 :> "o1") @@ (c3 :> "o1") @@ (c4 :> "o2")

HistoryHash(h, e, t) == Append(h, <<e, t>>)

NoHistory == << >>

\* Requests, shots and commands are the same two, so that one symmetry serves.
Alike == Permutations(Requests)

ServicesInit ==
    /\ active \in {"billing", "limiter", "access", "oneshot", "prefix", "audit",
                  "tokens"}
    /\ BillingInit /\ RateInit /\ AccessInit /\ OneShotInit /\ PrefixInit /\ Init
    /\ TokenInit

Others(part) ==
    /\ active = part /\ UNCHANGED active
    /\ part # "billing" => UNCHANGED billing
    /\ part # "limiter" => UNCHANGED limiter
    /\ part # "access" => UNCHANGED access
    /\ part # "oneshot" => UNCHANGED oneShot
    /\ part # "prefix" => UNCHANGED prefixCache
    /\ part # "audit" => UNCHANGED vars
    /\ part # "tokens" => UNCHANGED tokenVars

ServicesNext ==
    \/ Others("billing") /\ BillingNext
    \/ Others("limiter") /\ RateNext
    \/ Others("access") /\ AccessNext
    \/ Others("oneshot") /\ OneShotNext
    \/ Others("prefix") /\ PrefixNext
    \/ Others("audit") /\ Next
    \/ Others("tokens") /\ TokenNext

ServicesSpec == ServicesInit /\ [][ServicesNext]_services

=============================================================================
