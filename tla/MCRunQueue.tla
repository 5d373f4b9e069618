----------------------------- MODULE MCRunQueue -----------------------------
(***************************************************************************)
(* Small instances of RunQueue: runs are numbered so that each can have    *)
(* its own org and origin; the tiers keep the order of the code's tables   *)
(* with the limits scaled down (free 1, team 2 for 1, 4 and 16).           *)
(***************************************************************************)
EXTENDS RunQueue, TLC

CONSTANTS r1, r2, r3, o1, o2, w1, w2

\* Three runs of a pull request, a /cs review comment and the API; the first
\* two belong to one org, the third to another.
MixedOrg    == (r1 :> o1) @@ (r2 :> o1) @@ (r3 :> o2)
MixedOrigin == (r1 :> "pull_request") @@ (r2 :> "comment") @@ (r3 :> "api")

\* The same orgs, API runs only: no GitHub traffic.
ApiOrigin == [r \in Runs |-> "api"]

\* Two runs of one org.
PairOrg    == [r \in Runs |-> o1]

TwoTierLimit    == ("free" :> 1) @@ ("team" :> 2)
TwoTierPriority == ("free" :> 10) @@ ("team" :> 20)

=============================================================================
