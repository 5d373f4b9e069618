----------------------------- MODULE MCJobQueue -----------------------------
(* Small instances of JobQueue. *)
EXTENDS JobQueue, TLC

CONSTANTS j1, j2, x1, d1, d2, once

\* Nothing tells the jobs apart but their names.
JobSymmetry == Permutations(Jobs)

\* Two jobs, or one beside a malformed entry.
Few == submitted \cap Junk = {} \/ Cardinality(submitted \cap Jobs) <= 1

FewSpec == Init /\ [][Next /\ Few']_vars
=============================================================================
