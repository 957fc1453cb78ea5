------------------------------ MODULE MCClaims -------------------------------
(* The instances of Claims that TLC checks.                                *)
EXTENDS Claims, TLC

\* The module tells no two requests, claims, grants or transfers apart.
Interchangeable == Permutations(Requests) \cup Permutations(Ids)
                     \cup Permutations(Grants) \cup Permutations(Transfers)
=============================================================================
