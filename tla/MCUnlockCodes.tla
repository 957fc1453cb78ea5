---------------------------- MODULE MCUnlockCodes ----------------------------
(* The instances of UnlockCodes that TLC checks.                           *)
EXTENDS UnlockCodes, TLC

\* The module tells neither students nor requests apart.
Interchangeable == Permutations(Students) \cup Permutations(Requests)
=============================================================================
