------------------------------ MODULE MCWallet ------------------------------
(* Two students, one of whom can pay twice; two requests at a time.        *)
EXTENDS Wallet
CONSTANTS u1, u2

MCOpening == [u \in Students |-> IF u = u1 THEN 2 ELSE 0]
=============================================================================
