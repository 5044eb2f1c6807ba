------------------------------- MODULE MCAccounts -------------------------------
(* Accounts for TLC: the requests are interchangeable.                         *)
EXTENDS Accounts, TLC

RequestSymmetry == Permutations(Requests)
================================================================================
