---------------------------- MODULE MCCreditLedger ----------------------------
(* Small instances of CreditLedger.  A purchase and a renewal each pay for one *)
(* execution or two; a correction may also take credits away.                 *)
EXTENDS CreditLedger, TLC

CONSTANTS e1, e2, p1, p2, a1, a2

Amounts == (e1 :> -1) @@ (e2 :> -2) @@ (p1 :> 3) @@ (p2 :> 2) @@ (a1 :> 2) @@ (a2 :> -1)
AmountOfOperation == [o \in Operations |-> Amounts[o]]
================================================================================
