----------------------------- MODULE CreditAccount -----------------------------
(* What the credit ledger promises, whatever overlaps or fails: an operation is  *)
(* applied once, as a whole, to a balance it has read while it was not applied.  *)
(* It is exact when the balance has not moved since; otherwise what moved it in   *)
(* between, and nothing else, is overwritten.                                    *)
EXTENDS Integers

CONSTANTS Operations, Amount     \* Amount[o]: what o adds to the balance

VARIABLES
    balance,
    applied,    \* the operations that took effect
    read        \* [Operations -> the balances it may still be applied to]

vars == <<balance, applied, read>>

Init ==
    /\ balance = 0
    /\ applied = {}
    /\ read = [o \in Operations |-> {}]

Read(o) ==
    /\ o \notin applied
    /\ read' = [read EXCEPT ![o] = @ \cup {balance}]
    /\ UNCHANGED <<balance, applied>>

Apply(o) ==
    /\ o \notin applied
    /\ \E before \in read[o] : balance' = before + Amount[o]
    /\ applied' = applied \cup {o}
    /\ read' = [read EXCEPT ![o] = {}]

(* An attempt comes to nothing. *)
GiveUp(o) ==
    /\ \E rest \in SUBSET read[o] : read' = [read EXCEPT ![o] = rest]
    /\ UNCHANGED <<balance, applied>>

Next == \E o \in Operations : Read(o) \/ Apply(o) \/ GiveUp(o)

Spec == Init /\ [][Next]_vars
================================================================================
