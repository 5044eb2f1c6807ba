--------------------------- MODULE MCStripeBilling ---------------------------
(* Model-checking instance of StripeBilling: the requests are interchangeable,  *)
(* and states no property will ever tell apart again are one.                   *)
EXTENDS StripeBilling, TLC

RequestSymmetry == Permutations(Requests)

Lost == \E i \in DOMAIN events : events[i].pc = "dead"

(* Of the clock of the grace: whether it runs. *)
Runs(s) == s # Null
Clockless == [i \in DOMAIN events |-> [events[i] EXCEPT !.old = IF Runs(@) THEN 1 ELSE Null]]

(* What some property or a guard still depends on.  Histories only grow: once an event
   overtook another, the dates of the clock and the other histories matter to no property,
   and Reconciled alone is at stake; once an instance died with an event (Lost), Reconciled
   and MirrorsStripe speak of no state to come; after both nothing does. *)
Relevant ==
    IF overtaken /\ Lost THEN <<>>
    ELSE IF overtaken THEN <<stripe, Clockless, credits, status, Runs(since), cancels, overages,
                             request, faults>>
    ELSE IF Lost THEN <<stripe, events, credits, row, overages, request, faults>>
    ELSE vars
==============================================================================
