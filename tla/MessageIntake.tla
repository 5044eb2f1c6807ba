---------------------------- MODULE MessageIntake ----------------------------
(***************************************************************************)
(* What the channel buffer promises one conversation, without Redis, task  *)
(* names, locks or clocks: a message that was accepted waits in `queued',  *)
(* a turn takes everything that is waiting as one batch, and a batch is    *)
(* settled as a whole, once.  ChannelTurn is shown to implement it.        *)
(***************************************************************************)
CONSTANT Messages

VARIABLES
    queued,     \* accepted messages no turn has taken yet
    batches,    \* the batches taken and not settled, each a set of messages
    settled     \* messages whose turn came to an end

vars == <<queued, batches, settled>>

Known == queued \cup (UNION batches) \cup settled

Init ==
    /\ queued = {}
    /\ batches = {}
    /\ settled = {}

(* A message enters the conversation, at most once. *)
Accept(m) ==
    /\ m \notin Known
    /\ queued' = queued \cup {m}
    /\ UNCHANGED <<batches, settled>>

(* A turn starts: it answers the whole burst, not a part of it. *)
Take ==
    /\ queued # {}
    /\ batches' = batches \cup {queued}
    /\ queued' = {}
    /\ UNCHANGED settled

(* A turn ends: all its messages are settled together. *)
Settle(B) ==
    /\ batches' = batches \ {B}
    /\ settled' = settled \cup B
    /\ UNCHANGED queued

Next ==
    \/ \E m \in Messages : Accept(m)
    \/ Take
    \/ \E B \in batches : Settle(B)

(* Nothing obliges a customer to write; what was written is taken and settled. *)
Fairness ==
    /\ WF_vars(Take)
    /\ WF_vars(\E B \in batches : Settle(B))

Spec == Init /\ [][Next]_vars
FairSpec == Spec /\ Fairness
=============================================================================
