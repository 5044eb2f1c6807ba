------------------------------ MODULE CreditLedger ------------------------------
(*****************************************************************************)
(* The credits of one organisation: the check before a workflow runs, the      *)
(* charge after it, purchases credited by Stripe's webhook, and addCredits     *)
(* (renewals and manual adjustments).                                          *)
(*                                                                             *)
(* Every operation reads the balance, computes the new one, and then commits a *)
(* transaction that writes that ABSOLUTE value together with its row of the    *)
(* log; between the read and the commit any other operation may run.           *)
(*****************************************************************************)
EXTENDS Integers, Sequences

CONSTANTS
    Executions,    \* runs of a workflow
    Purchases,     \* paid checkout sessions (top-ups)
    Adjustments,   \* calls of addCredits
    Amount,        \* what an operation adds to the balance; negative: a cost
    Limits,        \* overage limits the owner may choose
    Attempts,      \* bound: deliveries of one webhook event
    Faults,        \* the failures this environment has
    MaxFaults      \* bound: how many failures happen

Operations == Executions \cup Purchases \cup Adjustments
FaultKinds == { "agent", "charge", "chargeReply", "stats",        \* of an execution
                "purchase", "purchaseReply", "slow", "add", "crash" }

ASSUME LedgerAssumption ==
    /\ Executions \cap (Purchases \cup Adjustments) = {}
    /\ Purchases \cap Adjustments = {}
    /\ Amount \in [Operations -> Int]
    /\ \A e \in Executions : Amount[e] < 0
    /\ \A p \in Purchases : Amount[p] > 0
    /\ Limits \subseteq Nat
    /\ Attempts \in Nat /\ MaxFaults \in Nat /\ MaxFaults < Attempts
    /\ Faults \subseteq FaultKinds

VARIABLES
    balance,     \* credit_balances.balance
    earned,      \* credit_balances.lifetimeEarned
    spent,       \* credit_balances.lifetimeSpent
    log,         \* credit_transactions in commit order
    overage,     \* overageLimit, NoOverage without allowOverages
    exec,        \* [Executions -> its progress]
    adj,         \* [Adjustments -> its progress]
    dlv,         \* [Deliveries -> progress of one delivery of a purchase's event]
    claims,      \* purchases whose event has a row in processed_webhook_events
    invoices,    \* purchases whose invoiceNumber exists
    faults,      \* failures so far
    stale,       \* history: a commit replaced a balance it had not read
    crowded      \* history: executions during which another operation was open

account == <<balance, earned, spent, log, stale>>
webhook == <<dlv, claims, invoices>>
vars == <<account, overage, exec, adj, webhook, faults, crowded>>

--------------------------------------------------------------------------------
NoOverage == -1
Deliveries == Purchases \X (1 .. Attempts)
Of(d) == d[1]
NextDelivery(d) == <<d[1], d[2] + 1>>

ExecPcs == { "idle", "denied", "running", "completed", "charging",
             "charged", "done", "failed", "dead" }
AdjPcs == { "idle", "adding", "done", "failed", "dead" }
DlvPcs == { "none", "offered", "claimed", "granting", "acked", "failed", "dead" }

(* floor: the lowest balance the check let this execution leave. *)
Execs == [pc : ExecPcs, seen : Int, floor : Int]
Adjs == [pc : AdjPcs, seen : Int]
Dlvs == [pc : DlvPcs, seen : Int]
Rows == [op : Operations, before : Int, after : Int]

LogOps == {log[i].op : i \in DOMAIN log}

(* Operations that have read the balance and not committed, and those that may
   still change it. *)
Midway ==
    {e \in Executions : exec[e].pc = "charging"}
        \cup {a \in Adjustments : adj[a].pc = "adding"}
        \cup {Of(d) : d \in {x \in Deliveries : dlv[x].pc = "granting"}}
Open == Midway \cup {e \in Executions : exec[e].pc \in {"running", "completed"}}

Opens(o) ==
    crowded' = IF Open = {} THEN crowded
               ELSE crowded \cup ((Open \cup {o}) \cap Executions)

Fault(kind) ==
    /\ kind \in Faults
    /\ faults < MaxFaults
    /\ faults' = faults + 1

ExecAt(e, from, to) ==
    /\ exec[e].pc = from
    /\ exec' = [exec EXCEPT ![e] = [@ EXCEPT !.pc = to]]

DlvAt(d, from, to) ==
    /\ dlv[d].pc = from
    /\ dlv' = [dlv EXCEPT ![d] = [@ EXCEPT !.pc = to]]

Init ==
    /\ balance = 0 /\ earned = 0 /\ spent = 0
    /\ log = <<>>
    /\ overage \in Limits \cup {NoOverage}
    /\ exec = [e \in Executions |-> [pc |-> "idle", seen |-> 0, floor |-> 0]]
    /\ adj = [a \in Adjustments |-> [pc |-> "idle", seen |-> 0]]
    /\ dlv = [d \in Deliveries |->
                [pc |-> IF d[2] = 1 THEN "offered" ELSE "none", seen |-> 0]]
    /\ claims = {}
    /\ invoices = {}
    /\ faults = 0
    /\ stale = FALSE
    /\ crowded = {}

Commit_WithoutSpent(o, before) ==
    /\ balance' = before + Amount[o]
    /\ earned' = IF o \in Executions THEN earned ELSE earned + Amount[o]
    /\ spent' = spent
    /\ log' = Append(log, [op |-> o, before |-> before, after |-> before + Amount[o]])
    /\ stale' = (stale \/ before # balance)

(* The $transaction of every operation: the absolute balance, the increment of
   a total and the row of the log are written together. *)
Commit(o, before) ==
    /\ balance' = before + Amount[o]
    /\ earned' = IF o \in Executions THEN earned ELSE earned + Amount[o]
    /\ spent' = IF o \in Executions THEN spent - Amount[o] ELSE spent
    /\ log' = Append(log, [op |-> o, before |-> before, after |-> before + Amount[o]])
    /\ stale' = (stale \/ before # balance)

--------------------------------------------------------------------------------
(* An execution: checked, run, marked COMPLETED, charged, accounted for.      *)

Check_DebtBeforeCost(e) ==
    /\ exec[e].pc = "idle"
    /\ \E subscribed \in BOOLEAN :
        LET left == balance + Amount[e]
            floor == IF left >= 0 THEN 0 ELSE -overage
        IN  IF subscribed /\ (left >= 0 \/ (overage # NoOverage /\ -balance <= overage))
            THEN /\ exec' = [exec EXCEPT ![e] = [@ EXCEPT !.pc = "running",
                                                          !.floor = floor]]
                 /\ Opens(e)
            ELSE /\ exec' = [exec EXCEPT ![e] = [@ EXCEPT !.pc = "denied"]]
                 /\ UNCHANGED crowded
    /\ UNCHANGED <<account, overage, adj, webhook, faults>>

(* canExecuteWorkflow.  subscribed: what resolveSubscriptionAccess answers. *)
Check(e) ==
    /\ exec[e].pc = "idle"
    /\ \E subscribed \in BOOLEAN :
        LET left == balance + Amount[e]
            floor == IF left >= 0 THEN 0 ELSE -overage
        IN  IF subscribed /\ (left >= 0 \/ (overage # NoOverage /\ -left <= overage))
            THEN /\ exec' = [exec EXCEPT ![e] = [@ EXCEPT !.pc = "running",
                                                          !.floor = floor]]
                 /\ Opens(e)
            ELSE /\ exec' = [exec EXCEPT ![e] = [@ EXCEPT !.pc = "denied"]]
                 /\ UNCHANGED crowded
    /\ UNCHANGED <<account, overage, adj, webhook, faults>>

(* The agent answered and updateStatus wrote COMPLETED. *)
Complete(e) ==
    /\ ExecAt(e, "running", "completed")
    /\ UNCHANGED <<account, overage, adj, webhook, faults, crowded>>

AgentFails(e) ==
    /\ Fault("agent")
    /\ ExecAt(e, "running", "failed")
    /\ UNCHANGED <<account, overage, adj, webhook, crowded>>

(* deductCredits reads the balance. *)
ReadForCharge(e) ==
    /\ exec[e].pc = "completed"
    /\ exec' = [exec EXCEPT ![e] = [@ EXCEPT !.pc = "charging", !.seen = balance]]
    /\ UNCHANGED <<account, overage, adj, webhook, faults, crowded>>

Charged(e) == Commit(e, exec[e].seen)

Charge_IfUnchanged(e) ==
    /\ exec[e].seen = balance
    /\ ExecAt(e, "charging", "charged")
    /\ Charged(e)
    /\ UNCHANGED <<overage, adj, webhook, faults, crowded>>

Charge(e) ==
    /\ ExecAt(e, "charging", "charged")
    /\ Charged(e)
    /\ UNCHANGED <<overage, adj, webhook, faults, crowded>>

(* The transaction rolls back: the catch of execute writes FAILED. *)
ChargeFails(e) ==
    /\ Fault("charge")
    /\ ExecAt(e, "charging", "failed")
    /\ UNCHANGED <<account, overage, adj, webhook, crowded>>

(* It commits, but the connection fails before the gateway learns it. *)
ChargeReplyLost(e) ==
    /\ Fault("chargeReply")
    /\ ExecAt(e, "charging", "failed")
    /\ Charged(e)
    /\ UNCHANGED <<overage, adj, webhook, crowded>>

(* The average of the workflow, then the notification of a zero crossing. *)
Account(e) ==
    /\ ExecAt(e, "charged", "done")
    /\ UNCHANGED <<account, overage, adj, webhook, faults, crowded>>

(* One of those queries fails: the same catch writes FAILED. *)
AccountFails(e) ==
    /\ Fault("stats")
    /\ ExecAt(e, "charged", "failed")
    /\ UNCHANGED <<account, overage, adj, webhook, crowded>>

CrashExecution(e) ==
    /\ Fault("crash")
    /\ exec[e].pc \in {"running", "completed", "charging", "charged"}
    /\ ExecAt(e, exec[e].pc, "dead")
    /\ UNCHANGED <<account, overage, adj, webhook, crowded>>

--------------------------------------------------------------------------------
(* addCredits: a renewal or a manual adjustment.                              *)

ReadForAdd(a) ==
    /\ adj[a].pc = "idle"
    /\ adj' = [adj EXCEPT ![a] = [@ EXCEPT !.pc = "adding", !.seen = balance]]
    /\ Opens(a)
    /\ UNCHANGED <<account, overage, exec, webhook, faults>>

Add(a) ==
    /\ adj[a].pc = "adding"
    /\ adj' = [adj EXCEPT ![a] = [@ EXCEPT !.pc = "done"]]
    /\ Commit(a, adj[a].seen)
    /\ UNCHANGED <<overage, exec, webhook, faults, crowded>>

AddFails_WithoutTransaction(a) ==
    /\ Fault("add")
    /\ adj[a].pc = "adding"
    /\ adj' = [adj EXCEPT ![a] = [@ EXCEPT !.pc = "failed"]]
    /\ balance' = adj[a].seen + Amount[a]
    /\ UNCHANGED <<earned, spent, log, stale>>
    /\ UNCHANGED <<overage, exec, webhook, crowded>>

AddFails(a) ==
    /\ Fault("add")
    /\ adj[a].pc = "adding"
    /\ adj' = [adj EXCEPT ![a] = [@ EXCEPT !.pc = "failed"]]
    /\ UNCHANGED <<account, overage, exec, webhook, crowded>>

(* The owner turns overages on with a limit or off; a failed payment of the
   subscription turns them off. *)
SetOverage(l) ==
    /\ overage # l
    /\ overage' = l
    /\ UNCHANGED <<account, exec, adj, webhook, faults, crowded>>

--------------------------------------------------------------------------------
(* A purchase: deliveries of checkout.session.completed until one gets a 2xx. *)

Claim(d) ==
    /\ dlv[d].pc = "offered"
    /\ IF Of(d) \in claims
       THEN DlvAt(d, "offered", "acked") /\ UNCHANGED claims
       ELSE DlvAt(d, "offered", "claimed") /\ claims' = claims \cup {Of(d)}
    /\ UNCHANGED <<account, overage, exec, adj, invoices, faults, crowded>>

(* grantPurchasedCredits reads the balance. *)
ReadForGrant(d) ==
    /\ dlv[d].pc = "claimed"
    /\ dlv' = [dlv EXCEPT ![d] = [@ EXCEPT !.pc = "granting", !.seen = balance]]
    /\ Opens(Of(d))
    /\ UNCHANGED <<account, overage, exec, adj, claims, invoices, faults>>

Granted_WithoutUnique(d) ==
    Commit(Of(d), dlv[d].seen) /\ invoices' = invoices \cup {Of(d)}

(* invoiceNumber is unique: a second transaction fails with P2002. *)
Granted(d) ==
    IF Of(d) \in invoices THEN UNCHANGED <<account, invoices>>
    ELSE Commit(Of(d), dlv[d].seen) /\ invoices' = invoices \cup {Of(d)}

Grant(d) ==
    /\ DlvAt(d, "granting", "acked")
    /\ Granted(d)
    /\ UNCHANGED <<overage, exec, adj, claims, faults, crowded>>

GrantFails_KeepsClaim(d) ==
    /\ Fault("purchase")
    /\ dlv[d].pc \in {"claimed", "granting"}
    /\ DlvAt(d, dlv[d].pc, "failed")
    /\ UNCHANGED <<account, overage, exec, adj, claims, invoices, crowded>>

(* An exception before or at the transaction: the claim is released and the
   answer is 503. *)
GrantFails(d) ==
    /\ Fault("purchase")
    /\ dlv[d].pc \in {"claimed", "granting"}
    /\ DlvAt(d, dlv[d].pc, "failed")
    /\ claims' = claims \ {Of(d)}
    /\ UNCHANGED <<account, overage, exec, adj, invoices, crowded>>

(* The transaction commits and its reply is lost: an exception as well. *)
GrantReplyLost(d) ==
    /\ Fault("purchaseReply")
    /\ DlvAt(d, "granting", "failed")
    /\ Granted(d)
    /\ claims' = claims \ {Of(d)}
    /\ UNCHANGED <<overage, exec, adj, crowded>>

CrashDelivery(d) ==
    /\ Fault("crash")
    /\ dlv[d].pc \in {"claimed", "granting"}
    /\ DlvAt(d, dlv[d].pc, "dead")
    /\ UNCHANGED <<account, overage, exec, adj, claims, invoices, crowded>>

Offered(d) ==
    /\ NextDelivery(d) \in Deliveries
    /\ DlvAt(NextDelivery(d), "none", "offered")
    /\ UNCHANGED <<account, overage, exec, adj, claims, invoices, crowded>>

(* Stripe repeats an event that got no 2xx, *)
Redeliver(d) ==
    /\ dlv[d].pc \in {"failed", "dead"}
    /\ Offered(d)
    /\ UNCHANGED faults

(* or whose answer takes too long: the first handler goes on. *)
RedeliverSlow(d) ==
    /\ Fault("slow")
    /\ dlv[d].pc \in {"claimed", "granting"}
    /\ Offered(d)

--------------------------------------------------------------------------------
RunExecution(e) ==
    \/ Check(e) \/ Complete(e) \/ ReadForCharge(e) \/ Charge(e) \/ Account(e)

RunDelivery(d) == Claim(d) \/ ReadForGrant(d) \/ Grant(d) \/ Redeliver(d)

BreakExecution(e) ==
    \/ AgentFails(e) \/ ChargeFails(e) \/ ChargeReplyLost(e)
    \/ AccountFails(e) \/ CrashExecution(e)

BreakDelivery(d) ==
    GrantFails(d) \/ GrantReplyLost(d) \/ CrashDelivery(d) \/ RedeliverSlow(d)

Next ==
    \/ \E e \in Executions : RunExecution(e) \/ BreakExecution(e)
    \/ \E a \in Adjustments : ReadForAdd(a) \/ Add(a) \/ AddFails(a)
    \/ \E d \in Deliveries : RunDelivery(d) \/ BreakDelivery(d)
    \/ \E l \in Limits \cup {NoOverage} : SetOverage(l)

Spec == Init /\ [][Next]_vars

(* A handler that started goes on; Stripe repeats what it was not answered.
   Nobody has to start an execution or an adjustment. *)
Fairness ==
    /\ \A e \in Executions :
        WF_vars(Complete(e)) /\ WF_vars(ReadForCharge(e))
            /\ WF_vars(Charge(e)) /\ WF_vars(Account(e))
    /\ \A a \in Adjustments : WF_vars(Add(a))
    /\ \A d \in Deliveries :
        WF_vars(Claim(d)) /\ WF_vars(ReadForGrant(d)) /\ WF_vars(Grant(d))
            /\ WF_vars(Redeliver(d))

FairSpec == Spec /\ Fairness

--------------------------------------------------------------------------------
TypeOK ==
    /\ balance \in Int /\ earned \in Int /\ spent \in Int
    /\ log \in Seq(Rows)
    /\ overage \in Limits \cup {NoOverage}
    /\ exec \in [Executions -> Execs]
    /\ adj \in [Adjustments -> Adjs]
    /\ dlv \in [Deliveries -> Dlvs]
    /\ claims \subseteq Purchases
    /\ invoices \subseteq Purchases
    /\ faults \in 0 .. MaxFaults
    /\ stale \in BOOLEAN
    /\ crowded \subseteq Executions

(* Whatever operations overlap or fail half-way, the last row of the log shows
   the balance the organisation has: no path changes one without the other. *)
BalanceIsLastRow ==
    balance = IF log = <<>> THEN 0 ELSE log[Len(log)].after

(* The balance equals what was earned minus what was spent for as long as no
   operation committed over a balance that had changed since it read it. *)
ExactUnlessStale == ~stale => balance = earned - spent

(* An operation is applied at most once: one charge per execution, one credit
   per checkout session however often its event is delivered. *)
AppliedOnce ==
    \A i, j \in DOMAIN log : log[i].op = log[j].op => i = j

(* An execution that had the ledger to itself from its check to its charge never
   leaves a balance below what the check allowed. *)
AloneWithinLimit ==
    \A i \in DOMAIN log :
        LET o == log[i].op
        IN  o \in Executions \ crowded => log[i].after >= exec[o].floor

(* A paid purchase is credited in the end. *)
PaidIsCredited == \A p \in Purchases : <>(p \in invoices)

(* No execution stays COMPLETED for free: it is charged in the end, or the charge
   failed and the execution is FAILED. *)
CompletedIsCharged ==
    \A e \in Executions :
        exec[e].pc = "completed" ~> (e \in LogOps \/ exec[e].pc = "failed")

(* The balances that the attempts of an operation under way have read. *)
Seen(o) ==
    {exec[e].seen : e \in {x \in Executions : x = o /\ exec[x].pc = "charging"}}
        \cup {adj[a].seen : a \in {x \in Adjustments : x = o /\ adj[x].pc = "adding"}}
        \cup {dlv[d].seen : d \in {x \in Deliveries : Of(x) = o /\ dlv[x].pc = "granting"}}

(* One in the log builds on nothing any more: an attempt of it that is left changes nothing. *)
Held == [o \in Operations |-> IF o \in LogOps THEN {} ELSE Seen(o)]

(* Through every overlap, failure and repetition the ledger is the account: a commit applies
   one operation once, to a balance that one of its own attempts has read. *)
Abstract == INSTANCE CreditAccount WITH
    applied <- LogOps,
    read <- Held
ImplementsAccount == Abstract!Spec
================================================================================
