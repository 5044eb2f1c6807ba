----------------------------- MODULE StripeBilling -----------------------------
(*****************************************************************************)
(* The renewals of one organisation's subscription.  Stripe issues an invoice  *)
(* per cycle, collects it or fails to, and reports what happened in events it  *)
(* repeats until they are answered, in no particular order; BillingService     *)
(* turns them into overage items, credits, a status, and the permission to     *)
(* spend more than there is.  Members cancel, resume and toggle overages.      *)
(*                                                                             *)
(* An event is "offered" until its handler claims it, and again when the       *)
(* handler threw and released the claim.  A charge or an addCredits is one     *)
(* step here: CreditLedger takes them apart.                                   *)
(*****************************************************************************)
EXTENDS Integers, Sequences, FiniteSets

CONSTANTS
    Cycles,       \* bound: renewals
    Plan,         \* PLANS[plan].limits.monthlyCredits
    Limit,        \* organization.overageLimit
    MaxSpend,     \* bound: credits that are spent
    MaxEvents,    \* bound: events Stripe emits
    Requests,     \* requests of the owner and the admins that overlap
    Faults,       \* the failures this environment has
    MaxFaults     \* bound: how many of the counted failures happen

FaultKinds == { "carry", "partial",               \* where failures strike
                "unpaid",                         \* uncounted: each emits events
                "database", "crash" }             \* counted

ASSUME BillingAssumption ==
    /\ {Cycles, Limit, MaxSpend, MaxEvents, MaxFaults} \subseteq Nat
    /\ Plan \in Nat \ {0}
    /\ Faults \subseteq FaultKinds

VARIABLES
    \* at Stripe
    sub,        \* the subscription: "active", "past_due", "canceled"
    ending,     \* cancel_at_period_end
    bill,       \* [1..Cycles -> the invoice of that renewal]
    billed,     \* overage credits on invoice items so far
    events,     \* what it emitted, each with the progress of its handler
    \* in the database
    balance,    \* creditBalance.balance
    invoiced,   \* creditBalance.invoicedOverageCredits
    status,     \* subscription.status
    since,      \* subscription.pastDueSince: the event that set it, or Null
    cancels,    \* subscription.cancelAtPeriodEnd
    overages,   \* organization.allowOverages
    request,    \* [Requests -> what it is doing]
    spent,      \* history: credits spent
    overtaken,  \* history: an event was taken up before an older one was done
    raced,      \* history: overages were allowed while a handler was at work
    crossed,    \* history: two requests were between Stripe and the row at once
    faults      \* counted failures so far

stripe == <<sub, ending, bill, billed>>
row == <<status, since, cancels>>
credits == <<balance, invoiced, spent>>
history == <<overtaken, raced, crossed>>
vars == <<stripe, events, credits, row, overages, request, history, faults>>

--------------------------------------------------------------------------------
Bills == 1 .. Cycles
Null == 0
Most(a, b) == IF a > b THEN a ELSE b

SubStates == {"active", "past_due", "canceled"}
BillStates == {"none", "draft", "open", "paid"}
Statuses == {"ACTIVE", "PAST_DUE", "CANCELED"}
RequestPcs == {"idle", "enabling", "cancelling", "revoking", "resuming"}

MidPcs == { "claimed", "debt", "billed",                        \* invoice.created
            "reconciled", "gapBilled", "active", "granted",     \* .payment_succeeded
            "revoked", "seen",                                  \* .payment_failed
            "limits", "cleaning" }                              \* subscription events
EventPcs == MidPcs \cup {"offered", "acked", "dead"}

(* debt, inv, old: what the handler has read or computed. *)
Events == [ type : {"created", "paid", "failed", "updated", "deleted"},
            bill : 0 .. Cycles, sub : SubStates, ending : BOOLEAN,
            pc : EventPcs, debt : Nat, inv : Nat, old : 0 .. MaxEvents ]

Event(type, c, s, e) ==
    [ type |-> type, bill |-> c, sub |-> s, ending |-> e,
      pc |-> "offered", debt |-> 0, inv |-> 0, old |-> Null ]

Handled == {"acked", "dead"}
AtWork == \E i \in DOMAIN events : events[i].pc \in MidPcs \ {"cleaning"}
Idle == \A r \in Requests : request[r] = "idle"
AllHandled == \A i \in DOMAIN events : events[i].pc = "acked"

Goto(i, pc) == events' = [events EXCEPT ![i].pc = pc]

(* What a handler has read ends with it. *)
Finish(i, pc) ==
    events' = [events EXCEPT ![i] = [@ EXCEPT !.pc = pc, !.debt = 0, !.inv = 0, !.old = Null]]

On(i, type, pc) == events[i].type = type /\ events[i].pc = pc

Fault(kind) ==
    /\ kind \in Faults
    /\ faults < MaxFaults
    /\ faults' = faults + 1

Init ==
    /\ sub = "active" /\ ending = FALSE
    /\ bill = [c \in Bills |-> "none"]
    /\ billed = 0
    /\ events = <<>>
    /\ balance = 0 /\ invoiced = 0 /\ spent = 0
    /\ status = "ACTIVE" /\ since = Null /\ cancels = FALSE
    /\ overages \in BOOLEAN
    /\ request = [r \in Requests |-> "idle"]
    /\ overtaken = FALSE /\ raced = FALSE /\ crossed = FALSE
    /\ faults = 0

--------------------------------------------------------------------------------
(* Stripe.                                                                    *)

Emits(es) ==
    /\ Len(events) + Len(es) <= MaxEvents
    /\ events' = events \o es

Gateway == <<credits, row, overages, request, history>>

(* A new period: a month later what was emitted has been delivered, and, without
   "carry", the last invoice has been collected. *)
Renew(c) ==
    /\ bill[c] = "none"
    /\ \A b \in 1 .. c - 1 : bill[b] = "paid" \/ ("carry" \in Faults /\ bill[b] = "open")
    /\ sub # "canceled" /\ ~ ending
    /\ \A i \in DOMAIN events : events[i].pc \in Handled
    /\ bill' = [bill EXCEPT ![c] = "draft"]
    /\ Emits(<<Event("created", c, sub, ending)>>)
    /\ UNCHANGED <<sub, ending, billed, Gateway, faults>>

(* A draft is finalised once its event was answered. *)
Payable(c) ==
    /\ sub # "canceled"
    /\ \/ bill[c] = "open"
       \/ /\ bill[c] = "draft"
          /\ \A i \in DOMAIN events :
                (events[i].type = "created" /\ events[i].bill = c) => events[i].pc \in Handled

Collect(c) ==
    /\ Payable(c)
    /\ bill' = [bill EXCEPT ![c] = "paid"]
    /\ LET settled == \A b \in Bills \ {c} : bill[b] # "open"
           recovers == sub = "past_due" /\ settled
       IN  /\ sub' = IF recovers THEN "active" ELSE sub
           /\ Emits(<<Event("paid", c, sub', ending)>>
                      \o (IF recovers THEN <<Event("updated", 0, "active", ending)>> ELSE <<>>))
    /\ UNCHANGED <<ending, billed, Gateway, faults>>

(* The charge is declined, for the first time or again. *)
Decline(c) ==
    /\ Payable(c)
    /\ "unpaid" \in Faults
    /\ bill' = [bill EXCEPT ![c] = "open"]
    /\ sub' = "past_due"
    /\ Emits(<<Event("failed", c, "past_due", ending)>>
               \o (IF sub = "active" THEN <<Event("updated", 0, "past_due", ending)>> ELSE <<>>))
    /\ UNCHANGED <<ending, billed, Gateway, faults>>

(* The period of a cancelled subscription ends, or Stripe gives up collecting. *)
End ==
    /\ (sub = "active" /\ ending) \/ sub = "past_due"
    /\ sub' = "canceled"
    /\ Emits(<<Event("deleted", 0, "canceled", ending)>>)
    /\ UNCHANGED <<ending, bill, billed, Gateway, faults>>

--------------------------------------------------------------------------------
(* The webhook.                                                               *)

Claim(i) ==
    /\ events[i].pc = "offered"
    /\ Goto(i, "claimed")
    /\ overtaken' = (overtaken \/ \E j \in 1 .. i - 1 : events[j].pc # "acked")
    /\ UNCHANGED <<stripe, credits, row, overages, request, raced, crossed, faults>>

Same == UNCHANGED <<request, history, faults>>

(* handleInvoiceCreated: a debt is put on this invoice, *)
ReadDebt(i) ==
    /\ On(i, "created", "claimed")
    /\ events' = [events EXCEPT ![i] =
                    IF balance < 0 THEN [@ EXCEPT !.pc = "debt", !.debt = -balance]
                                   ELSE [@ EXCEPT !.pc = "acked"]]
    /\ UNCHANGED <<stripe, credits, row, overages>> /\ Same

BillDebt(i) ==
    /\ On(i, "created", "debt")
    /\ billed' = billed + events[i].debt
    /\ Goto(i, "billed")
    /\ UNCHANGED <<sub, ending, bill, credits, row, overages>> /\ Same

(* and noted as invoiced. *)
Snapshot(i) ==
    /\ On(i, "created", "billed")
    /\ invoiced' = events[i].debt
    /\ Finish(i, "acked")
    /\ UNCHANGED <<stripe, balance, spent, row, overages>> /\ Same

(* handleInvoicePaymentSucceeded: what was spent since the invoice was issued is the
   gap; it goes on the next invoice. *)
Reconcile(i) ==
    /\ On(i, "paid", "claimed")
    /\ LET gap == Most(0, -(balance + invoiced))
       IN  events' = [events EXCEPT ![i] =
                [@ EXCEPT !.pc = IF gap > 0 THEN "reconciled" ELSE "gapBilled",
                          !.debt = gap, !.inv = invoiced]]
    /\ UNCHANGED <<stripe, credits, row, overages>> /\ Same

BillGap(i) ==
    /\ On(i, "paid", "reconciled")
    /\ billed' = billed + events[i].debt
    /\ Goto(i, "gapBilled")
    /\ UNCHANGED <<sub, ending, bill, credits, row, overages>> /\ Same

Activate(i) ==
    /\ On(i, "paid", "gapBilled")
    /\ status' = "ACTIVE"
    /\ since' = Null
    /\ Goto(i, "active")
    /\ UNCHANGED <<stripe, credits, cancels, overages>> /\ Same

Grant_WithoutGap(i) ==
    /\ On(i, "paid", "active")
    /\ balance' = balance + Plan + events[i].inv
    /\ Goto(i, "granted")
    /\ UNCHANGED <<stripe, invoiced, spent, row, overages>> /\ Same

(* The plan's credits and every credit that was billed. *)
Grant(i) ==
    /\ On(i, "paid", "active")
    /\ balance' = balance + Plan + events[i].inv + events[i].debt
    /\ Goto(i, "granted")
    /\ UNCHANGED <<stripe, invoiced, spent, row, overages>> /\ Same

Reset(i) ==
    /\ On(i, "paid", "granted")
    /\ invoiced' = 0
    /\ Finish(i, "acked")
    /\ UNCHANGED <<stripe, balance, spent, row, overages>> /\ Same

(* handleInvoicePaymentFailed: overages off, then the row is read, then written; the
   clock of the grace starts with the first failure only. *)
Revoke(i) ==
    /\ On(i, "failed", "claimed")
    /\ overages' = FALSE
    /\ Goto(i, "revoked")
    /\ UNCHANGED <<stripe, credits, row>> /\ Same

ReadSubscription(i) ==
    /\ On(i, "failed", "revoked")
    /\ events' = [events EXCEPT ![i] = [@ EXCEPT !.pc = "seen", !.old = since]]
    /\ UNCHANGED <<stripe, credits, row, overages>> /\ Same

Clock_Restarted(i) == i

Clock(i) == IF events[i].old # Null THEN events[i].old ELSE i

MarkPastDue_WithoutDate(i) ==
    /\ On(i, "failed", "seen")
    /\ status' = "PAST_DUE"
    /\ Finish(i, "acked")
    /\ UNCHANGED <<stripe, credits, since, cancels, overages>> /\ Same

MarkPastDue(i) ==
    /\ On(i, "failed", "seen")
    /\ status' = "PAST_DUE"
    /\ since' = Clock(i)
    /\ Finish(i, "acked")
    /\ UNCHANGED <<stripe, credits, cancels, overages>> /\ Same

(* stripeStatusToInternal *)
StatusOf(s) ==
    CASE s = "active" -> "ACTIVE" [] s = "past_due" -> "PAST_DUE" [] s = "canceled" -> "CANCELED"

(* handleSubscriptionUpdated: the transaction, *)
Sync(i) ==
    /\ On(i, "updated", "claimed")
    /\ status' = StatusOf(events[i].sub)
    /\ since' = IF events[i].sub = "active" THEN Null ELSE since
    /\ cancels' = events[i].ending
    /\ Goto(i, IF events[i].ending THEN "limits" ELSE "cleaning")
    /\ UNCHANGED <<stripe, credits, overages>> /\ Same

(* handleSubscriptionDeleted: the transaction, *)
Drop(i) ==
    /\ On(i, "deleted", "claimed")
    /\ status' = "CANCELED"
    /\ cancels' = FALSE
    /\ Goto(i, "limits")
    /\ UNCHANGED <<stripe, credits, since, overages>> /\ Same

(* on a cancellation or on the way to FREE overages off, *)
Disallow(i) ==
    /\ events[i].pc = "limits"
    /\ overages' = FALSE
    /\ Goto(i, "cleaning")
    /\ UNCHANGED <<stripe, credits, row>> /\ Same

(* and the rest: duplicate subscriptions at Stripe, what the plan has no room for. *)
CleanUp(i) ==
    /\ events[i].pc = "cleaning"
    /\ Finish(i, "acked")
    /\ UNCHANGED <<stripe, credits, row, overages>> /\ Same

(* The handler throws: the claim is released and Stripe repeats the event.  With
   "partial" this also strikes after an item or credits were added. *)
Throws(i) ==
    /\ \/ events[i].pc \in {"claimed", "debt", "reconciled", "revoked", "seen",
                              "limits", "cleaning"}
       \/ (events[i].pc \in {"gapBilled", "active"} /\ events[i].debt = 0)
       \/ (events[i].pc \in MidPcs /\ "partial" \in Faults)
    /\ Fault("database")
    /\ events' = [events EXCEPT ![i] =
                    Event(@.type, @.bill, @.sub, @.ending)]
    /\ UNCHANGED <<stripe, credits, row, overages, request, history>>

(* The instance dies; the claim stays, so repetitions are answered as duplicates. *)
Dies(i) ==
    /\ events[i].pc \in MidPcs
    /\ Fault("crash")
    /\ Finish(i, "dead")
    /\ UNCHANGED <<stripe, credits, row, overages, request, history>>

--------------------------------------------------------------------------------
(* The organisation.                                                          *)

(* resolveSubscriptionAccess, the grace not being over. *)
MayRun == status = "ACTIVE" \/ (status = "PAST_DUE" /\ since # Null)

(* A run is checked and charged. *)
Spend ==
    /\ MayRun
    /\ spent < MaxSpend
    /\ balance > 0 \/ (overages /\ balance > -Limit)
    /\ balance' = balance - 1
    /\ spent' = spent + 1
    /\ UNCHANGED <<stripe, events, invoiced, row, overages, request, history, faults>>

Asks(r, from, to) ==
    /\ request[r] = from
    /\ request' = [request EXCEPT ![r] = to]

(* toggleOverages checks the subscription, then writes. *)
CheckToggle(r) ==
    /\ Asks(r, "idle", "enabling")
    /\ status = "ACTIVE" /\ ~ cancels
    /\ UNCHANGED <<stripe, events, credits, row, overages, history, faults>>

AllowOverages(r) ==
    /\ Asks(r, "enabling", "idle")
    /\ overages' = TRUE
    /\ raced' = (raced \/ AtWork \/ status # "ACTIVE" \/ cancels)
    /\ UNCHANGED <<stripe, events, credits, row, overtaken, crossed, faults>>

(* Turning them off is not checked. *)
ForbidOverages ==
    /\ overages
    /\ overages' = FALSE
    /\ UNCHANGED <<stripe, events, credits, row, request, history, faults>>

(* Another request has told Stripe and not yet the row. *)
Crosses(r) == \E q \in Requests \ {r} : request[q] \in {"cancelling", "resuming"}

(* cancelSubscription: Stripe, then the row, then overages. *)
CancelAtStripe(r) ==
    /\ Asks(r, "idle", "cancelling")
    /\ sub # "canceled" /\ ~ ending
    /\ ending' = TRUE
    /\ Emits(<<Event("updated", 0, sub, TRUE)>>)
    /\ crossed' = (crossed \/ Crosses(r))
    /\ UNCHANGED <<sub, bill, billed, credits, row, overages, overtaken, raced, faults>>

CancelRow(r) ==
    /\ Asks(r, "cancelling", "revoking")
    /\ cancels' = TRUE
    /\ UNCHANGED <<stripe, events, credits, status, since, overages, history, faults>>

CancelOverages(r) ==
    /\ Asks(r, "revoking", "idle")
    /\ overages' = FALSE
    /\ UNCHANGED <<stripe, events, credits, row, history, faults>>

(* resumeSubscription: Stripe, then the row. *)
ResumeAtStripe(r) ==
    /\ Asks(r, "idle", "resuming")
    /\ sub # "canceled" /\ ending
    /\ ending' = FALSE
    /\ Emits(<<Event("updated", 0, sub, FALSE)>>)
    /\ crossed' = (crossed \/ Crosses(r))
    /\ UNCHANGED <<sub, bill, billed, credits, row, overages, overtaken, raced, faults>>

ResumeRow(r) ==
    /\ Asks(r, "resuming", "idle")
    /\ cancels' = FALSE
    /\ UNCHANGED <<stripe, events, credits, status, since, overages, history, faults>>

--------------------------------------------------------------------------------
Handle(i) ==
    \/ Claim(i)
    \/ ReadDebt(i) \/ BillDebt(i) \/ Snapshot(i)
    \/ Reconcile(i) \/ BillGap(i) \/ Activate(i) \/ Grant(i) \/ Reset(i)
    \/ Revoke(i) \/ ReadSubscription(i) \/ MarkPastDue(i)
    \/ Sync(i) \/ Drop(i) \/ Disallow(i) \/ CleanUp(i)

Request(r) ==
    \/ CheckToggle(r) \/ AllowOverages(r)
    \/ CancelAtStripe(r) \/ CancelRow(r) \/ CancelOverages(r)
    \/ ResumeAtStripe(r) \/ ResumeRow(r)

Next ==
    \/ \E c \in Bills : Renew(c) \/ Collect(c) \/ Decline(c)
    \/ End
    \/ \E i \in DOMAIN events : Handle(i) \/ Throws(i) \/ Dies(i)
    \/ Spend
    \/ ForbidOverages
    \/ \E r \in Requests : Request(r)

Spec == Init /\ [][Next]_vars

--------------------------------------------------------------------------------
(* Properties.                                                                *)

(* Every variable has its type: in particular no more is noted as invoiced, and no
   more is read, than credits. *)
TypeOK ==
    /\ sub \in SubStates /\ ending \in BOOLEAN
    /\ bill \in [Bills -> BillStates]
    /\ billed \in Nat
    /\ events \in Seq(Events) /\ Len(events) <= MaxEvents
    /\ balance \in Int /\ invoiced \in Nat
    /\ status \in Statuses /\ since \in 0 .. MaxEvents /\ cancels \in BOOLEAN
    /\ overages \in BOOLEAN
    /\ request \in [Requests -> RequestPcs]
    /\ spent \in 0 .. MaxSpend
    /\ overtaken \in BOOLEAN /\ raced \in BOOLEAN /\ crossed \in BOOLEAN
    /\ faults \in 0 .. MaxFaults

Paid == {c \in Bills : bill[c] = "paid"}

(* Once the events are handled, the balance is the plan's credits of each paid
   invoice, once, plus every overage credit that was billed and is not waiting to be
   paid, minus what was spent: nothing is granted or billed twice or left out,
   whatever is spent between issue and payment.  (No handler fails after it added
   something, and no invoice is issued over an unpaid one: "partial", "carry".) *)
Reconciled ==
    AllHandled => balance = Plan * Cardinality(Paid) + (billed - invoiced) - spent

(* Once the events were handled, in order, and the requests are done, the row says
   what Stripe says (whether the subscription ends: unless two requests crossed on the
   way from Stripe to the row), the grace of an unpaid subscription has begun, and
   unless they were allowed meanwhile overages are off where they must be. *)
MirrorsStripe ==
    AllHandled /\ ~ overtaken /\ Idle =>
        /\ status = StatusOf(sub)
        /\ (sub # "canceled" => cancels = ending \/ crossed)
        /\ (status = "PAST_DUE" => since # Null)
        /\ (status # "ACTIVE" \/ cancels => ~ overages \/ raced)

(* While events are taken up in order, repeated failures do not restart the grace of
   an organisation that has not paid since ("la gracia nunca se cumpliría"). *)
GraceRunsOut ==
    [][since # Null /\ since' # since /\ ~ overtaken' => status' # "PAST_DUE"]_vars
================================================================================
