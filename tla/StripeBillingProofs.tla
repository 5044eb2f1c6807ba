-------------------------- MODULE StripeBillingProofs --------------------------
(*****************************************************************************)
(* Theorems about StripeBilling: its types, that the grace of an unpaid        *)
(* subscription runs out, that the credits of a subscription add up, and that   *)
(* the row ends up saying what Stripe says.                                    *)
(*****************************************************************************)
EXTENDS StripeBilling, FiniteSetTheorems, SequenceTheorems, TLAPS

(* What an entry of `events' becomes in the steps of its handler is an event. *)
LEMMA EventTypes ==
    ASSUME NEW r \in Events, NEW p \in EventPcs, NEW d \in Nat, NEW v \in Nat,
           NEW o \in 0 .. MaxEvents
    PROVE  /\ [r EXCEPT !.pc = p] \in Events
           /\ [r EXCEPT !.pc = p, !.debt = d] \in Events
           /\ [r EXCEPT !.pc = p, !.debt = d, !.inv = v] \in Events
           /\ [r EXCEPT !.pc = p, !.old = o] \in Events
           /\ [r EXCEPT !.pc = p, !.debt = d, !.inv = v, !.old = o] \in Events
  BY DEF Events

LEMMA NewEventType ==
    ASSUME NEW t \in {"created", "paid", "failed", "updated", "deleted"},
           NEW c \in 0 .. Cycles, NEW s \in SubStates, NEW e \in BOOLEAN
    PROVE  Event(t, c, s, e) \in Events
  BY BillingAssumption DEF Events, Event, Null, EventPcs

(* A step of the handler of event i changes that entry only. *)
LEMMA EntryChanges ==
    ASSUME NEW S, NEW s \in Seq(S), NEW i \in DOMAIN s, NEW r \in S
    PROVE  LET u == [s EXCEPT ![i] = r]
           IN  /\ u \in Seq(S) /\ Len(u) = Len(s) /\ DOMAIN u = DOMAIN s
               /\ u[i] = r
               /\ \A j \in DOMAIN s \ {i} : u[j] = s[j]
  OBVIOUS

(* What Stripe emits is appended. *)
LEMMA EmitsType ==
    ASSUME TypeOK, NEW es \in Seq(Events), Emits(es)
    PROVE  /\ events' \in Seq(Events) /\ Len(events') <= MaxEvents
           /\ DOMAIN events \subseteq DOMAIN events'
           /\ \A j \in DOMAIN events : events'[j] = events[j]
           /\ \A j \in DOMAIN events' \ DOMAIN events : events'[j] = es[j - Len(events)]
           /\ \A j \in DOMAIN events' \ DOMAIN events : j - Len(events) \in DOMAIN es
  BY BillingAssumption DEF TypeOK, Emits

(* What Stripe emits is on offer. *)
LEMMA Emitted ==
    ASSUME TypeOK, \/ \E c \in Bills : Renew(c) \/ Collect(c) \/ Decline(c)
                   \/ End \/ \E r \in Requests : CancelAtStripe(r) \/ ResumeAtStripe(r)
    PROVE  \E es \in Seq(Events) : Emits(es) /\ \A k \in DOMAIN es : es[k].pc = "offered"
<1>1. /\ sub \in SubStates /\ ending \in BOOLEAN /\ 0 \in 0 .. Cycles
      /\ \A c \in Bills : c \in 0 .. Cycles
  BY BillingAssumption DEF TypeOK, Bills
<1>2. {"active", "past_due", "canceled"} \subseteq SubStates
  BY DEF SubStates
<1> DEFINE Fresh == {e \in Events : e.pc = "offered"}
           OnOffer == \E es \in Seq(Events) :
                        Emits(es) /\ \A k \in DOMAIN es : es[k].pc = "offered"
<1>3. ASSUME NEW t \in {"created", "paid", "failed", "updated", "deleted"},
             NEW c \in 0 .. Cycles, NEW s \in SubStates, NEW b \in BOOLEAN
      PROVE  Event(t, c, s, b) \in Fresh
  <2>1. Event(t, c, s, b) \in Events
    BY NewEventType
  <2>. QED
    BY <2>1 DEF Event
<1>4. ASSUME NEW e \in Fresh, Emits(<<e>>) PROVE OnOffer
  <2>1. <<e>> \in Seq(Events) /\ \A k \in DOMAIN <<e>> : <<e>>[k].pc = "offered"
    OBVIOUS
  <2>. QED
    BY <1>4, <2>1
<1>5. ASSUME NEW e \in Fresh, NEW f \in Fresh, Emits(<<e>> \o <<f>>) PROVE OnOffer
  <2>1. /\ <<e>> \o <<f>> \in Seq(Events)
        /\ \A k \in DOMAIN (<<e>> \o <<f>>) : (<<e>> \o <<f>>)[k].pc = "offered"
    OBVIOUS
  <2>. QED
    BY <1>5, <2>1
<1>6. ASSUME NEW e \in Fresh PROVE <<e>> \o <<>> = <<e>>
  OBVIOUS
<1> HIDE DEF Fresh, OnOffer
<1>7. CASE \E c \in Bills : Renew(c)
  <2>1. PICK c \in Bills : Emits(<<Event("created", c, sub, ending)>>)
    BY <1>7 DEF Renew
  <2>. QED
    BY <1>1, <1>3, <1>4, <2>1 DEF OnOffer
<1>8. CASE \E c \in Bills : Collect(c)
  <2>1. PICK c \in Bills : Collect(c)
    BY <1>8
  <2>2. sub' \in SubStates
    BY <1>1, <1>2, <2>1 DEF Collect
  <2>3. /\ Event("paid", c, sub', ending) \in Fresh
        /\ Event("updated", 0, "active", ending) \in Fresh
    BY <1>1, <1>2, <1>3, <2>2
  <2>4. \/ Emits(<<Event("paid", c, sub', ending)>> \o <<Event("updated", 0, "active", ending)>>)
        \/ Emits(<<Event("paid", c, sub', ending)>> \o <<>>)
    BY <2>1 DEF Collect
  <2>. QED
    BY <1>4, <1>5, <1>6, <2>3, <2>4 DEF OnOffer
<1>9. CASE \E c \in Bills : Decline(c)
  <2>1. PICK c \in Bills : Decline(c)
    BY <1>9
  <2>2. /\ Event("failed", c, "past_due", ending) \in Fresh
        /\ Event("updated", 0, "past_due", ending) \in Fresh
    BY <1>1, <1>2, <1>3
  <2>3. \/ Emits(<<Event("failed", c, "past_due", ending)>> \o
                    <<Event("updated", 0, "past_due", ending)>>)
        \/ Emits(<<Event("failed", c, "past_due", ending)>> \o <<>>)
    BY <2>1 DEF Decline
  <2>. QED
    BY <1>4, <1>5, <1>6, <2>2, <2>3 DEF OnOffer
<1>10. CASE End \/ \E r \in Requests : CancelAtStripe(r) \/ ResumeAtStripe(r)
  <2>1. \/ Emits(<<Event("deleted", 0, "canceled", ending)>>)
        \/ Emits(<<Event("updated", 0, sub, TRUE)>>)
        \/ Emits(<<Event("updated", 0, sub, FALSE)>>)
    BY <1>10 DEF End, CancelAtStripe, ResumeAtStripe
  <2>2. /\ Event("deleted", 0, "canceled", ending) \in Fresh
        /\ Event("updated", 0, sub, TRUE) \in Fresh
        /\ Event("updated", 0, sub, FALSE) \in Fresh
    BY <1>1, <1>2, <1>3
  <2>. QED
    BY <1>4, <2>1, <2>2 DEF OnOffer
<1>. QED
  BY <1>7, <1>8, <1>9, <1>10 DEF OnOffer

(* A step on event i: what becomes of its entry, and that only an event at work or on
   offer makes one. *)
LEMMA OwnStep ==
    ASSUME TypeOK, NEW i \in DOMAIN events, Handle(i) \/ Throws(i) \/ Dies(i)
    PROVE  \E r \in Events :
              /\ events' = [events EXCEPT ![i] = r]
              /\ Claim(i) \/ (events[i].pc # "offered" /\ overtaken' = overtaken)
              /\ events[i].pc # "acked"
              /\ r.type = events[i].type /\ r.bill = events[i].bill
              /\ r.sub = events[i].sub /\ r.ending = events[i].ending
              /\ r.pc = "seen" => r.old = since /\ since' = since
<1> DEFINE e == events[i]
<1>1. e \in Events /\ i \in 1 .. MaxEvents
  BY BillingAssumption DEF TypeOK
<1>2. balance \in Int /\ invoiced \in Nat /\ since \in 0 .. MaxEvents
  BY DEF TypeOK
<1>3. /\ MidPcs \subseteq EventPcs /\ {"acked", "dead", "offered"} \subseteq EventPcs
      /\ "acked" \notin MidPcs /\ "offered" \notin MidPcs
  BY DEF EventPcs, MidPcs
<1>4. 0 \in Nat /\ Null \in 0 .. MaxEvents
  BY BillingAssumption DEF Null
<1> HIDE DEF e
<1>5. CASE Claim(i)
  <2> DEFINE r == [e EXCEPT !.pc = "claimed"]
  <2>1. /\ r \in Events /\ r.pc = "claimed"
        /\ r.type = e.type /\ r.bill = e.bill /\ r.sub = e.sub /\ r.ending = e.ending
    BY <1>1, <1>3, EventTypes DEF Events, MidPcs
  <2>2. events' = [events EXCEPT ![i] = r] /\ e.pc = "offered"
    BY <1>5 DEF Claim, Goto, e
  <2>. QED
    BY <1>5, <2>1, <2>2 DEF e
<1>6. ASSUME NEW p \in MidPcs \ {"seen"}, e.pc \in MidPcs, Goto(i, p), overtaken' = overtaken
      PROVE  \E r \in Events :
              /\ events' = [events EXCEPT ![i] = r]
              /\ Claim(i) \/ (events[i].pc # "offered" /\ overtaken' = overtaken)
              /\ events[i].pc # "acked"
              /\ r.type = events[i].type /\ r.bill = events[i].bill
              /\ r.sub = events[i].sub /\ r.ending = events[i].ending
              /\ r.pc = "seen" => r.old = since /\ since' = since
  <2> DEFINE r == [e EXCEPT !.pc = p]
  <2>1. /\ r \in Events /\ r.pc = p
        /\ r.type = e.type /\ r.bill = e.bill /\ r.sub = e.sub /\ r.ending = e.ending
    BY <1>1, <1>3, <1>6, EventTypes DEF Events
  <2>2. events' = [events EXCEPT ![i] = r]
    BY <1>6 DEF Goto, e
  <2> HIDE DEF r
  <2>. QED
    BY <1>3, <1>6, <2>1, <2>2 DEF e
<1>7. ASSUME NEW p \in Handled, e.pc \in MidPcs, Finish(i, p), overtaken' = overtaken
      PROVE  \E r \in Events :
              /\ events' = [events EXCEPT ![i] = r]
              /\ Claim(i) \/ (events[i].pc # "offered" /\ overtaken' = overtaken)
              /\ events[i].pc # "acked"
              /\ r.type = events[i].type /\ r.bill = events[i].bill
              /\ r.sub = events[i].sub /\ r.ending = events[i].ending
              /\ r.pc = "seen" => r.old = since /\ since' = since
  <2> DEFINE r == [e EXCEPT !.pc = p, !.debt = 0, !.inv = 0, !.old = Null]
  <2>0. p \in EventPcs
    BY <1>3, <1>7 DEF Handled
  <2>1. /\ r \in Events /\ r.pc = p
        /\ r.type = e.type /\ r.bill = e.bill /\ r.sub = e.sub /\ r.ending = e.ending
    <3>1. r \in Events
      BY <1>1, <1>4, <2>0, EventTypes
    <3>2. r.pc = p /\ r.type = e.type /\ r.bill = e.bill /\ r.sub = e.sub /\ r.ending = e.ending
      BY <1>1 DEF Events
    <3>. QED
      BY <3>1, <3>2
  <2>2. events' = [events EXCEPT ![i] = r]
    BY <1>7 DEF Finish, e
  <2> HIDE DEF r
  <2>. QED
    BY <1>3, <1>7, <2>1, <2>2 DEF e, Handled
<1>8. CASE ReadDebt(i)
  <2>1. CASE balance < 0
    <3> DEFINE r == [e EXCEPT !.pc = "debt", !.debt = -balance]
    <3>1. -balance \in Nat
      BY <1>2, <2>1
    <3>2. /\ r \in Events /\ r.pc = "debt"
          /\ r.type = e.type /\ r.bill = e.bill /\ r.sub = e.sub /\ r.ending = e.ending
      BY <1>1, <1>3, <3>1, EventTypes DEF Events, MidPcs
    <3>3. events' = [events EXCEPT ![i] = r] /\ e.pc = "claimed" /\ overtaken' = overtaken
      BY <1>8, <2>1 DEF ReadDebt, On, Same, history, e
    <3> HIDE DEF r
    <3>. QED
      BY <3>2, <3>3 DEF e
  <2>2. CASE ~ (balance < 0)
    <3> DEFINE r == [e EXCEPT !.pc = "acked"]
    <3>1. /\ r \in Events /\ r.pc = "acked"
          /\ r.type = e.type /\ r.bill = e.bill /\ r.sub = e.sub /\ r.ending = e.ending
      BY <1>1, <1>3, EventTypes DEF Events
    <3>2. events' = [events EXCEPT ![i] = r] /\ e.pc = "claimed" /\ overtaken' = overtaken
      BY <1>8, <2>2 DEF ReadDebt, On, Same, history, e
    <3> HIDE DEF r
    <3>. QED
      BY <3>1, <3>2 DEF e
  <2>. QED
    BY <2>1, <2>2
<1>9. CASE Reconcile(i)
  <2> DEFINE gap == Most(0, -(balance + invoiced))
             r == [e EXCEPT !.pc = IF gap > 0 THEN "reconciled" ELSE "gapBilled",
                            !.debt = gap, !.inv = invoiced]
  <2>1. gap \in Nat
    BY <1>2 DEF Most
  <2>2. /\ r \in Events /\ r.pc \in {"reconciled", "gapBilled"}
        /\ r.type = e.type /\ r.bill = e.bill /\ r.sub = e.sub /\ r.ending = e.ending
    BY <1>1, <1>2, <1>3, <2>1, EventTypes DEF Events, MidPcs
  <2>3. events' = [events EXCEPT ![i] = r] /\ e.pc = "claimed" /\ overtaken' = overtaken
    BY <1>9 DEF Reconcile, On, Same, history, e
  <2> HIDE DEF r
  <2>. QED
    BY <2>2, <2>3 DEF e
<1>10. CASE ReadSubscription(i)
  <2> DEFINE r == [e EXCEPT !.pc = "seen", !.old = since]
  <2>1. /\ r \in Events /\ r.pc = "seen" /\ r.old = since
        /\ r.type = e.type /\ r.bill = e.bill /\ r.sub = e.sub /\ r.ending = e.ending
    BY <1>1, <1>2, <1>3, EventTypes DEF Events, MidPcs
  <2>2. /\ events' = [events EXCEPT ![i] = r] /\ e.pc = "revoked"
        /\ overtaken' = overtaken /\ since' = since
    BY <1>10 DEF ReadSubscription, On, Same, history, row, e
  <2> HIDE DEF r
  <2>. QED
    BY <2>1, <2>2 DEF e
<1>11. CASE Throws(i)
  <2> DEFINE r == Event(e.type, e.bill, e.sub, e.ending)
  <2>1. /\ r \in Events /\ r.pc = "offered"
        /\ r.type = e.type /\ r.bill = e.bill /\ r.sub = e.sub /\ r.ending = e.ending
    BY <1>1, NewEventType DEF Events, Event
  <2>2. events' = [events EXCEPT ![i] = r] /\ e.pc \in MidPcs /\ overtaken' = overtaken
    BY <1>11 DEF Throws, history, MidPcs, e
  <2> HIDE DEF r
  <2>. QED
    BY <1>3, <2>1, <2>2 DEF e
<1>12. CASE \/ BillDebt(i) \/ BillGap(i) \/ Activate(i) \/ Grant(i) \/ Revoke(i)
           \/ Sync(i) \/ Drop(i) \/ Disallow(i)
  <2>1. /\ e.pc \in MidPcs /\ overtaken' = overtaken
        /\ \E p \in MidPcs \ {"seen"} : Goto(i, p)
    BY <1>12 DEF BillDebt, BillGap, Activate, Grant, Revoke, Sync, Drop, Disallow, On, Same,
                 history, MidPcs, e
  <2>. QED
    BY <1>6, <2>1
<1>13. CASE \/ Snapshot(i) \/ Reset(i) \/ MarkPastDue(i) \/ CleanUp(i) \/ Dies(i)
  <2>1. /\ e.pc \in MidPcs /\ overtaken' = overtaken
        /\ \E p \in Handled : Finish(i, p)
    BY <1>13 DEF Snapshot, Reset, MarkPastDue, CleanUp, Dies, On, Same, history, MidPcs,
                 Handled, e
  <2>. QED
    BY <1>7, <2>1
<1>. QED
  BY <1>5, <1>8, <1>9, <1>10, <1>11, <1>12, <1>13 DEF Handle

LEMMA FaultType ==
    ASSUME TypeOK, NEW k, Fault(k)
    PROVE  faults' \in 0 .. MaxFaults
  BY BillingAssumption DEF Fault, TypeOK

LEMMA HandlerType ==
    ASSUME TypeOK, NEW i \in DOMAIN events, Handle(i) \/ Throws(i) \/ Dies(i)
    PROVE  TypeOK'
<1>1. events' \in Seq(Events) /\ Len(events') <= MaxEvents
  <2>1. PICK r \in Events : events' = [events EXCEPT ![i] = r]
    BY OwnStep
  <2>2. events \in Seq(Events) /\ Len(events) <= MaxEvents
    BY DEF TypeOK
  <2>. QED
    BY <2>1, <2>2, EntryChanges
<1>2. sub' = sub /\ ending' = ending /\ bill' = bill /\ spent' = spent /\ request' = request
  BY DEF Handle, Throws, Dies, Claim, ReadDebt, BillDebt, Snapshot, Reconcile, BillGap,
         Activate, Grant, Reset, Revoke, ReadSubscription, MarkPastDue, Sync, Drop, Disallow, CleanUp,
         Same, stripe, credits
<1>3. /\ events[i] \in Events /\ i \in 1 .. MaxEvents /\ Plan \in Nat
      /\ events[i].debt \in Nat /\ events[i].inv \in Nat /\ events[i].old \in 0 .. MaxEvents
      /\ events[i].sub \in SubStates /\ events[i].ending \in BOOLEAN
  <2>1. events[i] \in Events /\ i \in 1 .. MaxEvents /\ Plan \in Nat
    BY BillingAssumption DEF TypeOK
  <2>. QED
    BY <2>1 DEF Events
<1>4. billed' \in Nat
  BY <1>3 DEF Handle, Throws, Dies, Claim, ReadDebt, BillDebt, Snapshot, Reconcile, BillGap,
         Activate, Grant, Reset, Revoke, ReadSubscription, MarkPastDue, Sync, Drop, Disallow, CleanUp,
         stripe, TypeOK
<1>5. balance' \in Int
  BY <1>3 DEF Handle, Throws, Dies, Claim, ReadDebt, BillDebt, Snapshot, Reconcile, BillGap,
         Activate, Grant, Reset, Revoke, ReadSubscription, MarkPastDue, Sync, Drop, Disallow, CleanUp,
         credits, TypeOK
<1>6. invoiced' \in Nat
  BY <1>3 DEF Handle, Throws, Dies, Claim, ReadDebt, BillDebt, Snapshot, Reconcile, BillGap,
         Activate, Grant, Reset, Revoke, ReadSubscription, MarkPastDue, Sync, Drop, Disallow, CleanUp,
         credits, TypeOK
<1>7. status' \in Statuses
  BY <1>3 DEF Handle, Throws, Dies, Claim, ReadDebt, BillDebt, Snapshot, Reconcile, BillGap,
         Activate, Grant, Reset, Revoke, ReadSubscription, MarkPastDue, Sync, Drop, Disallow, CleanUp,
         row, TypeOK, StatusOf, Statuses, SubStates
<1>8. since' \in 0 .. MaxEvents
  <2>1. 0 \in 0 .. MaxEvents /\ i \in 0 .. MaxEvents
    BY <1>3, BillingAssumption
  <2>. QED
    BY <1>3, <2>1 DEF Handle, Throws, Dies, Claim, ReadDebt, BillDebt, Snapshot, Reconcile,
         BillGap, Activate, Grant, Reset, Revoke, ReadSubscription, MarkPastDue, Sync, Drop,
         Disallow, CleanUp, row, TypeOK, Clock, Null
<1>9. cancels' \in BOOLEAN /\ overages' \in BOOLEAN
  BY <1>3 DEF Handle, Throws, Dies, Claim, ReadDebt, BillDebt, Snapshot, Reconcile, BillGap,
         Activate, Grant, Reset, Revoke, ReadSubscription, MarkPastDue, Sync, Drop, Disallow, CleanUp,
         row, TypeOK
<1>10. overtaken' \in BOOLEAN /\ raced' \in BOOLEAN /\ crossed' \in BOOLEAN
  BY DEF Handle, Throws, Dies, Claim, ReadDebt, BillDebt, Snapshot, Reconcile, BillGap,
         Activate, Grant, Reset, Revoke, ReadSubscription, MarkPastDue, Sync, Drop, Disallow, CleanUp,
         Same, history, TypeOK
<1>11. faults' \in 0 .. MaxFaults
  BY FaultType DEF Handle, Throws, Dies, Claim, ReadDebt, BillDebt, Snapshot, Reconcile,
         BillGap, Activate, Grant, Reset, Revoke, ReadSubscription, MarkPastDue, Sync, Drop,
         Disallow, CleanUp, Same, TypeOK
<1>. QED
  BY <1>1, <1>2, <1>4, <1>5, <1>6, <1>7, <1>8, <1>9, <1>10, <1>11 DEF TypeOK

LEMMA StripeType ==
    ASSUME TypeOK, (\E c \in Bills : Renew(c) \/ Collect(c) \/ Decline(c)) \/ End
    PROVE  TypeOK'
<1>1. events' \in Seq(Events) /\ Len(events') <= MaxEvents
  BY Emitted, EmitsType
<1>2. /\ sub \in SubStates /\ {"active", "past_due", "canceled"} \subseteq SubStates
      /\ {"draft", "open", "paid"} \subseteq BillStates
  BY DEF TypeOK, SubStates, BillStates
<1>3. bill' \in [Bills -> BillStates] /\ sub' \in SubStates
  BY <1>2 DEF Renew, Collect, Decline, End, TypeOK
<1>4. faults' \in 0 .. MaxFaults
  BY FaultType DEF Renew, Collect, Decline, End, TypeOK
<1>5. UNCHANGED <<ending, billed, Gateway>>
  BY DEF Renew, Collect, Decline, End
<1>. QED
  BY <1>1, <1>3, <1>4, <1>5 DEF TypeOK, Gateway, credits, row, history

LEMMA OrganisationType ==
    ASSUME TypeOK, Spend \/ ForbidOverages \/ \E r \in Requests : Request(r)
    PROVE  TypeOK'
<1>1. CASE Spend
  <2>1. balance' \in Int /\ spent' \in 0 .. MaxSpend
    BY <1>1, BillingAssumption DEF Spend, TypeOK
  <2>. QED
    BY <1>1, <2>1 DEF Spend, TypeOK, stripe, row, history
<1>2. CASE \E r \in Requests : CancelAtStripe(r) \/ ResumeAtStripe(r)
  <2>3. events' \in Seq(Events) /\ Len(events') <= MaxEvents
    BY <1>2, Emitted, EmitsType
  <2>2. ending' \in BOOLEAN
    BY <1>2 DEF CancelAtStripe, ResumeAtStripe
  <2>4. request' \in [Requests -> RequestPcs]
    BY <1>2 DEF CancelAtStripe, ResumeAtStripe, Asks, RequestPcs, TypeOK
  <2>5. crossed' \in BOOLEAN
    BY <1>2 DEF CancelAtStripe, ResumeAtStripe, Crosses, TypeOK
  <2>. QED
    BY <1>2, <2>2, <2>3, <2>4, <2>5 DEF CancelAtStripe, ResumeAtStripe, TypeOK, credits, row
<1>3. CASE \/ ForbidOverages
           \/ \E r \in Requests : \/ CheckToggle(r) \/ AllowOverages(r) \/ CancelRow(r)
                                 \/ CancelOverages(r) \/ ResumeRow(r)
  <2>1. request' \in [Requests -> RequestPcs]
    BY <1>3 DEF CheckToggle, AllowOverages, ForbidOverages, CancelRow, CancelOverages,
                ResumeRow, Asks, RequestPcs, TypeOK
  <2>2. /\ cancels' \in BOOLEAN /\ overages' \in BOOLEAN
        /\ overtaken' \in BOOLEAN /\ crossed' \in BOOLEAN
    BY <1>3 DEF CheckToggle, AllowOverages, ForbidOverages, CancelRow, CancelOverages,
                ResumeRow, TypeOK, row, history
  <2>3. raced' \in BOOLEAN
    <3>1. CASE \E r \in Requests : AllowOverages(r)
      BY <3>1 DEF AllowOverages
    <3>2. CASE ~ \E r \in Requests : AllowOverages(r)
      BY <1>3, <3>2 DEF CheckToggle, ForbidOverages, CancelRow, CancelOverages,
                ResumeRow, TypeOK, history
    <3>. QED
      BY <3>1, <3>2
  <2>4. /\ UNCHANGED <<stripe, events, credits, status, since, faults>>
    BY <1>3 DEF CheckToggle, AllowOverages, ForbidOverages, CancelRow, CancelOverages,
                ResumeRow, row
  <2>. QED
    BY <2>1, <2>2, <2>3, <2>4 DEF TypeOK, stripe, credits
<1>. QED
  BY <1>1, <1>2, <1>3 DEF Request

(* Every reachable state is well typed: in particular what is billed, noted as
   invoiced or found as a gap is never negative, and the clock of the grace was set
   by an event that exists. *)
THEOREM TypeCorrect == Spec => []TypeOK
<1>1. Init => TypeOK
  <2>1. <<>> \in Seq(Events) /\ Len(<<>>) = 0
    OBVIOUS
  <2>2. Init => /\ sub \in SubStates /\ bill \in [Bills -> BillStates]
                /\ status \in Statuses /\ request \in [Requests -> RequestPcs]
    BY DEF Init, SubStates, BillStates, Statuses, RequestPcs
  <2>3. Init => /\ billed \in Nat /\ balance \in Int /\ invoiced \in Nat
                /\ since \in 0 .. MaxEvents /\ spent \in 0 .. MaxSpend
                /\ faults \in 0 .. MaxFaults
    BY BillingAssumption DEF Init, Null
  <2>4. Init => /\ ending \in BOOLEAN /\ cancels \in BOOLEAN /\ overages \in BOOLEAN
                /\ overtaken \in BOOLEAN /\ raced \in BOOLEAN /\ crossed \in BOOLEAN
    BY Zenon DEF Init
  <2>5. Init => events \in Seq(Events) /\ Len(events) <= MaxEvents
    BY <2>1, BillingAssumption DEF Init
  <2>. QED
    BY <2>2, <2>3, <2>4, <2>5 DEF TypeOK
<1>2. TypeOK /\ [Next]_vars => TypeOK'
  <2> SUFFICES ASSUME TypeOK, [Next]_vars PROVE TypeOK'
    OBVIOUS
  <2>1. CASE UNCHANGED vars
    BY <2>1 DEF TypeOK, vars, stripe, credits, row, history
  <2>2. CASE Next
    BY <2>2, HandlerType, StripeType, OrganisationType DEF Next
  <2>. QED
    BY <2>1, <2>2
<1>. QED
  BY <1>1, <1>2, PTL DEF Spec

--------------------------------------------------------------------------------
(* While events are taken up in order, all before one that is taken up are done:
   the handlers exclude each other.  And what a handler has read of the clock is
   what the row says. *)
InOrder ==
    \A i \in DOMAIN events : events[i].pc # "offered" =>
        \A j \in DOMAIN events : j < i => events[j].pc = "acked"

SeenIsSince == \A i \in DOMAIN events : events[i].pc = "seen" => events[i].old = since

GraceInv == ~ overtaken => InOrder /\ SeenIsSince

(* Only a handler touches the row's clock. *)
LEMMA ClockKeepers ==
    ASSUME NEW i \in DOMAIN events, Handle(i) \/ Throws(i) \/ Dies(i), since' # since
    PROVE  Activate(i) \/ Sync(i) \/ MarkPastDue(i)
  BY DEF Handle, Throws, Dies, Claim, ReadDebt, BillDebt, Snapshot, Reconcile, BillGap,
         Grant, Reset, Revoke, ReadSubscription, Drop, Disallow, CleanUp, row

(* While events are taken up in order, a handler at work has only done events before
   its own and only events on offer after it. *)
LEMMA HandlerOrder ==
    ASSUME TypeOK, GraceInv, NEW i \in DOMAIN events, Handle(i) \/ Throws(i) \/ Dies(i),
           ~ overtaken'
    PROVE  /\ ~ overtaken
           /\ \A j \in DOMAIN events : j < i => events[j].pc = "acked"
           /\ \A k \in DOMAIN events : i < k => events[k].pc = "offered"
           /\ \A j \in DOMAIN events : j # i => j < i \/ i < j
<1>1. /\ Claim(i) \/ (events[i].pc # "offered" /\ overtaken' = overtaken)
      /\ events[i].pc # "acked"
  BY OwnStep
<1>2. events \in Seq(Events) /\ DOMAIN events \subseteq Nat
  BY DEF TypeOK
<1>3. Claim(i) => ~ overtaken /\ ~ \E j \in 1 .. i - 1 : events[j].pc # "acked"
  BY Zenon DEF Claim
<1>4. ~ overtaken
  BY <1>1, <1>3, Zenon
<1>5. InOrder
  BY <1>4 DEF GraceInv
<1>6. \A j \in DOMAIN events : j < i => events[j].pc = "acked"
  <2>1. CASE Claim(i)
    <3>1. \A j \in DOMAIN events : j < i => j \in 1 .. i - 1
      BY <1>2
    <3>. QED
      BY <1>3, <2>1, <3>1
  <2>2. CASE events[i].pc # "offered"
    BY <1>5, <2>2 DEF InOrder
  <2>. QED
    BY <1>1, <2>1, <2>2
<1>7. \A k \in DOMAIN events : i < k => events[k].pc = "offered"
  BY <1>1, <1>5 DEF InOrder
<1>. QED
  BY <1>2, <1>4, <1>6, <1>7

LEMMA HandlerGrace ==
    ASSUME TypeOK, GraceInv, NEW i \in DOMAIN events, Handle(i) \/ Throws(i) \/ Dies(i)
    PROVE  GraceInv'
<1> SUFFICES ASSUME ~ overtaken' PROVE InOrder' /\ SeenIsSince'
  BY DEF GraceInv
<1>1. PICK r \in Events :
              /\ events' = [events EXCEPT ![i] = r]
              /\ r.pc = "seen" => r.old = since /\ since' = since
  BY OwnStep
<1>2. events \in Seq(Events) /\ DOMAIN events \subseteq Nat
  BY DEF TypeOK
<1>3. /\ DOMAIN events' = DOMAIN events /\ events'[i] = r
      /\ \A j \in DOMAIN events \ {i} : events'[j] = events[j]
  BY <1>1, <1>2, EntryChanges
<1>4. /\ \A j \in DOMAIN events : j < i => events[j].pc = "acked"
      /\ \A k \in DOMAIN events : i < k => events[k].pc = "offered"
      /\ \A j \in DOMAIN events : j # i => j < i \/ i < j
  BY HandlerOrder
<1>5. InOrder'
  <2> SUFFICES ASSUME NEW k \in DOMAIN events, events'[k].pc # "offered",
                      NEW j \in DOMAIN events, j < k
               PROVE  events'[j].pc = "acked"
    BY <1>3 DEF InOrder
  <2>1. k = i \/ k < i
    BY <1>3, <1>4
  <2>2. j < i /\ j # i
    BY <1>2, <2>1
  <2>. QED
    BY <1>3, <1>4, <2>2
<1>6. SeenIsSince'
  <2> SUFFICES ASSUME NEW k \in DOMAIN events, events'[k].pc = "seen"
               PROVE  events'[k].old = since'
    BY <1>3 DEF SeenIsSince
  <2>1. k = i
    BY <1>3, <1>4
  <2>. QED
    BY <1>1, <1>3, <2>1
<1>. QED
  BY <1>5, <1>6

(* What Stripe emits is on offer; nobody else touches events, clock or order. *)
LEMMA StripeGrace ==
    ASSUME TypeOK, GraceInv, NEW es \in Seq(Events), Emits(es),
           \A k \in DOMAIN es : es[k].pc = "offered",
           since' = since, overtaken' = overtaken
    PROVE  GraceInv'
<1>1. /\ DOMAIN events \subseteq DOMAIN events'
      /\ \A j \in DOMAIN events : events'[j] = events[j]
      /\ \A j \in DOMAIN events' \ DOMAIN events : events'[j].pc = "offered"
  BY EmitsType
<1>2. \A i \in DOMAIN events : \A j \in DOMAIN events' : j < i => j \in DOMAIN events
  <2>1. events \in Seq(Events) /\ events' \in Seq(Events)
    BY EmitsType DEF TypeOK
  <2>. QED
    BY <2>1
<1>. QED
  BY <1>1, <1>2 DEF GraceInv, InOrder, SeenIsSince

LEMMA GraceHolds == Spec => [](TypeOK /\ GraceInv)
<1>1. Init => GraceInv
  BY DEF Init, GraceInv, InOrder, SeenIsSince
<1>2. TypeOK /\ GraceInv /\ [Next]_vars => GraceInv'
  <2> SUFFICES ASSUME TypeOK, GraceInv, [Next]_vars PROVE GraceInv'
    OBVIOUS
  <2>1. CASE UNCHANGED <<events, since, overtaken>>
    BY <2>1 DEF GraceInv, InOrder, SeenIsSince
  <2>2. CASE UNCHANGED vars
    BY <2>1, <2>2 DEF vars, row, history
  <2>3. CASE \E i \in DOMAIN events : Handle(i) \/ Throws(i) \/ Dies(i)
    BY <2>3, HandlerGrace
  <2>4. CASE (\E c \in Bills : Renew(c) \/ Collect(c) \/ Decline(c)) \/ End
                \/ \E r \in Requests : CancelAtStripe(r) \/ ResumeAtStripe(r)
    <3>1. since' = since /\ overtaken' = overtaken
      BY <2>4 DEF Renew, Collect, Decline, End, CancelAtStripe, ResumeAtStripe, Gateway,
                  row, history
    <3>2. PICK es \in Seq(Events) : Emits(es) /\ \A k \in DOMAIN es : es[k].pc = "offered"
      BY <2>4, Emitted
    <3>. QED
      BY <3>1, <3>2, StripeGrace
  <2>5. CASE \/ Spend \/ ForbidOverages
             \/ \E r \in Requests : \/ CheckToggle(r) \/ AllowOverages(r) \/ CancelRow(r)
                                   \/ CancelOverages(r) \/ ResumeRow(r)
    BY <2>1, <2>5 DEF Spend, CheckToggle, AllowOverages, ForbidOverages, CancelRow,
                      CancelOverages, ResumeRow, row, history
  <2>. QED
    BY <2>2, <2>3, <2>4, <2>5 DEF Next, Request
<1>. QED
  BY <1>1, <1>2, TypeCorrect, PTL DEF Spec

(* Events handled in order never restart the grace: the clock of an organisation that
   stays past due is the one set at its first failure, however often the charge is
   declined, handlers fail and events are repeated. *)
THEOREM GraceIsNotExtended == Spec => GraceRunsOut
<1>1. TypeOK /\ GraceInv /\ [Next]_vars =>
          [since # Null /\ since' # since /\ ~ overtaken' => status' # "PAST_DUE"]_vars
  <2> SUFFICES ASSUME TypeOK, GraceInv, Next, since # Null, since' # since, ~ overtaken',
                      status' = "PAST_DUE"
               PROVE  FALSE
    BY DEF vars, row
  <2>1. PICK i \in DOMAIN events : Handle(i) \/ Throws(i) \/ Dies(i)
    BY DEF Next, Renew, Collect, Decline, End, Spend, Request, CheckToggle, AllowOverages,
           ForbidOverages, CancelAtStripe, CancelRow, CancelOverages, ResumeAtStripe,
           ResumeRow, Gateway, row
  <2>2. CASE Activate(i)
    BY <2>2 DEF Activate
  <2>3. CASE Sync(i)
    BY <2>3 DEF Sync, StatusOf
  <2>4. CASE MarkPastDue(i)
    <3>1. ~ overtaken /\ events[i].old = since
      BY <2>4 DEF MarkPastDue, On, Same, history, GraceInv, SeenIsSince
    <3>. QED
      BY <2>4, <3>1 DEF MarkPastDue, Clock
  <2>. QED
    BY <2>1, <2>2, <2>3, <2>4, ClockKeepers
<1>. QED
  BY <1>1, GraceHolds, PTL DEF Spec, GraceRunsOut

--------------------------------------------------------------------------------
(* The credits add up: what Reconciled says once every event is handled, from   *)
(* what each event in progress still owes.                                      *)

(* Invoices are collected one after the other, and repeated handlers add nothing. *)
Careful == Faults \cap {"carry", "partial"} = {}

Alive == \A i \in DOMAIN events : events[i].pc # "dead"

Due(c) == bill[c] \in {"draft", "open"}

(* Events that move credits and are not done. *)
Pending(i) == events[i].type \in {"created", "paid"} /\ events[i].pc # "acked"
NothingPending == \A i \in DOMAIN events : ~ Pending(i)

Granted == Plan * Cardinality(Paid)

(* Credits granted and billed, less those spent and those on the account. *)
Net == Granted + billed - spent - balance

(* What an event in progress still owes. *)
Owes(e) ==
    /\ e.type = "created" =>
          /\ e.pc \in {"offered", "claimed", "debt", "billed"}
          /\ invoiced = 0
          /\ Net = IF e.pc = "billed" THEN e.debt ELSE 0
    /\ e.type = "paid" =>
          /\ e.pc \in {"offered", "claimed", "reconciled", "gapBilled", "active", "granted"}
          /\ e.pc \in {"offered", "claimed", "reconciled"} => Net = invoiced + Plan
          /\ e.pc \in {"gapBilled", "active"} => Net = invoiced + Plan + e.debt
          /\ e.pc \in {"reconciled", "gapBilled", "active"} => e.inv = invoiced
          /\ e.pc = "granted" => Net = 0

(* One invoice at a time is due, and one event about it is in progress. *)
OneDue ==
    \A b \in Bills : bill[b] # "none" => \A a \in Bills : a < b => bill[a] = "paid"
OnePending ==
    \A i, j \in DOMAIN events : Pending(i) /\ Pending(j) => i = j
PendingOfDue ==
    \A i \in DOMAIN events : Pending(i) =>
        /\ events[i].type = "created" => events[i].bill \in Bills /\ bill[events[i].bill] = "draft"
        /\ events[i].type = "paid" => \A c \in Bills : ~ Due(c)
PendingOwes ==
    \A i \in DOMAIN events : Pending(i) => Owes(events[i])
NothingOwed ==
    NothingPending => Net = invoiced /\ ((\A c \in Bills : ~ Due(c)) => invoiced = 0)

Books == OnePending /\ PendingOfDue /\ PendingOwes /\ NothingOwed
BooksInv == OneDue /\ (Alive => Books)

--------------------------------------------------------------------------------
LEMMA GrantedType ==
    ASSUME TypeOK
    PROVE  /\ IsFiniteSet(Paid) /\ Cardinality(Paid) \in Nat
           /\ Granted \in Nat /\ Net \in Int
<1>1. IsFiniteSet(Bills)
  BY BillingAssumption, FS_Interval DEF Bills
<1>2. IsFiniteSet(Paid) /\ Cardinality(Paid) \in Nat
  BY <1>1, FS_Subset, FS_CardinalityType DEF Paid
<1>3. Granted \in Nat
  BY <1>2, BillingAssumption DEF Granted
<1>. QED
  BY <1>2, <1>3 DEF Net, TypeOK

(* A collected invoice grants the plan's credits. *)
LEMMA PaidGrows ==
    ASSUME TypeOK, NEW c \in Bills, bill[c] # "paid", bill' = [bill EXCEPT ![c] = "paid"]
    PROVE  Granted' = Granted + Plan
<1>1. Paid' = Paid \cup {c} /\ c \notin Paid
  BY DEF Paid, TypeOK
<1>2. Cardinality(Paid') = Cardinality(Paid) + 1
  BY <1>1, GrantedType, FS_AddElement
<1>3. \A n \in Nat : Plan * (n + 1) = Plan * n + Plan
  BY BillingAssumption
<1>. QED
  BY <1>2, <1>3, GrantedType DEF Granted

LEMMA PaidStays ==
    ASSUME TypeOK, bill' = bill \/ \E c \in Bills, b \in BillStates \ {"paid"} :
                                      bill[c] # "paid" /\ bill' = [bill EXCEPT ![c] = b]
    PROVE  Granted' = Granted
<1>1. Paid' = Paid
  BY DEF Paid, TypeOK
<1>. QED
  BY <1>1 DEF Granted

LEMMA DueIsUnique ==
    ASSUME OneDue, NEW b \in Bills, NEW c \in Bills, Due(b), Due(c)
    PROVE  b = c
<1>1. b < c \/ b = c \/ c < b
  BY BillingAssumption DEF Bills
<1>. QED
  BY <1>1 DEF OneDue, Due

(* Before an invoice is collected or declined, what was due to its events is done. *)
LEMMA PayableIsQuiet ==
    ASSUME TypeOK, BooksInv, Alive, NEW c \in Bills, Payable(c)
    PROVE  NothingPending
<1> SUFFICES ASSUME NEW i \in DOMAIN events, Pending(i) PROVE FALSE
  BY DEF NothingPending
<1>1. Due(c)
  BY DEF Payable, Due
<1>2. events[i].type = "created" /\ events[i].bill = c /\ bill[c] = "draft"
  <2>1. events[i].type = "created"
    BY <1>1 DEF BooksInv, Books, PendingOfDue, Pending
  <2>2. events[i].bill \in Bills /\ bill[events[i].bill] = "draft"
    BY <2>1 DEF BooksInv, Books, PendingOfDue
  <2>. QED
    BY <1>1, <2>1, <2>2, DueIsUnique DEF BooksInv, Due
<1>. QED
  BY <1>2 DEF Payable, Handled, Pending, Alive

(* Each step of a handler of the money's events pays what it no longer owes. *)
LEMMA MoneyStep ==
    ASSUME TypeOK, Careful, NEW i \in DOMAIN events, Pending(i), Owes(events[i]),
           Handle(i) \/ Throws(i), Granted' = Granted
    PROVE  IF events'[i].pc = "acked"
           THEN Net' = invoiced' /\ (events[i].type = "paid" => invoiced' = 0)
           ELSE Owes(events[i])'
<1> DEFINE e == events[i]
           Settled == IF events'[i].pc = "acked"
                      THEN Net' = invoiced' /\ (events[i].type = "paid" => invoiced' = 0)
                      ELSE Owes(events[i])'
<1>1. /\ e \in Events /\ e.debt \in Nat /\ e.inv \in Nat
      /\ e.type \in {"created", "paid"}
      /\ Granted \in Nat /\ billed \in Nat /\ spent \in Nat
      /\ balance \in Int /\ invoiced \in Nat /\ Plan \in Nat
  <2>1. e \in Events
    BY DEF TypeOK
  <2>3. e.debt \in Nat /\ e.inv \in Nat
    BY <2>1 DEF Events
  <2>2. spent \in Nat /\ Plan \in Nat
    BY BillingAssumption DEF TypeOK
  <2>. QED
    BY <2>1, <2>2, <2>3, GrantedType DEF TypeOK, Pending
<1>2. ASSUME NEW r, events' = [events EXCEPT ![i] = r] PROVE events'[i] = r
  BY <1>2 DEF TypeOK
<1>3. UNCHANGED <<Granted, spent>>
  BY DEF Handle, Throws, Claim, ReadDebt, BillDebt, Snapshot, Reconcile, BillGap, Activate,
         Grant, Reset, Revoke, ReadSubscription, MarkPastDue, Sync, Drop, Disallow, CleanUp, credits
<1>4. Owes(e)
  OBVIOUS
<1> HIDE DEF e
<1>5. CASE Claim(i)
  <2>1. events'[i] = [e EXCEPT !.pc = "claimed"] /\ e.pc = "offered"
    BY <1>2, <1>5 DEF Claim, Goto, e
  <2>2. UNCHANGED <<billed, balance, invoiced>>
    BY <1>5 DEF Claim, stripe, credits
  <2>. QED
    BY <1>1, <1>3, <1>4, <2>1, <2>2 DEF Owes, Net, Events
<1>6. CASE ReadDebt(i)
  <2>1. /\ events'[i] = IF balance < 0 THEN [e EXCEPT !.pc = "debt", !.debt = -balance]
                                       ELSE [e EXCEPT !.pc = "acked"]
        /\ e.pc = "claimed" /\ e.type = "created"
    BY <1>2, <1>6 DEF ReadDebt, On, e
  <2>2. UNCHANGED <<billed, balance, invoiced>>
    BY <1>6 DEF ReadDebt, stripe, credits
  <2>. QED
    BY <1>1, <1>3, <1>4, <2>1, <2>2 DEF Owes, Net, Events, e
<1>7. CASE BillDebt(i)
  <2>1. events'[i] = [e EXCEPT !.pc = "billed"] /\ e.pc = "debt" /\ e.type = "created"
    BY <1>2, <1>7 DEF BillDebt, On, Goto, e
  <2>2. billed' = billed + e.debt /\ UNCHANGED <<balance, invoiced>>
    BY <1>7 DEF BillDebt, credits, e
  <2>. QED
    BY <1>1, <1>3, <1>4, <2>1, <2>2 DEF Owes, Net, Events, e
<1>8. CASE Snapshot(i)
  <2>1. /\ events'[i] = [e EXCEPT !.pc = "acked", !.debt = 0, !.inv = 0, !.old = Null]
        /\ e.pc = "billed" /\ e.type = "created"
    BY <1>2, <1>8 DEF Snapshot, On, Finish, e
  <2>2. invoiced' = e.debt /\ UNCHANGED <<billed, balance>>
    BY <1>8 DEF Snapshot, stripe, e
  <2>. QED
    BY <1>1, <1>3, <1>4, <2>1, <2>2 DEF Owes, Net, Events, e
<1>9. CASE Reconcile(i)
  <2> DEFINE gap == Most(0, -(balance + invoiced))
  <2>1. /\ events'[i] = [e EXCEPT !.pc = IF gap > 0 THEN "reconciled" ELSE "gapBilled",
                                  !.debt = gap, !.inv = invoiced]
        /\ e.pc = "claimed" /\ e.type = "paid"
    BY <1>2, <1>9 DEF Reconcile, On, e
  <2>2. UNCHANGED <<billed, balance, invoiced>>
    BY <1>9 DEF Reconcile, stripe, credits
  <2>3. gap \in Nat
    BY <1>1 DEF Most
  <2> HIDE DEF gap
  <2>. QED
    BY <1>1, <1>3, <1>4, <2>1, <2>2, <2>3 DEF Owes, Net, Events, e
<1>10. CASE BillGap(i)
  <2>1. events'[i] = [e EXCEPT !.pc = "gapBilled"] /\ e.pc = "reconciled" /\ e.type = "paid"
    BY <1>2, <1>10 DEF BillGap, On, Goto, e
  <2>2. billed' = billed + e.debt /\ UNCHANGED <<balance, invoiced>>
    BY <1>10 DEF BillGap, credits, e
  <2>. QED
    BY <1>1, <1>3, <1>4, <2>1, <2>2 DEF Owes, Net, Events, e
<1>11. CASE Activate(i)
  <2>1. events'[i] = [e EXCEPT !.pc = "active"] /\ e.pc = "gapBilled" /\ e.type = "paid"
    BY <1>2, <1>11 DEF Activate, On, Goto, e
  <2>2. UNCHANGED <<billed, balance, invoiced>>
    BY <1>11 DEF Activate, stripe, credits
  <2>. QED
    BY <1>1, <1>3, <1>4, <2>1, <2>2 DEF Owes, Net, Events, e
<1>12. CASE Grant(i)
  <2>1. events'[i] = [e EXCEPT !.pc = "granted"] /\ e.pc = "active" /\ e.type = "paid"
    BY <1>2, <1>12 DEF Grant, On, Goto, e
  <2>2. balance' = balance + Plan + e.inv + e.debt /\ UNCHANGED <<billed, invoiced>>
    BY <1>12 DEF Grant, stripe, e
  <2>. QED
    BY <1>1, <1>3, <1>4, <2>1, <2>2 DEF Owes, Net, Events, e
<1>13. CASE Reset(i)
  <2>1. /\ events'[i] = [e EXCEPT !.pc = "acked", !.debt = 0, !.inv = 0, !.old = Null]
        /\ e.pc = "granted" /\ e.type = "paid"
    BY <1>2, <1>13 DEF Reset, On, Finish, e
  <2>2. invoiced' = 0 /\ UNCHANGED <<billed, balance>>
    BY <1>13 DEF Reset, stripe, e
  <2>. QED
    BY <1>1, <1>3, <1>4, <2>1, <2>2 DEF Owes, Net, Events, e
<1>14. CASE Throws(i)
  <2>1. events'[i] = Event(e.type, e.bill, e.sub, e.ending)
    BY <1>2, <1>14 DEF Throws, e
  <2>2. \/ e.pc \in {"claimed", "debt", "reconciled", "revoked", "seen", "limits",
                     "cleaning"}
        \/ e.pc \in {"gapBilled", "active"} /\ e.debt = 0
    BY <1>14 DEF Throws, Careful, e
  <2>3. UNCHANGED <<billed, balance, invoiced>>
    BY <1>14 DEF Throws, stripe, credits
  <2>4. Net' = Net
    BY <1>3, <2>3 DEF Net
  <2>. QED
    BY <1>1, <1>4, <2>1, <2>2, <2>3, <2>4 DEF Owes, Event, e
<1>15. CASE Revoke(i) \/ ReadSubscription(i) \/ MarkPastDue(i) \/ Sync(i) \/ Drop(i)
  BY <1>1, <1>15 DEF Revoke, ReadSubscription, MarkPastDue, Sync, Drop, On, e
<1>16. CASE Disallow(i) \/ CleanUp(i)
  BY <1>1, <1>4, <1>16 DEF Disallow, CleanUp, Owes, e
<1>. QED
  BY <1>5, <1>6, <1>7, <1>8, <1>9, <1>10, <1>11, <1>12, <1>13, <1>14, <1>15, <1>16 DEF Handle

(* Whoever moves no credits and no bill owes what was owed. *)
LEMMA OwesStays ==
    ASSUME UNCHANGED <<Granted, billed, spent, balance, invoiced>>, NEW j, events'[j] = events[j]
    PROVE  /\ Net' = Net
           /\ Owes(events[j]) => Owes(events[j])'
<1>1. Net' = Net
  BY DEF Net
<1>. QED
  BY <1>1 DEF Owes

LEMMA HandlerBooks ==
    ASSUME TypeOK, Careful, BooksInv, NEW i \in DOMAIN events, Handle(i) \/ Throws(i) \/ Dies(i)
    PROVE  BooksInv'
<1>1. PICK r \in Events : /\ events' = [events EXCEPT ![i] = r]
                          /\ events[i].pc # "acked"
                          /\ r.type = events[i].type /\ r.bill = events[i].bill
  BY OwnStep
<1>2. /\ DOMAIN events' = DOMAIN events /\ events'[i] = r
      /\ \A j \in DOMAIN events \ {i} : events'[j] = events[j]
  BY <1>1, EntryChanges DEF TypeOK
<1>3. bill' = bill /\ spent' = spent
  BY DEF Handle, Throws, Dies, Claim, ReadDebt, BillDebt, Snapshot, Reconcile, BillGap,
         Activate, Grant, Reset, Revoke, ReadSubscription, MarkPastDue, Sync, Drop, Disallow, CleanUp,
         stripe, credits
<1>4. Granted' = Granted
  BY <1>3, PaidStays
<1>5. OneDue'
  BY <1>3 DEF BooksInv, OneDue
<1> SUFFICES ASSUME Alive' PROVE Books'
  BY <1>5 DEF BooksInv
<1>6. Handle(i) \/ Throws(i)
  <2>1. Dies(i) => r = [events[i] EXCEPT !.pc = "dead", !.debt = 0, !.inv = 0, !.old = Null]
    BY <1>2, EntryChanges DEF Dies, Finish, TypeOK
  <2>2. events[i] \in Events
    BY DEF TypeOK
  <2>3. Dies(i) => r.pc = "dead"
    BY <2>1, <2>2 DEF Events
  <2>. QED
    BY <1>2, <2>3 DEF Alive
<1>7. events[i].pc # "dead"
  BY <1>6 DEF Handle, Throws, Claim, ReadDebt, BillDebt, Snapshot, Reconcile, BillGap,
         Activate, Grant, Reset, Revoke, ReadSubscription, MarkPastDue, Sync, Drop, Disallow, CleanUp,
         On, MidPcs
<1>8. Books
  <2>1. Alive
    BY <1>2, <1>7 DEF Alive
  <2>. QED
    BY <2>1 DEF BooksInv
<1>9. \A j \in DOMAIN events : Pending(j)' => Pending(j)
  BY <1>1, <1>2 DEF Pending
<1>10. OnePending'
  BY <1>2, <1>8, <1>9 DEF Books, OnePending
<1>11. PendingOfDue'
  <2> SUFFICES ASSUME NEW j \in DOMAIN events, Pending(j)'
               PROVE  /\ events'[j].type = "created" =>
                            events'[j].bill \in Bills /\ bill[events'[j].bill] = "draft"
                      /\ events'[j].type = "paid" => \A c \in Bills : ~ Due(c)
    BY <1>2, <1>3 DEF PendingOfDue, Due
  <2>1. Pending(j) /\ events'[j].type = events[j].type /\ events'[j].bill = events[j].bill
    BY <1>1, <1>2, <1>9
  <2>. QED
    BY <1>8, <2>1 DEF Books, PendingOfDue
<1>12. CASE Pending(i)
  <2>1. Owes(events[i])
    BY <1>8, <1>12 DEF Books, PendingOwes
  <2>2. IF r.pc = "acked" THEN Net' = invoiced' /\ (events[i].type = "paid" => invoiced' = 0)
                          ELSE Owes(events[i])'
    BY <1>2, <1>4, <1>6, <1>12, <2>1, MoneyStep
  <2>3. PendingOwes'
    <3> SUFFICES ASSUME NEW j \in DOMAIN events, Pending(j)' PROVE Owes(events[j])'
      BY <1>2 DEF PendingOwes
    <3>1. j = i
      BY <1>8, <1>9, <1>12 DEF Books, OnePending
    <3>2. r.pc # "acked"
      BY <1>2, <3>1 DEF Pending
    <3>. QED
      BY <2>2, <3>1, <3>2
  <2>4. NothingOwed'
    <3> SUFFICES ASSUME NothingPending'
                 PROVE  Net' = invoiced' /\ ((\A c \in Bills : ~ Due(c)) => invoiced' = 0)
      BY <1>3 DEF NothingOwed, Due
    <3>1. r.pc = "acked"
      BY <1>1, <1>2, <1>12 DEF NothingPending, Pending
    <3>2. events[i].type = "created" => \E c \in Bills : Due(c)
      BY <1>8, <1>12 DEF Books, PendingOfDue, Due
    <3>. QED
      BY <1>12, <2>2, <3>1, <3>2 DEF Pending
  <2>. QED
    BY <1>10, <1>11, <2>3, <2>4 DEF Books
<1>13. CASE ~ Pending(i)
  <2>1. events[i].type \notin {"created", "paid"}
    BY <1>1, <1>13 DEF Pending
  <2>2. UNCHANGED <<Granted, billed, spent, balance, invoiced>>
    BY <1>3, <1>4, <1>6, <2>1 DEF Handle, Throws, Claim, ReadDebt, BillDebt, Snapshot,
         Reconcile, BillGap, Activate, Grant, Reset, Revoke, ReadSubscription, MarkPastDue,
         Sync, Drop, Disallow, CleanUp, On, stripe, credits
  <2>3. PendingOwes'
    <3> SUFFICES ASSUME NEW j \in DOMAIN events, Pending(j)' PROVE Owes(events[j])'
      BY <1>2 DEF PendingOwes
    <3>1. Pending(j) /\ j # i
      BY <1>9, <1>13
    <3>2. Owes(events[j]) /\ events'[j] = events[j]
      BY <1>2, <1>8, <3>1 DEF Books, PendingOwes
    <3>. QED
      BY <2>2, <3>2, OwesStays
  <2>4. NothingOwed'
    <3>1. NothingPending' => NothingPending
      BY <1>2, <1>13 DEF NothingPending, Pending
    <3>2. Net' = Net
      BY <2>2 DEF Net
    <3>. QED
      BY <1>3, <1>8, <2>2, <3>1, <3>2 DEF Books, NothingOwed, Due
  <2>. QED
    BY <1>10, <1>11, <2>3, <2>4 DEF Books
<1>. QED
  BY <1>12, <1>13

--------------------------------------------------------------------------------
(* Emitting an event leaves those before it as they are. *)
LEMMA EmittedPending ==
    ASSUME TypeOK, NEW es \in Seq(Events), Emits(es)
    PROVE  /\ Alive' => Alive
           /\ \A j \in DOMAIN events : Pending(j)' <=> Pending(j)
           /\ \A j \in DOMAIN events' \ DOMAIN events : Pending(j)' =>
                  \E k \in DOMAIN es : /\ j = Len(events) + k /\ events'[j] = es[k]
                                       /\ es[k].type \in {"created", "paid"}
<1>1. /\ DOMAIN events \subseteq DOMAIN events'
      /\ \A j \in DOMAIN events : events'[j] = events[j]
      /\ \A j \in DOMAIN events' \ DOMAIN events :
            j - Len(events) \in DOMAIN es /\ events'[j] = es[j - Len(events)]
      /\ DOMAIN events' \subseteq Nat /\ Len(events) \in Nat
  <2>1. events \in Seq(Events) /\ events' \in Seq(Events)
    BY EmitsType DEF TypeOK
  <2>. QED
    BY <2>1, EmitsType
<1>2. \A j \in DOMAIN events' \ DOMAIN events : j = Len(events) + (j - Len(events))
  BY <1>1
<1>3. ASSUME NEW j \in DOMAIN events' \ DOMAIN events, Pending(j)'
      PROVE  \E k \in DOMAIN es : /\ j = Len(events) + k /\ events'[j] = es[k]
                                  /\ es[k].type \in {"created", "paid"}
  <2> DEFINE k == j - Len(events)
  <2>1. k \in DOMAIN es /\ events'[j] = es[k] /\ j = Len(events) + k
    BY <1>1, <1>2
  <2>2. events'[j].type \in {"created", "paid"}
    BY <1>3 DEF Pending
  <2> HIDE DEF k
  <2>. QED
    BY <2>1, <2>2
<1>. QED
  BY <1>1, <1>3 DEF Alive, Pending

(* Events that are not about an invoice. *)
LEMMA SubscriptionBooks ==
    ASSUME TypeOK, BooksInv, End \/ \E r \in Requests : CancelAtStripe(r) \/ ResumeAtStripe(r)
    PROVE  BooksInv'
<1>1. PICK s \in SubStates, b \in BOOLEAN, t \in {"updated", "deleted"} :
          Emits(<<Event(t, 0, s, b)>>)
  BY DEF End, CancelAtStripe, ResumeAtStripe, TypeOK, SubStates
<1>2. UNCHANGED <<bill, billed, balance, invoiced, spent>>
  BY DEF End, CancelAtStripe, ResumeAtStripe, Gateway, credits
<1> DEFINE es == <<Event(t, 0, s, b)>>
<1>3. /\ es \in Seq(Events) /\ DOMAIN es = {1}
      /\ es[1].type \notin {"created", "paid"}
  <2>1. Event(t, 0, s, b) \in Events
    BY NewEventType, BillingAssumption
  <2>. QED
    BY <2>1 DEF Event
<1>4. Emits(es)
  BY <1>1
<1> HIDE DEF es
<1>5. /\ Alive' => Alive
      /\ \A j \in DOMAIN events : Pending(j)' <=> Pending(j)
      /\ \A j \in DOMAIN events' : Pending(j)' => j \in DOMAIN events
      /\ DOMAIN events \subseteq DOMAIN events'
      /\ \A j \in DOMAIN events : events'[j] = events[j]
  BY <1>3, <1>4, EmittedPending, EmitsType
<1>6. Granted' = Granted
  BY <1>2, PaidStays
<1>7. OneDue'
  BY <1>2 DEF BooksInv, OneDue
<1> SUFFICES ASSUME Books PROVE Books'
  BY <1>5, <1>7 DEF BooksInv
<1>8. OnePending'
  BY <1>5 DEF Books, OnePending
<1>9. PendingOfDue'
  BY <1>2, <1>5 DEF Books, PendingOfDue, Due
<1>10. PendingOwes'
  <2> SUFFICES ASSUME NEW j \in DOMAIN events, Pending(j)' PROVE Owes(events[j])'
    BY <1>5 DEF PendingOwes
  <2>. QED
    BY <1>2, <1>5, <1>6, OwesStays DEF Books, PendingOwes
<1>11. NothingOwed'
  <2>1. NothingPending' => NothingPending
    BY <1>5 DEF NothingPending
  <2>2. Net' = Net
    BY <1>2, <1>6 DEF Net
  <2>. QED
    BY <1>2, <2>1, <2>2 DEF Books, NothingOwed, Due
<1>. QED
  BY <1>8, <1>9, <1>10, <1>11 DEF Books

(* An invoice is issued once those before it are paid. *)
LEMMA RenewOneDue ==
    ASSUME TypeOK, OneDue, "carry" \notin Faults, NEW c \in Bills, Renew(c)
    PROVE  OneDue' /\ \A b \in Bills : ~ Due(b)
<1>1. /\ bill[c] = "none" /\ bill' = [bill EXCEPT ![c] = "draft"]
      /\ \A b \in Bills : b < c => bill[b] = "paid"
  BY BillingAssumption DEF Renew, Bills
<1>2. \A b \in Bills : b < c \/ b = c \/ c < b
  BY BillingAssumption DEF Bills
<1>3. /\ bill'[c] = "draft"
      /\ \A b \in Bills : b # c => bill'[b] = bill[b]
  BY <1>1 DEF TypeOK
<1>4. \A b \in Bills : c < b => bill[b] = "none"
  BY <1>1 DEF OneDue
<1>5. \A b \in Bills : ~ Due(b)
  BY <1>1, <1>2, <1>4 DEF Due
<1>6. OneDue'
  <2> SUFFICES ASSUME NEW b \in Bills, bill'[b] # "none", NEW a \in Bills, a < b
               PROVE  bill'[a] = "paid"
    BY DEF OneDue
  <2>1. b = c \/ b < c
    BY <1>2, <1>3, <1>4
  <2>2. a < c /\ a # c
    BY <2>1, BillingAssumption DEF Bills
  <2>. QED
    BY <1>1, <1>3, <2>2
<1>. QED
  BY <1>5, <1>6

LEMMA RenewBooks ==
    ASSUME TypeOK, Careful, BooksInv, NEW c \in Bills, Renew(c)
    PROVE  BooksInv'
<1> DEFINE e == Event("created", c, sub, ending)
           es == <<e>>
<1>1. /\ bill[c] = "none" /\ bill' = [bill EXCEPT ![c] = "draft"]
      /\ \A b \in Bills : b < c => bill[b] = "paid"
      /\ UNCHANGED <<billed, balance, invoiced, spent>>
  BY BillingAssumption DEF Renew, Careful, Gateway, credits, Bills
<1>2. /\ es \in Seq(Events) /\ DOMAIN es = {1} /\ es[1] = e
      /\ e.type = "created" /\ e.bill = c /\ e.pc = "offered"
  <2>1. e \in Events
    BY NewEventType, BillingAssumption DEF TypeOK, Bills
  <2>. QED
    BY <2>1 DEF Event
<1>3. Emits(es)
  BY DEF Renew
<1> HIDE DEF es, e
<1>5. /\ bill'[c] = "draft"
      /\ \A b \in Bills : b # c => bill'[b] = bill[b]
  BY <1>1 DEF TypeOK
<1>7. OneDue' /\ \A b \in Bills : ~ Due(b)
  BY RenewOneDue DEF BooksInv, Careful
<1> SUFFICES ASSUME Alive' PROVE Books'
  BY <1>7 DEF BooksInv
<1>9. Alive /\ Books
  BY <1>2, <1>3, EmittedPending DEF BooksInv
<1>10. NothingPending
  BY <1>9 DEF Renew, NothingPending, Pending, Alive, Handled
<1>11. Net = 0 /\ invoiced = 0
  BY <1>7, <1>9, <1>10 DEF Books, NothingOwed
<1>12. Net' = 0 /\ invoiced' = 0
  <2>1. Granted' = Granted
    BY <1>1, PaidStays DEF BillStates
  <2>. QED
    BY <1>1, <1>11, <2>1 DEF Net
<1>13. /\ Len(events) + 1 \in DOMAIN events' /\ events'[Len(events) + 1] = e
       /\ \A j \in DOMAIN events' : Pending(j)' => j = Len(events) + 1 /\ events'[j] = e
  <2>1. events' = Append(events, e) /\ events \in Seq(Events)
    BY <1>2, <1>3 DEF Emits, es, TypeOK
  <2>. QED
    BY <1>2, <1>3, <1>10, <2>1, EmittedPending DEF NothingPending
<1>14. OnePending'
  BY <1>13 DEF OnePending
<1>15. PendingOfDue'
  BY <1>2, <1>5, <1>13 DEF PendingOfDue
<1>16. PendingOwes'
  BY <1>2, <1>12, <1>13 DEF PendingOwes, Owes
<1>17. NothingOwed'
  BY <1>2, <1>13 DEF NothingOwed, NothingPending, Pending
<1>. QED
  BY <1>14, <1>15, <1>16, <1>17 DEF Books

(* Collecting an invoice, or failing to, keeps invoices one at a time. *)
LEMMA PayableOneDue ==
    ASSUME TypeOK, OneDue, NEW c \in Bills, Payable(c), NEW b \in {"open", "paid"},
           bill' = [bill EXCEPT ![c] = b]
    PROVE  /\ OneDue'
           /\ bill'[c] = b
           /\ \A a \in Bills \ {c} : bill'[a] = bill[a] /\ ~ Due(a)
<1>1. bill'[c] = b /\ \A a \in Bills \ {c} : bill'[a] = bill[a]
  BY DEF TypeOK
<1>2. Due(c) /\ bill[c] # "none" /\ bill[c] # "paid"
  BY DEF Payable, Due
<1>3. \A a \in Bills \ {c} : ~ Due(a)
  BY <1>2, DueIsUnique
<1>4. OneDue'
  <2> SUFFICES ASSUME NEW x \in Bills, bill'[x] # "none", NEW a \in Bills, a < x
               PROVE  bill'[a] = "paid"
    BY DEF OneDue
  <2>1. bill[x] # "none"
    BY <1>1, <1>2
  <2>2. bill[a] = "paid"
    BY <2>1 DEF OneDue
  <2>. QED
    BY <1>1, <1>2, <2>2
<1>. QED
  BY <1>1, <1>3, <1>4

(* Stripe emits one event or two. *)
LEMMA OneOrTwo ==
    ASSUME NEW S, NEW e \in S, NEW f \in S
    PROVE  /\ <<e>> \o <<f>> \in Seq(S) /\ DOMAIN (<<e>> \o <<f>>) = {1, 2}
           /\ Len(<<e>> \o <<f>>) = 2
           /\ (<<e>> \o <<f>>)[1] = e /\ (<<e>> \o <<f>>)[2] = f
           /\ <<e>> \o <<>> \in Seq(S) /\ DOMAIN (<<e>> \o <<>>) = {1}
           /\ Len(<<e>> \o <<>>) = 1
           /\ (<<e>> \o <<>>)[1] = e
<1>1. <<e>> \o <<f>> \in Seq(S) /\ Len(<<e>> \o <<f>>) = 2
  OBVIOUS
<1>2. (<<e>> \o <<f>>)[1] = e /\ (<<e>> \o <<f>>)[2] = f
  OBVIOUS
<1>3. <<e>> \o <<>> = <<e>>
  OBVIOUS
<1>4. <<e>> \in Seq(S) /\ Len(<<e>>) = 1 /\ DOMAIN <<e>> = {1} /\ <<e>>[1] = e
  OBVIOUS
<1>5. ASSUME NEW u \in Seq(S), Len(u) = 2 PROVE DOMAIN u = {1, 2}
  BY <1>5
<1>. QED
  BY <1>1, <1>2, <1>3, <1>4, <1>5

LEMMA CollectBooks ==
    ASSUME TypeOK, BooksInv, NEW c \in Bills, Collect(c)
    PROVE  BooksInv'
<1> DEFINE e == Event("paid", c, sub', ending)
           f == Event("updated", 0, "active", ending)
<1>1. /\ Payable(c) /\ bill' = [bill EXCEPT ![c] = "paid"] /\ sub' \in SubStates
      /\ Emits(<<e>> \o <<f>>) \/ Emits(<<e>> \o <<>>)
      /\ UNCHANGED <<billed, balance, invoiced, spent>>
  BY DEF Collect, Gateway, credits, SubStates, TypeOK
<1>2. /\ e \in Events /\ f \in Events
      /\ e.type = "paid" /\ e.pc = "offered" /\ f.type = "updated"
  <2>2. /\ c \in 0 .. Cycles /\ 0 \in 0 .. Cycles /\ ending \in BOOLEAN
        /\ {"active", "past_due"} \subseteq SubStates
    BY BillingAssumption DEF TypeOK, Bills, SubStates
  <2>1. e \in Events /\ f \in Events
    BY <1>1, <2>2, NewEventType
  <2>. QED
    BY <2>1 DEF Event
<1> HIDE DEF e, f
<1>3. PICK es \in Seq(Events) : /\ Emits(es) /\ Len(es) >= 1 /\ es[1] = e
                                /\ \A k \in DOMAIN es : k # 1 => es[k].type = "updated"
  <2>1. CASE Emits(<<e>> \o <<f>>)
    <3>1. /\ <<e>> \o <<f>> \in Seq(Events) /\ Len(<<e>> \o <<f>>) >= 1 /\ (<<e>> \o <<f>>)[1] = e
          /\ \A k \in DOMAIN (<<e>> \o <<f>>) : k # 1 => (<<e>> \o <<f>>)[k].type = "updated"
      BY <1>2, OneOrTwo
    <3>. QED
      BY <2>1, <3>1
  <2>2. CASE Emits(<<e>> \o <<>>)
    <3>1. /\ <<e>> \o <<>> \in Seq(Events) /\ Len(<<e>> \o <<>>) >= 1 /\ (<<e>> \o <<>>)[1] = e
          /\ \A k \in DOMAIN (<<e>> \o <<>>) : k # 1 => (<<e>> \o <<>>)[k].type = "updated"
      BY <1>2, OneOrTwo
    <3>. QED
      BY <2>2, <3>1
  <2>. QED
    BY <1>1, <2>1, <2>2
<1>4. /\ OneDue' /\ bill[c] # "paid"
      /\ \A b \in Bills : ~ Due(b)'
  BY <1>1, PayableOneDue DEF BooksInv, Due, Payable
<1> SUFFICES ASSUME Alive' PROVE Books'
  BY <1>4 DEF BooksInv
<1>5. Alive /\ Books
  BY <1>3, EmittedPending DEF BooksInv
<1>6. NothingPending
  BY <1>1, <1>5, PayableIsQuiet
<1>7. Net' = invoiced' + Plan
  <2>1. Granted' = Granted + Plan
    BY <1>1, <1>4, PaidGrows
  <2>2. Net = invoiced
    BY <1>5, <1>6 DEF Books, NothingOwed
  <2>. QED
    <3>1. /\ Granted \in Int /\ billed \in Int /\ spent \in Int /\ balance \in Int
          /\ invoiced \in Int /\ Plan \in Int
      BY GrantedType, BillingAssumption DEF TypeOK
    <3>. QED
      BY <1>1, <2>1, <2>2, <3>1 DEF Net
<1>8. /\ Len(events) + 1 \in DOMAIN events' /\ events'[Len(events) + 1] = e
      /\ \A j \in DOMAIN events' : Pending(j)' => j = Len(events) + 1 /\ events'[j] = e
  <2>1. events' = events \o es /\ events \in Seq(Events)
    BY <1>3 DEF Emits, TypeOK
  <2>2. Len(events) + 1 \in DOMAIN events' /\ events'[Len(events) + 1] = e
    <3>1. \A s, u \in Seq(Events) : Len(u) >= 1 =>
            Len(s) + 1 \in DOMAIN (s \o u) /\ (s \o u)[Len(s) + 1] = u[1]
      OBVIOUS
    <3>. QED
      BY <1>3, <2>1, <3>1
  <2>. QED
    BY <1>3, <1>6, <2>2, EmittedPending DEF NothingPending
<1>9. OnePending'
  BY <1>8 DEF OnePending
<1>10. PendingOfDue'
  BY <1>2, <1>4, <1>8 DEF PendingOfDue
<1>11. PendingOwes'
  BY <1>2, <1>7, <1>8 DEF PendingOwes, Owes
<1>12. NothingOwed'
  BY <1>2, <1>8 DEF NothingOwed, NothingPending, Pending
<1>. QED
  BY <1>9, <1>10, <1>11, <1>12 DEF Books

LEMMA DeclineBooks ==
    ASSUME TypeOK, BooksInv, NEW c \in Bills, Decline(c)
    PROVE  BooksInv'
<1> DEFINE e == Event("failed", c, "past_due", ending)
           f == Event("updated", 0, "past_due", ending)
<1>1. /\ Payable(c) /\ bill' = [bill EXCEPT ![c] = "open"]
      /\ Emits(<<e>> \o <<f>>) \/ Emits(<<e>> \o <<>>)
      /\ UNCHANGED <<billed, balance, invoiced, spent>>
  BY DEF Decline, Gateway, credits
<1>2. /\ e \in Events /\ f \in Events
      /\ e.type = "failed" /\ f.type = "updated"
  <2>2. /\ c \in 0 .. Cycles /\ 0 \in 0 .. Cycles /\ ending \in BOOLEAN
        /\ {"active", "past_due"} \subseteq SubStates
    BY BillingAssumption DEF TypeOK, Bills, SubStates
  <2>1. e \in Events /\ f \in Events
    BY <2>2, NewEventType
  <2>. QED
    BY <2>1 DEF Event
<1> HIDE DEF e, f
<1>3. PICK es \in Seq(Events) : /\ Emits(es)
                                /\ \A k \in DOMAIN es : es[k].type \notin {"created", "paid"}
  <2>1. CASE Emits(<<e>> \o <<f>>)
    <3>1. /\ <<e>> \o <<f>> \in Seq(Events)
          /\ \A k \in DOMAIN (<<e>> \o <<f>>) : (<<e>> \o <<f>>)[k].type \notin {"created", "paid"}
      BY <1>2, OneOrTwo
    <3>. QED
      BY <2>1, <3>1
  <2>2. CASE Emits(<<e>> \o <<>>)
    <3>1. /\ <<e>> \o <<>> \in Seq(Events)
          /\ \A k \in DOMAIN (<<e>> \o <<>>) : (<<e>> \o <<>>)[k].type \notin {"created", "paid"}
      BY <1>2, OneOrTwo
    <3>. QED
      BY <2>2, <3>1
  <2>. QED
    BY <1>1, <2>1, <2>2
<1>4. /\ OneDue' /\ bill[c] # "paid" /\ Due(c)'
  BY <1>1, PayableOneDue DEF BooksInv, Due, Payable
<1> SUFFICES ASSUME Alive' PROVE Books'
  BY <1>4 DEF BooksInv
<1>5. Alive /\ Books
  BY <1>3, EmittedPending DEF BooksInv
<1>6. NothingPending
  BY <1>1, <1>5, PayableIsQuiet
<1>7. Net' = invoiced'
  <2>1. Granted' = Granted
    BY <1>1, <1>4, PaidStays DEF BillStates
  <2>2. Net = invoiced
    BY <1>5, <1>6 DEF Books, NothingOwed
  <2>. QED
    BY <1>1, <2>1, <2>2 DEF Net
<1>8. \A j \in DOMAIN events' : ~ Pending(j)'
  BY <1>3, <1>6, EmittedPending DEF NothingPending
<1>. QED
  BY <1>4, <1>7, <1>8 DEF Books, OnePending, PendingOfDue, PendingOwes, NothingOwed

(* Steps that touch no event and no bill: credits are spent or nothing moves. *)
LEMMA QuietBooks ==
    ASSUME TypeOK, BooksInv, UNCHANGED <<events, bill, billed, invoiced>>,
           NEW n \in {0, 1}, balance' = balance - n, spent' = spent + n
    PROVE  BooksInv'
<1>1. Granted' = Granted
  BY PaidStays
<1>2. Net' = Net
  <2>1. Granted \in Int /\ billed \in Int /\ balance \in Int /\ spent \in Int
    BY GrantedType, BillingAssumption DEF TypeOK
  <2>. QED
    BY <1>1, <2>1 DEF Net
<1>. QED
  BY <1>2 DEF BooksInv, OneDue, Alive, Books, OnePending, PendingOfDue, PendingOwes,
              NothingOwed, NothingPending, Pending, Owes, Due

LEMMA BooksStep ==
    ASSUME TypeOK, Careful, BooksInv, [Next]_vars
    PROVE  BooksInv'
<1>1. CASE \E c \in Bills : Renew(c) \/ Collect(c) \/ Decline(c)
  BY <1>1, RenewBooks, CollectBooks, DeclineBooks
<1>2. CASE \E i \in DOMAIN events : Handle(i) \/ Throws(i) \/ Dies(i)
  BY <1>2, HandlerBooks
<1>3. CASE End \/ \E r \in Requests : CancelAtStripe(r) \/ ResumeAtStripe(r)
  BY <1>3, SubscriptionBooks
<1>4. CASE Spend
  <2>1. balance \in Int /\ spent \in Int
    BY BillingAssumption DEF TypeOK
  <2>2. /\ balance' = balance - 1 /\ spent' = spent + 1
        /\ UNCHANGED <<events, bill, billed, invoiced>>
    BY <1>4 DEF Spend, stripe
  <2>. QED
    BY <2>1, <2>2, QuietBooks
<1>5. CASE UNCHANGED vars
  BY <1>5, QuietBooks, BillingAssumption DEF vars, stripe, credits, TypeOK
<1>6. CASE \/ ForbidOverages
           \/ \E r \in Requests : \/ CheckToggle(r) \/ AllowOverages(r) \/ CancelRow(r)
                                 \/ CancelOverages(r) \/ ResumeRow(r)
  <2>1. UNCHANGED <<stripe, events, credits>>
    BY <1>6 DEF CheckToggle, AllowOverages, ForbidOverages, CancelRow, CancelOverages,
                ResumeRow
  <2>. QED
    BY <2>1, QuietBooks, BillingAssumption DEF stripe, credits, TypeOK
<1>. QED
  BY <1>1, <1>2, <1>3, <1>4, <1>5, <1>6 DEF Next, Request

(* Once every event is handled the balance is the plan of each paid invoice, once,
   plus what was billed and is not waiting to be paid, minus what was spent: for any
   number of renewals, any spending between issue and payment, any order of events,
   declined charges, repeated handlers and deaths, as long as no handler fails after
   it added something and no invoice is issued over an unpaid one. *)
THEOREM CreditsReconcile == ASSUME Careful PROVE Spec => []Reconciled
<1>1. Init => BooksInv
  <2> SUFFICES ASSUME Init PROVE BooksInv
    OBVIOUS
  <2>1. Paid = {}
    BY DEF Init, Paid
  <2>2. Granted = 0
    BY <2>1, FS_EmptySet, BillingAssumption DEF Granted
  <2>3. Net = 0
    BY <2>2 DEF Init, Net
  <2>. QED
    BY <2>3 DEF Init, BooksInv, OneDue, Alive, Books, OnePending, PendingOfDue, PendingOwes,
                NothingOwed, NothingPending
<1>2. TypeOK /\ BooksInv /\ [Next]_vars => BooksInv'
  BY BooksStep
<1>3. TypeOK /\ BooksInv => Reconciled
  <2> SUFFICES ASSUME TypeOK, BooksInv, AllHandled
               PROVE  balance = Plan * Cardinality(Paid) + (billed - invoiced) - spent
    BY DEF Reconciled
  <2>1. Alive /\ NothingPending
    BY DEF AllHandled, Alive, NothingPending, Pending
  <2>2. Net = invoiced
    BY <2>1 DEF BooksInv, Books, NothingOwed
  <2>3. Granted \in Int /\ billed \in Int /\ balance \in Int /\ spent \in Int /\ invoiced \in Int
    BY GrantedType, BillingAssumption DEF TypeOK
  <2>4. balance = Granted + (billed - invoiced) - spent
    BY <2>2, <2>3 DEF Net
  <2>. QED
    BY <2>4 DEF Granted
<1>. QED
  BY <1>1, <1>2, <1>3, TypeCorrect, PTL DEF Spec

--------------------------------------------------------------------------------
(* The row mirrors the subscription, without "carry".  Two sides: what Stripe   *)
(* last told agrees with what it knows, and what the handlers wrote is what the  *)
(* last event they wrote told.                                                  *)
OneAtATime == "carry" \notin Faults

About(e) == e.type # "created"

(* The status an event calls for. *)
Says(e) ==
    CASE e.type = "paid" -> "ACTIVE"
      [] e.type = "failed" -> "PAST_DUE"
      [] OTHER -> StatusOf(e.sub)

(* The events that end a dunning. *)
Clears(e) == e.type = "paid" \/ (e.type = "updated" /\ e.sub = "active")

Latest(es, i) == About(es[i]) /\ \A j \in DOMAIN es : i < j => ~ About(es[j])
LatestUpdate(es, i) ==
    es[i].type = "updated" /\ \A j \in DOMAIN es : i < j => es[j].type # "updated"
Unpaid(es, i) == es[i].type = "failed" /\ \A j \in DOMAIN es : i < j => ~ Clears(es[j])

(* What the events es tell of a subscription: its status, whether it ends, and that
   its charge was declined. *)
StatusTold(es, s) ==
    \/ s = "active" /\ \A i \in DOMAIN es : ~ About(es[i])
    \/ \E i \in DOMAIN es : Latest(es, i) /\ Says(es[i]) = StatusOf(s)
EndingTold(es, b) ==
    \/ ~ b /\ \A i \in DOMAIN es : es[i].type # "updated"
    \/ \E i \in DOMAIN es : LatestUpdate(es, i) /\ es[i].ending = b
DunningTold(es, s) == s = "past_due" => \E i \in DOMAIN es : Unpaid(es, i)
Shapes(es, s) ==
    \A i \in DOMAIN es :
        /\ es[i].type = "updated" => es[i].sub # "canceled"
        /\ es[i].type = "deleted" => es[i].sub = "canceled" /\ s = "canceled"

Told(es, s, b) ==
    StatusTold(es, s) /\ EndingTold(es, b) /\ DunningTold(es, s) /\ Shapes(es, s)

StripeTells == OneDue /\ Told(events, sub, ending)

(* What the members and the handlers do to overages. *)
Off == ~ overages \/ raced

Revoking == \E r \in Requests : request[r] = "revoking"

(* A request that is on its way from Stripe to the row carries what Stripe was told
   last. *)
AskedLast ==
    ~ crossed => \A r \in Requests : /\ request[r] = "cancelling" => ending
                                     /\ request[r] = "resuming" => ~ ending
LimitsOfEnd ==
    \A i \in DOMAIN events : events[i].pc \in {"limits", "cleaning"} =>
        events[i].type \in {"updated", "deleted"}
RevokedOff == \A i \in DOMAIN events : events[i].pc \in {"revoked", "seen"} => Off

(* Events whose handler still has overages to turn off, once the row says so. *)
Ends(i) ==
    /\ events[i].type = "deleted" \/ (events[i].type = "updated" /\ events[i].ending)
    /\ events[i].pc \notin {"cleaning", "acked"}
EndedOff ==
    (status = "CANCELED" \/ cancels) /\ ~ Revoking =>
        Off \/ \E i \in DOMAIN events : Ends(i)

OffInv == AskedLast /\ LimitsOfEnd /\ RevokedOff /\ EndedOff

(* The row, while events are taken up in order. *)
Written(i) ==
    \/ events[i].pc = "acked"
    \/ events[i].type = "paid" /\ events[i].pc \in {"active", "granted"}
    \/ events[i].type \in {"updated", "deleted"} /\ events[i].pc \in {"limits", "cleaning"}

StatusShown ==
    /\ \A i \in DOMAIN events : Latest(events, i) /\ Written(i) => status = Says(events[i])
    /\ (\A i \in DOMAIN events : ~ About(events[i])) => status = "ACTIVE"
CancelsShown ==
    sub # "canceled" /\ ~ crossed =>
        /\ \A i \in DOMAIN events :
              LatestUpdate(events, i) /\ Written(i) => cancels = events[i].ending
        /\ (\A i \in DOMAIN events : events[i].type # "updated") => ~ cancels
GraceBegun ==
    \A i \in DOMAIN events : Unpaid(events, i) /\ events[i].pc = "acked" =>
        since # Null /\ status # "ACTIVE" /\ Off

RowInv == ~ overtaken => StatusShown /\ CancelsShown /\ GraceBegun

(* What one more event tells. *)
LEMMA ToldAppend ==
    ASSUME NEW es \in Seq(Events), NEW e \in Events,
           NEW s \in SubStates, NEW t \in SubStates, NEW b \in BOOLEAN, NEW d \in BOOLEAN,
           Told(es, s, b), s # "canceled",
           About(e) => Says(e) = StatusOf(t),
           ~ About(e) => t = s,
           e.type = "updated" => e.ending = d /\ e.sub # "canceled",
           e.type # "updated" => d = b,
           e.type = "deleted" => e.sub = "canceled" /\ t = "canceled",
           t = "past_due" => e.type = "failed" \/ (s = "past_due" /\ ~ Clears(e))
    PROVE  Told(Append(es, e), t, d)
<1> DEFINE us == Append(es, e)
           n == Len(es) + 1
<1>1. /\ DOMAIN us = DOMAIN es \cup {n} /\ n \in DOMAIN us /\ n \notin DOMAIN es
      /\ us[n] = e
      /\ \A i \in DOMAIN es : us[i] = es[i]
      /\ \A i \in DOMAIN us : ~ (n < i)
      /\ \A i \in DOMAIN es : i < n
  OBVIOUS
<1> HIDE DEF us, n
<1>2. StatusTold(us, t)
  <2>1. CASE About(e)
    <3>1. Latest(us, n) /\ Says(us[n]) = StatusOf(t)
      BY <1>1, <2>1 DEF Latest
    <3>. QED
      BY <1>1, <3>1 DEF StatusTold
  <2>2. CASE ~ About(e)
    <3>1. CASE s = "active" /\ \A i \in DOMAIN es : ~ About(es[i])
      <4>1. \A i \in DOMAIN us : ~ About(us[i])
        BY <1>1, <2>2, <3>1
      <4>. QED
        BY <2>2, <3>1, <4>1 DEF StatusTold
    <3>2. CASE \E i \in DOMAIN es : Latest(es, i) /\ Says(es[i]) = StatusOf(s)
      <4>1. PICK i \in DOMAIN es : Latest(es, i) /\ Says(es[i]) = StatusOf(s)
        BY <3>2
      <4>2. Latest(us, i) /\ Says(us[i]) = StatusOf(t)
        BY <1>1, <2>2, <4>1 DEF Latest
      <4>. QED
        BY <1>1, <4>2 DEF StatusTold
    <3>. QED
      BY <3>1, <3>2 DEF Told, StatusTold
  <2>. QED
    BY <2>1, <2>2
<1>3. EndingTold(us, d)
  <2>1. CASE e.type = "updated"
    <3>1. LatestUpdate(us, n) /\ us[n].ending = d
      BY <1>1, <2>1 DEF LatestUpdate
    <3>. QED
      BY <1>1, <3>1 DEF EndingTold
  <2>2. CASE e.type # "updated"
    <3>1. CASE ~ b /\ \A i \in DOMAIN es : es[i].type # "updated"
      <4>1. \A i \in DOMAIN us : us[i].type # "updated"
        BY <1>1, <2>2, <3>1
      <4>. QED
        BY <2>2, <3>1, <4>1 DEF EndingTold
    <3>2. CASE \E i \in DOMAIN es : LatestUpdate(es, i) /\ es[i].ending = b
      <4>1. PICK i \in DOMAIN es : LatestUpdate(es, i) /\ es[i].ending = b
        BY <3>2
      <4>2. LatestUpdate(us, i) /\ us[i].ending = d
        BY <1>1, <2>2, <4>1 DEF LatestUpdate
      <4>. QED
        BY <1>1, <4>2 DEF EndingTold
    <3>. QED
      BY <3>1, <3>2 DEF Told, EndingTold
  <2>. QED
    BY <2>1, <2>2
<1>4. DunningTold(us, t)
  <2> SUFFICES ASSUME t = "past_due" PROVE \E i \in DOMAIN us : Unpaid(us, i)
    BY DEF DunningTold
  <2>1. CASE e.type = "failed"
    <3>1. Unpaid(us, n)
      BY <1>1, <2>1 DEF Unpaid
    <3>. QED
      BY <1>1, <3>1
  <2>2. CASE s = "past_due" /\ ~ Clears(e)
    <3>1. PICK i \in DOMAIN es : Unpaid(es, i)
      BY <2>2 DEF Told, DunningTold
    <3>2. Unpaid(us, i)
      BY <1>1, <2>2, <3>1 DEF Unpaid
    <3>. QED
      BY <1>1, <3>2
  <2>. QED
    BY <2>1, <2>2
<1>5. Shapes(us, t)
  BY <1>1 DEF Told, Shapes
<1>. QED
  BY <1>2, <1>3, <1>4, <1>5 DEF Told, us

(* What is told depends on what the events say, not on their handlers. *)
LEMMA ToldStays ==
    ASSUME NEW es, NEW us, NEW s, NEW b, Told(es, s, b), DOMAIN us = DOMAIN es,
           \A i \in DOMAIN es : /\ us[i].type = es[i].type /\ us[i].sub = es[i].sub
                                /\ us[i].ending = es[i].ending
    PROVE  /\ Told(us, s, b)
           /\ \A i \in DOMAIN es : /\ About(us[i]) <=> About(es[i])
                                   /\ Says(us[i]) = Says(es[i])
                                   /\ Latest(us, i) <=> Latest(es, i)
                                   /\ LatestUpdate(us, i) <=> LatestUpdate(es, i)
                                   /\ Unpaid(us, i) <=> Unpaid(es, i)
<1>1. \A i \in DOMAIN es : /\ About(us[i]) <=> About(es[i])
                           /\ Says(us[i]) = Says(es[i])
                           /\ Clears(us[i]) <=> Clears(es[i])
  BY DEF About, Says, Clears
<1>2. \A i \in DOMAIN es : /\ Latest(us, i) <=> Latest(es, i)
                           /\ LatestUpdate(us, i) <=> LatestUpdate(es, i)
                           /\ Unpaid(us, i) <=> Unpaid(es, i)
  BY <1>1 DEF Latest, LatestUpdate, Unpaid
<1>3. StatusTold(us, s) /\ EndingTold(us, b) /\ DunningTold(us, s) /\ Shapes(us, s)
  BY <1>1, <1>2 DEF Told, StatusTold, EndingTold, DunningTold, Shapes
<1>. QED
  BY <1>1, <1>2, <1>3 DEF Told

LEMMA TwoAppended ==
    ASSUME NEW S, NEW s \in Seq(S), NEW e \in S, NEW f \in S
    PROVE  /\ s \o <<e>> = Append(s, e) /\ Append(s, e) \in Seq(S)
           /\ s \o (<<e>> \o <<>>) = Append(s, e)
           /\ s \o (<<e>> \o <<f>>) = Append(Append(s, e), f)
<1>1. s \o <<e>> = Append(s, e) /\ Append(s, e) \in Seq(S)
  OBVIOUS
<1>2. <<e>> \o <<>> = <<e>>
  OBVIOUS
<1>3. s \o (<<e>> \o <<f>>) = (s \o <<e>>) \o <<f>>
  <2>1. <<e>> \in Seq(S) /\ <<f>> \in Seq(S)
    OBVIOUS
  <2>. QED
    BY <2>1, ConcatAssociative
<1>4. Append(s, e) \o <<f>> = Append(Append(s, e), f)
  BY <1>1, AppendIsConcat
<1>. QED
  BY <1>1, <1>2, <1>3, <1>4

LEMMA EventIs ==
    ASSUME NEW t, NEW c, NEW s, NEW b
    PROVE  LET e == Event(t, c, s, b)
           IN  e.type = t /\ e.sub = s /\ e.ending = b /\ e.pc = "offered"
  BY DEF Event

(* Stripe's own steps, and the requests' at Stripe, tell what they do. *)
LEMMA StripeTellsStep ==
    ASSUME TypeOK, OneAtATime, StripeTells,
           \/ \E c \in Bills : Renew(c) \/ Collect(c) \/ Decline(c)
           \/ End \/ \E r \in Requests : CancelAtStripe(r) \/ ResumeAtStripe(r)
    PROVE  StripeTells'
<1>1. /\ events \in Seq(Events) /\ sub \in SubStates /\ ending \in BOOLEAN
      /\ {"active", "past_due", "canceled"} \subseteq SubStates /\ 0 \in 0 .. Cycles
      /\ \A c \in Bills : c \in 0 .. Cycles
  BY BillingAssumption DEF TypeOK, SubStates, Bills
<1>2. OneDue /\ Told(events, sub, ending)
  BY DEF StripeTells
<1>3. CASE \E c \in Bills : Renew(c)
  <2>1. PICK c \in Bills : Renew(c)
    BY <1>3
  <2> DEFINE e == Event("created", c, sub, ending)
  <2>2. e \in Events /\ e.type = "created"
    BY <1>1, NewEventType, EventIs
  <2>3. events' = Append(events, e) /\ sub # "canceled" /\ sub' = sub /\ ending' = ending
    BY <1>1, <2>1, <2>2, TwoAppended DEF Renew, Emits
  <2> HIDE DEF e
  <2>4. Told(Append(events, e), sub, ending)
    BY <1>1, <1>2, <2>2, <2>3, ToldAppend DEF About, Clears
  <2>5. OneDue'
    BY <1>2, <2>1, RenewOneDue DEF OneAtATime
  <2>. QED
    BY <2>3, <2>4, <2>5 DEF StripeTells
<1>4. CASE \E c \in Bills : Collect(c)
  <2>1. PICK c \in Bills : Collect(c)
    BY <1>4
  <2> DEFINE e == Event("paid", c, "active", ending)
             f == Event("updated", 0, "active", ending)
             settled == \A b \in Bills \ {c} : bill[b] # "open"
  <2>2. /\ Payable(c) /\ bill' = [bill EXCEPT ![c] = "paid"] /\ ending' = ending
        /\ sub # "canceled"
    BY <2>1 DEF Collect, Payable
  <2>3. OneDue' /\ settled
    BY <1>2, <2>2, PayableOneDue DEF Due
  <2>4. sub' = "active"
    BY <1>1, <2>1, <2>2, <2>3 DEF Collect, SubStates
  <2>5. /\ e \in Events /\ e.type = "paid"
        /\ f \in Events /\ f.type = "updated" /\ f.sub = "active" /\ f.ending = ending
    BY <1>1, NewEventType, EventIs
  <2>6. \/ events' = Append(events, e)
        \/ events' = Append(Append(events, e), f)
    <3>1. \/ events' = events \o (<<e>> \o <<f>>)
          \/ events' = events \o (<<e>> \o <<>>)
      BY <2>1, <2>4 DEF Collect, Emits
    <3>. QED
      BY <1>1, <2>5, <3>1, TwoAppended
  <2> HIDE DEF e, f, settled
  <2>7. Told(Append(events, e), "active", ending)
    BY <1>1, <1>2, <2>2, <2>5, ToldAppend DEF About, Says, StatusOf
  <2>8. Told(Append(Append(events, e), f), "active", ending)
    <3>1. Append(events, e) \in Seq(Events)
      BY <1>1, <2>5
    <3>. QED
      BY <1>1, <2>5, <2>7, <3>1, ToldAppend DEF About, Says, StatusOf
  <2>. QED
    BY <2>2, <2>3, <2>4, <2>6, <2>7, <2>8 DEF StripeTells
<1>5. CASE \E c \in Bills : Decline(c)
  <2>1. PICK c \in Bills : Decline(c)
    BY <1>5
  <2> DEFINE e == Event("failed", c, "past_due", ending)
             f == Event("updated", 0, "past_due", ending)
  <2>2. /\ Payable(c) /\ bill' = [bill EXCEPT ![c] = "open"] /\ ending' = ending
        /\ sub # "canceled" /\ sub' = "past_due"
    BY <2>1 DEF Decline, Payable
  <2>3. OneDue'
    BY <1>2, <2>2, PayableOneDue
  <2>5. /\ e \in Events /\ e.type = "failed"
        /\ f \in Events /\ f.type = "updated" /\ f.sub = "past_due" /\ f.ending = ending
    BY <1>1, NewEventType, EventIs
  <2>6. \/ events' = Append(events, e)
        \/ events' = Append(Append(events, e), f)
    <3>1. \/ events' = events \o (<<e>> \o <<f>>)
          \/ events' = events \o (<<e>> \o <<>>)
      BY <2>1 DEF Decline, Emits
    <3>. QED
      BY <1>1, <2>5, <3>1, TwoAppended
  <2> HIDE DEF e, f
  <2>7. Told(Append(events, e), "past_due", ending)
    BY <1>1, <1>2, <2>2, <2>5, ToldAppend DEF About, Says, StatusOf
  <2>8. Told(Append(Append(events, e), f), "past_due", ending)
    <3>1. Append(events, e) \in Seq(Events)
      BY <1>1, <2>5
    <3>. QED
      BY <1>1, <2>5, <2>7, <3>1, ToldAppend DEF About, Says, StatusOf, Clears
  <2>. QED
    BY <2>2, <2>3, <2>6, <2>7, <2>8 DEF StripeTells
<1>6. CASE End
  <2> DEFINE e == Event("deleted", 0, "canceled", ending)
  <2>1. e \in Events /\ e.type = "deleted" /\ e.sub = "canceled"
    BY <1>1, NewEventType, EventIs
  <2>2. /\ events' = Append(events, e) /\ sub # "canceled" /\ sub' = "canceled"
        /\ ending' = ending /\ bill' = bill
    BY <1>1, <1>6, <2>1, TwoAppended DEF End, Emits
  <2> HIDE DEF e
  <2>3. Told(Append(events, e), "canceled", ending)
    BY <1>1, <1>2, <2>1, <2>2, ToldAppend DEF About, Says
  <2>. QED
    BY <1>2, <2>2, <2>3 DEF StripeTells, OneDue
<1>7. ASSUME NEW d \in BOOLEAN, sub # "canceled", sub' = sub, ending' = d, bill' = bill,
             Emits(<<Event("updated", 0, sub, d)>>)
      PROVE  StripeTells'
  <2> DEFINE e == Event("updated", 0, sub, d)
  <2>1. e \in Events /\ e.type = "updated" /\ e.sub = sub /\ e.ending = d
    BY <1>1, NewEventType, EventIs
  <2>2. events' = Append(events, e)
    BY <1>1, <1>7, <2>1, TwoAppended DEF Emits
  <2> HIDE DEF e
  <2>3. Told(Append(events, e), sub, d)
    BY <1>1, <1>2, <1>7, <2>1, ToldAppend DEF About, Says, Clears
  <2>. QED
    BY <1>2, <1>7, <2>2, <2>3 DEF StripeTells, OneDue
<1>8. CASE \E r \in Requests : CancelAtStripe(r) \/ ResumeAtStripe(r)
  <2>1. /\ sub # "canceled" /\ sub' = sub /\ bill' = bill
        /\ \/ ending' = TRUE /\ Emits(<<Event("updated", 0, sub, TRUE)>>)
           \/ ending' = FALSE /\ Emits(<<Event("updated", 0, sub, FALSE)>>)
    BY <1>8 DEF CancelAtStripe, ResumeAtStripe
  <2>. QED
    BY <1>7, <2>1
<1>. QED
  BY <1>3, <1>4, <1>5, <1>6, <1>8

--------------------------------------------------------------------------------
(* What writing the row for event i does. *)
Writes(i) ==
    LET e == events[i]
    IN  /\ About(e) /\ status' = Says(e)
        /\ e.type = "updated" => cancels' = e.ending
        /\ e.type \in {"paid", "failed"} => cancels' = cancels
        /\ ~ Clears(e) => (since # Null => since' # Null)
        /\ e.type = "failed" => e.pc = "seen" /\ since' # Null

(* The steps of a handler, as the row sees them: it writes what its event says, or it
   leaves the row alone and what it wrote before stays written. *)
LEMMA HandlerWrites ==
    ASSUME TypeOK, LimitsOfEnd, Shapes(events, sub),
           NEW i \in DOMAIN events, Handle(i) \/ Throws(i) \/ Dies(i)
    PROVE  /\ UNCHANGED <<sub, ending, bill, request, raced, crossed>>
           /\ overages' => overages
           /\ DOMAIN events' = DOMAIN events
           /\ \A j \in DOMAIN events \ {i} : events'[j] = events[j]
           /\ \A j \in DOMAIN events : /\ events'[j].type = events[j].type
                                       /\ events'[j].sub = events[j].sub
                                       /\ events'[j].ending = events[j].ending
           /\ events'[i].pc \in {"limits", "cleaning"} => events[i].type \in {"updated", "deleted"}
           /\ events'[i].pc \in {"revoked", "seen"} => ~ overages' \/ events[i].pc = "revoked"
           /\ Ends(i) => Ends(i)' \/ ~ overages'
           /\ events[i].pc # "acked"
           /\ events[i].pc = "cleaning" => UNCHANGED row
           /\ Writes(i) \/ (UNCHANGED row /\ (About(events[i]) /\ Written(i)' => Written(i)))
<1> DEFINE e == events[i]
           u == events'[i]
<1>1. /\ DOMAIN events' = DOMAIN events
      /\ \A j \in DOMAIN events \ {i} : events'[j] = events[j]
      /\ u.type = e.type /\ u.sub = e.sub /\ u.ending = e.ending
  <2>1. PICK r \in Events : /\ events' = [events EXCEPT ![i] = r]
                            /\ r.type = e.type /\ r.sub = e.sub /\ r.ending = e.ending
    BY OwnStep
  <2>. QED
    BY <2>1, EntryChanges DEF TypeOK
<1>2. /\ UNCHANGED <<sub, ending, bill, request, raced, crossed>>
      /\ overages' => overages
  BY DEF Handle, Throws, Dies, Claim, ReadDebt, BillDebt, Snapshot, Reconcile, BillGap,
         Activate, Grant, Reset, Revoke, ReadSubscription, MarkPastDue, Sync, Drop, Disallow, CleanUp,
         Same, stripe, history
<1>3. e \in Events /\ events \in Seq(Events) /\ i \in 1 .. MaxEvents
  BY BillingAssumption DEF TypeOK
<1>4. ASSUME NEW p, Goto(i, p) PROVE u.pc = p
  BY <1>3, <1>4 DEF Goto, Events
<1>5. ASSUME NEW p, Finish(i, p) PROVE u.pc = p
  BY <1>3, <1>5 DEF Finish, Events
<1>6. \A j \in DOMAIN events : /\ events'[j].type = events[j].type
                               /\ events'[j].sub = events[j].sub
                               /\ events'[j].ending = events[j].ending
  BY <1>1
<1>7. e.pc # "acked" /\ (e.pc = "cleaning" => UNCHANGED row)
  <2>1. e.pc # "acked"
    BY OwnStep
  <2>2. e.pc = "cleaning" => CleanUp(i) \/ Throws(i) \/ Dies(i)
    BY DEF Handle, Claim, ReadDebt, BillDebt, Snapshot, Reconcile, BillGap, Activate, Grant,
           Reset, Revoke, ReadSubscription, MarkPastDue, Sync, Drop, Disallow, On
  <2>. QED
    BY <2>1, <2>2 DEF CleanUp, Throws, Dies
<1> DEFINE Shown ==
             /\ u.pc \in {"limits", "cleaning"} => e.type \in {"updated", "deleted"}
             /\ u.pc \in {"revoked", "seen"} => ~ overages' \/ e.pc = "revoked"
             /\ Ends(i) => Ends(i)' \/ ~ overages'
             /\ Writes(i) \/ (UNCHANGED row /\ (About(e) /\ Written(i)' => Written(i)))
<1>8. ASSUME Claim(i) \/ BillDebt(i) \/ BillGap(i) \/ Revoke(i) PROVE Shown
  <2>1. UNCHANGED row
    BY <1>8 DEF Claim, BillDebt, BillGap, Revoke
  <2>2. u.pc \in {"claimed", "billed", "gapBilled", "revoked"}
    BY <1>4, <1>8 DEF Claim, BillDebt, BillGap, Revoke
  <2>3. u.pc = "revoked" => ~ overages'
    BY <1>4, <1>8 DEF Claim, BillDebt, BillGap, Revoke
  <2>. QED
    BY <1>1, <2>1, <2>2, <2>3 DEF Written, Ends
<1>9. ASSUME ReadDebt(i) \/ Snapshot(i) PROVE Shown
  <2>1. UNCHANGED row /\ e.type = "created"
    BY <1>9 DEF ReadDebt, Snapshot, On
  <2>2. u.pc \in {"debt", "acked"}
    <3>1. CASE ReadDebt(i)
      BY <1>3, <3>1 DEF ReadDebt, Events
    <3>2. CASE Snapshot(i)
      BY <1>5, <3>2 DEF Snapshot
    <3>. QED
      BY <1>9, <3>1, <3>2
  <2>. QED
    BY <1>1, <2>1, <2>2 DEF About, Ends
<1>10. ASSUME Reconcile(i) \/ ReadSubscription(i) PROVE Shown
  <2>1. UNCHANGED row /\ e.pc \in {"claimed", "revoked"}
    BY <1>10 DEF Reconcile, ReadSubscription, On
  <2>2. u.pc \in {"reconciled", "gapBilled", "seen"} /\ (u.pc = "seen" => e.pc = "revoked")
    <3>1. CASE Reconcile(i)
      BY <1>3, <3>1 DEF Reconcile, Events
    <3>2. CASE ReadSubscription(i)
      BY <1>3, <3>2 DEF ReadSubscription, Events, On
    <3>. QED
      BY <1>10, <3>1, <3>2
  <2>. QED
    BY <1>1, <2>1, <2>2 DEF Written, Ends
<1>11. ASSUME Throws(i) \/ Dies(i) PROVE Shown
  <2>1. UNCHANGED row
    BY <1>11 DEF Throws, Dies
  <2>2. u.pc \in {"offered", "dead"}
    <3>1. CASE Throws(i)
      BY <1>3, <3>1 DEF Throws, Event
    <3>2. CASE Dies(i)
      BY <1>5, <3>2 DEF Dies
    <3>. QED
      BY <1>11, <3>1, <3>2
  <2>. QED
    BY <1>1, <2>1, <2>2 DEF Written, Ends
<1>12. ASSUME Grant(i) \/ Reset(i) PROVE Shown
  <2>1. UNCHANGED row /\ e.type = "paid" /\ e.pc \in {"active", "granted"}
    BY <1>12 DEF Grant, Reset, On
  <2>2. u.pc \in {"granted", "acked"}
    BY <1>4, <1>5, <1>12 DEF Grant, Reset
  <2>. QED
    BY <1>1, <2>1, <2>2 DEF Written, Ends
<1>13. ASSUME Disallow(i) \/ CleanUp(i) PROVE Shown
  <2>1. /\ UNCHANGED row
        /\ \/ e.pc = "limits" /\ ~ overages' /\ u.pc = "cleaning"
           \/ e.pc = "cleaning" /\ u.pc = "acked"
    BY <1>4, <1>5, <1>13 DEF Disallow, CleanUp
  <2>2. e.type \in {"updated", "deleted"}
    BY <2>1 DEF LimitsOfEnd
  <2>. QED
    BY <1>1, <2>1, <2>2 DEF Written, Ends
<1>14. ASSUME Activate(i) PROVE Shown
  <2>1. /\ e.type = "paid" /\ status' = "ACTIVE" /\ cancels' = cancels /\ u.pc = "active"
    BY <1>4, <1>14 DEF Activate, On
  <2>2. Writes(i)
    BY <2>1 DEF Writes, About, Says, Clears
  <2>. QED
    BY <1>1, <2>1, <2>2 DEF Ends
<1>15. ASSUME MarkPastDue(i) PROVE Shown
  <2>1. /\ e.type = "failed" /\ e.pc = "seen" /\ status' = "PAST_DUE" /\ cancels' = cancels
        /\ u.pc = "acked" /\ since' = Clock(i)
    BY <1>5, <1>15 DEF MarkPastDue, On
  <2>2. Clock(i) # Null
    BY <1>3 DEF Clock, Null
  <2>3. Writes(i)
    BY <2>1, <2>2 DEF Writes, About, Says, Clears
  <2>. QED
    BY <1>1, <2>1, <2>3 DEF Ends
<1>16. ASSUME Sync(i) PROVE Shown
  <2>1. /\ e.type = "updated" /\ status' = StatusOf(e.sub) /\ cancels' = e.ending
        /\ since' = IF e.sub = "active" THEN Null ELSE since
        /\ u.pc = IF e.ending THEN "limits" ELSE "cleaning"
    BY <1>4, <1>5, <1>16 DEF Sync, On
  <2>2. Writes(i)
    BY <2>1 DEF Writes, About, Says, Clears
  <2>. QED
    BY <1>1, <2>1, <2>2 DEF Ends
<1>17. ASSUME Drop(i) PROVE Shown
  <2>1. /\ e.type = "deleted" /\ status' = "CANCELED" /\ since' = since /\ u.pc = "limits"
    BY <1>4, <1>17 DEF Drop, On
  <2>2. e.sub = "canceled"
    BY <2>1 DEF Shapes
  <2>3. Writes(i)
    BY <2>1, <2>2 DEF Writes, About, Says, Clears, StatusOf
  <2>. QED
    BY <1>1, <2>1, <2>3 DEF Ends
<1>18. Shown
  BY <1>8, <1>9, <1>10, <1>11, <1>12, <1>13, <1>14, <1>15, <1>16, <1>17 DEF Handle
<1>. QED
  BY <1>1, <1>2, <1>6, <1>7, <1>18

(* Only a request allows overages, and marks it when a handler is at work or the row
   forbids them. *)
LEMMA OffStays ==
    ASSUME TypeOK, Off, overages' => overages, raced' = raced
    PROVE  Off'
  BY Zenon DEF Off

LEMMA AllowedOff ==
    ASSUME NEW r \in Requests, AllowOverages(r)
    PROVE  /\ UNCHANGED <<stripe, events, credits, row, overtaken, crossed>>
           /\ AtWork \/ status # "ACTIVE" \/ cancels => Off'
  BY Zenon DEF AllowOverages, Asks, Off

LEMMA OffStep ==
    ASSUME TypeOK, StripeTells, OffInv, [Next]_vars
    PROVE  OffInv'
<1>1. AskedLast /\ LimitsOfEnd /\ RevokedOff /\ EndedOff /\ Shapes(events, sub)
  BY DEF OffInv, StripeTells, Told
<1>2. ASSUME NEW i \in DOMAIN events, Handle(i) \/ Throws(i) \/ Dies(i) PROVE OffInv'
  <2>1. /\ UNCHANGED <<sub, ending, bill, request, raced, crossed>>
        /\ overages' => overages
        /\ DOMAIN events' = DOMAIN events
        /\ \A j \in DOMAIN events \ {i} : events'[j] = events[j]
        /\ \A j \in DOMAIN events : /\ events'[j].type = events[j].type
                                    /\ events'[j].sub = events[j].sub
                                    /\ events'[j].ending = events[j].ending
        /\ events'[i].pc \in {"limits", "cleaning"} => events[i].type \in {"updated", "deleted"}
        /\ events'[i].pc \in {"revoked", "seen"} => ~ overages' \/ events[i].pc = "revoked"
        /\ Ends(i) => Ends(i)' \/ ~ overages'
        /\ events[i].pc # "acked"
        /\ events[i].pc = "cleaning" => UNCHANGED row
        /\ Writes(i) \/ UNCHANGED row
    BY <1>1, <1>2, HandlerWrites
  <2>2. Off => Off'
    BY <2>1, OffStays
  <2>3. ~ overages' => Off'
    BY DEF Off
  <2>4. AskedLast'
    BY <1>1, <2>1 DEF AskedLast
  <2>5. LimitsOfEnd'
    BY <1>1, <2>1 DEF LimitsOfEnd
  <2>6. RevokedOff'
    <3> SUFFICES ASSUME NEW j \in DOMAIN events, events'[j].pc \in {"revoked", "seen"}
                 PROVE  Off'
      BY <2>1 DEF RevokedOff
    <3>1. CASE j = i
      BY <1>1, <2>1, <2>2, <2>3, <3>1 DEF RevokedOff
    <3>2. CASE j # i
      BY <1>1, <2>1, <2>2, <3>2 DEF RevokedOff
    <3>. QED
      BY <3>1, <3>2
  <2>7. EndedOff'
    <3> SUFFICES ASSUME status' = "CANCELED" \/ cancels', ~ Revoking', ~ Off'
                 PROVE  \E j \in DOMAIN events : Ends(j)'
      BY <2>1 DEF EndedOff
    <3>1. (Ends(i) => Ends(i)') /\ ~ Revoking
      BY <2>1, <2>3 DEF Revoking
    <3>2. CASE status = "CANCELED" \/ cancels
      <4>1. PICK j \in DOMAIN events : Ends(j)
        BY <1>1, <2>2, <3>1, <3>2 DEF EndedOff
      <4>2. j # i => Ends(j)'
        BY <2>1, <4>1 DEF Ends
      <4>. QED
        BY <3>1, <4>1, <4>2
    <3>3. CASE ~ (status = "CANCELED" \/ cancels)
      <4>1. Writes(i) /\ (status' = "CANCELED" \/ cancels') /\ ~ cancels /\ status # "CANCELED"
        BY <2>1, <3>3 DEF row
      <4>2. events[i] \in Events
        BY DEF TypeOK
      <4>3. events[i].type \in {"created", "paid", "failed", "updated", "deleted"}
            /\ events[i].sub \in SubStates
        BY <4>2 DEF Events
      <4>4. events[i].type = "deleted" \/ (events[i].type = "updated" /\ events[i].ending)
        <5>1. CASE events[i].type \in {"paid", "failed"}
          BY <4>1, <5>1 DEF Writes, Says
        <5>2. CASE events[i].type = "updated"
          <6>1. events[i].sub \in {"active", "past_due"}
            BY <1>1, <4>3, <5>2 DEF Shapes, SubStates
          <6>2. status' # "CANCELED" /\ cancels' = events[i].ending
            BY <4>1, <5>2, <6>1 DEF Writes, Says, StatusOf
          <6>. QED
            BY <4>1, <5>2, <6>2
        <5>. QED
          BY <4>1, <4>3, <5>1, <5>2 DEF Writes, About
      <4>. QED
        BY <2>1, <3>1, <3>3, <4>1, <4>4 DEF Ends, row
    <3>. QED
      BY <3>2, <3>3
  <2>. QED
    BY <2>4, <2>5, <2>6, <2>7 DEF OffInv
<1>3. CASE (\E c \in Bills : Renew(c) \/ Collect(c) \/ Decline(c)) \/ End
              \/ \E r \in Requests : CancelAtStripe(r) \/ ResumeAtStripe(r)
  <2>1. UNCHANGED <<row, overages, raced>>
    BY <1>3 DEF Renew, Collect, Decline, End, CancelAtStripe, ResumeAtStripe, Gateway, history
  <2>2. PICK es \in Seq(Events) : Emits(es) /\ \A k \in DOMAIN es : es[k].pc = "offered"
    BY <1>3, Emitted
  <2>3. /\ DOMAIN events \subseteq DOMAIN events'
        /\ \A j \in DOMAIN events : events'[j] = events[j]
        /\ \A j \in DOMAIN events' \ DOMAIN events : events'[j].pc = "offered"
    BY <2>2, EmitsType
  <2>4. AskedLast' /\ (Revoking => Revoking')
    <3>1. CASE (\E c \in Bills : Renew(c) \/ Collect(c) \/ Decline(c)) \/ End
      <4>1. UNCHANGED <<request, ending, crossed>>
        BY <3>1 DEF Renew, Collect, Decline, End, Gateway, history
      <4>. QED
        BY <1>1, <4>1 DEF AskedLast, Revoking
    <3>2. ASSUME NEW r \in Requests, CancelAtStripe(r) \/ ResumeAtStripe(r)
          PROVE  AskedLast' /\ (Revoking => Revoking')
      <4>1. /\ request[r] = "idle"
            /\ \/ ending' = TRUE /\ request' = [request EXCEPT ![r] = "cancelling"]
               \/ ending' = FALSE /\ request' = [request EXCEPT ![r] = "resuming"]
            /\ ~ crossed' => \A q \in Requests \ {r} : request[q] \notin {"cancelling", "resuming"}
        BY <3>2 DEF CancelAtStripe, ResumeAtStripe, Asks, Crosses
      <4>. QED
        BY <4>1 DEF AskedLast, Revoking, TypeOK
    <3>. QED
      BY <1>3, <3>1, <3>2
  <2>5. Off' = Off
    BY <2>1 DEF Off
  <2>7. LimitsOfEnd' /\ RevokedOff'
    BY <1>1, <2>3, <2>5 DEF LimitsOfEnd, RevokedOff
  <2>8. EndedOff'
    <3>1. \A j \in DOMAIN events : Ends(j) => Ends(j)'
      BY <2>3 DEF Ends
    <3>2. status' = status /\ cancels' = cancels
      BY <2>1 DEF row
    <3>. QED
      BY <1>1, <2>3, <2>4, <2>5, <3>1, <3>2 DEF EndedOff
  <2>. QED
    BY <2>4, <2>7, <2>8 DEF OffInv
<1>4. ASSUME UNCHANGED <<events, status, ending, crossed>>, Off => Off',
             \/ UNCHANGED <<request, cancels>>
             \/ \E r \in Requests, to \in {"idle", "enabling", "revoking"} :
                   /\ request' = [request EXCEPT ![r] = to]
                   /\ request[r] = "revoking" => Off'
                   /\ cancels' => cancels \/ to = "revoking"
      PROVE  OffInv'
  <2>1. AskedLast'
    BY <1>1, <1>4 DEF AskedLast, TypeOK
  <2>2. LimitsOfEnd' /\ RevokedOff'
    BY <1>1, <1>4 DEF LimitsOfEnd, RevokedOff
  <2>3. \A j \in DOMAIN events : Ends(j)' <=> Ends(j)
    BY <1>4 DEF Ends
  <2>4. EndedOff'
    <3>1. (status' = "CANCELED" \/ cancels') /\ ~ Revoking' /\ ~ Off' =>
              (status = "CANCELED" \/ cancels) /\ ~ Revoking
      BY <1>4 DEF Revoking, TypeOK
    <3>. QED
      BY <1>1, <1>4, <2>3, <3>1 DEF EndedOff
  <2>. QED
    BY <2>1, <2>2, <2>4 DEF OffInv
<1>5. ASSUME NEW r \in Requests, AllowOverages(r) PROVE OffInv'
  <2>1. /\ UNCHANGED <<events, status, ending, cancels, crossed>>
        /\ request' = [request EXCEPT ![r] = "idle"]
        /\ AtWork \/ status # "ACTIVE" \/ cancels => Off'
    BY <1>5, AllowedOff DEF AllowOverages, stripe, row, Asks
  <2>2. AskedLast' /\ LimitsOfEnd'
    BY <1>1, <2>1 DEF AskedLast, LimitsOfEnd, TypeOK
  <2>3. RevokedOff'
    BY <2>1 DEF RevokedOff, AtWork, MidPcs
  <2>4. EndedOff'
    BY <2>1 DEF EndedOff
  <2>. QED
    BY <2>2, <2>3, <2>4 DEF OffInv
<1>6. ASSUME NEW r \in Requests, CheckToggle(r) \/ CancelRow(r) \/ ResumeRow(r) PROVE OffInv'
  <2>1. UNCHANGED <<events, status, ending, overages, raced, crossed>>
    BY <1>6 DEF CheckToggle, CancelRow, ResumeRow, stripe, row, history
  <2>2. Off' = Off
    BY <2>1 DEF Off
  <2>3. \E to \in {"idle", "enabling", "revoking"} :
            /\ request' = [request EXCEPT ![r] = to]
            /\ request[r] # "revoking"
            /\ cancels' => cancels \/ to = "revoking"
    BY <1>6 DEF CheckToggle, CancelRow, ResumeRow, Asks, row
  <2>. QED
    BY <1>4, <2>1, <2>2, <2>3
<1>7. ASSUME NEW r \in Requests, CancelOverages(r) PROVE OffInv'
  <2>1. /\ UNCHANGED <<events, status, ending, cancels, crossed>> /\ ~ overages'
        /\ request' = [request EXCEPT ![r] = "idle"]
    BY <1>7 DEF CancelOverages, Asks, stripe, row, history
  <2>2. Off'
    BY <2>1 DEF Off
  <2>. QED
    BY <1>4, <2>1, <2>2
<1>8. CASE Spend \/ ForbidOverages \/ UNCHANGED vars
  <2>1. /\ UNCHANGED <<events, status, ending, cancels, raced, crossed, request>>
        /\ overages' => overages
    BY <1>8 DEF Spend, ForbidOverages, vars, stripe, row, history
  <2>2. Off => Off'
    BY <2>1, OffStays
  <2>. QED
    BY <1>4, <2>1, <2>2
<1>. QED
  BY <1>2, <1>3, <1>5, <1>6, <1>7, <1>8 DEF Next, Request

(* In order, a handler's write is the last one about its matter. *)
LEMMA HandlerRow ==
    ASSUME TypeOK, StripeTells, OffInv, GraceInv, RowInv,
           NEW i \in DOMAIN events, Handle(i) \/ Throws(i) \/ Dies(i)
    PROVE  RowInv'
<1> SUFFICES ASSUME ~ overtaken' PROVE StatusShown' /\ CancelsShown' /\ GraceBegun'
  BY DEF RowInv
<1>1. /\ ~ overtaken
      /\ \A j \in DOMAIN events : j < i => events[j].pc = "acked"
      /\ \A k \in DOMAIN events : i < k => events[k].pc = "offered"
      /\ \A j \in DOMAIN events : j # i => j < i \/ i < j
  BY HandlerOrder
<1>2. StatusShown /\ CancelsShown /\ GraceBegun
  BY <1>1 DEF RowInv
<1>3. LimitsOfEnd /\ RevokedOff /\ Told(events, sub, ending) /\ Shapes(events, sub)
  BY DEF OffInv, StripeTells, Told
<1>4. /\ UNCHANGED <<sub, ending, bill, request, raced, crossed>>
      /\ overages' => overages
      /\ DOMAIN events' = DOMAIN events
      /\ \A j \in DOMAIN events \ {i} : events'[j] = events[j]
      /\ \A j \in DOMAIN events : /\ events'[j].type = events[j].type
                                  /\ events'[j].sub = events[j].sub
                                  /\ events'[j].ending = events[j].ending
      /\ events[i].pc # "acked"
      /\ Writes(i) \/ (UNCHANGED row /\ (About(events[i]) /\ Written(i)' => Written(i)))
  BY <1>3, HandlerWrites
<1>5. \A k \in DOMAIN events : /\ About(events'[k]) <=> About(events[k])
                               /\ Says(events'[k]) = Says(events[k])
                               /\ Latest(events', k) <=> Latest(events, k)
                               /\ LatestUpdate(events', k) <=> LatestUpdate(events, k)
                               /\ Unpaid(events', k) <=> Unpaid(events, k)
  BY <1>3, <1>4, ToldStays
<1>6. \A k \in DOMAIN events : k # i => (Written(k)' <=> Written(k))
  BY <1>4 DEF Written
<1>7. \A k \in DOMAIN events : i < k => ~ Written(k)
  BY <1>1 DEF Written
<1>8. /\ events[i].type \in {"created", "paid", "failed", "updated", "deleted"}
      /\ events[i].sub \in SubStates
  <2>1. events[i] \in Events
    BY DEF TypeOK
  <2>. QED
    BY <2>1 DEF Events
<1>9. StatusShown'
  <2>1. ASSUME NEW k \in DOMAIN events, Latest(events', k), Written(k)'
        PROVE  status' = Says(events'[k])
    <3>1. Latest(events, k) /\ Says(events'[k]) = Says(events[k])
      BY <1>5, <2>1
    <3>2. CASE Writes(i)
      <4>1. k = i
        BY <1>1, <1>6, <1>7, <2>1, <3>1, <3>2 DEF Latest, Writes
      <4>. QED
        BY <3>1, <3>2, <4>1 DEF Writes
    <3>3. CASE UNCHANGED row /\ (About(events[i]) /\ Written(i)' => Written(i))
      <4>1. Written(k)
        BY <1>6, <2>1, <3>1, <3>3 DEF Latest
      <4>. QED
        BY <1>2, <3>1, <3>3, <4>1 DEF StatusShown, row
    <3>. QED
      BY <1>4, <3>2, <3>3
  <2>2. ASSUME \A k \in DOMAIN events : ~ About(events'[k])
        PROVE  status' = "ACTIVE"
    <3>1. \A k \in DOMAIN events : ~ About(events[k])
      BY <1>5, <2>2
    <3>2. UNCHANGED row
      BY <1>4, <3>1 DEF Writes
    <3>. QED
      BY <1>2, <3>1, <3>2 DEF StatusShown, row
  <2>. QED
    BY <1>4, <2>1, <2>2 DEF StatusShown
<1>10. CancelsShown'
  <2> SUFFICES ASSUME sub # "canceled", ~ crossed
               PROVE  /\ \A k \in DOMAIN events :
                           LatestUpdate(events', k) /\ Written(k)' => cancels' = events'[k].ending
                      /\ (\A k \in DOMAIN events : events'[k].type # "updated") => ~ cancels'
    BY <1>4 DEF CancelsShown
  <2>1. Writes(i) => /\ events[i].type \in {"paid", "failed", "updated"}
                     /\ events[i].type \in {"paid", "failed"} => cancels' = cancels
                     /\ events[i].type = "updated" => cancels' = events[i].ending
    BY <1>3, <1>8 DEF Writes, Shapes, About
  <2>2. ASSUME NEW k \in DOMAIN events, LatestUpdate(events', k), Written(k)'
        PROVE  cancels' = events'[k].ending
    <3>1. LatestUpdate(events, k) /\ events'[k].ending = events[k].ending
      BY <1>4, <1>5, <2>2
    <3>2. Written(k) => cancels = events[k].ending
      BY <1>2, <3>1 DEF CancelsShown
    <3>3. CASE Writes(i)
      <4>1. CASE k = i
        BY <2>1, <3>1, <3>3, <4>1 DEF LatestUpdate
      <4>2. CASE k # i
        <5>1. Written(k) /\ k < i
          BY <1>1, <1>6, <1>7, <2>2, <4>2
        <5>2. events[i].type # "updated"
          BY <3>1, <5>1 DEF LatestUpdate
        <5>. QED
          BY <2>1, <3>1, <3>2, <3>3, <5>1, <5>2
      <4>. QED
        BY <4>1, <4>2
    <3>4. CASE UNCHANGED row /\ (About(events[i]) /\ Written(i)' => Written(i))
      <4>1. Written(k)
        BY <1>6, <2>2, <3>1, <3>4 DEF LatestUpdate, About
      <4>. QED
        BY <3>1, <3>2, <3>4, <4>1 DEF row
    <3>. QED
      BY <1>4, <3>3, <3>4
  <2>3. ASSUME \A k \in DOMAIN events : events'[k].type # "updated"
        PROVE  ~ cancels'
    <3>1. \A k \in DOMAIN events : events[k].type # "updated"
      BY <1>4, <2>3
    <3>2. ~ cancels /\ cancels' = cancels
      BY <1>2, <1>4, <2>1, <3>1 DEF CancelsShown, row
    <3>. QED
      BY <3>2
  <2>. QED
    BY <2>2, <2>3
<1>11. GraceBegun'
  <2> SUFFICES ASSUME NEW k \in DOMAIN events, Unpaid(events', k), events'[k].pc = "acked"
               PROVE  since' # Null /\ status' # "ACTIVE" /\ Off'
    BY <1>4 DEF GraceBegun
  <2>1. Unpaid(events, k) /\ events[k].type = "failed"
    BY <1>5 DEF Unpaid
  <2>2. Off => Off'
    BY <1>4, OffStays
  <2>3. CASE k = i
    <3>1. ~ Written(i) /\ Written(i)' /\ About(events[i])
      BY <1>4, <2>1, <2>3 DEF Written, About
    <3>2. Writes(i)
      BY <1>4, <3>1
    <3>3. since' # Null /\ status' = "PAST_DUE" /\ events[i].pc = "seen"
      BY <2>1, <2>3, <3>2 DEF Writes, Says
    <3>. QED
      BY <1>3, <2>2, <3>3 DEF RevokedOff
  <2>4. CASE k # i
    <3>1. since # Null /\ status # "ACTIVE" /\ Off /\ k < i
      BY <1>1, <1>2, <1>4, <2>1, <2>4 DEF GraceBegun
    <3>2. CASE Writes(i)
      <4>1. ~ Clears(events[i])
        BY <2>1, <3>1 DEF Unpaid
      <4>2. events[i].type \in {"failed", "updated", "deleted"}
            /\ (events[i].type \in {"updated", "deleted"} => events[i].sub # "active")
        BY <1>3, <1>8, <3>2, <4>1 DEF Writes, Clears, About, Shapes
      <4>3. status' # "ACTIVE"
        BY <1>8, <3>2, <4>2 DEF Writes, Says, StatusOf, SubStates
      <4>. QED
        BY <2>2, <3>1, <3>2, <4>1, <4>3 DEF Writes
    <3>3. CASE UNCHANGED row
      BY <2>2, <3>1, <3>3 DEF row
    <3>. QED
      BY <1>4, <3>2, <3>3
  <2>. QED
    BY <2>3, <2>4
<1>. QED
  BY <1>9, <1>10, <1>11

LEMMA RowStep ==
    ASSUME TypeOK, StripeTells, OffInv, GraceInv, RowInv, [Next]_vars
    PROVE  RowInv'
<1>1. CASE \E i \in DOMAIN events : Handle(i) \/ Throws(i) \/ Dies(i)
  BY <1>1, HandlerRow
<1>2. CASE (\E c \in Bills : Renew(c) \/ Collect(c) \/ Decline(c)) \/ End
              \/ \E r \in Requests : CancelAtStripe(r) \/ ResumeAtStripe(r)
  <2>1. /\ UNCHANGED <<row, overages, overtaken, raced>> /\ sub # "canceled"
        /\ ~ crossed' => ~ crossed
    <3>1. CASE (\E c \in Bills : Renew(c) \/ Collect(c) \/ Decline(c)) \/ End
      <4>1. UNCHANGED <<row, overages, history>>
        BY <3>1 DEF Renew, Collect, Decline, End, Gateway
      <4>2. sub # "canceled"
        BY <3>1 DEF Renew, Collect, Decline, End, Payable
      <4>. QED
        BY <4>1, <4>2 DEF history
    <3>2. CASE \E r \in Requests : CancelAtStripe(r) \/ ResumeAtStripe(r)
      BY <3>2 DEF CancelAtStripe, ResumeAtStripe
    <3>. QED
      BY <1>2, <3>1, <3>2
  <2>2. PICK es \in Seq(Events) : Emits(es) /\ \A k \in DOMAIN es : es[k].pc = "offered"
    BY <1>2, Emitted
  <2>3. /\ DOMAIN events \subseteq DOMAIN events'
        /\ \A j \in DOMAIN events : events'[j] = events[j]
        /\ \A j \in DOMAIN events' \ DOMAIN events : events'[j].pc = "offered"
    BY <2>2, EmitsType
  <2>4. \A k \in DOMAIN events' : Written(k)' \/ events'[k].pc = "acked" =>
            k \in DOMAIN events /\ Written(k)
    BY <2>3 DEF Written
  <2>5. \A k \in DOMAIN events : /\ Latest(events', k) => Latest(events, k)
                                 /\ LatestUpdate(events', k) => LatestUpdate(events, k)
                                 /\ Unpaid(events', k) => Unpaid(events, k)
    BY <2>3 DEF Latest, LatestUpdate, Unpaid
  <2> SUFFICES ASSUME ~ overtaken' PROVE StatusShown' /\ CancelsShown' /\ GraceBegun'
    BY DEF RowInv
  <2>6. StatusShown /\ CancelsShown /\ GraceBegun
    BY <2>1 DEF RowInv
  <2>7. status' = status /\ since' = since /\ cancels' = cancels /\ Off' = Off
    BY <2>1 DEF row, Off
  <2>8. StatusShown'
    BY <2>3, <2>4, <2>5, <2>6, <2>7 DEF StatusShown
  <2>9. CancelsShown'
    BY <2>1, <2>3, <2>4, <2>5, <2>6, <2>7 DEF CancelsShown
  <2>10. GraceBegun'
    <3> SUFFICES ASSUME NEW k \in DOMAIN events', Unpaid(events', k), events'[k].pc = "acked"
                 PROVE  since # Null /\ status # "ACTIVE" /\ Off
      BY <2>7 DEF GraceBegun
    <3>1. k \in DOMAIN events /\ Unpaid(events, k) /\ events[k].pc = "acked"
      BY <2>3, <2>4, <2>5
    <3>. QED
      BY <2>6, <3>1 DEF GraceBegun
  <2>. QED
    BY <2>8, <2>9, <2>10
<1>3. ASSUME UNCHANGED <<events, sub, status, since, overtaken, crossed>>,
             Off /\ status # "ACTIVE" => Off',
             sub # "canceled" /\ ~ crossed /\ cancels' # cancels => cancels' = ending
      PROVE  RowInv'
  <2> SUFFICES ASSUME ~ overtaken' PROVE StatusShown' /\ CancelsShown' /\ GraceBegun'
    BY DEF RowInv
  <2>1. StatusShown /\ CancelsShown /\ GraceBegun
    BY <1>3 DEF RowInv
  <2>2. \A k \in DOMAIN events : Written(k)' <=> Written(k)
    BY <1>3 DEF Written
  <2>3. StatusShown'
    BY <1>3, <2>1, <2>2 DEF StatusShown
  <2>4. GraceBegun'
    BY <1>3, <2>1 DEF GraceBegun
  <2>5. CancelsShown'
    <3>1. CASE sub # "canceled" /\ ~ crossed /\ cancels' # cancels
      <4>1. cancels' = ending
        BY <1>3, <3>1
      <4>2. CASE ~ ending /\ \A k \in DOMAIN events : events[k].type # "updated"
        BY <1>3, <4>1, <4>2 DEF CancelsShown, LatestUpdate
      <4>3. CASE \E k \in DOMAIN events : LatestUpdate(events, k) /\ events[k].ending = ending
        <5>1. PICK k \in DOMAIN events : LatestUpdate(events, k) /\ events[k].ending = ending
          BY <4>3
        <5>2. ASSUME NEW j \in DOMAIN events, LatestUpdate(events, j) PROVE j = k
          <6>1. j < k \/ j = k \/ k < j
            BY DEF TypeOK
          <6>. QED
            BY <5>1, <5>2, <6>1 DEF LatestUpdate
        <5>. QED
          BY <1>3, <4>1, <5>1, <5>2 DEF CancelsShown, LatestUpdate
      <4>. QED
        BY <4>2, <4>3 DEF StripeTells, Told, EndingTold
    <3>2. CASE ~ (sub # "canceled" /\ ~ crossed /\ cancels' # cancels)
      BY <1>3, <2>1, <2>2, <3>2 DEF CancelsShown
    <3>. QED
      BY <3>1, <3>2
  <2>. QED
    BY <2>3, <2>4, <2>5
<1>4. ASSUME NEW r \in Requests, AllowOverages(r) PROVE RowInv'
  BY <1>3, <1>4, AllowedOff DEF stripe, row
<1>5. ASSUME NEW r \in Requests, CancelRow(r) \/ ResumeRow(r) PROVE RowInv'
  <2>1. /\ UNCHANGED <<events, sub, status, since, overtaken, crossed>>
        /\ overages' = overages /\ raced' = raced
        /\ \/ request[r] = "cancelling" /\ cancels' = TRUE
           \/ request[r] = "resuming" /\ cancels' = FALSE
    BY <1>5 DEF CancelRow, ResumeRow, Asks, stripe, history
  <2>2. Off' = Off
    BY <2>1 DEF Off
  <2>3. ~ crossed => cancels' = ending
    BY <2>1 DEF OffInv, AskedLast, TypeOK
  <2>. QED
    BY <1>3, <2>1, <2>2, <2>3
<1>6. CASE \/ ForbidOverages \/ Spend \/ UNCHANGED vars
           \/ \E r \in Requests : CancelOverages(r) \/ CheckToggle(r)
  <2>1. /\ UNCHANGED <<events, sub, status, since, overtaken, crossed, cancels, raced>>
        /\ overages' = overages \/ ~ overages'
    BY <1>6 DEF ForbidOverages, CancelOverages, CheckToggle, Spend, vars, stripe, row, history
  <2>2. Off => Off'
    BY <2>1 DEF Off
  <2>. QED
    BY <1>3, <2>1, <2>2
<1>. QED
  BY <1>1, <1>2, <1>4, <1>5, <1>6 DEF Next, Request

LEMMA StripeTellsStays ==
    ASSUME TypeOK, OneAtATime, StripeTells, [Next]_vars
    PROVE  StripeTells'
<1>1. OneDue /\ Told(events, sub, ending) /\ Shapes(events, sub)
  BY DEF StripeTells, Told
<1>2. ASSUME NEW i \in DOMAIN events, Handle(i) \/ Throws(i) \/ Dies(i) PROVE StripeTells'
  <2>1. UNCHANGED <<sub, ending, bill>>
    BY <1>2 DEF Handle, Throws, Dies, Claim, ReadDebt, BillDebt, Snapshot, Reconcile, BillGap,
         Activate, Grant, Reset, Revoke, ReadSubscription, MarkPastDue, Sync, Drop, Disallow, CleanUp,
         stripe
  <2>2. /\ DOMAIN events' = DOMAIN events
        /\ \A j \in DOMAIN events : /\ events'[j].type = events[j].type
                                    /\ events'[j].sub = events[j].sub
                                    /\ events'[j].ending = events[j].ending
    <3>1. PICK r \in Events : /\ events' = [events EXCEPT ![i] = r]
                              /\ r.type = events[i].type
                              /\ r.sub = events[i].sub /\ r.ending = events[i].ending
      BY <1>2, OwnStep
    <3>2. /\ DOMAIN events' = DOMAIN events /\ events'[i] = r
          /\ \A j \in DOMAIN events \ {i} : events'[j] = events[j]
      BY <3>1, EntryChanges DEF TypeOK
    <3>. QED
      BY <3>1, <3>2
  <2>3. Told(events', sub, ending)
    BY <1>1, <2>2, ToldStays
  <2>. QED
    BY <1>1, <2>1, <2>3 DEF StripeTells, OneDue
<1>3. CASE \/ \E c \in Bills : Renew(c) \/ Collect(c) \/ Decline(c)
           \/ End \/ \E r \in Requests : CancelAtStripe(r) \/ ResumeAtStripe(r)
  BY <1>3, StripeTellsStep
<1>4. CASE \/ Spend \/ ForbidOverages \/ UNCHANGED vars
           \/ \E r \in Requests : \/ CheckToggle(r) \/ AllowOverages(r) \/ CancelRow(r)
                                 \/ CancelOverages(r) \/ ResumeRow(r)
  <2>1. UNCHANGED <<events, sub, ending, bill>>
    BY <1>4 DEF Spend, CheckToggle, AllowOverages, ForbidOverages, CancelRow, CancelOverages,
                ResumeRow, vars, stripe
  <2>. QED
    BY <1>1, <2>1 DEF StripeTells, OneDue
<1>. QED
  BY <1>2, <1>3, <1>4 DEF Next, Request

(* Once the events were handled, in order, and the requests are done, the row says what
   Stripe says: the status, that the grace has begun, that overages are off unless they
   were allowed meanwhile, and, unless two requests crossed between Stripe and the row,
   whether the subscription ends.  For any number of renewals, declined charges and
   requests that overlap, whatever handlers throw or die and whoever toggles, cancels or
   resumes between their steps, as long as no invoice is issued over an unpaid one. *)
THEOREM RowMirrorsStripe == ASSUME OneAtATime PROVE Spec => []MirrorsStripe
<1>1. Init => StripeTells /\ OffInv /\ RowInv
  <2> SUFFICES ASSUME Init PROVE StripeTells /\ OffInv /\ RowInv
    OBVIOUS
  <2>1. DOMAIN events = {} /\ sub = "active" /\ ~ ending /\ status = "ACTIVE" /\ ~ cancels
        /\ \A r \in Requests : request[r] = "idle"
    BY DEF Init
  <2>2. StripeTells
    BY <2>1 DEF Init, StripeTells, OneDue, Told, StatusTold, EndingTold, DunningTold, Shapes
  <2>3. OffInv
    BY <2>1 DEF OffInv, AskedLast, LimitsOfEnd, RevokedOff, EndedOff
  <2>4. RowInv
    BY <2>1 DEF RowInv, StatusShown, CancelsShown, GraceBegun
  <2>. QED
    BY <2>2, <2>3, <2>4
<1>2. TypeOK /\ GraceInv /\ StripeTells /\ OffInv /\ RowInv /\ [Next]_vars =>
          (StripeTells /\ OffInv /\ RowInv)'
  BY StripeTellsStays, OffStep, RowStep
<1>3. TypeOK /\ StripeTells /\ OffInv /\ RowInv => MirrorsStripe
  <2> SUFFICES ASSUME TypeOK, StripeTells, OffInv, RowInv,
                      AllHandled, ~ overtaken, Idle
               PROVE  /\ status = StatusOf(sub)
                      /\ sub # "canceled" => cancels = ending \/ crossed
                      /\ status = "PAST_DUE" => since # Null
                      /\ status # "ACTIVE" \/ cancels => ~ overages \/ raced
    BY DEF MirrorsStripe
  <2>1. /\ StatusTold(events, sub) /\ EndingTold(events, ending) /\ DunningTold(events, sub)
        /\ StatusShown /\ CancelsShown /\ GraceBegun /\ EndedOff
    BY DEF StripeTells, Told, RowInv, OffInv
  <2>2. \A i \in DOMAIN events : events[i].pc = "acked" /\ Written(i) /\ ~ Ends(i)
    BY DEF AllHandled, Written, Ends
  <2>3. sub \in SubStates /\ status \in Statuses /\ ending \in BOOLEAN /\ cancels \in BOOLEAN
    BY DEF TypeOK
  <2>4. status = StatusOf(sub)
    <3>1. CASE sub = "active" /\ \A i \in DOMAIN events : ~ About(events[i])
      BY <2>1, <3>1 DEF StatusShown, StatusOf
    <3>2. CASE \E i \in DOMAIN events : Latest(events, i) /\ Says(events[i]) = StatusOf(sub)
      BY <2>1, <2>2, <3>2 DEF StatusShown
    <3>. QED
      BY <2>1, <3>1, <3>2 DEF StatusTold
  <2>5. ASSUME sub # "canceled", ~ crossed PROVE cancels = ending
    <3>1. CASE ~ ending /\ \A i \in DOMAIN events : events[i].type # "updated"
      BY <2>1, <2>3, <2>5, <3>1 DEF CancelsShown
    <3>2. CASE \E i \in DOMAIN events : LatestUpdate(events, i) /\ events[i].ending = ending
      BY <2>1, <2>2, <2>5, <3>2 DEF CancelsShown
    <3>. QED
      BY <2>1, <3>1, <3>2 DEF EndingTold
  <2>6. status = "PAST_DUE" => since # Null /\ Off
    <3>1. status = "PAST_DUE" => sub = "past_due"
      BY <2>3, <2>4 DEF StatusOf, SubStates
    <3>. QED
      BY <2>1, <2>2, <3>1 DEF DunningTold, GraceBegun
  <2>7. status = "CANCELED" \/ cancels => Off
    BY <2>1, <2>2 DEF EndedOff, Revoking, Idle
  <2>. QED
    BY <2>3, <2>4, <2>5, <2>6, <2>7 DEF Statuses, Off
<1>. QED
  BY <1>1, <1>2, <1>3, GraceHolds, PTL DEF Spec
================================================================================
