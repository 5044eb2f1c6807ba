------------------------------ MODULE CfdiStamping ------------------------------
(*****************************************************************************)
(* The fiscal stamp (CFDI) of one paid invoice of a Mexican organisation:      *)
(* three paths lead to the PAC (the authority's certified provider) - Stripe's *)
(* webhook right after the payment, the button of the panel and the nightly    *)
(* sweep, which every instance runs.  A row is claimed by a compare-and-set;   *)
(* a claim whose attempt shows no end for the grace period is resumed.         *)
(*****************************************************************************)
EXTENDS Integers

CONSTANTS
    Webhooks,    \* handlers that record the payment, then stamp
    Buttons,     \* users at the panel
    Sweeps,      \* instances that run the nightly sweep
    Faults,      \* the failures this environment has
    MaxFaults    \* bound: how many failures happen

Callers == Webhooks \cup Buttons \cup Sweeps
FaultKinds == { "redeliver", "pac", "pacReply", "save", "mark", "crash" }

ASSUME CallersAssumption ==
    /\ Webhooks \cap (Buttons \cup Sweeps) = {}
    /\ Buttons \cap Sweeps = {}
    /\ MaxFaults \in Nat
    /\ Faults \subseteq FaultKinds

VARIABLES
    status,     \* invoices.cfdiStatus; "NONE" before the row exists
    kind,       \* invoices.cfdiErrorKind
    settled,    \* paidAt is older than the grace period
    fresh,      \* cfdiLastAttemptAt is not
    enabled,    \* CFDI_ENABLED
    profile,    \* the customer's fiscal data: not validated, wrong or right
    issued,     \* CFDIs of this invoice that exist at the PAC (2: or more)
    call,       \* [Callers -> what each is doing]
    usurped,    \* history: a sweep resumed an attempt that was not dead
    faults      \* failures so far

row == <<status, kind, settled, fresh>>
vars == <<row, enabled, profile, issued, call, usurped, faults>>

--------------------------------------------------------------------------------
Statuses == {"NONE", "PENDING", "STAMPING", "STAMPED", "FAILED"}
ErrorKinds == {"CLIENT_DATA", "INTERNAL"}
Null == "NULL"

AttemptPcs == {"claimed", "creating", "saving", "failing"}
CallPcs == AttemptPcs \cup {"idle", "calling", "resuming"}

(* err: the classification a failing attempt is about to write. *)
Calls == [pc : CallPcs, err : ErrorKinds \cup {Null}]

Idle == [pc |-> "idle", err |-> Null]
Attempting == {c \in Callers : call[c].pc \in AttemptPcs}

At(c, pc) == call[c].pc = pc
Becomes(c, pc) == call' = [call EXCEPT ![c] = [pc |-> pc, err |-> Null]]
Fails(c, err) == call' = [call EXCEPT ![c] = [pc |-> "failing", err |-> err]]

Fault(f) ==
    /\ f \in Faults
    /\ faults < MaxFaults
    /\ faults' = faults + 1

Init ==
    /\ status = "NONE"
    /\ kind = Null
    /\ settled = FALSE
    /\ fresh = FALSE
    /\ enabled \in BOOLEAN
    /\ profile \in {"missing", "wrong", "right"}
    /\ issued = 0
    /\ call = [c \in Callers |-> Idle]
    /\ usurped = FALSE
    /\ faults = 0

--------------------------------------------------------------------------------
(* The three paths.                                                           *)

(* recordInvoiceAndStamp: the upsert creates the row as PENDING; when Stripe repeats
   the event it only renews paidAt.  Without a validated profile it ends there. *)
Record(w) ==
    /\ At(w, "idle")
    /\ \/ status = "NONE" /\ UNCHANGED faults
       \/ status # "NONE" /\ Fault("redeliver")
    /\ status' = IF status = "NONE" THEN "PENDING" ELSE status
    /\ settled' = FALSE
    /\ Becomes(w, IF profile = "missing" THEN "idle" ELSE "calling")
    /\ UNCHANGED <<kind, fresh, enabled, profile, issued, usurped>>

(* generateCfdi *)
Press(b) ==
    /\ At(b, "idle")
    /\ enabled
    /\ status \in {"PENDING", "FAILED"}
    /\ Becomes(b, "calling")
    /\ UNCHANGED <<row, enabled, profile, issued, usurped, faults>>

Retryable_OnlyPending == status = "PENDING" /\ kind \notin {"CLIENT_DATA", Null} /\ settled

(* In SQL `not: CLIENT_DATA' does not hold of a NULL either. *)
Retryable ==
    /\ status \in {"PENDING", "FAILED"}
    /\ kind \notin {"CLIENT_DATA", Null}
    /\ settled

Stalled_NoLongerClaimed == status = "FAILED" /\ ~fresh

Stalled == status = "STAMPING" /\ ~fresh

(* retryPending lists its candidates; each one is called later, by the status the
   list had. *)
Select(s) ==
    /\ At(s, "idle")
    /\ enabled
    /\ \/ Retryable /\ Becomes(s, "calling")
       \/ Stalled /\ Becomes(s, "resuming")
    /\ UNCHANGED <<row, enabled, profile, issued, usurped, faults>>

--------------------------------------------------------------------------------
(* An attempt.                                                                *)

Claimable_Always == enabled /\ status # "NONE"

Claimable == enabled /\ status \in {"PENDING", "FAILED"}

(* stampInvoice: the compare-and-set claims the row, or the call is skipped. *)
Stamp(c) ==
    /\ At(c, "calling")
    /\ IF Claimable
       THEN status' = "STAMPING" /\ fresh' = TRUE /\ Becomes(c, "claimed")
       ELSE UNCHANGED <<status, fresh>> /\ Becomes(c, "idle")
    /\ UNCHANGED <<kind, settled, enabled, profile, issued, usurped, faults>>

(* resumeStalledInvoice renews the attempt's time and looks at nothing. *)
Resume(s) ==
    /\ At(s, "resuming")
    /\ fresh' = TRUE
    /\ Becomes(s, "claimed")
    /\ usurped' = (usurped \/ status # "STAMPING" \/ Attempting # {})
    /\ UNCHANGED <<status, kind, settled, enabled, profile, issued, faults>>

Load(c) ==
    /\ At(c, "claimed")
    /\ IF profile = "missing" THEN Fails(c, "CLIENT_DATA") ELSE Becomes(c, "creating")
    /\ UNCHANGED <<row, enabled, profile, issued, usurped, faults>>

Issued_WithoutKey == IF issued < 2 THEN issued + 1 ELSE issued

(* idempotency_key: the PAC answers with the CFDI it already has. *)
Issued == IF issued = 0 THEN 1 ELSE issued

(* invoices.create: the PAC issues, or rejects the customer's data. *)
Create(c) ==
    /\ At(c, "creating")
    /\ \/ /\ profile = "right" \/ issued # 0
          /\ issued' = Issued
          /\ Becomes(c, "saving")
       \/ /\ profile # "right" /\ issued = 0
          /\ Fails(c, "CLIENT_DATA")
          /\ UNCHANGED issued
    /\ UNCHANGED <<row, enabled, profile, usurped, faults>>

(* The PAC is down, our key is bad, or the reply is lost after it issued. *)
CreateFails(c) ==
    /\ At(c, "creating")
    /\ \/ Fault("pac") /\ UNCHANGED issued
       \/ profile = "right" /\ Fault("pacReply") /\ issued' = Issued
    /\ Fails(c, "INTERNAL")
    /\ UNCHANGED <<row, enabled, profile, usurped>>

(* The files are in the bucket; the update clears the error. *)
Save(c) ==
    /\ At(c, "saving")
    /\ status' = "STAMPED"
    /\ kind' = Null
    /\ Becomes(c, "idle")
    /\ UNCHANGED <<settled, fresh, enabled, profile, issued, usurped, faults>>

(* A download, an upload or the update fails. *)
SaveFails(c) ==
    /\ At(c, "saving")
    /\ Fault("save")
    /\ Fails(c, "INTERNAL")
    /\ UNCHANGED <<row, enabled, profile, issued, usurped>>

(* markFailed: whatever the status is by now. *)
MarkFailed(c) ==
    /\ At(c, "failing")
    /\ status' = "FAILED"
    /\ kind' = call[c].err
    /\ Becomes(c, "idle")
    /\ UNCHANGED <<settled, fresh, enabled, profile, issued, usurped, faults>>

(* markFailed throws as well, or the instance dies: the row stays as it is. *)
Abandon(c) ==
    /\ \/ At(c, "failing") /\ Fault("mark")
       \/ call[c].pc # "idle" /\ Fault("crash")
    /\ Becomes(c, "idle")
    /\ UNCHANGED <<row, enabled, profile, issued, usurped>>

--------------------------------------------------------------------------------
(* The environment.                                                           *)

(* The grace period passes; an attempt under way may be that slow. *)
Grace ==
    /\ status # "NONE"
    /\ ~ settled \/ fresh
    /\ settled' = TRUE
    /\ fresh' = FALSE
    /\ UNCHANGED <<status, kind, enabled, profile, issued, call, usurped, faults>>

(* The customer edits the fiscal data.  The PAC's record of the customer is written
   before the SAT's verdict: a rejected edit spoils data that were right. *)
EditProfile ==
    /\ enabled
    /\ \/ profile # "right" /\ profile' = "right"
       \/ profile = "right" /\ profile' = "wrong"
    /\ UNCHANGED <<row, enabled, issued, call, usurped, faults>>

Enable ==
    /\ ~ enabled
    /\ enabled' = TRUE
    /\ UNCHANGED <<row, profile, issued, call, usurped, faults>>

Attempt(c) ==
    \/ Stamp(c) \/ Load(c) \/ Create(c) \/ Save(c) \/ MarkFailed(c)

Next ==
    \/ \E w \in Webhooks : Record(w)
    \/ \E b \in Buttons : Press(b)
    \/ \E s \in Sweeps : Select(s) \/ Resume(s)
    \/ \E c \in Callers :
        Attempt(c) \/ CreateFails(c) \/ SaveFails(c) \/ Abandon(c)
    \/ Grace \/ EditProfile \/ Enable

Spec == Init /\ [][Next]_vars

(* An attempt that started goes on, the sweep runs every night, time passes and the
   provider is turned on some day.  Nobody has to press the button. *)
Fairness ==
    /\ \A c \in Callers : WF_vars(Attempt(c))
    /\ \A s \in Sweeps : WF_vars(Select(s)) /\ WF_vars(Resume(s))
    /\ WF_vars(Grace) /\ WF_vars(Enable)

FairSpec == Spec /\ Fairness

--------------------------------------------------------------------------------
(* Properties.                                                                *)

(* Every variable has its type, and an error is pending only in a failing attempt. *)
TypeOK ==
    /\ status \in Statuses
    /\ kind \in ErrorKinds \cup {Null}
    /\ settled \in BOOLEAN /\ fresh \in BOOLEAN
    /\ enabled \in BOOLEAN
    /\ profile \in {"missing", "wrong", "right"}
    /\ issued \in 0 .. 2
    /\ call \in [Callers -> Calls]
    /\ \A c \in Callers : call[c].err # Null <=> At(c, "failing")
    /\ usurped \in BOOLEAN
    /\ faults \in 0 .. MaxFaults

(* However many paths, retries and lost replies there are, one payment has at most
   one CFDI, and an invoice shown as stamped has it. *)
OneCfdi == issued <= 1 /\ (status = "STAMPED" => issued = 1)

(* Two attempts are with the PAC at once only after a sweep resumed an attempt that
   was slow, not dead: webhook, button and sweep exclude each other. *)
OneAttempt == ~ usurped => \A c, d \in Attempting : c = d

(* Unless that happened, a stamped invoice stays stamped. *)
StampedIsFinal == [][status = "STAMPED" /\ ~ usurped' => status' = "STAMPED"]_vars

(* A failure that is not the customer's is retried until the invoice is stamped or
   the PAC rejects the customer's data. *)
InternalIsRetried ==
    (status = "FAILED" /\ kind = "INTERNAL")
        ~> (status = "STAMPED" \/ kind = "CLIENT_DATA")

(* A claim that died is taken up again: no invoice stays in STAMPING. *)
StalledIsResumed == (status = "STAMPING") ~> (status \in {"STAMPED", "FAILED"})

================================================================================
