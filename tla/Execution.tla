-------------------------------- MODULE Execution --------------------------------
(*****************************************************************************)
(* The row of an execution while WorkflowsService runs it: created PENDING,    *)
(* then COMPLETED, FAILED or CANCELLED by calls of updateStatus that may be    *)
(* under way together, charged at the end, counted in the statistics of the    *)
(* workflow.  A sync run answers its caller; a stream goes on in the           *)
(* background after its caller has everything.                                 *)
(*                                                                             *)
(* The workflows here are the client's own (isInternal is false); which        *)
(* balance a charge leaves is module CreditLedger's subject.                   *)
(*****************************************************************************)
EXTENDS Naturals, FiniteSets

CONSTANTS
    Runs,        \* ids of executions
    MaxRetries,  \* withRetry: how often an unavailable agents service is asked again
    Faults,      \* the failures this environment has
    MaxFaults    \* bound: how many failures happen

None == "none"
Outcomes == {"COMPLETED", "FAILED"}

(* The calls of updateStatus: of a success, of a failure, of the 'error' of a stream. *)
Calls == Outcomes \cup {"ERROR"}
Outcome(call) == IF call = "ERROR" THEN "FAILED" ELSE call
Failures == {"FAILED", "ERROR"}

ASSUME ExecutionAssumption ==
    /\ MaxRetries \in Nat
    /\ MaxFaults \in Nat
    /\ Faults \subseteq {"agent", "silent", "database", "charge", "crash"}

VARIABLES
    status,   \* [Runs -> executions.status, None while there is no row]
    run,      \* [Runs -> progress of execute or executeStream]
    upd,      \* [Runs -> [Calls -> progress of that call]]
    conv,     \* [Runs -> progress of the update of the conversation's totals]
    deleted,  \* runs whose conversation was deleted meanwhile
    silent,   \* runs whose agents call gets no answer
    cancel,   \* [Runs -> progress of cancel]
    charged,  \* runs with a row EXECUTION_DEDUCTION
    counted,  \* [Runs -> how often the statistics of the workflow counted the run]
    faults,   \* failures so far
    hit,      \* history: runs that lost a query or their process
    late      \* history: runs whose COMPLETED was written after a FAILED

outside == <<deleted, cancel>>
money == <<charged, counted>>
history == <<hit, late>>
vars == <<status, run, upd, conv, outside, silent, money, faults, history>>

--------------------------------------------------------------------------------
Pcs == {"idle", "created", "quiet", "trying", "erred", "joining", "closing", "charging", "failing",
        "over", "dead"}
Progress == {None, "row", "stats", "done", "unwritten", "uncounted"}
Ended == {"done", "unwritten", "uncounted"}

At(r, pc) == run[r].pc = pc
Goes(r, pc) == run' = [run EXCEPT ![r].pc = pc]

(* The call of updateStatus leaves; it goes on by itself. *)
Launch(r, call) == upd' = [upd EXCEPT ![r][call] = "row"]
Wrote(r, call) == upd[r][call] \in {"stats", "done", "uncounted"}
Lost(r, call) == upd[r][call] \in {"unwritten", "uncounted"}
InFlight(r) == \E c \in Calls : upd[r][c] \in {"row", "stats"}

Fault(f) ==
    /\ f \in Faults
    /\ faults < MaxFaults
    /\ faults' = faults + 1

Hits(r) == hit' = hit \cup {r}

Init ==
    /\ status = [r \in Runs |-> None]
    /\ run = [r \in Runs |-> [pc |-> "idle", kind |-> None, tries |-> 0]]
    /\ upd = [r \in Runs |-> [c \in Calls |-> None]]
    /\ conv = [r \in Runs |-> None]
    /\ deleted = {}
    /\ silent = {}
    /\ cancel = [r \in Runs |-> None]
    /\ charged = {}
    /\ counted = [r \in Runs |-> 0]
    /\ faults = 0
    /\ hit = {}
    /\ late = {}

--------------------------------------------------------------------------------
(* Before the try.                                                            *)

(* The workflow may run and the credits suffice: the row is created. *)
Start(r, kind) ==
    /\ At(r, "idle")
    /\ run' = [run EXCEPT ![r] = [@ EXCEPT !.pc = "created", !.kind = kind]]
    /\ status' = [status EXCEPT ![r] = "PENDING"]
    /\ UNCHANGED <<upd, conv, outside, silent, money, faults, history>>

(* Up to here any exception leaves the row as it is: a channel without its data, a member
   who writes into a customer's conversation, a query that fails. *)
Refuse(r) ==
    /\ At(r, "created")
    /\ Goes(r, "over")
    /\ UNCHANGED <<status, upd, conv, outside, silent, money, faults, history>>

(* A member answers in person, the contact is blocked, or the conversation is in human
   hands: there is nothing to ask the agents. *)
Hush(r) ==
    /\ At(r, "created")
    /\ run' = [run EXCEPT ![r] = [@ EXCEPT !.pc = "quiet", !.kind = "quiet"]]
    /\ Launch(r, "COMPLETED")
    /\ UNCHANGED <<status, conv, outside, silent, money, faults, history>>

(* What follows the status, an update of the conversation, can only throw. *)
HushEnds(r) ==
    /\ At(r, "quiet")
    /\ upd[r]["COMPLETED"] \in Ended
    /\ Goes(r, "over")
    /\ UNCHANGED <<status, upd, conv, outside, silent, money, faults, history>>

(* The user's message is saved; the agents service is called. *)
Try(r) ==
    /\ At(r, "created")
    /\ Goes(r, "trying")
    /\ UNCHANGED <<status, upd, conv, outside, silent, money, faults, history>>

--------------------------------------------------------------------------------
(* The agents service.                                                        *)

Fails(r) ==
    /\ Goes(r, "failing")
    /\ Launch(r, "FAILED")

(* It fails for good, or saving its answer does, or the hand-over of a conversation that
   was deleted; or a stream cannot be opened. *)
TryFails(r) ==
    /\ At(r, "trying")
    /\ r \notin silent
    /\ \/ Fault("agent")
       \/ r \in deleted /\ run[r].kind = "sync" /\ UNCHANGED faults
    /\ Fails(r)
    /\ UNCHANGED <<status, conv, outside, silent, money, history>>

(* It hangs. *)
FallsSilent(r) ==
    /\ At(r, "trying")
    /\ r \notin silent
    /\ Fault("silent")
    /\ silent' = silent \cup {r}
    /\ UNCHANGED <<status, run, upd, conv, outside, money, history>>

(* Attempts 0 to MaxRetries. *)
Retry(r) ==
    /\ IF run[r].tries < MaxRetries
       THEN run' = [run EXCEPT ![r].tries = @ + 1] /\ UNCHANGED upd
       ELSE Fails(r)
    /\ silent' = silent \ {r}
    /\ UNCHANGED <<status, conv, outside, money, history>>

(* withRetry: UNAVAILABLE, and the deadline of a sync call, are tried again. *)
Unavailable(r) ==
    /\ At(r, "trying") /\ run[r].kind = "sync" /\ r \notin silent
    /\ Fault("agent")
    /\ Retry(r)

Deadline_OfStreams(r) ==
    /\ At(r, "trying") /\ run[r].kind = "stream" /\ r \in silent
    /\ Retry(r)
    /\ UNCHANGED faults

Deadline(r) ==
    /\ At(r, "trying") /\ run[r].kind = "sync" /\ r \in silent
    /\ Retry(r)
    /\ UNCHANGED faults

(* The answer is saved with its variables; then the status and the totals of the
   conversation are written in parallel. *)
Answer(r) ==
    /\ At(r, "trying") /\ run[r].kind = "sync" /\ r \notin silent
    /\ Goes(r, "joining")
    /\ Launch(r, "COMPLETED")
    /\ conv' = [conv EXCEPT ![r] = "open"]
    /\ UNCHANGED <<status, outside, silent, money, faults, history>>

(* 'error': the stream breaks; the status is written and not waited for. *)
StreamErrs(r) ==
    /\ At(r, "trying") /\ run[r].kind = "stream" /\ r \notin silent
    /\ Fault("agent")
    /\ Goes(r, "erred")
    /\ Launch(r, "ERROR")
    /\ UNCHANGED <<status, conv, outside, silent, money, history>>

(* It may have been the last of the stream, *)
StreamStops(r) ==
    /\ At(r, "erred")
    /\ Goes(r, "over")
    /\ UNCHANGED <<status, upd, conv, outside, silent, money, faults, history>>

(* or 'end' follows, as it does without an error: only a stream that reported one of the
   agent is FAILED. *)
StreamEnds(r) ==
    /\ At(r, "trying") \/ At(r, "erred")
    /\ run[r].kind = "stream" /\ r \notin silent
    /\ Goes(r, "closing")
    /\ \/ Launch(r, "COMPLETED") /\ UNCHANGED faults
       \/ Launch(r, "FAILED") /\ Fault("agent")
    /\ UNCHANGED <<status, conv, outside, silent, money, history>>

--------------------------------------------------------------------------------
(* updateStatus.                                                              *)

(* The row; CANCELLED may be overwritten as well as any other status. *)
WriteRow(r, c) ==
    /\ upd[r][c] = "row"
    /\ upd' = [upd EXCEPT ![r][c] = "stats"]
    /\ status' = [status EXCEPT ![r] = Outcome(c)]
    /\ late' = IF c = "COMPLETED" /\ \E f \in Failures : Wrote(r, f)
               THEN late \cup {r} ELSE late
    /\ UNCHANGED <<run, conv, outside, silent, money, faults, hit>>

(* updateWorkflowStats. *)
CountStats(r, c) ==
    /\ upd[r][c] = "stats"
    /\ upd' = [upd EXCEPT ![r][c] = "done"]
    /\ counted' = [counted EXCEPT ![r] = @ + 1]
    /\ UNCHANGED <<status, run, conv, outside, silent, charged, faults, history>>

(* One of its queries fails, or succeeds and its reply is lost. *)
UpdateFails(r, c) ==
    /\ Fault("database")
    /\ Hits(r)
    /\ \/ /\ upd[r][c] = "row"
          /\ upd' = [upd EXCEPT ![r][c] = "unwritten"]
          /\ UNCHANGED counted
       \/ /\ upd[r][c] = "stats"
          /\ upd' = [upd EXCEPT ![r][c] = "uncounted"]
          /\ counted' \in {counted, [counted EXCEPT ![r] = @ + 1]}
    /\ UNCHANGED <<status, run, conv, outside, silent, charged, late>>

(* conversations.update, which does not find a deleted conversation. *)
UpdateConversation(r) ==
    /\ conv[r] = "open"
    /\ \/ /\ conv' = [conv EXCEPT ![r] = IF r \in deleted THEN "failed" ELSE "done"]
          /\ UNCHANGED <<faults, hit>>
       \/ /\ Fault("database") /\ Hits(r)
          /\ conv' = [conv EXCEPT ![r] = "failed"]
    /\ UNCHANGED <<status, run, upd, outside, silent, money, late>>

--------------------------------------------------------------------------------
(* The end of the try.                                                        *)

Join_First(r) ==
    /\ At(r, "joining")
    /\ upd[r]["COMPLETED"] = "done" \/ conv[r] = "done"
    /\ Goes(r, "charging")
    /\ UNCHANGED <<status, upd, conv, outside, silent, money, faults, history>>

(* Promise.all: both are there. *)
Join(r) ==
    /\ At(r, "joining")
    /\ upd[r]["COMPLETED"] = "done" /\ conv[r] = "done"
    /\ Goes(r, "charging")
    /\ UNCHANGED <<status, upd, conv, outside, silent, money, faults, history>>

JoinFails_KeepsStatus(r) ==
    /\ At(r, "joining")
    /\ Lost(r, "COMPLETED") \/ conv[r] = "failed"
    /\ Goes(r, "over")
    /\ UNCHANGED <<status, upd, conv, outside, silent, money, faults, history>>

(* The first of the two that fails: the catch writes FAILED, the other goes on. *)
JoinFails(r) ==
    /\ At(r, "joining")
    /\ Lost(r, "COMPLETED") \/ conv[r] = "failed"
    /\ Fails(r)
    /\ UNCHANGED <<status, conv, outside, silent, money, faults, history>>

(* A stream waits for its status alone; the totals of the conversation are not critical. *)
Close(r) ==
    /\ At(r, "closing")
    /\ \E o \in Outcomes : upd[r][o] = "done"
    /\ Goes(r, "charging")
    /\ UNCHANGED <<status, upd, conv, outside, silent, money, faults, history>>

CloseFails(r) ==
    /\ At(r, "closing")
    /\ \E o \in Outcomes : Lost(r, o)
    /\ Fails(r)
    /\ UNCHANGED <<status, conv, outside, silent, money, faults, history>>

(* deductCredits. *)
Charge(r) ==
    /\ At(r, "charging")
    /\ Goes(r, "over")
    /\ charged' = charged \cup {r}
    /\ UNCHANGED <<status, upd, conv, outside, silent, counted, faults, history>>

(* It throws, before its transaction or after: a sync run is FAILED, a stream goes on. *)
ChargeFails(r) ==
    /\ At(r, "charging")
    /\ Fault("charge") /\ Hits(r)
    /\ charged' \in {charged, charged \cup {r}}
    /\ IF run[r].kind = "sync" THEN Fails(r) ELSE Goes(r, "over") /\ UNCHANGED upd
    /\ UNCHANGED <<status, conv, outside, silent, counted, late>>

(* The catch has written FAILED, or could not; the exception goes to the caller. *)
Throw(r) ==
    /\ At(r, "failing")
    /\ upd[r]["FAILED"] \in Ended
    /\ Goes(r, "over")
    /\ UNCHANGED <<status, upd, conv, outside, silent, money, faults, history>>

--------------------------------------------------------------------------------
(* What happens to a run from outside.                                        *)

(* cancel reads the status ... *)
CancelCheck(r) ==
    /\ cancel[r] = None
    /\ status[r] = "PENDING"
    /\ cancel' = [cancel EXCEPT ![r] = "checked"]
    /\ UNCHANGED <<status, run, upd, conv, deleted, silent, money, faults, history>>

CancelWrite_Counts(r) ==
    /\ cancel[r] = "checked"
    /\ cancel' = [cancel EXCEPT ![r] = "done"]
    /\ status' = [status EXCEPT ![r] = "CANCELLED"]
    /\ counted' = [counted EXCEPT ![r] = @ + 1]
    /\ UNCHANGED <<run, upd, conv, deleted, silent, charged, faults, history>>

(* ... and then writes it; the run itself is not told. *)
CancelWrite(r) ==
    /\ cancel[r] = "checked"
    /\ cancel' = [cancel EXCEPT ![r] = "done"]
    /\ status' = [status EXCEPT ![r] = "CANCELLED"]
    /\ UNCHANGED <<run, upd, conv, deleted, silent, money, faults, history>>

DeleteConversation(r) ==
    /\ run[r].pc \in {"quiet", "trying", "joining"}
    /\ r \notin deleted
    /\ deleted' = deleted \cup {r}
    /\ UNCHANGED <<status, run, upd, conv, silent, cancel, money, faults, history>>

(* The instance dies with all the run had under way. *)
Crash(r) ==
    /\ run[r].pc \notin {"idle", "over", "dead"} \/ InFlight(r) \/ conv[r] = "open"
    /\ run[r].pc # "dead"
    /\ Fault("crash") /\ Hits(r)
    /\ Goes(r, "dead")
    /\ upd' = [upd EXCEPT ![r] = [c \in Calls |-> CASE @[c] = "row"   -> "unwritten"
                                                    [] @[c] = "stats" -> "uncounted"
                                                    [] OTHER          -> @[c]]]
    /\ conv' = [conv EXCEPT ![r] = IF @ = "open" THEN "failed" ELSE @]
    /\ silent' = silent \ {r}
    /\ UNCHANGED <<status, outside, money, late>>

--------------------------------------------------------------------------------
Continue(r) ==
    \/ HushEnds(r) \/ Answer(r) \/ StreamStops(r) \/ StreamEnds(r) \/ Deadline(r)
    \/ \E c \in Calls : WriteRow(r, c) \/ CountStats(r, c)
    \/ UpdateConversation(r) \/ Join(r) \/ JoinFails(r) \/ Close(r) \/ CloseFails(r)
    \/ Charge(r) \/ Throw(r) \/ CancelWrite(r)

Break(r) ==
    \/ TryFails(r) \/ FallsSilent(r) \/ Unavailable(r) \/ StreamErrs(r)
    \/ \E c \in Calls : UpdateFails(r, c)
    \/ ChargeFails(r) \/ Crash(r)

Next ==
    \E r \in Runs :
        \/ \E kind \in {"sync", "stream"} : Start(r, kind)
        \/ Refuse(r) \/ Hush(r) \/ Try(r)
        \/ Continue(r) \/ Break(r)
        \/ CancelCheck(r) \/ DeleteConversation(r)

Spec == Init /\ [][Next]_vars

(* A process that lives continues its calls; an agents service that does not hang answers,
   and the deadline of a call passes. *)
FairSpec == Spec /\ \A r \in Runs : WF_vars(Continue(r))

--------------------------------------------------------------------------------
(* Properties.                                                                *)

(* Types of the rows, of the progress of the runs and of what happens to them. *)
TypeOK ==
    /\ status \in [Runs -> {None, "PENDING", "CANCELLED"} \cup Outcomes]
    /\ run \in [Runs -> [pc : Pcs, kind : {None, "sync", "stream", "quiet"},
                         tries : 0 .. MaxRetries]]
    /\ upd \in [Runs -> [Calls -> Progress]]
    /\ conv \in [Runs -> {None, "open", "done", "failed"}]
    /\ deleted \subseteq Runs /\ silent \subseteq Runs
    /\ cancel \in [Runs -> {None, "checked", "done"}]
    /\ charged \subseteq Runs
    /\ counted \in [Runs -> Nat]
    /\ faults \in 0 .. MaxFaults
    /\ hit \subseteq Runs /\ late \subseteq Runs

Settled(r) ==
    run[r].pc \in {"over", "dead"} /\ ~InFlight(r) /\ cancel[r] # "checked"

AgentErred(r) == run[r].kind = "stream" /\ \E f \in Failures : upd[r][f] # None

(* Once nothing of a run is under way any more, a run that was charged is COMPLETED, unless
   it was cancelled meanwhile, its stream broke or reported an error (a stream that ends is
   charged all the same), or the charge threw after it was made. *)
ChargedIsCompleted ==
    \A r \in charged :
        Settled(r) => \/ status[r] = "COMPLETED"
                      \/ cancel[r] = "done"
                      \/ AgentErred(r)
                      \/ r \in hit /\ upd[r]["COMPLETED"] = "done"

(* And a run of the agents that is COMPLETED was charged, unless its process died, its
   COMPLETED was written after a FAILED, FAILED could not be written, or it is a stream
   whose charge failed. *)
CompletedIsPaid ==
    \A r \in Runs :
        Settled(r) /\ status[r] = "COMPLETED" /\ run[r].kind # "quiet" /\ r \notin charged
            => \/ r \in late
               \/ r \in hit /\ (\/ run[r].pc = "dead"
                                \/ run[r].kind = "stream"
                                \/ upd[r]["FAILED"] = "unwritten")

(* The statistics of the workflow count a run once for each call of updateStatus it made:
   once, though it is cancelled meanwhile; twice, when the catch wrote FAILED over a
   COMPLETED that was under way or a stream that broke ended as well; never, when it was
   refused and so left PENDING. *)
CountedOnce ==
    \A r \in Runs :
        LET launched == {c \in Calls : upd[r][c] # None} IN
        Settled(r) /\ r \notin hit => counted[r] = Cardinality(launched)

(* What was called ends, and not PENDING: whatever the agents service does to a sync run,
   and unless it hangs to a stream, which has no deadline. *)
TriedRunsEnd ==
    \A r \in Runs :
        run[r].pc = "trying" ~> \/ Settled(r) /\ (status[r] # "PENDING" \/ r \in hit)
                                \/ run[r].kind = "stream" /\ r \in silent
================================================================================
