------------------------------ MODULE ChannelTurn ------------------------------
(*****************************************************************************)
(* One WhatsApp conversation from the provider's webhook to the bot's answer: *)
(* the handlers that buffer incoming messages in Redis, the Cloud Tasks that  *)
(* close a window of silence, and the worker that takes the turn lock, drains *)
(* the buffer, executes the workflow, answers and commits.                    *)
(*                                                                            *)
(* Time is counted in ticks.  A time the code keeps as a timestamp is kept    *)
(* here as an age, saturated at the largest value a comparison can tell       *)
(* apart; the only absolute time is the window number (`bucket').             *)
(*****************************************************************************)
EXTENDS Integers, Sequences

CONSTANTS
    Messages,     \* inbound messages of the conversation
    WindowLen,    \* WHATSAPP_WINDOW_SECONDS: silence that closes a window
    MaxWindow,    \* WHATSAPP_MAX_WINDOW_SECONDS: cap on extending a window
    PollDelay,    \* TURN_POLL_SECONDS
    MaxWait,      \* TURN_MAX_WAIT_SECONDS
    LockTtl,      \* TURN_LOCK_TTL_SECONDS
    RetryDelay,   \* Cloud Tasks' wait before it repeats a failed task
    MaxBucket,    \* bound: messages arrive in windows 0..MaxBucket
    MaxExt,       \* bound: extensions of one window
    Faults,       \* the failures this environment has
    MaxFaults     \* bound: how many of the counted failures happen

FaultKinds == { "slowHook", "slowTurn",                        \* of timing, uncounted
                "hook", "schedule", "hookCrash", "redeliver",  \* of the webhook's delivery
                "lock", "rename", "read", "execute", "send", "commit", "release", "crash" }

ASSUME ParamAssumption ==
    /\ {WindowLen, PollDelay, MaxWait, LockTtl, RetryDelay} \subseteq Nat \ {0}
    /\ {MaxWindow, MaxBucket, MaxExt, MaxFaults} \subseteq Nat
    /\ WindowLen <= MaxWindow
    /\ Faults \subseteq FaultKinds

VARIABLES
    claims,     \* messages with a row in processed_webhook_events
    hook,       \* [Messages -> the delivery of that message's webhook]
    inbox,      \* the Redis list "...:inbox:...": entries [msg, age]
    proc,       \* the Redis lists "...:proc:<windowId>"
    owner,      \* the Redis key "...:busy:...": which task's attempt set it
    ttl,        \* ticks until that key expires
    tasks,      \* Cloud Tasks by name <<windowId, extension>>
    bucket,     \* floor(now / WindowLen)
    phase,      \* now % WindowLen
    faults,     \* counted failures so far
    answered,   \* history: answers sent that cover the message (2: or more)
    settled     \* history: messages whose window a worker decided to commit

redis == <<inbox, proc>>
lock == <<owner, ttl>>
clock == <<bucket, phase>>
history == <<answered, settled>>
vars == <<claims, hook, redis, lock, tasks, clock, faults, history>>

--------------------------------------------------------------------------------
Windows == 0 .. MaxBucket
Names == Windows \X (0 .. MaxExt)
NoOwner == <<-1, 0>>     \* the key does not exist
Orphan == <<-1, 1>>      \* the key exists; the attempt that set it is gone
NoTime == -1             \* a payload without busySince

HookPcs == { "offered", "claimed", "stamped", "buffered",
             "acked", "ignored", "duplicate" }
HookDone == { "acked", "ignored", "duplicate" }

InTurnPcs == { "turn", "renamed", "running", "answering", "committing", "releasing" }
BusyPcs == InTurnPcs \cup { "peeked", "replying" }    \* a request is being served
TaskPcs == BusyPcs \cup { "absent", "queued", "done" }

(* told: a repetition of the webhook was answered, as a duplicate, while this
   delivery is at work. *)
Hooks == [pc : HookPcs, win : Windows, age : 0 .. MaxWindow, told : BOOLEAN]
Hook(pc) == [pc |-> pc, win |-> 0, age |-> 0, told |-> FALSE]

(* started, busy: payload windowStartedAt and busySince.  out: the reply, for
   "retry" a 5xx and else a 2xx with the reason the body gives. *)
Tasks == [ pc : TaskPcs, delay : Nat, started : 0 .. MaxWindow,
           busy : {NoTime} \cup 0 .. MaxWait,
           turn : {"none", "held", "lapsed"},
           batch : Seq(Messages),
           out : {"none", "typing", "busy", "end", "retry"} ]

Absent == [ pc |-> "absent", delay |-> 0, started |-> 0, busy |-> NoTime,
            turn |-> "none", batch |-> <<>>, out |-> "none" ]

(* A finished task keeps its name taken and its reply, nothing else. *)
Done(out) == [Absent EXCEPT !.pc = "done", !.out = out]

Up(n, max) == IF n < max THEN n + 1 ELSE max
Down(n) == IF n > 0 THEN n - 1 ELSE 0
Least(a, b) == IF a < b THEN a ELSE b

MsgsOf(s) == {s[i] : i \in DOMAIN s}
InboxMsgs == {inbox[i].msg : i \in DOMAIN inbox}
Held == {m \in Messages : \E w \in Windows : m \in MsgsOf(proc[w])}
InTurn(t) == tasks[t].pc \in InTurnPcs
Win(t) == t[1]
NextName(t) == <<t[1], t[2] + 1>>

(* enqueue: a name that was ever used answers 409 and creates nothing. *)
Created(name, delay, started, busy) ==
    IF tasks[name].pc = "absent"
    THEN [tasks EXCEPT ![name] = [Absent EXCEPT !.pc = "queued", !.delay = delay,
                                                !.started = started, !.busy = busy]]
    ELSE tasks

(* A counted failure of the environment. *)
Fault(kind) ==
    /\ kind \in Faults
    /\ faults < MaxFaults
    /\ faults' = faults + 1

Init ==
    /\ claims = {}
    /\ hook = [m \in Messages |-> Hook("offered")]
    /\ inbox = <<>>
    /\ proc = [w \in Windows |-> <<>>]
    /\ owner = NoOwner
    /\ ttl = 0
    /\ tasks = [t \in Names |-> Absent]
    /\ bucket = 0
    /\ phase = 0
    /\ faults = 0
    /\ answered = [m \in Messages |-> 0]
    /\ settled = {}

--------------------------------------------------------------------------------
(* The webhook handler: enqueueMessage under handleWebhook's catch.           *)

HookAt(m, from, to) ==
    /\ hook[m].pc = from
    /\ hook' = [hook EXCEPT ![m].pc = to]

Claim_WithoutConstraint(m) ==
    /\ bucket \in Windows
    /\ HookAt(m, "offered", "claimed")
    /\ claims' = claims \cup {m}
    /\ UNCHANGED <<redis, lock, tasks, clock, faults, history>>

(* claim() creates the row: the message is new. *)
Claim(m) ==
    /\ bucket \in Windows
    /\ m \notin claims
    /\ HookAt(m, "offered", "claimed")
    /\ claims' = claims \cup {m}
    /\ UNCHANGED <<redis, lock, tasks, clock, faults, history>>

(* claim() hits the unique constraint: 200, duplicate. *)
SkipDuplicate(m) ==
    /\ m \in claims
    /\ HookAt(m, "offered", "duplicate")
    /\ UNCHANGED <<claims, redis, lock, tasks, clock, faults, history>>

(* Unknown, inactive or unapproved number, blocked contact, workflow missing or
   off, echo: 200 and nothing is buffered. *)
Ignore(m) ==
    /\ HookAt(m, "claimed", "ignored")
    /\ UNCHANGED <<claims, redis, lock, tasks, clock, faults, history>>

(* bufferedAt and windowId are read from the clock before the message is pushed. *)
Stamp(m) ==
    /\ bucket \in Windows
    /\ hook[m].pc = "claimed"
    /\ hook' = [hook EXCEPT ![m] = [@ EXCEPT !.pc = "stamped", !.win = bucket, !.age = 0]]
    /\ UNCHANGED <<claims, redis, lock, tasks, clock, faults, history>>

Buffer(m) ==
    /\ HookAt(m, "stamped", "buffered")
    /\ inbox' = Append(inbox, [msg |-> m, age |-> Least(hook[m].age, WindowLen)])
    /\ UNCHANGED <<claims, proc, lock, tasks, clock, faults, history>>

Schedule_OneName(m) ==
    /\ hook[m].pc = "buffered"
    /\ tasks' = Created(<<0, 0>>, WindowLen, hook[m].age, NoTime)
    /\ hook' = [hook EXCEPT ![m] = Hook("acked")]
    /\ UNCHANGED <<claims, redis, lock, clock, faults, history>>

Schedule(m) ==
    /\ hook[m].pc = "buffered"
    /\ tasks' = Created(<<hook[m].win, 0>>, WindowLen, hook[m].age, NoTime)
    /\ hook' = [hook EXCEPT ![m] = Hook("acked")]
    /\ UNCHANGED <<claims, redis, lock, clock, faults, history>>

(* A delivery that got no 2xx is repeated, unless the provider has had one for a
   repetition of it. *)
Unanswered(m) == {"offered"} \cup IF hook[m].told THEN {"duplicate"} ELSE {}

(* Anything throws after the claim: it is released, 500.  release() swallows its
   own failure, and then the claim stays. *)
HookFails(m) ==
    /\ \/ hook[m].pc \in {"claimed", "stamped"} /\ Fault("hook")
       \/ hook[m].pc = "buffered" /\ Fault("schedule")
    /\ \E pc \in Unanswered(m) : hook' = [hook EXCEPT ![m] = Hook(pc)]
    /\ claims' \in {claims \ {m}, claims}
    /\ UNCHANGED <<redis, lock, tasks, clock, history>>

(* The instance dies: no catch runs, no answer goes out. *)
HookCrashes(m) ==
    /\ Fault("hookCrash")
    /\ hook[m].pc \in {"claimed", "stamped", "buffered"}
    /\ \E pc \in Unanswered(m) : hook' = [hook EXCEPT ![m] = Hook(pc)]
    /\ UNCHANGED <<claims, redis, lock, tasks, clock, history>>

(* The provider repeats a webhook that is still at work: claim() finds the row. *)
DismissRepeat(m) ==
    /\ Fault("redeliver")
    /\ hook[m].pc \in {"claimed", "stamped", "buffered"}
    /\ ~ hook[m].told
    /\ m \in claims
    /\ hook' = [hook EXCEPT ![m].told = TRUE]
    /\ UNCHANGED <<claims, redis, lock, tasks, clock, history>>

(* The provider repeats a webhook that was answered. *)
Redeliver(m) ==
    /\ Fault("redeliver")
    /\ HookAt(m, "acked", "offered")
    /\ UNCHANGED <<claims, redis, lock, tasks, clock, history>>

--------------------------------------------------------------------------------
(* The worker: processWindow, called by Cloud Tasks for task t.               *)

TaskAt(t, from) == tasks[t].pc = from
Goto(t, pc) == tasks' = [tasks EXCEPT ![t].pc = pc]
Finish(t, out) == tasks' = [tasks EXCEPT ![t] = [@ EXCEPT !.pc = "releasing", !.out = out]]
Reply(t, out) == [tasks[t] EXCEPT !.pc = "replying", !.out = out, !.batch = <<>>]

Due(t) == TaskAt(t, "queued") /\ tasks[t].delay = 0

(* deferIfStillTyping: the last buffered message is younger than the silence asked
   for, and the window has not been extended up to its cap. *)
StillTyping(t) ==
    /\ inbox # <<>>
    /\ inbox[Len(inbox)].age < WindowLen
    /\ tasks[t].started < MaxWindow

(* The window is extended for the silence that is left; busySince is not in the
   payload of the new task. *)
DeferWhileTyping(t) ==
    /\ Due(t)
    /\ StillTyping(t)
    /\ t[2] < MaxExt
    /\ tasks' = [Created(NextName(t), WindowLen - inbox[Len(inbox)].age,
                         tasks[t].started, NoTime)
                   EXCEPT ![t] = Reply(t, "typing")]
    /\ UNCHANGED <<claims, hook, redis, lock, clock, faults, history>>

StopWaiting(t) ==
    /\ Due(t)
    /\ ~ StillTyping(t)
    /\ Goto(t, "peeked")
    /\ UNCHANGED <<claims, hook, redis, lock, clock, faults, history>>

AcquireTurn_WithoutNX(t) ==
    /\ TaskAt(t, "peeked")
    /\ owner' = t
    /\ ttl' = LockTtl
    /\ tasks' = [tasks EXCEPT ![t] = [@ EXCEPT !.pc = "turn", !.turn = "held"]]
    /\ UNCHANGED <<claims, hook, redis, clock, faults, history>>

(* SET key token NX EX ttl answers OK. *)
AcquireTurn(t) ==
    /\ TaskAt(t, "peeked")
    /\ owner = NoOwner
    /\ owner' = t
    /\ ttl' = LockTtl
    /\ tasks' = [tasks EXCEPT ![t] = [@ EXCEPT !.pc = "turn", !.turn = "held"]]
    /\ UNCHANGED <<claims, hook, redis, clock, faults, history>>

BusyFor(t) == IF tasks[t].busy = NoTime THEN 0 ELSE tasks[t].busy

(* deferWhileBusy: look again in PollDelay; windowStartedAt starts over. *)
DeferWhileBusy(t) ==
    /\ TaskAt(t, "peeked")
    /\ owner # NoOwner
    /\ BusyFor(t) < MaxWait
    /\ t[2] < MaxExt
    /\ tasks' = [Created(NextName(t), PollDelay, 0, BusyFor(t))
                   EXCEPT ![t] = Reply(t, "busy")]
    /\ UNCHANGED <<claims, hook, redis, lock, clock, faults, history>>

(* deferWhileBusy gave up: the window is processed without the turn. *)
ProceedWithoutTurn(t) ==
    /\ TaskAt(t, "peeked")
    /\ owner # NoOwner
    /\ BusyFor(t) >= MaxWait
    /\ Goto(t, "turn")
    /\ UNCHANGED <<claims, hook, redis, lock, clock, faults, history>>

(* acquireTurn's catch: Redis failed, go on with token null. *)
AcquireFails(t) ==
    /\ Fault("lock")
    /\ TaskAt(t, "peeked")
    /\ Goto(t, "turn")
    /\ UNCHANGED <<claims, hook, redis, lock, clock, history>>

Rename_FirstOnly(t) ==
    /\ TaskAt(t, "turn")
    /\ Goto(t, "renamed")
    /\ IF inbox = <<>>
       THEN UNCHANGED redis
       ELSE /\ proc' = [proc EXCEPT ![Win(t)] = <<Head(inbox).msg>>]
            /\ inbox' = Tail(inbox)
    /\ UNCHANGED <<claims, hook, lock, clock, faults, history>>

(* drainWindow, first half: RENAME inbox proc replaces whatever proc held; with no
   inbox it fails and the catch swallows it. *)
Rename(t) ==
    /\ TaskAt(t, "turn")
    /\ Goto(t, "renamed")
    /\ IF inbox = <<>>
       THEN UNCHANGED redis
       ELSE /\ proc' = [proc EXCEPT ![Win(t)] = [i \in DOMAIN inbox |-> inbox[i].msg]]
            /\ inbox' = <<>>
    /\ UNCHANGED <<claims, hook, lock, clock, faults, history>>

(* The same catch swallows a RENAME that failed because Redis did. *)
RenameFails(t) ==
    /\ Fault("rename")
    /\ TaskAt(t, "turn")
    /\ Goto(t, "renamed")
    /\ UNCHANGED <<claims, hook, redis, lock, clock, history>>

(* drainWindow, second half: LRANGE; an empty window is a success. *)
Read(t) ==
    /\ TaskAt(t, "renamed")
    /\ IF proc[Win(t)] = <<>>
       THEN Finish(t, "end")
       ELSE tasks' = [tasks EXCEPT ![t] = [@ EXCEPT !.pc = "running", !.batch = proc[Win(t)]]]
    /\ UNCHANGED <<claims, hook, redis, lock, clock, faults, history>>

(* execute() returned an assistant message. *)
Execute(t) ==
    /\ TaskAt(t, "running")
    /\ Goto(t, "answering")
    /\ UNCHANGED <<claims, hook, redis, lock, clock, faults, history>>

Decline_Retries(t) ==
    /\ TaskAt(t, "running")
    /\ Finish(t, "retry")
    /\ UNCHANGED <<claims, hook, redis, lock, clock, faults, history>>

(* Bad configuration, no text, human in the loop, no assistant message, blocked
   (Forbidden) or the model failed: the window is committed without an answer. *)
Decline(t) ==
    /\ TaskAt(t, "running")
    /\ Goto(t, "committing")
    /\ UNCHANGED <<claims, hook, redis, lock, clock, faults, history>>

Send(t) ==
    /\ TaskAt(t, "answering")
    /\ Goto(t, "committing")
    /\ answered' = [m \in Messages |-> IF m \in MsgsOf(tasks[t].batch)
                                       THEN Up(answered[m], 2) ELSE answered[m]]
    /\ UNCHANGED <<claims, hook, redis, lock, clock, faults, settled>>

(* LRANGE or anything after it throws: 5xx, and the window is not committed. *)
TurnFails(t) ==
    /\ \/ TaskAt(t, "renamed") /\ Fault("read")
       \/ TaskAt(t, "running") /\ Fault("execute")
       \/ TaskAt(t, "answering") /\ Fault("send")
    /\ Finish(t, "retry")
    /\ UNCHANGED <<claims, hook, redis, lock, clock, history>>

Commit_DeletesInbox(t) ==
    /\ TaskAt(t, "committing")
    /\ Finish(t, "end")
    /\ inbox' = <<>>
    /\ settled' = settled \cup MsgsOf(tasks[t].batch)
    /\ UNCHANGED <<claims, hook, proc, lock, clock, faults, answered>>

Commit(t) ==
    /\ TaskAt(t, "committing")
    /\ Finish(t, "end")
    /\ proc' = [proc EXCEPT ![Win(t)] = <<>>]
    /\ settled' = settled \cup MsgsOf(tasks[t].batch)
    /\ UNCHANGED <<claims, hook, inbox, lock, clock, faults, answered>>

(* commitWindow's catch: DEL failed, the turn is still a success. *)
CommitFails(t) ==
    /\ TaskAt(t, "committing")
    /\ Fault("commit")
    /\ Finish(t, "end")
    /\ settled' = settled \cup MsgsOf(tasks[t].batch)
    /\ UNCHANGED <<claims, hook, redis, lock, clock, answered>>

(* What the release script compares: the key still holds this attempt's token. *)
OwnsLock(t) == tasks[t].turn # "none" /\ owner = t

ReleaseTurn(t) ==
    /\ TaskAt(t, "releasing")
    /\ tasks' = [tasks EXCEPT ![t] = [Reply(t, @.out) EXCEPT !.turn = "none"]]
    /\ IF OwnsLock(t) THEN owner' = NoOwner /\ ttl' = 0 ELSE UNCHANGED lock
    /\ UNCHANGED <<claims, hook, redis, clock, faults, history>>

(* releaseTurn's catch: the key stays until it expires. *)
ReleaseFails(t) ==
    /\ TaskAt(t, "releasing")
    /\ Fault("release")
    /\ OwnsLock(t)
    /\ tasks' = [tasks EXCEPT ![t] = [Reply(t, @.out) EXCEPT !.turn = "none"]]
    /\ owner' = Orphan
    /\ UNCHANGED <<claims, hook, redis, ttl, clock, history>>

(* Cloud Tasks sees the status: a 2xx ends the task, a 5xx repeats it. *)
Retried(t) == [tasks[t] EXCEPT !.pc = "queued", !.delay = RetryDelay, !.turn = "none",
                               !.batch = <<>>, !.out = "none"]

Respond(t) ==
    /\ TaskAt(t, "replying")
    /\ tasks' = [tasks EXCEPT ![t] = IF @.out = "retry" THEN Retried(t) ELSE Done(@.out)]
    /\ UNCHANGED <<claims, hook, redis, lock, clock, faults, history>>

(* The instance dies before it answers: the task is repeated, the lock stays. *)
Crash(t) ==
    /\ Fault("crash")
    /\ tasks[t].pc \in BusyPcs
    /\ tasks' = [tasks EXCEPT ![t] = Retried(t)]
    /\ owner' = IF OwnsLock(t) THEN Orphan ELSE owner
    /\ UNCHANGED <<claims, hook, redis, ttl, clock, history>>

--------------------------------------------------------------------------------
(* Time.  Without "slowHook" a webhook handler ends within the tick in which it  *)
(* stamped its message; without "slowTurn" a turn ends before its lock expires.  *)

TickAllowed ==
    /\ "slowHook" \in Faults \/ \A m \in Messages : hook[m].pc \notin {"stamped", "buffered"}
    /\ "slowTurn" \in Faults \/ ttl # 1 \/ owner = Orphan

Older(t) ==
    [tasks[t] EXCEPT
        !.delay = Down(@),
        !.started = IF tasks[t].pc \in {"absent", "done"} THEN @ ELSE Up(@, MaxWindow),
        !.busy = IF @ = NoTime THEN @ ELSE Up(@, MaxWait),
        !.turn = IF ttl = 1 /\ owner = t THEN "lapsed" ELSE @]

Tick ==
    /\ TickAllowed
    /\ bucket' = IF bucket \in Windows /\ phase + 1 = WindowLen THEN bucket + 1 ELSE bucket
    /\ phase' = IF bucket' \in Windows THEN (phase + 1) % WindowLen ELSE 0
    /\ hook' = [m \in Messages |->
                  [hook[m] EXCEPT !.age = IF hook[m].pc \in {"stamped", "buffered"}
                                          THEN Up(@, MaxWindow) ELSE @]]
    /\ inbox' = [i \in DOMAIN inbox |-> [inbox[i] EXCEPT !.age = Up(@, WindowLen)]]
    /\ tasks' = [t \in Names |-> Older(t)]
    /\ ttl' = Down(ttl)
    /\ owner' = IF ttl = 1 THEN NoOwner ELSE owner
    /\ UNCHANGED <<claims, proc, faults, history>>

--------------------------------------------------------------------------------
HookStep(m) ==
    \/ Claim(m) \/ SkipDuplicate(m) \/ Ignore(m) \/ Stamp(m)
    \/ Buffer(m) \/ Schedule(m)
    \/ HookFails(m) \/ HookCrashes(m) \/ DismissRepeat(m) \/ Redeliver(m)

TurnStep(t) ==
    \/ DeferWhileTyping(t) \/ StopWaiting(t)
    \/ AcquireTurn(t) \/ DeferWhileBusy(t) \/ ProceedWithoutTurn(t)
    \/ Rename(t) \/ Read(t)
    \/ Execute(t) \/ Decline(t) \/ Send(t) \/ Commit(t)
    \/ ReleaseTurn(t) \/ Respond(t)

TurnFault(t) ==
    \/ AcquireFails(t) \/ RenameFails(t) \/ TurnFails(t)
    \/ CommitFails(t) \/ ReleaseFails(t) \/ Crash(t)

Next ==
    \/ \E m \in Messages : HookStep(m)
    \/ \E t \in Names : TurnStep(t) \/ TurnFault(t)
    \/ Tick

Spec == Init /\ [][Next]_vars

(* A handler that started runs on, Cloud Tasks calls every task that is due, and
   time passes.  Nobody has to write, and no failure has to happen. *)
Fairness ==
    /\ \A m \in Messages : WF_vars(Buffer(m) \/ Schedule(m))
    /\ \A t \in Names : WF_vars(TurnStep(t))
    /\ WF_vars(Tick)

FairSpec == Spec /\ Fairness

--------------------------------------------------------------------------------
(* Properties.                                                                *)

(* Every variable has its type: in particular no task leaves the record a worker
   request or Cloud Tasks can put it in. *)
TypeOK ==
    /\ claims \subseteq Messages
    /\ hook \in [Messages -> Hooks]
    /\ inbox \in Seq([msg : Messages, age : 0 .. WindowLen])
    /\ proc \in [Windows -> Seq(Messages)]
    /\ owner \in Names \cup {NoOwner, Orphan}
    /\ ttl \in 0 .. LockTtl
    /\ tasks \in [Names -> Tasks]
    /\ bucket \in 0 .. MaxBucket + 1
    /\ phase \in 0 .. WindowLen - 1
    /\ faults \in 0 .. MaxFaults
    /\ answered \in [Messages -> 0 .. 2]
    /\ settled \subseteq Messages

(* As long as the mark a turn took has not expired it is still that turn's mark:
   no late release, failed release or crash of another turn removes or replaces
   it ("si caducó y otro la tomó, no la toca"). *)
HolderOwnsLock == \A t \in Names : tasks[t].turn = "held" => owner = t

(* Two turns of the conversation run at once only when one of them waited the
   whole cap, outlived its mark, or never got one because Redis failed. *)
OneTurnAtATime ==
    \A t, u \in Names :
        t # u /\ InTurn(t) /\ InTurn(u) =>
            \E x \in {t, u} : \/ tasks[x].busy = MaxWait
                              \/ tasks[x].turn = "lapsed"
                              \/ tasks[x].turn = "none" /\ "lock" \in Faults

(* A message the webhook put in Redis waits there, is in a window being processed,
   or belongs to a window that was committed on purpose. *)
NoMessageLost ==
    \A m \in Messages :
        hook[m].pc \in {"buffered", "acked"} => m \in InboxMsgs \cup Held \cup settled

(* The customer is never answered twice for the same message. *)
AnsweredOnce == \A m \in Messages : answered[m] <= 1

(* Every buffered message is settled in the end: its window closes, a turn takes it
   and ends. *)
EveryMessageSettled ==
    \A m \in Messages : (hook[m].pc = "buffered") ~> (m \in settled)

(* Whatever fails, the work dries up: once the customer stops writing no task is
   deferred or retried for ever. *)
TasksEnd == <>[](\A t \in Names : tasks[t].pc \in {"absent", "done"})

(* The buffer, the processing lists and the lock implement the abstract intake. *)
Intake == INSTANCE MessageIntake WITH
    queued <- InboxMsgs,
    batches <- {MsgsOf(proc[w]) : w \in Windows} \ {{}},
    settled <- settled

ImplementsIntake == Intake!FairSpec
================================================================================
