--------------------------- MODULE ChannelTurnProofs ---------------------------
(*****************************************************************************)
(* Proofs about ChannelTurn for any number of messages, windows, extensions   *)
(* and failures: its types, that a turn's mark is never taken from it while   *)
(* it lasts, what it takes for two turns to run at once, that no message is   *)
(* answered twice or lost, and that it implements MessageIntake.              *)
(*****************************************************************************)
EXTENDS ChannelTurn, TLAPS

(* A task's name has a window and an extension, and differs from the two values
   of the lock that are no task. *)
LEMMA NamesType ==
    ASSUME NEW t \in Names
    PROVE  /\ Win(t) \in Windows
           /\ t[2] \in Nat
           /\ t[2] < MaxExt => NextName(t) \in Names
           /\ t # NoOwner /\ t # Orphan
  BY ParamAssumption DEF Names, Windows, Win, NextName, NoOwner, Orphan

(* Facts about sequences of any kind of element. *)
LEMMA LastInSeq ==
    ASSUME NEW S, NEW s \in Seq(S), s # <<>>
    PROVE  s[Len(s)] \in S
  OBVIOUS

LEMMA SeqElements ==
    ASSUME NEW S, NEW s \in Seq(S)
    PROVE  \A i \in DOMAIN s : s[i] \in S
  OBVIOUS

LEMMA SeqIntro ==
    ASSUME NEW S, NEW T, NEW s \in Seq(S), NEW f \in [DOMAIN s -> T]
    PROVE  f \in Seq(T)
  OBVIOUS

LEMMA AbsentType == Absent \in Tasks
  BY ParamAssumption DEF Absent, Tasks, TaskPcs

(* Creating a task keeps the type of the queue, and touches only an absent one. *)
LEMMA CreatedType ==
    ASSUME tasks \in [Names -> Tasks], NEW name \in Names, NEW delay \in Nat,
           NEW started \in 0 .. MaxWindow, NEW busy \in {NoTime} \cup 0 .. MaxWait
    PROVE  /\ Created(name, delay, started, busy) \in [Names -> Tasks]
           /\ \A t \in Names :
                 \/ Created(name, delay, started, busy)[t] = tasks[t]
                 \/ /\ Created(name, delay, started, busy)[t].pc = "queued"
                    /\ Created(name, delay, started, busy)[t].turn = "none"
  <1> DEFINE fresh == [Absent EXCEPT !.pc = "queued", !.delay = delay,
                                     !.started = started, !.busy = busy]
             c == Created(name, delay, started, busy)
  <1>1. fresh \in Tasks
    BY AbsentType DEF Tasks, TaskPcs
  <1>2. fresh.pc = "queued" /\ fresh.turn = "none"
    BY DEF Absent
  <1> HIDE DEF fresh
  <1>3. CASE tasks[name].pc = "absent"
    <2>1. c = [tasks EXCEPT ![name] = fresh]
      BY <1>3 DEF Created, fresh
    <2> HIDE DEF c
    <2> QED BY <2>1, <1>1, <1>2 DEF c
  <1>4. CASE tasks[name].pc # "absent"
    BY <1>4 DEF Created
  <1> QED BY <1>3, <1>4

--------------------------------------------------------------------------------
(* Types. *)

LEMMA HookRecord ==
    ASSUME NEW pc \in HookPcs
    PROVE  /\ Hook(pc) \in Hooks
           /\ Hook(pc).pc = pc
  BY ParamAssumption DEF Hook, Hooks, Windows

(* A delivery that failed or died is offered again or forgotten. *)
LEMMA AgainType ==
    ASSUME TypeOK, NEW m \in Messages,
           \E pc \in Unanswered(m) : hook' = [hook EXCEPT ![m] = Hook(pc)]
    PROVE  /\ hook' \in [Messages -> Hooks]
           /\ hook'[m].pc \in {"offered", "duplicate"}
           /\ \A n \in Messages \ {m} : hook'[n] = hook[n]
  <1>1. PICK pc \in {"offered", "duplicate"} : hook' = [hook EXCEPT ![m] = Hook(pc)]
    BY DEF Unanswered
  <1>2. Hook(pc) \in Hooks /\ Hook(pc).pc = pc
    BY HookRecord DEF HookPcs
  <1> QED BY <1>1, <1>2 DEF TypeOK

LEMMA InitType == Init => TypeOK
  <1> SUFFICES ASSUME Init PROVE TypeOK
    OBVIOUS
  <1>1. hook \in [Messages -> Hooks]
    BY HookRecord DEF Init, HookPcs
  <1>2. tasks \in [Names -> Tasks]
    BY AbsentType DEF Init
  <1>3. inbox \in Seq([msg : Messages, age : 0 .. WindowLen]) /\ proc \in [Windows -> Seq(Messages)]
    BY DEF Init
  <1> QED
    BY <1>1, <1>2, <1>3, ParamAssumption DEF Init, TypeOK

LEMMA FaultType ==
    ASSUME TypeOK, NEW kind, Fault(kind)
    PROVE  faults' \in 0 .. MaxFaults /\ kind \in Faults
  BY ParamAssumption DEF Fault, TypeOK

LEMMA HookType ==
    ASSUME TypeOK, NEW m \in Messages, HookStep(m)
    PROVE  TypeOK'
  <1> USE DEF redis, lock, clock, history
  <1>0. /\ 0 \in Windows /\ 0 \in 0 .. MaxWindow
        /\ hook[m] \in Hooks
    BY ParamAssumption DEF Windows, TypeOK
  <1>1. CASE Claim(m)
    <2>1. hook' \in [Messages -> Hooks]
      BY <1>1 DEF Claim, TypeOK, HookAt, Hooks, HookPcs
    <2>2. claims' \subseteq Messages
      BY <1>1 DEF Claim, TypeOK
    <2> QED BY <1>1, <2>1, <2>2 DEF Claim, TypeOK
  <1>2. CASE SkipDuplicate(m)
    <2>1. hook' \in [Messages -> Hooks]
      BY <1>2 DEF SkipDuplicate, TypeOK, HookAt, Hooks, HookPcs
    <2> QED BY <1>2, <2>1 DEF SkipDuplicate, TypeOK
  <1>3. CASE Ignore(m)
    <2>1. hook' \in [Messages -> Hooks]
      BY <1>3 DEF Ignore, TypeOK, HookAt, Hooks, HookPcs
    <2> QED BY <1>3, <2>1 DEF Ignore, TypeOK
  <1>4. CASE Stamp(m)
    <2>1. hook' \in [Messages -> Hooks]
      BY <1>0, <1>4 DEF Stamp, TypeOK, Hooks, HookPcs
    <2> QED BY <1>4, <2>1 DEF Stamp, TypeOK
  <1>5. CASE Buffer(m)
    <2>1. Least(hook[m].age, WindowLen) \in 0 .. WindowLen
      BY <1>0, ParamAssumption DEF Least, Hooks
    <2>2. [msg |-> m, age |-> Least(hook[m].age, WindowLen)]
             \in [msg : Messages, age : 0 .. WindowLen]
      BY <2>1
    <2>3. inbox' \in Seq([msg : Messages, age : 0 .. WindowLen])
      BY <1>5, <2>2 DEF Buffer, TypeOK
    <2>4. hook' \in [Messages -> Hooks]
      BY <1>5 DEF Buffer, TypeOK, HookAt, Hooks, HookPcs
    <2> QED BY <1>5, <2>3, <2>4 DEF Buffer, TypeOK
  <1>6. CASE Schedule(m)
    <2>1. /\ <<hook[m].win, 0>> \in Names
          /\ hook[m].age \in 0 .. MaxWindow
          /\ WindowLen \in Nat
      BY <1>0, ParamAssumption DEF Names, Windows, Hooks
    <2>2. tasks' \in [Names -> Tasks]
      BY <1>6, <2>1, CreatedType DEF Schedule, TypeOK
    <2>3. hook' \in [Messages -> Hooks]
      BY <1>6, HookRecord DEF Schedule, TypeOK, HookPcs
    <2> QED BY <1>6, <2>2, <2>3 DEF Schedule, TypeOK
  <1>7. CASE HookFails(m)
    <2>1. hook' \in [Messages -> Hooks]
      BY <1>0, <1>7, AgainType DEF HookFails
    <2>2. claims' \subseteq Messages
      BY <1>7 DEF HookFails, TypeOK
    <2>3. faults' \in 0 .. MaxFaults
      BY <1>7, FaultType DEF HookFails
    <2> QED BY <1>7, <2>1, <2>2, <2>3 DEF HookFails, TypeOK
  <1>8. CASE HookCrashes(m)
    <2>1. hook' \in [Messages -> Hooks]
      BY <1>0, <1>8, AgainType DEF HookCrashes
    <2>3. faults' \in 0 .. MaxFaults
      BY <1>8, FaultType DEF HookCrashes
    <2> QED BY <1>8, <2>1, <2>3 DEF HookCrashes, TypeOK
  <1>10. CASE DismissRepeat(m)
    <2>1. hook' \in [Messages -> Hooks]
      BY <1>0, <1>10 DEF DismissRepeat, TypeOK, Hooks
    <2>3. faults' \in 0 .. MaxFaults
      BY <1>10, FaultType DEF DismissRepeat
    <2> QED BY <1>10, <2>1, <2>3 DEF DismissRepeat, TypeOK
  <1>9. CASE Redeliver(m)
    <2>1. hook' \in [Messages -> Hooks]
      BY <1>9 DEF Redeliver, TypeOK, HookAt, Hooks, HookPcs
    <2>3. faults' \in 0 .. MaxFaults
      BY <1>9, FaultType DEF Redeliver
    <2> QED BY <1>9, <2>1, <2>3 DEF Redeliver, TypeOK
  <1> QED
    BY <1>1, <1>2, <1>3, <1>4, <1>5, <1>6, <1>7, <1>8, <1>9, <1>10 DEF HookStep

(* The records a worker request can leave in the queue. *)
LEMMA RecordTypes ==
    ASSUME TypeOK, NEW t \in Names,
           NEW out \in {"none", "typing", "busy", "end", "retry"}
    PROVE  /\ tasks[t] \in Tasks
           /\ Reply(t, out) \in Tasks
           /\ [Reply(t, out) EXCEPT !.turn = "none"] \in Tasks
           /\ Retried(t) \in Tasks
           /\ Done(out) \in Tasks
  <1>1. tasks[t] \in Tasks
    BY DEF TypeOK
  <1>2. Reply(t, out) \in Tasks
    <2>1. "replying" \in TaskPcs /\ <<>> \in Seq(Messages)
      BY DEF TaskPcs, BusyPcs
    <2> QED BY <1>1, <2>1 DEF Reply, Tasks
  <1>3. [Reply(t, out) EXCEPT !.turn = "none"] \in Tasks
    BY <1>2 DEF Tasks
  <1>4. Retried(t) \in Tasks
    <2>1. "queued" \in TaskPcs /\ <<>> \in Seq(Messages) /\ RetryDelay \in Nat
      BY ParamAssumption DEF TaskPcs
    <2> QED BY <1>1, <2>1 DEF Retried, Tasks
  <1>5. Done(out) \in Tasks
    BY AbsentType DEF Done, Tasks, TaskPcs
  <1> QED BY <1>1, <1>2, <1>3, <1>4, <1>5

LEMMA FinishType ==
    ASSUME TypeOK, NEW t \in Names, NEW out \in {"end", "retry"}, Finish(t, out)
    PROVE  tasks' \in [Names -> Tasks]
  <1>1. tasks[t] \in Tasks /\ "releasing" \in TaskPcs
    BY DEF TypeOK, TaskPcs, BusyPcs, InTurnPcs
  <1>2. [tasks[t] EXCEPT !.pc = "releasing", !.out = out] \in Tasks
    BY <1>1 DEF Tasks
  <1> QED BY <1>2 DEF TypeOK, Finish

LEMMA GotoType ==
    ASSUME TypeOK, NEW t \in Names, NEW pc \in TaskPcs, Goto(t, pc)
    PROVE  tasks' \in [Names -> Tasks]
  BY DEF TypeOK, Goto, Tasks

LEMMA BatchType ==
    ASSUME TypeOK, NEW t \in Names
    PROVE  MsgsOf(tasks[t].batch) \subseteq Messages
  BY DEF TypeOK, Tasks, MsgsOf

LEMMA WaitType ==
    ASSUME TypeOK, NEW t \in Names
    PROVE  BusyFor(t) \in 0 .. MaxWait
  BY ParamAssumption DEF TypeOK, Tasks, BusyFor, NoTime

LEMMA PcTypes == {"peeked", "turn", "renamed", "running", "answering", "committing"} \subseteq TaskPcs
  BY DEF TaskPcs, BusyPcs, InTurnPcs

LEMMA TurnType ==
    ASSUME TypeOK, NEW t \in Names, TurnStep(t)
    PROVE  TypeOK'
  <1> USE DEF redis, lock, clock, history
  <1>1. CASE DeferWhileTyping(t)
    <2>1. /\ inbox[Len(inbox)].age \in 0 .. WindowLen
          /\ inbox[Len(inbox)].age < WindowLen
      <3>1. inbox[Len(inbox)] \in [msg : Messages, age : 0 .. WindowLen]
        BY <1>1, LastInSeq DEF DeferWhileTyping, StillTyping, TypeOK
      <3> QED BY <1>1, <3>1 DEF DeferWhileTyping, StillTyping
    <2>2. WindowLen - inbox[Len(inbox)].age \in Nat
      BY <2>1, ParamAssumption
    <2>3. NextName(t) \in Names /\ tasks[t].started \in 0 .. MaxWindow
      BY <1>1, NamesType DEF DeferWhileTyping, TypeOK, Tasks
    <2>4. Created(NextName(t), WindowLen - inbox[Len(inbox)].age, tasks[t].started, NoTime)
             \in [Names -> Tasks]
      BY <2>2, <2>3, CreatedType DEF TypeOK
    <2>5. tasks' \in [Names -> Tasks]
      BY <1>1, <2>4, RecordTypes DEF DeferWhileTyping
    <2> QED BY <1>1, <2>5 DEF DeferWhileTyping, TypeOK
  <1>2. CASE StopWaiting(t)
    <2>1. tasks' \in [Names -> Tasks]
      BY <1>2, GotoType, PcTypes DEF StopWaiting
    <2> QED BY <1>2, <2>1 DEF StopWaiting, TypeOK
  <1>3. CASE AcquireTurn(t)
    <2>1. tasks' \in [Names -> Tasks]
      <3>1. tasks[t] \in Tasks
        BY DEF TypeOK
      <3>2. [tasks[t] EXCEPT !.pc = "turn", !.turn = "held"] \in Tasks
        BY <3>1, PcTypes DEF Tasks
      <3> QED BY <1>3, <3>2 DEF AcquireTurn, TypeOK
    <2>2. owner' \in Names /\ ttl' \in 0 .. LockTtl
      BY <1>3, ParamAssumption DEF AcquireTurn
    <2> QED BY <1>3, <2>1, <2>2 DEF AcquireTurn, TypeOK
  <1>4. CASE DeferWhileBusy(t)
    <2>1. /\ NextName(t) \in Names
          /\ PollDelay \in Nat
          /\ 0 \in 0 .. MaxWindow
          /\ BusyFor(t) \in 0 .. MaxWait
      BY <1>4, NamesType, WaitType, ParamAssumption DEF DeferWhileBusy
    <2>2. Created(NextName(t), PollDelay, 0, BusyFor(t)) \in [Names -> Tasks]
      BY <2>1, CreatedType DEF TypeOK
    <2>3. tasks' \in [Names -> Tasks]
      BY <1>4, <2>2, RecordTypes DEF DeferWhileBusy
    <2> QED BY <1>4, <2>3 DEF DeferWhileBusy, TypeOK
  <1>5. CASE ProceedWithoutTurn(t)
    <2>1. tasks' \in [Names -> Tasks]
      BY <1>5, GotoType, PcTypes DEF ProceedWithoutTurn
    <2> QED BY <1>5, <2>1 DEF ProceedWithoutTurn, TypeOK
  <1>6. CASE Rename(t)
    <2>1. tasks' \in [Names -> Tasks]
      BY <1>6, GotoType, PcTypes DEF Rename
    <2>2. CASE inbox = <<>>
      BY <1>6, <2>1, <2>2 DEF Rename, TypeOK
    <2>3. CASE inbox # <<>>
      <3> DEFINE Entry == [msg : Messages, age : 0 .. WindowLen]
      <3>0. inbox \in Seq(Entry) /\ \A i \in DOMAIN inbox : inbox[i] \in Entry
        BY SeqElements DEF TypeOK
      <3>1. [i \in DOMAIN inbox |-> inbox[i].msg] \in Seq(Messages)
        <4>1. [i \in DOMAIN inbox |-> inbox[i].msg] \in [DOMAIN inbox -> Messages]
          BY <3>0
        <4> HIDE DEF Entry
        <4> QED BY <3>0, <4>1, SeqIntro
      <3>2. proc' \in [Windows -> Seq(Messages)] /\ inbox' = <<>>
        BY <1>6, <2>3, <3>1 DEF Rename, TypeOK
      <3>3. inbox' \in Seq([msg : Messages, age : 0 .. WindowLen])
        BY <3>2
      <3> QED BY <1>6, <2>1, <3>2, <3>3 DEF Rename, TypeOK
    <2> QED BY <2>2, <2>3
  <1>7. CASE Read(t)
    <2>1. tasks' \in [Names -> Tasks]
      <3>1. CASE proc[Win(t)] = <<>>
        BY <1>7, <3>1, FinishType DEF Read
      <3>2. CASE proc[Win(t)] # <<>>
        <4>1. proc[Win(t)] \in Seq(Messages)
          BY NamesType DEF TypeOK
        <4>2. tasks[t] \in Tasks
          BY DEF TypeOK
        <4>3. [tasks[t] EXCEPT !.pc = "running", !.batch = proc[Win(t)]] \in Tasks
          BY <4>1, <4>2, PcTypes DEF Tasks
        <4> QED BY <1>7, <3>2, <4>3 DEF Read, TypeOK
      <3> QED BY <3>1, <3>2
    <2> QED BY <1>7, <2>1 DEF Read, TypeOK
  <1>8. CASE Execute(t)
    <2>1. tasks' \in [Names -> Tasks]
      BY <1>8, GotoType, PcTypes DEF Execute
    <2> QED BY <1>8, <2>1 DEF Execute, TypeOK
  <1>9. CASE Decline(t)
    <2>1. tasks' \in [Names -> Tasks]
      BY <1>9, GotoType, PcTypes DEF Decline
    <2> QED BY <1>9, <2>1 DEF Decline, TypeOK
  <1>10. CASE Send(t)
    <2>1. tasks' \in [Names -> Tasks]
      BY <1>10, GotoType, PcTypes DEF Send
    <2>2. answered' \in [Messages -> 0 .. 2]
      BY <1>10 DEF Send, TypeOK, Up
    <2> QED BY <1>10, <2>1, <2>2 DEF Send, TypeOK
  <1>11. CASE Commit(t)
    <2>1. tasks' \in [Names -> Tasks]
      BY <1>11, FinishType DEF Commit
    <2>2. proc' \in [Windows -> Seq(Messages)]
      <3>1. <<>> \in Seq(Messages)
        OBVIOUS
      <3> QED BY <1>11, <3>1 DEF Commit, TypeOK
    <2>3. settled' \subseteq Messages
      BY <1>11, BatchType DEF Commit, TypeOK
    <2> QED BY <1>11, <2>1, <2>2, <2>3 DEF Commit, TypeOK
  <1>12. CASE ReleaseTurn(t)
    <2>1. tasks' \in [Names -> Tasks]
      <3>1. tasks[t].out \in {"none", "typing", "busy", "end", "retry"}
        BY DEF TypeOK, Tasks
      <3> QED BY <1>12, <3>1, RecordTypes DEF ReleaseTurn, TypeOK
    <2>2. owner' \in Names \cup {NoOwner, Orphan} /\ ttl' \in 0 .. LockTtl
      BY <1>12, ParamAssumption DEF ReleaseTurn, TypeOK
    <2> QED BY <1>12, <2>1, <2>2 DEF ReleaseTurn, TypeOK
  <1>13. CASE Respond(t)
    <2>1. tasks' \in [Names -> Tasks]
      <3>1. tasks[t].out \in {"none", "typing", "busy", "end", "retry"}
        BY DEF TypeOK, Tasks
      <3> QED BY <1>13, <3>1, RecordTypes DEF Respond, TypeOK
    <2> QED BY <1>13, <2>1 DEF Respond, TypeOK
  <1> QED
    BY <1>1, <1>2, <1>3, <1>4, <1>5, <1>6, <1>7, <1>8, <1>9, <1>10, <1>11, <1>12, <1>13
       DEF TurnStep

LEMMA TurnFaultType ==
    ASSUME TypeOK, NEW t \in Names, TurnFault(t)
    PROVE  TypeOK'
  <1> USE DEF redis, lock, clock, history
  <1>1. CASE AcquireFails(t)
    <2>1. tasks' \in [Names -> Tasks] /\ faults' \in 0 .. MaxFaults
      BY <1>1, GotoType, PcTypes, FaultType DEF AcquireFails
    <2> QED BY <1>1, <2>1 DEF AcquireFails, TypeOK
  <1>2. CASE RenameFails(t)
    <2>1. tasks' \in [Names -> Tasks] /\ faults' \in 0 .. MaxFaults
      BY <1>2, GotoType, PcTypes, FaultType DEF RenameFails
    <2> QED BY <1>2, <2>1 DEF RenameFails, TypeOK
  <1>3. CASE TurnFails(t)
    <2>1. tasks' \in [Names -> Tasks] /\ faults' \in 0 .. MaxFaults
      BY <1>3, FinishType, FaultType DEF TurnFails
    <2> QED BY <1>3, <2>1 DEF TurnFails, TypeOK
  <1>4. CASE CommitFails(t)
    <2>1. tasks' \in [Names -> Tasks] /\ faults' \in 0 .. MaxFaults
      BY <1>4, FinishType, FaultType DEF CommitFails
    <2>2. settled' \subseteq Messages
      BY <1>4, BatchType DEF CommitFails, TypeOK
    <2> QED BY <1>4, <2>1, <2>2 DEF CommitFails, TypeOK
  <1>5. CASE ReleaseFails(t)
    <2>1. tasks' \in [Names -> Tasks] /\ faults' \in 0 .. MaxFaults
      <3>1. tasks[t].out \in {"none", "typing", "busy", "end", "retry"}
        BY DEF TypeOK, Tasks
      <3> QED BY <1>5, <3>1, RecordTypes, FaultType DEF ReleaseFails, TypeOK
    <2> QED BY <1>5, <2>1 DEF ReleaseFails, TypeOK
  <1>6. CASE Crash(t)
    <2>1. tasks' \in [Names -> Tasks] /\ faults' \in 0 .. MaxFaults
      BY <1>6, RecordTypes, FaultType DEF Crash, TypeOK
    <2>2. owner' \in Names \cup {NoOwner, Orphan}
      BY <1>6 DEF Crash, TypeOK
    <2> QED BY <1>6, <2>1, <2>2 DEF Crash, TypeOK
  <1> QED
    BY <1>1, <1>2, <1>3, <1>4, <1>5, <1>6 DEF TurnFault

LEMMA OlderType ==
    ASSUME TypeOK, NEW t \in Names
    PROVE  Older(t) \in Tasks
  <1>1. tasks[t] \in Tasks
    BY DEF TypeOK
  <1>2. /\ Down(tasks[t].delay) \in Nat
        /\ Up(tasks[t].started, MaxWindow) \in 0 .. MaxWindow
        /\ tasks[t].busy # NoTime => Up(tasks[t].busy, MaxWait) \in 0 .. MaxWait
    <2>1. /\ tasks[t].delay \in Nat
          /\ tasks[t].started \in 0 .. MaxWindow
          /\ tasks[t].busy \in {NoTime} \cup 0 .. MaxWait
      BY <1>1 DEF Tasks
    <2>2. MaxWindow \in Nat /\ MaxWait \in Nat
      BY ParamAssumption
    <2> QED BY <2>1, <2>2 DEF Down, Up
  <1> QED BY <1>1, <1>2 DEF Older, Tasks

LEMMA TickType == ASSUME TypeOK, Tick PROVE TypeOK'
  <1>1. hook' \in [Messages -> Hooks]
    <2> SUFFICES ASSUME NEW m \in Messages
                 PROVE  [hook[m] EXCEPT !.age = IF hook[m].pc \in {"stamped", "buffered"}
                                                THEN Up(@, MaxWindow) ELSE @] \in Hooks
      BY DEF Tick
    <2>1. hook[m] \in Hooks
      BY DEF TypeOK
    <2>2. Up(hook[m].age, MaxWindow) \in 0 .. MaxWindow
      BY <2>1, ParamAssumption DEF Hooks, Up
    <2> QED BY <2>1, <2>2 DEF Hooks
  <1>2. inbox' \in Seq([msg : Messages, age : 0 .. WindowLen])
    <2> DEFINE Entry == [msg : Messages, age : 0 .. WindowLen]
    <2>1. inbox \in Seq(Entry) /\ \A i \in DOMAIN inbox : inbox[i] \in Entry
      BY SeqElements DEF TypeOK
    <2>2. ASSUME NEW e \in Entry
          PROVE  [e EXCEPT !.age = Up(@, WindowLen)] \in Entry
      <3>1. Up(e.age, WindowLen) \in 0 .. WindowLen
        BY ParamAssumption DEF Up
      <3> QED BY <3>1
    <2>3. inbox' \in [DOMAIN inbox -> Entry]
      <3> HIDE DEF Entry
      <3> QED BY <2>1, <2>2 DEF Tick
    <2>4. inbox' \in Seq(Entry)
      <3> HIDE DEF Entry
      <3> QED BY <2>1, <2>3, SeqIntro
    <2> QED BY <2>4
  <1>3. tasks' \in [Names -> Tasks]
    BY OlderType DEF Tick
  <1>4. ttl' \in 0 .. LockTtl /\ owner' \in Names \cup {NoOwner, Orphan}
    <2>1. ttl' = Down(ttl) /\ owner' = IF ttl = 1 THEN NoOwner ELSE owner
      BY DEF Tick
    <2>2. ttl \in 0 .. LockTtl /\ owner \in Names \cup {NoOwner, Orphan}
      BY DEF TypeOK
    <2>3. LockTtl \in Nat
      BY ParamAssumption
    <2>4. Down(ttl) \in 0 .. LockTtl
      BY <2>2, <2>3 DEF Down
    <2> QED BY <2>1, <2>2, <2>4
  <1>5. bucket' \in 0 .. MaxBucket + 1 /\ phase' \in 0 .. WindowLen - 1
    <2>1. bucket' \in 0 .. MaxBucket + 1
      <3>1. bucket' = IF bucket \in Windows /\ phase + 1 = WindowLen
                      THEN bucket + 1 ELSE bucket
        BY DEF Tick
      <3>2. MaxBucket \in Nat
        BY ParamAssumption
      <3>3. bucket \in 0 .. MaxBucket + 1
        BY DEF TypeOK
      <3> QED BY <3>1, <3>2, <3>3 DEF Windows
    <2>2. phase' \in 0 .. WindowLen - 1
      <3>1. phase' = IF bucket' \in Windows THEN (phase + 1) % WindowLen ELSE 0
        BY DEF Tick
      <3>2. WindowLen \in Nat \ {0}
        BY ParamAssumption
      <3>3. phase \in 0 .. WindowLen - 1
        BY DEF TypeOK
      <3>4. (phase + 1) % WindowLen \in 0 .. WindowLen - 1
        BY <3>2, <3>3
      <3> QED BY <3>1, <3>2, <3>4
    <2> QED BY <2>1, <2>2
  <1> QED
    BY <1>1, <1>2, <1>3, <1>4, <1>5 DEF Tick, TypeOK, history

LEMMA NextType == TypeOK /\ [Next]_vars => TypeOK'
  <1> SUFFICES ASSUME TypeOK, [Next]_vars PROVE TypeOK'
    OBVIOUS
  <1>1. CASE Next
    BY <1>1, HookType, TurnType, TurnFaultType, TickType DEF Next
  <1>2. CASE UNCHANGED vars
    BY <1>2 DEF vars, redis, lock, clock, history, TypeOK
  <1> QED BY <1>1, <1>2

(* Whatever the handlers, the worker, the clock and the failures do, every variable
   keeps its type. *)
THEOREM TypeCorrect == Spec => []TypeOK
  BY InitType, NextType, PTL DEF Spec

--------------------------------------------------------------------------------
(* The turn's mark. *)

(* A turn without a mark has waited the whole cap, or Redis may fail. *)
MarklessTurns ==
    \A t \in Names : InTurn(t) /\ tasks[t].turn = "none" =>
                        tasks[t].busy = MaxWait \/ "lock" \in Faults

(* Inductive with the types: HolderOwnsLock alone says nothing of turns that
   never had a mark, which OneTurnAtATime must explain. *)
TurnInv == HolderOwnsLock /\ MarklessTurns

(* A step that leaves task u without a part in the argument: it ends up outside a
   turn and without a mark, or keeps its mark and its wait and enters no turn. *)
Undisturbed(u) ==
    \/ tasks'[u].turn = "none" /\ tasks'[u].pc \notin InTurnPcs
    \/ /\ tasks'[u].turn = tasks[u].turn
       /\ tasks'[u].busy = tasks[u].busy
       /\ tasks'[u].pc \in InTurnPcs => tasks[u].pc \in InTurnPcs

LEMMA Frame ==
    ASSUME TurnInv, owner' = owner, \A u \in Names : Undisturbed(u)
    PROVE  TurnInv'
  BY DEF TurnInv, HolderOwnsLock, MarklessTurns, Undisturbed, InTurn

LEMMA InitTurn == Init => TurnInv
  BY DEF Init, TurnInv, HolderOwnsLock, MarklessTurns, InTurn, InTurnPcs, Absent

(* Only one task changes, to a record that is undisturbed. *)
LEMMA FrameOne ==
    ASSUME TypeOK, NEW t \in Names, NEW r,
           tasks' = [tasks EXCEPT ![t] = r],
           \/ r.turn = "none" /\ r.pc \notin InTurnPcs
           \/ /\ r.turn = tasks[t].turn /\ r.busy = tasks[t].busy
              /\ r.pc \in InTurnPcs => tasks[t].pc \in InTurnPcs
    PROVE  \A u \in Names : Undisturbed(u)
  BY DEF TypeOK, Undisturbed

(* The records requests leave, seen from the mark. *)
LEMMA RecordFields ==
    ASSUME TypeOK, NEW t \in Names, NEW out
    PROVE  /\ Reply(t, out).pc = "replying"
           /\ Reply(t, out).turn = tasks[t].turn
           /\ Reply(t, out).busy = tasks[t].busy
           /\ [Reply(t, out) EXCEPT !.turn = "none"].pc = "replying"
           /\ [Reply(t, out) EXCEPT !.turn = "none"].turn = "none"
           /\ Retried(t).pc = "queued" /\ Retried(t).turn = "none"
           /\ Done(out).pc = "done" /\ Done(out).turn = "none"
  <1>1. tasks[t] \in Tasks
    BY DEF TypeOK
  <1> QED BY <1>1 DEF Tasks, Reply, Retried, Done, Absent

(* A request that moves on without touching its mark. *)
LEMMA FrameGoto ==
    ASSUME TypeOK, TurnInv, NEW t \in Names, NEW pc, Goto(t, pc), owner' = owner,
           pc \in InTurnPcs => tasks[t].pc \in InTurnPcs
    PROVE  TurnInv'
  <1>1. tasks' = [tasks EXCEPT ![t] = [tasks[t] EXCEPT !.pc = pc]]
    BY DEF Goto
  <1> DEFINE r == [tasks[t] EXCEPT !.pc = pc]
  <1>2. r.pc = pc /\ r.turn = tasks[t].turn /\ r.busy = tasks[t].busy
    BY DEF TypeOK, Tasks
  <1> HIDE DEF r
  <1>3. \A u \in Names : Undisturbed(u)
    BY <1>1, <1>2, FrameOne DEF r
  <1> QED BY <1>3, Frame

LEMMA FrameFinish ==
    ASSUME TypeOK, TurnInv, NEW t \in Names, NEW out, Finish(t, out), owner' = owner,
           tasks[t].pc \in InTurnPcs
    PROVE  TurnInv'
  <1> DEFINE r == [tasks[t] EXCEPT !.pc = "releasing", !.out = out]
  <1>1. tasks' = [tasks EXCEPT ![t] = r]
    BY DEF Finish
  <1>2. r.turn = tasks[t].turn /\ r.busy = tasks[t].busy
    BY DEF TypeOK, Tasks
  <1> HIDE DEF r
  <1>3. \A u \in Names : Undisturbed(u)
    BY <1>1, <1>2, FrameOne
  <1> QED BY <1>3, Frame

(* A request that ends without a mark: what its mark was, if it was the key's value,
   nobody has afterwards. *)
LEMMA FrameDrop ==
    ASSUME TypeOK, TurnInv, NEW t \in Names, NEW r,
           tasks' = [tasks EXCEPT ![t] = r], r.pc \notin InTurnPcs, r.turn = "none",
           OwnsLock(t) \/ owner' = owner
    PROVE  TurnInv'
  <1>1. \A u \in Names : Undisturbed(u)
    BY FrameOne
  <1>2. CASE OwnsLock(t)
    <2>1. \A u \in Names : tasks'[u].turn # "held"
      BY <1>2 DEF TypeOK, OwnsLock, TurnInv, HolderOwnsLock
    <2> QED BY <1>1, <2>1 DEF TurnInv, HolderOwnsLock, MarklessTurns, Undisturbed, InTurn
  <1>3. CASE owner' = owner
    BY <1>1, <1>3, Frame
  <1> QED BY <1>2, <1>3

LEMMA HookTurn ==
    ASSUME TypeOK, TurnInv, NEW m \in Messages, HookStep(m)
    PROVE  TurnInv'
  <1> USE DEF redis, lock
  <1>1. CASE tasks' = tasks /\ owner' = owner
    <2>1. \A u \in Names : Undisturbed(u)
      BY <1>1 DEF Undisturbed
    <2> QED BY <1>1, <2>1, Frame
  <1>2. CASE Schedule(m)
    <2>0. hook[m] \in Hooks
      BY DEF TypeOK
    <2>1. /\ <<hook[m].win, 0>> \in Names
          /\ hook[m].age \in 0 .. MaxWindow
          /\ WindowLen \in Nat
      BY <2>0, ParamAssumption DEF Names, Windows, Hooks
    <2>2. \A u \in Names : \/ tasks'[u] = tasks[u]
                           \/ tasks'[u].pc = "queued" /\ tasks'[u].turn = "none"
      BY <1>2, <2>1, CreatedType DEF Schedule, TypeOK
    <2>3. \A u \in Names : Undisturbed(u)
      BY <2>2 DEF Undisturbed, InTurnPcs
    <2> QED BY <1>2, <2>3, Frame DEF Schedule
  <1> QED
    BY <1>1, <1>2 DEF HookStep, Claim, SkipDuplicate, Ignore, Stamp, Buffer, HookFails,
                      HookCrashes, DismissRepeat, Redeliver

(* Creating the next task of the window and replying disturbs nobody. *)
LEMMA DeferFrame ==
    ASSUME TypeOK, NEW t \in Names, NEW c \in [Names -> Tasks], NEW out,
           \A u \in Names : \/ c[u] = tasks[u]
                            \/ c[u].pc = "queued" /\ c[u].turn = "none",
           tasks' = [c EXCEPT ![t] = Reply(t, out)]
    PROVE  \A u \in Names : Undisturbed(u)
  <1> TAKE u \in Names
  <1>1. CASE u = t
    <2>1. tasks'[u] = Reply(t, out)
      BY <1>1
    <2> QED BY <1>1, <2>1, RecordFields DEF Undisturbed, InTurnPcs
  <1>2. CASE u # t
    BY <1>2 DEF Undisturbed, InTurnPcs
  <1> QED BY <1>1, <1>2

LEMMA StepTurn ==
    ASSUME TypeOK, TurnInv, NEW t \in Names, TurnStep(t)
    PROVE  TurnInv'
  <1> USE DEF redis, lock
  <1>0. tasks \in [Names -> Tasks] /\ tasks[t] \in Tasks
    BY DEF TypeOK
  <1>1. CASE DeferWhileTyping(t)
    <2>1. inbox[Len(inbox)] \in [msg : Messages, age : 0 .. WindowLen]
      BY <1>1, LastInSeq DEF DeferWhileTyping, StillTyping, TypeOK
    <2>2. WindowLen - inbox[Len(inbox)].age \in Nat
      BY <1>1, <2>1, ParamAssumption DEF DeferWhileTyping, StillTyping
    <2>3. NextName(t) \in Names /\ tasks[t].started \in 0 .. MaxWindow
      BY <1>0, <1>1, NamesType DEF DeferWhileTyping, Tasks
    <2> DEFINE c == Created(NextName(t), WindowLen - inbox[Len(inbox)].age,
                            tasks[t].started, NoTime)
    <2>4. /\ c \in [Names -> Tasks]
          /\ \A u \in Names : \/ c[u] = tasks[u]
                              \/ c[u].pc = "queued" /\ c[u].turn = "none"
      BY <1>0, <2>2, <2>3, CreatedType
    <2>5. tasks' = [c EXCEPT ![t] = Reply(t, "typing")] /\ owner' = owner
      BY <1>1 DEF DeferWhileTyping
    <2> HIDE DEF c
    <2> QED BY <2>4, <2>5, DeferFrame, Frame
  <1>2. CASE DeferWhileBusy(t)
    <2>1. /\ NextName(t) \in Names
          /\ PollDelay \in Nat
          /\ 0 \in 0 .. MaxWindow
          /\ BusyFor(t) \in 0 .. MaxWait
      BY <1>2, NamesType, WaitType, ParamAssumption DEF DeferWhileBusy
    <2> DEFINE c == Created(NextName(t), PollDelay, 0, BusyFor(t))
    <2>2. /\ c \in [Names -> Tasks]
          /\ \A u \in Names : \/ c[u] = tasks[u]
                              \/ c[u].pc = "queued" /\ c[u].turn = "none"
      BY <1>0, <2>1, CreatedType
    <2>3. tasks' = [c EXCEPT ![t] = Reply(t, "busy")] /\ owner' = owner
      BY <1>2 DEF DeferWhileBusy
    <2> HIDE DEF c
    <2> QED BY <2>2, <2>3, DeferFrame, Frame
  <1>3. CASE StopWaiting(t)
    BY <1>3, FrameGoto DEF StopWaiting, InTurnPcs
  <1>4. CASE AcquireTurn(t)
    <2>1. \A u \in Names : tasks[u].turn # "held"
      BY <1>4, NamesType DEF AcquireTurn, TurnInv, HolderOwnsLock
    <2>2. /\ owner' = t
          /\ tasks'[t].turn = "held"
          /\ \A u \in Names : u # t => tasks'[u] = tasks[u]
      BY <1>0, <1>4 DEF AcquireTurn, Tasks
    <2> QED BY <2>1, <2>2 DEF TurnInv, HolderOwnsLock, MarklessTurns, InTurn
  <1>5. CASE ProceedWithoutTurn(t)
    <2>1. tasks[t].busy = MaxWait
      BY <1>0, <1>5, ParamAssumption DEF ProceedWithoutTurn, BusyFor, Tasks, NoTime
    <2>2. /\ owner' = owner
          /\ tasks'[t].busy = tasks[t].busy /\ tasks'[t].turn = tasks[t].turn
          /\ \A u \in Names : u # t => tasks'[u] = tasks[u]
      BY <1>0, <1>5 DEF ProceedWithoutTurn, Goto, Tasks
    <2> QED BY <2>1, <2>2 DEF TurnInv, HolderOwnsLock, MarklessTurns, InTurn
  <1>6. CASE Rename(t) \/ Execute(t) \/ Decline(t) \/ Send(t)
    <2>1. tasks[t].pc \in InTurnPcs /\ owner' = owner
      BY <1>6 DEF Rename, Execute, Decline, Send, TaskAt, InTurnPcs
    <2> QED BY <1>6, <2>1, FrameGoto DEF Rename, Execute, Decline, Send
  <1>7. CASE Read(t)
    <2>1. tasks[t].pc \in InTurnPcs /\ owner' = owner
      BY <1>7 DEF Read, TaskAt, InTurnPcs
    <2>2. CASE proc[Win(t)] = <<>>
      BY <1>7, <2>1, <2>2, FrameFinish DEF Read
    <2>3. CASE proc[Win(t)] # <<>>
      <3> DEFINE r == [tasks[t] EXCEPT !.pc = "running", !.batch = proc[Win(t)]]
      <3>1. tasks' = [tasks EXCEPT ![t] = r]
        BY <1>7, <2>3 DEF Read
      <3>2. r.turn = tasks[t].turn /\ r.busy = tasks[t].busy
        BY <1>0 DEF Tasks
      <3> HIDE DEF r
      <3> QED BY <2>1, <3>1, <3>2, FrameOne, Frame
    <2> QED BY <2>2, <2>3
  <1>8. CASE Commit(t)
    <2>1. tasks[t].pc \in InTurnPcs /\ owner' = owner
      BY <1>8 DEF Commit, TaskAt, InTurnPcs
    <2> QED BY <1>8, <2>1, FrameFinish DEF Commit
  <1>9. CASE ReleaseTurn(t)
    <2> DEFINE r == [Reply(t, tasks[t].out) EXCEPT !.turn = "none"]
    <2>1. tasks' = [tasks EXCEPT ![t] = r]
      BY <1>9 DEF ReleaseTurn
    <2>2. r.pc \notin InTurnPcs /\ r.turn = "none"
      BY RecordFields DEF InTurnPcs
    <2>3. OwnsLock(t) \/ owner' = owner
      BY <1>9 DEF ReleaseTurn
    <2> HIDE DEF r
    <2> QED BY <2>1, <2>2, <2>3, FrameDrop
  <1>10. CASE Respond(t)
    <2> DEFINE r == IF tasks[t].out = "retry" THEN Retried(t) ELSE Done(tasks[t].out)
    <2>1. tasks' = [tasks EXCEPT ![t] = r] /\ owner' = owner
      BY <1>10 DEF Respond
    <2>2. r.pc \notin InTurnPcs /\ r.turn = "none"
      BY RecordFields DEF InTurnPcs
    <2> HIDE DEF r
    <2> QED BY <2>1, <2>2, FrameDrop
  <1> QED
    BY <1>1, <1>2, <1>3, <1>4, <1>5, <1>6, <1>7, <1>8, <1>9, <1>10 DEF TurnStep

LEMMA FaultTurn ==
    ASSUME TypeOK, TurnInv, NEW t \in Names, TurnFault(t)
    PROVE  TurnInv'
  <1> USE DEF redis, lock
  <1>0. tasks \in [Names -> Tasks] /\ tasks[t] \in Tasks
    BY DEF TypeOK
  <1>1. CASE AcquireFails(t)
    <2>1. "lock" \in Faults
      BY <1>1, FaultType DEF AcquireFails
    <2>2. /\ owner' = owner
          /\ tasks'[t].turn = tasks[t].turn
          /\ \A u \in Names : u # t => tasks'[u] = tasks[u]
      BY <1>0, <1>1 DEF AcquireFails, Goto, Tasks
    <2> QED BY <2>1, <2>2 DEF TurnInv, HolderOwnsLock, MarklessTurns, InTurn
  <1>2. CASE RenameFails(t)
    <2>1. tasks[t].pc \in InTurnPcs /\ owner' = owner
      BY <1>2 DEF RenameFails, TaskAt, InTurnPcs
    <2> QED BY <1>2, <2>1, FrameGoto DEF RenameFails
  <1>3. CASE TurnFails(t) \/ CommitFails(t)
    <2>1. tasks[t].pc \in InTurnPcs /\ owner' = owner
      BY <1>3 DEF TurnFails, CommitFails, TaskAt, InTurnPcs
    <2> QED BY <1>3, <2>1, FrameFinish DEF TurnFails, CommitFails
  <1>4. CASE ReleaseFails(t)
    <2> DEFINE r == [Reply(t, tasks[t].out) EXCEPT !.turn = "none"]
    <2>1. tasks' = [tasks EXCEPT ![t] = r] /\ OwnsLock(t)
      BY <1>4 DEF ReleaseFails
    <2>2. r.pc \notin InTurnPcs /\ r.turn = "none"
      BY RecordFields DEF InTurnPcs
    <2> HIDE DEF r
    <2> QED BY <2>1, <2>2, FrameDrop
  <1>5. CASE Crash(t)
    <2>1. tasks' = [tasks EXCEPT ![t] = Retried(t)] /\ (OwnsLock(t) \/ owner' = owner)
      BY <1>5 DEF Crash
    <2>2. Retried(t).pc \notin InTurnPcs /\ Retried(t).turn = "none"
      BY RecordFields DEF InTurnPcs
    <2> QED BY <2>1, <2>2, FrameDrop
  <1> QED
    BY <1>1, <1>2, <1>3, <1>4, <1>5 DEF TurnFault

LEMMA TickTurn ==
    ASSUME TypeOK, TurnInv, Tick
    PROVE  TurnInv'
  <1>1. ASSUME NEW t \in Names
        PROVE  /\ tasks'[t].pc = tasks[t].pc
               /\ tasks'[t].busy = IF tasks[t].busy = NoTime THEN NoTime
                                   ELSE Up(tasks[t].busy, MaxWait)
               /\ tasks'[t].turn = IF ttl = 1 /\ owner = t THEN "lapsed" ELSE tasks[t].turn
    <2>1. tasks[t] \in Tasks /\ tasks'[t] = Older(t)
      BY DEF TypeOK, Tick
    <2> QED BY <2>1 DEF Older, Tasks
  <1>2. owner' = IF ttl = 1 THEN NoOwner ELSE owner
    BY DEF Tick
  <1>3. HolderOwnsLock'
    BY <1>1, <1>2 DEF TurnInv, HolderOwnsLock
  <1>4. MarklessTurns'
    <2> SUFFICES ASSUME NEW t \in Names, InTurn(t)', tasks'[t].turn = "none", "lock" \notin Faults
                 PROVE  tasks'[t].busy = MaxWait
      BY DEF MarklessTurns
    <2>1. tasks[t].busy = MaxWait
      BY <1>1 DEF TurnInv, MarklessTurns, InTurn
    <2>2. MaxWait \in Nat
      BY ParamAssumption
    <2> QED BY <1>1, <2>1, <2>2 DEF Up, NoTime
  <1> QED BY <1>3, <1>4 DEF TurnInv

LEMMA NextTurn == TypeOK /\ TurnInv /\ [Next]_vars => TurnInv'
  <1> SUFFICES ASSUME TypeOK, TurnInv, [Next]_vars PROVE TurnInv'
    OBVIOUS
  <1>1. CASE Next
    BY <1>1, HookTurn, StepTurn, FaultTurn, TickTurn DEF Next
  <1>2. CASE UNCHANGED vars
    <2>1. tasks' = tasks /\ owner' = owner
      BY <1>2 DEF vars, lock
    <2>2. \A u \in Names : Undisturbed(u)
      BY <2>1 DEF Undisturbed
    <2> QED BY <2>1, <2>2, Frame
  <1> QED BY <1>1, <1>2

LEMMA TurnInvariance == Spec => []TurnInv
  BY InitTurn, NextTurn, TypeCorrect, PTL DEF Spec

(* While a turn's mark lasts nobody takes it away: not a turn that ended late, not
   one whose release failed, not one that died. *)
THEOREM MarkIsKept == Spec => []HolderOwnsLock
  BY TurnInvariance, PTL DEF TurnInv

(* Two turns of a conversation overlap only by the three exceptions the code accepts:
   the cap on waiting, a mark that expired, a Redis that failed. *)
THEOREM TurnsExclude == Spec => []OneTurnAtATime
  <1>1. TypeOK /\ TurnInv => OneTurnAtATime
    <2> SUFFICES ASSUME TypeOK, TurnInv, NEW t \in Names, NEW u \in Names,
                        t # u, InTurn(t), InTurn(u)
                 PROVE  \E x \in {t, u} : \/ tasks[x].busy = MaxWait
                                          \/ tasks[x].turn = "lapsed"
                                          \/ tasks[x].turn = "none" /\ "lock" \in Faults
      BY DEF OneTurnAtATime
    <2>1. /\ tasks[t].turn \in {"none", "held", "lapsed"}
          /\ tasks[u].turn \in {"none", "held", "lapsed"}
      BY DEF TypeOK, Tasks
    <2>2. ~ (tasks[t].turn = "held" /\ tasks[u].turn = "held")
      BY DEF TurnInv, HolderOwnsLock
    <2>3. \A x \in {t, u} : tasks[x].turn = "none" =>
                               tasks[x].busy = MaxWait \/ "lock" \in Faults
      BY DEF TurnInv, MarklessTurns
    <2> QED BY <2>1, <2>2, <2>3
  <1> QED BY <1>1, TypeCorrect, TurnInvariance, PTL

--------------------------------------------------------------------------------
(* The chain of tasks of a window. *)

(* An instance that dies is the one failure that leaves two tasks of one window at
   work: the one it was serving is repeated after the next one was created. *)
NoCrash == "crash" \notin Faults

AheadPcs == {"queued", "peeked", "turn"}
RunPcs == {"running", "answering", "committing"}
OpenPcs == AheadPcs \cup {"renamed"} \cup RunPcs
Failed(t) == tasks[t].pc \in {"releasing", "replying"} /\ tasks[t].out = "retry"

(* The task will do something about its window yet. *)
Open(t) == tasks[t].pc \in OpenPcs \/ Failed(t)

First(w) == <<w, 0>>
Used(w) == tasks[First(w)].pc # "absent"

(* A window has one such task at a time, and its first name is used before others. *)
OneOpen == \A t, u \in Names : Open(t) /\ Open(u) /\ Win(t) = Win(u) => t = u
FirstUsed == \A t \in Names : tasks[t].pc # "absent" => Used(Win(t))

(* What that task read is what the processing list of its window holds. *)
HasRead(t) == tasks[t].batch = proc[Win(t)] /\ proc[Win(t)] # <<>>
ReadsList == \A t \in Names : tasks[t].pc \in RunPcs => HasRead(t)

WindowInv == OneOpen /\ FirstUsed /\ ReadsList

(* A step of task t that creates none. *)
Moves(t) ==
    /\ tasks[t].pc # "absent" /\ tasks'[t].pc # "absent"
    /\ Open(t)' => Open(t) /\ tasks[t].pc # "committing"
    /\ tasks'[t].pc \in AheadPcs => tasks[t].pc \in AheadPcs \/ Failed(t)
    /\ \A u \in Names : u # t => tasks'[u] = tasks[u]

(* Task t ends and leaves the window to the next one. *)
Defers(t) ==
    /\ tasks[t].pc \in AheadPcs /\ tasks'[t].pc = "replying" /\ ~Open(t)'
    /\ NextName(t) \in Names
    /\ \A u \in Names : u # t => \/ tasks'[u] = tasks[u]
                                 \/ u = NextName(t) /\ tasks'[u].pc = "queued"

(* A webhook creates the first task of window w, or finds the name used. *)
Opens(w) ==
    /\ \A u \in Names : u # First(w) => tasks'[u] = tasks[u]
    /\ IF Used(w) THEN tasks'[First(w)] = tasks[First(w)]
                  ELSE tasks'[First(w)].pc = "queued"

(* Time passes, or the task queue is left alone. *)
Keeps == \A t \in Names :
    /\ tasks'[t].pc = tasks[t].pc /\ tasks'[t].out = tasks[t].out
    /\ tasks'[t].batch = tasks[t].batch

LEMMA FirstName ==
    ASSUME NEW w \in Windows
    PROVE  First(w) \in Names /\ Win(First(w)) = w
  BY ParamAssumption DEF Names, First, Win

(* A name that is not used keeps its task queue's other names. *)
LEMMA CreatedNames ==
    ASSUME tasks \in [Names -> Tasks], NEW name \in Names, NEW delay \in Nat,
           NEW started \in 0 .. MaxWindow, NEW busy \in {NoTime} \cup 0 .. MaxWait
    PROVE  \A u \in Names :
              IF u = name /\ tasks[u].pc = "absent"
              THEN Created(name, delay, started, busy)[u].pc = "queued"
              ELSE Created(name, delay, started, busy)[u] = tasks[u]
  <1> DEFINE fresh == [Absent EXCEPT !.pc = "queued", !.delay = delay,
                                     !.started = started, !.busy = busy]
             c == Created(name, delay, started, busy)
  <1>1. fresh.pc = "queued"
    BY DEF Absent
  <1> HIDE DEF fresh
  <1>2. c = IF tasks[name].pc = "absent" THEN [tasks EXCEPT ![name] = fresh] ELSE tasks
    BY DEF Created, fresh
  <1> HIDE DEF c
  <1> QED BY <1>1, <1>2 DEF c

(* Only one task changes, and what it becomes is of its window still, *)
LEMMA MovesOn ==
    ASSUME TypeOK, NEW t \in Names, NEW r, tasks' = [tasks EXCEPT ![t] = r],
           Open(t), tasks[t].pc # "committing",
           r.pc # "absent", r.pc \in AheadPcs => tasks[t].pc \in AheadPcs \/ Failed(t)
    PROVE  Moves(t)
  <1>1. tasks'[t] = r /\ \A u \in Names : u # t => tasks'[u] = tasks[u]
    BY DEF TypeOK
  <1>2. tasks[t].pc # "absent"
    BY DEF Open, OpenPcs, AheadPcs, RunPcs, Failed
  <1> QED BY <1>1, <1>2 DEF Moves

(* or is done with it. *)
LEMMA MovesOut ==
    ASSUME TypeOK, NEW t \in Names, NEW r, tasks' = [tasks EXCEPT ![t] = r],
           tasks[t].pc # "absent",
           r.pc \in {"releasing", "replying", "done"}, r.out = "retry" => r.pc = "done"
    PROVE  Moves(t)
  <1>1. tasks'[t] = r /\ \A u \in Names : u # t => tasks'[u] = tasks[u]
    BY DEF TypeOK
  <1>2. ~Open(t)' /\ r.pc \notin AheadPcs /\ r.pc # "absent"
    BY <1>1 DEF Open, OpenPcs, AheadPcs, RunPcs, Failed
  <1> QED BY <1>1, <1>2 DEF Moves

LEMMA MovesGoto ==
    ASSUME TypeOK, NEW t \in Names, NEW pc, Goto(t, pc), pc # "absent",
           tasks[t].pc \in OpenPcs \ {"committing"},
           pc \in AheadPcs => tasks[t].pc \in AheadPcs
    PROVE  Moves(t)
  <1> DEFINE r == [tasks[t] EXCEPT !.pc = pc]
  <1>1. tasks' = [tasks EXCEPT ![t] = r]
    BY DEF Goto
  <1>2. r.pc = pc
    BY DEF TypeOK, Tasks
  <1>3. Open(t) /\ tasks[t].pc # "committing"
    BY DEF Open
  <1> HIDE DEF r
  <1> QED BY <1>1, <1>2, <1>3, MovesOn

LEMMA MovesFinish ==
    ASSUME TypeOK, NEW t \in Names, NEW out, Finish(t, out),
           tasks[t].pc \in OpenPcs,
           out = "retry" => tasks[t].pc # "committing"
    PROVE  Moves(t)
  <1> DEFINE r == [tasks[t] EXCEPT !.pc = "releasing", !.out = out]
  <1>1. tasks' = [tasks EXCEPT ![t] = r]
    BY DEF Finish
  <1>2. r.pc = "releasing" /\ r.out = out
    BY DEF TypeOK, Tasks
  <1>3. Open(t) /\ tasks[t].pc # "absent" /\ r.pc \notin AheadPcs
    BY <1>2 DEF Open, OpenPcs, AheadPcs, RunPcs
  <1> HIDE DEF r
  <1>4. CASE out = "retry"
    BY <1>1, <1>2, <1>3, <1>4, MovesOn
  <1>5. CASE out # "retry"
    BY <1>1, <1>2, <1>3, <1>5, MovesOut
  <1> QED BY <1>4, <1>5

(* The turn's mark is given up; the reply stays. *)
LEMMA MovesRelease ==
    ASSUME TypeOK, NEW t \in Names, tasks[t].pc = "releasing",
           tasks' = [tasks EXCEPT ![t] = [Reply(t, @.out) EXCEPT !.turn = "none"]]
    PROVE  Moves(t)
  <1> DEFINE r == [Reply(t, tasks[t].out) EXCEPT !.turn = "none"]
  <1>1. tasks' = [tasks EXCEPT ![t] = r]
    OBVIOUS
  <1>2. r.pc = "replying" /\ r.out = tasks[t].out
    BY DEF TypeOK, Tasks, Reply
  <1>3. r.pc \notin AheadPcs
    BY <1>2 DEF AheadPcs
  <1> HIDE DEF r
  <1>4. CASE tasks[t].out = "retry"
    <2>1. Open(t)
      BY <1>4 DEF Open, Failed
    <2> QED BY <1>1, <1>2, <1>3, <2>1, MovesOn
  <1>5. CASE tasks[t].out # "retry"
    BY <1>1, <1>2, <1>5, MovesOut
  <1> QED BY <1>4, <1>5

LEMMA DefersCreated ==
    ASSUME TypeOK, NEW t \in Names, t[2] < MaxExt, tasks[t].pc \in AheadPcs,
           NEW out \in {"typing", "busy"}, NEW delay \in Nat,
           NEW started \in 0 .. MaxWindow, NEW busy \in {NoTime} \cup 0 .. MaxWait,
           tasks' = [Created(NextName(t), delay, started, busy) EXCEPT ![t] = Reply(t, out)]
    PROVE  Defers(t)
  <1> DEFINE c == Created(NextName(t), delay, started, busy)
  <1>1. NextName(t) \in Names /\ NextName(t) # t
    BY NamesType DEF NextName
  <1>2. /\ c \in [Names -> Tasks]
        /\ \A u \in Names : \/ c[u] = tasks[u]
                            \/ u = NextName(t) /\ c[u].pc = "queued"
    BY <1>1, CreatedType, CreatedNames DEF TypeOK
  <1>3. tasks' = [c EXCEPT ![t] = Reply(t, out)]
    OBVIOUS
  <1>4. Reply(t, out).pc = "replying" /\ Reply(t, out).out = out
    BY DEF TypeOK, Tasks, Reply
  <1> HIDE DEF c
  <1>5. tasks'[t] = Reply(t, out) /\ \A u \in Names : u # t => tasks'[u] = c[u]
    BY <1>2, <1>3
  <1> QED BY <1>1, <1>2, <1>4, <1>5 DEF Defers, Open, OpenPcs, Failed, AheadPcs, RunPcs

LEMMA NotCrashed ==
    ASSUME TypeOK, NEW t \in Names, NoCrash, TurnFault(t)
    PROVE  ~ Crash(t)
  BY FaultType DEF NoCrash, Crash

(* A task that is not due yet creates the next one of its window and replies. *)
LEMMA DeferKind ==
    ASSUME TypeOK, NEW t \in Names, DeferWhileTyping(t) \/ DeferWhileBusy(t)
    PROVE  Defers(t) /\ UNCHANGED <<claims, hook, redis, answered, settled>>
  <1> USE DEF history
  <1>0. tasks[t] \in Tasks
    BY DEF TypeOK
  <1>1. CASE DeferWhileTyping(t)
    <2>1. inbox[Len(inbox)] \in [msg : Messages, age : 0 .. WindowLen]
      BY <1>1, LastInSeq DEF DeferWhileTyping, StillTyping, TypeOK
    <2>2. WindowLen - inbox[Len(inbox)].age \in Nat
      BY <1>1, <2>1, ParamAssumption DEF DeferWhileTyping, StillTyping
    <2>3. tasks[t].started \in 0 .. MaxWindow /\ tasks[t].pc \in AheadPcs /\ t[2] < MaxExt
      BY <1>0, <1>1 DEF DeferWhileTyping, Tasks, Due, TaskAt, AheadPcs
    <2>4. tasks' = [Created(NextName(t), WindowLen - inbox[Len(inbox)].age,
                            tasks[t].started, NoTime) EXCEPT ![t] = Reply(t, "typing")]
      BY <1>1 DEF DeferWhileTyping
    <2>5. Defers(t)
      BY <2>2, <2>3, <2>4, DefersCreated
    <2> QED BY <1>1, <2>5 DEF DeferWhileTyping
  <1>2. CASE DeferWhileBusy(t)
    <2>1. /\ PollDelay \in Nat
          /\ 0 \in 0 .. MaxWindow
          /\ BusyFor(t) \in 0 .. MaxWait
      BY <1>2, WaitType, ParamAssumption
    <2>2. tasks[t].pc \in AheadPcs /\ t[2] < MaxExt
      BY <1>2 DEF DeferWhileBusy, TaskAt, AheadPcs
    <2>3. tasks' = [Created(NextName(t), PollDelay, 0, BusyFor(t)) EXCEPT ![t] = Reply(t, "busy")]
      BY <1>2 DEF DeferWhileBusy
    <2>4. Defers(t)
      BY <2>1, <2>2, <2>3, DefersCreated
    <2> QED BY <1>2, <2>4 DEF DeferWhileBusy
  <1> QED BY <1>1, <1>2

(* Every step of a task is of one of the two kinds. *)
LEMMA StepKinds ==
    ASSUME TypeOK, NEW t \in Names, NoCrash, TurnStep(t) \/ TurnFault(t)
    PROVE  \/ Moves(t)
           \/ Defers(t) /\ UNCHANGED <<claims, hook, redis, answered, settled>>
  <1>0. tasks[t] \in Tasks
    BY DEF TypeOK
  <1>1. CASE DeferWhileTyping(t) \/ DeferWhileBusy(t)
    BY <1>1, DeferKind
  <1>3. CASE StopWaiting(t) \/ ProceedWithoutTurn(t) \/ AcquireFails(t)
    <2>1. PICK pc \in {"peeked", "turn"} : Goto(t, pc) /\ tasks[t].pc \in AheadPcs
      BY <1>3 DEF StopWaiting, ProceedWithoutTurn, AcquireFails, Due, TaskAt, AheadPcs
    <2>2. tasks[t].pc \in OpenPcs \ {"committing"}
      BY <2>1 DEF OpenPcs, AheadPcs
    <2> QED BY <2>1, <2>2, MovesGoto
  <1>4. CASE AcquireTurn(t)
    <2> DEFINE r == [tasks[t] EXCEPT !.pc = "turn", !.turn = "held"]
    <2>1. tasks' = [tasks EXCEPT ![t] = r] /\ tasks[t].pc = "peeked"
      BY <1>4 DEF AcquireTurn, TaskAt
    <2>2. r.pc = "turn"
      BY <1>0 DEF Tasks
    <2>3. Open(t) /\ tasks[t].pc \in AheadPcs
      BY <2>1 DEF Open, OpenPcs, AheadPcs
    <2> HIDE DEF r
    <2> QED BY <2>1, <2>2, <2>3, MovesOn
  <1>5. CASE Rename(t) \/ RenameFails(t) \/ Execute(t) \/ Decline(t) \/ Send(t)
    <2>1. PICK pc \in {"renamed", "answering", "committing"} :
            Goto(t, pc) /\ tasks[t].pc \in {"turn", "running", "answering"}
      BY <1>5 DEF Rename, RenameFails, Execute, Decline, Send, TaskAt
    <2>2. tasks[t].pc \in OpenPcs \ {"committing"} /\ pc \notin AheadPcs
      BY <2>1 DEF OpenPcs, AheadPcs, RunPcs
    <2> QED BY <2>1, <2>2, MovesGoto
  <1>6. CASE Read(t)
    <2>1. tasks[t].pc = "renamed" /\ tasks[t].pc \in OpenPcs
      BY <1>6 DEF Read, TaskAt, OpenPcs
    <2>2. CASE proc[Win(t)] = <<>>
      <3>1. Finish(t, "end")
        BY <1>6, <2>2 DEF Read
      <3> QED BY <2>1, <3>1, MovesFinish
    <2>3. CASE proc[Win(t)] # <<>>
      <3> DEFINE r == [tasks[t] EXCEPT !.pc = "running", !.batch = proc[Win(t)]]
      <3>1. tasks' = [tasks EXCEPT ![t] = r]
        BY <1>6, <2>3 DEF Read
      <3>2. r.pc = "running" /\ r.pc \notin AheadPcs
        BY <1>0 DEF Tasks, AheadPcs
      <3>3. Open(t)
        BY <2>1 DEF Open
      <3> HIDE DEF r
      <3> QED BY <2>1, <3>1, <3>2, <3>3, MovesOn
    <2> QED BY <2>2, <2>3
  <1>7. CASE Commit(t) \/ CommitFails(t) \/ TurnFails(t)
    <2>1. PICK out \in {"end", "retry"} :
            /\ Finish(t, out) /\ tasks[t].pc \in RunPcs \cup {"renamed"}
            /\ out = "retry" => tasks[t].pc # "committing"
      BY <1>7 DEF Commit, CommitFails, TurnFails, TaskAt, RunPcs
    <2>2. tasks[t].pc \in OpenPcs
      BY <2>1 DEF OpenPcs
    <2> QED BY <2>1, <2>2, MovesFinish
  <1>8. CASE ReleaseTurn(t) \/ ReleaseFails(t)
    BY <1>8, MovesRelease DEF ReleaseTurn, ReleaseFails, TaskAt
  <1>9. CASE Respond(t)
    <2> DEFINE r == IF tasks[t].out = "retry" THEN Retried(t) ELSE Done(tasks[t].out)
    <2>1. tasks' = [tasks EXCEPT ![t] = r] /\ tasks[t].pc = "replying"
      BY <1>9 DEF Respond, TaskAt
    <2>2. CASE tasks[t].out = "retry"
      <3>1. r.pc = "queued"
        BY <2>2, RecordFields
      <3>2. Open(t) /\ Failed(t) /\ tasks[t].pc # "committing"
        BY <2>1, <2>2 DEF Open, Failed
      <3> HIDE DEF r
      <3> QED BY <2>1, <3>1, <3>2, MovesOn
    <2>3. CASE tasks[t].out # "retry"
      <3>1. r.pc = "done"
        BY <2>3, RecordFields
      <3> HIDE DEF r
      <3> QED BY <2>1, <3>1, MovesOut
    <2> QED BY <2>2, <2>3
  <1> QED
    BY <1>1, <1>3, <1>4, <1>5, <1>6, <1>7, <1>8, <1>9, NotCrashed DEF TurnStep, TurnFault

LEMMA HookKinds ==
    ASSUME TypeOK, NEW m \in Messages, HookStep(m)
    PROVE  (Schedule(m) /\ \E w \in Windows : Opens(w)) \/ tasks' = tasks
  <1>1. CASE Schedule(m)
    <2>0. hook[m] \in Hooks
      BY DEF TypeOK
    <2>1. /\ hook[m].win \in Windows
          /\ hook[m].age \in 0 .. MaxWindow
          /\ WindowLen \in Nat
      BY <2>0, ParamAssumption DEF Hooks
    <2>2. First(hook[m].win) \in Names
      BY <2>1, FirstName
    <2>3. tasks' = Created(First(hook[m].win), WindowLen, hook[m].age, NoTime)
      BY <1>1 DEF Schedule, First
    <2>4. Opens(hook[m].win)
      BY <2>1, <2>2, <2>3, CreatedNames DEF Opens, TypeOK, Used
    <2> QED BY <1>1, <2>1, <2>4
  <1> QED
    BY <1>1 DEF HookStep, Claim, SkipDuplicate, Ignore, Stamp, Buffer, HookFails,
                HookCrashes, DismissRepeat, Redeliver

LEMMA TickKeeps == ASSUME TypeOK, Tick PROVE Keeps
  <1> SUFFICES ASSUME NEW t \in Names
               PROVE  /\ tasks'[t].pc = tasks[t].pc /\ tasks'[t].out = tasks[t].out
                      /\ tasks'[t].batch = tasks[t].batch
    BY DEF Keeps
  <1>1. tasks'[t] = Older(t) /\ tasks[t] \in Tasks
    BY DEF Tick, TypeOK
  <1> QED BY <1>1 DEF Older, Tasks

(* The chain of a window survives steps of these kinds. *)
LEMMA ChainKept ==
    ASSUME TypeOK, OneOpen, FirstUsed,
           \/ \E t \in Names : Moves(t) \/ Defers(t)
           \/ \E w \in Windows : Opens(w)
           \/ Keeps
    PROVE  OneOpen' /\ FirstUsed'
  <1> USE NamesType, FirstName DEF OneOpen, FirstUsed
  <1>1. ASSUME NEW t \in Names, Moves(t) PROVE OneOpen' /\ FirstUsed'
    <2>1. \A u \in Names : /\ Open(u)' => Open(u)
                           /\ tasks'[u].pc = "absent" <=> tasks[u].pc = "absent"
      BY <1>1 DEF Moves, Open, Failed
    <2> QED BY <2>1 DEF Used
  <1>2. ASSUME NEW t \in Names, Defers(t) PROVE OneOpen' /\ FirstUsed'
    <2>1. Open(t) /\ ~Open(t)' /\ Win(NextName(t)) = Win(t)
      BY <1>2 DEF Defers, Open, OpenPcs, NextName, Win
    <2>2. \A u \in Names : Open(u)' => Open(u) \/ u = NextName(t)
      BY <1>2 DEF Defers, Open, Failed
    <2>3. OneOpen'
      BY <2>1, <2>2
    <2>4. \A u \in Names : tasks[u].pc # "absent" => tasks'[u].pc # "absent"
      BY <1>2 DEF Defers
    <2>5. \A u \in Names : tasks'[u].pc # "absent" => Used(Win(u))
      BY <1>2, <2>1 DEF Defers, AheadPcs
    <2>6. FirstUsed'
      BY <2>4, <2>5 DEF Used
    <2> QED BY <2>3, <2>6
  <1>3. ASSUME NEW w \in Windows, Opens(w) PROVE OneOpen' /\ FirstUsed'
    <2>1. CASE Used(w)
      <3>1. \A u \in Names : tasks'[u] = tasks[u]
        BY <1>3, <2>1 DEF Opens
      <3> QED BY <3>1 DEF Used, Open, Failed
    <2>2. CASE ~Used(w)
      <3>1. \A u \in Names : Win(u) = w => ~Open(u)
        BY <2>2 DEF Open, OpenPcs, AheadPcs, RunPcs, Failed
      <3>2. \A u \in Names : Open(u)' => Open(u) \/ u = First(w)
        BY <1>3 DEF Opens, Open, Failed
      <3>3. \A u \in Names : u # First(w) => tasks'[u] = tasks[u]
        BY <1>3 DEF Opens
      <3>4. tasks'[First(w)].pc # "absent"
        BY <1>3, <2>2 DEF Opens
      <3> QED BY <3>1, <3>2, <3>3, <3>4 DEF Used
    <2> QED BY <2>1, <2>2
  <1>4. ASSUME Keeps PROVE OneOpen' /\ FirstUsed'
    BY <1>4 DEF Keeps, Used, Open, Failed
  <1> QED BY <1>1, <1>2, <1>3, <1>4

(* What a step of task t does to the processing lists: it may change the one of its
   own window, and only Read lets it run. *)
LEMMA StepLists ==
    ASSUME TypeOK, NEW t \in Names, NoCrash, TurnStep(t) \/ TurnFault(t)
    PROVE  /\ \/ proc' = proc
              \/ Open(t) /\ \A w \in Windows \ {Win(t)} : proc'[w] = proc[w]
           /\ tasks'[t].pc \in RunPcs =>
                 /\ proc' = proc
                 /\ \/ tasks[t].pc \in RunPcs /\ tasks'[t].batch = tasks[t].batch
                    \/ tasks'[t].batch = proc[Win(t)] /\ proc[Win(t)] # <<>>
  <1> USE DEF redis, lock
  <1>0. tasks \in [Names -> Tasks] /\ tasks[t] \in Tasks /\ proc \in [Windows -> Seq(Messages)]
    BY DEF TypeOK
  <1>1. CASE Rename(t)
    <2>1. Open(t) /\ tasks'[t].pc = "renamed"
      BY <1>0, <1>1 DEF Rename, TaskAt, Open, OpenPcs, AheadPcs, Goto, Tasks
    <2>2. \A w \in Windows \ {Win(t)} : proc'[w] = proc[w]
      BY <1>0, <1>1 DEF Rename
    <2> QED BY <2>1, <2>2 DEF RunPcs
  <1>2. CASE Commit(t)
    <2>1. Open(t) /\ tasks'[t].pc = "releasing"
      BY <1>0, <1>2 DEF Commit, TaskAt, Open, OpenPcs, RunPcs, Finish, Tasks
    <2>2. \A w \in Windows \ {Win(t)} : proc'[w] = proc[w]
      BY <1>0, <1>2 DEF Commit
    <2> QED BY <2>1, <2>2 DEF RunPcs
  <1>3. CASE Read(t)
    <2>1. proc' = proc
      BY <1>3 DEF Read
    <2>2. CASE proc[Win(t)] = <<>>
      <3>1. Finish(t, "end")
        BY <1>3, <2>2 DEF Read
      <3>2. tasks'[t].pc = "releasing"
        BY <1>0, <3>1 DEF Finish, Tasks
      <3> QED BY <2>1, <3>2 DEF RunPcs
    <2>3. CASE proc[Win(t)] # <<>>
      <3>1. tasks' = [tasks EXCEPT ![t] = [tasks[t] EXCEPT !.pc = "running", !.batch = proc[Win(t)]]]
        BY <1>3, <2>3 DEF Read
      <3>2. tasks'[t].batch = proc[Win(t)]
        BY <1>0, <3>1 DEF Tasks
      <3> QED BY <2>1, <2>3, <3>2
    <2> QED BY <2>2, <2>3
  <1>4. CASE Execute(t) \/ Decline(t) \/ Send(t)
    <2>1. PICK pc \in RunPcs : Goto(t, pc) /\ tasks[t].pc \in RunPcs /\ proc' = proc
      BY <1>4 DEF Execute, Decline, Send, TaskAt, RunPcs
    <2>2. tasks'[t].batch = tasks[t].batch
      BY <1>0, <2>1 DEF Goto, Tasks
    <2> QED BY <2>1, <2>2
  <1>5. CASE StopWaiting(t) \/ ProceedWithoutTurn(t) \/ AcquireFails(t) \/ RenameFails(t)
    <2>1. PICK pc \in {"peeked", "turn", "renamed"} : Goto(t, pc) /\ proc' = proc
      BY <1>5 DEF StopWaiting, ProceedWithoutTurn, AcquireFails, RenameFails
    <2>2. tasks'[t].pc \notin RunPcs
      BY <1>0, <2>1 DEF Goto, Tasks, RunPcs
    <2> QED BY <2>1, <2>2
  <1>6. CASE AcquireTurn(t)
    <2>1. tasks'[t].pc = "turn" /\ proc' = proc
      BY <1>0, <1>6 DEF AcquireTurn, Tasks
    <2> QED BY <2>1 DEF RunPcs
  <1>7. CASE CommitFails(t) \/ TurnFails(t)
    <2>1. PICK out \in {"end", "retry"} : Finish(t, out) /\ proc' = proc
      BY <1>7 DEF CommitFails, TurnFails
    <2>2. tasks'[t].pc = "releasing"
      BY <1>0, <2>1 DEF Finish, Tasks
    <2> QED BY <2>1, <2>2 DEF RunPcs
  <1>8. CASE ReleaseTurn(t) \/ ReleaseFails(t)
    <2>1. tasks' = [tasks EXCEPT ![t] = [Reply(t, @.out) EXCEPT !.turn = "none"]] /\ proc' = proc
      BY <1>8 DEF ReleaseTurn, ReleaseFails
    <2>2. tasks'[t].pc = "replying"
      BY <1>0, <2>1, RecordFields
    <2> QED BY <2>1, <2>2 DEF RunPcs
  <1>9. CASE Respond(t)
    <2>1. tasks'[t].pc \in {"queued", "done"} /\ proc' = proc
      BY <1>0, <1>9, RecordFields DEF Respond
    <2> QED BY <2>1 DEF RunPcs
  <1>10. CASE DeferWhileTyping(t) \/ DeferWhileBusy(t)
    <2>1. proc' = proc
      BY <1>10 DEF DeferWhileTyping, DeferWhileBusy
    <2>2. Defers(t)
      BY <1>10, DeferKind
    <2> QED BY <2>1, <2>2 DEF RunPcs, Defers
  <1> QED
    BY <1>1, <1>2, <1>3, <1>4, <1>5, <1>6, <1>7, <1>8, <1>9, <1>10, NotCrashed
       DEF TurnStep, TurnFault

(* Whatever fails but the instance serving a task, each window keeps its chain. *)
LEMMA WindowKept ==
    ASSUME TypeOK, TypeOK', WindowInv, NoCrash, [Next]_vars
    PROVE  WindowInv'
  <1> USE DEF WindowInv
  <1> SUFFICES (OneOpen' /\ FirstUsed') /\ ReadsList'
    OBVIOUS
  <1>0. \A u \in Names : Win(u) \in Windows
    BY DEF Names, Win
  <1>1. ASSUME NEW m \in Messages, HookStep(m) PROVE (OneOpen' /\ FirstUsed') /\ ReadsList'
    <2>1. proc' = proc
      BY <1>1 DEF redis, HookStep, Claim, SkipDuplicate, Ignore, Stamp, Buffer, Schedule,
                  HookFails, HookCrashes, DismissRepeat, Redeliver
    <2>2. CASE tasks' = tasks
      <3>1. Keeps
        BY <2>2 DEF Keeps
      <3>2. OneOpen' /\ FirstUsed'
        BY <3>1, ChainKept
      <3> QED BY <2>1, <2>2, <3>2 DEF ReadsList, HasRead
    <2>3. ASSUME NEW w \in Windows, Opens(w) PROVE (OneOpen' /\ FirstUsed') /\ ReadsList'
      <3>1. OneOpen' /\ FirstUsed'
        BY <2>3, ChainKept
      <3>2. \A u \in Names : tasks'[u].pc \in RunPcs => tasks'[u] = tasks[u]
        BY <2>3 DEF Opens, RunPcs
      <3> QED BY <2>1, <3>1, <3>2 DEF ReadsList, HasRead
    <2> QED BY <1>1, <2>2, <2>3, HookKinds
  <1>2. ASSUME NEW t \in Names, TurnStep(t) \/ TurnFault(t)
        PROVE  (OneOpen' /\ FirstUsed') /\ ReadsList'
    <2>1. Moves(t) \/ Defers(t)
      BY <1>2, StepKinds
    <2>2. OneOpen' /\ FirstUsed'
      BY <2>1, ChainKept
    <2>3. ASSUME NEW u \in Names, tasks'[u].pc \in RunPcs PROVE HasRead(u)'
      <3>1. CASE u = t
        BY <1>2, <2>3, <3>1, StepLists DEF ReadsList, HasRead
      <3>2. CASE u # t
        <4>1. tasks'[u] = tasks[u]
          BY <2>1, <2>3, <3>2 DEF Moves, Defers, RunPcs
        <4>2. Open(u) /\ HasRead(u)
          BY <2>3, <4>1 DEF Open, OpenPcs, ReadsList
        <4>3. proc' = proc \/ Win(u) # Win(t)
          BY <1>2, <3>2, <4>2, StepLists DEF OneOpen
        <4>4. proc'[Win(u)] = proc[Win(u)]
          BY <1>0, <1>2, <4>3, StepLists
        <4> QED BY <4>1, <4>2, <4>4 DEF HasRead
      <3> QED BY <3>1, <3>2
    <2> QED BY <2>2, <2>3 DEF ReadsList
  <1>3. CASE Tick
    <2>1. Keeps /\ proc' = proc
      BY <1>3, TickKeeps DEF Tick
    <2>2. OneOpen' /\ FirstUsed'
      BY <2>1, ChainKept
    <2> QED BY <2>1, <2>2 DEF ReadsList, HasRead, Keeps
  <1>4. CASE UNCHANGED vars
    <2>1. proc' = proc /\ tasks' = tasks
      BY <1>4 DEF vars, redis
    <2>2. Keeps
      BY <2>1 DEF Keeps
    <2>3. OneOpen' /\ FirstUsed'
      BY <2>2, ChainKept
    <2> QED BY <2>1, <2>3 DEF ReadsList, HasRead
  <1> QED BY <1>1, <1>2, <1>3, <1>4 DEF Next

LEMMA InitWindow == Init => WindowInv
  BY DEF Init, WindowInv, OneOpen, FirstUsed, ReadsList, Open, OpenPcs, AheadPcs, RunPcs,
         Failed, Absent

LEMMA WindowInvariance == ASSUME NoCrash PROVE Spec => []WindowInv
  <1>1. TypeOK /\ TypeOK' /\ WindowInv /\ [Next]_vars => WindowInv'
    BY WindowKept
  <1> QED BY <1>1, InitWindow, TypeCorrect, PTL DEF Spec

--------------------------------------------------------------------------------
(* Where a message is. *)

(* A webhook that fails after its message is in Redis releases its claim, and buffers the
   message again when it is repeated. *)
HooksClean == "schedule" \notin Faults

(* A turn answered the message, or decided to commit it. *)
Taken(m) == answered[m] # 0 \/ m \in settled

(* No webhook of the message has put it in Redis. *)
Unbuffered(m) == hook[m].pc \in {"claimed", "stamped"} \/ m \notin claims

(* Whoever works on the window yet is about to commit it. *)
Spent(w) == Used(w) /\ \A t \in Names : Win(t) = w /\ Open(t) => tasks[t].pc = "committing"

Claimed == \A m \in Messages : hook[m].pc \in {"claimed", "stamped", "buffered"} => m \in claims
NoList(m) == \A w \in Windows : m \notin MsgsOf(proc[w])
Fresh == \A m \in Messages : Unbuffered(m) => m \notin InboxMsgs /\ NoList(m) /\ ~Taken(m)
Waiting == \A m \in InboxMsgs : ~Taken(m) /\ NoList(m)
Apart == \A w, v \in Windows : w # v => MsgsOf(proc[w]) \cap MsgsOf(proc[v]) = {}
SpentLists == \A w \in Windows : \A m \in MsgsOf(proc[w]) : Taken(m) => Spent(w)

(* A message is in one place, and one that was taken is where no turn looks. *)
IntakeInv == Claimed /\ Fresh /\ Waiting /\ Apart /\ SpentLists

SameHooks == claims' = claims /\ \A m \in Messages : hook'[m].pc = hook[m].pc
SameLists == proc' = proc /\ InboxMsgs' = InboxMsgs /\ answered' = answered /\ settled' = settled

LEMMA InboxType ==
    ASSUME TypeOK
    PROVE  InboxMsgs \subseteq Messages /\ \A w \in Windows : MsgsOf(proc[w]) \subseteq Messages
  <1>1. \A i \in DOMAIN inbox : inbox[i] \in [msg : Messages, age : 0 .. WindowLen]
    BY SeqElements DEF TypeOK
  <1>2. InboxMsgs \subseteq Messages
    BY <1>1 DEF InboxMsgs
  <1>3. ASSUME NEW w \in Windows PROVE MsgsOf(proc[w]) \subseteq Messages
    <2>1. proc[w] \in Seq(Messages)
      BY DEF TypeOK
    <2> QED BY <2>1, SeqElements DEF MsgsOf
  <1> QED BY <1>2, <1>3

(* A window that is spent stays so: nobody starts on it again. *)
LEMMA SpentKept ==
    ASSUME TypeOK, NEW v \in Windows, Spent(v),
           \/ \E t \in Names : Moves(t) \/ Defers(t)
           \/ \E w \in Windows : Opens(w)
           \/ Keeps
    PROVE  Spent(v)'
  <1> USE FirstName DEF Spent, Used
  <1>1. ASSUME NEW t \in Names, Moves(t) PROVE Spent(v)'
    <2>1. \A u \in Names : Open(u)' => Open(u) /\ (u = t => tasks[t].pc # "committing")
      BY <1>1 DEF Moves, Open, Failed
    <2>2. \A u \in Names : u # t => tasks'[u] = tasks[u]
      BY <1>1 DEF Moves
    <2>3. Used(v)'
      BY <1>1 DEF Moves
    <2> QED BY <2>1, <2>2, <2>3
  <1>2. ASSUME NEW t \in Names, Defers(t) PROVE Spent(v)'
    <2>1. Open(t) /\ tasks[t].pc # "committing" /\ Win(NextName(t)) = Win(t)
      BY <1>2 DEF Defers, Open, OpenPcs, AheadPcs, NextName, Win
    <2>2. Win(t) # v
      BY <2>1
    <2>3. \A u \in Names : Win(u) = v => tasks'[u] = tasks[u]
      BY <1>2, <2>1, <2>2 DEF Defers
    <2> QED BY <2>3 DEF Open, Failed
  <1>3. ASSUME NEW w \in Windows, Opens(w) PROVE Spent(v)'
    <2>1. \A u \in Names : Win(u) = v => tasks'[u] = tasks[u]
      BY <1>3 DEF Opens
    <2> QED BY <2>1 DEF Open, Failed
  <1>4. ASSUME Keeps PROVE Spent(v)'
    BY <1>4 DEF Keeps, Open, Failed
  <1> QED BY <1>1, <1>2, <1>3, <1>4

(* A step that moves no message. *)
LEMMA IntakeSame ==
    ASSUME TypeOK, IntakeInv, SameLists, Claimed',
           \A m \in Messages : Unbuffered(m)' => Unbuffered(m),
           \/ \E t \in Names : Moves(t) \/ Defers(t)
           \/ \E w \in Windows : Opens(w)
           \/ Keeps
    PROVE  IntakeInv'
  <1> USE DEF IntakeInv, SameLists
  <1>1. \A m : Taken(m)' <=> Taken(m)
    BY DEF Taken
  <1>2. \A m : NoList(m)' <=> NoList(m)
    BY DEF NoList, MsgsOf
  <1>3. Fresh'
    BY <1>1, <1>2 DEF Fresh
  <1>4. Waiting'
    BY <1>1, <1>2 DEF Waiting
  <1>5. Apart'
    BY DEF Apart
  <1>6. SpentLists'
    BY <1>1, SpentKept DEF SpentLists
  <1> QED BY <1>3, <1>4, <1>5, <1>6

(* The last push. *)
LEMMA BufferInbox ==
    ASSUME TypeOK, NEW m \in Messages, Buffer(m)
    PROVE  /\ InboxMsgs' = InboxMsgs \cup {m}
           /\ hook' = [hook EXCEPT ![m].pc = "buffered"] /\ hook[m].pc = "stamped"
           /\ UNCHANGED <<claims, proc, tasks, answered, settled>>
  <1> DEFINE e == [msg |-> m, age |-> Least(hook[m].age, WindowLen)]
  <1>1. inbox' = Append(inbox, e) /\ e.msg = m
    BY DEF Buffer
  <1> HIDE DEF e
  <1>2. inbox \in Seq([msg : Messages, age : 0 .. WindowLen])
    BY DEF TypeOK
  <1>3. /\ DOMAIN inbox = 1 .. Len(inbox) /\ Len(inbox) \in Nat
        /\ DOMAIN inbox' = 1 .. Len(inbox) + 1
        /\ \A i \in 1 .. Len(inbox) : inbox'[i] = inbox[i]
        /\ inbox'[Len(inbox) + 1] = e
    BY <1>1, <1>2
  <1>4. InboxMsgs' = InboxMsgs \cup {m}
    BY <1>1, <1>3 DEF InboxMsgs
  <1> QED BY <1>4 DEF Buffer, HookAt, history

LEMMA IntakeHook ==
    ASSUME TypeOK, IntakeInv, HooksClean, NEW m \in Messages, HookStep(m)
    PROVE  IntakeInv'
  <1> USE DEF HookAt, redis, history, IntakeInv
  <1>0. hook \in [Messages -> Hooks] /\ hook[m] \in Hooks
    BY DEF TypeOK
  <1>1. CASE Buffer(m)
    <2> USE BufferInbox
    <2>1. m \in claims /\ m \notin InboxMsgs /\ NoList(m) /\ ~Taken(m)
      BY <1>1 DEF Claimed, Fresh, Unbuffered
    <2>2. \A n \in Messages : IF n = m THEN hook'[n].pc = "buffered" ELSE hook'[n].pc = hook[n].pc
      BY <1>0, <1>1 DEF Hooks
    <2>3. Claimed'
      BY <1>1, <2>1, <2>2 DEF Claimed
    <2>4. Fresh'
      BY <1>1, <2>1, <2>2 DEF Fresh, Unbuffered, Taken, NoList
    <2>5. Waiting'
      BY <1>1, <2>1 DEF Waiting, Taken, NoList
    <2>6. Apart'
      BY <1>1 DEF Apart
    <2>7. SpentLists'
      BY <1>1 DEF SpentLists, Taken, Spent, Used, Open, Failed
    <2> QED BY <2>3, <2>4, <2>5, <2>6, <2>7
  <1>2. CASE Schedule(m)
    <2>1. /\ hook' = [hook EXCEPT ![m] = Hook("acked")] /\ claims' = claims
          /\ Hook("acked").pc = "acked"
      BY <1>2 DEF Schedule, Hook
    <2>2. \A n \in Messages : n # m => hook'[n] = hook[n]
      BY <1>0, <2>1
    <2>3. hook'[m].pc = "acked"
      BY <1>0, <2>1
    <2>4. Claimed' /\ \A n \in Messages : Unbuffered(n)' => Unbuffered(n)
      BY <2>1, <2>2, <2>3 DEF Claimed, Unbuffered
    <2>5. SameLists
      BY <1>2 DEF Schedule, SameLists, InboxMsgs
    <2>6. (\E w \in Windows : Opens(w)) \/ Keeps
      BY HookKinds DEF Keeps
    <2> QED BY <2>4, <2>5, <2>6, IntakeSame
  <1>3. CASE ~ Buffer(m) /\ ~ Schedule(m)
    <2>1. SameLists /\ Keeps
      BY <1>3 DEF HookStep, Claim, SkipDuplicate, Ignore, Stamp, HookFails, HookCrashes, DismissRepeat,
                  Redeliver, SameLists, Keeps, InboxMsgs
    <2>2. \A n \in Messages \ {m} : hook'[n] = hook[n] /\ (n \in claims' <=> n \in claims)
      BY <1>0, <1>3 DEF HookStep, Claim, SkipDuplicate, Ignore, Stamp, HookFails, HookCrashes, DismissRepeat,
                        Redeliver
    <2>3. (m \in claims' \/ hook'[m].pc \in {"offered", "acked", "ignored", "duplicate"})
          /\ (Unbuffered(m)' => Unbuffered(m))
      <3>1. CASE Claim(m)
        BY <1>0, <3>1 DEF Claim, Unbuffered, Hooks
      <3>2. CASE SkipDuplicate(m)
        BY <1>0, <3>2 DEF SkipDuplicate, Unbuffered, Hooks
      <3>3. CASE Ignore(m)
        BY <1>0, <3>3 DEF Ignore, Unbuffered, Hooks
      <3>4. CASE Stamp(m)
        BY <1>0, <3>4 DEF Stamp, Unbuffered, Claimed
      <3>5. CASE HookFails(m)
        <4>1. hook[m].pc \in {"claimed", "stamped"}
          BY <3>5 DEF HookFails, HooksClean, Fault
        <4>2. hook'[m].pc \in {"offered", "duplicate"}
          BY <3>5, AgainType DEF HookFails
        <4> QED BY <4>1, <4>2 DEF Unbuffered
      <3>6. CASE Redeliver(m)
        BY <1>0, <3>6 DEF Redeliver, Unbuffered, Hooks
      <3>7. CASE HookCrashes(m)
        <4>1. hook'[m].pc \in {"offered", "duplicate"} /\ claims' = claims
          BY <3>7, AgainType DEF HookCrashes
        <4> QED BY <3>7, <4>1 DEF HookCrashes, Unbuffered, Claimed
      <3>8. CASE DismissRepeat(m)
        BY <1>0, <3>8 DEF DismissRepeat, Unbuffered, Hooks
      <3> QED BY <1>3, <3>1, <3>2, <3>3, <3>4, <3>5, <3>6, <3>7, <3>8 DEF HookStep
    <2>4. Claimed' /\ \A n \in Messages : Unbuffered(n)' => Unbuffered(n)
      BY <2>2, <2>3 DEF Claimed, Unbuffered
    <2> QED BY <2>1, <2>4, IntakeSame
  <1> QED BY <1>1, <1>2, <1>3

(* What the steps that do move messages do to them; the others move none. *)
LEMMA RenameLists ==
    ASSUME TypeOK, NEW t \in Names, Rename(t), inbox # <<>>
    PROVE  /\ InboxMsgs' = {} /\ MsgsOf(proc'[Win(t)]) = InboxMsgs /\ proc'[Win(t)] # <<>>
           /\ InboxMsgs # {}
           /\ \A w \in Windows \ {Win(t)} : proc'[w] = proc[w]
           /\ UNCHANGED <<claims, hook, answered, settled>>
  <1> DEFINE s == [i \in DOMAIN inbox |-> inbox[i].msg]
  <1>1. inbox' = <<>> /\ proc' = [proc EXCEPT ![Win(t)] = s]
    BY DEF Rename
  <1>2. Win(t) \in Windows /\ proc \in [Windows -> Seq(Messages)]
    BY NamesType DEF TypeOK
  <1>3. proc'[Win(t)] = s /\ \A w \in Windows \ {Win(t)} : proc'[w] = proc[w]
    BY <1>1, <1>2
  <1>4. DOMAIN s = DOMAIN inbox /\ \A i \in DOMAIN inbox : s[i] = inbox[i].msg
    OBVIOUS
  <1>5. inbox \in Seq([msg : Messages, age : 0 .. WindowLen])
    BY DEF TypeOK
  <1>6. 1 \in DOMAIN inbox
    BY <1>5
  <1>7. InboxMsgs' = {} /\ InboxMsgs # {}
    BY <1>1, <1>6 DEF InboxMsgs
  <1> HIDE DEF s
  <1>8. MsgsOf(s) = InboxMsgs /\ s # <<>>
    BY <1>4, <1>6 DEF MsgsOf, InboxMsgs
  <1> QED BY <1>3, <1>7, <1>8 DEF Rename, history

LEMMA StepMoves ==
    ASSUME TypeOK, NEW t \in Names, NoCrash, TurnStep(t) \/ TurnFault(t)
    PROVE  \/ Rename(t) /\ inbox # <<>>
           \/ Send(t) \/ Commit(t) \/ CommitFails(t)
           \/ SameLists /\ UNCHANGED <<claims, hook, inbox>>
  <1> USE DEF redis, history, SameLists
  <1>1. CASE DeferWhileTyping(t) \/ DeferWhileBusy(t)
    BY <1>1, DeferKind DEF InboxMsgs
  <1>2. CASE Rename(t) /\ inbox = <<>>
    BY <1>2 DEF Rename, InboxMsgs
  <1>3. CASE \/ StopWaiting(t) \/ AcquireTurn(t) \/ ProceedWithoutTurn(t) \/ Read(t)
             \/ Execute(t) \/ Decline(t) \/ ReleaseTurn(t) \/ Respond(t)
    BY <1>3 DEF StopWaiting, AcquireTurn, ProceedWithoutTurn, Read, Execute, Decline,
                ReleaseTurn, Respond, InboxMsgs
  <1>4. CASE AcquireFails(t) \/ RenameFails(t) \/ TurnFails(t) \/ ReleaseFails(t)
    BY <1>4 DEF AcquireFails, RenameFails, TurnFails, ReleaseFails, InboxMsgs
  <1> QED BY <1>1, <1>2, <1>3, <1>4, NotCrashed DEF TurnStep, TurnFault

(* The turn that ends a window, or answers it, works on what the list holds. *)
LEMMA ClosingTurn ==
    ASSUME TypeOK, WindowInv, NEW t \in Names, tasks[t].pc \in RunPcs
    PROVE  /\ Win(t) \in Windows /\ Used(Win(t)) /\ Open(t)
           /\ tasks[t].batch = proc[Win(t)] /\ proc[Win(t)] # <<>>
           /\ \A u \in Names \ {t} : Win(u) = Win(t) => ~Open(u)
  BY NamesType DEF WindowInv, FirstUsed, ReadsList, HasRead, OneOpen, Open, OpenPcs, RunPcs

(* After an answer or a decision about a list its window is spent, and no other list
   holds a message of it. *)
LEMMA IntakeTaken ==
    ASSUME TypeOK, TypeOK', IntakeInv, WindowInv, WindowInv', NEW t \in Names, Moves(t),
           tasks[t].pc \in RunPcs, tasks'[t].pc = "committing" \/ ~Open(t)',
           UNCHANGED <<claims, hook>>, InboxMsgs' = InboxMsgs,
           \A w \in Windows \ {Win(t)} : proc'[w] = proc[w],
           proc'[Win(t)] = proc[Win(t)] \/ proc'[Win(t)] = <<>>,
           \A m \in Messages : Taken(m)' <=> Taken(m) \/ m \in MsgsOf(proc[Win(t)])
    PROVE  IntakeInv'
  <1> USE ClosingTurn DEF IntakeInv
  <1>1. \A w \in Windows : MsgsOf(proc'[w]) \subseteq MsgsOf(proc[w])
    BY DEF MsgsOf
  <1>2. InboxMsgs \subseteq Messages /\ \A w \in Windows : MsgsOf(proc[w]) \subseteq Messages
    BY InboxType
  <1>3. Claimed'
    BY DEF Claimed
  <1>4. Fresh'
    BY <1>1 DEF Fresh, NoList, Unbuffered
  <1>5. Waiting'
    BY <1>1, <1>2 DEF Waiting, NoList
  <1>6. Apart'
    BY <1>1 DEF Apart
  <1>7. Spent(Win(t))'
    <2>1. Used(Win(t))'
      BY FirstName DEF Moves, Used
    <2>2. \A u \in Names \ {t} : Win(u) = Win(t) => ~Open(u)'
      BY DEF Moves, Open, Failed
    <2> QED BY <2>1, <2>2 DEF Spent
  <1>8. ASSUME NEW w \in Windows, NEW m \in MsgsOf(proc'[w]), Taken(m)' PROVE Spent(w)'
    <2>1. CASE w = Win(t)
      BY <1>7, <2>1
    <2>2. CASE w # Win(t)
      <3>1. m \in MsgsOf(proc[w]) /\ m \notin MsgsOf(proc[Win(t)]) /\ m \in Messages
        BY <1>1, <1>2, <1>8, <2>2 DEF Apart
      <3>2. Spent(w)
        BY <1>8, <3>1 DEF SpentLists
      <3> QED BY <3>2, SpentKept
    <2> QED BY <2>1, <2>2
  <1> QED BY <1>3, <1>4, <1>5, <1>6, <1>8 DEF SpentLists

LEMMA IntakeStep ==
    ASSUME TypeOK, TypeOK', IntakeInv, WindowInv, WindowInv', NoCrash,
           NEW t \in Names, TurnStep(t) \/ TurnFault(t)
    PROVE  IntakeInv'
  <1> USE DEF IntakeInv
  <1>0. /\ tasks[t] \in Tasks /\ tasks \in [Names -> Tasks] /\ Win(t) \in Windows
        /\ proc \in [Windows -> Seq(Messages)]
    BY NamesType DEF TypeOK
  <1>1. CASE Rename(t) /\ inbox # <<>>
    <2> USE <1>1, RenameLists
    <2>0. Moves(t)
      BY StepKinds DEF Defers, Rename, redis
    <2>1. Claimed'
      BY DEF Claimed
    <2>2. \A m : Taken(m)' <=> Taken(m)
      BY DEF Taken
    <2>3. Fresh'
      BY <2>2 DEF Fresh, NoList, Unbuffered
    <2>4. Waiting'
      BY DEF Waiting
    <2>5. Apart'
      BY DEF Apart, Waiting, NoList
    <2>6. SpentLists'
      BY <1>0, <2>0, <2>2, SpentKept DEF SpentLists, Waiting
    <2> QED BY <2>1, <2>3, <2>4, <2>5, <2>6
  <1>2. CASE Send(t)
    <2>1. /\ tasks[t].pc \in RunPcs /\ Goto(t, "committing") /\ tasks[t].pc = "answering"
          /\ UNCHANGED <<claims, hook, inbox, proc, settled>>
      BY <1>2 DEF Send, TaskAt, RunPcs, redis
    <2>2. tasks'[t].pc = "committing"
      BY <1>0, <2>1 DEF Goto, Tasks
    <2>3. Moves(t)
      BY <2>1, MovesGoto DEF OpenPcs, AheadPcs, RunPcs
    <2>4. \A m \in Messages : Taken(m)' <=> Taken(m) \/ m \in MsgsOf(proc[Win(t)])
      <3> SUFFICES ASSUME NEW m \in Messages
                   PROVE  answered'[m] # 0 <=> answered[m] # 0 \/ m \in MsgsOf(proc[Win(t)])
        BY <2>1 DEF Taken
      <3>1. answered'[m] = IF m \in MsgsOf(proc[Win(t)]) THEN Up(answered[m], 2) ELSE answered[m]
        BY <1>2, <2>1, ClosingTurn DEF Send
      <3>2. answered[m] \in 0 .. 2
        BY DEF TypeOK
      <3> QED BY <3>1, <3>2 DEF Up
    <2> QED BY <2>1, <2>2, <2>3, <2>4, IntakeTaken DEF InboxMsgs
  <1>3. CASE Commit(t) \/ CommitFails(t)
    <2>1. /\ tasks[t].pc \in RunPcs /\ Finish(t, "end") /\ tasks[t].pc = "committing"
          /\ UNCHANGED <<claims, hook, inbox, answered>>
          /\ proc' = proc \/ proc' = [proc EXCEPT ![Win(t)] = <<>>]
          /\ settled' = settled \cup MsgsOf(tasks[t].batch)
      BY <1>3 DEF Commit, CommitFails, TaskAt, RunPcs, redis
    <2>2. tasks'[t].pc = "releasing" /\ tasks'[t].out = "end"
      BY <1>0, <2>1 DEF Finish, Tasks
    <2>3. Moves(t)
      BY <2>1, MovesFinish DEF OpenPcs, AheadPcs, RunPcs
    <2>4. ~Open(t)'
      BY <2>2 DEF Open, Failed, OpenPcs, AheadPcs, RunPcs
    <2>5. \A m \in Messages : Taken(m)' <=> Taken(m) \/ m \in MsgsOf(proc[Win(t)])
      BY <2>1, ClosingTurn DEF Taken
    <2>6. /\ \A w \in Windows \ {Win(t)} : proc'[w] = proc[w]
          /\ proc'[Win(t)] = proc[Win(t)] \/ proc'[Win(t)] = <<>>
      BY <1>0, <2>1
    <2>7. InboxMsgs' = InboxMsgs
      BY <2>1 DEF InboxMsgs
    <2> QED BY <2>1, <2>3, <2>4, <2>5, <2>6, <2>7, IntakeTaken
  <1>4. CASE SameLists /\ UNCHANGED <<claims, hook, inbox>>
    <2>1. Claimed' /\ \A m \in Messages : Unbuffered(m)' => Unbuffered(m)
      BY <1>4 DEF Claimed, Unbuffered
    <2>2. Moves(t) \/ Defers(t)
      BY StepKinds
    <2> QED BY <1>4, <2>1, <2>2, IntakeSame
  <1> QED BY <1>1, <1>2, <1>3, <1>4, StepMoves

LEMMA TickInbox == ASSUME TypeOK, Tick PROVE InboxMsgs' = InboxMsgs
  <1>1. \A i \in DOMAIN inbox : inbox[i] \in [msg : Messages, age : 0 .. WindowLen]
    BY SeqElements DEF TypeOK
  <1>2. DOMAIN inbox' = DOMAIN inbox /\ \A i \in DOMAIN inbox : inbox'[i].msg = inbox[i].msg
    BY <1>1 DEF Tick
  <1> QED BY <1>2 DEF InboxMsgs

LEMMA IntakeKept ==
    ASSUME TypeOK, TypeOK', IntakeInv, WindowInv, WindowInv', NoCrash, HooksClean, [Next]_vars
    PROVE  IntakeInv'
  <1>1. CASE Tick
    <2>1. \A m \in Messages : hook'[m].pc = hook[m].pc
      BY <1>1 DEF Tick, TypeOK, Hooks
    <2>3. InboxMsgs' = InboxMsgs
      BY <1>1, TickInbox
    <2>4. SameLists /\ claims' = claims
      BY <1>1, <2>3 DEF Tick, SameLists, history
    <2>5. Claimed' /\ \A m \in Messages : Unbuffered(m)' => Unbuffered(m)
      BY <2>1, <2>4 DEF IntakeInv, Claimed, Unbuffered
    <2>6. Keeps
      BY <1>1, TickKeeps
    <2> QED BY <2>4, <2>5, <2>6, IntakeSame
  <1>2. CASE UNCHANGED vars
    <2>1. SameLists /\ Keeps /\ claims' = claims /\ hook' = hook
      BY <1>2 DEF vars, redis, history, SameLists, Keeps, InboxMsgs
    <2>2. Claimed' /\ \A m \in Messages : Unbuffered(m)' => Unbuffered(m)
      BY <2>1 DEF IntakeInv, Claimed, Unbuffered
    <2> QED BY <2>1, <2>2, IntakeSame
  <1> QED BY <1>1, <1>2, IntakeHook, IntakeStep DEF Next

LEMMA InitIntake == Init => IntakeInv
  <1> SUFFICES ASSUME Init PROVE IntakeInv
    OBVIOUS
  <1>1. InboxMsgs = {} /\ \A w \in Windows : MsgsOf(proc[w]) = {}
    BY DEF Init, InboxMsgs, MsgsOf
  <1> QED BY <1>1 DEF Init, Hook, IntakeInv, Claimed, Fresh, Waiting, Apart, SpentLists, NoList, Taken

LEMMA IntakeInvariance == ASSUME NoCrash, HooksClean PROVE Spec => []IntakeInv
  <1>1. /\ TypeOK /\ TypeOK' /\ WindowInv /\ WindowInv' /\ IntakeInv /\ [Next]_vars
        => IntakeInv'
    BY IntakeKept
  <1> QED BY <1>1, InitIntake, TypeCorrect, WindowInvariance, PTL DEF Spec

(* Unless an instance dies serving a task, or a webhook fails after its message is in
   Redis (one that dies there keeps its claim), nobody is answered twice, whatever else
   fails: the turn that answers is the only one of its
   window (OneOpen), no message of its list was answered or committed before it
   (SpentLists), and no other list or inbox holds one (Apart, Waiting). *)
THEOREM NobodyAnsweredTwice ==
    ASSUME NoCrash, HooksClean
    PROVE  Spec => []AnsweredOnce
  <1>1. Init => AnsweredOnce
    <2> SUFFICES ASSUME Init, NEW m \in Messages PROVE answered[m] <= 1
      BY DEF AnsweredOnce
    <2>1. answered = [n \in Messages |-> 0]
      BY DEF Init
    <2> QED BY <2>1
  <1>2. ASSUME TypeOK, WindowInv, IntakeInv, AnsweredOnce, [Next]_vars PROVE AnsweredOnce'
    <2>1. CASE answered' = answered
      BY <1>2, <2>1 DEF AnsweredOnce
    <2>2. ASSUME NEW t \in Names, Send(t) PROVE AnsweredOnce'
      <3>1. tasks[t].pc = "answering" /\ tasks[t].pc \in RunPcs
        BY <2>2 DEF Send, TaskAt, RunPcs
      <3>2. tasks[t].batch = proc[Win(t)] /\ Open(t) /\ Win(t) \in Windows
        BY <1>2, <3>1, ClosingTurn
      <3>3. ~Spent(Win(t))
        BY <3>1, <3>2 DEF Spent
      <3>4. \A m \in MsgsOf(tasks[t].batch) : answered[m] = 0
        BY <1>2, <3>2, <3>3 DEF IntakeInv, SpentLists, Taken
      <3>5. \A m \in Messages : answered'[m] \in {answered[m], 1}
        BY <2>2, <3>4 DEF Send, Up
      <3> QED BY <1>2, <3>5 DEF AnsweredOnce
    <2>3. (\E t \in Names : Send(t)) \/ answered' = answered
      <3>1. \A m \in Messages : HookStep(m) => answered' = answered
        BY DEF HookStep, history, Claim, SkipDuplicate, Ignore, Stamp, Buffer, Schedule,
               HookFails, HookCrashes, DismissRepeat, Redeliver
      <3>2. \A t \in Names : TurnStep(t) \/ TurnFault(t) => Send(t) \/ answered' = answered
        BY <1>2, StepMoves DEF Rename, Commit, CommitFails, SameLists, history
      <3>3. Tick \/ UNCHANGED vars => answered' = answered
        BY DEF Tick, vars, history
      <3> QED BY <1>2, <3>1, <3>2, <3>3 DEF Next
    <2> QED BY <2>1, <2>2, <2>3
  <1>3. TypeOK /\ WindowInv /\ IntakeInv /\ AnsweredOnce /\ [Next]_vars => AnsweredOnce'
    BY <1>2
  <1> QED BY <1>1, <1>3, TypeCorrect, WindowInvariance, IntakeInvariance, PTL DEF Spec

--------------------------------------------------------------------------------
(* No list is overwritten. *)

(* Without these a turn always comes to its commit. *)
TurnsFinish == {"read", "execute", "send"} \cap Faults = {}

(* A window with messages on its list is past draining: nobody will RENAME another
   inbox onto that list, and no turn of it is repeated. *)
Drained ==
    \A w \in Windows : proc[w] # <<>> =>
        Used(w) /\ \A t \in Names : Win(t) = w => tasks[t].pc \notin AheadPcs
NoneFailed == \A t \in Names : ~Failed(t)
DrainInv == Drained /\ NoneFailed

LEMMA TurnsSucceed ==
    ASSUME TypeOK, NEW t \in Names, NoCrash, TurnsFinish, TurnStep(t) \/ TurnFault(t),
           NoneFailed
    PROVE  ~Failed(t)'
  <1>0. tasks[t] \in Tasks /\ tasks \in [Names -> Tasks] /\ ~Failed(t)
    BY DEF TypeOK, NoneFailed
  <1>1. CASE DeferWhileTyping(t) \/ DeferWhileBusy(t)
    BY <1>1, DeferKind DEF Defers, Open
  <1>2. CASE StopWaiting(t) \/ ProceedWithoutTurn(t) \/ AcquireFails(t) \/ RenameFails(t)
             \/ Rename(t) \/ Execute(t) \/ Decline(t) \/ Send(t)
    <2>1. PICK pc \in {"peeked", "turn", "renamed"} \cup RunPcs : Goto(t, pc)
      BY <1>2 DEF StopWaiting, ProceedWithoutTurn, AcquireFails, RenameFails, Rename, Execute,
                  Decline, Send, RunPcs
    <2>2. tasks'[t].pc = pc
      BY <1>0, <2>1 DEF Goto, Tasks
    <2> QED BY <2>1, <2>2 DEF Failed, RunPcs
  <1>3. CASE AcquireTurn(t)
    <2>1. tasks'[t].pc = "turn"
      BY <1>0, <1>3 DEF AcquireTurn, Tasks
    <2> QED BY <2>1 DEF Failed
  <1>4. CASE Read(t) /\ proc[Win(t)] # <<>>
    <2>1. tasks' = [tasks EXCEPT ![t] = [tasks[t] EXCEPT !.pc = "running", !.batch = proc[Win(t)]]]
      BY <1>4 DEF Read
    <2>2. tasks'[t].pc = "running"
      BY <1>0, <2>1 DEF Tasks
    <2> QED BY <2>2 DEF Failed
  <1>5. CASE (Read(t) /\ proc[Win(t)] = <<>>) \/ Commit(t) \/ CommitFails(t)
    <2>1. Finish(t, "end")
      BY <1>5 DEF Read, Commit, CommitFails
    <2>2. tasks'[t].out = "end"
      BY <1>0, <2>1 DEF Finish, Tasks
    <2> QED BY <2>2 DEF Failed
  <1>6. CASE ReleaseTurn(t) \/ ReleaseFails(t)
    <2>1. tasks[t].pc = "releasing" /\ tasks[t].out # "retry"
      BY <1>0, <1>6 DEF ReleaseTurn, ReleaseFails, TaskAt, Failed
    <2>2. tasks' = [tasks EXCEPT ![t] = [Reply(t, tasks[t].out) EXCEPT !.turn = "none"]]
      BY <1>6 DEF ReleaseTurn, ReleaseFails
    <2>3. tasks'[t].out = tasks[t].out
      BY <1>0, <2>2 DEF Reply, Tasks
    <2> QED BY <2>1, <2>3 DEF Failed
  <1>7. CASE Respond(t)
    <2>1. tasks'[t].pc \in {"queued", "done"}
      BY <1>0, <1>7, RecordFields DEF Respond
    <2> QED BY <2>1 DEF Failed
  <1>8. ~TurnFails(t)
    BY DEF TurnFails, TurnsFinish, Fault
  <1> QED
    BY <1>1, <1>2, <1>3, <1>4, <1>5, <1>6, <1>7, <1>8, NotCrashed DEF TurnStep, TurnFault

LEMMA DrainKept ==
    ASSUME TypeOK, WindowInv, WindowInv', DrainInv, NoCrash, TurnsFinish, [Next]_vars
    PROVE  DrainInv'
  <1> USE FirstName DEF DrainInv
  <1>0. \A u \in Names : Win(u) \in Windows
    BY NamesType
  <1>1. ASSUME proc' = proc, Keeps PROVE DrainInv'
    BY <1>1 DEF Drained, NoneFailed, Keeps, Failed, Used
  <1>2. ASSUME NEW m \in Messages, HookStep(m) PROVE DrainInv'
    <2>1. proc' = proc
      BY <1>2 DEF redis, HookStep, Claim, SkipDuplicate, Ignore, Stamp, Buffer, Schedule,
                  HookFails, HookCrashes, DismissRepeat, Redeliver
    <2>2. CASE tasks' = tasks
      BY <1>1, <2>1, <2>2 DEF Keeps
    <2>3. ASSUME NEW w \in Windows, Opens(w) PROVE DrainInv'
      <3>1. NoneFailed'
        BY <2>3 DEF NoneFailed, Opens, Failed
      <3>2. Drained'
        BY <2>1, <2>3 DEF Drained, Opens, Used
      <3> QED BY <3>1, <3>2
    <2> QED BY <1>2, <2>2, <2>3, HookKinds
  <1>3. ASSUME NEW t \in Names, TurnStep(t) \/ TurnFault(t) PROVE DrainInv'
    <2>1. Moves(t) \/ Defers(t)
      BY <1>3, StepKinds
    <2>2. NoneFailed'
      BY <1>3, <2>1, TurnsSucceed DEF NoneFailed, Moves, Defers, Failed
    <2>3. ASSUME NEW w \in Windows, proc'[w] # <<>>
          PROVE  Used(w)' /\ \A u \in Names : Win(u) = w => tasks'[u].pc \notin AheadPcs
      <3>1. CASE proc[w] # <<>>
        <4>1. Used(w) /\ \A u \in Names : Win(u) = w => tasks[u].pc \notin AheadPcs
          BY <3>1 DEF Drained
        <4>2. CASE Moves(t)
          BY <4>1, <4>2 DEF Moves, Used, NoneFailed
        <4>3. CASE Defers(t)
          <5>1. Win(t) # w /\ Win(NextName(t)) = Win(t)
            BY <4>1, <4>3 DEF Defers, NextName, Win
          <5> QED BY <4>1, <4>3, <5>1 DEF Defers, Used
        <4> QED BY <2>1, <4>2, <4>3
      <3>2. CASE proc[w] = <<>>
        <4>1. Rename(t) /\ w = Win(t)
          <5>1. CASE Rename(t) /\ inbox # <<>>
            BY <2>3, <3>2, <5>1, RenameLists
          <5>2. CASE Send(t) \/ Commit(t) \/ CommitFails(t) \/ SameLists
            BY <2>3, <3>2, <5>2 DEF Send, Commit, CommitFails, SameLists, redis, TypeOK
          <5> QED BY <1>3, <5>1, <5>2, StepMoves
        <4>2. tasks[t].pc = "turn" /\ tasks'[t].pc = "renamed" /\ Open(t)'
          BY <4>1 DEF Rename, TaskAt, Goto, TypeOK, Tasks, Open, OpenPcs
        <4>3. Used(w)'
          BY <4>1, <4>2 DEF WindowInv, FirstUsed
        <4>4. ASSUME NEW u \in Names, Win(u) = w PROVE tasks'[u].pc \notin AheadPcs
          <5>1. CASE u = t
            BY <4>2, <5>1 DEF AheadPcs
          <5>2. CASE u # t
            BY <4>1, <4>2, <4>4, <5>2 DEF WindowInv, OneOpen, Open, OpenPcs
          <5> QED BY <5>1, <5>2
        <4> QED BY <4>3, <4>4
      <3> QED BY <3>1, <3>2
    <2> QED BY <2>2, <2>3 DEF Drained
  <1>4. CASE Tick
    BY <1>1, <1>4, TickKeeps DEF Tick
  <1>5. CASE UNCHANGED vars
    BY <1>1, <1>5 DEF vars, redis, Keeps
  <1> QED BY <1>2, <1>3, <1>4, <1>5 DEF Next

LEMMA InitDrain == Init => DrainInv
  BY DEF Init, DrainInv, Drained, NoneFailed, Failed, Absent

LEMMA DrainInvariance == ASSUME NoCrash, TurnsFinish PROVE Spec => []DrainInv
  <1>1. TypeOK /\ WindowInv /\ WindowInv' /\ DrainInv /\ [Next]_vars => DrainInv'
    BY DrainKept
  <1> QED BY <1>1, InitDrain, TypeCorrect, WindowInvariance, PTL DEF Spec

(* A message that is in a list, in the inbox or settled stays in one of them. *)
LEMMA PlaceKept ==
    ASSUME TypeOK, TypeOK', WindowInv, DrainInv, NoCrash, NEW t \in Names,
           TurnStep(t) \/ TurnFault(t)
    PROVE  InboxMsgs \cup Held \cup settled \subseteq (InboxMsgs \cup Held \cup settled)'
  <1>0. proc \in [Windows -> Seq(Messages)] /\ Win(t) \in Windows
    BY NamesType DEF TypeOK
  <1>1. CASE Rename(t) /\ inbox # <<>>
    <2> USE <1>1, RenameLists
    <2>1. tasks[t].pc \in AheadPcs
      BY DEF Rename, TaskAt, AheadPcs
    <2>2. proc[Win(t)] = <<>>
      BY <1>0, <2>1 DEF DrainInv, Drained
    <2>3. MsgsOf(proc[Win(t)]) = {}
      BY <2>2 DEF MsgsOf
    <2>4. Held \subseteq Held'
      BY <2>3 DEF Held
    <2>5. InboxMsgs \subseteq Held'
      BY <1>0, InboxType DEF Held
    <2> QED BY <2>4, <2>5
  <1>2. CASE Commit(t)
    <2>1. /\ settled' = settled \cup MsgsOf(proc[Win(t)]) /\ InboxMsgs' = InboxMsgs
          /\ \A w \in Windows \ {Win(t)} : proc'[w] = proc[w]
      BY <1>0, <1>2, ClosingTurn DEF Commit, TaskAt, RunPcs, InboxMsgs
    <2> QED BY <2>1 DEF Held
  <1>3. CASE Send(t) \/ CommitFails(t) \/ SameLists
    BY <1>3 DEF Send, CommitFails, SameLists, InboxMsgs, Held, redis
  <1> QED BY <1>1, <1>2, <1>3, StepMoves

(* Unless an instance dies serving a task or a turn throws, whatever else fails, every
   message a webhook put in Redis is still there or was settled: RENAME, which replaces
   what it finds, only ever finds an empty list (Drained), and what a commit deletes
   is what its turn had read (ReadsList). *)
THEOREM NothingLost ==
    ASSUME NoCrash, TurnsFinish
    PROVE  Spec => []NoMessageLost
  <1>1. Init => NoMessageLost
    <2> SUFFICES ASSUME Init, NEW m \in Messages PROVE hook[m].pc = "offered"
      BY DEF NoMessageLost
    <2>1. hook = [n \in Messages |-> Hook("offered")] /\ Hook("offered").pc = "offered"
      BY DEF Init, Hook
    <2> QED BY <2>1
  <1>2. ASSUME TypeOK, TypeOK', WindowInv, DrainInv, NoMessageLost, [Next]_vars
        PROVE  NoMessageLost'
    <2> DEFINE Place == InboxMsgs \cup Held \cup settled
    <2>0. hook \in [Messages -> Hooks]
      BY <1>2 DEF TypeOK
    <2>1. ASSUME Place \subseteq Place',
                 \A m \in Messages : hook'[m].pc \in {"buffered", "acked"} =>
                    hook[m].pc \in {"buffered", "acked"} \/ m \in Place'
          PROVE  NoMessageLost'
      BY <1>2, <2>1 DEF NoMessageLost
    <2>2. ASSUME NEW m \in Messages, HookStep(m) PROVE NoMessageLost'
      <3>1. CASE Buffer(m)
        <4>1. Place \subseteq Place' /\ m \in Place'
          BY <1>2, <3>1, BufferInbox DEF Held
        <4>2. \A n \in Messages \ {m} : hook'[n] = hook[n]
          BY <1>2, <2>0, <3>1, BufferInbox
        <4> QED BY <2>1, <4>1, <4>2
      <3>2. CASE ~Buffer(m)
        <4>1. UNCHANGED <<inbox, proc, settled>>
          BY <2>2, <3>2 DEF HookStep, redis, history, Claim, SkipDuplicate, Ignore, Stamp,
                            Schedule, HookFails, HookCrashes, DismissRepeat, Redeliver
        <4>2. Place' = Place
          BY <4>1 DEF InboxMsgs, Held
        <4>3. \A n \in Messages \ {m} : hook'[n] = hook[n]
          BY <2>0, <2>2 DEF HookStep, HookAt, Claim, SkipDuplicate, Ignore, Stamp, Buffer,
                            Schedule, HookFails, HookCrashes, DismissRepeat, Redeliver
        <4>4. hook'[m].pc \in {"buffered", "acked"} => hook[m].pc \in {"buffered", "acked"}
          <5>1. CASE Schedule(m)
            BY <5>1 DEF Schedule
          <5>2. CASE Claim(m) \/ SkipDuplicate(m) \/ Ignore(m) \/ Redeliver(m)
            <6>1. PICK pc \in {"claimed", "duplicate", "ignored", "offered"} :
                    hook' = [hook EXCEPT ![m].pc = pc]
              BY <5>2 DEF Claim, SkipDuplicate, Ignore, Redeliver, HookAt
            <6> QED BY <2>0, <6>1 DEF Hooks
          <5>3. CASE Stamp(m)
            BY <2>0, <5>3 DEF Stamp
          <5>4. CASE HookFails(m) \/ HookCrashes(m)
            BY <1>2, <5>4, AgainType DEF HookFails, HookCrashes
          <5>5. CASE DismissRepeat(m)
            BY <2>0, <5>5 DEF DismissRepeat, Hooks
          <5> QED BY <2>2, <3>2, <5>1, <5>2, <5>3, <5>4, <5>5 DEF HookStep
        <4> QED BY <2>1, <4>2, <4>3, <4>4
      <3> QED BY <3>1, <3>2
    <2>3. ASSUME NEW t \in Names, TurnStep(t) \/ TurnFault(t) PROVE NoMessageLost'
      <3>1. Place \subseteq Place'
        BY <1>2, <2>3, PlaceKept
      <3>2. hook' = hook
        BY <1>2, <2>3, StepMoves, RenameLists DEF Send, Commit, CommitFails
      <3> QED BY <2>1, <3>1, <3>2
    <2>4. CASE Tick
      <3>1. \A m \in Messages : hook'[m].pc = hook[m].pc
        BY <2>0, <2>4 DEF Tick, Hooks
      <3>2. proc' = proc /\ settled' = settled /\ InboxMsgs' = InboxMsgs
        BY <1>2, <2>4, TickInbox DEF Tick, history
      <3> QED BY <2>1, <3>1, <3>2 DEF Held
    <2>5. CASE UNCHANGED vars
      BY <2>1, <2>5 DEF vars, redis, history, InboxMsgs, Held
    <2> QED BY <1>2, <2>2, <2>3, <2>4, <2>5 DEF Next
  <1>3. /\ TypeOK /\ TypeOK' /\ WindowInv /\ DrainInv /\ NoMessageLost /\ [Next]_vars
        => NoMessageLost'
    BY <1>2
  <1> QED BY <1>1, <1>3, TypeCorrect, WindowInvariance, DrainInvariance, PTL DEF Spec

--------------------------------------------------------------------------------
(* The abstract intake. *)

(* The failures under which a batch is settled as a whole and once. *)
IntakeFaults ==
    /\ {"read", "execute", "send", "commit", "crash", "schedule"} \cap Faults = {}

Batches == {MsgsOf(proc[w]) : w \in Windows} \ {{}}

LEMMA InitIntakeSpec == Init => Intake!Init
  <1> SUFFICES ASSUME Init PROVE InboxMsgs = {} /\ Batches = {} /\ settled = {}
    BY DEF Intake!Init, Batches
  <1> QED BY DEF Init, InboxMsgs, MsgsOf, Batches

(* The whole inbox becomes a batch. *)
LEMMA RenameTakes ==
    ASSUME TypeOK, DrainInv, NEW t \in Names, Rename(t), inbox # <<>>
    PROVE  Intake!Take
  <1> USE RenameLists
  <1>1. Win(t) \in Windows /\ tasks[t].pc \in AheadPcs
    BY NamesType DEF Rename, TaskAt, AheadPcs
  <1>2. MsgsOf(proc[Win(t)]) = {}
    BY <1>1 DEF DrainInv, Drained, MsgsOf
  <1>3. Batches' = Batches \cup {InboxMsgs}
    <2>1. ASSUME NEW B \in Batches' PROVE B \in Batches \cup {InboxMsgs}
      <3>1. PICK w \in Windows : B = MsgsOf(proc'[w]) /\ B # {}
        BY <2>1 DEF Batches
      <3> QED BY <3>1 DEF Batches
    <2>2. ASSUME NEW B \in Batches PROVE B \in Batches'
      <3>1. PICK w \in Windows : B = MsgsOf(proc[w]) /\ B # {}
        BY <2>2 DEF Batches
      <3>2. w # Win(t)
        BY <1>2, <3>1
      <3> QED BY <3>1, <3>2 DEF Batches
    <2>3. InboxMsgs \in Batches'
      BY <1>1 DEF Batches
    <2> QED BY <2>1, <2>2, <2>3
  <1> QED BY <1>3 DEF Intake!Take, Batches

(* The batch of the window that ends is the only one that goes. *)
LEMMA CommitSettles ==
    ASSUME TypeOK, WindowInv, IntakeInv, NEW t \in Names, Commit(t)
    PROVE  \E B \in Batches : Intake!Settle(B)
  <1> DEFINE B == MsgsOf(proc[Win(t)])
  <1>1. /\ Win(t) \in Windows /\ proc[Win(t)] # <<>> /\ tasks[t].batch = proc[Win(t)]
        /\ proc \in [Windows -> Seq(Messages)]
    BY ClosingTurn DEF Commit, TaskAt, RunPcs, TypeOK
  <1>2. /\ proc' = [proc EXCEPT ![Win(t)] = <<>>] /\ settled' = settled \cup B
        /\ InboxMsgs' = InboxMsgs
    BY <1>1 DEF Commit, InboxMsgs
  <1>3. B # {}
    <2>1. proc[Win(t)] \in Seq(Messages) /\ 1 \in DOMAIN proc[Win(t)]
      BY <1>1
    <2> QED BY <2>1 DEF MsgsOf
  <1>4. MsgsOf(proc'[Win(t)]) = {} /\ \A w \in Windows \ {Win(t)} : proc'[w] = proc[w]
    BY <1>1, <1>2 DEF MsgsOf
  <1>5. \A w \in Windows : w # Win(t) => MsgsOf(proc[w]) \cap B = {}
    BY <1>1 DEF IntakeInv, Apart
  <1> HIDE DEF B
  <1>6. Batches' = Batches \ {B}
    <2>1. ASSUME NEW C \in Batches' PROVE C \in Batches /\ C # B
      <3>1. PICK w \in Windows : C = MsgsOf(proc'[w]) /\ C # {}
        BY <2>1 DEF Batches
      <3>2. w # Win(t) /\ C = MsgsOf(proc[w])
        BY <1>4, <3>1
      <3>3. C # B
        BY <1>5, <3>1, <3>2
      <3> QED BY <3>1, <3>2, <3>3 DEF Batches
    <2>2. ASSUME NEW C \in Batches, C # B PROVE C \in Batches'
      <3>1. PICK w \in Windows : C = MsgsOf(proc[w]) /\ C # {}
        BY <2>2 DEF Batches
      <3>2. w # Win(t)
        BY <2>2, <3>1 DEF B
      <3> QED BY <1>4, <3>1, <3>2 DEF Batches
    <2> QED BY <2>1, <2>2
  <1>7. B \in Batches
    BY <1>1, <1>3 DEF Batches, B
  <1> QED BY <1>2, <1>6, <1>7 DEF Intake!Settle, Batches

(* The push brings a message the intake never knew. *)
LEMMA BufferAccepts ==
    ASSUME TypeOK, IntakeInv, NEW m \in Messages, Buffer(m)
    PROVE  Intake!Accept(m)
  <1> USE BufferInbox
  <1>1. m \notin InboxMsgs /\ NoList(m) /\ ~Taken(m)
    BY DEF IntakeInv, Fresh, Unbuffered
  <1>2. m \notin UNION Batches
    BY <1>1 DEF NoList, Batches
  <1>3. m \notin Intake!Known
    BY <1>1, <1>2 DEF Intake!Known, Taken, Batches
  <1> QED BY <1>3 DEF Intake!Accept

LEMMA IntakeStutters ==
    ASSUME InboxMsgs' = InboxMsgs, proc' = proc, settled' = settled
    PROVE  UNCHANGED Intake!vars
  BY DEF Intake!vars

LEMMA NextIntake ==
    ASSUME TypeOK, WindowInv, IntakeInv, DrainInv, NoCrash, IntakeFaults, [Next]_vars
    PROVE  [Intake!Next]_(Intake!vars)
  <1>1. ASSUME NEW m \in Messages, HookStep(m) PROVE [Intake!Next]_(Intake!vars)
    <2>1. CASE Buffer(m)
      BY <2>1, BufferAccepts DEF Intake!Next
    <2>2. CASE ~Buffer(m)
      <3>1. UNCHANGED <<inbox, proc, settled>>
        BY <1>1, <2>2 DEF HookStep, redis, history, Claim, SkipDuplicate, Ignore, Stamp,
                          Schedule, HookFails, HookCrashes, DismissRepeat, Redeliver
      <3> QED BY <3>1, IntakeStutters DEF InboxMsgs
    <2> QED BY <2>1, <2>2
  <1>2. ASSUME NEW t \in Names, TurnStep(t) \/ TurnFault(t) PROVE [Intake!Next]_(Intake!vars)
    <2>1. CASE Rename(t) /\ inbox # <<>>
      BY <2>1, RenameTakes DEF Intake!Next
    <2>2. CASE Commit(t)
      BY <2>2, CommitSettles DEF Intake!Next, Batches
    <2>3. CASE Send(t) \/ SameLists
      BY <2>3, IntakeStutters DEF Send, SameLists, redis, InboxMsgs
    <2>4. ~CommitFails(t)
      BY DEF CommitFails, Fault, IntakeFaults
    <2> QED BY <1>2, <2>1, <2>2, <2>3, <2>4, StepMoves
  <1>3. CASE Tick
    BY <1>3, TickInbox, IntakeStutters DEF Tick, history
  <1>4. CASE UNCHANGED vars
    BY <1>4, IntakeStutters DEF vars, redis, history, InboxMsgs
  <1> QED BY <1>1, <1>2, <1>3, <1>4 DEF Next

(* With late handlers and turns, failing and dying webhooks, repeated deliveries, and a lock,
   a RENAME or a release that fails, the buffer, the task chain and the lock implement
   the abstract intake step by step: a push accepts a message, RENAME takes the whole
   inbox as one batch, the commit settles that batch, and nothing else shows.
   (The safety half of ImplementsIntake.) *)
THEOREM IntakeImplemented ==
    ASSUME IntakeFaults
    PROVE  Spec => Intake!Spec
  <1>1. NoCrash /\ HooksClean /\ TurnsFinish
    BY DEF IntakeFaults, NoCrash, HooksClean, TurnsFinish
  <1>2. /\ TypeOK /\ WindowInv /\ IntakeInv /\ DrainInv /\ [Next]_vars
        => [Intake!Next]_(Intake!vars)
    BY <1>1, NextIntake
  <1> QED
    BY <1>1, <1>2, InitIntakeSpec, TypeCorrect, WindowInvariance, IntakeInvariance,
       DrainInvariance, PTL DEF Spec, Intake!Spec
================================================================================
