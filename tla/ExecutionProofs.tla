---------------------------- MODULE ExecutionProofs ----------------------------
(***************************************************************************)
(* Proofs about Execution, for any number of runs, retries and failures:     *)
(* once nothing of a run is under way, its status, its charge and the        *)
(* statistics of its workflow agree as far as the module says.               *)
(***************************************************************************)
EXTENDS Execution, FiniteSetTheorems, TLAPS

RunStates == [pc : Pcs, kind : {None, "sync", "stream", "quiet"}, tries : 0 .. MaxRetries]

(* What the helpers that most actions share do. *)
LEMMA GoesTo ==
    ASSUME TypeOK, NEW r \in Runs, NEW pc \in Pcs, Goes(r, pc)
    PROVE  /\ run' \in [Runs -> RunStates]
           /\ run'[r].pc = pc /\ run'[r].kind = run[r].kind
           /\ \A q \in Runs \ {r} : run'[q] = run[q]
BY DEF TypeOK, Goes, RunStates

LEMMA Launches ==
    ASSUME TypeOK, NEW r \in Runs, NEW o \in Calls, Launch(r, o)
    PROVE  /\ upd' \in [Runs -> [Calls -> Progress]]
           /\ \A p \in Calls : upd'[r][p] = IF p = o THEN "row" ELSE upd[r][p]
           /\ \A q \in Runs \ {r} : upd'[q] = upd[q]
BY DEF TypeOK, Launch, Progress

LEMMA FaultCounted ==
    ASSUME TypeOK, NEW f, Fault(f)
    PROVE  faults' \in 0 .. MaxFaults
BY ExecutionAssumption DEF TypeOK, Fault

LEMMA Retries ==
    ASSUME TypeOK, NEW r \in Runs, Retry(r)
    PROVE  /\ run' \in [Runs -> RunStates]
           /\ upd' \in [Runs -> [Calls -> Progress]]
           /\ \A q \in Runs \ {r} : run'[q] = run[q] /\ upd'[q] = upd[q]
           /\ run'[r].kind = run[r].kind
           /\ \/ run'[r].pc = run[r].pc /\ upd'[r] = upd[r]
              \/ /\ run'[r].pc = "failing"
                 /\ \A p \in Calls : upd'[r][p] = IF p = "FAILED" THEN "row" ELSE upd[r][p]
<1>1. CASE run[r].tries < MaxRetries
  <2>1. run' = [run EXCEPT ![r].tries = @ + 1] /\ upd' = upd
    BY <1>1 DEF Retry
  <2>2. run[r].tries + 1 \in 0 .. MaxRetries
    BY <1>1, ExecutionAssumption DEF TypeOK
  <2> QED BY <2>1, <2>2 DEF TypeOK, RunStates
<1>2. CASE ~ (run[r].tries < MaxRetries)
  <2>1. Fails(r)
    BY <1>2 DEF Retry
  <2> QED BY <2>1, GoesTo, Launches DEF Fails, Pcs, Calls, Outcomes
<1> QED BY <1>1, <1>2

--------------------------------------------------------------------------------
LEMMA TypeInductive ==
    ASSUME TypeOK, [Next]_vars
    PROVE  TypeOK'
<1> USE DEF outside, money, history
<1>1. ASSUME NEW r \in Runs, NEW kind \in {"sync", "stream"}, Start(r, kind) PROVE TypeOK'
  <2>1. run' \in [Runs -> RunStates]
    BY <1>1 DEF Start, TypeOK, RunStates, Pcs
  <2> QED BY <1>1, <2>1 DEF Start, TypeOK, RunStates
<1>2. ASSUME NEW r \in Runs, Refuse(r) \/ Try(r) \/ HushEnds(r) \/ Throw(r) \/ Join(r) \/ Close(r)
                                 \/ StreamStops(r)
      PROVE  TypeOK'
  <2>1. run' \in [Runs -> RunStates]
    BY <1>2, GoesTo DEF Refuse, Try, HushEnds, Throw, Join, Close, StreamStops, Pcs
  <2> QED BY <1>2, <2>1 DEF Refuse, Try, HushEnds, Throw, Join, Close, StreamStops, TypeOK,
                            RunStates
<1>3. ASSUME NEW r \in Runs, Hush(r) PROVE TypeOK'
  <2>1. run' \in [Runs -> RunStates]
    BY <1>3 DEF Hush, TypeOK, RunStates, Pcs
  <2>2. upd' \in [Runs -> [Calls -> Progress]]
    BY <1>3, Launches DEF Hush, Calls, Outcomes
  <2> QED BY <1>3, <2>1, <2>2 DEF Hush, TypeOK, RunStates
<1>4. ASSUME NEW r \in Runs, TryFails(r) \/ JoinFails(r) \/ CloseFails(r) PROVE TypeOK'
  <2>1. Fails(r)
    BY <1>4 DEF TryFails, JoinFails, CloseFails
  <2>2. run' \in [Runs -> RunStates] /\ upd' \in [Runs -> [Calls -> Progress]]
    BY <2>1, GoesTo, Launches DEF Fails, Pcs, Calls, Outcomes
  <2>3. faults' \in 0 .. MaxFaults
    BY <1>4, FaultCounted DEF TryFails, JoinFails, CloseFails, TypeOK
  <2> QED BY <1>4, <2>2, <2>3 DEF TryFails, JoinFails, CloseFails, TypeOK, RunStates
<1>5. ASSUME NEW r \in Runs, FallsSilent(r) PROVE TypeOK'
  BY <1>5, FaultCounted DEF FallsSilent, TypeOK
<1>6. ASSUME NEW r \in Runs, Unavailable(r) \/ Deadline(r) PROVE TypeOK'
  <2>1. Retry(r)
    BY <1>6 DEF Unavailable, Deadline
  <2>2. run' \in [Runs -> RunStates] /\ upd' \in [Runs -> [Calls -> Progress]]
    BY <2>1, Retries
  <2>3. faults' \in 0 .. MaxFaults
    BY <1>6, FaultCounted DEF Unavailable, Deadline, TypeOK
  <2> QED BY <2>1, <2>2, <2>3 DEF Retry, TypeOK, RunStates
<1>7. ASSUME NEW r \in Runs, Answer(r) PROVE TypeOK'
  <2>1. run' \in [Runs -> RunStates] /\ upd' \in [Runs -> [Calls -> Progress]]
    BY <1>7, GoesTo, Launches DEF Answer, Pcs, Calls, Outcomes
  <2> QED BY <1>7, <2>1 DEF Answer, TypeOK, RunStates
<1>8. ASSUME NEW r \in Runs, StreamErrs(r) \/ StreamEnds(r) PROVE TypeOK'
  <2>1. run' \in [Runs -> RunStates] /\ upd' \in [Runs -> [Calls -> Progress]]
    BY <1>8, GoesTo, Launches DEF StreamErrs, StreamEnds, Pcs, Calls, Outcomes
  <2>2. faults' \in 0 .. MaxFaults
    BY <1>8, FaultCounted DEF StreamErrs, StreamEnds, TypeOK
  <2> QED BY <1>8, <2>1, <2>2 DEF StreamErrs, StreamEnds, TypeOK, RunStates
<1>9. ASSUME NEW r \in Runs, NEW o \in Calls, WriteRow(r, o) PROVE TypeOK'
  <2>1. upd' \in [Runs -> [Calls -> Progress]]
    BY <1>9 DEF WriteRow, TypeOK, Progress
  <2>2. status' \in [Runs -> {None, "PENDING", "CANCELLED"} \cup Outcomes]
    BY <1>9 DEF WriteRow, TypeOK, Calls, Outcome, Outcomes
  <2>3. late' \subseteq Runs
    BY <1>9 DEF WriteRow, TypeOK
  <2> QED BY <1>9, <2>1, <2>2, <2>3 DEF WriteRow, TypeOK
<1>10. ASSUME NEW r \in Runs, NEW o \in Calls, CountStats(r, o) PROVE TypeOK'
  BY <1>10 DEF CountStats, TypeOK, Progress
<1>11. ASSUME NEW r \in Runs, NEW o \in Calls, UpdateFails(r, o) PROVE TypeOK'
  <2>1. faults' \in 0 .. MaxFaults
    BY <1>11, FaultCounted DEF UpdateFails
  <2>2. upd' \in [Runs -> [Calls -> Progress]]
    <3>1. \E end \in {"unwritten", "uncounted"} : upd' = [upd EXCEPT ![r][o] = end]
      BY <1>11 DEF UpdateFails
    <3> QED BY <3>1 DEF TypeOK, Progress
  <2>3. counted' \in [Runs -> Nat]
    <3>1. [counted EXCEPT ![r] = @ + 1] \in [Runs -> Nat]
      BY DEF TypeOK
    <3> QED BY <1>11, <3>1 DEF UpdateFails, TypeOK
  <2> QED BY <1>11, <2>1, <2>2, <2>3 DEF UpdateFails, Hits, TypeOK
<1>12. ASSUME NEW r \in Runs, UpdateConversation(r) PROVE TypeOK'
  <2>1. faults' \in 0 .. MaxFaults
    BY <1>12, FaultCounted DEF UpdateConversation, TypeOK
  <2> QED BY <1>12, <2>1 DEF UpdateConversation, Hits, TypeOK
<1>13. ASSUME NEW r \in Runs, Charge(r) PROVE TypeOK'
  <2>1. run' \in [Runs -> RunStates]
    BY <1>13, GoesTo DEF Charge, Pcs
  <2> QED BY <1>13, <2>1 DEF Charge, TypeOK, RunStates
<1>14. ASSUME NEW r \in Runs, ChargeFails(r) PROVE TypeOK'
  <2>1. run' \in [Runs -> RunStates] /\ upd' \in [Runs -> [Calls -> Progress]]
    BY <1>14, GoesTo, Launches DEF ChargeFails, Fails, Pcs, Calls, Outcomes, TypeOK
  <2>2. faults' \in 0 .. MaxFaults
    BY <1>14, FaultCounted DEF ChargeFails
  <2> QED BY <1>14, <2>1, <2>2 DEF ChargeFails, Hits, TypeOK, RunStates
<1>15. ASSUME NEW r \in Runs, CancelCheck(r) \/ CancelWrite(r) \/ DeleteConversation(r) PROVE TypeOK'
  BY <1>15 DEF CancelCheck, CancelWrite, DeleteConversation, TypeOK
<1>16. ASSUME NEW r \in Runs, Crash(r) PROVE TypeOK'
  <2>1. run' \in [Runs -> RunStates]
    BY <1>16, GoesTo DEF Crash, Pcs
  <2>2. faults' \in 0 .. MaxFaults
    BY <1>16, FaultCounted DEF Crash
  <2>3. upd' \in [Runs -> [Calls -> Progress]]
    BY <1>16 DEF Crash, TypeOK, Progress
  <2> QED BY <1>16, <2>1, <2>2, <2>3 DEF Crash, Hits, TypeOK, RunStates
<1>17. CASE UNCHANGED vars
  BY <1>17 DEF vars, TypeOK
<1> QED BY <1>1, <1>2, <1>3, <1>4, <1>5, <1>6, <1>7, <1>8, <1>9, <1>10, <1>11, <1>12, <1>13,
           <1>14, <1>15, <1>16, <1>17 DEF Next, Continue, Break

(* The types, for any runs, retries and failures. *)
THEOREM TypeCorrect == Spec => []TypeOK
<1>1. Init => TypeOK
  BY ExecutionAssumption DEF Init, TypeOK, Pcs, Progress
<1>2. TypeOK /\ [Next]_vars => TypeOK'
  BY TypeInductive
<1> QED BY <1>1, <1>2, PTL DEF Spec

--------------------------------------------------------------------------------
(* The strengthening, of one run.                                             *)

Broke(r) == upd[r]["ERROR"] # None
WroteFailed(r) == \E f \in Failures : Wrote(r, f)
Done(r, o) == IF upd[r][o] = "done" THEN 1 ELSE 0

(* Which updates have left by each point of the run: none is launched twice, but for the
   FAILED of a stream whose FAILED was lost. *)
Stage(r) ==
    LET c == upd[r]["COMPLETED"]
        f == upd[r]["FAILED"] IN
    /\ run[r].pc \in {"idle", "created", "trying"} => c = None /\ f = None
    /\ run[r].pc \in {"quiet", "joining"} => c # None /\ f = None
    /\ At(r, "quiet") => run[r].kind = "quiet"
    /\ At(r, "joining") => run[r].kind = "sync"
    /\ At(r, "closing") => run[r].kind = "stream" /\ (c = None) # (f = None)
    /\ At(r, "charging") => \/ run[r].kind \in {"sync", "stream"} /\ c = "done" /\ f = None
                            \/ run[r].kind = "stream" /\ c = None /\ f = "done"
    /\ At(r, "failing") => f # None
    /\ At(r, "erred") => run[r].kind = "stream" /\ c = None /\ f = None
    /\ Broke(r) => /\ run[r].pc \notin {"idle", "created", "trying", "quiet", "joining"}
                   /\ run[r].kind = "stream"

(* The row shows the last update that was written, or the cancellation. *)
RowShows(r) ==
    /\ status[r] = "COMPLETED" => Wrote(r, "COMPLETED")
    /\ Wrote(r, "COMPLETED") /\ ~WroteFailed(r)
          => status[r] = "COMPLETED" \/ cancel[r] = "done"
    /\ status[r] = "COMPLETED" /\ WroteFailed(r) => r \in late

(* As long as no failure hit the run, its updates end well and are counted one by one. *)
Unhit(r) ==
    r \notin hit => /\ ~At(r, "dead")
                    /\ \A o \in Calls : upd[r][o] \notin {"unwritten", "uncounted"}
                    /\ counted[r] = Done(r, "COMPLETED") + Done(r, "FAILED") + Done(r, "ERROR")

(* The charge comes last; a run that is over without it did not complete. *)
Paid(r) ==
    LET c == upd[r]["COMPLETED"]
        f == upd[r]["FAILED"] IN
    /\ r \in charged => /\ run[r].pc \in {"over", "failing", "dead"}
                        /\ \/ c = "done" /\ ~ Broke(r) /\ (f = None \/ r \in hit)
                           \/ run[r].kind = "stream" /\ (Broke(r) \/ f # None)
    /\ At(r, "over") => \/ run[r].kind = "quiet"
                        \/ r \in charged
                        \/ c = None
                        \/ r \in hit /\ run[r].kind = "stream"
                        \/ f \in Ended

RunInv(r) == Stage(r) /\ RowShows(r) /\ Unhit(r) /\ Paid(r)

(* What RunInv(r) speaks of. *)
Same(r) ==
    /\ status'[r] = status[r] /\ run'[r] = run[r] /\ upd'[r] = upd[r]
    /\ cancel'[r] = cancel[r] /\ counted'[r] = counted[r]
    /\ (r \in charged') = (r \in charged)
    /\ (r \in hit') = (r \in hit)
    /\ (r \in late') = (r \in late)

LEMMA SameKeeps ==
    ASSUME NEW r \in Runs, RunInv(r), Same(r)
    PROVE  RunInv(r)'
BY DEF RunInv, Same, Stage, RowShows, Unhit, Paid, At, Wrote, Done, Broke, WroteFailed, Failures

(* A step of one run changes nothing of another. *)
Step(s) ==
    \/ \E kind \in {"sync", "stream"} : Start(s, kind)
    \/ Refuse(s) \/ Hush(s) \/ Try(s) \/ Continue(s) \/ Break(s)
    \/ CancelCheck(s) \/ DeleteConversation(s)

LEMMA Apart ==
    ASSUME TypeOK, NEW s \in Runs, Step(s), NEW r \in Runs \ {s}
    PROVE  Same(r)
<1> USE DEF outside, money, history
<1>1. CASE \/ \E kind \in {"sync", "stream"} : Start(s, kind)
           \/ Refuse(s) \/ Try(s) \/ HushEnds(s) \/ Throw(s) \/ Join(s) \/ Close(s) \/ Charge(s)
           \/ StreamStops(s)
  BY <1>1 DEF Start, Refuse, Try, HushEnds, Throw, Join, Close, Charge, StreamStops, Goes, TypeOK,
              Same
<1>2. CASE Hush(s) \/ Answer(s) \/ StreamEnds(s) \/ StreamErrs(s)
  BY <1>2 DEF Hush, Answer, StreamEnds, StreamErrs, Goes, Launch, TypeOK, Same
<1>3. CASE TryFails(s) \/ JoinFails(s) \/ CloseFails(s)
  BY <1>3 DEF TryFails, JoinFails, CloseFails, Fails, Goes, Launch, TypeOK, Same
<1>4. CASE FallsSilent(s) \/ UpdateConversation(s) \/ CancelCheck(s) \/ CancelWrite(s)
           \/ DeleteConversation(s)
  BY <1>4 DEF FallsSilent, UpdateConversation, CancelCheck, CancelWrite, DeleteConversation,
              Hits, TypeOK, Same
<1>5. CASE Unavailable(s) \/ Deadline(s)
  <2>1. Retry(s)
    BY <1>5 DEF Unavailable, Deadline
  <2>2. run'[r] = run[r] /\ upd'[r] = upd[r]
    BY <2>1, Retries
  <2> QED BY <2>1, <2>2 DEF Retry, Same
<1>6. CASE \E o \in Calls : WriteRow(s, o) \/ CountStats(s, o) \/ UpdateFails(s, o)
  BY <1>6 DEF WriteRow, CountStats, UpdateFails, Hits, TypeOK, Same
<1>7. CASE ChargeFails(s) \/ Crash(s)
  BY <1>7 DEF ChargeFails, Crash, Fails, Goes, Launch, Hits, TypeOK, Same
<1> QED BY <1>1, <1>2, <1>3, <1>4, <1>5, <1>6, <1>7 DEF Step, Continue, Break

(* A step that only moves the run on, to a place where Stage still holds. *)
LEMMA Moves ==
    ASSUME TypeOK, NEW r \in Runs, RunInv(r), NEW pc \in Pcs, Goes(r, pc),
           pc # "dead", r \in charged => pc = "over",
           upd' = upd, UNCHANGED <<status, cancel, counted, charged, history>>,
           Stage(r)', pc = "over" => Paid(r)'
    PROVE  RunInv(r)'
<1>1. run'[r].pc = pc /\ run'[r].kind = run[r].kind
  BY GoesTo
<1>2. RowShows(r)'
  BY DEF RunInv, RowShows, Wrote, history, WroteFailed, Failures
<1>3. Unhit(r)'
  BY <1>1 DEF RunInv, Unhit, Done, At, history
<1>4. Paid(r)'
  BY <1>1 DEF RunInv, Paid, At, history, Broke
<1> QED BY <1>2, <1>3, <1>4 DEF RunInv

(* An update that leaves where none had left. *)
LEMMA FirstLaunch ==
    ASSUME TypeOK, NEW r \in Runs, RunInv(r), NEW o \in Calls, upd[r][o] = None, Launch(r, o),
           run'[r].pc \notin {"over", "dead"}, r \notin charged,
           charged' = charged,
           UNCHANGED <<status, cancel, counted, history>>, Stage(r)'
    PROVE  RunInv(r)'
<1>1. \A p \in Calls : upd'[r][p] = IF p = o THEN "row" ELSE upd[r][p]
  BY Launches
<1>2. RowShows(r)'
  BY <1>1 DEF RunInv, RowShows, Wrote, history, Outcomes, None, WroteFailed, Failures, Calls
<1>3. Unhit(r)'
  BY <1>1 DEF RunInv, Unhit, Done, At, history, Calls, Outcomes, None
<1>4. Paid(r)'
  BY DEF Paid, At, Broke
<1> QED BY <1>2, <1>3, <1>4 DEF RunInv

LEMMA OwnStep ==
    ASSUME TypeOK, NEW r \in Runs, RunInv(r), Step(r)
    PROVE  RunInv(r)'
<1> USE DEF outside, money
<1>0. "COMPLETED" \in Calls /\ "FAILED" \in Calls /\ "ERROR" \in Calls
  BY DEF Calls, Outcomes
<1>1. ASSUME NEW kind \in {"sync", "stream"}, Start(r, kind) PROVE RunInv(r)'
  <2>1. /\ run'[r].pc = "created" /\ run'[r].kind = kind /\ status'[r] = "PENDING"
        /\ At(r, "idle")
    BY <1>1 DEF Start, TypeOK
  <2> QED BY <1>1, <2>1 DEF Start, RunInv, Stage, RowShows, Unhit, Paid, At, Wrote, Done, None,
                            history, Broke, WroteFailed, Failures
<1>2. CASE Refuse(r) \/ Try(r)
  <2>1. \E pc \in {"over", "trying"} : run'[r].pc = pc /\ Goes(r, pc)
    BY <1>2, GoesTo DEF Refuse, Try, Pcs
  <2> QED BY <1>2, <2>1, Moves DEF Refuse, Try, RunInv, Stage, Paid, At, Pcs, history, Broke
<1>3. CASE HushEnds(r)
  <2>1. run'[r].pc = "over" /\ run'[r].kind = run[r].kind
    BY <1>3, GoesTo DEF HushEnds, Pcs
  <2> QED BY <1>3, <2>1, Moves DEF HushEnds, RunInv, Stage, Paid, At, Pcs, history, Broke
<1>4. CASE Hush(r)
  <2>1. run'[r].pc = "quiet" /\ run'[r].kind = "quiet"
    BY <1>4 DEF Hush, TypeOK
  <2>2. \A p \in Calls : upd'[r][p] = IF p = "COMPLETED" THEN "row" ELSE upd[r][p]
    BY <1>0, <1>4, Launches DEF Hush
  <2>3. Stage(r)'
    BY <1>0, <1>4, <2>1, <2>2 DEF Hush, RunInv, Stage, At, None, Broke
  <2> QED BY <1>0, <1>4, <2>1, <2>3, FirstLaunch DEF Hush, RunInv, Stage, Paid, At, Broke
<1>5. CASE Answer(r)
  <2>1. run'[r].pc = "joining" /\ run'[r].kind = "sync"
    BY <1>5, GoesTo DEF Answer, Pcs
  <2>2. \A p \in Calls : upd'[r][p] = IF p = "COMPLETED" THEN "row" ELSE upd[r][p]
    BY <1>0, <1>5, Launches DEF Answer
  <2>3. Stage(r)'
    BY <1>0, <1>5, <2>1, <2>2 DEF Answer, RunInv, Stage, At, None, Broke
  <2> QED BY <1>0, <1>5, <2>1, <2>3, FirstLaunch DEF Answer, RunInv, Stage, Paid, At, Broke
<1>6. CASE StreamEnds(r)
  <2>1. run'[r].pc = "closing" /\ run'[r].kind = "stream"
    BY <1>6, GoesTo DEF StreamEnds, Pcs
  <2>2. PICK o \in Outcomes : Launch(r, o)
    BY <1>6 DEF StreamEnds, Outcomes
  <2>3. o \in Calls /\ \A p \in Calls : upd'[r][p] = IF p = o THEN "row" ELSE upd[r][p]
    BY <2>2, Launches DEF Calls
  <2>4. upd[r]["COMPLETED"] = None /\ upd[r]["FAILED"] = None /\ r \notin charged
    BY <1>6 DEF StreamEnds, RunInv, Stage, Paid, At, Broke
  <2>5. upd[r][o] = None
    BY <2>4 DEF Outcomes
  <2>6. Stage(r)'
    BY <1>0, <1>6, <2>1, <2>3, <2>4 DEF StreamEnds, RunInv, Stage, At, None, Outcomes, Broke
  <2> QED BY <1>6, <2>1, <2>2, <2>3, <2>4, <2>5, <2>6, FirstLaunch DEF StreamEnds
<1>7. CASE TryFails(r) \/ JoinFails(r)
  <2>1. run'[r].pc = "failing" /\ Launch(r, "FAILED")
    BY <1>7, GoesTo DEF TryFails, JoinFails, Fails, Pcs
  <2>2. \A p \in Calls : upd'[r][p] = IF p = "FAILED" THEN "row" ELSE upd[r][p]
    BY <1>0, <2>1, Launches
  <2>3. upd[r]["FAILED"] = None /\ r \notin charged
    BY <1>7 DEF TryFails, JoinFails, RunInv, Stage, Paid, At, Broke
  <2>4. upd'[r]["ERROR"] = None
    BY <1>0, <1>7, <2>2 DEF TryFails, JoinFails, RunInv, Stage, At, Broke
  <2>5. Stage(r)'
    BY <1>0, <2>1, <2>2, <2>4 DEF Stage, At, None, Broke
  <2> QED BY <1>0, <1>7, <2>1, <2>3, <2>5, FirstLaunch DEF TryFails, JoinFails
<1>8. CASE CloseFails(r)
  <2>1. run'[r].pc = "failing" /\ run'[r].kind = run[r].kind /\ Launch(r, "FAILED")
    BY <1>8, GoesTo DEF CloseFails, Fails, Pcs
  <2>2. \A p \in Calls : upd'[r][p] = IF p = "FAILED" THEN "row" ELSE upd[r][p]
    BY <1>0, <2>1, Launches
  <2>3. r \in hit /\ r \notin charged
    BY <1>8 DEF CloseFails, Lost, RunInv, Unhit, Paid, At, Broke, Calls
  <2>4. Stage(r)'
    BY <1>0, <1>8, <2>1, <2>2 DEF CloseFails, RunInv, Stage, At, None, Broke
  <2>5. upd[r]["COMPLETED"] = None \/ upd[r]["FAILED"] = None
    BY <1>8 DEF CloseFails, RunInv, Stage, At, Broke
  <2>6. RowShows(r)'
    BY <1>0, <1>8, <2>2, <2>5 DEF CloseFails, RunInv, RowShows, Wrote, history, None, WroteFailed,
                                  Failures
  <2>7. Unhit(r)' /\ Paid(r)'
    BY <1>8, <2>1, <2>3 DEF CloseFails, Unhit, Paid, At, history, Broke
  <2> QED BY <2>4, <2>6, <2>7 DEF RunInv
<1>9. CASE Unavailable(r) \/ Deadline(r)
  <2>1. Retry(r) /\ At(r, "trying")
    BY <1>9 DEF Unavailable, Deadline
  <2>2. CASE run[r].tries < MaxRetries
    <3>1. run'[r].pc = run[r].pc /\ run'[r].kind = run[r].kind /\ upd' = upd
      BY <2>1, <2>2 DEF Retry, TypeOK
    <3> QED BY <2>1, <3>1 DEF Retry, RunInv, Stage, RowShows, Unhit, Paid, At, Wrote, Done,
                              history, Broke, WroteFailed, Failures
  <2>3. CASE ~ (run[r].tries < MaxRetries)
    <3>1. run'[r].pc = "failing" /\ Launch(r, "FAILED")
      BY <2>1, <2>3, GoesTo DEF Retry, Fails, Pcs
    <3>2. \A p \in Calls : upd'[r][p] = IF p = "FAILED" THEN "row" ELSE upd[r][p]
      BY <1>0, <3>1, Launches
    <3>3. upd[r]["FAILED"] = None /\ r \notin charged
      BY <2>1 DEF RunInv, Stage, Paid, At, Broke
    <3>4. Stage(r)'
      BY <1>0, <2>1, <3>1, <3>2 DEF RunInv, Stage, At, None, Broke
    <3> QED BY <1>0, <2>1, <3>1, <3>3, <3>4, FirstLaunch DEF Retry
  <2> QED BY <2>2, <2>3
<1>10. CASE \E o \in Calls : WriteRow(r, o)
  <2>1. PICK o \in Calls : WriteRow(r, o)
    BY <1>10
  <2>2. /\ \A p \in Calls : upd'[r][p] = IF p = o THEN "stats" ELSE upd[r][p]
        /\ status'[r] = IF o = "COMPLETED" THEN "COMPLETED" ELSE "FAILED"
    BY <2>1 DEF WriteRow, TypeOK, Outcome, Calls, Outcomes
  <2>3. Stage(r)'
    BY <1>0, <2>1, <2>2 DEF WriteRow, RunInv, Stage, At, None, Outcomes, Broke
  <2>4. RowShows(r)'
    BY <1>0, <2>1, <2>2 DEF WriteRow, RunInv, RowShows, Wrote, Outcomes, WroteFailed, Failures,
                            Calls
  <2>5. Unhit(r)'
    BY <1>0, <2>1, <2>2 DEF WriteRow, RunInv, Unhit, Done, At, Calls, Outcomes
  <2>6. Paid(r)'
    BY <1>0, <2>1, <2>2 DEF WriteRow, RunInv, Paid, At, Outcomes, Ended, None, Broke
  <2> QED BY <2>3, <2>4, <2>5, <2>6 DEF RunInv
<1>11. CASE \E o \in Calls : CountStats(r, o)
  <2>1. PICK o \in Calls : CountStats(r, o)
    BY <1>11
  <2>2. /\ \A p \in Calls : upd'[r][p] = IF p = o THEN "done" ELSE upd[r][p]
        /\ counted'[r] = counted[r] + 1 /\ counted[r] \in Nat
    BY <2>1 DEF CountStats, TypeOK
  <2>3. Stage(r)'
    BY <1>0, <2>1, <2>2 DEF CountStats, RunInv, Stage, At, None, Outcomes, Broke
  <2>4. RowShows(r)'
    BY <1>0, <2>1, <2>2 DEF CountStats, RunInv, RowShows, Wrote, Outcomes, history, WroteFailed,
                            Failures, Calls
  <2>5. Unhit(r)'
    BY <1>0, <2>1, <2>2 DEF CountStats, RunInv, Unhit, Done, At, Calls, Outcomes, history
  <2>6. Paid(r)'
    BY <1>0, <2>1, <2>2 DEF CountStats, RunInv, Paid, At, Outcomes, Ended, None, history, Broke
  <2> QED BY <2>3, <2>4, <2>5, <2>6 DEF RunInv
<1>12. CASE \E o \in Calls : UpdateFails(r, o)
  <2>1. PICK o \in Calls : UpdateFails(r, o)
    BY <1>12
  <2>2. PICK end \in {"unwritten", "uncounted"} :
            /\ \A p \in Calls : upd'[r][p] = IF p = o THEN end ELSE upd[r][p]
            /\ IF end = "unwritten" THEN upd[r][o] = "row" ELSE upd[r][o] = "stats"
    BY <2>1 DEF UpdateFails, TypeOK
  <2>3. r \in hit'
    BY <2>1 DEF UpdateFails, Hits
  <2>4. Stage(r)'
    BY <1>0, <2>1, <2>2 DEF UpdateFails, RunInv, Stage, At, None, Outcomes, Broke
  <2>5. RowShows(r)'
    BY <1>0, <2>1, <2>2 DEF UpdateFails, RunInv, RowShows, Wrote, Outcomes, WroteFailed, Failures,
                            Calls
  <2>6. Unhit(r)'
    BY <2>3 DEF Unhit
  <2>7. Paid(r)'
    BY <1>0, <2>1, <2>2, <2>3 DEF UpdateFails, RunInv, Paid, At, Outcomes, Ended, None, Broke
  <2> QED BY <2>4, <2>5, <2>6, <2>7 DEF RunInv
<1>13. CASE FallsSilent(r) \/ CancelCheck(r) \/ DeleteConversation(r)
  <2>1. cancel[r] = "done" => cancel'[r] = "done"
    BY <1>13 DEF FallsSilent, CancelCheck, DeleteConversation, TypeOK, None
  <2> QED BY <1>13, <2>1 DEF FallsSilent, CancelCheck, DeleteConversation, RunInv, Stage, RowShows,
                             Unhit, Paid, At, Wrote, Done, history, Broke, WroteFailed, Failures
<1>14. CASE CancelWrite(r)
  <2>1. status'[r] = "CANCELLED" /\ cancel'[r] = "done"
    BY <1>14 DEF CancelWrite, TypeOK
  <2> QED BY <1>14, <2>1 DEF CancelWrite, RunInv, Stage, RowShows, Unhit, Paid, At, Wrote, Done,
                             history, Broke, WroteFailed, Failures
<1>15. CASE UpdateConversation(r)
  <2>1. r \in hit => r \in hit'
    BY <1>15 DEF UpdateConversation, Hits
  <2> QED BY <1>15, <2>1 DEF UpdateConversation, RunInv, Stage, RowShows, Unhit, Paid, At, Wrote,
                             Done, Broke, WroteFailed, Failures
<1>16. CASE Join(r) \/ Close(r)
  <2>1. run'[r].pc = "charging" /\ run'[r].kind = run[r].kind /\ Goes(r, "charging")
    BY <1>16, GoesTo DEF Join, Close, Pcs
  <2>2. r \notin charged
    BY <1>16 DEF Join, Close, RunInv, Paid, At, Broke
  <2>3. Stage(r)'
    BY <1>0, <1>16, <2>1 DEF Join, Close, RunInv, Stage, At, None, Outcomes, Broke
  <2> QED BY <1>16, <2>1, <2>2, <2>3, Moves DEF Join, Close, Pcs
<1>17. CASE Charge(r)
  <2>1. run'[r].pc = "over" /\ run'[r].kind = run[r].kind
    BY <1>17, GoesTo DEF Charge, Pcs
  <2>2. Stage(r)' /\ RowShows(r)' /\ Unhit(r)'
    BY <1>17, <2>1 DEF Charge, RunInv, Stage, RowShows, Unhit, At, Wrote, Done, history, Broke,
                       WroteFailed, Failures
  <2>3. Paid(r)'
    BY <1>17, <2>1 DEF Charge, RunInv, Stage, Paid, At, None, Broke
  <2> QED BY <2>2, <2>3 DEF RunInv
<1>18. CASE ChargeFails(r)
  <2>1. r \in hit'
    BY <1>18 DEF ChargeFails, Hits
  <2>2. CASE run[r].kind = "sync"
    <3>1. run'[r].pc = "failing" /\ run'[r].kind = run[r].kind /\ Launch(r, "FAILED")
      BY <1>18, <2>2, GoesTo DEF ChargeFails, Fails, Pcs
    <3>2. \A p \in Calls : upd'[r][p] = IF p = "FAILED" THEN "row" ELSE upd[r][p]
      BY <1>0, <3>1, Launches
    <3>3. upd[r]["COMPLETED"] = "done" /\ upd[r]["FAILED"] = None
      BY <1>18, <2>2 DEF ChargeFails, RunInv, Stage, At, Broke
    <3>4. Stage(r)' /\ Unhit(r)' /\ Paid(r)'
      BY <1>0, <1>18, <2>1, <2>2, <3>1, <3>2, <3>3 DEF ChargeFails, RunInv, Stage, Unhit, Paid, At,
                                                       None, Broke
    <3>5. RowShows(r)'
      BY <1>0, <1>18, <3>2, <3>3 DEF ChargeFails, RunInv, RowShows, Wrote, None, WroteFailed,
                                     Failures
    <3> QED BY <3>4, <3>5 DEF RunInv
  <2>3. CASE run[r].kind # "sync"
    <3>1. run'[r].pc = "over" /\ run'[r].kind = run[r].kind /\ upd' = upd
      BY <1>18, <2>3, GoesTo DEF ChargeFails, Pcs
    <3>2. /\ run[r].kind = "stream"
          /\ \/ upd[r]["COMPLETED"] = "done" /\ upd[r]["FAILED"] = None
             \/ upd[r]["COMPLETED"] = None /\ upd[r]["FAILED"] = "done"
      BY <1>18, <2>3 DEF ChargeFails, RunInv, Stage, At, Broke
    <3>3. Stage(r)' /\ Unhit(r)'
      BY <1>18, <2>1, <3>1 DEF ChargeFails, RunInv, Stage, Unhit, At, Broke
    <3>4. RowShows(r)'
      BY <1>18, <3>1 DEF ChargeFails, RunInv, RowShows, Wrote, WroteFailed, Failures
    <3>5. Paid(r)'
      BY <1>18, <2>1, <2>3, <3>1, <3>2 DEF ChargeFails, RunInv, Stage, Paid, At, None, Ended, Broke
    <3> QED BY <3>3, <3>4, <3>5 DEF RunInv
  <2> QED BY <2>2, <2>3
<1>19. CASE Throw(r)
  <2>1. run'[r].pc = "over" /\ run'[r].kind = run[r].kind /\ Goes(r, "over")
    BY <1>19, GoesTo DEF Throw, Pcs
  <2>2. Stage(r)' /\ Paid(r)'
    BY <1>19, <2>1 DEF Throw, RunInv, Stage, Paid, At, history, Broke
  <2> QED BY <1>19, <2>1, <2>2, Moves DEF Throw, Pcs
<1>20. CASE Crash(r)
  <2>1. run'[r].pc = "dead" /\ run'[r].kind = run[r].kind
    BY <1>20, GoesTo DEF Crash, Pcs
  <2>2. \A p \in Calls : upd'[r][p] = CASE upd[r][p] = "row"   -> "unwritten"
                                           [] upd[r][p] = "stats" -> "uncounted"
                                           [] OTHER               -> upd[r][p]
    BY <1>20 DEF Crash, TypeOK
  <2>3. r \in hit'
    BY <1>20 DEF Crash, Hits
  <2>4. Stage(r)' /\ Unhit(r)'
    BY <1>0, <1>20, <2>1, <2>2, <2>3 DEF Crash, RunInv, Stage, Unhit, At, Broke, None
  <2>5. RowShows(r)'
    BY <1>0, <1>20, <2>2 DEF Crash, RunInv, RowShows, Wrote, WroteFailed, Failures
  <2>6. Paid(r)'
    BY <1>0, <1>20, <2>1, <2>2, <2>3 DEF Crash, RunInv, Paid, At, None, Broke
  <2> QED BY <2>4, <2>5, <2>6 DEF RunInv
<1>21. CASE StreamErrs(r)
  <2>1. run'[r].pc = "erred" /\ run'[r].kind = "stream"
    BY <1>21, GoesTo DEF StreamErrs, Pcs
  <2>2. \A p \in Calls : upd'[r][p] = IF p = "ERROR" THEN "row" ELSE upd[r][p]
    BY <1>0, <1>21, Launches DEF StreamErrs
  <2>3. upd[r]["ERROR"] = None /\ r \notin charged
    BY <1>21 DEF StreamErrs, RunInv, Stage, Paid, At, Broke
  <2>4. Stage(r)'
    BY <1>0, <1>21, <2>1, <2>2 DEF StreamErrs, RunInv, Stage, At, None, Broke
  <2> QED BY <1>0, <1>21, <2>1, <2>3, <2>4, FirstLaunch DEF StreamErrs
<1>22. CASE StreamStops(r)
  <2>1. run'[r].pc = "over" /\ run'[r].kind = run[r].kind
    BY <1>22, GoesTo DEF StreamStops, Pcs
  <2> QED BY <1>22, <2>1, Moves DEF StreamStops, RunInv, Stage, Paid, At, Pcs, history, Broke
<1> QED BY <1>1, <1>2, <1>3, <1>4, <1>5, <1>6, <1>7, <1>8, <1>9, <1>10, <1>11, <1>12, <1>13, <1>14,
           <1>15, <1>16, <1>17, <1>18, <1>19, <1>20, <1>21, <1>22 DEF Step, Continue, Break

--------------------------------------------------------------------------------
ExecInv == TypeOK /\ \A r \in Runs : RunInv(r)

(* Every state satisfies the strengthening. *)
THEOREM ExecInvariant == Spec => []ExecInv
<1>1. Init => ExecInv
  <2> SUFFICES ASSUME Init PROVE ExecInv
    OBVIOUS
  <2>1. TypeOK
    BY ExecutionAssumption DEF Init, TypeOK, Pcs, Progress
  <2>2. ASSUME NEW r \in Runs PROVE RunInv(r)
    <3>1. /\ run[r].pc = "idle" /\ run[r].kind = None /\ status[r] = None /\ counted[r] = 0
          /\ \A o \in Calls : upd[r][o] = None
          /\ charged = {} /\ hit = {}
      BY DEF Init
    <3> QED BY <3>1 DEF RunInv, Stage, RowShows, Unhit, Paid, At, Wrote, Done, None, Broke,
                        WroteFailed, Failures, Calls, Outcomes
  <2> QED BY <2>1, <2>2 DEF ExecInv
<1>2. ExecInv /\ [Next]_vars => ExecInv'
  <2> SUFFICES ASSUME ExecInv, [Next]_vars PROVE ExecInv'
    OBVIOUS
  <2>1. TypeOK'
    BY TypeInductive DEF ExecInv
  <2>2. ASSUME NEW r \in Runs PROVE RunInv(r)'
    <3>1. CASE UNCHANGED vars
      <4>1. Same(r)
        BY <3>1 DEF vars, outside, money, history, Same
      <4> QED BY <4>1, SameKeeps DEF ExecInv
    <3>2. CASE Next
      <4>1. PICK s \in Runs : Step(s)
        BY <3>2 DEF Next, Step
      <4>2. CASE s = r
        BY <4>1, <4>2, OwnStep DEF ExecInv
      <4>3. CASE s # r
        <5>1. Same(r)
          BY <4>1, <4>3, Apart DEF ExecInv
        <5> QED BY <5>1, SameKeeps DEF ExecInv
      <4> QED BY <4>2, <4>3
    <3> QED BY <3>1, <3>2
  <2> QED BY <2>1, <2>2 DEF ExecInv
<1> QED BY <1>1, <1>2, PTL DEF Spec

(* Whatever overlaps, fails or dies: what was charged is COMPLETED in the end, but for the
   exceptions ChargedIsCompleted names. *)
THEOREM ChargedCompletes == Spec => []ChargedIsCompleted
<1>1. ExecInv => ChargedIsCompleted
  <2> SUFFICES ASSUME ExecInv, NEW r \in charged, Settled(r)
               PROVE  \/ status[r] = "COMPLETED"
                      \/ cancel[r] = "done"
                      \/ AgentErred(r)
                      \/ r \in hit /\ upd[r]["COMPLETED"] = "done"
    BY DEF ChargedIsCompleted
  <2>1. r \in Runs /\ RunInv(r)
    BY DEF ExecInv, TypeOK
  <2> QED BY <2>1 DEF RunInv, Paid, RowShows, Wrote, AgentErred, None, Broke, WroteFailed, Failures
<1> QED BY <1>1, ExecInvariant, PTL

(* And what is COMPLETED was paid, but for the exceptions CompletedIsPaid names. *)
THEOREM CompletedPays == Spec => []CompletedIsPaid
<1>1. ExecInv => CompletedIsPaid
  <2> SUFFICES ASSUME ExecInv, NEW r \in Runs,
                      Settled(r), status[r] = "COMPLETED", run[r].kind # "quiet", r \notin charged
               PROVE  \/ r \in late
                      \/ r \in hit /\ (\/ run[r].pc = "dead"
                                       \/ run[r].kind = "stream"
                                       \/ upd[r]["FAILED"] = "unwritten")
    BY DEF CompletedIsPaid
  <2>1. RunInv(r) /\ "FAILED" \in Calls
    BY DEF ExecInv, Calls, Outcomes
  <2>2. CASE At(r, "dead")
    BY <2>1, <2>2 DEF RunInv, Unhit, At
  <2>3. CASE At(r, "over")
    <3>1. Wrote(r, "COMPLETED")
      BY <2>1 DEF RunInv, RowShows, WroteFailed, Failures
    <3>2. upd[r]["COMPLETED"] # None
      BY <3>1 DEF Wrote, None
    <3>3. upd[r]["FAILED"] \in Ended \/ (r \in hit /\ run[r].kind = "stream")
      BY <2>1, <2>3, <3>2 DEF RunInv, Paid, Broke
    <3> QED BY <2>1, <3>3 DEF RunInv, RowShows, Unhit, Wrote, Ended, WroteFailed, Failures
  <2> QED BY <2>2, <2>3 DEF Settled, At
<1> QED BY <1>1, ExecInvariant, PTL

(* An element more, if there is one. *)
LEMMA OneMore ==
    ASSUME NEW S, IsFiniteSet(S), NEW x, x \notin S, NEW p \in BOOLEAN
    PROVE  LET T == S \cup (IF p THEN {x} ELSE {}) IN
           IsFiniteSet(T) /\ Cardinality(T) = Cardinality(S) + (IF p THEN 1 ELSE 0)
<1>1. CASE p
  <2>1. IsFiniteSet(S \cup {x}) /\ Cardinality(S \cup {x}) = Cardinality(S) + 1
    BY FS_AddElement
  <2> QED BY <1>1, <2>1
<1>2. CASE ~p
  <2>1. Cardinality(S) \in Nat
    BY FS_CardinalityType
  <2> QED BY <1>2, <2>1
<1> QED BY <1>1, <1>2

(* A run that no failure hit is counted once for each call of updateStatus it made. *)
THEOREM CountsOnce == Spec => []CountedOnce
<1>1. ExecInv => CountedOnce
  <2> SUFFICES ASSUME ExecInv, NEW r \in Runs, Settled(r), r \notin hit
               PROVE  counted[r] = Cardinality({c \in Calls : upd[r][c] # None})
    BY DEF CountedOnce
  <2>1. RunInv(r) /\ upd[r] \in [Calls -> Progress]
    BY DEF ExecInv, TypeOK
  <2>2. \A c \in Calls : upd[r][c] \in {None, "done"}
    BY <2>1 DEF RunInv, Unhit, Settled, InFlight, Progress
  <2>3. counted[r] = Done(r, "COMPLETED") + Done(r, "FAILED") + Done(r, "ERROR")
    BY <2>1 DEF RunInv, Unhit
  <2> DEFINE m(c) == upd[r][c] = "done"
             S1   == {} \cup (IF m("COMPLETED") THEN {"COMPLETED"} ELSE {})
             S2   == S1 \cup (IF m("FAILED") THEN {"FAILED"} ELSE {})
             S3   == S2 \cup (IF m("ERROR") THEN {"ERROR"} ELSE {})
  <2>4. IsFiniteSet({}) /\ Cardinality({}) = 0
    BY FS_EmptySet
  <2>5. IsFiniteSet(S1) /\ Cardinality(S1) = 0 + (IF m("COMPLETED") THEN 1 ELSE 0)
    BY <2>4, OneMore
  <2>6. IsFiniteSet(S2) /\ Cardinality(S2) = Cardinality(S1) + (IF m("FAILED") THEN 1 ELSE 0)
    <3>1. "FAILED" \notin S1
      OBVIOUS
    <3> QED BY <2>5, <3>1, OneMore
  <2>7. Cardinality(S3) = Cardinality(S2) + (IF m("ERROR") THEN 1 ELSE 0)
    <3>1. "ERROR" \notin S2
      OBVIOUS
    <3> QED BY <2>6, <3>1, OneMore
  <2>8. {c \in Calls : upd[r][c] # None} = S3
    BY <2>2 DEF Calls, Outcomes, None
  <2> QED BY <2>3, <2>5, <2>6, <2>7, <2>8 DEF Done
<1> QED BY <1>1, ExecInvariant, PTL
================================================================================
