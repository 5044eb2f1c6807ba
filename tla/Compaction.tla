------------------------------- MODULE Compaction -------------------------------
(*****************************************************************************)
(* The running summary of one conversation.  Each execution (turn) whose       *)
(* history is near the model's limit may take the compaction lock, select the  *)
(* messages that came after the last summary except the most recent, have a    *)
(* model merge them into the summary, and activate the result as a new version.*)
(* Messages are numbered in the order of their creation.  The names are not    *)
(* those of Conversation, so that ConversationProofs can extend both.          *)
(*****************************************************************************)
EXTENDS Integers

CONSTANTS
    Executions,     \* turns of the conversation that may run at once
    RecentToKeep,   \* recentMessagesToKeepWithSummary
    MinBatch,       \* minMessagesToCompact
    MaxArchived,    \* maxArchivedMessagesForSummary
    MaxLen,         \* bound: messages of the conversation
    Failures,       \* the failures this environment has
    MaxFailures     \* bound: how many of the counted failures happen

FailureKinds == { "slow",                                 \* of timing, uncounted
                  "model", "database", "release", "crash" }

ASSUME SizesAssumption ==
    /\ {RecentToKeep, MaxLen, MaxFailures} \subseteq Nat
    /\ {MinBatch, MaxArchived} \subseteq Nat \ {0}
    /\ Failures \subseteq FailureKinds

VARIABLES
    len,       \* messages in the database
    locked,    \* conversations.isCompacting
    fresh,     \* compactingLockedAt is younger than the lock's TTL
    active,    \* the current compaction: last message `to', messages it stems from (cov),
               \* messages that were cut off the batches it stems from
    run,       \* [Executions -> what each is doing]
    late,      \* history: a lock went stale while its turn was still at work
    failures   \* counted failures so far

lock == <<locked, fresh>>
compactionVars == <<len, lock, active, run, late, failures>>

--------------------------------------------------------------------------------
Ids == 1 .. MaxLen
Summaries == [to : 0 .. MaxLen, cov : SUBSET Ids, cut : SUBSET Ids]

WorkPcs == { "locked", "read", "chosen", "summarised", "versioned", "failing", "releasing" }

(* len, base: the history and the summary the turn has read.  made: the summary it
   will store.  clash: a version was stored after it looked for the latest one. *)
RunStates == [ pc : WorkPcs \cup {"idle"}, len : 0 .. MaxLen,
                base : Summaries, made : Summaries, clash : BOOLEAN ]

NoSummary == [to |-> 0, cov |-> {}, cut |-> {}]
IdleRun == [pc |-> "idle", len |-> 0, base |-> NoSummary, made |-> NoSummary, clash |-> FALSE]

Working == {t \in Executions : run[t].pc \in WorkPcs}
At(t, pc) == run[t].pc = pc
Goto(t, pc) == run' = [run EXCEPT ![t].pc = pc]

Failure(kind) ==
    /\ kind \in Failures
    /\ failures < MaxFailures
    /\ failures' = failures + 1

CompactionInit ==
    /\ len = 0
    /\ locked = FALSE
    /\ fresh = FALSE
    /\ active = NoSummary
    /\ run = [t \in Executions |-> IdleRun]
    /\ late = FALSE
    /\ failures = 0

--------------------------------------------------------------------------------
(* A message of the customer or of the bot. *)
Write ==
    /\ len < MaxLen
    /\ len' = len + 1
    /\ UNCHANGED <<lock, active, run, late, failures>>

LockFree == ~ locked \/ ~ fresh

(* tryAcquireCompactionLock; a turn that finds it taken uses the active summary. *)
Acquire(t) ==
    /\ At(t, "idle")
    /\ LockFree
    /\ locked' = TRUE
    /\ fresh' = TRUE
    /\ Goto(t, "locked")
    /\ UNCHANGED <<len, active, late, failures>>

(* getMessageHistoryWithIds *)
ReadHistory(t) ==
    /\ At(t, "locked")
    /\ run' = [run EXCEPT ![t] = [@ EXCEPT !.pc = "read", !.len = len]]
    /\ UNCHANGED <<len, lock, active, late, failures>>

(* previousIndex + 1: a summary that ends in a message the history does not have
   (it is newer) counts as none. *)
First(t) == IF run[t].base.to > run[t].len THEN 1 ELSE run[t].base.to + 1

(* boundary: where the messages kept as immediate context begin. *)
Last(t) == run[t].len - RecentToKeep

ReadActive(t) ==
    /\ At(t, "read")
    /\ run' = [run EXCEPT ![t] = [@ EXCEPT !.pc = "chosen", !.base = active]]
    /\ UNCHANGED <<len, lock, active, late, failures>>

Batch(t) == First(t) .. Last(t)

(* Only the end of a long batch reaches the model. *)
Tail(t) == {i \in Batch(t) : i > Last(t) - MaxArchived}

Merged_WithoutBase(t) ==
    [to |-> Last(t), cov |-> Tail(t), cut |-> run[t].base.cut \cup (Batch(t) \ Tail(t))]

(* The beginning of a long batch is cut off, and the summary claims to reach its end. *)
Merged(t) ==
    [to |-> Last(t), cov |-> run[t].base.cov \cup Tail(t),
     cut |-> run[t].base.cut \cup (Batch(t) \ Tail(t))]

WorthIt_Always(t) == Last(t) >= First(t)

WorthIt(t) == Last(t) - First(t) + 1 >= MinBatch

(* selectMessagesToArchive finds too few messages. *)
Skip(t) ==
    /\ At(t, "chosen")
    /\ ~ WorthIt(t)
    /\ Goto(t, "releasing")
    /\ UNCHANGED <<len, lock, active, late, failures>>

(* selectMessagesToArchive, then summarizeArchivedConversation. *)
Summarise(t) ==
    /\ At(t, "chosen")
    /\ WorthIt(t)
    /\ run' = [run EXCEPT ![t] = [@ EXCEPT !.pc = "summarised", !.made = Merged(t)]]
    /\ UNCHANGED <<len, lock, active, late, failures>>

(* createAndActivateCompaction reads the latest version, *)
ReadVersion(t) ==
    /\ At(t, "summarised")
    /\ run' = [run EXCEPT ![t] = [@ EXCEPT !.pc = "versioned", !.clash = FALSE]]
    /\ UNCHANGED <<len, lock, active, late, failures>>

(* A row was created: whoever holds that version number will clash with it. *)
Clashing(t, state) == [u \in Executions |->
    IF u = t THEN state ELSE [run[u] EXCEPT !.clash = @ \/ At(u, "versioned")]]

(* and creates the next one and activates it, or violates the unique version. *)
Activate(t) ==
    /\ At(t, "versioned")
    /\ IF run[t].clash
       THEN Goto(t, "failing") /\ UNCHANGED active
       ELSE /\ active' = run[t].made
            /\ run' = Clashing(t, [run[t] EXCEPT !.pc = "releasing"])
    /\ UNCHANGED <<len, lock, late, failures>>

(* Any query or the model fails under the lock. *)
Breaks(t) ==
    /\ \/ run[t].pc = "chosen" /\ WorthIt(t) /\ Failure("model")
       \/ run[t].pc \in {"locked", "read", "summarised", "versioned"} /\ Failure("database")
    /\ Goto(t, "failing")
    /\ UNCHANGED <<len, lock, active, late>>

(* recordFailedCompaction stores a FAILED version, or fails as well. *)
RecordFailed(t) ==
    /\ At(t, "failing")
    /\ \/ run' = Clashing(t, [run[t] EXCEPT !.pc = "releasing"])
       \/ Goto(t, "releasing")
    /\ UNCHANGED <<len, lock, active, late, failures>>

(* releaseCompactionLock: whoever holds it by now. *)
ReleaseLock(t) ==
    /\ At(t, "releasing")
    /\ run' = [run EXCEPT ![t] = IdleRun]
    /\ locked' = FALSE
    /\ fresh' = FALSE
    /\ UNCHANGED <<len, active, late, failures>>

(* The release fails, or the instance dies: the lock stays until its TTL. *)
Abandon(t) ==
    /\ \/ At(t, "releasing") /\ Failure("release")
       \/ t \in Working /\ Failure("crash")
    /\ run' = [run EXCEPT ![t] = IdleRun]
    /\ UNCHANGED <<len, lock, active, late>>

(* The TTL passes.  Without "slow" a turn ends before its lock goes stale. *)
Expire ==
    /\ locked /\ fresh
    /\ "slow" \in Failures \/ Working = {}
    /\ fresh' = FALSE
    /\ late' = (late \/ Working # {})
    /\ UNCHANGED <<len, locked, active, run, failures>>

--------------------------------------------------------------------------------
Compact(t) ==
    \/ ReadHistory(t) \/ ReadActive(t) \/ Skip(t) \/ Summarise(t)
    \/ ReadVersion(t) \/ Activate(t) \/ RecordFailed(t) \/ ReleaseLock(t)

CompactionNext ==
    \/ Write
    \/ \E t \in Executions : Acquire(t) \/ Compact(t) \/ Breaks(t) \/ Abandon(t)
    \/ Expire

CompactionSpec == CompactionInit /\ [][CompactionNext]_compactionVars

(* A turn that holds the lock goes on and the TTL passes.  Nobody has to write. *)
Fairness ==
    /\ \A t \in Executions : WF_compactionVars(Compact(t))
    /\ WF_compactionVars(Expire)

FairSpec == CompactionSpec /\ Fairness

--------------------------------------------------------------------------------
(* Properties.                                                                *)

CompactionTypeOK ==
    /\ len \in 0 .. MaxLen
    /\ locked \in BOOLEAN /\ fresh \in BOOLEAN
    /\ active \in Summaries
    /\ run \in [Executions -> RunStates]
    /\ late \in BOOLEAN
    /\ failures \in 0 .. MaxFailures

(* Every message up to the point the summary claims to reach went into it, but for those
   that exceeded what the model is shown of one batch: no other is left out for ever,
   however compactions overlap or fail. *)
NothingSkipped == 1 .. active.to \subseteq active.cov \cup active.cut

(* The most recent messages are never archived. *)
RecentKept == active.to + RecentToKeep <= len \/ active.to = 0

(* Unless a lock outlived its turn's work, one turn at a time compacts. *)
OneCompactor == ~ late => \A t, u \in Working : t = u

(* Then no summary is paid for less than a batch of new messages, and none replaces
   one that reached further. *)
SummaryAdvances ==
    [][active' # active /\ ~ late => active'.to >= active.to + MinBatch]_compactionVars

================================================================================
