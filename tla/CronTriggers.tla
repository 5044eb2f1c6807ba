------------------------------ MODULE CronTriggers ------------------------------
(*****************************************************************************)
(* The cron triggers of the gateway: a row per trigger in the database, and in *)
(* the memory of every instance a job per active trigger.  A request changes   *)
(* the row and then, in the instance that served it, the job; the answers of   *)
(* the database to two requests may be continued in either order.  The other   *)
(* instances keep the job they have until they start again.                    *)
(*****************************************************************************)
EXTENDS Naturals, FiniteSets

CONSTANTS
    Instances,   \* processes of the gateway
    Triggers,    \* ids of triggers, never used again once deleted
    Requests,    \* calls of create, update, setActive and delete
    Fires,       \* bound: runs of executeTrigger at one time
    Faults,      \* the failures this environment has
    MaxFaults    \* bound: how many failures happen

None == "none"
Operations == {"create", "update", "setActive", "delete"}

ASSUME CronAssumption ==
    /\ None \notin Requests \cup Triggers \cup Instances
    /\ Faults \subseteq {"database", "stop"}
    /\ MaxFaults \in Nat

VARIABLES
    row,     \* workflow_cron_triggers: is it active, and which request wrote its expression
    up,      \* [Instances -> life of the process]
    jobs,    \* SchedulerRegistry: the expression each instance runs each trigger by
    snap,    \* the rows onModuleInit read
    req,     \* [Requests -> progress of the call]
    fire,    \* [Fires -> progress of executeTrigger]
    faults,  \* failures so far
    fresh,   \* history: triggers whose row nobody else wrote since the instance read or wrote it
    unsure   \* history: triggers whose last changes overlapped or broke off half-way

memory == <<up, jobs, snap>>
history == <<fresh, unsure>>
vars == <<row, memory, req, fire, faults, history>>

--------------------------------------------------------------------------------
Absent == [active |-> FALSE, rev |-> None]
Rows == [active : BOOLEAN, rev : Requests \cup {None}]
Exists(t) == row[t] # Absent

Unused == [pc |-> "idle", op |-> None, inst |-> None, trig |-> None, got |-> Absent, alone |-> TRUE]
Free == [pc |-> "idle", inst |-> None, trig |-> None]

(* A call that is over; which trigger it created is all that matters of it. *)
Ended(r) == [Unused EXCEPT !.pc = "done", !.op = req[r].op, !.trig = req[r].trig]

Open(r, t) == req[r].trig = t /\ req[r].pc \in {"owned", "saved", "unscheduled"}
Quiet(t) == \A r \in Requests : ~Open(r, t)

Fault(f) ==
    /\ f \in Faults
    /\ faults < MaxFaults
    /\ faults' = faults + 1

(* The job that stands for a row. *)
JobOf(r) == IF r.active THEN r.rev ELSE None

Init ==
    /\ row = [t \in Triggers |-> Absent]
    /\ up = [i \in Instances |-> "down"]
    /\ jobs = [i \in Instances |-> [t \in Triggers |-> None]]
    /\ snap = [i \in Instances |-> [t \in Triggers |-> Absent]]
    /\ req = [r \in Requests |-> Unused]
    /\ fire = [f \in Fires |-> Free]
    /\ faults = 0
    /\ fresh = [i \in Instances |-> {}]
    /\ unsure = {}

--------------------------------------------------------------------------------
(* Instances.                                                                 *)

(* onModuleInit reads the active triggers. *)
StartUp(i) ==
    /\ up[i] = "down"
    /\ up' = [up EXCEPT ![i] = "loading"]
    /\ snap' = [snap EXCEPT ![i] = row]
    /\ fresh' = [fresh EXCEPT ![i] = Triggers]
    /\ UNCHANGED <<row, jobs, req, fire, faults, unsure>>

(* ... and registers a job for each; only then does the instance serve requests. *)
Loaded(i) ==
    /\ up[i] = "loading"
    /\ up' = [up EXCEPT ![i] = "up"]
    /\ jobs' = [jobs EXCEPT ![i] = [t \in Triggers |-> JobOf(snap[i][t])]]
    /\ snap' = [snap EXCEPT ![i] = [t \in Triggers |-> Absent]]
    /\ UNCHANGED <<row, req, fire, faults, history>>

(* The process ends with everything it has in memory. *)
Dies(i) ==
    /\ up' = [up EXCEPT ![i] = "down"]
    /\ jobs' = [jobs EXCEPT ![i] = [t \in Triggers |-> None]]
    /\ snap' = [snap EXCEPT ![i] = [t \in Triggers |-> Absent]]
    /\ req' = [r \in Requests |-> IF req[r].inst = i THEN Ended(r) ELSE req[r]]
    /\ fire' = [f \in Fires |-> IF fire[f].inst = i THEN Free ELSE fire[f]]
    /\ fresh' = [fresh EXCEPT ![i] = {}]
    /\ UNCHANGED <<row, unsure>>

Stop(i) ==
    /\ up[i] # "down"
    /\ Fault("stop")
    /\ Dies(i)

--------------------------------------------------------------------------------
(* Requests.                                                                  *)

Created(t) == \E r \in Requests : req[r].op = "create" /\ req[r].trig = t

(* create checks its input; the others look for the row (findOwnedOrFail). *)
Begin(r, op, i, t) ==
    /\ req[r].pc = "idle"
    /\ up[i] = "up"
    /\ IF op = "create" THEN ~Created(t) ELSE Exists(t)
    /\ req' = [q \in Requests |->
                 IF q = r THEN [pc |-> "owned", op |-> op, inst |-> i, trig |-> t,
                                got |-> Absent, alone |-> Quiet(t)]
                 ELSE IF Open(q, t) THEN [req[q] EXCEPT !.alone = FALSE] ELSE req[q]]
    /\ unsure' = IF Quiet(t) THEN unsure ELSE unsure \cup {t}
    /\ UNCHANGED <<row, memory, fire, faults, fresh>>

(* What a write of the row makes of it. *)
Written(r, t) ==
    CASE req[r].op = "create"    -> [active : BOOLEAN, rev : {r}]
      [] req[r].op = "update"    -> [active : {row[t].active}, rev : {row[t].rev, r}]
      [] req[r].op = "setActive" -> [active : BOOLEAN, rev : {row[t].rev}]

Wrote(i, t) == fresh' = [j \in Instances |-> IF j = i THEN fresh[j] \cup {t} ELSE fresh[j] \ {t}]

(* The row is created or updated and comes back as it then is. *)
Save(r) ==
    LET t == req[r].trig IN
    /\ req[r].pc = "owned"
    /\ req[r].op # "delete"
    /\ req[r].op # "create" => Exists(t)
    /\ \E new \in Written(r, t) :
          /\ row' = [row EXCEPT ![t] = new]
          /\ req' = [req EXCEPT ![r].pc = "saved", ![r].got = new]
    /\ Wrote(req[r].inst, t)
    /\ UNCHANGED <<memory, fire, faults, unsure>>

(* The database fails, or the row was deleted in the meantime. *)
SaveFails(r) ==
    /\ req[r].pc = "owned"
    /\ req[r].op # "delete"
    /\ \/ Fault("database")
       \/ req[r].op # "create" /\ ~Exists(req[r].trig) /\ UNCHANGED faults
    /\ req' = [req EXCEPT ![r] = Ended(r)]
    /\ UNCHANGED <<row, memory, fire, history>>

Registered_OnlyNew(r) ==
    LET old == jobs[req[r].inst][req[r].trig] IN
    IF req[r].got.active /\ old # None THEN old ELSE JobOf(req[r].got)

Registered_NotAgain(r) == IF req[r].op = "update" THEN None ELSE JobOf(req[r].got)

(* unscheduleTrigger, then scheduleTrigger when the row that came back is active. *)
Registered(r) == JobOf(req[r].got)

Apply(r) ==
    LET t == req[r].trig IN
    /\ req[r].pc = "saved"
    /\ jobs' = [jobs EXCEPT ![req[r].inst][t] = Registered(r)]
    /\ req' = [req EXCEPT ![r] = Ended(r)]
    /\ unsure' = IF req[r].alone THEN unsure \ {t} ELSE unsure
    /\ UNCHANGED <<row, up, snap, fire, faults, fresh>>

(* delete drops the job first ... *)
Unschedule(r) ==
    /\ req[r].pc = "owned"
    /\ req[r].op = "delete"
    /\ jobs' = [jobs EXCEPT ![req[r].inst][req[r].trig] = None]
    /\ req' = [req EXCEPT ![r].pc = "unscheduled"]
    /\ UNCHANGED <<row, up, snap, fire, faults, history>>

(* ... and then the row, if another delete has not. *)
Delete(r) ==
    LET t == req[r].trig IN
    /\ req[r].pc = "unscheduled"
    /\ row' = [row EXCEPT ![t] = Absent]
    /\ req' = [req EXCEPT ![r] = Ended(r)]
    /\ Wrote(req[r].inst, t)
    /\ UNCHANGED <<memory, fire, faults, unsure>>

(* The database fails: the row stays, without its job. *)
DeleteFails(r) ==
    /\ req[r].pc = "unscheduled"
    /\ Fault("database")
    /\ req' = [req EXCEPT ![r] = Ended(r)]
    /\ unsure' = unsure \cup {req[r].trig}
    /\ UNCHANGED <<row, memory, fire, fresh>>

--------------------------------------------------------------------------------
(* executeTrigger.                                                            *)

(* The moment of a job has come. *)
Fire(f, i, t) ==
    /\ fire[f] = Free
    /\ up[i] = "up"
    /\ jobs[i][t] # None
    /\ fire' = [fire EXCEPT ![f] = [pc |-> "due", inst |-> i, trig |-> t]]
    /\ UNCHANGED <<row, memory, req, faults, history>>

(* Nobody handles what fails before the try, and an unhandled rejection ends a Node
   process. *)
NobodyHandles(f) == Fault("database") /\ Dies(fire[f].inst)

(* The row is read again; nothing happens if it is gone or not active. *)
Reread(f) ==
    /\ fire[f].pc = "due"
    /\ \/ /\ fire' = [fire EXCEPT ![f] =
                        IF row[fire[f].trig].active THEN [@ EXCEPT !.pc = "read"] ELSE Free]
          /\ UNCHANGED <<row, memory, req, faults, history>>
       \/ NobodyHandles(f)

(* lastRunAt and nextRunAt are written, before the try too. *)
Stamp(f) ==
    /\ fire[f].pc = "read"
    /\ \/ /\ Exists(fire[f].trig)
          /\ fire' = [fire EXCEPT ![f].pc = "run"]
          /\ UNCHANGED <<row, memory, req, faults, history>>
       \/ /\ ~Exists(fire[f].trig)
          /\ Dies(fire[f].inst)
          /\ UNCHANGED faults
       \/ NobodyHandles(f)

Execute_Rethrows(f) ==
    /\ fire[f].pc = "run"
    /\ \/ fire' = [fire EXCEPT ![f] = Free] /\ UNCHANGED <<row, memory, req, history>>
       \/ Dies(fire[f].inst)
    /\ UNCHANGED faults

(* The workflow runs; that it fails is logged. *)
Execute(f) ==
    /\ fire[f].pc = "run"
    /\ fire' = [fire EXCEPT ![f] = Free]
    /\ UNCHANGED <<row, memory, req, faults, history>>

--------------------------------------------------------------------------------
Next ==
    \/ \E i \in Instances : StartUp(i) \/ Loaded(i) \/ Stop(i)
    \/ \E r \in Requests :
          \/ \E op \in Operations, i \in Instances, t \in Triggers : Begin(r, op, i, t)
          \/ Save(r) \/ SaveFails(r) \/ Apply(r) \/ Unschedule(r) \/ Delete(r) \/ DeleteFails(r)
    \/ \E f \in Fires :
          \/ \E i \in Instances, t \in Triggers : Fire(f, i, t)
          \/ Reread(f) \/ Stamp(f) \/ Execute(f)

Spec == Init /\ [][Next]_vars

(* The moments of a schedule recur, and a process that lives continues its callbacks. *)
FairSpec ==
    /\ Spec
    /\ \A i \in Instances, t \in Triggers : WF_vars(\E f \in Fires : Fire(f, i, t))
    /\ \A f \in Fires : WF_vars(Reread(f)) /\ WF_vars(Stamp(f)) /\ WF_vars(Execute(f))

--------------------------------------------------------------------------------
(* Properties.                                                                *)

(* Types of the rows, the memory of the instances, the requests and the runs. *)
TypeOK ==
    /\ row \in [Triggers -> Rows]
    /\ up \in [Instances -> {"down", "loading", "up"}]
    /\ jobs \in [Instances -> [Triggers -> Requests \cup {None}]]
    /\ snap \in [Instances -> [Triggers -> Rows]]
    /\ req \in [Requests -> [pc : {"idle", "owned", "saved", "unscheduled", "done"},
                             op : Operations \cup {None}, inst : Instances \cup {None},
                             trig : Triggers \cup {None}, got : Rows, alone : BOOLEAN]]
    /\ fire \in [Fires -> [pc : {"idle", "due", "read", "run"}, inst : Instances \cup {None},
                           trig : Triggers \cup {None}]]
    /\ faults \in Nat
    /\ fresh \in [Instances -> SUBSET Triggers]
    /\ unsure \subseteq Triggers

(* An instance that knows the last change of a trigger, because it served it or started
   after it, runs the trigger by exactly the schedule of the row: no schedule is lost, none
   outlives its trigger.  Only changes that overlap, or a delete that failed, break that,
   and one undisturbed change repairs it. *)
JobMatchesRow ==
    \A i \in Instances, t \in Triggers :
        up[i] = "up" /\ t \in fresh[i] /\ Quiet(t) /\ t \notin unsure
            => jobs[i][t] = JobOf(row[t])

(* A run of a workflow that fails does not end the scheduler: a process dies of a trigger
   only when its row was deleted between the read of executeTrigger and the update that
   follows it, or the database failed. *)
SchedulerSurvives ==
    [][\A i \in Instances :
          up[i] = "up" /\ up'[i] = "down"
              => \/ faults' # faults
                 \/ \E f \in Fires : /\ fire[f].pc = "read" /\ fire[f].inst = i
                                     /\ ~Exists(fire[f].trig)]_vars

(* A trigger that stays active, with an instance that knows it and lives, runs again and
   again. *)
Settled(i, t) ==
    up[i] = "up" /\ t \in fresh[i] /\ row[t].active /\ Quiet(t) /\ t \notin unsure

ActiveFires ==
    \A i \in Instances, t \in Triggers :
        <>[]Settled(i, t) => []<>(\E f \in Fires : fire[f].pc = "run" /\ fire[f].trig = t)
================================================================================
