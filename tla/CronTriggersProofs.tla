--------------------------- MODULE CronTriggersProofs ---------------------------
(***************************************************************************)
(* Proofs about CronTriggers, for any number of instances, triggers,         *)
(* requests and failures: an instance that knows the last change of a        *)
(* trigger runs it by the schedule of its row.                               *)
(***************************************************************************)
EXTENDS CronTriggers, TLAPS

OpenPcs == {"owned", "saved", "unscheduled"}
Calls == [pc : OpenPcs \cup {"idle", "done"},
          op : Operations \cup {None}, inst : Instances \cup {None},
          trig : Triggers \cup {None}, got : Rows, alone : BOOLEAN]
FireStates == [pc : {"idle", "due", "read", "run"}, inst : Instances \cup {None},
               trig : Triggers \cup {None}]

(* A call is served by an instance that runs, for a trigger; a run belongs to an instance. *)
Served ==
    /\ \A r \in Requests : req[r].pc \in OpenPcs =>
          /\ req[r].inst \in Instances /\ up[req[r].inst] = "up"
          /\ req[r].trig \in Triggers /\ req[r].op \in Operations
    /\ \A f \in Fires : fire[f].pc # "idle" => fire[f].inst \in Instances

LEMMA EndedCall ==
    ASSUME TypeOK, NEW r \in Requests
    PROVE  Ended(r) \in Calls /\ Ended(r).pc = "done"
<1>1. req[r].op \in Operations \cup {None} /\ req[r].trig \in Triggers \cup {None}
  BY DEF TypeOK
<1>2. Absent \in Rows
  BY DEF Absent, Rows
<1> QED BY <1>1, <1>2 DEF Ended, Unused, Calls

LEMMA DiesTypes ==
    ASSUME TypeOK, NEW i \in Instances, Dies(i)
    PROVE  /\ up' \in [Instances -> {"down", "loading", "up"}]
           /\ jobs' \in [Instances -> [Triggers -> Requests \cup {None}]]
           /\ snap' \in [Instances -> [Triggers -> Rows]]
           /\ req' \in [Requests -> Calls]
           /\ fire' \in [Fires -> FireStates]
           /\ fresh' \in [Instances -> SUBSET Triggers]
           /\ row' = row /\ unsure' = unsure
<1>1. Absent \in Rows /\ Free \in FireStates
  BY DEF Absent, Rows, Free, FireStates
<1>2. req' \in [Requests -> Calls]
  BY EndedCall DEF Dies, TypeOK, Calls, OpenPcs
<1>3. fire' \in [Fires -> FireStates]
  BY <1>1 DEF Dies, TypeOK, FireStates
<1>4. jobs' \in [Instances -> [Triggers -> Requests \cup {None}]]
  BY DEF Dies, TypeOK
<1>5. snap' \in [Instances -> [Triggers -> Rows]]
  BY <1>1 DEF Dies, TypeOK
<1> QED BY <1>2, <1>3, <1>4, <1>5 DEF Dies, TypeOK

LEMMA WrittenRow ==
    ASSUME TypeOK, Served, NEW r \in Requests, req[r].pc = "owned", req[r].op # "delete",
           NEW new \in Written(r, req[r].trig)
    PROVE  new \in Rows
<1>1. row[req[r].trig] \in Rows
  BY DEF TypeOK, Served, OpenPcs
<1>2. req[r].op \in {"create", "update", "setActive"}
  BY DEF Served, OpenPcs, Operations
<1> QED BY <1>1, <1>2 DEF Written, Rows

LEMMA JobType ==
    ASSUME NEW x \in Rows
    PROVE  JobOf(x) \in Requests \cup {None}
BY DEF JobOf, Rows

--------------------------------------------------------------------------------
LEMMA TypeInductive ==
    ASSUME TypeOK, Served, [Next]_vars
    PROVE  TypeOK' /\ Served'
<1> USE DEF memory, history
<1> USE CronAssumption
<1>0. req \in [Requests -> Calls] /\ fire \in [Fires -> FireStates]
  BY DEF TypeOK, Calls, FireStates, OpenPcs
<1>1. ASSUME NEW i \in Instances, StartUp(i) PROVE TypeOK' /\ Served'
  BY <1>1 DEF StartUp, TypeOK, Served
<1>2. ASSUME NEW i \in Instances, Loaded(i) PROVE TypeOK' /\ Served'
  <2>1. Absent \in Rows
    BY DEF Absent, Rows
  <2>2. [t \in Triggers |-> JobOf(snap[i][t])] \in [Triggers -> Requests \cup {None}]
    BY JobType DEF TypeOK
  <2>3. jobs' \in [Instances -> [Triggers -> Requests \cup {None}]]
    BY <1>2, <2>2 DEF Loaded, TypeOK
  <2>4. snap' \in [Instances -> [Triggers -> Rows]]
    BY <1>2, <2>1 DEF Loaded, TypeOK
  <2> QED BY <1>2, <2>3, <2>4 DEF Loaded, TypeOK, Served
<1>3. ASSUME NEW i \in Instances, Dies(i), faults' \in Nat PROVE TypeOK' /\ Served'
  <2>1. TypeOK'
    BY <1>3, DiesTypes DEF TypeOK, Calls, FireStates, OpenPcs
  <2>2. ASSUME NEW r \in Requests, req'[r].pc \in OpenPcs
        PROVE  req'[r] = req[r] /\ req[r].inst # i
    BY <1>3, <2>2, EndedCall DEF Dies, OpenPcs
  <2>3. Served'
    <3>1. ASSUME NEW f \in Fires, fire'[f].pc # "idle" PROVE fire'[f].inst \in Instances
      BY <1>3, <3>1 DEF Dies, Served, Free
    <3>2. ASSUME NEW r \in Requests, req'[r].pc \in OpenPcs
          PROVE  up'[req'[r].inst] = "up"
      BY <1>3, <2>2, <3>2 DEF Dies, Served, TypeOK
    <3> QED BY <2>2, <3>1, <3>2 DEF Served
  <2> QED BY <2>1, <2>3
<1>4. ASSUME NEW r \in Requests, NEW op \in Operations, NEW i \in Instances, NEW t \in Triggers,
             Begin(r, op, i, t)
      PROVE  TypeOK' /\ Served'
  <2>1. req' \in [Requests -> Calls]
    <3>1. ASSUME NEW q \in Requests PROVE req'[q] \in Calls
      <4>1. CASE q = r
        <5>1. req'[q] = [pc |-> "owned", op |-> op, inst |-> i, trig |-> t,
                         got |-> Absent, alone |-> Quiet(t)]
          BY <1>4, <4>1 DEF Begin
        <5>2. Absent \in Rows /\ Quiet(t) \in BOOLEAN
          BY DEF Absent, Rows, Quiet
        <5> QED BY <5>1, <5>2 DEF Calls, OpenPcs
      <4>2. CASE q # r
        <5>1. req'[q] = req[q] \/ req'[q] = [req[q] EXCEPT !.alone = FALSE]
          BY <1>4, <4>2 DEF Begin
        <5>2. req[q] \in Calls
          BY <1>0
        <5> QED BY <5>1, <5>2 DEF Calls
      <4> QED BY <4>1, <4>2
    <3> QED BY <1>4, <3>1 DEF Begin
  <2>2. \A q \in Requests \ {r} : /\ req'[q].pc = req[q].pc /\ req'[q].inst = req[q].inst
                                  /\ req'[q].trig = req[q].trig /\ req'[q].op = req[q].op
    BY <1>4 DEF Begin, TypeOK
  <2>3. req'[r].inst = i /\ req'[r].trig = t /\ req'[r].op = op /\ up[i] = "up"
    BY <1>4 DEF Begin
  <2>4. Served'
    BY <1>4, <2>2, <2>3 DEF Begin, Served
  <2> QED BY <1>4, <2>1, <2>4 DEF Begin, TypeOK, Calls, OpenPcs
<1>5. ASSUME NEW r \in Requests, Save(r) PROVE TypeOK' /\ Served'
  <2>1. PICK new \in Written(r, req[r].trig) :
            /\ row' = [row EXCEPT ![req[r].trig] = new]
            /\ req' = [req EXCEPT ![r].pc = "saved", ![r].got = new]
    BY <1>5 DEF Save
  <2>2. new \in Rows
    BY <1>5, WrittenRow DEF Save
  <2>3. row' \in [Triggers -> Rows]
    BY <2>1, <2>2 DEF TypeOK
  <2>6. [req[r] EXCEPT !.pc = "saved", !.got = new] \in Calls
    BY <1>0, <2>2 DEF Calls, OpenPcs
  <2>7. req' \in [Requests -> Calls]
    BY <1>0, <2>1, <2>6
  <2>4. fresh' \in [Instances -> SUBSET Triggers]
    BY <1>5 DEF Save, Wrote, Served, OpenPcs, TypeOK
  <2>5. Served'
    BY <1>5, <2>1 DEF Save, Served, TypeOK, OpenPcs
  <2> QED BY <1>5, <2>3, <2>4, <2>5, <2>7 DEF Save, TypeOK, Calls, OpenPcs
<1>6. ASSUME NEW r \in Requests, SaveFails(r) PROVE TypeOK' /\ Served'
  <2>1. req' \in [Requests -> Calls] /\ req'[r].pc = "done"
    BY <1>6, EndedCall DEF SaveFails, TypeOK, Calls, OpenPcs
  <2>2. faults' \in Nat
    BY <1>6 DEF SaveFails, Fault, TypeOK
  <2>3. Served'
    BY <1>6, <2>1 DEF SaveFails, Served, TypeOK, OpenPcs
  <2> QED BY <1>6, <2>1, <2>2, <2>3 DEF SaveFails, TypeOK, Calls, OpenPcs
<1>7. ASSUME NEW r \in Requests, Apply(r) PROVE TypeOK' /\ Served'
  <2>1. req' \in [Requests -> Calls] /\ req'[r].pc = "done"
    BY <1>7, EndedCall DEF Apply, TypeOK, Calls, OpenPcs
  <2>2. Registered(r) \in Requests \cup {None}
    BY JobType DEF Registered, TypeOK
  <2>3. jobs' \in [Instances -> [Triggers -> Requests \cup {None}]]
    BY <1>7, <2>2 DEF Apply, TypeOK
  <2>4. Served'
    BY <1>7, <2>1 DEF Apply, Served, TypeOK, OpenPcs
  <2>5. unsure' \subseteq Triggers
    BY <1>7 DEF Apply, TypeOK
  <2> QED BY <1>7, <2>1, <2>3, <2>4, <2>5 DEF Apply, TypeOK, Calls, OpenPcs
<1>8. ASSUME NEW r \in Requests, Unschedule(r) PROVE TypeOK' /\ Served'
  <2>1. req' \in [Requests -> Calls]
    <3>1. [req[r] EXCEPT !.pc = "unscheduled"] \in Calls
      BY <1>0 DEF Calls, OpenPcs
    <3> QED BY <1>0, <1>8, <3>1 DEF Unschedule
  <2>2. jobs' \in [Instances -> [Triggers -> Requests \cup {None}]]
    BY <1>8 DEF Unschedule, TypeOK
  <2>3. Served'
    BY <1>8 DEF Unschedule, Served, TypeOK, OpenPcs
  <2> QED BY <1>8, <2>1, <2>2, <2>3 DEF Unschedule, TypeOK, Calls, OpenPcs
<1>9. ASSUME NEW r \in Requests, Delete(r) PROVE TypeOK' /\ Served'
  <2>1. req' \in [Requests -> Calls] /\ req'[r].pc = "done"
    BY <1>9, EndedCall DEF Delete, TypeOK, Calls, OpenPcs
  <2>2. row' \in [Triggers -> Rows]
    BY <1>9 DEF Delete, TypeOK, Absent, Rows
  <2>3. fresh' \in [Instances -> SUBSET Triggers]
    BY <1>9 DEF Delete, Wrote, Served, OpenPcs, TypeOK
  <2>4. Served'
    BY <1>9, <2>1 DEF Delete, Served, TypeOK, OpenPcs
  <2> QED BY <1>9, <2>1, <2>2, <2>3, <2>4 DEF Delete, TypeOK, Calls, OpenPcs
<1>10. ASSUME NEW r \in Requests, DeleteFails(r) PROVE TypeOK' /\ Served'
  <2>1. req' \in [Requests -> Calls] /\ req'[r].pc = "done"
    BY <1>10, EndedCall DEF DeleteFails, TypeOK, Calls, OpenPcs
  <2>2. faults' \in Nat
    BY <1>10 DEF DeleteFails, Fault, TypeOK
  <2>3. unsure' \subseteq Triggers
    BY <1>10 DEF DeleteFails, Served, OpenPcs, TypeOK
  <2>4. Served'
    BY <1>10, <2>1 DEF DeleteFails, Served, TypeOK, OpenPcs
  <2> QED BY <1>10, <2>1, <2>2, <2>3, <2>4 DEF DeleteFails, TypeOK, Calls, OpenPcs
<1>11. ASSUME NEW f \in Fires, NEW i \in Instances, NEW t \in Triggers, Fire(f, i, t)
       PROVE  TypeOK' /\ Served'
  BY <1>11 DEF Fire, TypeOK, Served
<1>12. ASSUME NEW f \in Fires, Reread(f) \/ Execute(f) PROVE TypeOK' /\ Served'
  <2>0. CASE NobodyHandles(f)
    <3>1. fire[f].inst \in Instances /\ faults' \in Nat
      BY <1>12, <2>0 DEF NobodyHandles, Reread, Execute, Served, Fault, TypeOK
    <3> QED BY <1>3, <2>0, <3>1 DEF NobodyHandles
  <2> SUFFICES ASSUME ~ NobodyHandles(f) PROVE TypeOK' /\ Served'
    BY <2>0
  <2>1. fire' \in [Fires -> FireStates]
    <3>1. [fire[f] EXCEPT !.pc = "read"] \in FireStates /\ Free \in FireStates
      BY <1>0 DEF FireStates, Free
    <3> QED BY <1>0, <1>12, <3>1 DEF Reread, Execute
  <2>2. \A g \in Fires : fire'[g].pc # "idle" => fire'[g].inst \in Instances
    <3>1. \A g \in Fires : \/ fire'[g] = Free
                           \/ fire'[g].inst = fire[g].inst /\ fire[g].pc # "idle"
                           \/ fire'[g] = fire[g]
      BY <1>0, <1>12 DEF Reread, Execute, FireStates
    <3> QED BY <3>1 DEF Served, Free
  <2> QED BY <1>12, <2>1, <2>2 DEF Reread, Execute, TypeOK, Served, FireStates
<1>14. ASSUME NEW f \in Fires, Stamp(f) PROVE TypeOK' /\ Served'
  <2>1. CASE fire' = [fire EXCEPT ![f].pc = "run"] /\ UNCHANGED <<row, memory, req, faults, history>>
    <3>1. [fire[f] EXCEPT !.pc = "run"] \in FireStates
      BY <1>0 DEF FireStates
    <3>2. fire' \in [Fires -> FireStates]
      BY <1>0, <2>1, <3>1
    <3>3. \A g \in Fires : fire'[g].pc # "idle" => fire'[g].inst \in Instances
      <4>1. \A g \in Fires : fire'[g].inst = fire[g].inst
        BY <1>0, <2>1 DEF FireStates
      <4>2. \A g \in Fires : fire'[g].pc # "idle" => fire[g].pc # "idle"
        BY <1>0, <1>14, <2>1 DEF Stamp, FireStates
      <4> QED BY <4>1, <4>2 DEF Served
    <3> QED BY <2>1, <3>2, <3>3 DEF TypeOK, Served, FireStates
  <2>2. CASE Dies(fire[f].inst) /\ faults' \in Nat
    <3>1. fire[f].inst \in Instances
      BY <1>14 DEF Stamp, Served
    <3> QED BY <1>3, <2>2, <3>1
  <2>3. faults' \in Nat
    BY <1>14 DEF Stamp, NobodyHandles, Fault, TypeOK
  <2> QED BY <1>14, <2>1, <2>2, <2>3 DEF Stamp, NobodyHandles
<1>15. ASSUME NEW i \in Instances, Stop(i) PROVE TypeOK' /\ Served'
  <2>1. faults' \in Nat
    BY <1>15 DEF Stop, Fault, TypeOK
  <2> QED BY <1>3, <1>15, <2>1 DEF Stop
<1>13. CASE UNCHANGED vars
  BY <1>13 DEF vars, TypeOK, Served
<1> QED BY <1>1, <1>2, <1>4, <1>5, <1>6, <1>7, <1>8, <1>9, <1>10, <1>11, <1>12, <1>13,
           <1>14, <1>15 DEF Next

--------------------------------------------------------------------------------
(* The strengthening, of one trigger.                                         *)

Knows(i, t) == up[i] = "up" /\ t \in fresh[i]
Matches(i, t) == jobs[i][t] = JobOf(row[t])

(* An instance that starts has read the row, unless somebody wrote it since. *)
ReadsRow(t) ==
    \A i \in Instances : up[i] = "loading" /\ t \in fresh[i] => snap[i][t] = row[t]

(* A call believes itself alone only while it is, and knows when others are unsure. *)
Exclusive(t) ==
    /\ \A r, q \in Requests : Open(r, t) /\ Open(q, t) /\ r # q => ~req[r].alone
    /\ \A r \in Requests : Open(r, t) /\ ~req[r].alone => t \in unsure

Calm(t) == Quiet(t) /\ t \notin unsure => \A i \in Instances : Knows(i, t) => Matches(i, t)

(* How far the one call that changes the trigger has brought row and jobs. *)
Midway(r, t) ==
    LET i == req[r].inst IN
    /\ req[r].pc = "saved" => req[r].got = row[t]
    /\ req[r].pc = "saved" \/ t \notin unsure
          => \A j \in Instances \ {i} : Knows(j, t) => Matches(j, t)
    /\ req[r].pc = "owned" /\ t \notin unsure /\ Knows(i, t) => Matches(i, t)
    /\ req[r].pc = "unscheduled" /\ t \notin unsure => jobs[i][t] = None

TriggerInv(t) ==
    /\ ReadsRow(t) /\ Exclusive(t) /\ Calm(t)
    /\ \A r \in Requests : Open(r, t) /\ req[r].alone => Midway(r, t)

(* A call that serves another trigger, or a step that is no call's, does not disturb. *)
Undisturbed(t) ==
    /\ row'[t] = row[t] /\ up' = up /\ snap' = snap
    /\ \A i \in Instances : /\ jobs'[i][t] = jobs[i][t]
                            /\ t \in fresh'[i] <=> t \in fresh[i]
    /\ t \in unsure' <=> t \in unsure
    /\ \A r \in Requests : (Open(r, t) \/ Open(r, t)') => req'[r] = req[r]

LEMMA UndisturbedKeeps ==
    ASSUME TypeOK, Served, NEW t \in Triggers, TriggerInv(t), Undisturbed(t)
    PROVE  TriggerInv(t)'
<1>1. \A r \in Requests : Open(r, t)' <=> Open(r, t)
  BY DEF Undisturbed, Open
<1>2. ReadsRow(t)' /\ Exclusive(t)'
  BY <1>1 DEF Undisturbed, TriggerInv, ReadsRow, Exclusive
<1>3. Calm(t)'
  BY <1>1 DEF Undisturbed, TriggerInv, Calm, Quiet, Knows, Matches
<1>4. ASSUME NEW r \in Requests, Open(r, t)', req'[r].alone PROVE Midway(r, t)'
  <2>1. req'[r] = req[r] /\ Open(r, t) /\ Midway(r, t) /\ req[r].inst \in Instances
    BY <1>1, <1>4 DEF Undisturbed, TriggerInv, Served, Open, OpenPcs
  <2> QED BY <2>1 DEF Undisturbed, Midway, Knows, Matches
<1> QED BY <1>2, <1>3, <1>4 DEF TriggerInv

(* Where a call that ends leaves the others. *)
LEMMA EndsCall ==
    ASSUME TypeOK, NEW r \in Requests, req' = [req EXCEPT ![r] = Ended(r)]
    PROVE  /\ \A t \in Triggers : ~Open(r, t)'
           /\ \A q \in Requests \ {r} : req'[q] = req[q]
           /\ \A q \in Requests \ {r}, t \in Triggers : Open(q, t)' <=> Open(q, t)
BY EndedCall DEF TypeOK, Open

LEMMA OpensOne ==
    ASSUME Served, NEW r \in Requests, req[r].pc \in OpenPcs
    PROVE  /\ Open(r, req[r].trig) /\ req[r].trig \in Triggers /\ req[r].inst \in Instances
           /\ up[req[r].inst] = "up"
           /\ \A t \in Triggers : t # req[r].trig => ~Open(r, t)
BY DEF Served, Open, OpenPcs

(* The job of a trigger that was deleted, as of one that is not active, is none. *)
LEMMA NoJob == JobOf(Absent) = None
BY DEF JobOf, Absent

--------------------------------------------------------------------------------
LEMMA CallStep ==
    ASSUME TypeOK, Served, NEW t \in Triggers, TriggerInv(t), NEW r \in Requests,
           \/ Save(r) \/ SaveFails(r) \/ Apply(r) \/ Unschedule(r) \/ Delete(r) \/ DeleteFails(r)
    PROVE  TriggerInv(t)'
<1> USE DEF memory, history
<1> DEFINE u == req[r].trig
<1> DEFINE i == req[r].inst
<1>0. /\ req[r].pc \in OpenPcs /\ u \in Triggers /\ i \in Instances /\ up[i] = "up"
      /\ Open(r, u) /\ \A x \in Triggers : x # u => ~Open(r, x)
  BY OpensOne DEF Save, SaveFails, Apply, Unschedule, Delete, DeleteFails, OpenPcs
<1>1. CASE t # u
  <2>1. ~Open(r, t)
    BY <1>0, <1>1
  <2>2. row'[t] = row[t] /\ up' = up /\ snap' = snap /\ (t \in unsure' <=> t \in unsure)
    <3>1. CASE Save(r) \/ Delete(r)
      BY <1>0, <1>1, <3>1 DEF Save, Delete, TypeOK
    <3>2. CASE SaveFails(r) \/ Apply(r) \/ Unschedule(r) \/ DeleteFails(r)
      BY <1>0, <1>1, <3>2 DEF SaveFails, Apply, Unschedule, DeleteFails
    <3> QED BY <3>1, <3>2
  <2>3. \A j \in Instances : jobs'[j][t] = jobs[j][t]
    <3>1. CASE Apply(r) \/ Unschedule(r)
      BY <1>0, <1>1, <3>1 DEF Apply, Unschedule, TypeOK
    <3>2. CASE Save(r) \/ SaveFails(r) \/ Delete(r) \/ DeleteFails(r)
      BY <3>2 DEF Save, SaveFails, Delete, DeleteFails
    <3> QED BY <3>1, <3>2
  <2>4. \A j \in Instances : t \in fresh'[j] <=> t \in fresh[j]
    <3>1. CASE Save(r) \/ Delete(r)
      <4>1. Wrote(i, u)
        BY <3>1 DEF Save, Delete
      <4> QED BY <1>1, <4>1 DEF Wrote
    <3>2. CASE SaveFails(r) \/ Apply(r) \/ Unschedule(r) \/ DeleteFails(r)
      BY <3>2 DEF SaveFails, Apply, Unschedule, DeleteFails
    <3> QED BY <3>1, <3>2
  <2>5. \A q \in Requests \ {r} : req'[q] = req[q]
    BY DEF Save, SaveFails, Apply, Unschedule, Delete, DeleteFails, TypeOK
  <2>6. ~Open(r, t)'
    <3>1. CASE Save(r) \/ Unschedule(r)
      BY <1>1, <3>1 DEF Save, Unschedule, Open, TypeOK
    <3>2. CASE SaveFails(r) \/ Apply(r) \/ Delete(r) \/ DeleteFails(r)
      BY <3>2, EndsCall DEF SaveFails, Apply, Delete, DeleteFails
    <3> QED BY <3>1, <3>2
  <2>7. Undisturbed(t)
    BY <2>1, <2>2, <2>3, <2>4, <2>5, <2>6 DEF Undisturbed
  <2> QED BY <2>7, UndisturbedKeeps
<1>2. CASE t = u
  <2>0. /\ \A q \in Requests \ {r} : Open(q, t) => ~req[q].alone
        /\ req[r].alone => \A q \in Requests \ {r} : ~Open(q, t)
        /\ ~req[r].alone => t \in unsure
        /\ req[r].alone => Midway(r, t)
    BY <1>0, <1>2 DEF TriggerInv, Exclusive
  <2>1. CASE Save(r)
    <3>1. PICK new : row'[t] = new /\ req' = [req EXCEPT ![r].pc = "saved", ![r].got = new]
      BY <1>0, <1>2, <2>1 DEF Save, TypeOK
    <3>2. /\ req'[r].pc = "saved" /\ req'[r].got = new /\ req'[r].alone = req[r].alone
          /\ req'[r].trig = t /\ req'[r].inst = i
          /\ \A q \in Requests \ {r} : req'[q] = req[q]
      BY <1>2, <3>1 DEF TypeOK
    <3>3. \A q \in Requests : Open(q, t)' <=> Open(q, t)
      BY <1>0, <1>2, <3>2 DEF Open
    <3>4. \A j \in Instances \ {i} : t \notin fresh'[j]
      BY <1>0, <1>2, <2>1 DEF Save, Wrote, TypeOK
    <3>5. ReadsRow(t)'
      BY <1>0, <2>1, <3>4 DEF Save, ReadsRow
    <3>6. Exclusive(t)'
      BY <2>1, <3>2, <3>3 DEF Save, TriggerInv, Exclusive
    <3>7. Calm(t)'
      BY <1>0, <1>2, <3>3 DEF Calm, Quiet
    <3>8. Midway(r, t)'
      BY <3>1, <3>2, <3>4 DEF Midway, Knows
    <3>9. \A q \in Requests : Open(q, t)' /\ req'[q].alone => q = r
      BY <2>0, <3>2, <3>3
    <3> QED BY <3>5, <3>6, <3>7, <3>8, <3>9 DEF TriggerInv
  <2>2. CASE SaveFails(r)
    <3>1. /\ ~Open(r, t)'
          /\ \A q \in Requests \ {r} : req'[q] = req[q] /\ (Open(q, t)' <=> Open(q, t))
      BY <2>2, EndsCall DEF SaveFails
    <3>2. ReadsRow(t)' /\ Exclusive(t)'
      BY <2>2, <3>1 DEF SaveFails, TriggerInv, ReadsRow, Exclusive
    <3>3. Calm(t)'
      <4>1. SUFFICES ASSUME t \notin unsure, NEW j \in Instances, Knows(j, t) PROVE Matches(j, t)
        BY <2>2 DEF SaveFails, Calm, Knows, Matches
      <4> QED BY <2>0, <2>2, <4>1 DEF SaveFails, Midway
    <3>4. \A q \in Requests : Open(q, t)' => ~req'[q].alone
      BY <2>0, <3>1
    <3> QED BY <3>2, <3>3, <3>4 DEF TriggerInv
  <2>3. CASE Apply(r)
    <3>1. /\ ~Open(r, t)'
          /\ \A q \in Requests \ {r} : req'[q] = req[q] /\ (Open(q, t)' <=> Open(q, t))
      BY <2>3, EndsCall DEF Apply
    <3>2. jobs'[i][t] = JobOf(req[r].got) /\ \A j \in Instances \ {i} : jobs'[j] = jobs[j]
      BY <1>0, <1>2, <2>3 DEF Apply, Registered, TypeOK
    <3>3. ReadsRow(t)'
      BY <2>3 DEF Apply, TriggerInv, ReadsRow
    <3>4. Exclusive(t)'
      BY <2>0, <2>3, <3>1 DEF Apply, TriggerInv, Exclusive
    <3>5. Calm(t)'
      <4>1. SUFFICES ASSUME t \notin unsure', NEW j \in Instances, Knows(j, t) PROVE Matches(j, t)'
        BY <2>3 DEF Apply, Calm, Knows
      <4>2. req[r].alone
        BY <2>0, <2>3, <4>1 DEF Apply
      <4>3. req[r].got = row[t] /\ \A k \in Instances \ {i} : Knows(k, t) => Matches(k, t)
        BY <2>0, <2>3, <4>2 DEF Apply, Midway
      <4> QED BY <2>3, <3>2, <4>1, <4>3 DEF Apply, Matches
    <3>6. \A q \in Requests : Open(q, t)' => ~req'[q].alone
      BY <2>0, <3>1
    <3> QED BY <3>3, <3>4, <3>5, <3>6 DEF TriggerInv
  <2>4. CASE Unschedule(r)
    <3>1. /\ req'[r].pc = "unscheduled" /\ req'[r].alone = req[r].alone
          /\ req'[r].trig = t /\ req'[r].inst = i
          /\ \A q \in Requests \ {r} : req'[q] = req[q]
      BY <1>2, <2>4 DEF Unschedule, TypeOK
    <3>2. \A q \in Requests : Open(q, t)' <=> Open(q, t)
      BY <1>0, <1>2, <3>1 DEF Open
    <3>3. jobs'[i][t] = None /\ \A j \in Instances \ {i} : jobs'[j] = jobs[j]
      BY <1>0, <1>2, <2>4 DEF Unschedule, TypeOK
    <3>4. ReadsRow(t)' /\ Exclusive(t)'
      BY <2>4, <3>1, <3>2 DEF Unschedule, TriggerInv, ReadsRow, Exclusive
    <3>5. Calm(t)'
      BY <1>0, <1>2, <3>2 DEF Calm, Quiet
    <3>6. req[r].alone => Midway(r, t)'
      BY <2>0, <2>4, <3>1, <3>3 DEF Unschedule, Midway, Knows, Matches
    <3>7. \A q \in Requests : Open(q, t)' /\ req'[q].alone => q = r /\ req[r].alone
      BY <2>0, <3>1, <3>2
    <3> QED BY <3>4, <3>5, <3>6, <3>7 DEF TriggerInv
  <2>5. CASE Delete(r)
    <3>1. /\ ~Open(r, t)'
          /\ \A q \in Requests \ {r} : req'[q] = req[q] /\ (Open(q, t)' <=> Open(q, t))
      BY <2>5, EndsCall DEF Delete
    <3>2. row'[t] = Absent /\ \A j \in Instances \ {i} : t \notin fresh'[j]
      BY <1>0, <1>2, <2>5 DEF Delete, Wrote, TypeOK
    <3>3. ReadsRow(t)'
      BY <1>0, <2>5, <3>2 DEF Delete, ReadsRow
    <3>4. Exclusive(t)'
      BY <2>5, <3>1 DEF Delete, TriggerInv, Exclusive
    <3>5. Calm(t)'
      <4>1. SUFFICES ASSUME t \notin unsure, NEW j \in Instances, Knows(j, t)' PROVE Matches(j, t)'
        BY <2>5 DEF Delete, Calm
      <4>2. j = i
        BY <3>2, <4>1 DEF Knows
      <4>3. jobs[i][t] = None
        BY <2>0, <2>5, <4>1 DEF Delete, Midway
      <4> QED BY <2>5, <3>2, <4>2, <4>3, NoJob DEF Delete, Matches
    <3>6. \A q \in Requests : Open(q, t)' => ~req'[q].alone
      BY <2>0, <3>1
    <3> QED BY <3>3, <3>4, <3>5, <3>6 DEF TriggerInv
  <2>6. CASE DeleteFails(r)
    <3>1. /\ ~Open(r, t)'
          /\ \A q \in Requests \ {r} : req'[q] = req[q] /\ (Open(q, t)' <=> Open(q, t))
      BY <2>6, EndsCall DEF DeleteFails
    <3>2. t \in unsure'
      BY <1>2, <2>6 DEF DeleteFails
    <3>3. ReadsRow(t)' /\ Exclusive(t)' /\ Calm(t)'
      BY <2>6, <3>1, <3>2 DEF DeleteFails, TriggerInv, ReadsRow, Exclusive, Calm
    <3>4. \A q \in Requests : Open(q, t)' => ~req'[q].alone
      BY <2>0, <3>1
    <3> QED BY <3>3, <3>4 DEF TriggerInv
  <2> QED BY <2>1, <2>2, <2>3, <2>4, <2>5, <2>6
<1> QED BY <1>1, <1>2

(* A call that begins: it is alone, or makes the others know. *)
LEMMA BeginStep ==
    ASSUME TypeOK, Served, NEW t \in Triggers, TriggerInv(t), NEW r \in Requests,
           NEW op \in Operations, NEW i \in Instances, NEW u \in Triggers, Begin(r, op, i, u)
    PROVE  TriggerInv(t)'
<1> USE DEF memory
<1>1. /\ req'[r] = [pc |-> "owned", op |-> op, inst |-> i, trig |-> u,
                    got |-> Absent, alone |-> Quiet(u)]
      /\ ~Open(r, t)
  BY DEF Begin, Open
<1>2. ASSUME NEW q \in Requests \ {r}
      PROVE  /\ req'[q].pc = req[q].pc /\ req'[q].trig = req[q].trig
             /\ req'[q] = IF Open(q, u) THEN [req[q] EXCEPT !.alone = FALSE] ELSE req[q]
  BY DEF Begin, TypeOK
<1>3. \A q \in Requests \ {r} : Open(q, t)' <=> Open(q, t)
  BY <1>2 DEF Open
<1>4. CASE t # u
  <2>1. ~Open(r, t)'
    BY <1>1, <1>4 DEF Open
  <2>2. \A q \in Requests \ {r} : Open(q, t) => ~Open(q, u)
    BY <1>4 DEF Open
  <2>3. \A q \in Requests : Open(q, t) \/ Open(q, t)' => req'[q] = req[q]
    BY <1>1, <1>2, <1>3, <2>1, <2>2
  <2>4. t \in unsure' <=> t \in unsure
    BY <1>4 DEF Begin
  <2>5. Undisturbed(t)
    BY <2>3, <2>4 DEF Begin, Undisturbed
  <2> QED BY <2>5, UndisturbedKeeps
<1>5. CASE t = u
  <2>1. Open(r, t)'
    BY <1>1, <1>5 DEF Open
  <2>2. \A q \in Requests \ {r} : Open(q, t)' => ~req'[q].alone
    <3>1. ASSUME NEW q \in Requests \ {r}, Open(q, t) PROVE ~req'[q].alone
      <4>1. req'[q] = [req[q] EXCEPT !.alone = FALSE] /\ req[q] \in Calls
        BY <1>2, <1>5, <3>1 DEF TypeOK, Calls, OpenPcs
      <4> QED BY <4>1 DEF Calls
    <3> QED BY <1>3, <3>1
  <2>3. ReadsRow(t)'
    BY DEF Begin, TriggerInv, ReadsRow
  <2>4. Calm(t)'
    BY <2>1 DEF Calm, Quiet
  <2>5. CASE Quiet(t)
    <3>1. \A q \in Requests \ {r} : ~Open(q, t)'
      BY <1>3, <2>5 DEF Quiet
    <3>2. req'[r].alone
      BY <1>1, <1>5, <2>5
    <3>3. Exclusive(t)'
      BY <3>1, <3>2 DEF Exclusive
    <3>4. Midway(r, t)'
      BY <1>1, <1>5, <2>5 DEF Begin, TriggerInv, Calm, Midway, Knows, Matches
    <3> QED BY <2>2, <2>3, <2>4, <3>3, <3>4 DEF TriggerInv
  <2>6. CASE ~Quiet(t)
    <3>1. ~req'[r].alone /\ t \in unsure'
      BY <1>1, <1>5, <2>6 DEF Begin
    <3>2. Exclusive(t)'
      BY <2>2, <3>1 DEF Exclusive
    <3> QED BY <2>2, <2>3, <2>4, <3>1, <3>2 DEF TriggerInv
  <2> QED BY <2>5, <2>6
<1> QED BY <1>4, <1>5

(* An instance that ends takes its calls along; the others know what they knew. *)
LEMMA DiesStep ==
    ASSUME TypeOK, Served, NEW t \in Triggers, TriggerInv(t), NEW i \in Instances, Dies(i)
    PROVE  TriggerInv(t)'
<1>1. \A r \in Requests : Open(r, t)' => Open(r, t) /\ req'[r] = req[r] /\ req[r].inst # i
  BY EndedCall DEF Dies, Open
<1>2. \A r \in Requests : Open(r, t) /\ req[r].inst # i => Open(r, t)'
  BY DEF Dies, Open
<1>3. /\ up'[i] = "down"
      /\ \A j \in Instances \ {i} : /\ up'[j] = up[j] /\ jobs'[j] = jobs[j]
                                    /\ snap'[j] = snap[j] /\ fresh'[j] = fresh[j]
  BY DEF Dies, TypeOK
<1>4. row' = row /\ unsure' = unsure
  BY DEF Dies
<1>5. ReadsRow(t)'
  BY <1>3, <1>4 DEF TriggerInv, ReadsRow
<1>6. Exclusive(t)'
  BY <1>1, <1>4 DEF TriggerInv, Exclusive
<1>7. Calm(t)'
  <2>1. SUFFICES ASSUME Quiet(t)', t \notin unsure, NEW j \in Instances, Knows(j, t)'
                 PROVE  Matches(j, t)'
    BY <1>4 DEF Calm
  <2>2. j # i /\ Knows(j, t)
    BY <1>3, <2>1 DEF Knows
  <2>3. CASE Quiet(t)
    BY <1>3, <1>4, <2>1, <2>2, <2>3 DEF TriggerInv, Calm, Matches
  <2>4. CASE ~Quiet(t)
    <3>1. PICK r \in Requests : Open(r, t)
      BY <2>4 DEF Quiet
    <3>2. req[r].inst = i /\ req[r].alone
      BY <1>2, <2>1, <3>1 DEF Quiet, TriggerInv, Exclusive
    <3>3. Matches(j, t)
      BY <2>1, <2>2, <3>1, <3>2 DEF TriggerInv, Midway
    <3> QED BY <1>3, <1>4, <2>2, <3>3 DEF Matches
  <2> QED BY <2>3, <2>4
<1>8. ASSUME NEW r \in Requests, Open(r, t)', req'[r].alone PROVE Midway(r, t)'
  <2>1. Open(r, t) /\ req'[r] = req[r] /\ req[r].inst # i /\ Midway(r, t)
    BY <1>1, <1>8 DEF TriggerInv
  <2>2. req[r].inst \in Instances
    BY <2>1 DEF Served, Open, OpenPcs
  <2> QED BY <1>3, <1>4, <2>1, <2>2 DEF Midway, Knows, Matches
<1> QED BY <1>5, <1>6, <1>7, <1>8 DEF TriggerInv

(* An instance that starts reads the rows, then knows them. *)
LEMMA StartStep ==
    ASSUME TypeOK, Served, NEW t \in Triggers, TriggerInv(t), NEW i \in Instances,
           StartUp(i) \/ Loaded(i)
    PROVE  TriggerInv(t)'
<1>1. /\ req' = req /\ row' = row /\ unsure' = unsure
      /\ \A j \in Instances \ {i} : /\ up'[j] = up[j] /\ jobs'[j] = jobs[j]
                                    /\ snap'[j] = snap[j] /\ fresh'[j] = fresh[j]
  BY DEF StartUp, Loaded, TypeOK, history
<1>2. \A r \in Requests : Open(r, t) => req[r].inst \in Instances \ {i}
  BY DEF StartUp, Loaded, Served, Open, OpenPcs
<1>3. ReadsRow(t)'
  <2>1. CASE StartUp(i)
    BY <1>1, <2>1 DEF StartUp, TriggerInv, ReadsRow, TypeOK
  <2>2. CASE Loaded(i)
    BY <1>1, <2>2 DEF Loaded, TriggerInv, ReadsRow, TypeOK
  <2> QED BY <2>1, <2>2
<1>4. Exclusive(t)'
  BY <1>1 DEF TriggerInv, Exclusive, Open
<1>5. Knows(i, t)' => Matches(i, t)'
  <2>1. CASE StartUp(i)
    BY <2>1 DEF StartUp, Knows, TypeOK
  <2>2. CASE Loaded(i)
    <3>1. jobs'[i][t] = JobOf(snap[i][t]) /\ fresh' = fresh /\ up[i] = "loading"
      BY <2>2 DEF Loaded, TypeOK, history
    <3> QED BY <1>1, <3>1 DEF TriggerInv, ReadsRow, Knows, Matches
  <2> QED BY <2>1, <2>2
<1>6. \A j \in Instances \ {i} : /\ Knows(j, t)' <=> Knows(j, t)
                                 /\ Matches(j, t)' <=> Matches(j, t)
  BY <1>1 DEF Knows, Matches
<1>7. Calm(t)'
  BY <1>1, <1>5, <1>6 DEF TriggerInv, Calm, Quiet, Open
<1>8. ASSUME NEW r \in Requests, Open(r, t)', req'[r].alone PROVE Midway(r, t)'
  <2>1. Open(r, t) /\ Midway(r, t) /\ req[r].inst \in Instances \ {i}
    BY <1>1, <1>2, <1>8 DEF TriggerInv, Open
  <2>2. jobs'[req[r].inst] = jobs[req[r].inst]
    BY <1>1, <2>1
  <2> QED BY <1>1, <1>5, <1>6, <2>1, <2>2 DEF Midway
<1> QED BY <1>3, <1>4, <1>7, <1>8 DEF TriggerInv

--------------------------------------------------------------------------------
CronInv == TypeOK /\ Served /\ \A t \in Triggers : TriggerInv(t)

(* Every state satisfies the strengthening. *)
THEOREM CronInvariant == Spec => []CronInv
<1>1. Init => CronInv
  <2> SUFFICES ASSUME Init PROVE CronInv
    OBVIOUS
  <2>1. Absent \in Rows /\ Unused \in Calls /\ Free \in FireStates /\ Unused.pc = "idle" /\ Free.pc = "idle"
    BY DEF Absent, Rows, Unused, Calls, Free, FireStates
  <2>2. TypeOK
    BY <2>1 DEF Init, TypeOK, Calls, FireStates, OpenPcs
  <2>3. Served
    BY <2>1 DEF Init, Served, OpenPcs
  <2>4. ASSUME NEW t \in Triggers PROVE TriggerInv(t)
    <3>1. (\A r \in Requests : ~Open(r, t)) /\ \A i \in Instances : up[i] = "down"
      BY <2>1 DEF Init, Open
    <3> QED BY <3>1 DEF TriggerInv, ReadsRow, Exclusive, Calm, Knows
  <2> QED BY <2>2, <2>3, <2>4 DEF CronInv
<1>2. CronInv /\ [Next]_vars => CronInv'
  <2> SUFFICES ASSUME CronInv, [Next]_vars PROVE CronInv'
    OBVIOUS
  <2>1. TypeOK' /\ Served'
    BY TypeInductive DEF CronInv
  <2>2. ASSUME NEW t \in Triggers PROVE TriggerInv(t)'
    <3>0. TypeOK /\ Served /\ TriggerInv(t)
      BY DEF CronInv
    <3>1. ASSUME NEW i \in Instances, StartUp(i) \/ Loaded(i) PROVE TriggerInv(t)'
      BY <3>0, <3>1, StartStep
    <3>2. ASSUME NEW i \in Instances, Dies(i) PROVE TriggerInv(t)'
      BY <3>0, <3>2, DiesStep
    <3>3. ASSUME NEW r \in Requests, NEW op \in Operations, NEW i \in Instances,
                 NEW u \in Triggers, Begin(r, op, i, u)
          PROVE  TriggerInv(t)'
      BY <3>0, <3>3, BeginStep
    <3>4. ASSUME NEW r \in Requests,
                 Save(r) \/ SaveFails(r) \/ Apply(r) \/ Unschedule(r) \/ Delete(r) \/ DeleteFails(r)
          PROVE  TriggerInv(t)'
      BY <3>0, <3>4, CallStep
    <3>5. CASE UNCHANGED <<row, memory, req, history>>
      <4>1. Undisturbed(t)
        BY <3>5 DEF memory, history, Undisturbed
      <4> QED BY <3>0, <4>1, UndisturbedKeeps
    <3>6. ASSUME NEW f \in Fires, Reread(f) \/ Stamp(f) PROVE TriggerInv(t)'
      <4>1. fire[f].inst \in Instances
        BY <3>0, <3>6 DEF Reread, Stamp, Served
      <4> QED BY <3>2, <3>5, <3>6, <4>1 DEF Reread, Stamp, NobodyHandles
    <3>7. ASSUME NEW f \in Fires, Execute(f) \/ \E i \in Instances, u \in Triggers : Fire(f, i, u)
          PROVE  TriggerInv(t)'
      BY <3>5, <3>7 DEF Execute, Fire
    <3>8. CASE UNCHANGED vars
      BY <3>5, <3>8 DEF vars
    <3> QED BY <3>1, <3>2, <3>3, <3>4, <3>6, <3>7, <3>8 DEF Next, Stop
  <2> QED BY <2>1, <2>2 DEF CronInv
<1> QED BY <1>1, <1>2, PTL DEF Spec

(* The types, for any instances, triggers, requests and failures. *)
THEOREM TypeCorrect == Spec => []TypeOK
<1>1. CronInv => TypeOK
  BY DEF CronInv
<1> QED BY <1>1, CronInvariant, PTL

(* Wherever changes did not overlap or break off, the registry of an instance that knows
   the last change follows the row. *)
THEOREM RegistryFollows == Spec => []JobMatchesRow
<1>1. CronInv => JobMatchesRow
  BY DEF CronInv, TriggerInv, Calm, Knows, Matches, JobMatchesRow
<1> QED BY <1>1, CronInvariant, PTL

(* And an instance ends of a trigger only when its row was deleted between the two queries of
   executeTrigger, or the environment failed. *)
THEOREM SchedulerLives == Spec => SchedulerSurvives
<1>1. ASSUME TypeOK, Next, NEW i \in Instances, up[i] = "up", up'[i] = "down"
      PROVE  \/ faults' # faults
             \/ \E f \in Fires : /\ fire[f].pc = "read" /\ fire[f].inst = i
                                 /\ ~Exists(fire[f].trig)
  <2> USE DEF memory, history
  <2>1. CASE \E j \in Instances : StartUp(j) \/ Loaded(j)
    BY <1>1, <2>1 DEF StartUp, Loaded, TypeOK
  <2>2. CASE \E j \in Instances : Stop(j)
    BY <1>1, <2>2 DEF Stop, Fault, TypeOK
  <2>3. CASE \E r \in Requests :
               \/ \E op \in Operations, j \in Instances, t \in Triggers : Begin(r, op, j, t)
               \/ Save(r) \/ SaveFails(r) \/ Apply(r) \/ Unschedule(r) \/ Delete(r) \/ DeleteFails(r)
    BY <1>1, <2>3 DEF Begin, Save, SaveFails, Apply, Unschedule, Delete, DeleteFails
  <2>4. CASE \E f \in Fires :
               \/ \E j \in Instances, t \in Triggers : Fire(f, j, t)
               \/ Reread(f) \/ Execute(f)
    BY <1>1, <2>4 DEF Fire, Reread, NobodyHandles, Fault, TypeOK, Execute
  <2>5. ASSUME NEW f \in Fires, Stamp(f)
        PROVE  \/ faults' # faults
               \/ fire[f].pc = "read" /\ fire[f].inst = i /\ ~Exists(fire[f].trig)
    <3>1. CASE faults' # faults
      BY <3>1
    <3>2. CASE faults' = faults
      <4>1. ~Exists(fire[f].trig) /\ Dies(fire[f].inst)
        BY <1>1, <2>5, <3>2 DEF Stamp, NobodyHandles, Fault, TypeOK
      <4>2. fire[f].inst = i
        BY <1>1, <4>1 DEF Dies, TypeOK
      <4> QED BY <2>5, <4>1, <4>2 DEF Stamp
    <3> QED BY <3>1, <3>2
  <2> QED BY <1>1, <2>1, <2>2, <2>3, <2>4, <2>5 DEF Next
<1>2. TypeOK /\ [Next]_vars =>
        [\A i \in Instances :
            up[i] = "up" /\ up'[i] = "down"
              => \/ faults' # faults
                 \/ \E f \in Fires : /\ fire[f].pc = "read" /\ fire[f].inst = i
                                     /\ ~Exists(fire[f].trig)]_vars
  BY <1>1 DEF vars
<1> QED BY <1>2, TypeCorrect, PTL DEF Spec, SchedulerSurvives
================================================================================
