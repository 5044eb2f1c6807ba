--------------------------- MODULE CfdiStampingProofs ---------------------------
(***************************************************************************)
(* Proofs about CfdiStamping, for any set of webhook handlers, users and     *)
(* sweeping instances and any failures: at most one CFDI per payment, and    *)
(* exclusion of attempts for as long as no sweep resumed a live one.         *)
(***************************************************************************)
EXTENDS CfdiStamping, TLAPS

(* The claim: without an usurper an attempt under way has the row in STAMPING. *)
ClaimHeld ==
    ~ usurped => /\ \A c, d \in Attempting : c = d
                 /\ Attempting # {} => status = "STAMPING"

(* An attempt that is about to save has its CFDI. *)
Backed ==
    /\ issued <= 1
    /\ status = "STAMPED" => issued = 1
    /\ \A c \in Callers : At(c, "saving") => issued = 1

CfdiInv == ClaimHeld /\ Backed

(* A call record is built from a place and, in a failing attempt, an error. *)
LEMMA CallTypes ==
    ASSUME TypeOK, NEW c \in Callers
    PROVE  /\ \A pc \in CallPcs \ {"failing"} :
                Becomes(c, pc) => /\ call' \in [Callers -> Calls]
                                  /\ \A d \in Callers : call'[d].err # Null <=> call'[d].pc = "failing"
           /\ \A err \in ErrorKinds :
                Fails(c, err) => /\ call' \in [Callers -> Calls]
                                 /\ \A d \in Callers : call'[d].err # Null <=> call'[d].pc = "failing"
<1>1. ASSUME NEW pc \in CallPcs \ {"failing"}, Becomes(c, pc)
      PROVE  /\ call' \in [Callers -> Calls]
             /\ \A d \in Callers : call'[d].err # Null <=> call'[d].pc = "failing"
  <2>1. [pc |-> pc, err |-> Null] \in Calls
    BY <1>1 DEF Calls
  <2>2. call' \in [Callers -> Calls]
    BY <1>1, <2>1 DEF Becomes, TypeOK
  <2>3. ASSUME NEW d \in Callers
        PROVE  call'[d] = IF d = c THEN [pc |-> pc, err |-> Null] ELSE call[d]
    BY <1>1 DEF Becomes, TypeOK
  <2> QED BY <1>1, <2>2, <2>3 DEF TypeOK, At
<1>2. ASSUME NEW err \in ErrorKinds, Fails(c, err)
      PROVE  /\ call' \in [Callers -> Calls]
             /\ \A d \in Callers : call'[d].err # Null <=> call'[d].pc = "failing"
  <2>1. [pc |-> "failing", err |-> err] \in Calls
    BY <1>2 DEF Calls, CallPcs, AttemptPcs
  <2>2. call' \in [Callers -> Calls]
    BY <1>2, <2>1 DEF Fails, TypeOK
  <2>3. ASSUME NEW d \in Callers
        PROVE  call'[d] = IF d = c THEN [pc |-> "failing", err |-> err] ELSE call[d]
    BY <1>2 DEF Fails, TypeOK
  <2>4. err # Null
    BY <1>2 DEF ErrorKinds, Null
  <2> QED BY <1>2, <2>2, <2>3, <2>4 DEF TypeOK, At
<1> QED BY <1>1, <1>2

LEMMA FaultType ==
    ASSUME TypeOK, NEW f, Fault(f)
    PROVE  faults' \in 0 .. MaxFaults
BY CallersAssumption DEF TypeOK, Fault

--------------------------------------------------------------------------------
(* Every step keeps the types.  An action that leaves the row and the history alone
   only has to place its caller. *)
LEMMA TypeInductive ==
    ASSUME TypeOK, [Next]_vars
    PROVE  TypeOK'
<1> DEFINE CallsOK == /\ call' \in [Callers -> Calls]
                      /\ \A d \in Callers : call'[d].err # Null <=> call'[d].pc = "failing"
<1>1. ASSUME NEW w \in Webhooks, Record(w) PROVE TypeOK'
  <2>1. w \in Callers
    BY DEF Callers
  <2>2. CallsOK
    BY <1>1, <2>1, CallTypes DEF Record, CallPcs
  <2>3. faults' \in 0 .. MaxFaults
    BY <1>1, FaultType DEF Record, TypeOK
  <2>4. status' \in Statuses
    BY <1>1 DEF Record, TypeOK, Statuses
  <2> QED BY <1>1, <2>2, <2>3, <2>4 DEF Record, TypeOK, At
<1>2. ASSUME NEW b \in Buttons, Press(b) PROVE TypeOK'
  <2>1. b \in Callers
    BY DEF Callers
  <2>2. CallsOK
    BY <1>2, <2>1, CallTypes DEF Press, CallPcs
  <2> QED BY <1>2, <2>2 DEF Press, row, TypeOK, At
<1>3. ASSUME NEW s \in Sweeps, Select(s) PROVE TypeOK'
  <2>1. s \in Callers
    BY DEF Callers
  <2>2. CallsOK
    BY <1>3, <2>1, CallTypes DEF Select, CallPcs
  <2> QED BY <1>3, <2>2 DEF Select, row, TypeOK, At
<1>4. ASSUME NEW s \in Sweeps, Resume(s) PROVE TypeOK'
  <2>1. s \in Callers
    BY DEF Callers
  <2>2. CallsOK
    BY <1>4, <2>1, CallTypes DEF Resume, CallPcs, AttemptPcs
  <2>3. usurped' \in BOOLEAN
    BY <1>4 DEF Resume
  <2> QED BY <1>4, <2>2, <2>3 DEF Resume, TypeOK, At
<1>5. ASSUME NEW c \in Callers, Attempt(c) \/ CreateFails(c) \/ SaveFails(c) \/ Abandon(c)
      PROVE  TypeOK'
  <2>1. CASE Stamp(c)
    <3>1. CallsOK
      BY <2>1, CallTypes DEF Stamp, CallPcs, AttemptPcs
    <3> QED BY <2>1, <3>1 DEF Stamp, TypeOK, At, Statuses
  <2>2. CASE Load(c)
    <3>1. CallsOK
      BY <2>2, CallTypes DEF Load, CallPcs, AttemptPcs, ErrorKinds
    <3> QED BY <2>2, <3>1 DEF Load, row, TypeOK, At
  <2>3. CASE Create(c)
    <3>1. CallsOK
      BY <2>3, CallTypes DEF Create, CallPcs, AttemptPcs, ErrorKinds
    <3>2. issued' \in 0 .. 2
      BY <2>3 DEF Create, Issued, TypeOK
    <3> QED BY <2>3, <3>1, <3>2 DEF Create, row, TypeOK, At
  <2>4. CASE Save(c)
    <3>1. CallsOK
      BY <2>4, CallTypes DEF Save, CallPcs
    <3> QED BY <2>4, <3>1 DEF Save, TypeOK, At, Statuses
  <2>5. CASE MarkFailed(c)
    <3>1. CallsOK
      BY <2>5, CallTypes DEF MarkFailed, CallPcs
    <3>2. kind' \in ErrorKinds \cup {Null}
      BY <2>5 DEF MarkFailed, TypeOK, Calls
    <3> QED BY <2>5, <3>1, <3>2 DEF MarkFailed, TypeOK, At, Statuses
  <2>6. CASE CreateFails(c)
    <3>1. CallsOK
      BY <2>6, CallTypes DEF CreateFails, ErrorKinds
    <3>2. issued' \in 0 .. 2
      BY <2>6 DEF CreateFails, Issued, TypeOK
    <3>3. faults' \in 0 .. MaxFaults
      BY <2>6, FaultType DEF CreateFails
    <3> QED BY <2>6, <3>1, <3>2, <3>3 DEF CreateFails, row, TypeOK, At
  <2>7. CASE SaveFails(c)
    <3>1. CallsOK
      BY <2>7, CallTypes DEF SaveFails, ErrorKinds
    <3>2. faults' \in 0 .. MaxFaults
      BY <2>7, FaultType DEF SaveFails
    <3> QED BY <2>7, <3>1, <3>2 DEF SaveFails, row, TypeOK, At
  <2>8. CASE Abandon(c)
    <3>1. CallsOK
      BY <2>8, CallTypes DEF Abandon, CallPcs
    <3>2. faults' \in 0 .. MaxFaults
      BY <2>8, FaultType DEF Abandon
    <3> QED BY <2>8, <3>1, <3>2 DEF Abandon, row, TypeOK, At
  <2> QED BY <1>5, <2>1, <2>2, <2>3, <2>4, <2>5, <2>6, <2>7, <2>8 DEF Attempt
<1>6. CASE Grace
  BY <1>6 DEF Grace, TypeOK, At
<1>7. CASE EditProfile
  BY <1>7 DEF EditProfile, row, TypeOK, At
<1>8. CASE Enable
  BY <1>8 DEF Enable, row, TypeOK, At
<1>9. CASE UNCHANGED vars
  BY <1>9 DEF vars, row, TypeOK, At
<1> QED BY <1>1, <1>2, <1>3, <1>4, <1>5, <1>6, <1>7, <1>8, <1>9 DEF Next

(* Every variable keeps its type, whatever callers and failures there are. *)
THEOREM TypeCorrect == Spec => []TypeOK
<1>1. Init => TypeOK
  <2> SUFFICES ASSUME Init PROVE TypeOK
    OBVIOUS
  <2>1. Idle \in Calls
    BY DEF Idle, Calls, CallPcs
  <2>2. call \in [Callers -> Calls]
    BY <2>1 DEF Init
  <2>3. \A c \in Callers : call[c].err = Null /\ call[c].pc = "idle"
    BY DEF Init, Idle
  <2>4. faults \in 0 .. MaxFaults
    BY CallersAssumption DEF Init
  <2>5. \A c \in Callers : call[c].err # Null <=> At(c, "failing")
    BY <2>3 DEF At
  <2>6. enabled \in BOOLEAN /\ settled \in BOOLEAN /\ fresh \in BOOLEAN /\ usurped \in BOOLEAN
    BY DEF Init
  <2>7. /\ status \in Statuses /\ kind \in ErrorKinds \cup {Null} /\ issued \in 0 .. 2
        /\ profile \in {"missing", "wrong", "right"}
    BY DEF Init, Statuses
  <2> QED BY <2>2, <2>4, <2>5, <2>6, <2>7 DEF TypeOK
<1>2. TypeOK /\ [Next]_vars => TypeOK'
  BY TypeInductive
<1> QED BY <1>1, <1>2, PTL DEF Spec

--------------------------------------------------------------------------------
(* Where a step leaves each call. *)
LEMMA CallsAfter ==
    ASSUME TypeOK, NEW c \in Callers
    PROVE  /\ \A pc \in CallPcs :
                Becomes(c, pc) =>
                    \A d \in Callers : call'[d].pc = IF d = c THEN pc ELSE call[d].pc
           /\ \A err \in ErrorKinds :
                Fails(c, err) =>
                    \A d \in Callers : call'[d].pc = IF d = c THEN "failing" ELSE call[d].pc
BY DEF TypeOK, Becomes, Fails

(* A step that starts no attempt and keeps the status while one is left. *)
LEMMA NoNewAttempt ==
    ASSUME ClaimHeld, Attempting' \subseteq Attempting, usurped' = usurped,
           Attempting' = Attempting => status' = status
    PROVE  ClaimHeld'
<1> SUFFICES ASSUME ~ usurped'
             PROVE  /\ \A c, d \in Attempting' : c = d
                    /\ Attempting' # {} => status' = "STAMPING"
  BY DEF ClaimHeld
<1>1. /\ \A c, d \in Attempting : c = d
      /\ Attempting # {} => status = "STAMPING"
  BY DEF ClaimHeld
<1>2. ASSUME Attempting' # {} PROVE Attempting' = Attempting
  BY <1>1, <1>2
<1> QED BY <1>1, <1>2

(* One step of a caller: the claim is respected and no CFDI is made twice. *)
LEMMA CallerKeepsInv ==
    ASSUME TypeOK, CfdiInv, NEW c \in Callers,
           \/ c \in Webhooks /\ Record(c)
           \/ c \in Buttons /\ Press(c)
           \/ c \in Sweeps /\ (Select(c) \/ Resume(c))
           \/ Attempt(c) \/ CreateFails(c) \/ SaveFails(c) \/ Abandon(c)
    PROVE  CfdiInv'
<1> USE DEF CfdiInv
<1>1. CASE Record(c)
  <2>1. PICK pc \in {"idle", "calling"} : Becomes(c, pc)
    BY <1>1 DEF Record
  <2>2. \A d \in Callers : call'[d].pc = IF d = c THEN pc ELSE call[d].pc
    BY <2>1, CallsAfter DEF CallPcs
  <2>3. status' = status \/ (status = "NONE" /\ status' = "PENDING")
    BY <1>1 DEF Record
  <2>4. Attempting' = Attempting
    BY <1>1, <2>1, <2>2 DEF Record, Attempting, AttemptPcs, At
  <2>5. ClaimHeld'
    BY <1>1, <2>3, <2>4 DEF Record, ClaimHeld
  <2> QED BY <1>1, <2>1, <2>2, <2>3, <2>5 DEF Record, Backed, At
<1>2. CASE Press(c)
  <2>1. \A d \in Callers : call'[d].pc = IF d = c THEN "calling" ELSE call[d].pc
    BY <1>2, CallsAfter DEF Press, CallPcs
  <2>2. Attempting' = Attempting
    BY <1>2, <2>1 DEF Press, Attempting, AttemptPcs, At
  <2> QED BY <1>2, <2>1, <2>2 DEF Press, row, ClaimHeld, Backed, At
<1>3. CASE Select(c)
  <2>1. PICK pc \in {"calling", "resuming"} : Becomes(c, pc)
    BY <1>3 DEF Select
  <2>2. \A d \in Callers : call'[d].pc = IF d = c THEN pc ELSE call[d].pc
    BY <2>1, CallsAfter DEF CallPcs
  <2>3. Attempting' = Attempting
    BY <1>3, <2>1, <2>2 DEF Select, Attempting, AttemptPcs, At
  <2> QED BY <1>3, <2>1, <2>2, <2>3 DEF Select, row, ClaimHeld, Backed, At
<1>4. CASE Resume(c)
  <2>1. \A d \in Callers : call'[d].pc = IF d = c THEN "claimed" ELSE call[d].pc
    BY <1>4, CallsAfter DEF Resume, CallPcs, AttemptPcs
  <2>2. Attempting' = Attempting \cup {c}
    BY <2>1 DEF Attempting, AttemptPcs
  <2>3. ~ usurped' => Attempting = {} /\ status' = "STAMPING"
    BY <1>4 DEF Resume
  <2>4. ClaimHeld'
    BY <2>2, <2>3 DEF ClaimHeld
  <2> QED BY <1>4, <2>1, <2>4 DEF Resume, Backed, At
<1>5. CASE Stamp(c)
  <2>1. CASE Claimable
    <3>1. Becomes(c, "claimed") /\ status' = "STAMPING" /\ UNCHANGED <<issued, usurped>>
      BY <1>5, <2>1 DEF Stamp
    <3>2. \A d \in Callers : call'[d].pc = IF d = c THEN "claimed" ELSE call[d].pc
      BY <3>1, CallsAfter DEF CallPcs, AttemptPcs
    <3>3. Attempting' = Attempting \cup {c}
      BY <3>2 DEF Attempting, AttemptPcs
    <3>4. ~ usurped => Attempting = {}
      BY <2>1 DEF Claimable, ClaimHeld
    <3>5. ClaimHeld'
      BY <3>1, <3>3, <3>4 DEF ClaimHeld
    <3> QED BY <3>1, <3>2, <3>5 DEF Backed, At
  <2>2. CASE ~ Claimable
    <3>1. Becomes(c, "idle") /\ UNCHANGED <<status, issued, usurped>>
      BY <1>5, <2>2 DEF Stamp
    <3>2. \A d \in Callers : call'[d].pc = IF d = c THEN "idle" ELSE call[d].pc
      BY <3>1, CallsAfter DEF CallPcs
    <3>3. Attempting' = Attempting
      BY <1>5, <3>2 DEF Stamp, Attempting, AttemptPcs, At
    <3> QED BY <3>1, <3>2, <3>3 DEF ClaimHeld, Backed, At
  <2> QED BY <2>1, <2>2
<1>6. CASE Load(c) \/ Create(c) \/ CreateFails(c) \/ SaveFails(c)
  <2>1. PICK pc \in {"creating", "saving", "failing"} :
            /\ \A d \in Callers : call'[d].pc = IF d = c THEN pc ELSE call[d].pc
            /\ pc = "saving" => issued' = 1
    <3>1. CASE Load(c)
      BY <3>1, CallsAfter DEF Load, CallPcs, AttemptPcs, ErrorKinds
    <3>2. CASE Create(c)
      <4>1. CASE Becomes(c, "saving") /\ issued' = Issued
        <5>1. issued' = 1
          BY <4>1 DEF Issued, Backed, TypeOK
        <5> QED BY <4>1, <5>1, CallsAfter DEF CallPcs, AttemptPcs
      <4>2. CASE Fails(c, "CLIENT_DATA")
        BY <4>2, CallsAfter DEF ErrorKinds
      <4> QED BY <3>2, <4>1, <4>2 DEF Create
    <3>3. CASE CreateFails(c) \/ SaveFails(c)
      BY <3>3, CallsAfter DEF CreateFails, SaveFails, ErrorKinds
    <3> QED BY <1>6, <3>1, <3>2, <3>3
  <2>2. status' = status /\ usurped' = usurped /\ call[c].pc \in AttemptPcs
    BY <1>6 DEF Load, Create, CreateFails, SaveFails, row, At, AttemptPcs
  <2>3. issued' = issued \/ (issued = 0 /\ issued' = 1)
    BY <1>6 DEF Load, Create, CreateFails, SaveFails, Issued
  <2>4. Attempting' = Attempting
    BY <2>1, <2>2 DEF Attempting, AttemptPcs
  <2>5. ClaimHeld'
    BY <2>2, <2>4 DEF ClaimHeld
  <2>6. Backed'
    BY <2>1, <2>2, <2>3 DEF Backed, At
  <2> QED BY <2>5, <2>6
<1>7. CASE Save(c) \/ MarkFailed(c) \/ Abandon(c)
  <2>1. Becomes(c, "idle") /\ usurped' = usurped /\ issued' = issued
    BY <1>7 DEF Save, MarkFailed, Abandon
  <2>2. \A d \in Callers : call'[d].pc = IF d = c THEN "idle" ELSE call[d].pc
    BY <2>1, CallsAfter DEF CallPcs
  <2>3. Attempting' = Attempting \ {c}
    BY <2>2 DEF Attempting, AttemptPcs
  <2>4. c \in Attempting \/ status' = status
    BY <1>7 DEF Save, MarkFailed, Abandon, row, Attempting, AttemptPcs, At
  <2>5. ClaimHeld'
    BY <2>1, <2>3, <2>4, NoNewAttempt
  <2>6. status' = "STAMPED" => issued = 1
    BY <1>7 DEF Save, MarkFailed, Abandon, row, Backed
  <2> QED BY <2>1, <2>2, <2>5, <2>6 DEF Backed, At
<1> QED BY <1>1, <1>2, <1>3, <1>4, <1>5, <1>6, <1>7 DEF Attempt

LEMMA InvInductive ==
    ASSUME TypeOK, CfdiInv, [Next]_vars
    PROVE  CfdiInv'
<1>1. ASSUME Grace \/ EditProfile \/ Enable \/ UNCHANGED vars PROVE CfdiInv'
  BY <1>1 DEF Grace, EditProfile, Enable, vars, row, CfdiInv, ClaimHeld, Backed, Attempting, At
<1>2. ASSUME NEW c \in Callers,
             \/ c \in Webhooks /\ Record(c)
             \/ c \in Buttons /\ Press(c)
             \/ c \in Sweeps /\ (Select(c) \/ Resume(c))
             \/ Attempt(c) \/ CreateFails(c) \/ SaveFails(c) \/ Abandon(c)
      PROVE  CfdiInv'
  BY <1>2, CallerKeepsInv
<1> QED BY <1>1, <1>2 DEF Next, Callers

LEMMA InvInit == Init => CfdiInv
BY DEF Init, Idle, CfdiInv, ClaimHeld, Backed, Attempting, AttemptPcs, At

LEMMA InvHolds == Spec => [](TypeOK /\ CfdiInv)
<1>1. TypeOK /\ CfdiInv /\ [Next]_vars => CfdiInv'
  BY InvInductive
<1> QED BY <1>1, InvInit, TypeCorrect, PTL DEF Spec

(* However many handlers, users and instances there are and whatever fails, one
   payment has at most one CFDI and a stamped invoice has one. *)
THEOREM AtMostOneCfdi == Spec => []OneCfdi
<1>1. CfdiInv => OneCfdi
  BY DEF CfdiInv, Backed, OneCfdi
<1> QED BY <1>1, InvHolds, PTL

(* The compare-and-set excludes attempts until a sweep resumes one that is alive. *)
THEOREM ClaimExcludes == Spec => []OneAttempt
<1>1. CfdiInv => OneAttempt
  BY DEF CfdiInv, ClaimHeld, OneAttempt
<1> QED BY <1>1, InvHolds, PTL

(* A stamped invoice loses its state only to an attempt that was thought dead. *)
THEOREM StampedStays == Spec => StampedIsFinal
<1>1. ASSUME TypeOK, CfdiInv, [Next]_vars
      PROVE  [status = "STAMPED" /\ ~ usurped' => status' = "STAMPED"]_vars
  <2> SUFFICES ASSUME Next, status = "STAMPED", ~ usurped' PROVE status' = "STAMPED"
    BY <1>1
  <2>1. ~ usurped
    BY DEF Next, Record, Press, Select, Resume, Attempt, Stamp, Load, Create, Save, MarkFailed,
           CreateFails, SaveFails, Abandon, Grace, EditProfile, Enable, row
  <2>2. Attempting = {}
    BY <1>1, <2>1 DEF CfdiInv, ClaimHeld
  <2>3. \A c \in Callers : ~ At(c, "failing")
    BY <2>2 DEF Attempting, AttemptPcs, At
  <2> QED BY <2>3 DEF Next, Record, Press, Select, Resume, Attempt, Stamp, Load, Create, Save,
                   MarkFailed, CreateFails, SaveFails, Abandon, Grace, EditProfile, Enable,
                   row, Claimable
<1> QED BY <1>1, InvHolds, PTL DEF Spec, StampedIsFinal
================================================================================
