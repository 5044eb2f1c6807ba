--------------------------- MODULE CreditLedgerProofs ---------------------------
(*****************************************************************************)
(* Proofs about CreditLedger for any set of operations, amounts and failures: *)
(* its types; that the log explains the balance; that no operation is applied *)
(* twice; that the ledger implements CreditAccount, whatever overlaps; and    *)
(* that an execution alone on the ledger keeps to its limit.                  *)
(*****************************************************************************)
EXTENDS CreditLedger, TLAPS

(* Appending to a sequence of any kind of element. *)
LEMMA AppendFacts ==
    ASSUME NEW S, NEW s \in Seq(S), NEW x \in S
    PROVE  /\ Append(s, x) \in Seq(S)
           /\ Append(s, x) # <<>>
           /\ Append(s, x)[Len(Append(s, x))] = x
           /\ DOMAIN Append(s, x) = DOMAIN s \cup {Len(s) + 1}
           /\ Len(s) + 1 \notin DOMAIN s
           /\ \A i \in DOMAIN s : Append(s, x)[i] = s[i]
           /\ Append(s, x)[Len(s) + 1] = x
  OBVIOUS

LEMMA Kinds ==
    /\ Executions \subseteq Operations
    /\ Purchases \subseteq Operations
    /\ Adjustments \subseteq Operations
    /\ \A d \in Deliveries : Of(d) \in Purchases
    /\ \A o \in Operations : Amount[o] \in Int
  BY LedgerAssumption DEF Operations, Deliveries, Of

(* What a transaction writes, and what it adds to the log. *)
LEMMA CommitEffect ==
    ASSUME TypeOK, NEW o \in Operations, NEW before \in Int, Commit(o, before)
    PROVE  /\ balance' \in Int /\ earned' \in Int /\ spent' \in Int
           /\ log' \in Seq(Rows) /\ stale' \in BOOLEAN
           /\ log' # <<>> /\ log'[Len(log')].after = balance'
           /\ DOMAIN log' = DOMAIN log \cup {Len(log) + 1}
           /\ Len(log) + 1 \notin DOMAIN log
           /\ \A i \in DOMAIN log : log'[i] = log[i]
           /\ log'[Len(log) + 1].op = o
           /\ LogOps' = LogOps \cup {o}
  <1> DEFINE row == [op |-> o, before |-> before, after |-> before + Amount[o]]
  <1>1. row \in Rows
    BY Kinds DEF Rows
  <1>2. log' = Append(log, row)
    BY DEF Commit
  <1>3. row.op = o /\ row.after = before + Amount[o]
    OBVIOUS
  <1>4. log \in Seq(Rows)
    BY DEF TypeOK
  <1> HIDE DEF row
  <1>5. /\ log' \in Seq(Rows) /\ log' # <<>> /\ log'[Len(log')] = row
        /\ DOMAIN log' = DOMAIN log \cup {Len(log) + 1}
        /\ Len(log) + 1 \notin DOMAIN log
        /\ \A i \in DOMAIN log : log'[i] = log[i]
        /\ log'[Len(log) + 1] = row
    BY <1>1, <1>2, <1>4, AppendFacts
  <1>6. balance' \in Int /\ earned' \in Int /\ spent' \in Int
    BY Kinds DEF Commit, TypeOK
  <1>7. stale' \in BOOLEAN
    BY DEF Commit, TypeOK
  <1>8. balance' = before + Amount[o]
    BY DEF Commit
  <1>9. LogOps' = LogOps \cup {o}
    BY <1>3, <1>5 DEF LogOps
  <1> QED BY <1>3, <1>5, <1>6, <1>7, <1>8, <1>9

--------------------------------------------------------------------------------
(* Types. *)

AccountType ==
    /\ balance \in Int /\ earned \in Int /\ spent \in Int
    /\ log \in Seq(Rows) /\ stale \in BOOLEAN

LEMMA InitType == Init => TypeOK
  <1> SUFFICES ASSUME Init PROVE TypeOK
    OBVIOUS
  <1>1. exec \in [Executions -> Execs]
    BY DEF Init, Execs, ExecPcs
  <1>2. adj \in [Adjustments -> Adjs]
    BY DEF Init, Adjs, AdjPcs
  <1>3. dlv \in [Deliveries -> Dlvs]
    BY DEF Init, Dlvs, DlvPcs
  <1>4. faults \in 0 .. MaxFaults
    BY LedgerAssumption DEF Init
  <1>5. log \in Seq(Rows)
    BY DEF Init
  <1>6. /\ balance \in Int /\ earned \in Int /\ spent \in Int
        /\ overage \in Limits \cup {NoOverage}
    BY DEF Init
  <1>7. stale \in BOOLEAN
    BY DEF Init
  <1>8. claims \subseteq Purchases /\ invoices \subseteq Purchases
        /\ crowded \subseteq Executions
    BY DEF Init
  <1> QED BY <1>1, <1>2, <1>3, <1>4, <1>5, <1>6, <1>7, <1>8 DEF TypeOK

LEMMA FaultType ==
    ASSUME TypeOK, NEW kind, Fault(kind)
    PROVE  faults' \in 0 .. MaxFaults
  BY LedgerAssumption DEF TypeOK, Fault

LEMMA ExecAtType ==
    ASSUME TypeOK, NEW e \in Executions, NEW from, NEW to \in ExecPcs, ExecAt(e, from, to)
    PROVE  exec' \in [Executions -> Execs]
  <1>1. [exec[e] EXCEPT !.pc = to] \in Execs
    BY DEF TypeOK, Execs
  <1> QED BY <1>1 DEF ExecAt, TypeOK

LEMMA DlvAtType ==
    ASSUME TypeOK, NEW d \in Deliveries, NEW from, NEW to \in DlvPcs, DlvAt(d, from, to)
    PROVE  dlv' \in [Deliveries -> Dlvs]
  <1>1. [dlv[d] EXCEPT !.pc = to] \in Dlvs
    BY DEF TypeOK, Dlvs
  <1> QED BY <1>1 DEF DlvAt, TypeOK

LEMMA SeenTypes ==
    ASSUME TypeOK
    PROVE  /\ \A e \in Executions : exec[e].seen \in Int
           /\ \A a \in Adjustments : adj[a].seen \in Int
           /\ \A d \in Deliveries : dlv[d].seen \in Int
  BY DEF TypeOK, Execs, Adjs, Dlvs

LEMMA OpensType ==
    ASSUME TypeOK, NEW o, Opens(o)
    PROVE  crowded' \subseteq Executions
  BY DEF TypeOK, Opens

LEMMA ChargedType ==
    ASSUME TypeOK, NEW e \in Executions, Charged(e)
    PROVE  AccountType'
  <1>1. Commit(e, exec[e].seen) /\ e \in Operations /\ exec[e].seen \in Int
    BY Kinds, SeenTypes DEF Charged
  <1>2. AccountType'
    BY <1>1, CommitEffect DEF AccountType
  <1> QED BY <1>2 DEF Charged, TypeOK

LEMMA GrantedType ==
    ASSUME TypeOK, NEW d \in Deliveries, Granted(d)
    PROVE  AccountType' /\ invoices' \subseteq Purchases
  <1>1. CASE Of(d) \in invoices
    BY <1>1 DEF Granted, TypeOK, AccountType, account
  <1>2. CASE Of(d) \notin invoices
    <2>1. /\ Commit(Of(d), dlv[d].seen) /\ Of(d) \in Operations /\ dlv[d].seen \in Int
          /\ invoices' = invoices \cup {Of(d)} /\ Of(d) \in Purchases
      BY <1>2, Kinds, SeenTypes DEF Granted
    <2> QED BY <2>1, CommitEffect DEF AccountType, TypeOK
  <1> QED BY <1>1, <1>2

LEMMA ExecutionType ==
    ASSUME TypeOK, NEW e \in Executions, RunExecution(e) \/ BreakExecution(e)
    PROVE  TypeOK'
  <1>1. CASE Check(e)
    <2>1. exec' \in [Executions -> Execs] /\ crowded' \subseteq Executions
      <3>1. exec[e] \in Execs /\ balance \in Int /\ Amount[e] \in Int /\ overage \in Int
        BY LedgerAssumption, Kinds DEF TypeOK, NoOverage
      <3>2. PICK subscribed \in BOOLEAN :
              LET left == balance + Amount[e]
                  floor == IF left >= 0 THEN 0 ELSE -overage
              IN  IF subscribed /\ (left >= 0 \/ (overage # NoOverage /\ -left <= overage))
                  THEN /\ exec' = [exec EXCEPT ![e] = [@ EXCEPT !.pc = "running",
                                                                !.floor = floor]]
                       /\ Opens(e)
                  ELSE /\ exec' = [exec EXCEPT ![e] = [@ EXCEPT !.pc = "denied"]]
                       /\ UNCHANGED crowded
        BY <1>1 DEF Check
      <3>3. \A f \in Int : [exec[e] EXCEPT !.pc = "running", !.floor = f] \in Execs
        BY <3>1 DEF Execs, ExecPcs
      <3>4. [exec[e] EXCEPT !.pc = "denied"] \in Execs
        BY <3>1 DEF Execs, ExecPcs
      <3>5. (IF balance + Amount[e] >= 0 THEN 0 ELSE -overage) \in Int
        BY <3>1
      <3>6. \/ /\ exec' = [exec EXCEPT ![e] = [@ EXCEPT !.pc = "running",
                             !.floor = IF balance + Amount[e] >= 0 THEN 0 ELSE -overage]]
               /\ Opens(e)
            \/ /\ exec' = [exec EXCEPT ![e] = [@ EXCEPT !.pc = "denied"]]
               /\ UNCHANGED crowded
        BY <3>2
      <3>7. exec \in [Executions -> Execs] /\ crowded \subseteq Executions
        BY DEF TypeOK
      <3> QED BY <3>3, <3>4, <3>5, <3>6, <3>7, OpensType
    <2> QED BY <1>1, <2>1 DEF Check, TypeOK, account, webhook
  <1>2. CASE Complete(e)
    <2>1. exec' \in [Executions -> Execs]
      BY <1>2, ExecAtType DEF Complete, ExecPcs
    <2> QED BY <1>2, <2>1 DEF Complete, TypeOK, account, webhook
  <1>3. CASE ReadForCharge(e)
    <2>1. [exec[e] EXCEPT !.pc = "charging", !.seen = balance] \in Execs
      BY DEF TypeOK, Execs, ExecPcs
    <2>2. exec' \in [Executions -> Execs]
      BY <1>3, <2>1 DEF ReadForCharge, TypeOK
    <2> QED BY <1>3, <2>2 DEF ReadForCharge, TypeOK, account, webhook
  <1>4. CASE Charge(e)
    <2>1. exec' \in [Executions -> Execs]
      BY <1>4, ExecAtType DEF Charge, ExecPcs
    <2>2. AccountType'
      BY <1>4, ChargedType DEF Charge
    <2> QED BY <1>4, <2>1, <2>2 DEF Charge, TypeOK, AccountType, webhook
  <1>5. CASE Account(e)
    <2>1. exec' \in [Executions -> Execs]
      BY <1>5, ExecAtType DEF Account, ExecPcs
    <2> QED BY <1>5, <2>1 DEF Account, TypeOK, account, webhook
  <1>6. CASE AgentFails(e) \/ ChargeFails(e) \/ AccountFails(e) \/ CrashExecution(e)
    <2>1. exec' \in [Executions -> Execs]
      BY <1>6, ExecAtType DEF AgentFails, ChargeFails, AccountFails, CrashExecution, ExecPcs
    <2>2. faults' \in 0 .. MaxFaults
      BY <1>6, FaultType DEF AgentFails, ChargeFails, AccountFails, CrashExecution
    <2> QED BY <1>6, <2>1, <2>2
            DEF AgentFails, ChargeFails, AccountFails, CrashExecution, TypeOK, account, webhook
  <1>7. CASE ChargeReplyLost(e)
    <2>1. exec' \in [Executions -> Execs]
      BY <1>7, ExecAtType DEF ChargeReplyLost, ExecPcs
    <2>2. AccountType'
      BY <1>7, ChargedType DEF ChargeReplyLost
    <2>3. faults' \in 0 .. MaxFaults
      BY <1>7, FaultType DEF ChargeReplyLost
    <2> QED BY <1>7, <2>1, <2>2, <2>3 DEF ChargeReplyLost, TypeOK, AccountType, webhook
  <1> QED BY <1>1, <1>2, <1>3, <1>4, <1>5, <1>6, <1>7 DEF RunExecution, BreakExecution

LEMMA AdjustmentType ==
    ASSUME TypeOK, NEW a \in Adjustments, ReadForAdd(a) \/ Add(a) \/ AddFails(a)
    PROVE  TypeOK'
  <1>0. adj[a] \in Adjs /\ adj \in [Adjustments -> Adjs]
    BY DEF TypeOK
  <1>1. CASE ReadForAdd(a)
    <2>1. [adj[a] EXCEPT !.pc = "adding", !.seen = balance] \in Adjs
      BY DEF TypeOK, Adjs, AdjPcs
    <2>2. adj' \in [Adjustments -> Adjs] /\ crowded' \subseteq Executions
      BY <1>0, <1>1, <2>1, OpensType DEF ReadForAdd
    <2> QED BY <1>1, <2>2 DEF ReadForAdd, TypeOK, account, webhook
  <1>2. CASE Add(a)
    <2>1. [adj[a] EXCEPT !.pc = "done"] \in Adjs
      BY <1>0 DEF Adjs, AdjPcs
    <2>2. adj' \in [Adjustments -> Adjs]
      BY <1>0, <1>2, <2>1 DEF Add
    <2>3. Commit(a, adj[a].seen) /\ a \in Operations /\ adj[a].seen \in Int
      BY <1>2, Kinds, SeenTypes DEF Add
    <2>4. AccountType'
      BY <2>3, CommitEffect DEF AccountType
    <2> QED BY <1>2, <2>2, <2>4 DEF Add, TypeOK, AccountType, webhook
  <1>3. CASE AddFails(a)
    <2>1. [adj[a] EXCEPT !.pc = "failed"] \in Adjs
      BY <1>0 DEF Adjs, AdjPcs
    <2>2. adj' \in [Adjustments -> Adjs]
      BY <1>0, <1>3, <2>1 DEF AddFails
    <2>3. faults' \in 0 .. MaxFaults
      BY <1>3, FaultType DEF AddFails
    <2> QED BY <1>3, <2>2, <2>3 DEF AddFails, TypeOK, account, webhook
  <1> QED BY <1>1, <1>2, <1>3

LEMMA DeliveryType ==
    ASSUME TypeOK, NEW d \in Deliveries, RunDelivery(d) \/ BreakDelivery(d)
    PROVE  TypeOK'
  <1>1. CASE Claim(d)
    <2>1. dlv' \in [Deliveries -> Dlvs]
      BY <1>1, DlvAtType DEF Claim, DlvPcs
    <2>2. claims' \subseteq Purchases
      BY <1>1, Kinds DEF Claim, TypeOK
    <2> QED BY <1>1, <2>1, <2>2 DEF Claim, TypeOK, account
  <1>2. CASE ReadForGrant(d)
    <2>1. [dlv[d] EXCEPT !.pc = "granting", !.seen = balance] \in Dlvs
      BY DEF TypeOK, Dlvs, DlvPcs
    <2>2. dlv' \in [Deliveries -> Dlvs] /\ crowded' \subseteq Executions
      BY <1>2, <2>1, OpensType DEF ReadForGrant, TypeOK
    <2> QED BY <1>2, <2>2 DEF ReadForGrant, TypeOK, account
  <1>3. CASE Grant(d)
    <2>1. dlv' \in [Deliveries -> Dlvs]
      BY <1>3, DlvAtType DEF Grant, DlvPcs
    <2>2. AccountType' /\ invoices' \subseteq Purchases
      BY <1>3, GrantedType DEF Grant
    <2> QED BY <1>3, <2>1, <2>2 DEF Grant, TypeOK, AccountType
  <1>4. CASE GrantReplyLost(d)
    <2>1. dlv' \in [Deliveries -> Dlvs]
      BY <1>4, DlvAtType DEF GrantReplyLost, DlvPcs
    <2>2. AccountType' /\ invoices' \subseteq Purchases
      BY <1>4, GrantedType DEF GrantReplyLost
    <2>3. faults' \in 0 .. MaxFaults
      BY <1>4, FaultType DEF GrantReplyLost
    <2> QED BY <1>4, <2>1, <2>2, <2>3 DEF GrantReplyLost, TypeOK, AccountType
  <1>5. CASE GrantFails(d) \/ CrashDelivery(d)
    <2>1. dlv' \in [Deliveries -> Dlvs]
      BY <1>5, DlvAtType DEF GrantFails, CrashDelivery, DlvPcs
    <2>2. faults' \in 0 .. MaxFaults
      BY <1>5, FaultType DEF GrantFails, CrashDelivery
    <2> QED BY <1>5, <2>1, <2>2 DEF GrantFails, CrashDelivery, TypeOK, account
  <1>6. CASE Redeliver(d) \/ RedeliverSlow(d)
    <2>1. dlv' \in [Deliveries -> Dlvs]
      BY <1>6, DlvAtType DEF Redeliver, RedeliverSlow, Offered, DlvPcs
    <2>2. faults' \in 0 .. MaxFaults
      BY <1>6, FaultType DEF Redeliver, RedeliverSlow, TypeOK
    <2> QED BY <1>6, <2>1, <2>2 DEF Redeliver, RedeliverSlow, Offered, TypeOK, account
  <1> QED BY <1>1, <1>2, <1>3, <1>4, <1>5, <1>6 DEF RunDelivery, BreakDelivery

LEMMA NextType == TypeOK /\ [Next]_vars => TypeOK'
  <1> SUFFICES ASSUME TypeOK, [Next]_vars PROVE TypeOK'
    OBVIOUS
  <1>1. CASE \E l \in Limits \cup {NoOverage} : SetOverage(l)
    BY <1>1 DEF SetOverage, TypeOK, account, webhook
  <1>2. CASE UNCHANGED vars
    BY <1>2 DEF vars, account, webhook, TypeOK
  <1> QED BY <1>1, <1>2, ExecutionType, AdjustmentType, DeliveryType DEF Next

(* Every variable of the ledger keeps its type, whatever overlaps or fails. *)
THEOREM TypeCorrect == Spec => []TypeOK
  BY InitType, NextType, PTL DEF Spec

--------------------------------------------------------------------------------
(* The log.  An operation in the log has passed its commit for good (Traced),  *)
(* and each commit is of an operation that has not.                           *)

Settled == {"charged", "done", "failed", "dead"}

Traced(o) ==
    \/ o \in Executions /\ exec[o].pc \in Settled
    \/ o \in Adjustments /\ adj[o].pc = "done"
    \/ o \in invoices

LedgerInv ==
    /\ BalanceIsLastRow
    /\ ExactUnlessStale
    /\ AppliedOnce
    /\ \A o \in LogOps : Traced(o)

TracedStays == \A o \in Operations : Traced(o) => Traced(o)'

LEMMA LogOpsType == TypeOK => LogOps \subseteq Operations
  <1> SUFFICES ASSUME TypeOK, NEW i \in DOMAIN log PROVE log[i].op \in Operations
    BY DEF LogOps
  <1>1. log \in Seq(Rows)
    BY DEF TypeOK
  <1>2. log[i] \in Rows
    BY <1>1
  <1> QED BY <1>2 DEF Rows

LEMMA InitLedger == Init => LedgerInv
  BY DEF Init, LedgerInv, BalanceIsLastRow, ExactUnlessStale, AppliedOnce, LogOps

LEMMA QuietStep ==
    ASSUME TypeOK, LedgerInv, UNCHANGED account, TracedStays
    PROVE  LedgerInv'
  <1>1. LogOps' = LogOps
    BY DEF LogOps, account
  <1>2. \A o \in LogOps : Traced(o)'
    BY LogOpsType DEF LedgerInv, TracedStays
  <1>3. BalanceIsLastRow' /\ ExactUnlessStale' /\ AppliedOnce'
    BY DEF LedgerInv, BalanceIsLastRow, ExactUnlessStale, AppliedOnce, account
  <1> QED BY <1>1, <1>2, <1>3 DEF LedgerInv

LEMMA CommitStep ==
    ASSUME TypeOK, LedgerInv, NEW o \in Operations, NEW before \in Int,
           Commit(o, before), ~Traced(o), Traced(o)', TracedStays
    PROVE  LedgerInv'
  <1>1. BalanceIsLastRow'
    BY CommitEffect DEF BalanceIsLastRow
  <1>2. ExactUnlessStale'
    <2>1. /\ balance' = before + Amount[o]
          /\ earned' = IF o \in Executions THEN earned ELSE earned + Amount[o]
          /\ spent' = IF o \in Executions THEN spent - Amount[o] ELSE spent
          /\ stale' = (stale \/ before # balance)
      BY DEF Commit
    <2>2. balance \in Int /\ earned \in Int /\ spent \in Int /\ Amount[o] \in Int
      BY Kinds DEF TypeOK
    <2>3. ~stale => balance = earned - spent
      BY DEF LedgerInv, ExactUnlessStale
    <2>4. ASSUME ~stale' PROVE balance' = earned' - spent'
      <3>1. ~stale /\ before = balance
        BY <2>1, <2>4
      <3> QED BY <2>1, <2>2, <2>3, <3>1
    <2> QED BY <2>4 DEF ExactUnlessStale
  <1>3. AppliedOnce'
    <2>1. \A i \in DOMAIN log : log'[i].op = log[i].op /\ log'[i].op # o
      <3>1. \A i \in DOMAIN log : log[i].op # o
        BY DEF LedgerInv, LogOps
      <3> QED BY <3>1, CommitEffect
    <2>2. DOMAIN log' = DOMAIN log \cup {Len(log) + 1} /\ log'[Len(log) + 1].op = o
      BY CommitEffect
    <2>3. \A i, j \in DOMAIN log : log[i].op = log[j].op => i = j
      BY DEF LedgerInv, AppliedOnce
    <2> QED BY <2>1, <2>2, <2>3 DEF AppliedOnce
  <1>4. \A x \in LogOps' : Traced(x)'
    <2>1. LogOps' = LogOps \cup {o}
      BY CommitEffect
    <2> QED BY <2>1, LogOpsType DEF LedgerInv, TracedStays
  <1> QED BY <1>1, <1>2, <1>3, <1>4 DEF LedgerInv

(* What happens to the marks of one execution leaves the others' alone. *)
LEMMA ExecTraced ==
    ASSUME TypeOK, NEW e \in Executions, NEW from, NEW to, ExecAt(e, from, to),
           UNCHANGED <<adj, invoices>>, from \in Settled => to \in Settled
    PROVE  /\ TracedStays
           /\ to \in Settled => Traced(e)'
           /\ from \notin Settled => ~Traced(e)
  <1>1. \A x \in Executions : exec'[x].pc = IF x = e THEN to ELSE exec[x].pc
    BY DEF ExecAt, TypeOK, Execs
  <1>2. exec[e].pc = from
    BY DEF ExecAt
  <1>3. e \notin Adjustments /\ e \notin invoices
    BY LedgerAssumption DEF TypeOK
  <1> QED BY <1>1, <1>2, <1>3 DEF TracedStays, Traced

LEMMA ExecutionLedger ==
    ASSUME TypeOK, LedgerInv, NEW e \in Executions, RunExecution(e) \/ BreakExecution(e)
    PROVE  LedgerInv'
  <1>1. CASE Check(e)
    <2>1. \A x \in Executions : exec[x].pc \in Settled => exec'[x].pc = exec[x].pc
      BY <1>1 DEF Check, TypeOK, Execs, Settled
    <2> QED BY <1>1, <2>1, QuietStep DEF Check, webhook, TracedStays, Traced
  <1>2. CASE ReadForCharge(e)
    <2>1. \A x \in Executions : exec[x].pc \in Settled => exec'[x].pc = exec[x].pc
      BY <1>2 DEF ReadForCharge, TypeOK, Execs, Settled
    <2> QED BY <1>2, <2>1, QuietStep DEF ReadForCharge, webhook, TracedStays, Traced
  <1>3. CASE Complete(e)
    <2>1. ExecAt(e, "running", "completed") /\ UNCHANGED <<account, adj, invoices>>
      BY <1>3 DEF Complete, webhook
    <2> QED BY <2>1, ExecTraced, QuietStep DEF Settled
  <1>4. CASE Charge(e) \/ ChargeReplyLost(e)
    <2>1. /\ \E to \in {"charged", "failed"} : ExecAt(e, "charging", to)
          /\ Charged(e) /\ UNCHANGED <<adj, invoices>>
      BY <1>4 DEF Charge, ChargeReplyLost, webhook
    <2>2. ~Traced(e) /\ Traced(e)' /\ TracedStays
      BY <2>1, ExecTraced DEF Settled
    <2>3. Commit(e, exec[e].seen) /\ e \in Operations /\ exec[e].seen \in Int
      BY <2>1, Kinds, SeenTypes DEF Charged
    <2> QED BY <2>2, <2>3, CommitStep
  <1>5. CASE Account(e) \/ AgentFails(e) \/ ChargeFails(e) \/ AccountFails(e)
               \/ CrashExecution(e)
    <2>1. /\ \E to \in {"done", "failed", "dead"} : ExecAt(e, exec[e].pc, to)
          /\ UNCHANGED <<account, adj, invoices>>
      BY <1>5 DEF Account, AgentFails, ChargeFails, AccountFails, CrashExecution,
                  ExecAt, webhook
    <2> QED BY <2>1, ExecTraced, QuietStep DEF Settled
  <1> QED BY <1>1, <1>2, <1>3, <1>4, <1>5 DEF RunExecution, BreakExecution

LEMMA AdjustmentLedger ==
    ASSUME TypeOK, LedgerInv, NEW a \in Adjustments, ReadForAdd(a) \/ Add(a) \/ AddFails(a)
    PROVE  LedgerInv'
  <1>1. CASE ReadForAdd(a) \/ AddFails(a)
    <2>1. \A x \in Adjustments : adj[x].pc = "done" => adj'[x].pc = "done"
      BY <1>1 DEF ReadForAdd, AddFails, TypeOK, Adjs
    <2>2. UNCHANGED <<account, exec, invoices>>
      BY <1>1 DEF ReadForAdd, AddFails, webhook
    <2> QED BY <2>1, <2>2, QuietStep DEF TracedStays, Traced
  <1>2. CASE Add(a)
    <2>1. \A x \in Adjustments : adj'[x].pc = IF x = a THEN "done" ELSE adj[x].pc
      BY <1>2 DEF Add, TypeOK, Adjs
    <2>2. Commit(a, adj[a].seen) /\ a \in Operations /\ adj[a].seen \in Int
      BY <1>2, Kinds, SeenTypes DEF Add
    <2>3. adj[a].pc = "adding" /\ UNCHANGED <<exec, invoices>>
      BY <1>2 DEF Add, webhook
    <2>4. a \notin Executions /\ a \notin invoices
      BY LedgerAssumption DEF TypeOK
    <2>5. ~Traced(a) /\ Traced(a)' /\ TracedStays
      BY <2>1, <2>3, <2>4 DEF TracedStays, Traced
    <2> QED BY <2>2, <2>5, CommitStep
  <1> QED BY <1>1, <1>2

LEMMA DeliveryLedger ==
    ASSUME TypeOK, LedgerInv, NEW d \in Deliveries, RunDelivery(d) \/ BreakDelivery(d)
    PROVE  LedgerInv'
  <1>1. CASE Grant(d) \/ GrantReplyLost(d)
    <2>1. Granted(d) /\ UNCHANGED <<exec, adj>>
      BY <1>1 DEF Grant, GrantReplyLost
    <2>2. CASE Of(d) \in invoices
      <3>1. UNCHANGED <<account, invoices>>
        BY <2>1, <2>2 DEF Granted
      <3> QED BY <2>1, <3>1, QuietStep DEF TracedStays, Traced
    <2>3. CASE Of(d) \notin invoices
      <3>1. Commit(Of(d), dlv[d].seen) /\ invoices' = invoices \cup {Of(d)}
        BY <2>1, <2>3 DEF Granted
      <3>2. Of(d) \in Operations /\ Of(d) \in Purchases /\ dlv[d].seen \in Int
        BY Kinds, SeenTypes
      <3>3. Of(d) \notin Executions /\ Of(d) \notin Adjustments
        BY <3>2, LedgerAssumption
      <3>4. ~Traced(Of(d)) /\ Traced(Of(d))' /\ TracedStays
        BY <2>1, <2>3, <3>1, <3>3 DEF TracedStays, Traced
      <3> QED BY <3>1, <3>2, <3>4, CommitStep
    <2> QED BY <2>2, <2>3
  <1>2. CASE Claim(d) \/ ReadForGrant(d) \/ Redeliver(d) \/ RedeliverSlow(d)
               \/ GrantFails(d) \/ CrashDelivery(d)
    <2>1. UNCHANGED <<account, exec, adj, invoices>>
      BY <1>2 DEF Claim, ReadForGrant, Redeliver, RedeliverSlow, Offered,
                  GrantFails, CrashDelivery
    <2> QED BY <2>1, QuietStep DEF TracedStays, Traced
  <1> QED BY <1>1, <1>2 DEF RunDelivery, BreakDelivery

LEMMA NextLedger == TypeOK /\ LedgerInv /\ [Next]_vars => LedgerInv'
  <1> SUFFICES ASSUME TypeOK, LedgerInv, [Next]_vars PROVE LedgerInv'
    OBVIOUS
  <1>1. CASE UNCHANGED vars \/ \E l \in Limits \cup {NoOverage} : SetOverage(l)
    <2>1. UNCHANGED <<account, exec, adj, invoices>>
      BY <1>1 DEF SetOverage, vars, webhook
    <2> QED BY <2>1, QuietStep DEF TracedStays, Traced
  <1> QED BY <1>1, ExecutionLedger, AdjustmentLedger, DeliveryLedger DEF Next

LEMMA LedgerInvariance == Spec => []LedgerInv
  <1>1. Init => LedgerInv
    BY InitLedger
  <1> QED BY <1>1, NextLedger, TypeCorrect, PTL DEF Spec

(* However the reads and commits of operations interleave and whatever fails, the
   last row of the log shows the balance. *)
THEOREM LogShowsBalance == Spec => []BalanceIsLastRow
  BY LedgerInvariance, PTL DEF LedgerInv

(* The balance can differ from lifetimeEarned - lifetimeSpent only after a commit
   over a balance that had changed since it was read. *)
THEOREM ExactBalance == Spec => []ExactUnlessStale
  BY LedgerInvariance, PTL DEF LedgerInv

(* No execution is charged twice and no purchase credited twice. *)
THEOREM OncePerOperation == Spec => []AppliedOnce
  BY LedgerInvariance, PTL DEF LedgerInv

--------------------------------------------------------------------------------
(* The ledger implements the account.  Whoever has read and not committed is not *)
(* in the log (Traced), so what it has read is held.                            *)

ExecMid(e) == exec[e].pc = "charging"
AdjMid(a) == adj[a].pc = "adding"
DlvMid(d) == dlv[d].pc = "granting"

Step == [Abstract!Next]_(Abstract!vars)

LEMMA SeenMembers ==
    \A o, v : v \in Seen(o) <=>
        \/ o \in Executions /\ ExecMid(o) /\ v = exec[o].seen
        \/ o \in Adjustments /\ AdjMid(o) /\ v = adj[o].seen
        \/ \E d \in Deliveries : Of(d) = o /\ DlvMid(d) /\ v = dlv[d].seen
  BY DEF Seen, ExecMid, AdjMid, DlvMid

LEMMA SeenMembersNext ==
    \A o, v : v \in Seen(o)' <=>
        \/ o \in Executions /\ exec'[o].pc = "charging" /\ v = exec'[o].seen
        \/ o \in Adjustments /\ adj'[o].pc = "adding" /\ v = adj'[o].seen
        \/ \E d \in Deliveries : Of(d) = o /\ dlv'[d].pc = "granting" /\ v = dlv'[d].seen
  BY DEF Seen

(* The attempts of o read the balance once more, or give up, or neither. *)
LEMMA HeldStep ==
    ASSUME UNCHANGED account, NEW o \in Operations,
           \A x \in Operations \ {o} : Seen(x)' = Seen(x),
           Seen(o)' \subseteq Seen(o) \/ Seen(o)' = Seen(o) \cup {balance}
    PROVE  Step
  <1>1. LogOps' = LogOps /\ balance' = balance
    BY DEF LogOps, account
  <1>2. CASE o \in LogOps
    <2>1. Held' = Held
      BY <1>1, <1>2 DEF Held
    <2> QED BY <1>1, <2>1 DEF Step, Abstract!vars
  <1>3. CASE o \notin LogOps
    <2>1. Held' = [Held EXCEPT ![o] = Seen(o)'] /\ Held[o] = Seen(o)
      BY <1>1, <1>3 DEF Held
    <2>2. CASE Seen(o)' \subseteq Seen(o)
      <3>1. Abstract!GiveUp(o)
        BY <1>1, <2>1, <2>2 DEF Abstract!GiveUp
      <3> QED BY <3>1 DEF Step, Abstract!Next
    <2>3. CASE Seen(o)' = Seen(o) \cup {balance}
      <3>1. Abstract!Read(o)
        BY <1>1, <1>3, <2>1, <2>3 DEF Abstract!Read
      <3> QED BY <3>1 DEF Step, Abstract!Next
    <2> QED BY <2>2, <2>3
  <1> QED BY <1>2, <1>3

LEMMA QuietHeld ==
    ASSUME UNCHANGED account, \A x \in Operations : Seen(x)' = Seen(x)
    PROVE  Step
  <1>1. Held' = Held /\ LogOps' = LogOps /\ balance' = balance
    BY DEF Held, LogOps, account
  <1> QED BY <1>1 DEF Step, Abstract!vars

(* An attempt of o commits on what it has read. *)
LEMMA CommitHeld ==
    ASSUME TypeOK, LedgerInv, NEW o \in Operations, NEW before \in Seen(o) \cap Int,
           Commit(o, before), ~Traced(o), \A x \in Operations \ {o} : Seen(x)' = Seen(x)
    PROVE  Step
  <1>1. o \notin LogOps
    BY DEF LedgerInv
  <1>2. LogOps' = LogOps \cup {o}
    BY CommitEffect
  <1>3. balance' = before + Amount[o]
    BY DEF Commit
  <1>4. Held' = [Held EXCEPT ![o] = {}] /\ Held[o] = Seen(o)
    BY <1>1, <1>2 DEF Held
  <1>5. Abstract!Apply(o)
    BY <1>1, <1>2, <1>3, <1>4 DEF Abstract!Apply
  <1> QED BY <1>5 DEF Step, Abstract!Next

(* One execution moves: no other has read anything else. *)
LEMMA OthersSeeExec ==
    ASSUME NEW e \in Executions, UNCHANGED <<adj, dlv>>,
           \A x \in Executions \ {e} : exec'[x] = exec[x]
    PROVE  /\ \A x \in Operations \ {e} : Seen(x)' = Seen(x)
           /\ \A v : v \in Seen(e) <=> ExecMid(e) /\ v = exec[e].seen
           /\ \A v : v \in Seen(e)' <=> ExecMid(e)' /\ v = exec'[e].seen
  <1>1. e \notin Adjustments /\ \A d \in Deliveries : Of(d) # e
    BY Kinds, LedgerAssumption
  <1>2. \A v : v \in Seen(e) <=> ExecMid(e) /\ v = exec[e].seen
    BY <1>1, SeenMembers
  <1>3. \A v : v \in Seen(e)' <=> ExecMid(e)' /\ v = exec'[e].seen
    BY <1>1, SeenMembersNext DEF ExecMid
  <1>4. ASSUME NEW x \in Operations \ {e} PROVE Seen(x)' = Seen(x)
    <2>1. ASSUME NEW v PROVE v \in Seen(x)' <=> v \in Seen(x)
      BY <1>4, SeenMembers, SeenMembersNext DEF ExecMid, AdjMid, DlvMid
    <2> QED BY <2>1
  <1> QED BY <1>2, <1>3, <1>4

LEMMA ExecutionHeld ==
    ASSUME TypeOK, LedgerInv, NEW e \in Executions, RunExecution(e) \/ BreakExecution(e)
    PROVE  Step
  <1>0. e \in Operations
    BY Kinds
  <1>1. CASE ReadForCharge(e)
    <2>1. /\ UNCHANGED <<account, adj, dlv>> /\ ~ExecMid(e) /\ exec'[e].seen = balance
          /\ ExecMid(e)' /\ \A x \in Executions \ {e} : exec'[x] = exec[x]
      BY <1>1 DEF ReadForCharge, ExecMid, TypeOK, Execs, webhook
    <2> QED BY <1>0, <2>1, OthersSeeExec, HeldStep
  <1>2. CASE Charge(e) \/ ChargeReplyLost(e)
    <2>1. PICK to \in {"charged", "failed"} :
            ExecAt(e, "charging", to) /\ Charged(e) /\ UNCHANGED <<adj, dlv, invoices>>
      BY <1>2 DEF Charge, ChargeReplyLost, webhook
    <2>2. ExecMid(e) /\ \A x \in Executions \ {e} : exec'[x] = exec[x]
      BY <2>1 DEF ExecAt, ExecMid, TypeOK
    <2>3. Commit(e, exec[e].seen) /\ exec[e].seen \in Int
      BY <2>1, SeenTypes DEF Charged
    <2>4. ~Traced(e)
      BY <2>1, ExecTraced DEF Settled
    <2>5. exec[e].seen \in Seen(e)
      BY <2>1, <2>2, OthersSeeExec
    <2> QED BY <1>0, <2>1, <2>2, <2>3, <2>4, <2>5, OthersSeeExec, CommitHeld
  <1>3. CASE Check(e)
    <2>1. /\ UNCHANGED <<account, adj, dlv>> /\ ~ExecMid(e)'
          /\ \A x \in Executions \ {e} : exec'[x] = exec[x]
      BY <1>3 DEF Check, ExecMid, TypeOK, Execs, webhook
    <2> QED BY <1>0, <2>1, OthersSeeExec, HeldStep
  <1>4. CASE Complete(e) \/ Account(e) \/ AgentFails(e) \/ ChargeFails(e)
               \/ AccountFails(e) \/ CrashExecution(e)
    <2>1. PICK to \in {"completed", "done", "failed", "dead"} :
            ExecAt(e, exec[e].pc, to) /\ UNCHANGED <<account, adj, dlv>>
      BY <1>4 DEF Complete, Account, AgentFails, ChargeFails, AccountFails,
                  CrashExecution, ExecAt, webhook
    <2>2. ~ExecMid(e)' /\ \A x \in Executions \ {e} : exec'[x] = exec[x]
      BY <2>1 DEF ExecAt, ExecMid, TypeOK, Execs
    <2> QED BY <1>0, <2>1, <2>2, OthersSeeExec, HeldStep
  <1> QED BY <1>1, <1>2, <1>3, <1>4 DEF RunExecution, BreakExecution

LEMMA AdjustmentHeld ==
    ASSUME TypeOK, LedgerInv,
           NEW a \in Adjustments, ReadForAdd(a) \/ Add(a) \/ AddFails(a)
    PROVE  Step
  <1>0. /\ a \in Operations /\ a \notin Executions /\ \A d \in Deliveries : Of(d) # a
        /\ adj[a].seen \in Int
    BY Kinds, LedgerAssumption, SeenTypes
  <1>1. UNCHANGED <<exec, dlv>> /\ \A x \in Adjustments \ {a} : adj'[x] = adj[x]
    BY DEF ReadForAdd, Add, AddFails, TypeOK, webhook
  <1>2. /\ \A x \in Operations \ {a} : Seen(x)' = Seen(x)
        /\ \A v : v \in Seen(a) <=> AdjMid(a) /\ v = adj[a].seen
        /\ \A v : v \in Seen(a)' <=> AdjMid(a)' /\ v = adj'[a].seen
    <2>1. \A v : v \in Seen(a) <=> AdjMid(a) /\ v = adj[a].seen
      BY <1>0, SeenMembers
    <2>2. \A v : v \in Seen(a)' <=> AdjMid(a)' /\ v = adj'[a].seen
      BY <1>0, SeenMembersNext DEF AdjMid
    <2>3. ASSUME NEW x \in Operations \ {a} PROVE Seen(x)' = Seen(x)
      <3>1. ASSUME NEW v PROVE v \in Seen(x)' <=> v \in Seen(x)
        BY <1>1, SeenMembers, SeenMembersNext DEF ExecMid, AdjMid, DlvMid
      <3> QED BY <3>1
    <2> QED BY <2>1, <2>2, <2>3
  <1>3. CASE ReadForAdd(a)
    <2>1. UNCHANGED account /\ ~AdjMid(a) /\ AdjMid(a)' /\ adj'[a].seen = balance
      BY <1>3 DEF ReadForAdd, AdjMid, TypeOK, Adjs
    <2> QED BY <1>0, <1>2, <2>1, HeldStep
  <1>4. CASE Add(a)
    <2>1. AdjMid(a) /\ Commit(a, adj[a].seen)
      BY <1>4 DEF Add, AdjMid
    <2>2. ~Traced(a)
      BY <1>4, LedgerAssumption DEF Add, Traced, TypeOK
    <2>3. adj[a].seen \in Seen(a)
      BY <1>2, <2>1
    <2> QED BY <1>0, <1>2, <2>1, <2>2, <2>3, CommitHeld
  <1>5. CASE AddFails(a)
    <2>1. UNCHANGED account /\ ~AdjMid(a)'
      BY <1>5 DEF AddFails, AdjMid, TypeOK, Adjs
    <2> QED BY <1>0, <1>2, <2>1, HeldStep
  <1> QED BY <1>3, <1>4, <1>5

(* One delivery moves: of the operations only its own may hold something else. *)
LEMMA OthersSeeDlv ==
    ASSUME NEW d \in Deliveries, UNCHANGED <<exec, adj>>,
           \A x \in Deliveries \ {d} : dlv'[x] = dlv[x]
    PROVE  /\ Of(d) \in Operations
           /\ \A x \in Operations \ {Of(d)} : Seen(x)' = Seen(x)
           /\ ~DlvMid(d)' => Seen(Of(d))' \subseteq Seen(Of(d))
           /\ ~DlvMid(d) /\ DlvMid(d)' /\ dlv'[d].seen = balance
                => Seen(Of(d))' = Seen(Of(d)) \cup {balance}
  <1>1. Of(d) \in Operations
    BY Kinds
  <1>2. ASSUME NEW x \in Operations \ {Of(d)} PROVE Seen(x)' = Seen(x)
    <2>1. \A y \in Deliveries : Of(y) = x => dlv'[y] = dlv[y]
      OBVIOUS
    <2>2. ASSUME NEW v PROVE v \in Seen(x)' <=> v \in Seen(x)
      BY <2>1, SeenMembers, SeenMembersNext DEF ExecMid, AdjMid, DlvMid
    <2> QED BY <2>2
  <1>3. ASSUME ~DlvMid(d)' PROVE Seen(Of(d))' \subseteq Seen(Of(d))
    BY <1>3, SeenMembers, SeenMembersNext DEF ExecMid, AdjMid, DlvMid
  <1>4. ASSUME ~DlvMid(d), DlvMid(d)', dlv'[d].seen = balance
        PROVE  Seen(Of(d))' = Seen(Of(d)) \cup {balance}
    <2>1. ASSUME NEW v \in Seen(Of(d))' PROVE v \in Seen(Of(d)) \cup {balance}
      BY <1>4, <2>1, SeenMembers, SeenMembersNext DEF ExecMid, AdjMid, DlvMid
    <2>2. ASSUME NEW v \in Seen(Of(d)) PROVE v \in Seen(Of(d))'
      BY <1>4, <2>2, SeenMembers, SeenMembersNext DEF ExecMid, AdjMid, DlvMid
    <2>3. balance \in Seen(Of(d))'
      BY <1>4, SeenMembersNext DEF DlvMid
    <2> QED BY <2>1, <2>2, <2>3
  <1> QED BY <1>1, <1>2, <1>3, <1>4

LEMMA DlvAtHeld ==
    ASSUME TypeOK, NEW d \in Deliveries, NEW from, NEW to, to # "granting",
           DlvAt(d, from, to), UNCHANGED <<account, exec, adj>>
    PROVE  Step
  <1>1. ~DlvMid(d)' /\ \A x \in Deliveries \ {d} : dlv'[x] = dlv[x]
    BY DEF DlvAt, DlvMid, TypeOK, Dlvs
  <1> QED BY <1>1, OthersSeeDlv, HeldStep

LEMMA DeliveryHeld ==
    ASSUME TypeOK, LedgerInv, NEW d \in Deliveries, RunDelivery(d) \/ BreakDelivery(d)
    PROVE  Step
  <1>1. CASE ReadForGrant(d)
    <2>1. /\ UNCHANGED <<account, exec, adj>> /\ ~DlvMid(d) /\ DlvMid(d)'
          /\ dlv'[d].seen = balance /\ \A x \in Deliveries \ {d} : dlv'[x] = dlv[x]
      BY <1>1 DEF ReadForGrant, DlvMid, TypeOK, Dlvs
    <2> QED BY <2>1, OthersSeeDlv, HeldStep
  <1>2. CASE Grant(d) \/ GrantReplyLost(d)
    <2>1. PICK to \in {"acked", "failed"} :
            DlvAt(d, "granting", to) /\ Granted(d) /\ UNCHANGED <<exec, adj>>
      BY <1>2 DEF Grant, GrantReplyLost
    <2>2. CASE Of(d) \in invoices
      <3>1. UNCHANGED account
        BY <2>1, <2>2 DEF Granted
      <3> QED BY <2>1, <3>1, DlvAtHeld
    <2>3. CASE Of(d) \notin invoices
      <3>1. DlvMid(d) /\ \A x \in Deliveries \ {d} : dlv'[x] = dlv[x]
        BY <2>1 DEF DlvAt, DlvMid, TypeOK
      <3>2. Commit(Of(d), dlv[d].seen) /\ Of(d) \in Purchases /\ dlv[d].seen \in Int
        BY <2>1, <2>3, Kinds, SeenTypes DEF Granted
      <3>3. ~Traced(Of(d))
        BY <2>3, <3>2, LedgerAssumption DEF Traced
      <3>4. dlv[d].seen \in Seen(Of(d))
        BY <3>1, SeenMembers
      <3> QED BY <2>1, <3>1, <3>2, <3>3, <3>4, OthersSeeDlv, CommitHeld
    <2> QED BY <2>2, <2>3
  <1>3. CASE Claim(d)
    <2>1. PICK to \in {"acked", "claimed"} :
            DlvAt(d, "offered", to) /\ UNCHANGED <<account, exec, adj>>
      BY <1>3 DEF Claim
    <2> QED BY <2>1, DlvAtHeld
  <1>4. CASE GrantFails(d) \/ CrashDelivery(d)
    <2>1. PICK to \in {"failed", "dead"} :
            DlvAt(d, dlv[d].pc, to) /\ UNCHANGED <<account, exec, adj>>
      BY <1>4 DEF GrantFails, CrashDelivery
    <2> QED BY <2>1, DlvAtHeld
  <1>5. CASE Redeliver(d) \/ RedeliverSlow(d)
    <2>1. /\ NextDelivery(d) \in Deliveries
          /\ DlvAt(NextDelivery(d), "none", "offered") /\ UNCHANGED <<account, exec, adj>>
      BY <1>5 DEF Redeliver, RedeliverSlow, Offered
    <2> QED BY <2>1, DlvAtHeld
  <1> QED BY <1>1, <1>2, <1>3, <1>4, <1>5 DEF RunDelivery, BreakDelivery

LEMMA NextHeld == TypeOK /\ LedgerInv /\ [Next]_vars => Step
  <1> SUFFICES ASSUME TypeOK, LedgerInv, [Next]_vars PROVE Step
    OBVIOUS
  <1>1. CASE UNCHANGED vars \/ \E l \in Limits \cup {NoOverage} : SetOverage(l)
    <2>1. UNCHANGED <<account, exec, adj, dlv>>
      BY <1>1 DEF SetOverage, vars, webhook
    <2> QED BY <2>1, QuietHeld DEF Seen
  <1> QED BY <1>1, ExecutionHeld, AdjustmentHeld, DeliveryHeld DEF Next

(* However operations overlap, fail and are repeated, the ledger implements the account:
   each step applies one operation once, to a balance it has read, or nothing. *)
THEOREM LedgerImplementsAccount == Spec => ImplementsAccount
  <1>1. Init => Abstract!Init
    <2> SUFFICES ASSUME Init PROVE Held = [o \in Operations |-> {}] /\ LogOps = {}
      BY DEF Init, Abstract!Init
    <2>1. \A e \in Executions : ~ExecMid(e)
      BY DEF Init, ExecMid
    <2>2. \A a \in Adjustments : ~AdjMid(a)
      BY DEF Init, AdjMid
    <2>3. \A d \in Deliveries : ~DlvMid(d)
      BY DEF Init, DlvMid
    <2>4. \A o : Seen(o) = {}
      BY <2>1, <2>2, <2>3, SeenMembers
    <2> QED BY <2>4 DEF Held, Init, LogOps
  <1> QED
    BY <1>1, NextHeld, TypeCorrect, LedgerInvariance, PTL
       DEF Spec, Step, ImplementsAccount, Abstract!Spec

--------------------------------------------------------------------------------
(* An execution alone on the ledger.                                          *)

Running(e) == exec[e].pc \in {"running", "completed", "charging"}

(* What the check found still holds, and what the charge read is the balance. *)
Within(e) ==
    /\ balance + Amount[e] >= exec[e].floor
    /\ exec[e].pc = "charging" => exec[e].seen = balance

(* An execution that nobody crowded so far is the only open operation. *)
Alone == \A e \in Executions \ crowded : Running(e) => Open = {e} /\ Within(e)

AloneInv == Alone /\ AloneWithinLimit

LEMMA OpenMembers ==
    \A o : o \in Open <=> \/ o \in Executions /\ Running(o)
                          \/ o \in Adjustments /\ AdjMid(o)
                          \/ \E d \in Deliveries : Of(d) = o /\ DlvMid(d)
  BY DEF Open, Midway, Running, AdjMid, DlvMid

(* A row of the log is of an operation that is over, so its floor stays. *)
SameFloors == \A x \in Executions : Traced(x) => exec'[x].floor = exec[x].floor

(* Nobody starts to run, and a charge that starts reads the balance. *)
RunsOn == \A x \in Executions : Running(x)' =>
    /\ Running(x) /\ exec'[x].floor = exec[x].floor
    /\ exec'[x].pc = "charging" =>
            exec'[x].seen = IF exec[x].pc = "charging" THEN exec[x].seen ELSE balance

LEMMA LimitKept ==
    ASSUME TypeOK, LedgerInv, AloneWithinLimit, log' = log, SameFloors, crowded \subseteq crowded'
    PROVE  AloneWithinLimit'
  <1>1. \A i \in DOMAIN log : Traced(log[i].op)
    BY DEF LedgerInv, LogOps
  <1> QED BY <1>1 DEF AloneWithinLimit, SameFloors

(* A step that opens nothing and leaves the account alone. *)
LEMMA AloneFrame ==
    ASSUME TypeOK, LedgerInv, AloneInv, UNCHANGED account, crowded' = crowded,
           Open' \subseteq Open, SameFloors, RunsOn
    PROVE  AloneInv'
  <1>1. AloneWithinLimit'
    BY LimitKept DEF AloneInv, account
  <1>2. ASSUME NEW e \in Executions \ crowded, Running(e)' PROVE Open' = {e} /\ Within(e)'
    <2>1. Open = {e} /\ Within(e)
      BY <1>2 DEF AloneInv, Alone, RunsOn
    <2>2. e \in Open'
      <3>1. exec'[e].pc \in {"running", "completed", "charging"}
        BY <1>2 DEF Running
      <3> QED BY <3>1 DEF Open, Midway
    <2>3. Within(e)'
      BY <1>2, <2>1 DEF Within, RunsOn, account
    <2> QED BY <2>1, <2>2, <2>3
  <1> QED BY <1>1, <1>2 DEF AloneInv, Alone

(* Operation o enters: alone, or with everyone who is there crowded. *)
LEMMA AloneOpens ==
    ASSUME TypeOK, LedgerInv, AloneInv, UNCHANGED account, NEW o, Opens(o),
           Open' \subseteq Open \cup {o}, SameFloors,
           o \in Executions => Running(o)' /\ Within(o)'
    PROVE  AloneInv'
  <1>0. crowded \subseteq crowded'
    BY DEF Opens
  <1>1. AloneWithinLimit'
    BY <1>0, LimitKept DEF AloneInv, account
  <1>2. ASSUME NEW e \in Executions \ crowded', Running(e)' PROVE Open' = {e} /\ Within(e)'
    <2>1. e \in Open'
      <3>1. exec'[e].pc \in {"running", "completed", "charging"}
        BY <1>2 DEF Running
      <3> QED BY <3>1 DEF Open, Midway
    <2>2. Open = {}
      BY <1>2, <2>1 DEF Opens
    <2> QED BY <1>2, <2>1, <2>2
  <1> QED BY <1>1, <1>2 DEF AloneInv, Alone

(* Operation o commits and is over. *)
LEMMA AloneCommits ==
    ASSUME TypeOK, LedgerInv, AloneInv, NEW o \in Operations, NEW before \in Int,
           Commit(o, before), o \in Open, crowded' = crowded, SameFloors, RunsOn,
           o \in Executions => ~Running(o)' /\ exec[o].pc = "charging"
                               /\ exec[o].seen = before
                               /\ exec'[o].floor = exec[o].floor
    PROVE  AloneInv'
  <1>1. ASSUME NEW e \in Executions \ crowded, Running(e)' PROVE FALSE
    <2>1. Open = {e}
      BY <1>1 DEF AloneInv, Alone, RunsOn
    <2> QED BY <1>1, <2>1
  <1>2. /\ DOMAIN log' = DOMAIN log \cup {Len(log) + 1}
        /\ \A i \in DOMAIN log : log'[i] = log[i]
        /\ log'[Len(log) + 1].op = o /\ log'[Len(log) + 1].after = before + Amount[o]
    <2> DEFINE row == [op |-> o, before |-> before, after |-> before + Amount[o]]
    <2>1. log' = Append(log, row) /\ row.op = o /\ row.after = before + Amount[o]
      BY DEF Commit
    <2>2. row \in Rows /\ log \in Seq(Rows)
      BY Kinds DEF Rows, TypeOK
    <2> HIDE DEF row
    <2> QED BY <2>1, <2>2, AppendFacts
  <1>3. \A i \in DOMAIN log : Traced(log[i].op)
    BY DEF LedgerInv, LogOps
  <1>4. ASSUME o \in Executions \ crowded PROVE before + Amount[o] >= exec'[o].floor
    <2>1. Running(o)
      BY <1>4 DEF Running
    <2> QED BY <1>4, <2>1 DEF AloneInv, Alone, Within
  <1>5. AloneWithinLimit'
    <2> SUFFICES ASSUME NEW i \in DOMAIN log', log'[i].op \in Executions \ crowded'
                 PROVE  log'[i].after >= exec'[log'[i].op].floor
      BY DEF AloneWithinLimit
    <2>1. CASE i \in DOMAIN log
      BY <1>2, <1>3, <2>1 DEF AloneInv, AloneWithinLimit, SameFloors
    <2>2. CASE i = Len(log) + 1
      BY <1>2, <1>4, <2>2
    <2> QED BY <1>2, <2>1, <2>2
  <1> QED BY <1>1, <1>5 DEF AloneInv, Alone

(* One execution moves: the other records stay. *)
LEMMA ExecMoves ==
    ASSUME TypeOK, NEW e \in Executions, NEW from, NEW to, ExecAt(e, from, to)
    PROVE  /\ exec[e].pc = from /\ exec'[e].pc = to
           /\ exec'[e].floor = exec[e].floor /\ exec'[e].seen = exec[e].seen
           /\ \A x \in Executions \ {e} : exec'[x] = exec[x]
  BY DEF ExecAt, TypeOK, Execs

LEMMA DlvMoves ==
    ASSUME TypeOK, NEW d \in Deliveries, NEW from, NEW to, DlvAt(d, from, to)
    PROVE  /\ dlv[d].pc = from /\ dlv'[d].pc = to
           /\ \A x \in Deliveries \ {d} : dlv'[x] = dlv[x]
  BY DEF DlvAt, TypeOK, Dlvs

LEMMA ExecutionAlone ==
    ASSUME TypeOK, TypeOK', LedgerInv, AloneInv, NEW e \in Executions,
           RunExecution(e) \/ BreakExecution(e)
    PROVE  AloneInv'
  <1> USE OpenMembers DEF AdjMid, DlvMid
  <1>0. /\ exec \in [Executions -> Execs] /\ exec[e] \in Execs /\ e \in Operations
        /\ balance \in Int /\ Amount[e] \in Int /\ e \notin Adjustments /\ e \notin invoices
    BY Kinds, LedgerAssumption DEF TypeOK
  <1>1. CASE Check(e)
    <2>1. UNCHANGED <<account, adj, dlv, invoices>> /\ exec[e].pc = "idle"
      BY <1>1 DEF Check, webhook
    <2>2. CASE crowded' = crowded /\ exec' = [exec EXCEPT ![e] = [@ EXCEPT !.pc = "denied"]]
      <3>1. exec'[e].pc = "denied" /\ \A x \in Executions \ {e} : exec'[x] = exec[x]
        BY <1>0, <2>2 DEF Execs
      <3>2. SameFloors /\ RunsOn
        BY <1>0, <2>1, <3>1 DEF SameFloors, RunsOn, Running, Traced, Settled
      <3>3. Open' \subseteq Open
        BY <2>1, <3>1 DEF Running, Open, Midway
      <3> QED BY <2>1, <2>2, <3>2, <3>3, AloneFrame
    <2>3. ASSUME NEW floor, exec' = [exec EXCEPT ![e] = [@ EXCEPT !.pc = "running", !.floor = floor]],
                 Opens(e), balance + Amount[e] >= floor
          PROVE  AloneInv'
      <3>1. /\ exec'[e].pc = "running" /\ exec'[e].floor = floor
            /\ \A x \in Executions \ {e} : exec'[x] = exec[x]
        BY <1>0, <2>3 DEF Execs
      <3>2. Running(e)' /\ Within(e)'
        BY <2>1, <2>3, <3>1 DEF Running, Within, account
      <3>3. Open' \subseteq Open \cup {e}
        BY <2>1, <3>1 DEF Running, Open, Midway
      <3>4. UNCHANGED account /\ log' = log
        BY <2>1 DEF account
      <3>5. SameFloors
        BY <1>0, <2>1, <3>1 DEF SameFloors, Traced, Settled
      <3> QED BY <2>3, <3>2, <3>3, <3>4, <3>5, AloneOpens
    <2>4. \/ crowded' = crowded /\ exec' = [exec EXCEPT ![e] = [@ EXCEPT !.pc = "denied"]]
          \/ \E floor \in Int :
                /\ exec' = [exec EXCEPT ![e] = [@ EXCEPT !.pc = "running", !.floor = floor]]
                /\ Opens(e) /\ balance + Amount[e] >= floor
      <3>1. overage \in Int
        BY LedgerAssumption DEF TypeOK, NoOverage
      <3> DEFINE left == balance + Amount[e]
                 floor == IF left >= 0 THEN 0 ELSE -overage
      <3>2. PICK subscribed \in BOOLEAN :
              IF subscribed /\ (left >= 0 \/ (overage # NoOverage /\ -left <= overage))
              THEN /\ exec' = [exec EXCEPT ![e] = [@ EXCEPT !.pc = "running", !.floor = floor]]
                   /\ Opens(e)
              ELSE /\ exec' = [exec EXCEPT ![e] = [@ EXCEPT !.pc = "denied"]]
                   /\ UNCHANGED crowded
        BY <1>1 DEF Check
      <3>3. left \in Int /\ floor \in Int
        BY <1>0, <3>1
      <3>4. left >= 0 \/ -left <= overage => left >= floor
        BY <3>1, <3>3
      <3> HIDE DEF floor
      <3> QED BY <3>2, <3>3, <3>4
    <2> QED BY <2>2, <2>3, <2>4
  <1>2. CASE ReadForCharge(e)
    <2>1. /\ UNCHANGED <<account, adj, dlv, invoices, crowded>> /\ exec[e].pc = "completed"
          /\ exec' = [exec EXCEPT ![e] = [@ EXCEPT !.pc = "charging", !.seen = balance]]
      BY <1>2 DEF ReadForCharge, webhook
    <2>2. /\ exec'[e].pc = "charging" /\ exec'[e].floor = exec[e].floor
          /\ exec'[e].seen = balance
          /\ \A x \in Executions \ {e} : exec'[x] = exec[x]
      BY <1>0, <2>1 DEF Execs
    <2>3. SameFloors /\ RunsOn
      BY <2>1, <2>2 DEF SameFloors, RunsOn, Running
    <2>4. Open' \subseteq Open
      BY <2>1, <2>2 DEF Running, Open, Midway
    <2> QED BY <2>1, <2>3, <2>4, AloneFrame
  <1>3. CASE Charge(e) \/ ChargeReplyLost(e)
    <2>1. PICK to \in {"charged", "failed"} :
            /\ ExecAt(e, "charging", to) /\ Charged(e)
            /\ UNCHANGED <<adj, dlv, invoices, crowded>>
      BY <1>3 DEF Charge, ChargeReplyLost, webhook
    <2>2. SameFloors /\ RunsOn /\ ~Running(e)' /\ exec'[e].floor = exec[e].floor
      BY <2>1, ExecMoves DEF SameFloors, RunsOn, Running
    <2>3. exec[e].pc = "charging" /\ e \in Open
      BY <2>1, ExecMoves DEF Running
    <2>4. Commit(e, exec[e].seen) /\ exec[e].seen \in Int
      BY <2>1, SeenTypes DEF Charged
    <2> QED BY <1>0, <2>1, <2>2, <2>3, <2>4, AloneCommits
  <1>4. CASE \/ Complete(e) \/ Account(e) \/ AgentFails(e) \/ ChargeFails(e)
             \/ AccountFails(e) \/ CrashExecution(e)
    <2>1. PICK to \in {"completed", "done", "failed", "dead"} :
            /\ ExecAt(e, exec[e].pc, to) /\ (to = "completed" => exec[e].pc = "running")
            /\ UNCHANGED <<account, adj, dlv, invoices, crowded>>
      BY <1>4 DEF Complete, Account, AgentFails, ChargeFails, AccountFails, CrashExecution,
                  ExecAt, webhook
    <2>2. SameFloors /\ RunsOn
      BY <2>1, ExecMoves DEF SameFloors, RunsOn, Running
    <2>3. Open' \subseteq Open
      BY <2>1, ExecMoves DEF Running, Open, Midway
    <2> QED BY <2>1, <2>2, <2>3, AloneFrame
  <1> QED BY <1>1, <1>2, <1>3, <1>4 DEF RunExecution, BreakExecution

(* The executions stand still. *)
LEMMA ExecsStill == ASSUME exec' = exec PROVE SameFloors /\ RunsOn
  BY DEF SameFloors, RunsOn, Running

LEMMA AdjustmentAlone ==
    ASSUME TypeOK, LedgerInv, AloneInv, NEW a \in Adjustments,
           ReadForAdd(a) \/ Add(a) \/ AddFails(a)
    PROVE  AloneInv'
  <1>0. adj \in [Adjustments -> Adjs] /\ adj[a] \in Adjs /\ a \in Operations /\ a \notin Executions
    BY Kinds, LedgerAssumption DEF TypeOK
  <1>1. CASE ReadForAdd(a)
    <2>1. UNCHANGED <<account, exec, dlv>> /\ Opens(a)
      BY <1>1 DEF ReadForAdd, webhook
    <2>2. \A x \in Adjustments \ {a} : adj'[x] = adj[x]
      BY <1>0, <1>1 DEF ReadForAdd
    <2>3. Open' \subseteq Open \cup {a}
      BY <2>1, <2>2 DEF Open, Midway
    <2> QED BY <1>0, <2>1, <2>3, ExecsStill, AloneOpens
  <1>2. CASE Add(a)
    <2>1. /\ Commit(a, adj[a].seen) /\ adj[a].seen \in Int /\ crowded' = crowded
          /\ exec' = exec /\ adj[a].pc = "adding"
      BY <1>2, SeenTypes DEF Add
    <2>2. a \in Open
      BY <2>1 DEF Open, Midway
    <2> QED BY <1>0, <2>1, <2>2, ExecsStill, AloneCommits
  <1>3. CASE AddFails(a)
    <2>1. UNCHANGED <<account, exec, dlv, crowded>>
      BY <1>3 DEF AddFails, webhook
    <2>2. adj'[a].pc = "failed" /\ \A x \in Adjustments \ {a} : adj'[x] = adj[x]
      BY <1>0, <1>3 DEF AddFails, Adjs
    <2>3. Open' \subseteq Open
      BY <2>1, <2>2 DEF Open, Midway
    <2> QED BY <2>1, <2>3, ExecsStill, AloneFrame
  <1> QED BY <1>1, <1>2, <1>3

LEMMA DeliveryAlone ==
    ASSUME TypeOK, LedgerInv, AloneInv, NEW d \in Deliveries, RunDelivery(d) \/ BreakDelivery(d)
    PROVE  AloneInv'
  <1>0. /\ dlv \in [Deliveries -> Dlvs] /\ dlv[d] \in Dlvs /\ Of(d) \in Operations
        /\ Of(d) \notin Executions
    BY Kinds, LedgerAssumption DEF TypeOK
  <1>1. CASE ReadForGrant(d)
    <2>1. UNCHANGED <<account, exec, adj>> /\ Opens(Of(d))
      BY <1>1 DEF ReadForGrant
    <2>2. \A x \in Deliveries \ {d} : dlv'[x] = dlv[x]
      BY <1>0, <1>1 DEF ReadForGrant
    <2>3. Open' \subseteq Open \cup {Of(d)}
      BY <2>1, <2>2 DEF Open, Midway
    <2> QED BY <1>0, <2>1, <2>3, ExecsStill, AloneOpens
  <1>2. CASE (Grant(d) \/ GrantReplyLost(d)) /\ Of(d) \notin invoices
    <2>1. /\ Commit(Of(d), dlv[d].seen) /\ dlv[d].seen \in Int /\ crowded' = crowded
          /\ exec' = exec
      BY <1>2, SeenTypes DEF Grant, GrantReplyLost, Granted
    <2>2. dlv[d].pc = "granting"
      BY <1>2 DEF Grant, GrantReplyLost, DlvAt
    <2>3. Of(d) \in Open
      BY <2>2 DEF Open, Midway
    <2> QED BY <1>0, <2>1, <2>3, ExecsStill, AloneCommits
  <1>3. CASE (Grant(d) \/ GrantReplyLost(d)) /\ Of(d) \in invoices
    <2>1. UNCHANGED <<account, exec, adj, crowded>>
      BY <1>3 DEF Grant, GrantReplyLost, Granted
    <2>2. PICK to \in {"acked", "failed"} : DlvAt(d, "granting", to)
      BY <1>3 DEF Grant, GrantReplyLost
    <2>3. Open' \subseteq Open
      BY <2>1, <2>2, DlvMoves DEF Open, Midway
    <2> QED BY <2>1, <2>3, ExecsStill, AloneFrame
  <1>4. CASE Claim(d) \/ GrantFails(d) \/ CrashDelivery(d)
    <2>1. UNCHANGED <<account, exec, adj, crowded>>
      BY <1>4 DEF Claim, GrantFails, CrashDelivery
    <2>2. PICK to \in {"acked", "claimed", "failed", "dead"} : DlvAt(d, dlv[d].pc, to)
      BY <1>4 DEF Claim, GrantFails, CrashDelivery, DlvAt
    <2>3. Open' \subseteq Open
      BY <2>1, <2>2, DlvMoves DEF Open, Midway
    <2> QED BY <2>1, <2>3, ExecsStill, AloneFrame
  <1>5. CASE Redeliver(d) \/ RedeliverSlow(d)
    <2>1. /\ UNCHANGED <<account, exec, adj, crowded>> /\ NextDelivery(d) \in Deliveries
          /\ DlvAt(NextDelivery(d), "none", "offered")
      BY <1>5 DEF Redeliver, RedeliverSlow, Offered
    <2>2. Open' \subseteq Open
      BY <2>1, DlvMoves DEF Open, Midway
    <2> QED BY <2>1, <2>2, ExecsStill, AloneFrame
  <1> QED BY <1>1, <1>2, <1>3, <1>4, <1>5 DEF RunDelivery, BreakDelivery

LEMMA NextAlone == TypeOK /\ LedgerInv /\ AloneInv /\ [Next]_vars => AloneInv'
  <1> SUFFICES ASSUME TypeOK, LedgerInv, AloneInv, [Next]_vars PROVE AloneInv'
    OBVIOUS
  <1>1. CASE UNCHANGED vars \/ \E l \in Limits \cup {NoOverage} : SetOverage(l)
    <2>1. UNCHANGED <<account, exec, adj, dlv, crowded>>
      BY <1>1 DEF SetOverage, vars, webhook
    <2>2. Open' \subseteq Open
      BY <2>1 DEF Open, Midway
    <2> QED BY <2>1, <2>2, ExecsStill, AloneFrame
  <1>2. TypeOK'
    BY NextType
  <1> QED BY <1>1, <1>2, ExecutionAlone, AdjustmentAlone, DeliveryAlone DEF Next

(* An execution during which no other operation was open leaves, when its charge
   commits, at least the balance its check allowed, whatever fails around it and
   whatever becomes of the overage limit meanwhile: nothing else can have changed the
   balance, so what the check computed is what the charge writes. *)
THEOREM ChargedWithinLimit == Spec => []AloneWithinLimit
  <1>1. Init => AloneInv
    BY DEF Init, AloneInv, Alone, AloneWithinLimit, Running
  <1>2. TypeOK /\ LedgerInv /\ AloneInv /\ [Next]_vars => AloneInv'
    BY NextAlone
  <1>3. AloneInv => AloneWithinLimit
    BY DEF AloneInv
  <1> QED BY <1>1, <1>2, <1>3, TypeCorrect, LedgerInvariance, PTL DEF Spec
================================================================================
