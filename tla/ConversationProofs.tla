--------------------------- MODULE ConversationProofs ---------------------------
(*****************************************************************************)
(* What holds for any number of conversations, turns, echoes and failures:     *)
(* first of who talks in a conversation (Conversation), then of its running    *)
(* summary (Compaction), for any sizes of windows and batches.                 *)
(*****************************************************************************)
EXTENDS Conversation, Compaction, FiniteSetTheorems, WellFoundedInduction, TLAPS

--------------------------------------------------------------------------------
(* Conversations. *)

TurnPcs == {"idle", "creating", "ready", "asking", "answered", "saved", "persisted",
            "replying", "sent", "acting", "flagging", "over"}
EchoPcs == {"idle", "seeking", "creating", "recording", "marking", "taking", "failed", "done"}
TurnStates == [pc : TurnPcs, own : Convs \cup {None}, copy : SUBSET Entries, human : BOOLEAN,
               heard : SUBSET Convs, shut : BOOLEAN]
EchoStates == [pc : EchoPcs, own : Convs \cup {None}, copy : SUBSET Entries, human : BOOLEAN]

OwningPcs == TurnPcs \ {"idle", "creating", "over"}
EchoOwningPcs == {"recording", "marking", "taking", "done"}

(* Rows are numbered in the order of their creation, *)
Counted ==
    /\ IsFiniteSet(Made)
    /\ \A c \in Made : conv[c].made <= Cardinality(Made)

(* and whoever works on a conversation works on one there is. *)
Owned ==
    /\ \A t \in Turns : turn[t].pc \in OwningPcs => turn[t].own \in Made
    /\ \A e \in Echoes : echo[e].pc \in EchoOwningPcs => echo[e].own \in Made

RowsInv == TypeOK /\ Counted /\ Owned

LEMMA Types ==
    ASSUME TypeOK
    PROVE  /\ conv \in [Convs -> Rows] /\ turn \in [Turns -> TurnStates]
           /\ echo \in [Echoes -> EchoStates]
           /\ acted \in [Convs -> Nat] /\ unnoted \in [Convs -> Nat]
           /\ \A c \in Convs : conv[c] \in Rows
           /\ \A t \in Turns : turn[t] \in TurnStates
           /\ \A e \in Echoes : echo[e] \in EchoStates
           /\ None \notin Convs
  BY ConversationAssumption DEF TypeOK, TurnStates, EchoStates, TurnPcs, EchoPcs

(* The latest of the active conversations is one of them. *)
LEMMA FoundActive ==
    ASSUME TypeOK, Counted, Active # {}
    PROVE  Found \in Active /\ Found # None
  <1> DEFINE N == Cardinality(Made)
             Gaps == {n \in Nat : \E c \in Active : n + conv[c].made = N}
  <1>1. N \in Nat
    BY FS_CardinalityType DEF Counted
  <1>2. \A c \in Active : conv[c].made \in Nat /\ conv[c].made <= N
    BY Types DEF Active, Made, Counted, Rows
  <1> HIDE DEF N
  <1>3. \A c \in Active : N - conv[c].made \in Gaps
    BY <1>1, <1>2
  <1>4. Gaps \subseteq Nat /\ Gaps # {}
    BY <1>3
  <1>5. PICK n \in Gaps : \A m \in Gaps : ~ (<<m, n>> \in OpToRel(<, Nat))
    BY <1>4, WFMin, NatLessThanWellFounded
  <1>6. \A m \in Gaps : ~ (m < n)
    BY <1>4, <1>5 DEF OpToRel
  <1>7. PICK c \in Active : n + conv[c].made = N
    BY <1>5
  <1>8. \A d \in Active : conv[d].made <= conv[c].made
    BY <1>1, <1>2, <1>3, <1>4, <1>6, <1>7
  <1>9. Found \in Active
    BY <1>8 DEF Found
  <1> QED BY <1>9, Types DEF Active, Made

LEMMA FoundMade ==
    ASSUME TypeOK, Counted, Found # None
    PROVE  Found \in Active /\ Found \in Made /\ Found \in Convs
  <1>1. Active # {}
    BY DEF Found
  <1> QED BY <1>1, FoundActive DEF Active, Made

LEMMA FoundNone ==
    ASSUME TypeOK, Counted, Found = None
    PROVE  Active = {}
  BY FoundActive

(* A row changes, but not its number. *)
Writes(c) ==
    /\ conv' \in [Convs -> Rows] /\ conv'[c].made = conv[c].made
    /\ \A d \in Convs \ {c} : conv'[d] = conv[d]

(* A row is created. *)
Creates(c) ==
    /\ c \in Convs \ Made /\ conv'[c] = Fresh(c) /\ Fresh(c) \in Rows
    /\ conv' \in [Convs -> Rows]
    /\ \A d \in Convs \ {c} : conv'[d] = conv[d]

LEMMA RowFields ==
    ASSUME TypeOK, NEW c \in Convs, NEW b \in BOOLEAN, NEW m \in SUBSET Entries
    PROVE  /\ conv' = [conv EXCEPT ![c].waits = b] =>
                Writes(c) /\ conv'[c] = [conv[c] EXCEPT !.waits = b]
           /\ conv' = [conv EXCEPT ![c].human = b] =>
                Writes(c) /\ conv'[c] = [conv[c] EXCEPT !.human = b]
           /\ conv' = [conv EXCEPT ![c].active = b] =>
                Writes(c) /\ conv'[c] = [conv[c] EXCEPT !.active = b]
           /\ conv' = [conv EXCEPT ![c].gone = b] =>
                Writes(c) /\ conv'[c] = [conv[c] EXCEPT !.gone = b]
           /\ conv' = [conv EXCEPT ![c].meta = m] =>
                Writes(c) /\ conv'[c] = [conv[c] EXCEPT !.meta = m]
  <1>1. conv \in [Convs -> Rows] /\ conv[c] \in Rows
    BY Types
  <1>2. \A r \in Rows : conv' = [conv EXCEPT ![c] = r] /\ r.made = conv[c].made =>
            Writes(c) /\ conv'[c] = r
    BY <1>1 DEF Writes
  <1>3. /\ [conv[c] EXCEPT !.waits = b] \in Rows
        /\ [conv[c] EXCEPT !.human = b] \in Rows
        /\ [conv[c] EXCEPT !.active = b] \in Rows
        /\ [conv[c] EXCEPT !.gone = b] \in Rows
        /\ [conv[c] EXCEPT !.meta = m] \in Rows
        /\ [conv[c] EXCEPT !.waits = b].made = conv[c].made
        /\ [conv[c] EXCEPT !.human = b].made = conv[c].made
        /\ [conv[c] EXCEPT !.active = b].made = conv[c].made
        /\ [conv[c] EXCEPT !.gone = b].made = conv[c].made
        /\ [conv[c] EXCEPT !.meta = m].made = conv[c].made
    BY <1>1 DEF Rows
  <1> QED BY <1>2, <1>3

LEMMA CreatesRow ==
    ASSUME TypeOK, Counted, NEW c \in Convs \ Made, conv' = [conv EXCEPT ![c] = Fresh(c)]
    PROVE  /\ Creates(c)
           /\ Fresh(c).made = Cardinality(Made) + 1 /\ Fresh(c).active /\ ~Fresh(c).gone
           /\ ~Fresh(c).human /\ Fresh(c).meta = {}
  <1> DEFINE n == Cardinality(Made) + 1
  <1>1. n \in Nat
    BY FS_CardinalityType DEF Counted
  <1>2. Fresh(c) \in Rows
    <2>1. Fresh(c) = [Unmade EXCEPT !.made = n, !.active = TRUE]
      BY DEF Fresh
    <2> HIDE DEF n
    <2>2. Unmade \in Rows
      BY DEF Unmade, Rows
    <2>3. [Unmade EXCEPT !.made = n, !.active = TRUE] \in Rows
      BY <1>1, <2>2 DEF Rows
    <2> QED BY <2>1, <2>3
  <1>3. /\ Fresh(c).made = Cardinality(Made) + 1 /\ Fresh(c).active /\ ~Fresh(c).gone
        /\ ~Fresh(c).human /\ Fresh(c).meta = {}
    BY DEF Fresh, Unmade
  <1> QED BY <1>2, <1>3, Types DEF Creates

(* The numbers, when no row is created, *)
LEMMA CountedWrites ==
    ASSUME TypeOK, Counted, NEW c, Writes(c)
    PROVE  Made' = Made /\ Counted'
  <1>1. \A d \in Convs : conv'[d].made = conv[d].made
    BY DEF Writes
  <1>2. Made' = Made
    BY <1>1 DEF Made
  <1> QED BY <1>1, <1>2 DEF Counted, Made

(* and when one is. *)
LEMMA CountedCreates ==
    ASSUME TypeOK, Counted, NEW c, Creates(c)
    PROVE  Made' = Made \cup {c} /\ Counted'
  <1>0. Cardinality(Made) \in Nat
    BY FS_CardinalityType DEF Counted
  <1>1. conv'[c].made = Cardinality(Made) + 1
    BY DEF Creates, Fresh, Unmade
  <1>2. \A d \in Convs \ {c} : conv'[d].made = conv[d].made
    BY DEF Creates
  <1>3. Made' = Made \cup {c}
    BY <1>0, <1>1, <1>2 DEF Made, Creates
  <1>4. IsFiniteSet(Made') /\ Cardinality(Made') = Cardinality(Made) + 1
    BY <1>3, FS_AddElement DEF Counted, Creates
  <1>5. ASSUME NEW d \in Made' PROVE conv'[d].made <= Cardinality(Made')
    <2>1. CASE d = c
      BY <1>0, <1>1, <1>4, <2>1
    <2>2. CASE d # c
      <3>1. d \in Made /\ conv'[d].made = conv[d].made /\ conv[d].made \in Nat
        BY <1>2, <1>3, <1>5, <2>2, Types DEF Made, Rows
      <3> QED BY <1>0, <1>4, <3>1 DEF Counted
    <2> QED BY <2>1, <2>2
  <1> QED BY <1>3, <1>4, <1>5 DEF Counted

(* How the record of a turn, or of an echo, moves on. *)
TurnMoves(t) == turn' \in [Turns -> TurnStates] /\ \A u \in Turns \ {t} : turn'[u] = turn[u]
EchoMoves(e) == echo' \in [Echoes -> EchoStates] /\ \A f \in Echoes \ {e} : echo'[f] = echo[f]

LEMMA GoesOn ==
    ASSUME TypeOK, NEW t \in Turns, NEW pc \in TurnPcs, Goes(t, pc)
    PROVE  /\ TurnMoves(t)
           /\ turn'[t].pc = pc /\ turn'[t].own = turn[t].own /\ turn'[t].copy = turn[t].copy
           /\ turn'[t].human = turn[t].human /\ turn'[t].heard = turn[t].heard
           /\ turn'[t].shut = turn[t].shut
  <1>1. turn \in [Turns -> TurnStates] /\ turn[t] \in TurnStates
    BY Types
  <1>2. [turn[t] EXCEPT !.pc = pc] \in TurnStates
    BY <1>1 DEF TurnStates
  <1>3. turn' = [turn EXCEPT ![t] = [turn[t] EXCEPT !.pc = pc]]
    BY DEF Goes
  <1>4. turn'[t] = [turn[t] EXCEPT !.pc = pc] /\ TurnMoves(t)
    BY <1>1, <1>2, <1>3 DEF TurnMoves
  <1> QED BY <1>1, <1>4 DEF TurnStates

(* No answer: the turn goes on with nothing to send. *)
Withholds(t) == turn' = [turn EXCEPT ![t] = [@ EXCEPT !.pc = "saved", !.human = TRUE]]

LEMMA WithholdsTurn ==
    ASSUME TypeOK, NEW t \in Turns, Withholds(t)
    PROVE  /\ TurnMoves(t)
           /\ turn'[t].pc = "saved" /\ turn'[t].own = turn[t].own /\ turn'[t].copy = turn[t].copy
           /\ turn'[t].human = TRUE /\ turn'[t].heard = turn[t].heard
           /\ turn'[t].shut = turn[t].shut
  <1>1. turn \in [Turns -> TurnStates] /\ turn[t] \in TurnStates
    BY Types
  <1>2. [turn[t] EXCEPT !.pc = "saved", !.human = TRUE] \in TurnStates
    BY <1>1 DEF TurnStates, TurnPcs
  <1>3. turn' = [turn EXCEPT ![t] = [turn[t] EXCEPT !.pc = "saved", !.human = TRUE]]
    BY DEF Withholds
  <1>4. turn'[t] = [turn[t] EXCEPT !.pc = "saved", !.human = TRUE] /\ TurnMoves(t)
    BY <1>1, <1>2, <1>3 DEF TurnMoves
  <1> QED BY <1>1, <1>4 DEF TurnStates

LEMMA HasRow ==
    ASSUME TypeOK, NEW t \in Turns, NEW c \in Convs, conv' \in [Convs -> Rows], Has(t, c)
    PROVE  /\ TurnMoves(t)
           /\ turn'[t].pc = "ready" /\ turn'[t].own = c /\ turn'[t].copy = conv'[c].meta
           /\ turn'[t].human = conv'[c].human /\ turn'[t].heard = turn[t].heard
  <1>1. turn \in [Turns -> TurnStates] /\ turn[t] \in TurnStates
    BY Types
  <1>2. conv'[c].meta \in SUBSET Entries /\ conv'[c].human \in BOOLEAN
    BY DEF Rows
  <1> DEFINE r == [turn[t] EXCEPT !.pc = "ready", !.own = c, !.copy = conv'[c].meta,
                                  !.human = conv'[c].human]
  <1>3. r \in TurnStates
    BY <1>1, <1>2 DEF TurnStates, TurnPcs
  <1>4. turn' = [turn EXCEPT ![t] = r]
    BY DEF Has
  <1>5. /\ r.pc = "ready" /\ r.own = c /\ r.copy = conv'[c].meta
        /\ r.human = conv'[c].human /\ r.heard = turn[t].heard
    BY <1>1 DEF TurnStates
  <1> HIDE DEF r
  <1>6. turn'[t] = r /\ TurnMoves(t)
    BY <1>1, <1>3, <1>4 DEF TurnMoves
  <1> QED BY <1>5, <1>6

LEMMA EchoGoesOn ==
    ASSUME TypeOK, NEW e \in Echoes, NEW pc \in EchoPcs, EchoGoes(e, pc)
    PROVE  /\ EchoMoves(e)
           /\ echo'[e].pc = pc /\ echo'[e].own = echo[e].own /\ echo'[e].copy = echo[e].copy
           /\ echo'[e].human = echo[e].human
  <1>1. echo \in [Echoes -> EchoStates] /\ echo[e] \in EchoStates
    BY Types
  <1>2. [echo[e] EXCEPT !.pc = pc] \in EchoStates
    BY <1>1 DEF EchoStates
  <1>3. echo' = [echo EXCEPT ![e] = [echo[e] EXCEPT !.pc = pc]]
    BY DEF EchoGoes
  <1>4. echo'[e] = [echo[e] EXCEPT !.pc = pc] /\ EchoMoves(e)
    BY <1>1, <1>2, <1>3 DEF EchoMoves
  <1> QED BY <1>1, <1>4 DEF EchoStates

LEMMA EchoHasRow ==
    ASSUME TypeOK, NEW e \in Echoes, NEW c \in Convs, conv' \in [Convs -> Rows],
           EchoHas(e, c, "recording")
    PROVE  /\ EchoMoves(e)
           /\ echo'[e].pc = "recording" /\ echo'[e].own = c /\ echo'[e].copy = conv'[c].meta
           /\ echo'[e].human = echo[e].human
  <1>1. echo \in [Echoes -> EchoStates] /\ echo[e] \in EchoStates
    BY Types
  <1>2. conv'[c].meta \in SUBSET Entries
    BY DEF Rows
  <1> DEFINE r == [echo[e] EXCEPT !.pc = "recording", !.own = c, !.copy = conv'[c].meta]
  <1>3. r \in EchoStates
    BY <1>1, <1>2 DEF EchoStates, EchoPcs
  <1>4. echo' = [echo EXCEPT ![e] = r]
    BY DEF EchoHas
  <1>5. r.pc = "recording" /\ r.own = c /\ r.copy = conv'[c].meta /\ r.human = echo[e].human
    BY <1>1 DEF EchoStates
  <1> HIDE DEF r
  <1>6. echo'[e] = r /\ EchoMoves(e)
    BY <1>1, <1>3, <1>4 DEF EchoMoves
  <1> QED BY <1>5, <1>6

(* What a step may do to the rows. *)
RowStep ==
    \/ conv' = conv
    \/ \E c \in Convs : Writes(c)
    \/ \E c \in Convs : Creates(c)

LEMMA CountedStep ==
    ASSUME TypeOK, Counted, RowStep
    PROVE  Made \subseteq Made' /\ Counted' /\ conv' \in [Convs -> Rows]
  <1>1. CASE conv' = conv
    BY <1>1, Types DEF Made, Counted
  <1> QED BY <1>1, CountedWrites, CountedCreates DEF RowStep, Writes, Creates

SmallTypes ==
    /\ acted \in [Convs -> Nat] /\ unnoted \in [Convs -> Nat]
    /\ staff \in 0 .. MaxStaff /\ faults \in 0 .. MaxFaults
    /\ raced \in BOOLEAN /\ reopened \in BOOLEAN
    /\ dropped \subseteq Convs /\ released \subseteq Echoes

LEMMA SmallKept ==
    ASSUME TypeOK, UNCHANGED <<sends, counters, history>>
    PROVE  SmallTypes'
  BY DEF TypeOK, SmallTypes, sends, counters, history

LEMMA RowsKept ==
    ASSUME RowsInv, RowStep, SmallTypes',
           \/ turn' = turn
           \/ \E t \in Turns : TurnMoves(t) /\ (turn'[t].pc \in OwningPcs => turn'[t].own \in Made'),
           \/ echo' = echo
           \/ \E e \in Echoes : EchoMoves(e) /\ (echo'[e].pc \in EchoOwningPcs => echo'[e].own \in Made')
    PROVE  RowsInv'
  <1> USE DEF RowsInv
  <1>1. Made \subseteq Made' /\ Counted' /\ conv' \in [Convs -> Rows]
    BY CountedStep
  <1>2. turn' \in [Turns -> TurnStates] /\ echo' \in [Echoes -> EchoStates]
    BY Types DEF TurnMoves, EchoMoves
  <1>3. TypeOK'
    BY <1>1, <1>2 DEF TypeOK, SmallTypes, TurnStates, EchoStates, TurnPcs, EchoPcs
  <1>4. Owned'
    BY <1>1 DEF Owned, TurnMoves, EchoMoves
  <1> QED BY <1>1, <1>3, <1>4

(* The copy of the metadata that replaces it. *)
LEMMA Replaces ==
    ASSUME TypeOK, NEW c \in Convs, NEW copy, NEW new \in SUBSET Entries, Replace(c, copy, new)
    PROVE  /\ Writes(c) /\ conv'[c] = [conv[c] EXCEPT !.meta = new]
           /\ dropped' \subseteq Convs /\ dropped \subseteq dropped'
           /\ copy = conv[c].meta \/ c \in dropped'
  BY RowFields DEF Replace, TypeOK

LEMMA FaultType ==
    ASSUME TypeOK, NEW f, Fault(f)
    PROVE  faults' \in 0 .. MaxFaults
  BY ConversationAssumption DEF TypeOK, Fault

LEMMA StaffType ==
    ASSUME TypeOK, Staff
    PROVE  staff' \in 0 .. MaxStaff
  BY ConversationAssumption DEF TypeOK, Staff

LEMMA TurnRows ==
    ASSUME RowsInv, NEW t \in Turns, Turn(t)
    PROVE  RowsInv' /\ TurnMoves(t) /\ echo' = echo
  <1> USE DEF sends, counters, history
  <1>0. TypeOK /\ Counted /\ Owned
    BY DEF RowsInv
  <1>t. /\ turn[t] \in TurnStates /\ turn[t].copy \in SUBSET Entries
        /\ turn[t].pc \in OwningPcs => turn[t].own \in Made /\ turn[t].own \in Convs
    BY <1>0, Types DEF TurnStates, Owned, Made
  <1>1. CASE Look(t)
    <2>1. /\ conv' = conv /\ UNCHANGED <<echo, sends, counters, reopened, dropped, released>>
          /\ raced' \in BOOLEAN
      BY <1>0, <1>1 DEF Look, InVain, TypeOK
    <2>2. SmallTypes'
      BY <1>0, <2>1 DEF SmallTypes, TypeOK
    <2>3. CASE Found = None
      <3>1. Goes(t, "creating") /\ "creating" \in TurnPcs /\ "creating" \notin OwningPcs
        BY <1>1, <2>3 DEF Look, TurnPcs, OwningPcs
      <3> QED BY <1>0, <2>1, <2>2, <3>1, GoesOn, RowsKept DEF RowStep
    <2>4. CASE Found # None
      <3>1. Found \in Made' /\ Found \in Convs /\ conv' \in [Convs -> Rows]
        BY <1>0, <2>1, <2>4, FoundMade, Types DEF Made
      <3>2. Has(t, Found)
        BY <1>1, <2>4 DEF Look
      <3> QED BY <1>0, <2>1, <2>2, <3>1, <3>2, HasRow, RowsKept DEF RowStep
    <2> QED BY <2>3, <2>4
  <1>2. CASE Create(t)
    <2>1. PICK c \in Convs \ Made : conv' = [conv EXCEPT ![c] = Fresh(c)] /\ Has(t, c)
      BY <1>2 DEF Create
    <2>2. Creates(c) /\ conv' \in [Convs -> Rows] /\ c \in Made'
      BY <1>0, <2>1, CreatesRow, CountedCreates DEF Creates
    <2>3. TurnMoves(t) /\ turn'[t].own = c
      BY <1>0, <2>1, <2>2, HasRow
    <2>4. SmallTypes' /\ echo' = echo
      BY <1>0, <1>2, SmallKept DEF Create
    <2> QED BY <2>2, <2>3, <2>4, RowsKept DEF RowStep
  <1>3. ASSUME RowStep, SmallTypes', echo' = echo, NEW pc \in TurnPcs, Goes(t, pc),
               pc \in OwningPcs => turn[t].pc \in OwningPcs
        PROVE  RowsInv' /\ TurnMoves(t)
    <2>1. Made \subseteq Made'
      BY <1>0, <1>3, CountedStep
    <2> QED BY <1>0, <1>3, <1>t, <2>1, GoesOn, RowsKept
  <1>4. CASE Ask(t) \/ Save(t) \/ Finish(t)
    <2>1. \/ \E pc \in {"over", "asking", "saved", "replying"} : Goes(t, pc)
          \/ Withholds(t)
      BY <1>4 DEF Ask, Save, Finish, Withholds
    <2>2. turn[t].pc \in OwningPcs /\ turn[t].own \in Convs
      BY <1>4, <1>t DEF Ask, Save, Finish, OwningPcs, TurnPcs
    <2>3. RowStep
      <3>1. CASE Ask(t)
        BY <1>0, <2>2, <3>1, RowFields DEF Ask, RowStep
      <3>2. CASE Save(t)
        BY <1>0, <2>2, <3>2, RowFields DEF Save, RowStep
      <3>3. CASE Finish(t)
        <4>1. conv[turn[t].own].human \in BOOLEAN
          BY <1>0, <2>2, Types DEF Rows
        <4>2. conv' = conv \/ \E b \in BOOLEAN : conv' = [conv EXCEPT ![turn[t].own].human = b]
          BY <3>3, <4>1 DEF Finish
        <4> QED BY <1>0, <2>2, <4>2, RowFields DEF RowStep
      <3> QED BY <1>4, <3>1, <3>2, <3>3
    <2>4. SmallTypes' /\ echo' = echo
      BY <1>0, <1>4, SmallKept DEF Ask, Save, Finish
    <2>5. CASE Withholds(t)
      <3>1. TurnMoves(t) /\ turn'[t].own = turn[t].own
        BY <1>0, <2>5, WithholdsTurn
      <3>2. turn[t].own \in Made' /\ TypeOK /\ Counted
        BY <1>0, <1>t, <2>2, <2>3, CountedStep
      <3> QED BY <2>3, <2>4, <3>1, <3>2, RowsKept
    <2>6. ASSUME NEW pc \in {"over", "asking", "saved", "replying"}, Goes(t, pc)
          PROVE  RowsInv' /\ TurnMoves(t) /\ echo' = echo
      BY <1>3, <2>2, <2>3, <2>4, <2>6 DEF TurnPcs
    <2> QED BY <2>1, <2>5, <2>6
  <1>5. CASE Blocked(t) \/ Send(t) \/ ActFails(t) \/ FlagFails(t) \/ TurnFails(t)
    <2>1. PICK pc \in {"over", "sent"} : Goes(t, pc)
      BY <1>5 DEF Blocked, Send, ActFails, FlagFails, TurnFails
    <2>2. pc \in OwningPcs => turn[t].pc \in OwningPcs
      <3>1. pc = "sent" => turn[t].pc = "replying"
        BY <1>5, <2>1, <1>0, GoesOn DEF Blocked, Send, ActFails, FlagFails, TurnFails, TurnPcs
      <3> QED BY <2>1, <3>1 DEF OwningPcs, TurnPcs
    <2>3. RowStep /\ echo' = echo
      BY <1>5 DEF Blocked, Send, ActFails, FlagFails, TurnFails, RowStep
    <2>4. SmallTypes'
      <3>1. CASE Blocked(t) \/ Send(t)
        BY <1>0, <3>1, SmallKept DEF Blocked, Send
      <3>2. CASE TurnFails(t)
        BY <1>0, <3>2, FaultType DEF TurnFails, SmallTypes, TypeOK
      <3>3. CASE ActFails(t)
        <4>1. turn[t].own \in Convs
          BY <3>3, <1>t DEF ActFails, OwningPcs, TurnPcs
        <4>2. acted' \in [Convs -> Nat] /\ unnoted' \in [Convs -> Nat]
          BY <1>0, <3>3, <4>1, Types DEF ActFails, Sends, Unnoted
        <4> QED BY <1>0, <3>3, <4>2, FaultType DEF ActFails, SmallTypes, TypeOK
      <3>4. CASE FlagFails(t)
        <4>1. turn[t].own \in Convs
          BY <3>4, <1>t DEF FlagFails, OwningPcs, TurnPcs
        <4>2. unnoted' \in [Convs -> Nat]
          BY <1>0, <3>4, <4>1, Types DEF FlagFails, Unnoted
        <4> QED BY <1>0, <3>4, <4>2, FaultType DEF FlagFails, SmallTypes, TypeOK
      <3> QED BY <1>5, <3>1, <3>2, <3>3, <3>4
    <2> QED BY <1>3, <2>1, <2>2, <2>3, <2>4 DEF TurnPcs
  <1>6. CASE Persist(t) \/ Flag(t)
    <2>1. turn[t].pc \in OwningPcs /\ turn[t].own \in Convs
      BY <1>6, <1>t DEF Persist, Flag, OwningPcs, TurnPcs
    <2>2. PICK pc \in {"persisted", "over"} : Goes(t, pc)
      BY <1>6 DEF Persist, Flag
    <2>3. \/ UNCHANGED <<conv, dropped>>
          \/ \E new \in SUBSET Entries : Replace(turn[t].own, turn[t].copy, new)
      BY <1>6, <1>t DEF Persist, Flag, Variables, Entries
    <2>4. RowStep /\ dropped' \subseteq Convs
      <3>1. CASE UNCHANGED <<conv, dropped>>
        BY <1>0, <3>1 DEF RowStep, TypeOK
      <3>2. ASSUME NEW new \in SUBSET Entries, Replace(turn[t].own, turn[t].copy, new)
            PROVE  RowStep /\ dropped' \subseteq Convs
        <4>1. Writes(turn[t].own) /\ dropped' \subseteq Convs
          BY <1>0, <2>1, <3>2, Replaces
        <4> QED BY <2>1, <4>1 DEF RowStep
      <3> QED BY <2>3, <3>1, <3>2
    <2>5. SmallTypes' /\ echo' = echo
      BY <1>0, <1>6, <2>4 DEF Persist, Flag, SmallTypes, TypeOK
    <2> QED BY <1>3, <2>1, <2>2, <2>4, <2>5 DEF TurnPcs
  <1>7. CASE Reread(t) \/ Review(t)
    <2>1. turn[t].pc \in OwningPcs /\ turn[t].own \in Made /\ turn[t].own \in Convs
      BY <1>7, <1>t DEF Reread, Review, OwningPcs, TurnPcs
    <2>2. conv[turn[t].own].human \in BOOLEAN /\ conv[turn[t].own].meta \in SUBSET Entries
      BY <1>0, <2>1, Types DEF Rows
    <2>3. InHands \in SUBSET Convs
      BY DEF InHands, Active, Made
    <2>4. PICK r \in TurnStates : turn' = [turn EXCEPT ![t] = r] /\ r.own = turn[t].own
      <3>1. CASE Reread(t)
        <4>1. \A b \in BOOLEAN :
                [turn[t] EXCEPT !.pc = "answered", !.heard = InHands, !.shut = b,
                                !.human = conv[turn[t].own].human] \in TurnStates
          BY <1>t, <2>2, <2>3 DEF TurnStates, TurnPcs
        <4> QED BY <1>t, <3>1, <4>1 DEF Reread, TurnStates
      <3>2. CASE Review(t)
        <4>1. \A pc \in {"acting", "over"} :
                [turn[t] EXCEPT !.pc = pc, !.copy = conv[turn[t].own].meta] \in TurnStates
          BY <1>t, <2>2 DEF TurnStates, TurnPcs
        <4>2. \A pc : [turn[t] EXCEPT !.pc = pc, !.copy = conv[turn[t].own].meta].own = turn[t].own
          BY <1>t DEF TurnStates
        <4> QED BY <3>2, <4>1, <4>2 DEF Review
      <3> QED BY <1>7, <3>1, <3>2
    <2>5. TurnMoves(t) /\ turn'[t].own = turn[t].own
      BY <1>0, <2>4, Types DEF TurnMoves
    <2>6. conv' = conv /\ echo' = echo /\ SmallTypes'
      BY <1>0, <1>7, SmallKept DEF Reread, Review
    <2> QED BY <2>1, <2>5, <2>6, RowsKept DEF RowStep, Made
  <1>8. CASE Act(t)
    <2>1. turn[t].pc \in OwningPcs /\ turn[t].own \in Convs
      BY <1>8, <1>t DEF Act, OwningPcs, TurnPcs
    <2>2. acted' \in [Convs -> Nat]
      BY <1>0, <1>8, <2>1 DEF Act, Sends, TypeOK
    <2>3. SmallTypes' /\ echo' = echo /\ RowStep /\ Goes(t, "flagging")
      BY <1>0, <1>8, <2>2 DEF Act, SmallTypes, TypeOK, RowStep
    <2> QED BY <1>3, <2>1, <2>3 DEF TurnPcs
  <1> QED BY <1>1, <1>2, <1>4, <1>5, <1>6, <1>7, <1>8 DEF Turn

LEMMA EchoRows ==
    ASSUME RowsInv, NEW e \in Echoes, Echo(e)
    PROVE  RowsInv' /\ EchoMoves(e) /\ turn' = turn
  <1> USE DEF sends, counters, history
  <1>0. TypeOK /\ Counted /\ Owned
    BY DEF RowsInv
  <1>t. /\ echo[e] \in EchoStates /\ echo[e].copy \in SUBSET Entries
        /\ echo[e].pc \in EchoOwningPcs => echo[e].own \in Made /\ echo[e].own \in Convs
    BY <1>0, Types DEF EchoStates, Owned, Made
  <1>1. CASE EchoLook(e)
    <2>1. conv' = conv /\ turn' = turn /\ SmallTypes' /\ RowStep
      BY <1>0, <1>1, SmallKept DEF EchoLook, RowStep
    <2>2. CASE Found = None
      <3>1. EchoGoes(e, "seeking") /\ "seeking" \in EchoPcs /\ "seeking" \notin EchoOwningPcs
        BY <1>1, <2>2 DEF EchoLook, EchoPcs, EchoOwningPcs
      <3> QED BY <1>0, <2>1, <3>1, EchoGoesOn, RowsKept
    <2>3. CASE Found # None
      <3>1. Found \in Made' /\ Found \in Convs /\ conv[Found] \in Rows
        BY <1>0, <2>1, <2>3, FoundMade, Types DEF Made
      <3> DEFINE r == [pc |-> "recording", own |-> Found, copy |-> conv[Found].meta,
                       human |-> conv[Found].human]
      <3>2. r \in EchoStates /\ r.own = Found
        BY <3>1 DEF Rows, EchoStates, EchoPcs
      <3>3. echo' = [echo EXCEPT ![e] = r]
        BY <1>1, <2>3 DEF EchoLook
      <3> HIDE DEF r
      <3>4. EchoMoves(e) /\ echo'[e].own = Found
        BY <1>0, <3>2, <3>3, Types DEF EchoMoves
      <3> QED BY <1>0, <2>1, <3>1, <3>4, RowsKept
    <2> QED BY <2>2, <2>3
  <1>2. CASE EchoSeek(e)
    <2>1. conv' = conv /\ turn' = turn /\ RowStep /\ SmallTypes'
      BY <1>0, <1>2 DEF EchoSeek, InVain, RowStep, SmallTypes, TypeOK
    <2>2. CASE Found = None
      <3>1. EchoGoes(e, "creating") /\ "creating" \in EchoPcs /\ "creating" \notin EchoOwningPcs
        BY <1>2, <2>2 DEF EchoSeek, EchoPcs, EchoOwningPcs
      <3> QED BY <1>0, <2>1, <3>1, EchoGoesOn, RowsKept
    <2>3. CASE Found # None
      <3>1. Found \in Made' /\ Found \in Convs /\ conv' \in [Convs -> Rows]
        BY <1>0, <2>1, <2>3, FoundMade, Types DEF Made
      <3>2. EchoHas(e, Found, "recording")
        BY <1>2, <2>3 DEF EchoSeek
      <3> QED BY <1>0, <2>1, <3>1, <3>2, EchoHasRow, RowsKept
    <2> QED BY <2>2, <2>3
  <1>3. CASE EchoCreate(e)
    <2>1. PICK c \in Convs \ Made : conv' = [conv EXCEPT ![c] = Fresh(c)] /\ EchoHas(e, c, "recording")
      BY <1>3 DEF EchoCreate
    <2>2. Creates(c) /\ conv' \in [Convs -> Rows] /\ c \in Made'
      BY <1>0, <2>1, CreatesRow, CountedCreates DEF Creates
    <2>3. EchoMoves(e) /\ echo'[e].own = c
      BY <1>0, <2>1, <2>2, EchoHasRow
    <2>4. SmallTypes' /\ turn' = turn
      BY <1>0, <1>3, SmallKept DEF EchoCreate
    <2> QED BY <2>2, <2>3, <2>4, RowsKept DEF RowStep
  <1>4. ASSUME RowStep, SmallTypes', turn' = turn, NEW pc \in EchoPcs, EchoGoes(e, pc),
               echo[e].pc \in EchoOwningPcs
        PROVE  RowsInv' /\ EchoMoves(e)
    <2>1. Made \subseteq Made'
      BY <1>0, <1>4, CountedStep
    <2> QED BY <1>0, <1>4, <1>t, <2>1, EchoGoesOn, RowsKept
  <1>5. CASE EchoRecord(e) \/ EchoTake(e)
    <2>1. PICK pc \in EchoPcs : EchoGoes(e, pc)
      BY <1>5 DEF EchoRecord, EchoTake, AfterRecord, EchoPcs
    <2>2. echo[e].pc \in EchoOwningPcs /\ echo[e].own \in Convs
      BY <1>5, <1>t DEF EchoRecord, EchoTake, EchoOwningPcs
    <2>3. \/ conv' = conv
          \/ conv' = [conv EXCEPT ![echo[e].own].waits = FALSE]
          \/ conv' = [conv EXCEPT ![echo[e].own].human = TRUE]
      BY <1>5 DEF EchoRecord, EchoTake
    <2>4. RowStep
      BY <1>0, <2>2, <2>3, RowFields DEF RowStep
    <2>5. SmallTypes' /\ turn' = turn
      BY <1>0, <1>5, SmallKept DEF EchoRecord, EchoTake
    <2> QED BY <1>4, <2>1, <2>2, <2>4, <2>5
  <1>6. CASE EchoMark(e)
    <2>1. PICK pc \in EchoPcs : EchoGoes(e, pc)
      BY <1>6 DEF EchoMark, AfterRecord, EchoPcs
    <2>2. echo[e].pc \in EchoOwningPcs /\ echo[e].own \in Convs
      BY <1>6, <1>t DEF EchoMark, EchoOwningPcs
    <2>3. RowStep /\ dropped' \subseteq Convs
      <3>1. CASE UNCHANGED <<conv, dropped>>
        BY <1>0, <3>1 DEF RowStep, TypeOK
      <3>2. CASE Replace(echo[e].own, echo[e].copy, echo[e].copy \cup {"mark"})
        <4>1. echo[e].copy \cup {"mark"} \in SUBSET Entries
          BY <1>t DEF Entries
        <4>2. Writes(echo[e].own) /\ dropped' \subseteq Convs
          BY <1>0, <2>2, <3>2, <4>1, Replaces
        <4> QED BY <2>2, <4>2 DEF RowStep
      <3> QED BY <1>6, <3>1, <3>2 DEF EchoMark
    <2>4. SmallTypes' /\ turn' = turn
      BY <1>0, <1>6, <2>3 DEF EchoMark, SmallTypes, TypeOK
    <2> QED BY <1>4, <2>1, <2>2, <2>3, <2>4
  <1> QED BY <1>1, <1>2, <1>3, <1>5, <1>6 DEF Echo

LEMMA MemberRows ==
    ASSUME RowsInv, NEW c \in Convs, Member(c)
    PROVE  RowsInv'
  <1> USE DEF sends, counters, history
  <1>0. TypeOK /\ Counted /\ Owned
    BY DEF RowsInv
  <1>1. RowStep
    BY <1>0, RowFields DEF Member, Take, Release, Close, Reopen, Remove, RowStep
  <1>2. staff' \in 0 .. MaxStaff
    BY <1>0, StaffType DEF Member, Take, Release, Close, Reopen, Remove
  <1>3. SmallTypes' /\ turn' = turn /\ echo' = echo
    BY <1>0, <1>2 DEF Member, Take, Release, Close, Reopen, Remove, SmallTypes, TypeOK
  <1> QED BY <1>1, <1>3, RowsKept

(* The night changes many rows at once. *)
LEMMA NightRows ==
    ASSUME TypeOK, Counted, Night
    PROVE  /\ conv' \in [Convs -> Rows] /\ Made' = Made /\ Counted'
           /\ \A c \in Convs : /\ conv'[c].human = conv[c].human /\ conv'[c].gone = conv[c].gone
                               /\ conv'[c].meta = conv[c].meta
                               /\ conv'[c].active => conv[c].active
           /\ UNCHANGED <<turn, echo, sends, faults, history>> /\ staff' \in 0 .. MaxStaff
  <1>1. PICK due \in SUBSET {c \in Made : conv[c].active /\ ~(conv[c].human /\ conv[c].waits)} :
          conv' = [c \in Convs |-> IF c \in due THEN [conv[c] EXCEPT !.active = FALSE] ELSE conv[c]]
    BY DEF Night
  <1>2. ASSUME NEW c \in Convs
        PROVE  /\ conv'[c] \in Rows /\ conv'[c].made = conv[c].made
               /\ conv'[c].human = conv[c].human /\ conv'[c].gone = conv[c].gone
               /\ conv'[c].meta = conv[c].meta /\ (conv'[c].active => conv[c].active)
    <2>1. conv[c] \in Rows
      BY <1>2, Types
    <2>2. conv'[c] = [conv[c] EXCEPT !.active = FALSE] \/ conv'[c] = conv[c]
      BY <1>1, <1>2
    <2> QED BY <2>1, <2>2 DEF Rows
  <1>3. conv' \in [Convs -> Rows]
    BY <1>1, <1>2
  <1>4. Made' = Made
    BY <1>2 DEF Made
  <1>5. Counted'
    BY <1>2, <1>4 DEF Counted, Made
  <1> QED BY <1>2, <1>3, <1>4, <1>5, StaffType DEF Night

(* RowsInv is inductive. *)
LEMMA RowsInit ==
    ASSUME Init
    PROVE  RowsInv
  <1>1. /\ conv = [c \in Convs |-> Unmade]
        /\ acted = [c \in Convs |-> 0] /\ unnoted = [c \in Convs |-> 0]
        /\ turn = [t \in Turns |-> [pc |-> "idle", own |-> None, copy |-> {}, human |-> FALSE,
                                    heard |-> {}, shut |-> FALSE]]
        /\ echo = [e \in Echoes |-> [pc |-> "idle", own |-> None, copy |-> {}, human |-> FALSE]]
        /\ staff = 0 /\ faults = 0 /\ raced = FALSE /\ reopened = FALSE
        /\ dropped = {} /\ released = {}
    BY DEF Init
  <1>2. Made = {} /\ Unmade \in Rows
    BY <1>1 DEF Made, Unmade, Rows
  <1>3. TypeOK
    <2>1. conv \in [Convs -> Rows] /\ acted \in [Convs -> Nat] /\ unnoted \in [Convs -> Nat]
      BY <1>1, <1>2
    <2>2. turn \in [Turns -> TurnStates] /\ echo \in [Echoes -> EchoStates]
      BY <1>1 DEF TurnStates, EchoStates, TurnPcs, EchoPcs
    <2>3. SmallTypes
      <3>1. 0 \in 0 .. MaxStaff /\ 0 \in 0 .. MaxFaults
        BY ConversationAssumption
      <3>2. staff \in 0 .. MaxStaff /\ faults \in 0 .. MaxFaults
        BY <1>1, <3>1
      <3>3. /\ raced \in BOOLEAN /\ reopened \in BOOLEAN
            /\ dropped \subseteq Convs /\ released \subseteq Echoes
        BY <1>1
      <3> QED BY <2>1, <3>2, <3>3 DEF SmallTypes
    <2> QED BY <2>1, <2>2, <2>3
            DEF TypeOK, SmallTypes, TurnStates, EchoStates, TurnPcs, EchoPcs
  <1>4. Counted
    BY <1>2, FS_EmptySet DEF Counted
  <1>5. Owned
    BY <1>1 DEF Owned, OwningPcs, EchoOwningPcs
  <1> QED BY <1>3, <1>4, <1>5 DEF RowsInv

LEMMA RowsNext ==
    ASSUME RowsInv, [Next]_vars
    PROVE  RowsInv'
  <1>1. CASE UNCHANGED vars
    BY <1>1 DEF vars, sends, counters, history, RowsInv, TypeOK, Counted, Owned, Made
  <1>2. CASE Night
    <2>1. SmallTypes'
      BY <1>2, NightRows DEF RowsInv, TypeOK, SmallTypes, sends, history
    <2>2. TypeOK'
      BY <1>2, <2>1, NightRows DEF RowsInv, TypeOK, SmallTypes
    <2>3. Owned'
      BY <1>2, NightRows DEF RowsInv, Owned
    <2> QED BY <1>2, <2>2, <2>3, NightRows DEF RowsInv
  <1> QED BY <1>1, <1>2, TurnRows, EchoRows, MemberRows DEF Next

LEMMA RowsInvariance == Spec => []RowsInv
  BY RowsInit, RowsNext, PTL DEF Spec

(* Every variable keeps its type: the conversations, the progress of turns and echoes. *)
THEOREM TypeCorrect == Spec => []TypeOK
  <1>1. RowsInv => TypeOK
    BY DEF RowsInv
  <1> QED BY <1>1, RowsInvariance, PTL

--------------------------------------------------------------------------------
(* What a step keeps of the rows there are. *)
KeepsRows ==
    \A c \in Made :
        /\ conv[c].human => conv'[c].human
        /\ conv[c].gone => conv'[c].gone
        /\ conv'[c].active => conv[c].active
        /\ "done" \in conv[c].meta => "done" \in conv'[c].meta \/ c \in dropped'

KeepsHistory ==
    /\ reopened' = reopened /\ released' = released
    /\ raced => raced'
    /\ dropped \subseteq dropped'

LEMMA KeepsWritten ==
    ASSUME TypeOK, NEW c \in Convs, Writes(c), NEW b \in BOOLEAN,
           \/ conv'[c] = [conv[c] EXCEPT !.waits = b]
           \/ conv'[c] = [conv[c] EXCEPT !.human = b] /\ (conv[c].human => b)
           \/ conv'[c] = [conv[c] EXCEPT !.active = FALSE]
           \/ conv'[c] = [conv[c] EXCEPT !.gone = TRUE]
    PROVE  KeepsRows
  <1>1. conv[c] \in Rows
    BY Types
  <1>2. /\ conv[c].human => conv'[c].human
        /\ conv[c].gone => conv'[c].gone
        /\ conv'[c].active => conv[c].active
        /\ conv'[c].meta = conv[c].meta
    BY <1>1 DEF Rows
  <1> QED BY <1>2 DEF KeepsRows, Writes, Made

LEMMA KeepsReplaced ==
    ASSUME TypeOK, NEW c \in Convs, NEW copy, NEW new \in SUBSET Entries, Replace(c, copy, new),
           "done" \in copy => "done" \in new
    PROVE  KeepsRows /\ dropped \subseteq dropped'
  <1>1. conv[c] \in Rows /\ conv'[c] = [conv[c] EXCEPT !.meta = new] /\ Writes(c)
    BY Types, Replaces
  <1>2. /\ conv[c].human => conv'[c].human
        /\ conv[c].gone => conv'[c].gone
        /\ conv'[c].active => conv[c].active
        /\ conv'[c].meta = new
    BY <1>1 DEF Rows
  <1>3. copy = conv[c].meta \/ c \in dropped'
    BY Replaces
  <1>4. KeepsRows
    <2>1. \A d \in Convs \ {c} : conv'[d] = conv[d]
      BY <1>1 DEF Writes
    <2>2. "done" \in conv[c].meta => "done" \in conv'[c].meta \/ c \in dropped'
      BY <1>2, <1>3
    <2> HIDE <1>1, <1>3
    <2> QED BY <1>2, <2>1, <2>2 DEF KeepsRows, Made
  <1> QED BY <1>4, Replaces

LEMMA KeepsCreated ==
    ASSUME NEW c, Creates(c)
    PROVE  KeepsRows
  BY DEF KeepsRows, Creates, Made

LEMMA TurnKeeps ==
    ASSUME RowsInv, NEW t \in Turns, Turn(t)
    PROVE  KeepsRows /\ KeepsHistory
  <1> USE DEF sends, counters, history
  <1>0. TypeOK /\ Counted /\ Owned
    BY DEF RowsInv
  <1>t. /\ turn[t].copy \in SUBSET Entries
        /\ turn[t].pc \in OwningPcs => turn[t].own \in Made /\ turn[t].own \in Convs
    BY <1>0, Types DEF TurnStates, Owned, Made
  <1>1. CASE Look(t) \/ Blocked(t) \/ Reread(t) \/ Send(t) \/ Review(t) \/ Act(t) \/ ActFails(t)
             \/ FlagFails(t) \/ TurnFails(t)
    <2>1. conv' = conv
      <3>1. CASE Look(t)
        BY <3>1 DEF Look
      <3>2. CASE ~Look(t)
        BY <1>1, <3>2 DEF Blocked, Reread, Send, Review, Act, ActFails, FlagFails,
                             TurnFails
      <3> QED BY <3>1, <3>2
    <2>2. KeepsHistory
      <3>1. CASE Look(t)
        <4>1. raced => raced'
          BY <3>1 DEF Look, InVain
        <4> QED BY <3>1, <4>1 DEF Look, KeepsHistory
      <3>2. CASE ~Look(t)
        BY <1>1, <3>2 DEF Blocked, Reread, Send, Review, Act, ActFails, FlagFails,
                             TurnFails, KeepsHistory
      <3> QED BY <3>1, <3>2
    <2> QED BY <2>1, <2>2 DEF KeepsRows
  <1>2. CASE Create(t)
    <2>1. PICK c \in Convs \ Made : conv' = [conv EXCEPT ![c] = Fresh(c)]
      BY <1>2 DEF Create
    <2>2. KeepsRows
      BY <1>0, <2>1, CreatesRow, KeepsCreated
    <2> QED BY <1>2, <2>2 DEF Create, KeepsHistory
  <1>3. CASE Ask(t) \/ Save(t) \/ Finish(t)
    <2>1. turn[t].own \in Convs
      BY <1>3, <1>t DEF Ask, Save, Finish, OwningPcs, TurnPcs
    <2>2. conv[turn[t].own].human \in BOOLEAN
      BY <1>0, <2>1, Types DEF Rows
    <2>3. \/ conv' = conv
          \/ \E b \in BOOLEAN : conv' = [conv EXCEPT ![turn[t].own].waits = b]
          \/ \E b \in BOOLEAN : /\ conv' = [conv EXCEPT ![turn[t].own].human = b]
                                /\ conv[turn[t].own].human => b
      <3>1. CASE Ask(t)
        BY <3>1 DEF Ask
      <3>2. CASE Save(t)
        BY <3>2 DEF Save
      <3>3. CASE Finish(t)
        BY <2>2, <3>3 DEF Finish
      <3> QED BY <1>3, <3>1, <3>2, <3>3
    <2>4. KeepsRows
      <3>1. CASE conv' = conv
        BY <3>1 DEF KeepsRows
      <3>2. ASSUME NEW b \in BOOLEAN,
                   \/ conv' = [conv EXCEPT ![turn[t].own].waits = b]
                   \/ /\ conv' = [conv EXCEPT ![turn[t].own].human = b]
                      /\ conv[turn[t].own].human => b
            PROVE  KeepsRows
        <4>1. CASE conv' = [conv EXCEPT ![turn[t].own].waits = b]
          <5>1. /\ Writes(turn[t].own)
                /\ conv'[turn[t].own] = [conv[turn[t].own] EXCEPT !.waits = b]
            BY <1>0, <2>1, <4>1, RowFields
          <5> QED BY <1>0, <2>1, <5>1, KeepsWritten
        <4>2. CASE /\ conv' = [conv EXCEPT ![turn[t].own].human = b]
                   /\ conv[turn[t].own].human => b
          <5>1. /\ Writes(turn[t].own)
                /\ conv'[turn[t].own] = [conv[turn[t].own] EXCEPT !.human = b]
            BY <1>0, <2>1, <4>2, RowFields
          <5> QED BY <1>0, <2>1, <4>2, <5>1, KeepsWritten
        <4> QED BY <3>2, <4>1, <4>2
      <3> QED BY <2>3, <3>1, <3>2
    <2> QED BY <1>3, <2>4 DEF Ask, Save, Finish, KeepsHistory
  <1>4. CASE Persist(t) \/ Flag(t)
    <2>1. turn[t].own \in Convs
      BY <1>4, <1>t DEF Persist, Flag, OwningPcs, TurnPcs
    <2>2. \/ UNCHANGED <<conv, dropped>>
          \/ \E new \in SUBSET Entries :
               /\ Replace(turn[t].own, turn[t].copy, new)
               /\ "done" \in turn[t].copy => "done" \in new
      BY <1>4, <1>t DEF Persist, Flag, Variables, Entries
    <2>3. KeepsRows /\ dropped \subseteq dropped'
      <3>1. CASE UNCHANGED <<conv, dropped>>
        BY <3>1 DEF KeepsRows
      <3> QED BY <1>0, <2>1, <2>2, <3>1, KeepsReplaced
    <2> QED BY <1>4, <2>3 DEF Persist, Flag, KeepsHistory
  <1> QED BY <1>1, <1>2, <1>3, <1>4 DEF Turn

LEMMA EchoKeeps ==
    ASSUME RowsInv, NEW e \in Echoes, Echo(e)
    PROVE  KeepsRows /\ KeepsHistory /\ sends' = sends
  <1> USE DEF sends, counters, history
  <1>0. TypeOK /\ Counted /\ Owned
    BY DEF RowsInv
  <1>t. /\ echo[e].copy \in SUBSET Entries
        /\ echo[e].pc \in EchoOwningPcs => echo[e].own \in Made /\ echo[e].own \in Convs
    BY <1>0, Types DEF EchoStates, Owned, Made
  <1>1. CASE EchoLook(e) \/ EchoSeek(e)
    BY <1>1 DEF EchoLook, EchoSeek, InVain, KeepsHistory, KeepsRows
  <1>2. CASE EchoCreate(e)
    <2>1. PICK c \in Convs \ Made : conv' = [conv EXCEPT ![c] = Fresh(c)]
      BY <1>2 DEF EchoCreate
    <2>2. KeepsRows
      BY <1>0, <2>1, CreatesRow, KeepsCreated
    <2> QED BY <1>2, <2>2 DEF EchoCreate, KeepsHistory
  <1>3. CASE EchoRecord(e) \/ EchoTake(e)
    <2>1. echo[e].own \in Convs
      BY <1>3, <1>t DEF EchoRecord, EchoTake, EchoOwningPcs
    <2>2. \/ conv' = conv
          \/ conv' = [conv EXCEPT ![echo[e].own].waits = FALSE]
          \/ conv' = [conv EXCEPT ![echo[e].own].human = TRUE]
      BY <1>3 DEF EchoRecord, EchoTake
    <2>3. KeepsRows
      <3>1. CASE conv' = conv
        BY <3>1 DEF KeepsRows
      <3> QED BY <1>0, <2>1, <2>2, <3>1, RowFields, KeepsWritten
    <2> QED BY <1>3, <2>3 DEF EchoRecord, EchoTake, KeepsHistory
  <1>4. CASE EchoMark(e)
    <2>1. echo[e].own \in Convs /\ echo[e].copy \cup {"mark"} \in SUBSET Entries
      BY <1>4, <1>t DEF EchoMark, EchoOwningPcs, Entries
    <2>2. KeepsRows /\ dropped \subseteq dropped'
      <3>1. CASE UNCHANGED <<conv, dropped>>
        BY <3>1 DEF KeepsRows
      <3>2. CASE Replace(echo[e].own, echo[e].copy, echo[e].copy \cup {"mark"})
        BY <1>0, <2>1, <3>2, KeepsReplaced
      <3> QED BY <1>4, <3>1, <3>2 DEF EchoMark
    <2> QED BY <1>4, <2>2 DEF EchoMark, KeepsHistory
  <1> QED BY <1>1, <1>2, <1>3, <1>4 DEF Echo

(* Which actions bring a turn where. *)
LEMMA TurnGoesOn ==
    ASSUME RowsInv, NEW t \in Turns, Turn(t), ~ Look(t), ~ Create(t), ~ Reread(t)
    PROVE  /\ turn'[t].own = turn[t].own /\ (turn[t].human => turn'[t].human)
           /\ turn'[t].pc # "saved" => turn'[t].human = turn[t].human
           /\ turn'[t].heard = turn[t].heard /\ turn'[t].shut = turn[t].shut
           /\ turn[t].pc \notin {"idle", "over"}
           /\ turn'[t].pc \notin {"idle", "creating", "answered"}
           /\ turn'[t].pc = "saved" => turn[t].pc = "answered"
           /\ turn'[t].pc = "persisted" => turn[t].pc = "saved"
           /\ turn'[t].pc = "replying" => turn[t].pc = "persisted" /\ ~turn[t].human
           /\ turn'[t].pc = "sent" => turn[t].pc = "replying"
           /\ turn'[t].pc = "acting" => Review(t)
           /\ turn'[t].pc = "flagging" => Act(t)
           /\ turn[t].pc = "flagging" => Flag(t) \/ FlagFails(t)
  <1>0. TypeOK /\ turn \in [Turns -> TurnStates] /\ turn[t] \in TurnStates
    BY Types DEF RowsInv
  <1>1. ASSUME NEW pc \in TurnPcs, Goes(t, pc)
        PROVE  /\ turn'[t].pc = pc /\ turn'[t].own = turn[t].own
               /\ turn'[t].human = turn[t].human /\ turn'[t].heard = turn[t].heard
               /\ turn'[t].shut = turn[t].shut
    BY <1>0, <1>1, GoesOn
  <1>2. CASE Ask(t)
    <2>1. PICK pc \in {"over", "asking"} : Goes(t, pc)
      BY <1>2 DEF Ask
    <2> QED BY <1>1, <1>2, <2>1 DEF Ask, TurnPcs
  <1>3. CASE Blocked(t)
    BY <1>1, <1>3 DEF Blocked, TurnPcs
  <1>4. CASE Save(t)
    <2>1. CASE Goes(t, "saved")
      BY <1>1, <1>4, <2>1 DEF Save, TurnPcs
    <2>2. CASE Withholds(t)
      BY <1>0, <1>4, <2>2, WithholdsTurn DEF Save, TurnPcs
    <2> QED BY <1>4, <2>1, <2>2 DEF Save, Withholds
  <1>5. CASE Persist(t)
    BY <1>1, <1>5 DEF Persist, TurnPcs
  <1>6. CASE Finish(t)
    <2>1. PICK pc \in {"over", "replying"} : Goes(t, pc) /\ (pc = "replying" => ~turn[t].human)
      BY <1>6 DEF Finish
    <2> QED BY <1>1, <1>6, <2>1 DEF Finish, TurnPcs
  <1>7. CASE Send(t)
    BY <1>1, <1>7 DEF Send, TurnPcs
  <1>8. CASE Review(t)
    <2>1. PICK pc \in {"acting", "over"} :
            turn' = [turn EXCEPT ![t] = [turn[t] EXCEPT !.pc = pc, !.copy = conv[turn[t].own].meta]]
      BY <1>8 DEF Review
    <2>2. /\ turn'[t].pc = pc /\ turn'[t].own = turn[t].own
          /\ turn'[t].human = turn[t].human /\ turn'[t].heard = turn[t].heard
          /\ turn'[t].shut = turn[t].shut
      BY <1>0, <2>1 DEF TurnStates
    <2> QED BY <1>8, <2>1, <2>2 DEF Review
  <1>9. CASE Act(t)
    BY <1>1, <1>9 DEF Act, TurnPcs
  <1>10. CASE ActFails(t)
    BY <1>1, <1>10 DEF ActFails, TurnPcs
  <1>11. CASE Flag(t)
    BY <1>1, <1>11 DEF Flag, TurnPcs
  <1>12. CASE TurnFails(t)
    BY <1>1, <1>12 DEF TurnFails, TurnPcs
  <1>13. CASE FlagFails(t)
    BY <1>1, <1>13 DEF FlagFails, TurnPcs
  <1> QED BY <1>2, <1>3, <1>4, <1>5, <1>6, <1>7, <1>8, <1>9, <1>10, <1>11, <1>12, <1>13 DEF Turn

LEMMA TurnRereads ==
    ASSUME RowsInv, NEW t \in Turns, Reread(t)
    PROVE  /\ turn[t].pc = "asking" /\ turn'[t].pc = "answered" /\ turn'[t].own = turn[t].own
           /\ turn'[t].human = conv[turn[t].own].human /\ turn'[t].heard = InHands
           /\ (turn'[t].shut <=> turn[t].own \notin Active)
  <1>1. turn \in [Turns -> TurnStates] /\ turn[t] \in TurnStates
    BY Types DEF RowsInv
  <1>2. turn' = [turn EXCEPT ![t] = [turn[t] EXCEPT !.pc = "answered", !.heard = InHands,
                                                   !.shut = turn[t].own \notin Active,
                                                   !.human = conv[turn[t].own].human]]
    BY DEF Reread
  <1>3. turn[t].pc = "asking"
    BY DEF Reread
  <1> QED BY <1>1, <1>2, <1>3 DEF TurnStates

LEMMA TurnBegins ==
    ASSUME RowsInv, NEW t \in Turns, Look(t) \/ Create(t), RowsInv'
    PROVE  \/ turn'[t].pc = "creating" /\ Found = None /\ Look(t)
           \/ turn'[t].pc = "ready"
  <1>1. TypeOK /\ TypeOK' /\ Counted
    BY DEF RowsInv
  <1>2. CASE Look(t) /\ Found = None
    <2>1. Goes(t, "creating") /\ "creating" \in TurnPcs
      BY <1>2 DEF Look, TurnPcs
    <2> QED BY <1>1, <1>2, <2>1, GoesOn
  <1>3. CASE Look(t) /\ Found # None
    <2>1. Has(t, Found) /\ Found \in Convs /\ conv' \in [Convs -> Rows]
      BY <1>1, <1>3, FoundMade, Types DEF Look
    <2> QED BY <1>1, <2>1, HasRow
  <1>4. CASE Create(t)
    <2>1. PICK c \in Convs : Has(t, c)
      BY <1>4 DEF Create
    <2>2. conv' \in [Convs -> Rows]
      BY <1>1 DEF TypeOK
    <2> QED BY <1>1, <2>1, <2>2, HasRow
  <1> QED BY <1>2, <1>3, <1>4

LEMMA TurnMade ==
    ASSUME RowsInv, NEW t \in Turns, Turn(t), ~ Create(t)
    PROVE  Made' = Made
  <1>0. TypeOK /\ conv \in [Convs -> Rows]
    BY Types DEF RowsInv
  <1>1. \/ conv' = conv
        \/ \E c \in Convs : \E r : conv' = [conv EXCEPT ![c] = r] /\ r.made = conv[c].made
    <2>1. CASE Ask(t) \/ Save(t) \/ Finish(t) \/ Persist(t) \/ Flag(t)
      <3>1. turn[t].own \in Convs /\ conv[turn[t].own] \in Rows
        BY <1>0, <2>1, Types DEF Ask, Save, Finish, Persist, Flag, RowsInv, Owned, OwningPcs,
                                 TurnPcs, Made
      <3>2. \/ conv' = conv
            \/ \E b : conv' = [conv EXCEPT ![turn[t].own] = [conv[turn[t].own] EXCEPT !.waits = b]]
            \/ \E b : conv' = [conv EXCEPT ![turn[t].own] = [conv[turn[t].own] EXCEPT !.human = b]]
            \/ \E b : conv' = [conv EXCEPT ![turn[t].own] = [conv[turn[t].own] EXCEPT !.meta = b]]
        <4>1. CASE Ask(t)
          BY <4>1 DEF Ask
        <4>2. CASE Save(t)
          BY <4>2 DEF Save
        <4>3. CASE Finish(t)
          BY <4>3 DEF Finish
        <4>4. CASE Persist(t) \/ Flag(t)
          BY <4>4 DEF Persist, Flag, Replace
        <4> QED BY <2>1, <4>1, <4>2, <4>3, <4>4
      <3>3. \A b : /\ [conv[turn[t].own] EXCEPT !.waits = b].made = conv[turn[t].own].made
                   /\ [conv[turn[t].own] EXCEPT !.human = b].made = conv[turn[t].own].made
                   /\ [conv[turn[t].own] EXCEPT !.meta = b].made = conv[turn[t].own].made
        BY <3>1 DEF Rows
      <3> QED BY <3>1, <3>2, <3>3
    <2>2. CASE Look(t)
      BY <2>2 DEF Look
    <2>3. CASE Blocked(t) \/ Reread(t) \/ Send(t) \/ Review(t) \/ Act(t) \/ ActFails(t)
               \/ FlagFails(t) \/ TurnFails(t)
      BY <2>3 DEF Blocked, Reread, Send, Review, Act, ActFails, FlagFails,
                             TurnFails
    <2> QED BY <2>1, <2>2, <2>3 DEF Turn
  <1>2. \A d \in Convs : conv'[d].made = conv[d].made
    BY <1>0, <1>1
  <1> QED BY <1>2 DEF Made

LEMMA EchoGoesWhere ==
    ASSUME RowsInv, NEW e \in Echoes, Echo(e), RowsInv'
    PROVE  /\ echo'[e].pc # "idle"
           /\ echo'[e].pc = "seeking" => echo[e].pc = "idle" /\ echo'[e].human = echo[e].human
           /\ echo'[e].pc = "creating" =>
                /\ echo[e].pc = "seeking" /\ Found = None /\ conv' = conv /\ InVain
                /\ echo'[e].human = echo[e].human
           /\ echo'[e].pc = "recording" /\ echo'[e].human =>
                \/ conv' = conv /\ conv[echo'[e].own].human
                \/ echo[e].pc \in {"seeking", "creating"} /\ echo[e].human
           /\ echo'[e].pc \in {"marking", "taking"} =>
                /\ echo[e].pc \in {"recording", "marking"}
                /\ echo'[e].own = echo[e].own /\ echo'[e].human = echo[e].human
           /\ echo'[e].pc = "done" =>
                /\ echo[e].pc \in {"recording", "marking", "taking"}
                /\ echo'[e].own = echo[e].own
                /\ echo[e].pc # "taking" => echo[e].human
                /\ echo[e].pc = "taking" => conv'[echo[e].own].human
           /\ EchoCreate(e) => echo[e].pc = "creating" /\ echo'[e].pc = "recording"
  <1>0. TypeOK /\ TypeOK' /\ Counted /\ conv' \in [Convs -> Rows] /\ conv \in [Convs -> Rows]
        /\ echo \in [Echoes -> EchoStates]
    BY Types DEF RowsInv, TypeOK
  <1>1. ASSUME NEW pc \in EchoPcs, EchoGoes(e, pc)
        PROVE  echo'[e].pc = pc /\ echo'[e].own = echo[e].own /\ echo'[e].human = echo[e].human
    BY <1>0, <1>1, EchoGoesOn
  <1>2. ASSUME NEW c \in Convs, EchoHas(e, c, "recording")
        PROVE  echo'[e].pc = "recording" /\ echo'[e].own = c /\ echo'[e].human = echo[e].human
    BY <1>0, <1>2, EchoHasRow
  <1>3. CASE EchoLook(e)
    <2>1. CASE Found = None
      BY <1>1, <1>3, <2>1 DEF EchoLook, EchoPcs, EchoCreate
    <2>2. CASE Found # None
      <3>1. echo' = [echo EXCEPT ![e] = [pc |-> "recording", own |-> Found,
                                         copy |-> conv[Found].meta, human |-> conv[Found].human]]
        BY <1>3, <2>2 DEF EchoLook
      <3>2. echo'[e].pc = "recording" /\ echo'[e].own = Found
            /\ echo'[e].human = conv[Found].human
        BY <1>0, <3>1
      <3> QED BY <1>3, <3>2 DEF EchoLook, EchoCreate
    <2> QED BY <2>1, <2>2
  <1>4. CASE EchoSeek(e)
    <2>1. CASE Found = None
      BY <1>1, <1>4, <2>1 DEF EchoSeek, EchoPcs, EchoCreate
    <2>2. CASE Found # None
      <3>1. EchoHas(e, Found, "recording") /\ Found \in Convs
        BY <1>0, <1>4, <2>2, FoundMade DEF EchoSeek
      <3> QED BY <1>2, <1>4, <3>1 DEF EchoSeek, EchoCreate
    <2> QED BY <2>1, <2>2
  <1>5. CASE EchoCreate(e)
    <2>1. PICK c \in Convs : EchoHas(e, c, "recording")
      BY <1>5 DEF EchoCreate
    <2> QED BY <1>2, <1>5, <2>1 DEF EchoCreate
  <1>6. CASE EchoRecord(e)
    <2>1. CASE EchoGoes(e, "marking")
      BY <1>1, <1>6, <2>1 DEF EchoRecord, EchoPcs, EchoCreate
    <2>2. CASE EchoGoes(e, AfterRecord(e))
      <3>1. AfterRecord(e) \in EchoPcs
        BY DEF AfterRecord, EchoPcs
      <3>2. echo'[e].pc = AfterRecord(e) /\ echo'[e].own = echo[e].own
            /\ echo'[e].human = echo[e].human
        BY <1>1, <2>2, <3>1
      <3> QED BY <1>6, <3>2 DEF EchoRecord, AfterRecord, EchoCreate
    <2> QED BY <1>6, <2>1, <2>2 DEF EchoRecord
  <1>7. CASE EchoMark(e)
    <2>1. CASE EchoGoes(e, "failed")
      BY <1>1, <1>7, <2>1 DEF EchoMark, EchoPcs, EchoCreate
    <2>2. CASE EchoGoes(e, AfterRecord(e))
      <3>1. AfterRecord(e) \in EchoPcs
        BY DEF AfterRecord, EchoPcs
      <3>2. echo'[e].pc = AfterRecord(e) /\ echo'[e].own = echo[e].own
            /\ echo'[e].human = echo[e].human
        BY <1>1, <2>2, <3>1
      <3> QED BY <1>7, <3>2 DEF EchoMark, AfterRecord, EchoCreate
    <2> QED BY <1>7, <2>1, <2>2 DEF EchoMark
  <1>8. CASE EchoTake(e)
    <2>1. echo[e].own \in Convs
      BY <1>8 DEF EchoTake, RowsInv, Owned, EchoOwningPcs, Made
    <2>2. conv[echo[e].own].gone \/ conv'[echo[e].own].human
      BY <1>0, <1>8, <2>1 DEF EchoTake, Rows
    <2>3. EchoGoes(e, IF conv[echo[e].own].gone THEN "failed" ELSE "done")
      BY <1>8 DEF EchoTake
    <2> QED BY <1>1, <1>8, <2>2, <2>3 DEF EchoTake, EchoPcs, EchoCreate
  <1> QED BY <1>3, <1>4, <1>5, <1>6, <1>7, <1>8 DEF Echo

LEMMA EchoMade ==
    ASSUME RowsInv, NEW e \in Echoes, Echo(e), ~ EchoCreate(e)
    PROVE  Made' = Made
  <1>0. TypeOK /\ conv \in [Convs -> Rows]
    BY Types DEF RowsInv
  <1>1. \/ conv' = conv
        \/ \E c \in Convs : \E r : conv' = [conv EXCEPT ![c] = r] /\ r.made = conv[c].made
    <2>1. CASE EchoLook(e) \/ EchoSeek(e)
      BY <2>1 DEF EchoLook, EchoSeek
    <2>2. CASE EchoRecord(e) \/ EchoMark(e) \/ EchoTake(e)
      <3>1. echo[e].own \in Convs /\ conv[echo[e].own] \in Rows
        BY <1>0, <2>2, Types DEF EchoRecord, EchoMark, EchoTake, RowsInv, Owned, EchoOwningPcs, Made
      <3>2. \/ conv' = conv
            \/ \E b : conv' = [conv EXCEPT ![echo[e].own] = [conv[echo[e].own] EXCEPT !.waits = b]]
            \/ \E b : conv' = [conv EXCEPT ![echo[e].own] = [conv[echo[e].own] EXCEPT !.human = b]]
            \/ \E b : conv' = [conv EXCEPT ![echo[e].own] = [conv[echo[e].own] EXCEPT !.meta = b]]
        BY <2>2 DEF EchoRecord, EchoMark, EchoTake, Replace
      <3>3. \A b : /\ [conv[echo[e].own] EXCEPT !.waits = b].made = conv[echo[e].own].made
                   /\ [conv[echo[e].own] EXCEPT !.human = b].made = conv[echo[e].own].made
                   /\ [conv[echo[e].own] EXCEPT !.meta = b].made = conv[echo[e].own].made
        BY <3>1 DEF Rows
      <3> QED BY <3>1, <3>2, <3>3
    <2>3. CASE EchoCreate(e)
      BY <2>3
    <2> QED BY <2>1, <2>2, <2>3 DEF Echo
  <1>2. \A d \in Convs : conv'[d].made = conv[d].made
    BY <1>0, <1>1
  <1> QED BY <1>2 DEF Made

(* What a member does. *)
LEMMA MemberDoes ==
    ASSUME RowsInv, NEW c \in Convs, Member(c)
    PROVE  /\ Made' = Made /\ UNCHANGED <<turn, echo, sends, raced, dropped>>
           /\ reopened => reopened'
           /\ \A d \in Made : /\ conv'[d].active => conv[d].active \/ reopened'
                              /\ conv[d].gone => conv'[d].gone
                              /\ conv'[d].meta = conv[d].meta
                              /\ conv[d].human => \/ conv'[d].human
                                                  \/ {e \in Echoes : echo[e].own = d} \subseteq released'
           /\ released \subseteq released'
  <1>0. TypeOK /\ Counted /\ conv[c] \in Rows /\ reopened \in BOOLEAN
    BY Types DEF RowsInv, TypeOK
  <1>1. CASE Take(c)
    <2>1. Writes(c) /\ conv'[c] = [conv[c] EXCEPT !.human = TRUE]
      BY <1>0, <1>1, RowFields DEF Take
    <2>2. Made' = Made
      BY <1>0, <2>1, CountedWrites
    <2> QED BY <1>0, <1>1, <2>1, <2>2 DEF Take, history, Writes, Rows, Made
  <1>2. CASE Release(c)
    <2>1. Writes(c) /\ conv'[c] = [conv[c] EXCEPT !.human = FALSE]
      BY <1>0, <1>2, RowFields DEF Release
    <2>2. Made' = Made
      BY <1>0, <2>1, CountedWrites
    <2> QED BY <1>0, <1>2, <2>1, <2>2 DEF Release, Writes, Rows, Made
  <1>3. CASE Close(c)
    <2>1. Writes(c) /\ conv'[c] = [conv[c] EXCEPT !.active = FALSE]
      BY <1>0, <1>3, RowFields DEF Close
    <2>2. Made' = Made
      BY <1>0, <2>1, CountedWrites
    <2> QED BY <1>0, <1>3, <2>1, <2>2 DEF Close, history, Writes, Rows, Made
  <1>4. CASE Reopen(c)
    <2>1. Writes(c) /\ conv'[c] = [conv[c] EXCEPT !.active = TRUE]
      BY <1>0, <1>4, RowFields DEF Reopen
    <2>2. Made' = Made
      BY <1>0, <2>1, CountedWrites
    <2> QED BY <1>0, <1>4, <2>1, <2>2 DEF Reopen, Writes, Rows, Made
  <1>5. CASE Remove(c)
    <2>1. Writes(c) /\ conv'[c] = [conv[c] EXCEPT !.gone = TRUE]
      BY <1>0, <1>5, RowFields DEF Remove
    <2>2. Made' = Made
      BY <1>0, <2>1, CountedWrites
    <2> QED BY <1>0, <1>5, <2>1, <2>2 DEF Remove, history, Writes, Rows, Made
  <1> QED BY <1>1, <1>2, <1>3, <1>4, <1>5 DEF Member

--------------------------------------------------------------------------------
(* At most one is active: whoever creates one found none, and creates alone, *)
OneInv ==
    \/ raced \/ reopened
    \/ /\ \A c, d \in Active : c = d
       /\ Creators # {} => Active = {}
       /\ \A t, u \in Turns : turn[t].pc = "creating" /\ turn[u].pc = "creating" => t = u
       /\ \A e, f \in Echoes : echo[e].pc = "creating" /\ echo[f].pc = "creating" => e = f
       /\ \A t \in Turns, e \in Echoes : ~ (turn[t].pc = "creating" /\ echo[e].pc = "creating")

LEMMA TurnOne ==
    ASSUME RowsInv, OneInv, NEW t \in Turns, Turn(t)
    PROVE  OneInv'
  <1>0. /\ RowsInv' /\ TypeOK /\ Counted /\ echo' = echo /\ KeepsRows /\ KeepsHistory
        /\ \A u \in Turns \ {t} : turn'[u] = turn[u]
    BY TurnRows, TurnKeeps DEF RowsInv, TurnMoves
  <1>1. SUFFICES ASSUME ~ raced', ~ reopened' PROVE OneInv'
    BY DEF OneInv
  <1>2. ~ raced /\ ~ reopened
    BY <1>0, <1>1 DEF KeepsHistory
  <1>3. CASE Create(t)
    <2>1. turn[t].pc = "creating" /\ Active = {}
      BY <1>2, <1>3 DEF Create, OneInv, Creators
    <2>2. turn'[t].pc = "ready"
      BY <1>0, <1>3, TurnBegins DEF Create, Look
    <2>3. PICK c \in Convs \ Made : Creates(c)
      BY <1>0, <1>3, CreatesRow DEF Create
    <2>4. Active' \subseteq {c}
      <3>1. Made' = Made \cup {c}
        BY <1>0, <2>3, CountedCreates
      <3> QED BY <1>0, <2>1, <2>3, <3>1 DEF Active, Creates, Made
    <2> QED BY <1>0, <1>2, <2>1, <2>2, <2>4 DEF OneInv, Creators
  <1>4. CASE ~ Create(t)
    <2>1. Active' \subseteq Active
      BY <1>0, <1>4, TurnMade DEF KeepsRows, Active
    <2>2. CASE turn'[t].pc # "creating"
      <3>1. Creators' \subseteq Creators
        BY <1>0, <2>2 DEF Creators
      <3> QED BY <1>0, <1>2, <2>1, <2>2, <3>1 DEF OneInv
    <2>3. CASE turn'[t].pc = "creating"
      <3>1. Look(t) /\ Found = None
        BY <1>0, <2>3, <1>4, TurnBegins, TurnRereads, TurnGoesOn
      <3>2. Active = {} /\ InVain
        BY <1>0, <3>1, FoundNone DEF Look
      <3>3. Creators = {}
        BY <1>1, <3>2 DEF InVain
      <3> QED BY <1>0, <2>1, <3>2, <3>3 DEF OneInv, Creators
    <2> QED BY <2>2, <2>3
  <1> QED BY <1>3, <1>4

LEMMA EchoOne ==
    ASSUME RowsInv, OneInv, NEW e \in Echoes, Echo(e)
    PROVE  OneInv'
  <1>0. /\ RowsInv' /\ TypeOK /\ Counted /\ turn' = turn /\ KeepsRows /\ KeepsHistory
        /\ \A f \in Echoes \ {e} : echo'[f] = echo[f]
    BY EchoRows, EchoKeeps DEF RowsInv, EchoMoves
  <1>1. SUFFICES ASSUME ~ raced', ~ reopened' PROVE OneInv'
    BY DEF OneInv
  <1>2. ~ raced /\ ~ reopened
    BY <1>0, <1>1 DEF KeepsHistory
  <1>3. CASE EchoCreate(e)
    <2>1. echo[e].pc = "creating" /\ Active = {}
      BY <1>2, <1>3 DEF EchoCreate, OneInv, Creators
    <2>2. echo'[e].pc = "recording"
      BY <1>0, <1>3, EchoGoesWhere
    <2>3. PICK c \in Convs \ Made : Creates(c)
      BY <1>0, <1>3, CreatesRow DEF EchoCreate
    <2>4. Active' \subseteq {c}
      <3>1. Made' = Made \cup {c}
        BY <1>0, <2>3, CountedCreates
      <3> QED BY <1>0, <2>1, <2>3, <3>1 DEF Active, Creates, Made
    <2> QED BY <1>0, <1>2, <2>1, <2>2, <2>4 DEF OneInv, Creators
  <1>4. CASE ~ EchoCreate(e)
    <2>1. Active' \subseteq Active
      BY <1>0, <1>4, EchoMade DEF KeepsRows, Active
    <2>2. CASE echo'[e].pc # "creating"
      <3>1. Creators' \subseteq Creators
        BY <1>0, <2>2 DEF Creators
      <3> QED BY <1>0, <1>2, <2>1, <2>2, <3>1 DEF OneInv
    <2>3. CASE echo'[e].pc = "creating"
      <3>1. Found = None /\ InVain
        BY <1>0, <2>3, EchoGoesWhere
      <3>2. Active = {} /\ Creators = {}
        BY <1>0, <1>1, <3>1, FoundNone DEF InVain
      <3> QED BY <1>0, <2>1, <3>2 DEF OneInv, Creators
    <2> QED BY <2>2, <2>3
  <1> QED BY <1>3, <1>4

LEMMA OneStep ==
    ASSUME RowsInv, OneInv, [Next]_vars
    PROVE  OneInv'
  <1>1. CASE UNCHANGED vars
    BY <1>1 DEF vars, history, OneInv, Active, Made, Creators
  <1>2. ASSUME NEW c \in Convs, Member(c) PROVE OneInv'
    <2>1. SUFFICES ASSUME ~ raced', ~ reopened' PROVE OneInv'
      BY DEF OneInv
    <2>2. ~ raced /\ ~ reopened /\ turn' = turn /\ echo' = echo
      BY <1>2, <2>1, MemberDoes
    <2>3. Active' \subseteq Active
      BY <1>2, <2>1, MemberDoes DEF Active
    <2> QED BY <2>2, <2>3 DEF OneInv, Creators
  <1>3. CASE Night
    <2>1. TypeOK /\ Counted
      BY DEF RowsInv
    <2>2. Active' \subseteq Active /\ turn' = turn /\ echo' = echo /\ raced' = raced
          /\ reopened' = reopened
      BY <1>3, <2>1, NightRows DEF Active, Made, history
    <2> QED BY <2>2 DEF OneInv, Creators
  <1> QED BY <1>1, <1>2, <1>3, TurnOne, EchoOne DEF Next

LEMMA OneInvariance == Spec => [](RowsInv /\ OneInv)
  <1>1. Init => RowsInv /\ OneInv
    <2> SUFFICES ASSUME Init PROVE RowsInv /\ OneInv
      OBVIOUS
    <2>1. /\ conv = [c \in Convs |-> Unmade]
          /\ turn = [t \in Turns |-> [pc |-> "idle", own |-> None, copy |-> {}, human |-> FALSE,
                                      heard |-> {}, shut |-> FALSE]]
          /\ echo = [e \in Echoes |-> [pc |-> "idle", own |-> None, copy |-> {}, human |-> FALSE]]
      BY DEF Init
    <2>2. Active = {} /\ Creators = {}
      BY <2>1 DEF Active, Made, Creators, Unmade
    <2> QED BY <2>2, RowsInit DEF OneInv, Creators
  <1>2. RowsInv /\ OneInv /\ [Next]_vars => (RowsInv /\ OneInv)'
    BY RowsNext, OneStep
  <1> QED BY <1>1, <1>2, PTL DEF Spec

(* A customer has one active conversation at most, unless two looked in vain before either
   created one, or a member reopened an old one. *)
THEOREM OneConversation == Spec => []OneActive
  <1>1. RowsInv /\ OneInv => OneActive
    <2> SUFFICES ASSUME RowsInv, OneInv, ~ raced, ~ reopened PROVE Cardinality(Active) <= 1
      BY DEF OneActive
    <2>1. CASE Active = {}
      BY <2>1, FS_EmptySet
    <2>2. ASSUME NEW c \in Active PROVE Cardinality(Active) <= 1
      <3>1. Active = {c}
        BY <2>2 DEF OneInv
      <3> QED BY <3>1, FS_Singleton
    <2> QED BY <2>1, <2>2
  <1> QED BY <1>1, OneInvariance, PTL

--------------------------------------------------------------------------------
(* An answer that was not withheld had nobody to talk over when it was weighed. *)
Unheard(t) == turn[t].heard = {} \/ turn[t].shut \/ raced \/ reopened

HeardInv ==
    \A t \in Turns :
        /\ turn[t].pc \in {"replying", "sent"} => ~ turn[t].human
        /\ turn[t].pc \in {"answered", "saved", "persisted", "replying", "sent"} /\ ~ turn[t].human =>
             Unheard(t)

LEMMA TurnHeard ==
    ASSUME RowsInv, OneInv, HeardInv, NEW t \in Turns, Turn(t)
    PROVE  HeardInv'
  <1>0. /\ RowsInv' /\ KeepsHistory
        /\ \A u \in Turns \ {t} : turn'[u] = turn[u]
    BY TurnRows, TurnKeeps DEF TurnMoves
  <1>1. /\ turn'[t].pc \in {"replying", "sent"} => ~ turn'[t].human
        /\ turn'[t].pc \in {"answered", "saved", "persisted", "replying", "sent"} /\ ~ turn'[t].human =>
             Unheard(t)'
    <2>1. CASE Look(t) \/ Create(t)
      BY <1>0, <2>1, TurnBegins
    <2>2. CASE Reread(t)
      <3>1. SUFFICES ASSUME ~ turn'[t].human, ~ raced, ~ reopened, ~ turn'[t].shut
                     PROVE  turn'[t].heard = {}
        BY <1>0, <2>2, TurnRereads DEF KeepsHistory, Unheard
      <3>2. ~ conv[turn[t].own].human /\ turn'[t].heard = InHands /\ turn[t].own \in Active
        BY <2>2, <3>1, TurnRereads
      <3> QED BY <3>1, <3>2 DEF OneInv, InHands
    <2>3. CASE ~ Look(t) /\ ~ Create(t) /\ ~ Reread(t)
      <3>1. turn'[t].pc \in {"replying", "sent"} => ~ turn'[t].human
        BY <2>3, TurnGoesOn DEF HeardInv
      <3>2. turn'[t].pc \in {"saved", "persisted", "replying", "sent"} /\ ~ turn'[t].human => Unheard(t)
        BY <2>3, TurnGoesOn DEF HeardInv
      <3>3. Unheard(t) => Unheard(t)'
        BY <1>0, <2>3, TurnGoesOn DEF Unheard, KeepsHistory
      <3> QED BY <2>3, <3>1, <3>2, <3>3, TurnGoesOn
    <2> QED BY <2>1, <2>2, <2>3
  <1> QED BY <1>0, <1>1 DEF HeardInv, Unheard, KeepsHistory

LEMMA HeardStep ==
    ASSUME RowsInv, OneInv, HeardInv, [Next]_vars
    PROVE  HeardInv'
  <1>1. ASSUME turn' = turn, raced => raced', reopened => reopened' PROVE HeardInv'
    BY <1>1 DEF HeardInv, Unheard
  <1>2. CASE UNCHANGED vars
    BY <1>1, <1>2 DEF vars, history
  <1>3. ASSUME NEW e \in Echoes, Echo(e) PROVE HeardInv'
    BY <1>1, <1>3, EchoRows, EchoKeeps DEF KeepsHistory
  <1>4. ASSUME NEW c \in Convs, Member(c) PROVE HeardInv'
    BY <1>1, <1>4, MemberDoes
  <1>5. CASE Night
    BY <1>1, <1>5 DEF Night, history
  <1> QED BY <1>2, <1>3, <1>4, <1>5, TurnHeard DEF Next

(* The workflow does not talk over a person: an answer on its way was let go when no active
   conversation of the customer was in human hands; excepted are a conversation closed or
   deleted under its turn, and two active conversations, by a race or because one was
   reopened. *)
THEOREM NotTalkedOver == Spec => []HumanNotTalkedOver
  <1> DEFINE Inv == RowsInv /\ OneInv /\ HeardInv
  <1>1. Init => HeardInv
    <2> SUFFICES ASSUME Init PROVE HeardInv
      OBVIOUS
    <2>1. turn = [t \in Turns |-> [pc |-> "idle", own |-> None, copy |-> {}, human |-> FALSE,
                                   heard |-> {}, shut |-> FALSE]]
      BY DEF Init
    <2> QED BY <2>1 DEF HeardInv
  <1>2. HeardInv => HumanNotTalkedOver
    BY DEF HeardInv, Unheard, HumanNotTalkedOver
  <1>3. RowsInv /\ OneInv /\ HeardInv /\ [Next]_vars => HeardInv'
    BY HeardStep
  <1> QED BY <1>1, <1>2, <1>3, OneInvariance, PTL DEF Spec

--------------------------------------------------------------------------------
(* An echo that saw a person's hands, or put the conversation into them, sees it stay there
   while no member gives it back. *)
TakenInv ==
    \A e \in Echoes :
        /\ echo[e].pc \in {"idle", "seeking", "creating"} => ~ echo[e].human
        /\ e \notin released =>
             /\ echo[e].pc = "done" => conv[echo[e].own].human
             /\ echo[e].pc \in {"recording", "marking", "taking"} /\ echo[e].human =>
                  conv[echo[e].own].human

LEMMA EchoTaken ==
    ASSUME RowsInv, TakenInv, NEW e \in Echoes, Echo(e)
    PROVE  TakenInv'
  <1>0. /\ RowsInv' /\ KeepsRows /\ KeepsHistory /\ EchoMoves(e)
        /\ \A f \in Echoes \ {e} : echo'[f] = echo[f]
    BY EchoRows, EchoKeeps DEF EchoMoves
  <1>1. ASSUME NEW f \in Echoes, echo[f].pc \in EchoOwningPcs, conv[echo[f].own].human
        PROVE  conv'[echo[f].own].human
    BY <1>0, <1>1 DEF RowsInv, Owned, KeepsRows
  <1>2. ASSUME NEW f \in Echoes \ {e}
        PROVE  /\ echo'[f].pc \in {"idle", "seeking", "creating"} => ~ echo'[f].human
               /\ f \notin released' =>
                    /\ echo'[f].pc = "done" => conv'[echo'[f].own].human
                    /\ echo'[f].pc \in {"recording", "marking", "taking"} /\ echo'[f].human =>
                         conv'[echo'[f].own].human
    BY <1>0, <1>1, <1>2 DEF TakenInv, KeepsHistory, EchoOwningPcs
  <1>3. echo'[e].pc \in {"idle", "seeking", "creating"} => ~ echo'[e].human
    BY <1>0, EchoGoesWhere DEF TakenInv
  <1>4. ASSUME e \notin released', echo'[e].pc = "done"
        PROVE  conv'[echo'[e].own].human
    BY <1>0, <1>1, <1>4, EchoGoesWhere DEF TakenInv, KeepsHistory, EchoOwningPcs
  <1>5. ASSUME e \notin released', echo'[e].human, echo'[e].pc \in {"recording", "marking", "taking"}
        PROVE  conv'[echo'[e].own].human
    <2>1. CASE echo'[e].pc = "recording"
      <3>1. conv' = conv /\ conv[echo'[e].own].human
        BY <1>0, <1>5, <2>1, EchoGoesWhere DEF TakenInv
      <3> QED BY <3>1
    <2>2. CASE echo'[e].pc # "recording"
      BY <1>0, <1>1, <1>5, <2>2, EchoGoesWhere DEF TakenInv, KeepsHistory, EchoOwningPcs
    <2> QED BY <2>1, <2>2
  <1> QED BY <1>2, <1>3, <1>4, <1>5 DEF TakenInv

LEMMA TakenStep ==
    ASSUME RowsInv, TakenInv, [Next]_vars
    PROVE  TakenInv'
  <1>1. ASSUME echo' = echo, released \subseteq released',
               \A e \in Echoes : e \notin released' /\ echo[e].pc \in EchoOwningPcs
                                   /\ conv[echo[e].own].human => conv'[echo[e].own].human
        PROVE  TakenInv'
    BY <1>1 DEF TakenInv, EchoOwningPcs
  <1>2. \A e \in Echoes : echo[e].pc \in EchoOwningPcs => echo[e].own \in Made
    BY DEF RowsInv, Owned
  <1>3. CASE UNCHANGED vars
    BY <1>1, <1>3 DEF vars, history
  <1>4. ASSUME NEW t \in Turns, Turn(t) PROVE TakenInv'
    <2>1. echo' = echo /\ KeepsRows /\ released' = released
      BY <1>4, TurnRows, TurnKeeps DEF KeepsHistory
    <2> QED BY <1>1, <1>2, <2>1 DEF KeepsRows
  <1>5. ASSUME NEW c \in Convs, Member(c) PROVE TakenInv'
    BY <1>1, <1>2, <1>5, MemberDoes
  <1>6. CASE Night
    <2>1. TypeOK /\ Counted
      BY DEF RowsInv
    <2> QED BY <1>1, <1>2, <1>6, <2>1, NightRows DEF history, Made
  <1> QED BY <1>3, <1>4, <1>5, <1>6, EchoTaken DEF Next

(* After a person wrote from the WhatsApp Business app the conversation is in human hands,
   until a member gives it back. *)
THEOREM EchoTakes == Spec => []EchoTakesOver
  <1>1. Init => TakenInv
    <2> SUFFICES ASSUME Init PROVE TakenInv
      OBVIOUS
    <2>1. echo = [e \in Echoes |-> [pc |-> "idle", own |-> None, copy |-> {}, human |-> FALSE]]
      BY DEF Init
    <2> QED BY <2>1 DEF TakenInv
  <1>2. TakenInv => EchoTakesOver
    BY DEF TakenInv, EchoTakesOver
  <1>3. RowsInv /\ TakenInv /\ [Next]_vars => TakenInv'
    BY TakenStep
  <1> QED BY <1>1, <1>2, <1>3, RowsInvariance, PTL DEF Spec

--------------------------------------------------------------------------------
(* What was sent and is not unnoted is on its way into the metadata or in it, for the turns
   go one at a time. *)
Counts(c) == acted[c] > unnoted[c]

ActsInv ==
    /\ \A t, u \in Turns : turn[t].pc \notin {"idle", "over"} /\ turn[u].pc \notin {"idle", "over"} => t = u
    /\ \A c \in Convs : Counts(c) => c \in Made
    /\ \A c \in Convs \ dropped : Counts(c) =>
         \/ "done" \in conv[c].meta
         \/ conv[c].gone
         \/ \E t \in Turns : turn[t].pc = "flagging" /\ turn[t].own = c
    /\ \A t \in Turns : turn[t].pc = "acting" /\ turn[t].own \notin dropped => ~ Counts(turn[t].own)
    /\ ActionOnce

LEMMA TurnActs ==
    ASSUME RowsInv, ActsInv, NEW t \in Turns, Turn(t)
    PROVE  ActsInv'
  <1>0. /\ RowsInv' /\ KeepsRows /\ dropped \subseteq dropped' /\ TypeOK
        /\ \A u \in Turns \ {t} : turn'[u] = turn[u]
        /\ turn \in [Turns -> TurnStates] /\ Made \subseteq Made'
        /\ acted \in [Convs -> Nat] /\ unnoted \in [Convs -> Nat]
    <2>1. Made \subseteq Made'
      BY TurnMade, CreatesRow, CountedCreates DEF RowsInv, Create
    <2> QED BY <2>1, TurnRows, TurnKeeps, Types DEF RowsInv, TurnMoves, KeepsHistory
  <1>1. \A u, v \in Turns : turn'[u].pc \notin {"idle", "over"} /\ turn'[v].pc \notin {"idle", "over"} => u = v
    <2>1. CASE Look(t)
      BY <1>0, <2>1 DEF Look
    <2>2. CASE ~ Look(t)
      <3>1. turn[t].pc \notin {"idle", "over"}
        BY <2>2, TurnGoesOn, TurnRereads DEF Create
      <3> QED BY <1>0, <3>1 DEF ActsInv
    <2> QED BY <2>1, <2>2
  <1>2. CASE Act(t)
    <2>1. /\ turn[t].pc = "acting" /\ acted' = [acted EXCEPT ![turn[t].own] = @ + 1]
          /\ conv' = conv /\ dropped' = dropped /\ unnoted' = unnoted /\ Goes(t, "flagging")
          /\ turn[t].own \in Made /\ turn[t].own \in Convs
      BY <1>2 DEF Act, Sends, history, RowsInv, Owned, OwningPcs, TurnPcs, Made
    <2>2. turn'[t].pc = "flagging" /\ turn'[t].own = turn[t].own
      BY <1>0, <2>1, GoesOn DEF TurnPcs
    <2>3. /\ acted'[turn[t].own] = acted[turn[t].own] + 1
          /\ \A c \in Convs \ {turn[t].own} : acted'[c] = acted[c] /\ (Counts(c)' <=> Counts(c))
      BY <1>0, <2>1 DEF Counts
    <2>4. \A c \in Convs : Counts(c)' => c \in Made'
      BY <1>0, <2>1, <2>3 DEF ActsInv
    <2>5. \A c \in Convs \ dropped' : Counts(c)' =>
            \/ "done" \in conv'[c].meta
            \/ conv'[c].gone
            \/ \E u \in Turns : turn'[u].pc = "flagging" /\ turn'[u].own = c
      <3>1. \A u \in Turns : turn[u].pc = "flagging" => u = t
        BY <2>1 DEF ActsInv
      <3> QED BY <2>1, <2>2, <2>3, <3>1 DEF ActsInv
    <2>6. \A u \in Turns : turn'[u].pc # "acting"
      BY <1>0, <1>1, <2>2
    <2>7. ActionOnce'
      BY <1>0, <2>1, <2>3 DEF ActsInv, ActionOnce, Counts
    <2> QED BY <1>1, <2>4, <2>5, <2>6, <2>7 DEF ActsInv
  <1>3. CASE ActFails(t) \/ FlagFails(t)
    <2>1. /\ turn[t].pc \in {"acting", "flagging"} /\ Goes(t, "over") /\ turn[t].own \in Convs
          /\ conv' = conv /\ dropped' = dropped /\ Made' = Made
      BY <1>3 DEF ActFails, FlagFails, history, RowsInv, Owned, OwningPcs, TurnPcs, Made
    <2>2. turn'[t].pc = "over"
      BY <1>0, <2>1, GoesOn DEF TurnPcs
    <2>3. \A u \in Turns : turn'[u].pc \in {"idle", "over"}
      BY <1>0, <2>1, <2>2 DEF ActsInv
    <2>4. \/ ActFails(t) /\ acted' = acted /\ unnoted' = unnoted
          \/ /\ ActFails(t)
             /\ acted' = [acted EXCEPT ![turn[t].own] = @ + 1]
             /\ unnoted' = [unnoted EXCEPT ![turn[t].own] = @ + 1]
          \/ /\ turn[t].pc = "flagging" /\ acted' = acted
             /\ unnoted' = [unnoted EXCEPT ![turn[t].own] = @ + 1]
      BY <1>3 DEF ActFails, FlagFails, Sends, Unnoted, sends
    <2>5. /\ \A c \in Convs \ {turn[t].own} : acted'[c] = acted[c] /\ unnoted'[c] = unnoted[c]
          /\ \A c \in Convs : Counts(c)' => Counts(c)
          /\ ActionOnce'
      BY <1>0, <2>1, <2>4 DEF Counts, ActionOnce, ActsInv
    <2>6. ASSUME NEW c \in Convs \ dropped', Counts(c)'
          PROVE  "done" \in conv'[c].meta \/ conv'[c].gone
      <3>1. Counts(c) /\ c \notin dropped
        BY <2>1, <2>5, <2>6
      <3>2. CASE \E u \in Turns : turn[u].pc = "flagging" /\ turn[u].own = c
        <4>1. turn[t].pc = "flagging" /\ turn[t].own = c
          BY <2>1, <3>2 DEF ActsInv
        <4>2. ~ ActFails(t)
          BY <4>1 DEF ActFails
        <4>3. unnoted'[c] = unnoted[c] + 1 /\ acted'[c] = acted[c] /\ acted[c] <= 1 + unnoted[c]
          BY <1>0, <2>1, <2>4, <3>1, <4>1, <4>2 DEF ActsInv, ActionOnce
        <4> QED BY <1>0, <2>1, <2>6, <4>3 DEF Counts
      <3> QED BY <2>1, <3>1, <3>2 DEF ActsInv
    <2> QED BY <1>1, <2>1, <2>3, <2>5, <2>6 DEF ActsInv
  <1>4. CASE ~ Act(t) /\ ~ ActFails(t) /\ ~ FlagFails(t)
    <2>1. /\ acted' = acted /\ unnoted' = unnoted
          /\ \A c \in Convs : Counts(c)' <=> Counts(c)
      <3>1. sends' = sends
        BY <1>4 DEF Turn, Look, Create, Ask, Blocked, Reread, Save, Persist, Finish, Send, Review,
                    Flag, TurnFails, sends
      <3> QED BY <3>1 DEF sends, Counts
    <2>2. \A c \in Convs : Counts(c)' => c \in Made'
      BY <1>0, <2>1 DEF ActsInv
    <2>3. ASSUME NEW c \in Convs \ dropped', Counts(c)'
          PROVE  \/ "done" \in conv'[c].meta
                 \/ conv'[c].gone
                 \/ \E u \in Turns : turn'[u].pc = "flagging" /\ turn'[u].own = c
      <3>1. c \in Made /\ c \notin dropped /\ Counts(c)
        BY <1>0, <2>1, <2>3 DEF ActsInv
      <3>2. CASE "done" \in conv[c].meta \/ conv[c].gone
        BY <1>0, <2>3, <3>1, <3>2 DEF KeepsRows
      <3>3. ASSUME NEW u \in Turns, turn[u].pc = "flagging", turn[u].own = c
            PROVE  \/ "done" \in conv'[c].meta
                   \/ conv'[c].gone
                   \/ \E v \in Turns : turn'[v].pc = "flagging" /\ turn'[v].own = c
        <4>1. CASE u # t
          BY <1>0, <3>3, <4>1
        <4>2. CASE u = t
          <5>1. Flag(t)
            <6>1. ~ Look(t) /\ ~ Create(t) /\ ~ Reread(t)
              BY <3>3, <4>2 DEF Look, Create, Reread
            <6> QED BY <1>4, <3>3, <4>2, <6>1, TurnGoesOn
          <5>2. turn[t].copy \cup {"done"} \in SUBSET Entries
            BY <1>0 DEF TurnStates, Entries
          <5>3. CASE conv[c].gone
            BY <1>0, <3>1, <5>3 DEF KeepsRows
          <5>4. CASE Replace(c, turn[t].copy, turn[t].copy \cup {"done"})
            <6>1. conv'[c] = [conv[c] EXCEPT !.meta = turn[t].copy \cup {"done"}] /\ conv[c] \in Rows
              BY <1>0, <5>2, <5>4, Replaces, Types
            <6> QED BY <6>1 DEF Rows
          <5> QED BY <3>3, <4>2, <5>1, <5>3, <5>4 DEF Flag
        <4> QED BY <4>1, <4>2
      <3> QED BY <3>1, <3>2, <3>3 DEF ActsInv
    <2>4. ASSUME NEW u \in Turns, turn'[u].pc = "acting", turn'[u].own \notin dropped'
          PROVE  ~ Counts(turn[u].own)'
      <3>1. CASE u # t
        BY <1>0, <2>1, <2>4, <3>1 DEF ActsInv, Counts
      <3>2. CASE u = t
        <4>1. Review(t) /\ turn'[t].own = turn[t].own
          <5>1. ~ Look(t) /\ ~ Create(t) /\ ~ Reread(t)
            BY <1>0, <2>4, <3>2, TurnBegins, TurnRereads
          <5> QED BY <2>4, <3>2, <5>1, TurnGoesOn
        <4>2. /\ turn[t].pc = "sent" /\ turn[t].own \in Convs
              /\ ~ conv[turn[t].own].gone /\ "done" \notin conv[turn[t].own].meta
          <5>1. turn[t].pc = "sent"
            BY <4>1 DEF Review
          <5>2. turn[t].own \in Convs
            BY <5>1 DEF RowsInv, Owned, OwningPcs, TurnPcs, Made
          <5>3. turn'[t].pc = (IF ~conv[turn[t].own].gone /\ Due(conv[turn[t].own].meta)
                               THEN "acting" ELSE "over")
            BY <1>0, <4>1 DEF Review, TurnStates
          <5> QED BY <2>4, <3>2, <5>1, <5>2, <5>3 DEF Due
        <4>3. \A v \in Turns : turn[v].pc # "flagging"
          BY <4>2 DEF ActsInv
        <4>4. ~ Counts(turn[t].own)
          BY <1>0, <2>4, <3>2, <4>1, <4>2, <4>3 DEF ActsInv
        <4> QED BY <1>0, <2>1, <3>2, <4>1, <4>2, <4>4 DEF Counts
      <3> QED BY <3>1, <3>2
    <2>5. ActionOnce'
      BY <1>0, <2>1 DEF ActsInv, ActionOnce
    <2> QED BY <1>1, <2>2, <2>3, <2>4, <2>5 DEF ActsInv
  <1> QED BY <1>2, <1>3, <1>4

LEMMA ActsStep ==
    ASSUME RowsInv, ActsInv, [Next]_vars
    PROVE  ActsInv'
  <1>1. ASSUME turn' = turn, sends' = sends, Made \subseteq Made', dropped \subseteq dropped',
               \A c \in Made : /\ conv[c].gone => conv'[c].gone
                               /\ "done" \in conv[c].meta => "done" \in conv'[c].meta \/ c \in dropped'
        PROVE  ActsInv'
    BY <1>1 DEF ActsInv, ActionOnce, Counts, sends
  <1>2. CASE UNCHANGED vars
    BY <1>1, <1>2 DEF vars, history, Made
  <1>3. ASSUME NEW e \in Echoes, Echo(e) PROVE ActsInv'
    <2>1. Made \subseteq Made'
      BY <1>3, EchoMade, CreatesRow, CountedCreates DEF RowsInv, EchoCreate
    <2> QED BY <1>1, <1>3, <2>1, EchoRows, EchoKeeps DEF KeepsRows, KeepsHistory
  <1>4. ASSUME NEW c \in Convs, Member(c) PROVE ActsInv'
    BY <1>1, <1>4, MemberDoes
  <1>5. CASE Night
    <2>1. TypeOK /\ Counted
      BY DEF RowsInv
    <2> QED BY <1>1, <1>5, <2>1, NightRows DEF history, Made
  <1> QED BY <1>2, <1>3, <1>4, <1>5, TurnActs DEF Next

(* An action declared once per conversation reaches the customer once, and once more for each
   time it was sent in whole or in part and the flag was not written, unless a stale copy of
   the metadata wiped the flag out. *)
THEOREM ActsOnce == Spec => []ActionOnce
  <1>1. Init => ActsInv
    <2> SUFFICES ASSUME Init PROVE ActsInv
      OBVIOUS
    <2>1. acted = [c \in Convs |-> 0] /\ unnoted = [c \in Convs |-> 0]
      BY DEF Init
    <2>2. turn = [t \in Turns |-> [pc |-> "idle", own |-> None, copy |-> {}, human |-> FALSE,
                                   heard |-> {}, shut |-> FALSE]]
      BY DEF Init
    <2>3. \A c \in Convs : acted[c] = 0 /\ unnoted[c] = 0
      BY <2>1
    <2>4. \A t \in Turns : turn[t].pc = "idle"
      BY <2>2
    <2> HIDE <2>1, <2>2
    <2> QED BY <2>3, <2>4 DEF ActsInv, ActionOnce, Counts
  <1>2. ActsInv => ActionOnce
    BY DEF ActsInv
  <1>3. RowsInv /\ ActsInv /\ [Next]_vars => ActsInv'
    BY ActsStep
  <1> QED BY <1>1, <1>2, <1>3, RowsInvariance, PTL DEF Spec

--------------------------------------------------------------------------------
(* The running summary. *)

Compacting(t) == Acquire(t) \/ Compact(t) \/ Breaks(t) \/ Abandon(t)

(* While no lock went stale under a turn, one turn works and the lock is its own. *)
Sole ==
    ~ late => /\ \A t, u \in Working : t = u
              /\ Working # {} => locked /\ fresh

(* A turn has read no more than there is, and archives none of the most recent. *)
ReadSoFar == \A t \in Executions :
    /\ run[t].len <= len
    /\ run[t].pc \in {"summarised", "versioned"}
          => run[t].made.to + RecentToKeep <= run[t].len

(* Such a turn builds on the summary that is active. *)
OnTopOfActive == ~ late => \A t \in Executions :
    /\ run[t].pc = "read" => active.to <= run[t].len
    /\ run[t].pc = "chosen" => run[t].base = active /\ active.to <= run[t].len
    /\ run[t].pc \in {"summarised", "versioned"}
          => run[t].made.to >= active.to + MinBatch

CompactInv == Sole /\ ReadSoFar /\ RecentKept /\ OnTopOfActive

(* Every summary in hand covers the messages up to its end, but for those that were cut. *)
Covers(s) == 1 .. s.to \subseteq s.cov \cup s.cut

AllCover ==
    /\ Covers(active)
    /\ \A t \in Executions : Covers(run[t].base) /\ Covers(run[t].made)

--------------------------------------------------------------------------------
(* The numbers of a batch worth archiving. *)
LEMMA BatchBounds ==
    ASSUME CompactionTypeOK, NEW t \in Executions, WorthIt(t)
    PROVE  /\ First(t) \in Nat /\ First(t) >= 1
           /\ Last(t) \in 1 .. MaxLen
           /\ Last(t) >= First(t) + MinBatch - 1
           /\ Last(t) + RecentToKeep = run[t].len
<1>1. run[t].len \in 0 .. MaxLen /\ run[t].base.to \in 0 .. MaxLen
  BY DEF CompactionTypeOK, RunStates, Summaries
<1>. QED
  BY <1>1, SizesAssumption DEF WorthIt, First, Last

(* What it is merged into is a summary. *)
LEMMA MergedType ==
    ASSUME CompactionTypeOK, NEW t \in Executions, WorthIt(t)
    PROVE  Merged(t) \in Summaries
<1>1. run[t].base.cov \subseteq Ids /\ run[t].base.cut \subseteq Ids
  BY DEF CompactionTypeOK, RunStates, Summaries
<1>2. Batch(t) \subseteq Ids /\ Tail(t) \subseteq Batch(t)
  BY BatchBounds, SizesAssumption DEF Batch, Tail, Ids
<1>3. Last(t) \in 0 .. MaxLen
  BY BatchBounds, SizesAssumption
<1>. QED
  BY <1>1, <1>2, <1>3 DEF Merged, Summaries

(* Every turn's record keeps its type when turns change at most these fields. *)
LEMMA CompactingType ==
    ASSUME CompactionTypeOK, NEW t \in Executions, Compacting(t)
    PROVE  run' \in [Executions -> RunStates]
<1>. USE DEF CompactionTypeOK
<1>1. run[t] \in RunStates /\ len \in 0 .. MaxLen /\ active \in Summaries
  OBVIOUS
<1>2. IdleRun \in RunStates
  <2>1. NoSummary \in Summaries
    BY SizesAssumption DEF NoSummary, Summaries
  <2>. QED
    BY <2>1, SizesAssumption DEF IdleRun, RunStates
<1>3. ASSUME NEW pc \in WorkPcs, Goto(t, pc)
      PROVE  run' \in [Executions -> RunStates]
  BY <1>1, <1>3 DEF Goto, RunStates
<1>4. ASSUME NEW s \in RunStates, run' = Clashing(t, s)
      PROVE  run' \in [Executions -> RunStates]
  <2>1. \A u \in Executions : [run[u] EXCEPT !.clash = @ \/ At(u, "versioned")] \in RunStates
    BY DEF RunStates, At
  <2>. QED
    BY <1>4, <2>1 DEF Clashing
<1>5. CASE Acquire(t)
  BY <1>3, <1>5 DEF Acquire, WorkPcs
<1>6. CASE ReadHistory(t)
  BY <1>1, <1>6 DEF ReadHistory, RunStates, WorkPcs
<1>7. CASE ReadActive(t)
  BY <1>1, <1>7 DEF ReadActive, RunStates, WorkPcs
<1>8. CASE Skip(t)
  BY <1>3, <1>8 DEF Skip, WorkPcs
<1>9. CASE Summarise(t)
  <2>1. Merged(t) \in Summaries
    BY <1>9, MergedType DEF Summarise
  <2>. QED
    BY <1>1, <1>9, <2>1 DEF Summarise, RunStates, WorkPcs
<1>10. CASE ReadVersion(t)
  BY <1>1, <1>10 DEF ReadVersion, RunStates, WorkPcs
<1>11. [run[t] EXCEPT !.pc = "releasing"] \in RunStates
  BY <1>1 DEF RunStates, WorkPcs
<1>12. CASE Activate(t)
  BY <1>3, <1>4, <1>11, <1>12 DEF Activate, WorkPcs
<1>13. CASE RecordFailed(t)
  BY <1>3, <1>4, <1>11, <1>13 DEF RecordFailed, WorkPcs
<1>14. CASE ReleaseLock(t)
  BY <1>2, <1>14 DEF ReleaseLock
<1>15. CASE Breaks(t)
  BY <1>3, <1>15 DEF Breaks, WorkPcs
<1>16. CASE Abandon(t)
  BY <1>2, <1>16 DEF Abandon
<1>. QED
  BY <1>5, <1>6, <1>7, <1>8, <1>9, <1>10, <1>12, <1>13, <1>14, <1>15, <1>16 DEF Compacting, Compact

(* The turns that do not act keep what the invariants look at. *)
LEMMA OthersKeep ==
    ASSUME CompactionTypeOK, NEW t \in Executions, Compacting(t)
    PROVE  \A u \in Executions : u # t =>
              /\ run'[u].pc = run[u].pc /\ run'[u].len = run[u].len
              /\ run'[u].base = run[u].base /\ run'[u].made = run[u].made
<1>1. \A u \in Executions : run[u] \in RunStates
  BY DEF CompactionTypeOK
<1>2. DOMAIN run = Executions
  BY DEF CompactionTypeOK
<1>3. CASE \E s : run' = [run EXCEPT ![t] = s]
  BY <1>2, <1>3
<1>4. ASSUME NEW s, run' = Clashing(t, s)
      PROVE  \A u \in Executions : u # t =>
                run'[u] = [run[u] EXCEPT !.clash = @ \/ At(u, "versioned")]
  BY <1>4 DEF Clashing
<1>5. CASE \E s : run' = Clashing(t, s)
  <2>1. PICK s : run' = Clashing(t, s)
    BY <1>5
  <2>. QED
    BY <1>1, <1>4, <2>1 DEF RunStates
<1>6. \/ \E s : run' = [run EXCEPT ![t] = s]
      \/ \E s : run' = Clashing(t, s)
  <2>1. CASE Acquire(t) \/ ReadHistory(t) \/ ReadActive(t) \/ Skip(t) \/ Summarise(t)
    BY <2>1 DEF Acquire, ReadHistory, ReadActive, Skip, Summarise, Goto
  <2>2. CASE ReadVersion(t) \/ Activate(t) \/ RecordFailed(t)
    BY <2>2 DEF ReadVersion, Activate, RecordFailed, Goto
  <2>3. CASE ReleaseLock(t) \/ Breaks(t) \/ Abandon(t)
    BY <2>3 DEF ReleaseLock, Breaks, Abandon, Goto
  <2>. QED
    BY <2>1, <2>2, <2>3 DEF Compacting, Compact
<1>. QED
  BY <1>3, <1>5, <1>6

(* What a step makes of the turn that acts. *)
LEMMA OwnStep ==
    ASSUME CompactionTypeOK, NEW t \in Executions, Compacting(t)
    PROVE  \/ run'[t] = IdleRun
           \/ /\ run'[t].pc \in {"locked", "failing", "releasing"}
              /\ run'[t].len = run[t].len /\ run'[t].base = run[t].base
              /\ run'[t].made = run[t].made
           \/ /\ ReadHistory(t) /\ run'[t].pc = "read" /\ run'[t].len = len
              /\ run'[t].base = run[t].base /\ run'[t].made = run[t].made
           \/ /\ ReadActive(t) /\ run'[t].pc = "chosen" /\ run'[t].len = run[t].len
              /\ run'[t].base = active /\ run'[t].made = run[t].made
           \/ /\ Summarise(t) /\ run'[t].pc = "summarised" /\ run'[t].len = run[t].len
              /\ run'[t].base = run[t].base /\ run'[t].made = Merged(t)
           \/ /\ ReadVersion(t) /\ run'[t].pc = "versioned" /\ run'[t].len = run[t].len
              /\ run'[t].base = run[t].base /\ run'[t].made = run[t].made
<1>1. run[t] \in RunStates /\ DOMAIN run = Executions
  BY DEF CompactionTypeOK
<1>2. CASE ReadHistory(t)
  BY <1>1, <1>2 DEF ReadHistory, RunStates
<1>3. CASE ReadActive(t)
  BY <1>1, <1>3 DEF ReadActive, RunStates
<1>4. CASE Summarise(t)
  BY <1>1, <1>4 DEF Summarise, RunStates
<1>5. CASE ReadVersion(t)
  BY <1>1, <1>5 DEF ReadVersion, RunStates
<1>6. CASE ReleaseLock(t) \/ Abandon(t)
  BY <1>1, <1>6 DEF ReleaseLock, Abandon
<1>7. ASSUME NEW pc \in {"locked", "failing", "releasing"},
             run'[t] = [run[t] EXCEPT !.pc = pc]
      PROVE  /\ run'[t].pc \in {"locked", "failing", "releasing"}
             /\ run'[t].len = run[t].len /\ run'[t].base = run[t].base
             /\ run'[t].made = run[t].made
  BY <1>1, <1>7 DEF RunStates
<1>8. CASE Acquire(t) \/ Skip(t) \/ Breaks(t)
  <2>1. \E pc \in {"locked", "failing", "releasing"} : run'[t] = [run[t] EXCEPT !.pc = pc]
    BY <1>1, <1>8 DEF Acquire, Skip, Breaks, Goto
  <2>. QED
    BY <1>7, <2>1
<1>9. CASE Activate(t) \/ RecordFailed(t)
  <2>1. \E pc \in {"locked", "failing", "releasing"} : run'[t] = [run[t] EXCEPT !.pc = pc]
    BY <1>1, <1>9 DEF Activate, RecordFailed, Goto, Clashing
  <2>. QED
    BY <1>7, <2>1
<1>. QED
  BY <1>2, <1>3, <1>4, <1>5, <1>6, <1>8, <1>9 DEF Compacting, Compact

--------------------------------------------------------------------------------
(* Types: tryAcquireCompactionLock, compactConversationIfThresholdReached and
   createAndActivateCompaction keep the lock, the summaries and the turns in their
   ranges. *)
THEOREM CompactionTypeCorrect == CompactionSpec => []CompactionTypeOK
<1>1. CompactionInit => CompactionTypeOK
  <2>1. NoSummary \in Summaries
    BY SizesAssumption DEF NoSummary, Summaries
  <2>2. IdleRun \in RunStates
    BY <2>1, SizesAssumption DEF IdleRun, RunStates
  <2>3. ASSUME CompactionInit PROVE run \in [Executions -> RunStates]
    BY <2>2, <2>3 DEF CompactionInit
  <2>4. MaxLen \in Nat /\ MaxFailures \in Nat
    BY SizesAssumption
  <2>5. ASSUME CompactionInit PROVE len \in 0 .. MaxLen /\ failures \in 0 .. MaxFailures
    BY <2>4, <2>5 DEF CompactionInit
  <2>6. ASSUME CompactionInit PROVE locked \in BOOLEAN /\ fresh \in BOOLEAN /\ late \in BOOLEAN
    BY <2>6 DEF CompactionInit
  <2>7. ASSUME CompactionInit PROVE active \in Summaries
    BY <2>1, <2>7 DEF CompactionInit
  <2>. QED
    BY <2>3, <2>5, <2>6, <2>7 DEF CompactionTypeOK
<1>2. CompactionTypeOK /\ [CompactionNext]_compactionVars => CompactionTypeOK'
  <2>. SUFFICES ASSUME CompactionTypeOK, [CompactionNext]_compactionVars PROVE CompactionTypeOK'
    OBVIOUS
  <2>1. CASE Write
    BY <2>1, SizesAssumption DEF Write, CompactionTypeOK, lock
  <2>2. CASE Expire
    BY <2>2 DEF Expire, CompactionTypeOK
  <2>3. CASE UNCHANGED compactionVars
    BY <2>3 DEF compactionVars, lock, CompactionTypeOK
  <2>4. ASSUME NEW t \in Executions, Compacting(t) PROVE CompactionTypeOK'
    <3>1. run' \in [Executions -> RunStates]
      BY <2>4, CompactingType
    <3>2. len' = len /\ late' = late
      BY <2>4 DEF Compacting, Compact, Acquire, ReadHistory, ReadActive, Skip, Summarise,
                  ReadVersion, Activate, RecordFailed, ReleaseLock, Breaks, Abandon
    <3>3. locked' \in BOOLEAN /\ fresh' \in BOOLEAN
      BY <2>4 DEF Compacting, Compact, Acquire, ReadHistory, ReadActive, Skip, Summarise,
                  ReadVersion, Activate, RecordFailed, ReleaseLock, Breaks, Abandon, lock, CompactionTypeOK
    <3>4. active' \in Summaries
      <4>1. run[t].made \in Summaries
        BY DEF CompactionTypeOK, RunStates
      <4>. QED
        BY <2>4, <4>1 DEF Compacting, Compact, Acquire, ReadHistory, ReadActive, Skip, Summarise,
                    ReadVersion, Activate, RecordFailed, ReleaseLock, Breaks, Abandon, CompactionTypeOK
    <3>5. failures' \in 0 .. MaxFailures
      <4>1. failures' = failures \/ (failures < MaxFailures /\ failures' = failures + 1)
        BY <2>4 DEF Compacting, Compact, Acquire, ReadHistory, ReadActive, Skip, Summarise,
                    ReadVersion, Activate, RecordFailed, ReleaseLock, Breaks, Abandon, Failure
      <4>. QED
        BY <4>1, SizesAssumption DEF CompactionTypeOK
    <3>. QED
      BY <3>1, <3>2, <3>3, <3>4, <3>5 DEF CompactionTypeOK
  <2>. QED
    BY <2>1, <2>2, <2>3, <2>4 DEF CompactionNext, Compacting
<1>. QED
  BY <1>1, <1>2, PTL DEF CompactionSpec

--------------------------------------------------------------------------------
(* A step of a turn keeps the invariant. *)
LEMMA CompactingKeepsInv ==
    ASSUME CompactionTypeOK, CompactionTypeOK', CompactInv, NEW t \in Executions, Compacting(t)
    PROVE  CompactInv'
<1>1. \A u \in Executions : u # t =>
          /\ run'[u].pc = run[u].pc /\ run'[u].len = run[u].len
          /\ run'[u].base = run[u].base /\ run'[u].made = run[u].made
  BY OthersKeep
<1>2. len' = len /\ late' = late
  BY DEF Compacting, Compact, Acquire, ReadHistory, ReadActive, Skip, Summarise,
         ReadVersion, Activate, RecordFailed, ReleaseLock, Breaks, Abandon
<1>3. run[t] \in RunStates /\ run \in [Executions -> RunStates] /\ run' \in [Executions -> RunStates]
  BY DEF CompactionTypeOK
<1>4. \A u \in Executions : /\ run[u].len \in Nat /\ run[u].made.to \in Nat
                       /\ run[u].base.to \in Nat
  BY DEF CompactionTypeOK, RunStates, Summaries
<1>5. len \in Nat /\ active.to \in Nat /\ RecentToKeep \in Nat /\ MinBatch \in Nat
  BY SizesAssumption DEF CompactionTypeOK, Summaries
<1>6. ~ Acquire(t) => t \in Working
  BY DEF Compacting, Compact, ReadHistory, ReadActive, Skip, Summarise, ReadVersion, Activate,
         RecordFailed, ReleaseLock, Breaks, Abandon, At, Working, WorkPcs
<1>7. Sole'
  <2>1. CASE Acquire(t)
    <3>1. ~ late => Working = {}
      BY <2>1 DEF Acquire, LockFree, CompactInv, Sole
    <3>2. Working' \subseteq Working \cup {t}
      BY <1>1 DEF Working
    <3>. QED
      BY <2>1, <1>2, <3>1, <3>2 DEF Acquire, Sole
  <2>2. CASE ReleaseLock(t) \/ Abandon(t)
    <3>1. run'[t].pc = "idle"
      BY <2>2, <1>3 DEF ReleaseLock, Abandon, IdleRun
    <3>2. Working' \subseteq Working \ {t}
      BY <1>1, <3>1 DEF Working, WorkPcs
    <3>3. t \in Working
      BY <1>6, <2>2 DEF ReleaseLock, Abandon, At, Working, WorkPcs
    <3>4. ~ late => Working' = {}
      BY <3>2, <3>3 DEF CompactInv, Sole
    <3>. QED
      BY <1>2, <3>4 DEF Sole
  <2>3. CASE ~ (Acquire(t) \/ ReleaseLock(t) \/ Abandon(t))
    <3>1. locked' = locked /\ fresh' = fresh
      BY <2>3 DEF Compacting, Compact, ReadHistory, ReadActive, Skip, Summarise,
                  ReadVersion, Activate, RecordFailed, Breaks, lock
    <3>2. t \in Working
      BY <1>6, <2>3
    <3>3. Working' \subseteq Working
      BY <1>1, <3>2 DEF Working
    <3>. QED
      BY <1>2, <3>1, <3>2, <3>3 DEF CompactInv, Sole
  <2>. QED
    BY <2>1, <2>2, <2>3
<1>8. ReadSoFar'
  <2>1. run'[t].len <= len
    <3>1. run'[t].len = run[t].len \/ run'[t].len = len \/ run'[t].len = 0
      BY OwnStep DEF IdleRun
    <3>. QED
      BY <3>1, <1>4, <1>5 DEF CompactInv, ReadSoFar
  <2>2. run'[t].pc \in {"summarised", "versioned"}
          => run'[t].made.to + RecentToKeep <= run'[t].len
    <3>1. CASE Summarise(t)
      <4>1. run'[t].made = Merged(t) /\ run'[t].len = run[t].len
        BY <1>3, <3>1 DEF Summarise, RunStates
      <4>2. run'[t].made.to = Last(t)
        BY <4>1 DEF Merged
      <4>. QED
        BY <3>1, <4>1, <4>2, <1>4, BatchBounds, SizesAssumption DEF Summarise, Last
    <3>2. CASE ReadVersion(t)
      <4>1. run'[t].made = run[t].made /\ run'[t].len = run[t].len
        BY <1>3, <3>2 DEF ReadVersion, RunStates
      <4>. QED
        BY <3>2, <4>1 DEF ReadVersion, At, CompactInv, ReadSoFar
    <3>3. CASE ~ (Summarise(t) \/ ReadVersion(t))
      <4>1. run'[t].pc \notin {"summarised", "versioned"}
        BY <3>3, OwnStep DEF IdleRun
      <4>. QED
        BY <4>1
    <3>. QED
      BY <3>1, <3>2, <3>3
  <2>. QED
    BY <1>1, <1>2, <2>1, <2>2 DEF CompactInv, ReadSoFar
<1>9. RecentKept'
  <2>1. active' = active \/ (At(t, "versioned") /\ active' = run[t].made)
    BY DEF Compacting, Compact, Acquire, ReadHistory, ReadActive, Skip, Summarise,
           ReadVersion, Activate, RecordFailed, ReleaseLock, Breaks, Abandon
  <2>2. At(t, "versioned") => run[t].made.to + RecentToKeep <= len
    BY <1>4, <1>5 DEF At, CompactInv, ReadSoFar
  <2>. QED
    BY <1>2, <2>1, <2>2 DEF CompactInv, RecentKept
<1>10. OnTopOfActive'
  <2>. SUFFICES ASSUME ~ late, NEW u \in Executions
                PROVE  /\ run'[u].pc = "read" => active'.to <= run'[u].len
                       /\ run'[u].pc = "chosen"
                             => run'[u].base = active' /\ active'.to <= run'[u].len
                       /\ run'[u].pc \in {"summarised", "versioned"}
                             => run'[u].made.to >= active'.to + MinBatch
    BY <1>2 DEF OnTopOfActive
  <2>1. CASE Activate(t)
    <3>1. t \in Working
      BY <1>6, <2>1 DEF Activate, At, Working, WorkPcs
    <3>2. run'[t].pc \notin {"read", "chosen", "summarised", "versioned"}
      BY <2>1, <1>3 DEF Activate, Goto, Clashing, RunStates
    <3>3. u # t => run'[u].pc \notin {"read", "chosen", "summarised", "versioned"}
      BY <1>1, <3>1 DEF CompactInv, Sole, Working, WorkPcs
    <3>. QED
      BY <3>2, <3>3
  <2>2. CASE ~ Activate(t)
    <3>1. active' = active
      BY <2>2 DEF Compacting, Compact, Acquire, ReadHistory, ReadActive, Skip, Summarise,
             ReadVersion, RecordFailed, ReleaseLock, Breaks, Abandon
    <3>2. CASE u # t
      BY <1>1, <3>1, <3>2 DEF CompactInv, OnTopOfActive
    <3>3. CASE u = t /\ ReadHistory(t)
      <4>1. run'[t].pc = "read" /\ run'[t].len = len
        BY <1>3, <3>3 DEF ReadHistory, RunStates
      <4>. QED
        BY <3>1, <3>3, <4>1, <1>5 DEF CompactInv, RecentKept
    <3>4. CASE u = t /\ ReadActive(t)
      <4>1. run'[t].pc = "chosen" /\ run'[t].len = run[t].len /\ run'[t].base = active
        BY <1>3, <3>4 DEF ReadActive, RunStates
      <4>. QED
        BY <3>1, <3>4, <4>1 DEF ReadActive, At, CompactInv, OnTopOfActive
    <3>5. CASE u = t /\ Summarise(t)
      <4>1. run'[t].pc = "summarised" /\ run'[t].made.to = Last(t)
        BY <1>3, <3>5 DEF Summarise, RunStates, Merged
      <4>2. run[t].base = active /\ active.to <= run[t].len
        BY <3>5 DEF Summarise, At, CompactInv, OnTopOfActive
      <4>3. First(t) = active.to + 1
        BY <4>2, <1>4, <1>5 DEF First
      <4>. QED
        BY <3>1, <3>5, <4>1, <4>3, <1>5, BatchBounds DEF Summarise
    <3>6. CASE u = t /\ ReadVersion(t)
      <4>1. run'[t].pc = "versioned" /\ run'[t].made = run[t].made
        BY <1>3, <3>6 DEF ReadVersion, RunStates
      <4>. QED
        BY <3>1, <3>6, <4>1 DEF ReadVersion, At, CompactInv, OnTopOfActive
    <3>7. CASE u = t /\ ~ (ReadHistory(t) \/ ReadActive(t) \/ Summarise(t) \/ ReadVersion(t))
      <4>1. run'[t].pc \notin {"read", "chosen", "summarised", "versioned"}
        BY <3>7, OwnStep DEF IdleRun
      <4>. QED
        BY <3>7, <4>1
    <3>. QED
      BY <3>2, <3>3, <3>4, <3>5, <3>6, <3>7
  <2>. QED
    BY <2>1, <2>2
<1>. QED
  BY <1>7, <1>8, <1>9, <1>10 DEF CompactInv

(* The invariant behind the theorems. *)
THEOREM CompactInvariant == CompactionSpec => []CompactInv
<1>1. CompactionInit => CompactInv
  <2>. SUFFICES ASSUME CompactionInit PROVE CompactInv
    OBVIOUS
  <2>1. \A t \in Executions : run[t].pc = "idle" /\ run[t].len = 0
    BY DEF CompactionInit, IdleRun
  <2>2. Working = {}
    BY <2>1 DEF Working, WorkPcs
  <2>. QED
    BY <2>1, <2>2 DEF CompactionInit, NoSummary, CompactInv, Sole, ReadSoFar, RecentKept, OnTopOfActive
<1>2. CompactionTypeOK /\ CompactionTypeOK' /\ CompactInv /\ [CompactionNext]_compactionVars => CompactInv'
  <2>. SUFFICES ASSUME CompactionTypeOK, CompactionTypeOK', CompactInv, [CompactionNext]_compactionVars PROVE CompactInv'
    OBVIOUS
  <2>1. CASE Write
    <3>1. len \in Nat /\ len' = len + 1 /\ active.to \in Nat /\ RecentToKeep \in Nat
      BY <2>1, SizesAssumption DEF Write, CompactionTypeOK, Summaries
    <3>2. \A t \in Executions : run[t].len \in Nat
      BY DEF CompactionTypeOK, RunStates
    <3>3. ReadSoFar'
      BY <2>1, <3>1, <3>2 DEF Write, CompactInv, ReadSoFar
    <3>4. RecentKept'
      BY <2>1, <3>1 DEF Write, CompactInv, RecentKept
    <3>5. Sole' /\ OnTopOfActive'
      BY <2>1 DEF Write, lock, CompactInv, Sole, OnTopOfActive, Working
    <3>. QED
      BY <3>3, <3>4, <3>5 DEF CompactInv
  <2>2. CASE Expire
    <3>1. late \in BOOLEAN
      BY DEF CompactionTypeOK
    <3>2. ~ late' => ~ late /\ Working = {}
      BY <2>2, <3>1 DEF Expire
    <3>3. Working' = Working
      BY <2>2 DEF Expire, Working
    <3>4. Sole'
      BY <3>2, <3>3 DEF Sole
    <3>5. ReadSoFar' /\ RecentKept'
      BY <2>2 DEF Expire, CompactInv, ReadSoFar, RecentKept
    <3>6. OnTopOfActive'
      BY <2>2, <3>2 DEF Expire, CompactInv, OnTopOfActive
    <3>. QED
      BY <3>4, <3>5, <3>6 DEF CompactInv
  <2>3. CASE UNCHANGED compactionVars
    BY <2>3 DEF compactionVars, lock, CompactInv, Sole, ReadSoFar, RecentKept, OnTopOfActive, Working
  <2>4. ASSUME NEW t \in Executions, Compacting(t) PROVE CompactInv'
    BY <2>4, CompactingKeepsInv
  <2>. QED
    BY <2>1, <2>2, <2>3, <2>4 DEF CompactionNext, Compacting
<1>. QED
  BY <1>1, <1>2, CompactionTypeCorrect, PTL DEF CompactionSpec

(* The lock of tryAcquireCompactionLock admits one turn, until one outlives it. *)
THEOREM CompactsAlone == CompactionSpec => []OneCompactor
<1>1. CompactInv => OneCompactor
  BY DEF CompactInv, Sole, OneCompactor
<1>. QED
  BY <1>1, CompactInvariant, PTL

(* selectMessagesToArchive never gives the most recent messages away, whatever is
   written meanwhile and however long a compaction takes. *)
THEOREM RecentStays == CompactionSpec => []RecentKept
<1>1. CompactInv => RecentKept
  BY DEF CompactInv
<1>. QED
  BY <1>1, CompactInvariant, PTL

(* Until a lock is outlived, each summary that is activated reaches at least a batch
   further than the one it replaces. *)
THEOREM Advances == CompactionSpec => SummaryAdvances
<1>1. CompactionTypeOK /\ CompactInv /\ [CompactionNext]_compactionVars
        => [active' # active /\ ~ late => active'.to >= active.to + MinBatch]_compactionVars
  <2>. SUFFICES ASSUME CompactionTypeOK, CompactInv, CompactionNext, active' # active, ~ late
                PROVE  active'.to >= active.to + MinBatch
    BY DEF compactionVars
  <2>1. PICK t \in Executions : Activate(t)
    BY DEF CompactionNext, Write, Expire, Compact, Acquire, ReadHistory, ReadActive, Skip, Summarise,
           ReadVersion, RecordFailed, ReleaseLock, Breaks, Abandon
  <2>. QED
    BY <2>1 DEF Activate, At, CompactInv, OnTopOfActive
<1>. QED
  BY <1>1, CompactionTypeCorrect, CompactInvariant, PTL DEF CompactionSpec, SummaryAdvances

--------------------------------------------------------------------------------
(* A merge covers what its base covers and the batch, when the batch fits. *)
LEMMA MergeCovers ==
    ASSUME CompactionTypeOK, NEW t \in Executions, WorthIt(t), Covers(run[t].base)
    PROVE  Covers(Merged(t))
<1>1. run[t].base.to \in 0 .. MaxLen
  BY DEF CompactionTypeOK, RunStates, Summaries
<1>2. Last(t) \in 1 .. MaxLen
  BY BatchBounds
<1>3. \A i \in 1 .. Last(t) : i < First(t) => i \in run[t].base.cov \cup run[t].base.cut
  BY <1>1, <1>2, SizesAssumption DEF First, Covers
<1>4. First(t) \in Nat
  BY BatchBounds
<1>5. \A i \in 1 .. Last(t) : i >= First(t) => i \in Batch(t)
  BY <1>2, <1>4 DEF Batch
<1>6. 1 .. Last(t) \subseteq Merged(t).cov \cup Merged(t).cut
  BY <1>2, <1>3, <1>4, <1>5 DEF Merged
<1>. QED
  BY <1>6 DEF Merged, Covers

(* No message falls out of the summaries, however compactions overlap, but for the beginning
   of a batch that exceeded what the model is shown (maxArchivedMessagesForSummary). *)
THEOREM NothingIsSkipped == CompactionSpec => []NothingSkipped
<1>1. CompactionInit => AllCover
  BY DEF CompactionInit, IdleRun, NoSummary, AllCover, Covers
<1>2. CompactionTypeOK /\ AllCover /\ [CompactionNext]_compactionVars => AllCover'
  <2>. SUFFICES ASSUME CompactionTypeOK, AllCover, [CompactionNext]_compactionVars PROVE AllCover'
    OBVIOUS
  <2>1. CASE Write \/ Expire \/ UNCHANGED compactionVars
    BY <2>1 DEF Write, Expire, compactionVars, AllCover, Covers
  <2>2. ASSUME NEW t \in Executions, Compacting(t) PROVE AllCover'
    <3>1. \A u \in Executions : u # t =>
              run'[u].base = run[u].base /\ run'[u].made = run[u].made
      BY <2>2, OthersKeep
    <3>2. IdleRun.base = NoSummary /\ IdleRun.made = NoSummary
      BY DEF IdleRun
    <3>3. active' = active \/ active' = run[t].made
      BY <2>2 DEF Compacting, Compact, Acquire, ReadHistory, ReadActive, Skip, Summarise,
             ReadVersion, Activate, RecordFailed, ReleaseLock, Breaks, Abandon
    <3>4. \/ run'[t].base = run[t].base
          \/ run'[t].base = active
          \/ run'[t].base = NoSummary
      BY <2>2, <3>2, OwnStep
    <3>5. \/ run'[t].made = run[t].made
          \/ WorthIt(t) /\ run'[t].made = Merged(t)
          \/ run'[t].made = NoSummary
      <4>1. Summarise(t) => WorthIt(t)
        BY DEF Summarise
      <4>. QED
        BY <2>2, <3>2, <4>1, OwnStep
    <3>6. Covers(NoSummary)
      BY DEF Covers, NoSummary
    <3>7. Covers(run'[t].base)
      BY <3>4, <3>6 DEF AllCover
    <3>8. Covers(run'[t].made)
      BY <3>5, <3>6, MergeCovers DEF AllCover
    <3>9. Covers(active')
      BY <3>3 DEF AllCover
    <3>. QED
      BY <3>1, <3>7, <3>8, <3>9 DEF AllCover, Covers
  <2>. QED
    BY <2>1, <2>2 DEF CompactionNext, Compacting
<1>3. AllCover => NothingSkipped
  BY DEF AllCover, Covers, NothingSkipped
<1>. QED
  BY <1>1, <1>2, <1>3, CompactionTypeCorrect, PTL DEF CompactionSpec
================================================================================
