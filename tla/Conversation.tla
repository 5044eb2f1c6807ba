------------------------------ MODULE Conversation ------------------------------
(*****************************************************************************)
(* The conversations of one customer with one number of the business: the      *)
(* turns of the workflow, which the turn mark serialises (module ChannelTurn), *)
(* the echoes of what a person wrote in the WhatsApp Business app, the members *)
(* at the dashboard, and the nightly close.                                    *)
(*                                                                             *)
(* Conversation.metadata is one JSON value that three writers replace whole,   *)
(* each with what it read before plus its own entry.                           *)
(*****************************************************************************)
EXTENDS Naturals, FiniteSets

CONSTANTS
    Convs,      \* ids of conversations, given in the order they are created
    Turns,      \* turns of the workflow
    Echoes,     \* webhooks with a message of the business
    MaxStaff,   \* bound: what members and the nightly close do
    Faults,     \* the failures this environment has
    MaxFaults   \* bound: how many failures happen

None == "none"

ASSUME ConversationAssumption ==
    /\ None \notin Convs
    /\ MaxStaff \in Nat /\ MaxFaults \in Nat
    /\ Faults \subseteq {"turn", "action", "flag"}

VARIABLES
    conv,      \* [Convs -> row of conversations]
    turn,      \* [Turns -> progress of a turn]
    echo,      \* [Echoes -> progress of an echo]
    acted,     \* [Convs -> how often the action declared once per conversation was sent]
    unnoted,   \* history: [Convs -> how many of these, whole or in part, no flag records]
    staff,     \* what members and the night have done so far
    faults,    \* failures so far
    raced,     \* history: two looked in vain before either created
    reopened,  \* history: a member made a closed conversation active again
    dropped,   \* history: conversations whose metadata was replaced by a stale copy
    released   \* history: echoes during or after which a member gave the conversation back

sends == <<acted, unnoted>>
counters == <<staff, faults>>
history == <<raced, reopened, dropped, released>>
vars == <<conv, turn, echo, sends, counters, history>>

--------------------------------------------------------------------------------
(* Entries of the metadata: the variables ask for the action, it was done, the last
   message is a person's. *)
Entries == {"ask", "done", "mark"}
Rows == [made : Nat, active : BOOLEAN, gone : BOOLEAN, human : BOOLEAN, waits : BOOLEAN,
         meta : SUBSET Entries]
Unmade == [made |-> 0, active |-> FALSE, gone |-> FALSE, human |-> FALSE, waits |-> FALSE,
           meta |-> {}]

Made == {c \in Convs : conv[c].made > 0}
Active == {c \in Made : conv[c].active /\ ~conv[c].gone}

(* findActiveWhatsappConversation: the latest that is active and not deleted. *)
Found ==
    IF Active = {} THEN None
    ELSE CHOOSE c \in Active : \A d \in Active : conv[d].made <= conv[c].made

Creators ==
    {t \in Turns : turn[t].pc = "creating"} \cup {e \in Echoes : echo[e].pc = "creating"}

Fresh(c) == [Unmade EXCEPT !.made = Cardinality(Made) + 1, !.active = TRUE]

(* Looking in vain. *)
InVain == raced' = (raced \/ Creators # {})

Fault(f) ==
    /\ f \in Faults
    /\ faults < MaxFaults
    /\ faults' = faults + 1

(* The metadata of c is replaced by what was made of an earlier copy. *)
Replace(c, copy, new) ==
    /\ conv' = [conv EXCEPT ![c].meta = new]
    /\ dropped' = IF copy = conv[c].meta THEN dropped ELSE dropped \cup {c}

Init ==
    /\ conv = [c \in Convs |-> Unmade]
    /\ turn = [t \in Turns |-> [pc |-> "idle", own |-> None, copy |-> {}, human |-> FALSE,
                                heard |-> {}, shut |-> FALSE]]
    /\ echo = [e \in Echoes |-> [pc |-> "idle", own |-> None, copy |-> {}, human |-> FALSE]]
    /\ acted = [c \in Convs |-> 0] /\ unnoted = [c \in Convs |-> 0]
    /\ staff = 0 /\ faults = 0
    /\ raced = FALSE /\ reopened = FALSE
    /\ dropped = {} /\ released = {}

--------------------------------------------------------------------------------
(* A turn: execute, then the worker.                                          *)

Goes(t, pc) == turn' = [turn EXCEPT ![t].pc = pc]

Has(t, c) ==
    turn' = [turn EXCEPT ![t] = [@ EXCEPT !.pc = "ready", !.own = c, !.copy = conv'[c].meta,
                                          !.human = conv'[c].human]]

Look_Always(t) ==
    /\ turn[t].pc = "idle"
    /\ \A u \in Turns : turn[u].pc \in {"idle", "over"}
    /\ Goes(t, "creating") /\ InVain
    /\ UNCHANGED <<conv, echo, sends, counters, reopened, dropped, released>>

(* findOrCreateConversationFromWhatsAppMessage; the mark lets one turn go at a time. *)
Look(t) ==
    /\ turn[t].pc = "idle"
    /\ \A u \in Turns : turn[u].pc \in {"idle", "over"}
    /\ IF Found = None
       THEN Goes(t, "creating") /\ InVain /\ UNCHANGED conv
       ELSE UNCHANGED conv /\ Has(t, Found) /\ UNCHANGED raced
    /\ UNCHANGED <<echo, sends, counters, reopened, dropped, released>>

Create(t) ==
    /\ turn[t].pc = "creating"
    /\ \E c \in Convs \ Made : conv' = [conv EXCEPT ![c] = Fresh(c)] /\ Has(t, c)
    /\ UNCHANGED <<echo, sends, counters, history>>

(* The customer's message is saved, and in human hands that is all. *)
Ask(t) ==
    /\ turn[t].pc = "ready"
    /\ conv' = [conv EXCEPT ![turn[t].own].waits = TRUE]
    /\ Goes(t, IF turn[t].human THEN "over" ELSE "asking")
    /\ UNCHANGED <<echo, sends, counters, history>>

(* The contact was blocked after the webhook let the message in: nothing is saved. *)
Blocked(t) ==
    /\ turn[t].pc = "ready"
    /\ Goes(t, "over")
    /\ UNCHANGED <<conv, echo, sends, counters, history>>

InHands == {c \in Active : conv[c].human}

Reread_Copy(t) ==
    /\ turn[t].pc = "asking"
    /\ turn' = [turn EXCEPT ![t] = [@ EXCEPT !.pc = "answered", !.heard = InHands,
                                             !.shut = turn[t].own \notin Active]]
    /\ UNCHANGED <<conv, echo, sends, counters, history>>

(* The agents answered: isConversationIntervened reads the flag again, of the conversation the
   turn began with, whether it is still active or not. *)
Reread(t) ==
    /\ turn[t].pc = "asking"
    /\ turn' = [turn EXCEPT ![t] = [@ EXCEPT !.pc = "answered", !.heard = InHands,
                                             !.shut = turn[t].own \notin Active,
                                             !.human = conv[turn[t].own].human]]
    /\ UNCHANGED <<conv, echo, sends, counters, history>>

(* The answer is saved unless a person took over. When the agents' messages do not end with
   the assistant's there is no answer: nothing is saved and nothing will be sent. *)
Save(t) ==
    /\ turn[t].pc = "answered"
    /\ \/ /\ conv' = IF turn[t].human THEN conv ELSE [conv EXCEPT ![turn[t].own].waits = FALSE]
          /\ Goes(t, "saved")
       \/ /\ turn' = [turn EXCEPT ![t] = [@ EXCEPT !.pc = "saved", !.human = TRUE]]
          /\ UNCHANGED conv
    /\ UNCHANGED <<echo, sends, counters, history>>

Variables_Nested(t) == {turn[t].copy \cup {"variables"}, turn[t].copy}

Variables(t) == {turn[t].copy \cup {"ask"}, turn[t].copy \ {"ask"}}

Persist_OnlyVariables(t) ==
    LET c == turn[t].own IN
    /\ turn[t].pc = "saved"
    /\ \E new \in {{"ask"}, {}} : Replace(c, turn[t].copy, new)
    /\ Goes(t, "persisted")
    /\ UNCHANGED <<echo, sends, counters, raced, reopened, released>>

(* persistConversationVariables: the metadata the turn began with, and the variables. *)
Persist(t) ==
    LET c == turn[t].own IN
    /\ turn[t].pc = "saved"
    /\ \/ \E new \in Variables(t) : Replace(c, turn[t].copy, new)
       \/ UNCHANGED <<conv, dropped>>
    /\ Goes(t, "persisted")
    /\ UNCHANGED <<echo, sends, counters, raced, reopened, released>>

(* requestHumanIntervention when the agents ask for it, then the totals of the
   conversation: both refuse a deleted one. *)
Finish(t) ==
    LET c == turn[t].own IN
    /\ turn[t].pc = "persisted"
    /\ IF conv[c].gone
       THEN Goes(t, "over") /\ UNCHANGED conv
       ELSE /\ \E handoff \in BOOLEAN : conv' = [conv EXCEPT ![c].human = @ \/ handoff]
            /\ Goes(t, IF turn[t].human THEN "over" ELSE "replying")
    /\ UNCHANGED <<echo, sends, counters, history>>

Send(t) ==
    /\ turn[t].pc = "replying"
    /\ Goes(t, "sent")
    /\ UNCHANGED <<conv, echo, sends, counters, history>>

Due(meta) == "ask" \in meta /\ "done" \notin meta

(* findOne, for the actions the workflow declares. *)
Review(t) ==
    LET c == turn[t].own IN
    /\ turn[t].pc = "sent"
    /\ turn' = [turn EXCEPT ![t] =
                  [@ EXCEPT !.pc = IF ~conv[c].gone /\ Due(conv[c].meta) THEN "acting" ELSE "over",
                            !.copy = conv[c].meta]]
    /\ UNCHANGED <<conv, echo, sends, counters, history>>

Sends(t) == acted' = [acted EXCEPT ![turn[t].own] = @ + 1]
Unnoted(t) == unnoted' = [unnoted EXCEPT ![turn[t].own] = @ + 1]

Act(t) ==
    /\ turn[t].pc = "acting"
    /\ Sends(t) /\ UNCHANGED unnoted
    /\ Goes(t, "flagging")
    /\ UNCHANGED <<conv, echo, counters, history>>

(* Its handler fails, before anything was sent or when a part was: the introduction, some of
   the files. It is not done, and the next turn tries again from the start. *)
ActFails(t) ==
    /\ turn[t].pc = "acting"
    /\ Fault("action")
    /\ \/ Sends(t) /\ Unnoted(t)
       \/ UNCHANGED sends
    /\ Goes(t, "over")
    /\ UNCHANGED <<conv, echo, staff, history>>

(* postTurnActions are written into the metadata findOne returned. *)
Flag(t) ==
    LET c == turn[t].own IN
    /\ turn[t].pc = "flagging"
    /\ IF conv[c].gone THEN UNCHANGED <<conv, dropped>>
       ELSE Replace(c, turn[t].copy, turn[t].copy \cup {"done"})
    /\ Goes(t, "over")
    /\ UNCHANGED <<echo, sends, counters, raced, reopened, released>>

(* That update fails, or the instance dies before it. *)
FlagFails(t) ==
    /\ turn[t].pc = "flagging"
    /\ Fault("flag")
    /\ Unnoted(t)
    /\ Goes(t, "over")
    /\ UNCHANGED <<conv, echo, acted, staff, history>>

(* Any exception: up to the sending the window stays and another turn takes it, after it the
   actions are left to the next turn. *)
TurnFails(t) ==
    /\ turn[t].pc \in {"creating", "ready", "asking", "answered", "saved", "persisted", "replying",
                       "sent"}
    /\ Fault("turn")
    /\ Goes(t, "over")
    /\ UNCHANGED <<conv, echo, sends, staff, history>>

--------------------------------------------------------------------------------
(* An echo.                                                                   *)

EchoGoes(e, pc) == echo' = [echo EXCEPT ![e].pc = pc]

EchoHas(e, c, pc) ==
    echo' = [echo EXCEPT ![e] = [@ EXCEPT !.pc = pc, !.own = c, !.copy = conv'[c].meta]]

(* Is the conversation in human hands already? *)
EchoLook(e) ==
    /\ echo[e].pc = "idle"
    /\ UNCHANGED conv
    /\ IF Found = None
       THEN EchoGoes(e, "seeking")
       ELSE echo' = [echo EXCEPT ![e] = [pc |-> "recording", own |-> Found,
                                         copy |-> conv[Found].meta, human |-> conv[Found].human]]
    /\ UNCHANGED <<turn, sends, counters, history>>

(* There was none: it is looked for again, to be created. *)
EchoSeek(e) ==
    /\ echo[e].pc = "seeking"
    /\ UNCHANGED conv
    /\ IF Found = None
       THEN EchoGoes(e, "creating") /\ InVain
       ELSE EchoHas(e, Found, "recording") /\ UNCHANGED raced
    /\ UNCHANGED <<turn, sends, counters, reopened, dropped, released>>

EchoCreate(e) ==
    /\ echo[e].pc = "creating"
    /\ \E c \in Convs \ Made :
          conv' = [conv EXCEPT ![c] = Fresh(c)] /\ EchoHas(e, c, "recording")
    /\ UNCHANGED <<turn, sends, counters, history>>

AfterRecord(e) == IF echo[e].human THEN "done" ELSE "taking"

(* The message is saved as the assistant's; an empty one is not. *)
EchoRecord(e) ==
    /\ echo[e].pc = "recording"
    /\ \/ /\ conv' = [conv EXCEPT ![echo[e].own].waits = FALSE]
          /\ EchoGoes(e, "marking")
       \/ EchoGoes(e, AfterRecord(e)) /\ UNCHANGED conv
    /\ UNCHANGED <<turn, sends, counters, history>>

(* markMessageOutsideWorkflow, with the metadata read before the message was saved. *)
EchoMark(e) ==
    LET c == echo[e].own IN
    /\ echo[e].pc = "marking"
    /\ IF conv[c].gone
       THEN EchoGoes(e, "failed") /\ UNCHANGED <<conv, dropped>>
       ELSE Replace(c, echo[e].copy, echo[e].copy \cup {"mark"}) /\ EchoGoes(e, AfterRecord(e))
    /\ UNCHANGED <<turn, sends, counters, raced, reopened, released>>

EchoTake_OnlyActive(e) ==
    LET c == echo[e].own IN
    /\ echo[e].pc = "taking"
    /\ conv' = IF c = Found THEN [conv EXCEPT ![c].human = TRUE] ELSE conv
    /\ EchoGoes(e, IF conv[c].gone THEN "failed" ELSE "done")
    /\ UNCHANGED <<turn, sends, counters, history>>

(* The conversation passes into human hands. *)
EchoTake(e) ==
    LET c == echo[e].own IN
    /\ echo[e].pc = "taking"
    /\ conv' = IF conv[c].gone THEN conv ELSE [conv EXCEPT ![c].human = TRUE]
    /\ EchoGoes(e, IF conv[c].gone THEN "failed" ELSE "done")
    /\ UNCHANGED <<turn, sends, counters, history>>

--------------------------------------------------------------------------------
(* Members at the dashboard, and the night.                                   *)

Staff == staff < MaxStaff /\ staff' = staff + 1
Kept(c) == c \in Made /\ ~conv[c].gone

Take(c) ==
    /\ Kept(c) /\ ~conv[c].human /\ Staff
    /\ conv' = [conv EXCEPT ![c].human = TRUE]
    /\ UNCHANGED <<turn, echo, sends, faults, history>>

Release(c) ==
    /\ Kept(c) /\ conv[c].human /\ Staff
    /\ conv' = [conv EXCEPT ![c].human = FALSE]
    /\ released' = released \cup {e \in Echoes : echo[e].own = c}
    /\ UNCHANGED <<turn, echo, sends, faults, raced, reopened, dropped>>

Close(c) ==
    /\ Kept(c) /\ conv[c].active /\ Staff
    /\ conv' = [conv EXCEPT ![c].active = FALSE]
    /\ UNCHANGED <<turn, echo, sends, faults, history>>

Reopen(c) ==
    /\ Kept(c) /\ ~conv[c].active /\ Staff
    /\ conv' = [conv EXCEPT ![c].active = TRUE]
    /\ reopened' = TRUE
    /\ UNCHANGED <<turn, echo, sends, faults, raced, dropped, released>>

Remove(c) ==
    /\ Kept(c) /\ Staff
    /\ conv' = [conv EXCEPT ![c].gone = TRUE]
    /\ UNCHANGED <<turn, echo, sends, faults, history>>

(* handleConversationCleanup: which conversations are due depends on the clock. *)
Night ==
    /\ Staff
    /\ \E due \in (SUBSET {c \in Made : conv[c].active /\ ~(conv[c].human /\ conv[c].waits)}) \ {{}} :
          conv' = [c \in Convs |-> IF c \in due THEN [conv[c] EXCEPT !.active = FALSE] ELSE conv[c]]
    /\ UNCHANGED <<turn, echo, sends, faults, history>>

--------------------------------------------------------------------------------
Turn(t) ==
    \/ Look(t) \/ Create(t) \/ Ask(t) \/ Blocked(t) \/ Reread(t) \/ Save(t) \/ Persist(t)
    \/ Finish(t) \/ Send(t) \/ Review(t) \/ Act(t) \/ ActFails(t) \/ Flag(t)
    \/ FlagFails(t) \/ TurnFails(t)

Echo(e) ==
    EchoLook(e) \/ EchoSeek(e) \/ EchoCreate(e) \/ EchoRecord(e) \/ EchoMark(e) \/ EchoTake(e)

Member(c) == Take(c) \/ Release(c) \/ Close(c) \/ Reopen(c) \/ Remove(c)

Next ==
    \/ \E t \in Turns : Turn(t)
    \/ \E e \in Echoes : Echo(e)
    \/ \E c \in Convs : Member(c)
    \/ Night

Spec == Init /\ [][Next]_vars

--------------------------------------------------------------------------------
(* Properties.                                                                *)

(* Types of the rows and of the progress of turns and echoes. *)
TypeOK ==
    /\ conv \in [Convs -> Rows]
    /\ turn \in [Turns -> [pc : {"idle", "creating", "ready", "asking", "answered", "saved",
                                 "persisted", "replying", "sent", "acting", "flagging", "over"},
                           own : Convs \cup {None}, copy : SUBSET Entries, human : BOOLEAN,
                           heard : SUBSET Convs, shut : BOOLEAN]]
    /\ echo \in [Echoes -> [pc : {"idle", "seeking", "creating", "recording", "marking", "taking",
                                  "failed", "done"},
                            own : Convs \cup {None}, copy : SUBSET Entries, human : BOOLEAN]]
    /\ acted \in [Convs -> Nat] /\ unnoted \in [Convs -> Nat]
    /\ staff \in 0 .. MaxStaff /\ faults \in 0 .. MaxFaults
    /\ raced \in BOOLEAN /\ reopened \in BOOLEAN
    /\ dropped \subseteq Convs /\ released \subseteq Echoes

(* A customer has one active conversation at most, unless two first messages looked in vain
   before either created one, or a member reopened an old one. *)
OneActive == Cardinality(Active) <= 1 \/ raced \/ reopened

(* The workflow does not talk over a person: an answer on its way was let go when no active
   conversation of the customer was in human hands. The code reads the flag of one
   conversation, so three things are excepted: that conversation was closed or deleted in the
   meantime, and the customer had two active ones, by a race or because one was reopened. *)
HumanNotTalkedOver ==
    \A t \in Turns :
        turn[t].pc \in {"replying", "sent"} =>
            turn[t].heard = {} \/ turn[t].shut \/ raced \/ reopened

(* After a person wrote from the WhatsApp Business app the conversation is in human hands,
   until a member gives it back. *)
EchoTakesOver ==
    \A e \in Echoes : echo[e].pc = "done" /\ e \notin released => conv[echo[e].own].human

(* An action declared once per conversation reaches the customer once, and once more for each
   time it was sent in whole or in part and the flag was not written, unless a stale copy of
   the metadata wiped the flag out. *)
ActionOnce == \A c \in Convs : acted[c] <= 1 + unnoted[c] \/ c \in dropped
================================================================================
