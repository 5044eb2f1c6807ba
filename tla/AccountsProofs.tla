----------------------------- MODULE AccountsProofs -----------------------------
(***************************************************************************)
(* Proofs about Accounts, for any users, requests, limits and attempts.      *)
(***************************************************************************)
EXTENDS Accounts, FiniteSetTheorems, TLAPS

States == [pc : Pcs, op : Manage \cup {None}, who : Users \cup {None}, on : Users \cup {None},
           read : Copies, row : InvitationRows, right : BOOLEAN, token : Tokens \cup {None},
           drop : SUBSET Users]

Signed == {"write", "transfer", "leave", "signOut", "manage", "successor", "found", "rotate", "token",
           "reserve", "compare", "accept", "join", "joined", "return"}
Targeted == {"manage", "write", "successor", "transfer", "look", "create", "reserve", "compare",
             "accept", "join", "joined", "return"}

(* A request under way knows whom it is about; what it took has a name. *)
Sound(r) ==
    /\ r.pc \in Signed => r.who \in Users
    /\ r.pc \in Targeted => r.on \in Users
    /\ r.pc \in Accepting => r.row.id \in Tokens /\ r.row.code \in Tokens /\ r.who = r.on
    /\ r.pc = "rotate" => r.token \in Tokens
    /\ r.pc \in {"manage", "write"} => r.op \in Manage

AllSound == \A q \in Requests : Sound(request[q])

(* A row of an invitation that is there has a name and a code. *)
Named == \A u \in Users : Invites(u) => invitation[u].id \in Tokens /\ invitation[u].code \in Tokens

(* Who has a live token is a user. *)
Owned == \A t \in Tokens : session[t].live => session[t].of \in Users

Typed == TypeOK /\ AllSound /\ Named /\ Owned

--------------------------------------------------------------------------------
LEMMA NotNone == None \notin Users /\ None \notin Tokens /\ Requests \subseteq Tokens /\ Users \subseteq Tokens
BY AccountsAssumption DEF Tokens

LEMMA Constants ==
    /\ NoRow \in InvitationRows /\ NoRow.id = None
    /\ NoToken \in [of : Users \cup {None}, live : BOOLEAN] /\ NoToken.live = FALSE /\ NoToken.of = None
    /\ Stranger \in AccountRows /\ Stranger.org = None /\ Stranger.deleted = FALSE
    /\ \A org \in {"here", "away"}, role \in Roles :
          /\ Account(org, role) \in AccountRows /\ Account(org, role).org = org
          /\ Account(org, role).role = role /\ Account(org, role).active = TRUE
          /\ Account(org, role).deleted = FALSE
BY DEF NoRow, InvitationRows, NoToken, Stranger, Account, AccountRows, Roles

LEMMA CopyType ==
    ASSUME TypeOK, NEW us \in SUBSET Users
    PROVE  Copy(us) \in Copies /\ DOMAIN Copy(us) = us
<1>1. Copy(us) \in [us -> AccountRows]
  BY DEF TypeOK, Copy
<1> QED BY <1>1 DEF Copies

LEMMA WithNowType ==
    ASSUME TypeOK, NEW copy \in Copies, NEW us \in SUBSET Users
    PROVE  WithNow(copy, us) \in Copies /\ DOMAIN WithNow(copy, us) = DOMAIN copy \cup us
<1>1. PICK vs \in SUBSET Users : copy \in [vs -> AccountRows]
  BY DEF Copies
<1>2. WithNow(copy, us) \in [vs \cup us -> AccountRows]
  BY <1>1 DEF TypeOK, WithNow
<1> QED BY <1>1, <1>2 DEF Copies

LEMMA NoCopy == <<>> \in Copies /\ DOMAIN <<>> = {}
<1>1. <<>> \in [{} -> AccountRows]
  OBVIOUS
<1> QED BY <1>1 DEF Copies

LEMMA NotServedType ==
    NotServed \in States /\ Served \in States /\ NotServed.pc = "waiting" /\ Served.pc = "served"
<1>1. NotServed \in States
  BY Constants, NoCopy DEF NotServed, States, Pcs
<1> QED BY <1>1 DEF NotServed, Served, States, Pcs

LEMMA BeginsType ==
    ASSUME NEW pc \in Pcs, NEW who \in Users \cup {None}, NEW on \in Users \cup {None}
    PROVE  /\ Begins(pc, who, on) \in States
           /\ Begins(pc, who, on).pc = pc
           /\ Begins(pc, who, on).who = who
           /\ Begins(pc, who, on).on = on
           /\ Begins(pc, who, on).token = None
           /\ Begins(pc, who, on).row = NoRow
           /\ Begins(pc, who, on).op = None
BY NotServedType DEF NotServed, Begins, States

(* What the steps of a request make of it. *)
LEMMA BecomesTypes ==
    ASSUME TypeOK, AllSound, NEW q \in Requests, NEW s \in States, Sound(s),
           request' = [request EXCEPT ![q] = s]
    PROVE  request' \in [Requests -> States] /\ AllSound'
<1>0. request \in [Requests -> States]
  BY DEF TypeOK, States
<1>1. request' \in [Requests -> States]
  BY <1>0
<1>2. \A p \in Requests : request'[p] = s \/ request'[p] = request[p]
  BY <1>0
<1> QED BY <1>1, <1>2 DEF AllSound

LEMMA GoesTypes ==
    ASSUME TypeOK, AllSound, NEW q \in Requests, NEW pc \in Pcs, Goes(q, pc),
           Sound([request[q] EXCEPT !.pc = pc])
    PROVE  request' \in [Requests -> States] /\ AllSound'
<1>0. request[q] \in States
  BY DEF States, TypeOK
<1>1. [request[q] EXCEPT !.pc = pc] \in States
  BY <1>0 DEF States
<1>2. request' = [request EXCEPT ![q] = [request[q] EXCEPT !.pc = pc]]
  BY DEF Goes
<1> QED BY <1>1, <1>2, BecomesTypes

LEMMA EndsTypes ==
    ASSUME TypeOK, AllSound, NEW q \in Requests, Ends(q)
    PROVE  request' \in [Requests -> States] /\ AllSound'
<1>1. Sound(Served)
  BY NotServedType DEF Sound, Signed, Targeted, Accepting
<1> QED BY <1>1, BecomesTypes, NotServedType DEF Ends

(* The rows stay typed when one of a user, of an invitation or a token changes. *)
LEMMA UserTypes ==
    ASSUME TypeOK, NEW u \in Users, NEW r \in AccountRows, user' = [user EXCEPT ![u] = r]
    PROVE  user' \in [Users -> AccountRows]
BY DEF TypeOK

LEMMA InvitationTypes ==
    ASSUME TypeOK, Named, NEW u \in Users, NEW r \in InvitationRows,
           r # NoRow => r.id \in Tokens /\ r.code \in Tokens,
           invitation' = [invitation EXCEPT ![u] = r]
    PROVE  invitation' \in [Users -> InvitationRows] /\ Named'
<1>1. invitation' \in [Users -> InvitationRows]
  BY DEF TypeOK
<1>2. \A v \in Users : invitation'[v] = r \/ invitation'[v] = invitation[v]
  BY DEF TypeOK
<1> QED BY <1>1, <1>2 DEF Named, Invites

LEMMA DiscardedTypes ==
    ASSUME TypeOK, Named, NEW u \in Users, invitation' = Discarded(u) \/ invitation' = invitation
    PROVE  invitation' \in [Users -> InvitationRows] /\ Named'
<1>1. CASE invitation' = Discarded(u)
  BY <1>1, InvitationTypes, Constants DEF Discarded
<1>2. CASE invitation' = invitation
  BY <1>2 DEF TypeOK, Named, Invites
<1> QED BY <1>1, <1>2

--------------------------------------------------------------------------------
Kept == UNCHANGED <<rows, limit, history>>

LEMMA ReadsType ==
    ASSUME TypeOK, AllSound, Named, Owned, NEW q \in Requests, Kept,
           request' \in [Requests -> States] /\ AllSound'
    PROVE  Typed'
BY DEF Typed, TypeOK, Named, Owned, Invites, Kept, rows, history, States

LEMMA ManageTypes ==
    ASSUME Typed, NEW q \in Requests, ManageStep(q)
    PROVE  Typed'
<1> USE DEF rows, history
<1>0. TypeOK /\ AllSound /\ Named /\ Owned
  BY DEF Typed
<1>s. request[q] \in States /\ Sound(request[q])
  BY <1>0 DEF TypeOK, AllSound, States
<1>u. \A u \in Users : user[u] \in AccountRows
  BY <1>0 DEF TypeOK
<1>1. CASE ReadTarget(q)
  <2>1. PICK op \in Manage, u, v \in Users : Takes(q, [Begins("manage", u, v) EXCEPT !.op = op, !.read = Copy({v})])
    BY <1>1 DEF ReadTarget
  <2> DEFINE s == [Begins("manage", u, v) EXCEPT !.op = op, !.read = Copy({v})]
  <2>2. Copy({v}) \in Copies
    BY <1>0, CopyType
  <2> DEFINE b == Begins("manage", u, v)
  <2>5. b \in States /\ b.pc = "manage" /\ b.who = u /\ b.on = v
    BY BeginsType DEF Pcs
  <2> HIDE DEF b
  <2>6. s \in States
    BY <2>2, <2>5 DEF States, b
  <2>7. s.pc = "manage" /\ s.who = u /\ s.on = v /\ s.op = op
    BY <2>5 DEF States, b
  <2>3. s \in States /\ Sound(s)
    BY <2>6, <2>7 DEF Sound, Signed, Targeted, Accepting
  <2>4. request' \in [Requests -> States] /\ AllSound'
    BY <1>0, <2>1, <2>3, BecomesTypes DEF Takes
  <2> QED BY <1>0, <1>1, <2>4, ReadsType DEF ReadTarget, Kept
<1>2. CASE ReadActor(q)
  <2>1. CASE Allowed(q)
    <3> DEFINE c == WithNow(request[q].read, {Who(q)})
    <3> DEFINE s == [request[q] EXCEPT !.pc = "write", !.read = c]
    <3>1. Who(q) \in Users /\ request[q].pc = "manage"
      BY <1>2, <1>s DEF ReadActor, At, Sound, Signed, Who
    <3>2. c \in Copies
      <4>1. request[q].read \in Copies /\ {Who(q)} \in SUBSET Users
        BY <1>s, <3>1 DEF States
      <4> QED BY <1>0, <4>1, WithNowType
    <3>3. s \in States /\ Sound(s)
      BY <1>s, <3>1, <3>2 DEF States, Sound, Signed, Targeted, Accepting, Pcs
    <3>4. request' = [request EXCEPT ![q] = s]
      BY <1>2, <2>1 DEF ReadActor
    <3>5. request' \in [Requests -> States] /\ AllSound'
      BY <1>0, <3>3, <3>4, BecomesTypes
    <3> QED BY <1>0, <1>2, <3>5, ReadsType DEF ReadActor, Kept
  <2>2. CASE ~Allowed(q)
    <3>1. request' \in [Requests -> States] /\ AllSound'
      BY <1>0, <1>2, <2>2, EndsTypes DEF ReadActor
    <3> QED BY <1>0, <1>2, <3>1, ReadsType DEF ReadActor, Kept
  <2> QED BY <2>1, <2>2
<1>3. CASE Write(q)
  <2>1. request' \in [Requests -> States] /\ AllSound'
    BY <1>0, <1>3, EndsTypes DEF Write
  <2>2. On(q) \in Users /\ request[q].op \in Manage
    BY <1>3, <1>s DEF Write, At, Sound, Targeted, On
  <2>3. Changed(user[On(q)], request[q].op) \in AccountRows
    BY <1>u, <2>2 DEF Changed, Manage, RoleOps, AccountRows, Roles
  <2>4. user' \in [Users -> AccountRows]
    BY <1>0, <1>3, <2>2, <2>3, UserTypes DEF Write
  <2>5. stale' \in BOOLEAN
    BY <1>0, <1>3 DEF Write, Notes, Stale, TypeOK
  <2> QED BY <1>0, <1>3, <2>1, <2>4, <2>5 DEF Write, Typed, TypeOK, Named, Owned, Invites, States
<1>4. CASE ReadOwner(q)
  <2>1. PICK u, v \in Users : Takes(q, [Begins("successor", u, v) EXCEPT !.read = Copy({u})])
    BY <1>4 DEF ReadOwner
  <2> DEFINE s == [Begins("successor", u, v) EXCEPT !.read = Copy({u})]
  <2>2. Copy({u}) \in Copies
    BY <1>0, CopyType
  <2>3. s \in States /\ Sound(s)
    BY <2>2, BeginsType DEF States, Sound, Signed, Targeted, Accepting, Pcs
  <2>4. request' \in [Requests -> States] /\ AllSound'
    BY <1>0, <2>1, <2>3, BecomesTypes DEF Takes
  <2> QED BY <1>0, <1>4, <2>4, ReadsType DEF ReadOwner, Kept
<1>5. CASE ReadSuccessor(q)
  <2>1. CASE On(q) \in Active
    <3> DEFINE c == WithNow(request[q].read, {On(q)})
    <3> DEFINE s == [request[q] EXCEPT !.pc = "transfer", !.read = c]
    <3>1. On(q) \in Users /\ request[q].pc = "successor"
      BY <1>5, <1>s DEF ReadSuccessor, At, Sound, Targeted, On
    <3>2. c \in Copies
      <4>1. request[q].read \in Copies /\ {On(q)} \in SUBSET Users
        BY <1>s, <3>1 DEF States
      <4> QED BY <1>0, <4>1, WithNowType
    <3>3. s \in States /\ Sound(s)
      BY <1>s, <3>1, <3>2 DEF States, Sound, Signed, Targeted, Accepting, Pcs
    <3>4. request' = [request EXCEPT ![q] = s]
      BY <1>5, <2>1 DEF ReadSuccessor
    <3>5. request' \in [Requests -> States] /\ AllSound'
      BY <1>0, <3>3, <3>4, BecomesTypes
    <3> QED BY <1>0, <1>5, <3>5, ReadsType DEF ReadSuccessor, Kept
  <2>2. CASE On(q) \notin Active
    <3>1. request' \in [Requests -> States] /\ AllSound'
      BY <1>0, <1>5, <2>2, EndsTypes DEF ReadSuccessor
    <3> QED BY <1>0, <1>5, <3>1, ReadsType DEF ReadSuccessor, Kept
  <2> QED BY <2>1, <2>2
<1>6. CASE Transfer(q)
  <2>1. request' \in [Requests -> States] /\ AllSound'
    BY <1>0, <1>6, EndsTypes DEF Transfer
  <2>2. Who(q) \in Users /\ On(q) \in Users
    BY <1>6, <1>s DEF Transfer, At, Sound, Signed, Targeted, On, Who
  <2>3. \A r \in AccountRows : \A role \in Roles : [r EXCEPT !.role = role] \in AccountRows
    BY DEF AccountRows
  <2> DEFINE first == [user EXCEPT ![Who(q)] = [user[Who(q)] EXCEPT !.role = "ADMIN"]]
  <2>6. first \in [Users -> AccountRows]
    BY <1>0, <1>u, <2>2, <2>3 DEF TypeOK, Roles
  <2>7. user' = [first EXCEPT ![On(q)] = [first[On(q)] EXCEPT !.role = "OWNER"]]
    BY <1>6 DEF Transfer
  <2> HIDE DEF first
  <2>4. user' \in [Users -> AccountRows]
    BY <2>2, <2>3, <2>6, <2>7 DEF Roles
  <2>5. stale' \in BOOLEAN
    BY <1>0, <1>6 DEF Transfer, Notes, Stale, TypeOK
  <2> QED BY <1>0, <1>6, <2>1, <2>4, <2>5 DEF Transfer, Typed, TypeOK, Named, Owned, Invites, States
<1>7. CASE AskToLeave(q)
  <2>1. PICK u \in Active : Takes(q, [Begins("leave", u, u) EXCEPT !.read = Copy({u})])
    BY <1>7 DEF AskToLeave
  <2> DEFINE s == [Begins("leave", u, u) EXCEPT !.read = Copy({u})]
  <2>2. u \in Users /\ Copy({u}) \in Copies
    BY <1>0, CopyType DEF Active, Members
  <2>3. s \in States /\ Sound(s)
    BY <2>2, BeginsType DEF States, Sound, Signed, Targeted, Accepting, Pcs
  <2>4. request' \in [Requests -> States] /\ AllSound'
    BY <1>0, <2>1, <2>3, BecomesTypes DEF Takes
  <2> QED BY <1>0, <1>7, <2>4, ReadsType DEF AskToLeave, Kept
<1>8. CASE Leave(q)
  <2>1. Who(q) \in Users /\ request[q].pc = "leave"
    BY <1>8, <1>s DEF Leave, At, Sound, Signed, Who
  <2>2. Sound([request[q] EXCEPT !.pc = "signOut"]) /\ "signOut" \in Pcs
    BY <1>s, <2>1 DEF States, Sound, Signed, Targeted, Accepting, Pcs
  <2>3. request' \in [Requests -> States] /\ AllSound'
    BY <1>0, <1>8, <2>2, GoesTypes DEF Leave
  <2>4. user' = [user EXCEPT ![Who(q)] = [user[Who(q)] EXCEPT !.deleted = TRUE, !.active = FALSE]]
    BY <1>8 DEF Leave
  <2>5. [user[Who(q)] EXCEPT !.deleted = TRUE, !.active = FALSE] \in AccountRows
    BY <1>u, <2>1 DEF AccountRows
  <2>6. user' \in [Users -> AccountRows]
    BY <1>0, <2>1, <2>4, <2>5, UserTypes
  <2>7. stale' \in BOOLEAN
    BY <1>0, <1>8 DEF Leave, Notes, Stale, TypeOK
  <2> QED BY <1>0, <1>8, <2>3, <2>6, <2>7 DEF Leave, Typed, TypeOK, Named, Owned, Invites, States
<1>9. CASE SignOut(q)
  <2>1. request' \in [Requests -> States] /\ AllSound'
    BY <1>0, <1>9, EndsTypes DEF SignOut
  <2>2. Who(q) \in Users
    BY <1>9, <1>s DEF SignOut, At, Sound, Signed, Who
  <2>3. session' \in [Tokens -> [of : Users \cup {None}, live : BOOLEAN]] /\ Owned'
    <3>1. \A t \in Tokens : [session[t] EXCEPT !.live = FALSE] \in [of : Users \cup {None}, live : BOOLEAN]
      <4>1. \A t \in Tokens : session[t] \in [of : Users \cup {None}, live : BOOLEAN]
        BY <1>0 DEF TypeOK
      <4> QED BY <4>1
    <3>2. session' = [t \in Tokens |-> IF session[t].of = Who(q) THEN [session[t] EXCEPT !.live = FALSE]
                                       ELSE session[t]]
      BY <1>9 DEF SignOut, Revoked
    <3>3. session' \in [Tokens -> [of : Users \cup {None}, live : BOOLEAN]]
      BY <1>0, <3>1, <3>2 DEF TypeOK
    <3>4. \A t \in Tokens : session'[t].live => session'[t] = session[t]
      BY <1>0, <3>2 DEF TypeOK
    <3> QED BY <1>0, <3>3, <3>4 DEF Owned
  <2> QED BY <1>0, <1>9, <2>1, <2>2, <2>3 DEF SignOut, Typed, TypeOK, Named, Invites, States
<1>10. CASE EnforceLimits(q)
  <2>1. PICK n \in Limits, drop \in SUBSET Active :
              limit' = n /\ Takes(q, [Begins("enforce", None, None) EXCEPT !.drop = drop, !.read = Copy(Active)])
    BY <1>10 DEF EnforceLimits
  <2> DEFINE s == [Begins("enforce", None, None) EXCEPT !.drop = drop, !.read = Copy(Active)]
  <2>2. drop \subseteq Users /\ Copy(Active) \in Copies
    BY <1>0, CopyType DEF Active, Members
  <2> DEFINE b == Begins("enforce", None, None)
  <2>7. b \in States /\ b.pc = "enforce"
    BY BeginsType DEF Pcs
  <2> HIDE DEF b
  <2>8. s \in States /\ s.pc = "enforce"
    BY <2>2, <2>7 DEF States, b
  <2>3. s \in States /\ Sound(s)
    BY <2>8 DEF Sound, Signed, Targeted, Accepting
  <2>4. request' \in [Requests -> States] /\ AllSound'
    BY <1>0, <2>1, <2>3, BecomesTypes DEF Takes
  <2>5. limit' \in Nat
    BY <2>1, AccountsAssumption
  <2>6. overlapped' \in BOOLEAN
    BY <1>0, <1>10 DEF EnforceLimits, Pending, TypeOK
  <2> QED BY <1>0, <1>10, <2>4, <2>5, <2>6 DEF EnforceLimits, Typed, TypeOK, Named, Owned, Invites, States
<1>11. CASE Deactivate(q)
  <2>1. request' \in [Requests -> States] /\ AllSound'
    BY <1>0, <1>11, EndsTypes DEF Deactivate
  <2>2. \A u \in Users : [user[u] EXCEPT !.active = FALSE] \in AccountRows
    BY <1>u DEF AccountRows
  <2>3. user' \in [Users -> AccountRows]
    BY <1>u, <1>11, <2>2 DEF Deactivate
  <2>4. stale' \in BOOLEAN
    BY <1>0, <1>11 DEF Deactivate, Notes, Stale, TypeOK
  <2> QED BY <1>0, <1>11, <2>1, <2>3, <2>4 DEF Deactivate, Typed, TypeOK, Named, Owned, Invites, States
<1> QED BY <1>1, <1>2, <1>3, <1>4, <1>5, <1>6, <1>7, <1>8, <1>9, <1>10, <1>11 DEF ManageStep

LEMMA InviteTypes ==
    ASSUME Typed, NEW q \in Requests, InviteStep(q)
    PROVE  Typed'
<1> USE DEF rows, history
<1>0. TypeOK /\ AllSound /\ Named /\ Owned
  BY DEF Typed
<1>s. request[q] \in States /\ Sound(request[q])
  BY <1>0 DEF TypeOK, AllSound, States
<1>i. \A u \in Users : invitation[u] \in InvitationRows
  BY <1>0 DEF TypeOK
<1>e. Ends(q) => request' \in [Requests -> States] /\ AllSound'
  BY <1>0, EndsTypes
<1>1. CASE Count(q)
  <2>1. PICK u, v \in Users : Takes(q, Begins("look", None, v))
    BY <1>1 DEF Count
  <2> DEFINE b == Begins("look", None, v)
  <2>7. "look" \in Pcs /\ None \in Users \cup {None} /\ v \in Users \cup {None}
    BY DEF Pcs
  <2>5. b \in States /\ b.pc = "look" /\ b.on = v
    BY <2>7, BeginsType
  <2> HIDE DEF b
  <2>6. Sound(b)
    BY <2>5 DEF Sound, Signed, Targeted, Accepting
  <2>2. Begins("look", None, v) \in States /\ Sound(Begins("look", None, v))
    BY <2>5, <2>6 DEF b
  <2>3. request' \in [Requests -> States] /\ AllSound'
    BY <1>0, <2>1, <2>2, BecomesTypes DEF Takes
  <2>4. overlapped' \in BOOLEAN
    BY <1>0, <1>1 DEF Count, Pending, TypeOK
  <2> QED BY <1>0, <1>1, <2>3, <2>4 DEF Count, Typed, TypeOK, Named, Owned, Invites, States
<1>2. CASE Look(q)
  <2>1. On(q) \in Users /\ request[q].pc = "look"
    BY <1>2, <1>s DEF Look, At, Sound, Targeted, On
  <2>2. Goes(q, "create") => request' \in [Requests -> States] /\ AllSound'
    <3>1. Sound([request[q] EXCEPT !.pc = "create"]) /\ "create" \in Pcs
      BY <1>s, <2>1 DEF States, Sound, Signed, Targeted, Accepting, Pcs, On
    <3> QED BY <1>0, <3>1, GoesTypes
  <2>3. request' \in [Requests -> States] /\ AllSound'
    BY <1>2, <1>e, <2>2 DEF Look
  <2>4. invitation' \in [Users -> InvitationRows] /\ Named'
    BY <1>0, <1>2, <2>1, DiscardedTypes DEF Look, Discarded
  <2> QED BY <1>0, <1>2, <2>3, <2>4 DEF Look, Typed, TypeOK, Owned, States
<1>3. CASE Create(q)
  <2>1. On(q) \in Users
    BY <1>3, <1>s DEF Create, At, Sound, Targeted, On
  <2>2. request' \in [Requests -> States] /\ AllSound'
    BY <1>3, <1>e DEF Create
  <2> DEFINE r == IF Invites(On(q)) THEN invitation[On(q)] ELSE [NoRow EXCEPT !.id = q, !.code = q]
  <2>3. r \in InvitationRows /\ r.id \in Tokens /\ r.code \in Tokens
    <3>1. q \in Tokens
      BY NotNone
    <3>2. CASE Invites(On(q))
      BY <1>0, <1>i, <2>1, <3>2 DEF Named
    <3>3. CASE ~Invites(On(q))
      BY <3>1, <3>3 DEF NoRow, InvitationRows
    <3> QED BY <3>2, <3>3
  <2>4. invitation' = [invitation EXCEPT ![On(q)] = r]
    BY <1>3 DEF Create
  <2> HIDE DEF r
  <2>5. invitation' \in [Users -> InvitationRows] /\ Named'
    BY <1>0, <2>1, <2>3, <2>4, InvitationTypes
  <2> QED BY <1>0, <1>3, <2>2, <2>5 DEF Create, Typed, TypeOK, Owned, States
<1>4. CASE Resend(q)
  <2>1. PICK v \in Users : /\ Invites(v)
                           /\ invitation' = [invitation EXCEPT ![v].code = q, ![v].expired = FALSE]
    BY <1>4 DEF Resend
  <2> DEFINE r == [invitation[v] EXCEPT !.code = q, !.expired = FALSE]
  <2>2. r \in InvitationRows /\ r.id \in Tokens /\ r.code \in Tokens
    BY <1>0, <1>i, <2>1, NotNone DEF Named, InvitationRows
  <2>3. invitation' = [invitation EXCEPT ![v] = r]
    BY <1>0, <2>1 DEF TypeOK
  <2> HIDE DEF r
  <2>4. invitation' \in [Users -> InvitationRows] /\ Named'
    BY <1>0, <2>2, <2>3, InvitationTypes
  <2>5. request' \in [Requests -> States] /\ AllSound'
    BY <1>4, <1>e DEF Resend
  <2> QED BY <1>0, <1>4, <2>4, <2>5 DEF Resend, Typed, TypeOK, Owned, States
<1>5. CASE CancelInvitation(q)
  <2>1. PICK v \in Users : invitation' = Discarded(v)
    BY <1>5 DEF CancelInvitation, Discarded
  <2>2. invitation' \in [Users -> InvitationRows] /\ Named'
    BY <1>0, <2>1, DiscardedTypes
  <2>3. request' \in [Requests -> States] /\ AllSound'
    BY <1>5, <1>e DEF CancelInvitation
  <2> QED BY <1>0, <1>5, <2>2, <2>3 DEF CancelInvitation, Typed, TypeOK, Owned, States
<1>6. CASE FindRow(q)
  <2>1. PICK u \in Users, right \in BOOLEAN :
          /\ Invites(u)
          /\ Takes(q, [Begins("reserve", u, u) EXCEPT !.row = invitation[u], !.right = right])
    BY <1>6 DEF FindRow
  <2> DEFINE b == Begins("reserve", u, u)
  <2> DEFINE r == [b EXCEPT !.row = invitation[u], !.right = right]
  <2>2. b \in States /\ b.pc = "reserve" /\ b.who = u /\ b.on = u
    BY BeginsType DEF Pcs
  <2> HIDE DEF b
  <2>3. r \in States /\ r.pc = "reserve" /\ r.who = u /\ r.on = u /\ r.row = invitation[u]
    BY <1>i, <2>2 DEF States
  <2>4. Sound(r)
    BY <1>0, <2>1, <2>3 DEF Named, Sound, Signed, Targeted, Accepting
  <2>5. request' = [request EXCEPT ![q] = r]
    BY <2>1 DEF Takes, b
  <2> HIDE DEF r
  <2>6. request' \in [Requests -> States] /\ AllSound'
    BY <1>0, <2>3, <2>4, <2>5, BecomesTypes
  <2> QED BY <1>0, <1>6, <2>6, ReadsType DEF FindRow, Kept
<1>7. CASE Reserve(q)
  <2>1. On(q) \in Users /\ request[q].pc = "reserve" /\ request[q].row.id \in Tokens
    BY <1>7, <1>s DEF Reserve, At, Sound, Targeted, Accepting, On
  <2>2. Goes(q, "compare") => request' \in [Requests -> States] /\ AllSound'
    <3>1. Sound([request[q] EXCEPT !.pc = "compare"]) /\ "compare" \in Pcs
      BY <1>s, <2>1 DEF States, Sound, Signed, Targeted, Accepting, Pcs, On
    <3> QED BY <1>0, <3>1, GoesTypes
  <2>3. request' \in [Requests -> States] /\ AllSound'
    BY <1>7, <1>e, <2>2 DEF Reserve
  <2>4. CASE SameRow(q) /\ invitation[On(q)].tries < MaxAttempts
    <3> DEFINE r == [invitation[On(q)] EXCEPT !.tries = invitation[On(q)].tries + 1]
    <3>1. invitation[On(q)].id \in Tokens /\ Invites(On(q))
      BY <2>1, <2>4, Constants, NotNone DEF SameRow, Invites
    <3>2. r \in InvitationRows /\ r.id \in Tokens /\ r.code \in Tokens
      BY <1>0, <1>i, <2>1, <3>1 DEF Named, InvitationRows
    <3>3. invitation' = [invitation EXCEPT ![On(q)] = r]
      BY <1>7, <2>4 DEF Reserve
    <3> HIDE DEF r
    <3>4. invitation' \in [Users -> InvitationRows] /\ Named'
      BY <1>0, <2>1, <3>2, <3>3, InvitationTypes
    <3> QED BY <1>0, <1>7, <2>3, <3>4 DEF Reserve, Typed, TypeOK, Owned, States
  <2>5. CASE ~(SameRow(q) /\ invitation[On(q)].tries < MaxAttempts)
    <3>1. invitation' \in [Users -> InvitationRows] /\ Named'
      BY <1>0, <1>7, <2>1, <2>5, DiscardedTypes DEF Reserve
    <3> QED BY <1>0, <1>7, <2>3, <3>1 DEF Reserve, Typed, TypeOK, Owned, States
  <2> QED BY <2>4, <2>5
<1>8. CASE Compare(q)
  <2>1. On(q) \in Users /\ request[q].pc = "compare" /\ request[q].row.id \in Tokens
    BY <1>8, <1>s DEF Compare, At, Sound, Targeted, Accepting, On
  <2>2. Goes(q, "accept") => request' \in [Requests -> States] /\ AllSound'
    <3>1. Sound([request[q] EXCEPT !.pc = "accept"]) /\ "accept" \in Pcs
      BY <1>s, <2>1 DEF States, Sound, Signed, Targeted, Accepting, Pcs, On
    <3> QED BY <1>0, <3>1, GoesTypes
  <2>3. request' \in [Requests -> States] /\ AllSound'
    BY <1>8, <1>e, <2>2 DEF Compare
  <2>4. invitation' \in [Users -> InvitationRows] /\ Named'
    BY <1>0, <1>8, <2>1, DiscardedTypes DEF Compare
  <2>5. tried' \in [Tokens -> Nat]
    BY <1>0, <1>8, <2>1 DEF Compare, TypeOK
  <2> QED BY <1>0, <1>8, <2>3, <2>4, <2>5 DEF Compare, Typed, TypeOK, Owned, States
<1>9. CASE Accept(q)
  <2>1. /\ On(q) \in Users /\ request[q].pc = "accept" /\ request[q].row.id \in Tokens
        /\ request[q].row.code \in Tokens /\ request[q].who = request[q].on
    BY <1>9, <1>s DEF Accept, At, Sound, Targeted, Accepting, On
  <2>2. Goes(q, "join") => request' \in [Requests -> States] /\ AllSound'
    <3>1. Sound([request[q] EXCEPT !.pc = "join"]) /\ "join" \in Pcs
      BY <1>s, <2>1 DEF States, Sound, Signed, Targeted, Accepting, Pcs, On
    <3> QED BY <1>0, <3>1, GoesTypes
  <2> DEFINE r == [request[q] EXCEPT !.pc = "return", !.read = Copy({On(q)})]
  <2>3. request' = [request EXCEPT ![q] = r] => request' \in [Requests -> States] /\ AllSound'
    <3>1. Copy({On(q)}) \in Copies
      BY <1>0, <2>1, CopyType
    <3>2. r \in States
      BY <1>s, <3>1 DEF States, Pcs
    <3>3. /\ r.pc = "return" /\ r.who = request[q].who /\ r.on = request[q].on
          /\ r.row = request[q].row /\ r.token = request[q].token /\ r.op = request[q].op
      BY <1>s, <3>1 DEF States
    <3>4. Sound(r)
      BY <2>1, <3>3 DEF Sound, Signed, Targeted, Accepting, On
    <3> HIDE DEF r
    <3> QED BY <1>0, <3>2, <3>4, BecomesTypes
  <2>4. request' \in [Requests -> States] /\ AllSound'
    BY <1>9, <1>e, <2>2, <2>3 DEF Accept
  <2>5. invitation' \in [Users -> InvitationRows] /\ Named'
    BY <1>0, <1>9, <2>1, DiscardedTypes DEF Accept
  <2> QED BY <1>0, <1>9, <2>4, <2>5 DEF Accept, Typed, TypeOK, Owned, States
<1>10. CASE Join(q)
  <2>1. On(q) \in Users /\ request[q].pc = "join"
    BY <1>10, <1>s DEF Join, At, Sound, Targeted, On
  <2>2. Goes(q, "joined") => request' \in [Requests -> States] /\ AllSound'
    <3>1. Sound([request[q] EXCEPT !.pc = "joined"]) /\ "joined" \in Pcs
      BY <1>s, <2>1 DEF States, Sound, Signed, Targeted, Accepting, Pcs, On
    <3> QED BY <1>0, <3>1, GoesTypes
  <2>3. request' \in [Requests -> States] /\ AllSound'
    BY <1>10, <1>e, <2>2 DEF Join
  <2>4. Account("here", "VIEWER") \in AccountRows
    BY Constants DEF Roles
  <2>5. user' \in [Users -> AccountRows]
    BY <1>0, <1>10, <2>1, <2>4, UserTypes DEF Join, TypeOK
  <2> QED BY <1>0, <1>10, <2>3, <2>5 DEF Join, Typed, TypeOK, Named, Invites, Owned, States
<1>11. CASE Joined(q)
  <2>1. On(q) \in Users
    BY <1>11, <1>s DEF Joined, At, Sound, Targeted, On
  <2>2. request' \in [Requests -> States] /\ AllSound'
    BY <1>11, <1>e DEF Joined
  <2>3. invitation' \in [Users -> InvitationRows] /\ Named'
    BY <1>0, <1>11, <2>1, DiscardedTypes DEF Joined
  <2> QED BY <1>0, <1>11, <2>2, <2>3 DEF Joined, Typed, TypeOK, Owned, States
<1>12. CASE Return(q)
  <2>1. On(q) \in Users /\ request[q].pc = "return" /\ request[q].who \in Users
    BY <1>12, <1>s DEF Return, At, Sound, Signed, Targeted, On
  <2>2. Sound([request[q] EXCEPT !.pc = "signOut"]) /\ "signOut" \in Pcs
    BY <1>s, <2>1 DEF States, Sound, Signed, Targeted, Accepting, Pcs, On
  <2>3. request' \in [Requests -> States] /\ AllSound'
    BY <1>0, <1>12, <2>2, GoesTypes DEF Return
  <2>4. Account("here", "VIEWER") \in AccountRows
    BY Constants DEF Roles
  <2>5. user' \in [Users -> AccountRows]
    BY <1>0, <1>12, <2>1, <2>4, UserTypes DEF Return
  <2>6. stale' \in BOOLEAN /\ left' \subseteq Users
    BY <1>0, <1>12 DEF Return, Notes, Stale, TypeOK
  <2> QED BY <1>0, <1>12, <2>3, <2>5, <2>6 DEF Return, Typed, TypeOK, Named, Invites, Owned, States
<1> QED BY <1>1, <1>2, <1>3, <1>4, <1>5, <1>6, <1>7, <1>8, <1>9, <1>10, <1>11, <1>12 DEF InviteStep

LEMMA SessionTypes ==
    ASSUME Typed, NEW q \in Requests, SessionStep(q)
    PROVE  Typed'
<1> USE DEF rows, history
<1>0. TypeOK /\ AllSound /\ Named /\ Owned
  BY DEF Typed
<1>s. request[q] \in States /\ Sound(request[q])
  BY <1>0 DEF TypeOK, AllSound, States
<1>e. Ends(q) => request' \in [Requests -> States] /\ AllSound'
  BY <1>0, EndsTypes
<1>1. CASE Login(q)
  <2>1. PICK u \in Users : Takes(q, Begins("token", u, None))
    BY <1>1, AccountsAssumption DEF Login
  <2>2. Begins("token", u, None) \in States /\ Sound(Begins("token", u, None))
    BY BeginsType DEF Sound, Signed, Targeted, Accepting, Pcs
  <2>3. request' \in [Requests -> States] /\ AllSound'
    BY <1>0, <2>1, <2>2, BecomesTypes DEF Takes
  <2> QED BY <1>0, <1>1, <2>3, ReadsType DEF Login, Kept
<1>2. CASE Google(q)
  <2>1. PICK u \in Users : Takes(q, IF Lives(u) THEN Begins("token", u, None)
                                    ELSE [Begins("found", u, None) EXCEPT !.read = Copy({u})])
    BY <1>2, AccountsAssumption DEF Google
  <2>2. Begins("token", u, None) \in States /\ Sound(Begins("token", u, None))
    BY BeginsType DEF Sound, Signed, Targeted, Accepting, Pcs
  <2> DEFINE s == [Begins("found", u, None) EXCEPT !.read = Copy({u})]
  <2>3. Copy({u}) \in Copies
    BY <1>0, CopyType
  <2>4. s \in States /\ Sound(s)
    BY <2>3, BeginsType DEF States, Sound, Signed, Targeted, Accepting, Pcs
  <2>5. request' \in [Requests -> States] /\ AllSound'
    BY <1>0, <2>1, <2>2, <2>4, BecomesTypes DEF Takes
  <2> QED BY <1>0, <1>2, <2>5, ReadsType DEF Google, Kept
<1>3. CASE Found(q)
  <2>1. Who(q) \in Users
    BY <1>3, <1>s DEF Found, At, Sound, Signed, Who
  <2>2. Begins("token", Who(q), None) \in States /\ Sound(Begins("token", Who(q), None))
    BY <2>1, BeginsType DEF Sound, Signed, Targeted, Accepting, Pcs
  <2>3. request' = [request EXCEPT ![q] = Begins("token", Who(q), None)]
           => request' \in [Requests -> States] /\ AllSound'
    BY <1>0, <2>2, BecomesTypes
  <2>4. request' \in [Requests -> States] /\ AllSound'
    BY <1>3, <1>e, <2>3 DEF Found
  <2>5. Account("away", "OWNER") \in AccountRows
    BY Constants DEF Roles
  <2>6. user' \in [Users -> AccountRows]
    BY <1>0, <1>3, <2>1, <2>5, UserTypes DEF Found, TypeOK
  <2>7. invitation' \in [Users -> InvitationRows] /\ Named'
    BY <1>0, <1>3, <2>1, DiscardedTypes DEF Found
  <2>8. stale' \in BOOLEAN /\ left' \subseteq Users
    BY <1>0, <1>3 DEF Found, Notes, Stale, TypeOK
  <2> QED BY <1>0, <1>3, <2>4, <2>6, <2>7, <2>8 DEF Found, Typed, TypeOK, Owned, States
<1>4. CASE FindToken(q)
  <2>1. PICK t \in Tokens : /\ session[t].live
                            /\ Takes(q, [Begins("rotate", session[t].of, None) EXCEPT !.token = t])
    BY <1>4 DEF FindToken
  <2> DEFINE u == session[t].of
  <2> DEFINE b == Begins("rotate", u, None)
  <2> DEFINE s == [b EXCEPT !.token = t]
  <2>2. u \in Users
    BY <1>0, <2>1 DEF Owned
  <2>3. b \in States /\ b.pc = "rotate" /\ b.who = u
    BY <2>2, BeginsType DEF Pcs
  <2> HIDE DEF b
  <2>4. s \in States /\ s.pc = "rotate" /\ s.who = u /\ s.token = t
    BY <2>3 DEF States
  <2>5. Sound(s)
    BY <2>2, <2>4 DEF Sound, Signed, Targeted, Accepting
  <2>6. request' = [request EXCEPT ![q] = s]
    BY <2>1 DEF Takes, b
  <2> HIDE DEF s
  <2>7. request' \in [Requests -> States] /\ AllSound'
    BY <1>0, <2>4, <2>5, <2>6, BecomesTypes
  <2>8. shared' \subseteq Tokens
    BY <1>0, <1>4 DEF FindToken, TypeOK
  <2> QED BY <1>0, <1>4, <2>7, <2>8 DEF FindToken, Typed, TypeOK, Named, Invites, Owned, States
<1>5. CASE Rotate(q)
  <2>1. request[q].token \in Tokens /\ request[q].who \in Users /\ request[q].pc = "rotate"
    BY <1>5, <1>s DEF Rotate, At, Sound, Signed
  <2>2. Sound([request[q] EXCEPT !.pc = "token"]) /\ "token" \in Pcs
    BY <1>s, <2>1 DEF States, Sound, Signed, Targeted, Accepting, Pcs
  <2>3. request' \in [Requests -> States] /\ AllSound'
    BY <1>0, <1>5, <2>2, GoesTypes DEF Rotate
  <2> DEFINE r == [session[request[q].token] EXCEPT !.live = FALSE]
  <2>4. session' = [session EXCEPT ![request[q].token] = r]
    BY <1>5 DEF Rotate
  <2>5. r \in [of : Users \cup {None}, live : BOOLEAN] /\ ~r.live
    <3>1. session[request[q].token] \in [of : Users \cup {None}, live : BOOLEAN]
      BY <1>0, <2>1 DEF TypeOK
    <3> QED BY <3>1
  <2> HIDE DEF r
  <2>6. session' \in [Tokens -> [of : Users \cup {None}, live : BOOLEAN]] /\ Owned'
    BY <1>0, <2>1, <2>4, <2>5 DEF TypeOK, Owned
  <2> QED BY <1>0, <1>5, <2>3, <2>6 DEF Rotate, Typed, TypeOK, Named, Invites, States
<1>6. CASE GenerateTokens(q)
  <2>1. Who(q) \in Users /\ q \in Tokens
    BY <1>6, <1>s, NotNone DEF GenerateTokens, At, Sound, Signed, Who
  <2>2. request' \in [Requests -> States] /\ AllSound'
    BY <1>6, <1>e DEF GenerateTokens
  <2>3. session' \in [Tokens -> [of : Users \cup {None}, live : BOOLEAN]] /\ Owned'
    BY <1>0, <1>6, <2>1 DEF GenerateTokens, TypeOK, Owned
  <2>4. rotated' \in [Tokens -> Nat]
    BY <1>0, <1>6 DEF GenerateTokens, TypeOK
  <2> QED BY <1>0, <1>6, <2>2, <2>3, <2>4 DEF GenerateTokens, Typed, TypeOK, Named, Invites, States
<1> QED BY <1>1, <1>2, <1>3, <1>4, <1>5, <1>6 DEF SessionStep

LEMMA ExpireTypes ==
    ASSUME Typed, NEW u \in Users, Expire(u)
    PROVE  Typed'
<1>0. TypeOK /\ AllSound /\ Named /\ Owned
  BY DEF Typed
<1> DEFINE r == [invitation[u] EXCEPT !.expired = TRUE]
<1>1. r \in InvitationRows /\ r.id \in Tokens /\ r.code \in Tokens
  <2>1. /\ invitation[u] \in InvitationRows
        /\ invitation[u].id \in Tokens /\ invitation[u].code \in Tokens
    BY <1>0 DEF Expire, Named, TypeOK
  <2> QED BY <2>1 DEF InvitationRows
<1>2. invitation' = [invitation EXCEPT ![u] = r]
  BY DEF Expire
<1> HIDE DEF r
<1>3. invitation' \in [Users -> InvitationRows] /\ Named'
  BY <1>0, <1>1, <1>2, InvitationTypes
<1> QED BY <1>0, <1>3 DEF Expire, Typed, TypeOK, AllSound, Owned, history

LEMMA InitTypes == Init => Typed
<1> SUFFICES ASSUME Init PROVE Typed
  OBVIOUS
<1>1. user \in [Users -> AccountRows]
  <2>1. [Account("here", "VIEWER") EXCEPT !.active = FALSE, !.deleted = TRUE] \in AccountRows
    BY DEF Account, AccountRows, Roles
  <2> QED BY <2>1, Constants DEF Init, Roles
<1>2. invitation \in [Users -> InvitationRows] /\ Named
  <2>1. \A u \in Users : LET r == [NoRow EXCEPT !.id = u, !.code = u]
                         IN  r \in InvitationRows /\ r.id \in Tokens /\ r.code \in Tokens
    BY NotNone DEF NoRow, InvitationRows
  <2>2. \A v \in Users : \/ invitation[v] = NoRow
                         \/ invitation[v] = [NoRow EXCEPT !.id = v, !.code = v]
    BY DEF Init
  <2>3. invitation \in [Users -> InvitationRows]
    <3>1. PICK u \in Users : \/ invitation = [v \in Users |-> NoRow]
                             \/ invitation = [v \in Users |-> IF v = u
                                    THEN [NoRow EXCEPT !.id = u, !.code = u] ELSE NoRow]
      BY DEF Init
    <3> DEFINE r == [NoRow EXCEPT !.id = u, !.code = u]
    <3>2. r \in InvitationRows /\ NoRow \in InvitationRows
      BY <2>1, Constants
    <3> HIDE DEF r
    <3>3. \/ invitation = [v \in Users |-> NoRow]
          \/ invitation = [v \in Users |-> IF v = u THEN r ELSE NoRow]
      BY <3>1 DEF r
    <3> QED BY <3>2, <3>3
  <2> QED BY <2>1, <2>2, <2>3 DEF Named, Invites
<1>3. session \in [Tokens -> [of : Users \cup {None}, live : BOOLEAN]] /\ Owned
  BY NotNone, Constants, AccountsAssumption DEF Init, Owned, First
<1>4. request \in [Requests -> States] /\ AllSound
  BY NotServedType DEF Init, AllSound, Sound, Signed, Targeted, Accepting
<1>5. limit \in Nat
  BY AccountsAssumption DEF Init
<1> QED BY <1>1, <1>2, <1>3, <1>4, <1>5 DEF Init, Typed, TypeOK, States

LEMMA StepTypes == Typed /\ [Next]_vars => Typed'
<1> SUFFICES ASSUME Typed, [Next]_vars PROVE Typed'
  OBVIOUS
<1>1. CASE UNCHANGED vars
  BY <1>1 DEF vars, rows, history, Typed, TypeOK, AllSound, Named, Invites, Owned
<1> QED BY <1>1, ManageTypes, InviteTypes, SessionTypes, ExpireTypes DEF Next

(* The types, for any users, requests, limits and attempts. *)
THEOREM TypeCorrect == Spec => []TypeOK
<1>1. Typed => TypeOK
  BY DEF Typed
<1> QED BY <1>1, InitTypes, StepTypes, PTL DEF Spec

--------------------------------------------------------------------------------
(* A step of a request concerns no other request, and starts or continues this one. *)
ManagePcs == {"manage", "write", "successor", "transfer", "leave", "signOut", "enforce", "served"}
InvitePcs == Inviting \cup Accepting \cup {"signOut", "served"}
SessionPcs == {"found", "rotate", "token", "served"}

Only(q) == \A p \in Requests \ {q} : request'[p] = request[p]

LEMMA BecomesOnly ==
    ASSUME TypeOK, NEW q \in Requests, NEW s, request' = [request EXCEPT ![q] = s]
    PROVE  Only(q) /\ request'[q] = s
BY DEF TypeOK, Only

LEMMA GoesOnly ==
    ASSUME TypeOK, NEW q \in Requests, NEW pc, Goes(q, pc)
    PROVE  Only(q) /\ request'[q] = [request[q] EXCEPT !.pc = pc] /\ request'[q].pc = pc
BY DEF TypeOK, Only, Goes

LEMMA EndsOnly ==
    ASSUME TypeOK, NEW q \in Requests, Ends(q)
    PROVE  Only(q) /\ request'[q] = Served /\ request'[q].pc = "served"
BY NotServedType DEF TypeOK, Only, Ends

LEMMA TakesOnly ==
    ASSUME TypeOK, NEW q \in Requests, NEW s, Takes(q, s)
    PROVE  Only(q) /\ request'[q] = s /\ request[q].pc = "waiting"
BY DEF TypeOK, Only, Takes, At

LEMMA ManageOnly ==
    ASSUME Typed, NEW q \in Requests, ManageStep(q)
    PROVE  /\ Only(q) /\ request[q].pc \in ManagePcs \cup {"waiting"}
           /\ request[q].pc # "served" /\ request'[q].pc \in ManagePcs
           /\ request'[q].pc \in {"leave", "signOut"} => AskToLeave(q) \/ Leave(q)
<1>0. TypeOK
  BY DEF Typed
<1>1. CASE ReadTarget(q)
  <2>1. PICK op \in Manage, u, v \in Users : Takes(q, [Begins("manage", u, v) EXCEPT !.op = op, !.read = Copy({v})])
    BY <1>1 DEF ReadTarget
  <2> DEFINE s == [Begins("manage", u, v) EXCEPT !.op = op, !.read = Copy({v})]
  <2>2. s.pc = "manage"
    BY DEF Begins, NotServed
  <2> HIDE DEF s
  <2>3. Takes(q, s)
    BY <2>1 DEF s
  <2> QED BY <1>0, <2>2, <2>3, TakesOnly DEF ManagePcs
<1>2. CASE ReadActor(q)
  <2>1. CASE Allowed(q)
    <3> DEFINE s == [request[q] EXCEPT !.pc = "write", !.read = WithNow(request[q].read, {Who(q)})]
    <3>1. request' = [request EXCEPT ![q] = s]
      BY <1>2, <2>1 DEF ReadActor
    <3>2. s.pc = "write"
      BY <1>0 DEF TypeOK
    <3> HIDE DEF s
    <3> QED BY <1>0, <1>2, <3>1, <3>2, BecomesOnly DEF ReadActor, At, ManagePcs
  <2> QED BY <1>0, <1>2, <2>1, EndsOnly DEF ReadActor, At, ManagePcs
<1>3. CASE ReadOwner(q)
  <2>1. PICK u, v \in Users : Takes(q, [Begins("successor", u, v) EXCEPT !.read = Copy({u})])
    BY <1>3 DEF ReadOwner
  <2> DEFINE s == [Begins("successor", u, v) EXCEPT !.read = Copy({u})]
  <2>2. s.pc = "successor"
    BY DEF Begins, NotServed
  <2> HIDE DEF s
  <2>3. Takes(q, s)
    BY <2>1 DEF s
  <2> QED BY <1>0, <2>2, <2>3, TakesOnly DEF ManagePcs
<1>4. CASE ReadSuccessor(q)
  <2>1. CASE On(q) \in Active
    <3> DEFINE s == [request[q] EXCEPT !.pc = "transfer", !.read = WithNow(request[q].read, {On(q)})]
    <3>1. request' = [request EXCEPT ![q] = s]
      BY <1>4, <2>1 DEF ReadSuccessor
    <3>2. s.pc = "transfer"
      BY <1>0 DEF TypeOK
    <3> HIDE DEF s
    <3> QED BY <1>0, <1>4, <3>1, <3>2, BecomesOnly DEF ReadSuccessor, At, ManagePcs
  <2> QED BY <1>0, <1>4, <2>1, EndsOnly DEF ReadSuccessor, At, ManagePcs
<1>5. CASE Write(q) \/ Transfer(q) \/ SignOut(q) \/ Deactivate(q)
  BY <1>0, <1>5, EndsOnly DEF Write, Transfer, SignOut, Deactivate, At, ManagePcs
<1>6. CASE AskToLeave(q)
  <2>1. PICK u \in Active : Takes(q, [Begins("leave", u, u) EXCEPT !.read = Copy({u})])
    BY <1>6 DEF AskToLeave
  <2> DEFINE s == [Begins("leave", u, u) EXCEPT !.read = Copy({u})]
  <2>2. s.pc = "leave"
    BY DEF Begins, NotServed
  <2> HIDE DEF s
  <2>3. Takes(q, s)
    BY <2>1 DEF s
  <2> QED BY <1>0, <1>6, <2>2, <2>3, TakesOnly DEF ManagePcs
<1>7. CASE Leave(q)
  BY <1>0, <1>7, GoesOnly DEF Leave, At, ManagePcs
<1>8. CASE EnforceLimits(q)
  <2>1. PICK drop \in SUBSET Active : Takes(q, [Begins("enforce", None, None) EXCEPT !.drop = drop, !.read = Copy(Active)])
    BY <1>8 DEF EnforceLimits
  <2> DEFINE s == [Begins("enforce", None, None) EXCEPT !.drop = drop, !.read = Copy(Active)]
  <2>2. s.pc = "enforce"
    BY DEF Begins, NotServed
  <2> HIDE DEF s
  <2>3. Takes(q, s)
    BY <2>1 DEF s
  <2> QED BY <1>0, <2>2, <2>3, TakesOnly DEF ManagePcs
<1> QED BY <1>1, <1>2, <1>3, <1>4, <1>5, <1>6, <1>7, <1>8 DEF ManageStep

LEMMA InviteOnly ==
    ASSUME Typed, NEW q \in Requests, InviteStep(q)
    PROVE  /\ Only(q) /\ request[q].pc \in InvitePcs \cup {"waiting"}
           /\ request[q].pc # "served" /\ request'[q].pc \in InvitePcs
           /\ request'[q].pc \in {"leave", "signOut"} => Return(q)
<1>0. TypeOK
  BY DEF Typed
<1> USE DEF InvitePcs, Inviting, Accepting
<1>1. CASE Count(q)
  <2>1. PICK u, v \in Users : Takes(q, Begins("look", None, v))
    BY <1>1 DEF Count
  <2> DEFINE s == Begins("look", None, v)
  <2>2. s.pc = "look"
    BY DEF Begins, NotServed
  <2> HIDE DEF s
  <2>3. Takes(q, s)
    BY <2>1 DEF s
  <2> QED BY <1>0, <2>2, <2>3, TakesOnly
<1>2. CASE Look(q)
  <2>1. Goes(q, "create") => Only(q) /\ request'[q].pc = "create"
    BY <1>0, GoesOnly
  <2>2. Ends(q) => Only(q) /\ request'[q].pc = "served"
    BY <1>0, EndsOnly
  <2> QED BY <1>2, <2>1, <2>2 DEF Look, At
<1>3. CASE Create(q) \/ Resend(q) \/ CancelInvitation(q) \/ Joined(q)
  BY <1>0, <1>3, EndsOnly DEF Create, Resend, CancelInvitation, Joined, At
<1>4. CASE FindRow(q)
  <2>1. PICK u \in Users, right \in BOOLEAN : Takes(q, [Begins("reserve", u, u) EXCEPT !.row = invitation[u], !.right = right])
    BY <1>4 DEF FindRow
  <2> DEFINE s == [Begins("reserve", u, u) EXCEPT !.row = invitation[u], !.right = right]
  <2>2. s.pc = "reserve"
    BY DEF Begins, NotServed
  <2> HIDE DEF s
  <2>3. Takes(q, s)
    BY <2>1 DEF s
  <2> QED BY <1>0, <2>2, <2>3, TakesOnly
<1>5. CASE Reserve(q) \/ Compare(q) \/ Join(q)
  <2>1. \A pc \in {"compare", "accept", "joined"} : Goes(q, pc) => Only(q) /\ request'[q].pc = pc
    BY <1>0, GoesOnly
  <2>2. Ends(q) => Only(q) /\ request'[q].pc = "served"
    BY <1>0, EndsOnly
  <2> QED BY <1>5, <2>1, <2>2 DEF Reserve, Compare, Join, At
<1>6. CASE Accept(q)
  <2> DEFINE s == [request[q] EXCEPT !.pc = "return", !.read = Copy({On(q)})]
  <2>1. s.pc = "return"
    BY <1>0 DEF TypeOK
  <2>2. request' = [request EXCEPT ![q] = s] => Only(q) /\ request'[q].pc = "return"
    <3> HIDE DEF s
    <3> QED BY <1>0, <2>1, BecomesOnly
  <2>3. Goes(q, "join") => Only(q) /\ request'[q].pc = "join"
    BY <1>0, GoesOnly
  <2>4. Ends(q) => Only(q) /\ request'[q].pc = "served"
    BY <1>0, EndsOnly
  <2> QED BY <1>6, <2>2, <2>3, <2>4 DEF Accept, At
<1>7. CASE Return(q)
  BY <1>0, <1>7, GoesOnly DEF Return, At
<1> QED BY <1>1, <1>2, <1>3, <1>4, <1>5, <1>6, <1>7 DEF InviteStep

LEMMA SessionOnly ==
    ASSUME Typed, NEW q \in Requests, SessionStep(q)
    PROVE  /\ Only(q) /\ request[q].pc \in SessionPcs \cup {"waiting"}
           /\ request[q].pc # "served" /\ request'[q].pc \in SessionPcs
<1>0. TypeOK
  BY DEF Typed
<1>1. CASE Login(q)
  <2>1. PICK u \in Signing : Takes(q, Begins("token", u, None))
    BY <1>1 DEF Login
  <2> DEFINE s == Begins("token", u, None)
  <2>2. s.pc = "token"
    BY DEF Begins, NotServed
  <2> HIDE DEF s
  <2>3. Takes(q, s)
    BY <2>1 DEF s
  <2> QED BY <1>0, <2>2, <2>3, TakesOnly DEF SessionPcs
<1>2. CASE Google(q)
  <2>1. PICK u \in Users : Takes(q, IF Lives(u) THEN Begins("token", u, None)
                                    ELSE [Begins("found", u, None) EXCEPT !.read = Copy({u})])
    BY <1>2, AccountsAssumption DEF Google
  <2> DEFINE a == Begins("token", u, None)
  <2> DEFINE b == [Begins("found", u, None) EXCEPT !.read = Copy({u})]
  <2>2. a.pc = "token" /\ b.pc = "found"
    BY DEF Begins, NotServed
  <2> HIDE DEF a, b
  <2>3. Takes(q, a) \/ Takes(q, b)
    BY <2>1 DEF a, b
  <2> QED BY <1>0, <2>2, <2>3, TakesOnly DEF SessionPcs
<1>3. CASE Found(q)
  <2>1. request' = [request EXCEPT ![q] = Begins("token", Who(q), None)] => Only(q) /\ request'[q].pc = "token"
    <3> DEFINE a == Begins("token", Who(q), None)
    <3>1. a.pc = "token"
      BY DEF Begins, NotServed
    <3> HIDE DEF a
    <3>2. request' = [request EXCEPT ![q] = a] => Only(q) /\ request'[q].pc = "token"
      BY <1>0, <3>1, BecomesOnly
    <3> QED BY <3>2 DEF a
  <2> QED BY <1>0, <1>3, <2>1, EndsOnly DEF Found, At, SessionPcs
<1>4. CASE FindToken(q)
  <2>1. PICK t \in Tokens : Takes(q, [Begins("rotate", session[t].of, None) EXCEPT !.token = t])
    BY <1>4 DEF FindToken
  <2> DEFINE s == [Begins("rotate", session[t].of, None) EXCEPT !.token = t]
  <2>2. s.pc = "rotate"
    BY DEF Begins, NotServed
  <2> HIDE DEF s
  <2>3. Takes(q, s)
    BY <2>1 DEF s
  <2> QED BY <1>0, <2>2, <2>3, TakesOnly DEF SessionPcs
<1>5. CASE Rotate(q)
  BY <1>0, <1>5, GoesOnly DEF Rotate, At, SessionPcs
<1>6. CASE GenerateTokens(q)
  BY <1>0, <1>6, EndsOnly DEF GenerateTokens, At, SessionPcs
<1> QED BY <1>1, <1>2, <1>3, <1>4, <1>5, <1>6 DEF SessionStep

--------------------------------------------------------------------------------
(* Who left is deleted, and, unless a request of his was under way at that moment, has no
   live token and no request that would make him one. *)
SignedOut(u) == ~SigningIn(u) /\ \A t \in Tokens : session[t].of = u => ~session[t].live
LeftInv == \A u \in left : user[u].deleted /\ (u \notin raced => SignedOut(u))

(* Who leaves, or comes back and is signed out, has an account. *)
Settled == \A q \in Requests : request[q].pc \in {"leave", "signOut"} => user[request[q].who].org # None

(* No step takes a user out of every organisation: a row that goes is marked deleted. *)
LEMMA OrgStays ==
    ASSUME Typed, [Next]_vars
    PROVE  \A u \in Users : user[u].org # None => user'[u].org # None
<1>0. TypeOK /\ AllSound
  BY DEF Typed
<1>1. CASE UNCHANGED user
  BY <1>1
<1>2. ASSUME NEW q \in Requests, Write(q) PROVE \A u \in Users : user[u].org # None => user'[u].org # None
  <2>1. \A u \in Users : user'[u] = IF u = On(q) THEN Changed(user[u], request[q].op) ELSE user[u]
    BY <1>0, <1>2 DEF Write, TypeOK
  <2>2. \A r \in AccountRows : Changed(r, request[q].op).org = r.org
    BY <1>0, <1>2 DEF Write, At, AllSound, Sound, Manage, RoleOps, Changed, AccountRows
  <2> QED BY <1>0, <2>1, <2>2 DEF TypeOK
<1>3. ASSUME NEW q \in Requests, Transfer(q) PROVE \A u \in Users : user[u].org # None => user'[u].org # None
  BY <1>0, <1>3 DEF Transfer, TypeOK, AccountRows
<1>4. ASSUME NEW q \in Requests, Leave(q) PROVE \A u \in Users : user[u].org # None => user'[u].org # None
  BY <1>0, <1>4 DEF Leave, TypeOK, AccountRows
<1>5. ASSUME NEW q \in Requests, Deactivate(q) PROVE \A u \in Users : user[u].org # None => user'[u].org # None
  BY <1>0, <1>5 DEF Deactivate, TypeOK, AccountRows
<1>6. ASSUME NEW q \in Requests, Join(q) \/ Return(q) PROVE \A u \in Users : user[u].org # None => user'[u].org # None
  BY <1>0, <1>6, NotNone DEF Join, Return, Account, None, TypeOK
<1>7. ASSUME NEW q \in Requests, Found(q) PROVE \A u \in Users : user[u].org # None => user'[u].org # None
  BY <1>0, <1>7, NotNone DEF Found, Account, None, TypeOK
<1>8. ASSUME NEW q \in Requests, ManageStep(q) PROVE UNCHANGED user \/ Write(q) \/ Transfer(q) \/ Leave(q) \/ Deactivate(q)
  BY <1>8 DEF ManageStep, rows, ReadTarget, ReadActor, ReadOwner, ReadSuccessor, AskToLeave, SignOut,
              EnforceLimits
<1>9. ASSUME NEW q \in Requests, InviteStep(q) PROVE UNCHANGED user \/ Join(q) \/ Return(q)
  BY <1>9 DEF InviteStep, rows, Count, Look, Create, Resend, CancelInvitation, FindRow, Reserve, Compare,
              Accept, Joined
<1>10. ASSUME NEW q \in Requests, SessionStep(q) PROVE UNCHANGED user \/ Found(q)
  BY <1>10 DEF SessionStep, rows, Login, Google, FindToken, Rotate, GenerateTokens
<1>11. ASSUME NEW u \in Users, Expire(u) PROVE UNCHANGED user
  BY <1>11 DEF Expire
<1>12. CASE UNCHANGED vars
  BY <1>1, <1>12 DEF vars, rows
<1> QED BY <1>1, <1>2, <1>3, <1>4, <1>5, <1>6, <1>7, <1>8, <1>9, <1>10, <1>11, <1>12 DEF Next

LEMMA SettledStays ==
    ASSUME Typed, Settled, [Next]_vars
    PROVE  Settled'
<1>0. TypeOK /\ AllSound
  BY DEF Typed
<1>1. \A u \in Users : user[u].org # None => user'[u].org # None
  BY OrgStays
<1>2. \A p \in Requests : request[p].pc \in {"leave", "signOut"} => request[p].who \in Users
  BY <1>0 DEF AllSound, Sound, Signed
<1>3. \A p \in Requests : request'[p] = request[p] /\ request'[p].pc \in {"leave", "signOut"}
                            => user'[request'[p].who].org # None
  BY <1>1, <1>2 DEF Settled
<1>4. ASSUME NEW q \in Requests, Only(q),
             request'[q].pc \in {"leave", "signOut"} => user'[request'[q].who].org # None
      PROVE  Settled'
  BY <1>3, <1>4 DEF Settled, Only
<1>5. ASSUME NEW q \in Requests, ManageStep(q) PROVE Settled'
  <2>1. Only(q)
    BY <1>5, ManageOnly
  <2>2. CASE AskToLeave(q)
    <3>1. PICK u \in Active : Takes(q, [Begins("leave", u, u) EXCEPT !.read = Copy({u})])
      BY <2>2 DEF AskToLeave
    <3> DEFINE s == [Begins("leave", u, u) EXCEPT !.read = Copy({u})]
    <3>2. s.who = u
      BY DEF Begins, NotServed
    <3> HIDE DEF s
    <3>3. Takes(q, s)
      BY <3>1 DEF s
    <3>4. request'[q] = s
      BY <1>0, <3>3, TakesOnly
    <3>5. u \in Users /\ user[u].org # None
      BY <3>1 DEF Active, Members, Member, None
    <3> QED BY <1>1, <1>4, <2>1, <3>2, <3>4, <3>5
  <2>3. CASE Leave(q)
    <3>1. request[q].pc = "leave" /\ request'[q].who = request[q].who
      BY <1>0, <2>3 DEF Leave, At, Goes, TypeOK
    <3> QED BY <1>1, <1>2, <1>4, <2>1, <3>1 DEF Settled
  <2>4. CASE ~AskToLeave(q) /\ ~Leave(q)
    <3>1. request'[q].pc \notin {"leave", "signOut"}
      BY <1>5, <2>4, ManageOnly
    <3> QED BY <1>4, <2>1, <3>1
  <2> QED BY <2>2, <2>3, <2>4
<1>6. ASSUME NEW q \in Requests, InviteStep(q) PROVE Settled'
  <2>1. Only(q)
    BY <1>6, InviteOnly
  <2>2. CASE Return(q)
    <3>1. request'[q].who = request[q].who /\ request[q].who = On(q) /\ On(q) \in Users
      BY <1>0, <2>2 DEF Return, At, Goes, On, TypeOK, AllSound, Sound, Accepting, Targeted
    <3>2. user'[On(q)].org = "here"
      <4>1. user' = [user EXCEPT ![On(q)] = Account("here", "VIEWER")]
        BY <2>2 DEF Return
      <4>2. Account("here", "VIEWER").org = "here"
        BY DEF Account
      <4> QED BY <1>0, <3>1, <4>1, <4>2 DEF TypeOK
    <3> QED BY <1>4, <2>1, <3>1, <3>2 DEF None
  <2>3. CASE ~Return(q)
    <3>1. request'[q].pc \notin {"leave", "signOut"}
      BY <1>6, <2>3, InviteOnly
    <3> QED BY <1>4, <2>1, <3>1
  <2> QED BY <2>2, <2>3
<1>7. ASSUME NEW q \in Requests, SessionStep(q) PROVE Settled'
  BY <1>4, <1>7, SessionOnly DEF SessionPcs
<1>8. ASSUME NEW u \in Users, Expire(u) PROVE Settled'
  BY <1>8, <1>3 DEF Expire, Settled
<1>9. CASE UNCHANGED vars
  BY <1>9 DEF vars, rows, Settled
<1> QED BY <1>5, <1>6, <1>7, <1>8, <1>9 DEF Next

LEMMA LeftFrame ==
    ASSUME LeftInv, raced \subseteq raced',
           \A u \in left' : u \in left /\ (user[u].deleted => user'[u].deleted),
           \A t \in Tokens : session'[t].live => session[t].live /\ session'[t].of = session[t].of,
           \A p \in Requests : request'[p].pc \in {"rotate", "token"}
               => request[p].pc \in {"rotate", "token"} /\ request'[p].who = request[p].who
    PROVE  LeftInv'
BY DEF LeftInv, SignedOut, SigningIn, Who

LEMMA ManageLeft ==
    ASSUME Typed, LeftInv, Settled, NEW q \in Requests, ManageStep(q)
    PROVE  LeftInv'
<1>0. TypeOK /\ AllSound
  BY DEF Typed
<1>1. \A p \in Requests : request'[p].pc \in {"rotate", "token"} => request'[p] = request[p]
  BY ManageOnly DEF Only, ManagePcs
<1>2. CASE SignOut(q)
  <2>1. Who(q) \in Users
    BY <1>0, <1>2 DEF SignOut, At, AllSound, Sound, Signed, Who
  <2>2. \A t \in Tokens : /\ session'[t].live => session'[t] = session[t]
                          /\ session[t].of = Who(q) => ~session'[t].live
                          /\ session'[t].of = session[t].of
    BY <1>0, <1>2 DEF SignOut, Revoked, TypeOK
  <2>3. SigningIn(Who(q)) \/ \A p \in Requests : Who(p) = Who(q) => request'[p].pc \notin {"rotate", "token"}
    BY <1>1 DEF SigningIn, Who
  <2>4. ASSUME NEW u \in left' PROVE user'[u].deleted /\ (u \notin raced' => SignedOut(u)')
    <3>1. CASE u = Who(q)
      <4>1. user'[u].deleted
        <5>1. user[Who(q)].org # None
          BY <1>2 DEF SignOut, At, Settled, Who
        <5>2. user' = user /\ (Lives(u) => u \in left)
          BY <1>2, <2>4, <3>1 DEF SignOut
        <5>3. CASE Lives(u)
          BY <5>2, <5>3 DEF LeftInv
        <5>4. CASE ~Lives(u)
          BY <3>1, <5>1, <5>2, <5>4 DEF Lives
        <5> QED BY <5>3, <5>4
      <4>2. u \notin raced' => ~SigningIn(u)
        BY <1>2, <3>1 DEF SignOut
      <4>3. ~SigningIn(u) => ~SigningIn(u)'
        BY <1>1 DEF SigningIn, Who
      <4> QED BY <1>2, <2>2, <3>1, <4>1, <4>2, <4>3 DEF SignOut, SignedOut
    <3>2. CASE u # Who(q)
      <4>1. u \in left /\ raced \subseteq raced'
        BY <1>2, <2>4, <3>2 DEF SignOut
      <4>2. ~SigningIn(u) => ~SigningIn(u)'
        BY <1>1 DEF SigningIn, Who
      <4> QED BY <1>2, <2>2, <4>1, <4>2 DEF SignOut, LeftInv, SignedOut
    <3> QED BY <3>1, <3>2
  <2> QED BY <2>4 DEF LeftInv
<1>3. CASE ~SignOut(q)
  <2>1. left' = left /\ raced' = raced /\ session' = session
    BY <1>3 DEF ManageStep, ReadTarget, ReadActor, Write, ReadOwner, ReadSuccessor, Transfer,
                AskToLeave, Leave, EnforceLimits, Deactivate, rows, history
  <2>2. \A u \in Users : user[u].deleted => user'[u].deleted
    <3>1. CASE UNCHANGED user
      BY <3>1
    <3>2. CASE Write(q)
      <4>1. \A u \in Users : user'[u] = IF u = On(q) THEN Changed(user[u], request[q].op) ELSE user[u]
        BY <1>0, <3>2 DEF Write, TypeOK
      <4>2. \A r \in AccountRows : r.deleted => Changed(r, request[q].op).deleted
        BY <1>0, <3>2 DEF Write, At, AllSound, Sound, Manage, RoleOps, Changed, AccountRows
      <4> QED BY <1>0, <4>1, <4>2 DEF TypeOK
    <3>3. CASE Transfer(q)
      <4>1. user' = [user EXCEPT ![Who(q)].role = "ADMIN", ![On(q)].role = "OWNER"]
        BY <3>3 DEF Transfer
      <4>2. \A u \in Users : user'[u].deleted = user[u].deleted
        BY <1>0, <4>1 DEF TypeOK, AccountRows
      <4> QED BY <4>2
    <3>4. CASE Leave(q)
      BY <1>0, <3>4 DEF Leave, TypeOK, AccountRows
    <3>5. CASE Deactivate(q)
      BY <1>0, <3>5 DEF Deactivate, TypeOK, AccountRows
    <3> QED BY <1>3, <3>1, <3>2, <3>3, <3>4, <3>5
            DEF ManageStep, ReadTarget, ReadActor, ReadOwner, ReadSuccessor, AskToLeave, EnforceLimits, rows
  <2> QED BY <1>0, <1>1, <2>1, <2>2, LeftFrame DEF TypeOK
<1> QED BY <1>2, <1>3

LEMMA InviteLeft ==
    ASSUME Typed, LeftInv, NEW q \in Requests, InviteStep(q)
    PROVE  LeftInv'
<1>0. TypeOK /\ AllSound
  BY DEF Typed
<1>1. \A p \in Requests : request'[p].pc \in {"rotate", "token"} => request'[p] = request[p]
  BY InviteOnly DEF Only, InvitePcs, Inviting, Accepting
<1>2. raced' = raced /\ session' = session
  BY DEF InviteStep, Count, Look, Create, Resend, CancelInvitation, FindRow, Reserve, Compare,
         Accept, Join, Joined, Return, rows, history
<1>3. CASE Return(q)
  <2>1. \A u \in left' : u \in left /\ (user[u].deleted => user'[u].deleted)
    BY <1>0, <1>3 DEF Return, TypeOK
  <2> QED BY <1>1, <1>2, <2>1, LeftFrame
<1>4. CASE Join(q)
  <2>1. \A u \in left' : u \in left /\ (user[u].deleted => user'[u].deleted)
    BY <1>0, <1>4, Constants DEF Join, TypeOK, history
  <2> QED BY <1>1, <1>2, <2>1, LeftFrame
<1>5. CASE ~Return(q) /\ ~Join(q)
  <2>1. left' = left /\ user' = user
    BY <1>5 DEF InviteStep, Count, Look, Create, Resend, CancelInvitation, FindRow, Reserve,
                Compare, Accept, Joined, rows, history
  <2> QED BY <1>1, <1>2, <2>1, LeftFrame
<1> QED BY <1>3, <1>4, <1>5

LEMMA SessionLeft ==
    ASSUME Typed, LeftInv, NEW q \in Requests, SessionStep(q)
    PROVE  LeftInv'
<1>0. TypeOK /\ AllSound /\ Owned
  BY DEF Typed
<1>1. Only(q)
  BY SessionOnly
<1>2. raced' = raced
  BY DEF SessionStep, Login, Google, Found, FindToken, Rotate, GenerateTokens, rows, history
(* A request that begins for a user who has not left without a trace of him. *)
<1>3. ASSUME left' \subseteq left, UNCHANGED session,
             \A u \in left' : user[u].deleted => user'[u].deleted,
             request'[q].pc \in {"rotate", "token"}
                 => request'[q].who \notin left' \/ request'[q].who \in raced
      PROVE  LeftInv'
  <2> SUFFICES ASSUME NEW u \in left' PROVE user'[u].deleted /\ (u \notin raced' => SignedOut(u)')
    BY DEF LeftInv
  <2>1. user[u].deleted /\ (u \notin raced => SignedOut(u))
    BY <1>3 DEF LeftInv
  <2>2. u \notin raced /\ ~SigningIn(u) => ~SigningIn(u)'
    BY <1>1, <1>3 DEF SigningIn, Who, Only
  <2> QED BY <1>2, <1>3, <2>1, <2>2 DEF SignedOut
<1>4. CASE Login(q)
  <2>1. PICK u \in Signing : Lives(u) /\ Takes(q, Begins("token", u, None))
    BY <1>4 DEF Login
  <2>2. request'[q].who = u
    <3> DEFINE s == Begins("token", u, None)
    <3>1. s.who = u
      BY DEF Begins, NotServed
    <3> HIDE DEF s
    <3>2. Takes(q, s)
      BY <2>1 DEF s
    <3> QED BY <1>0, <3>1, <3>2, TakesOnly
  <2>3. u \notin left
    BY <2>1 DEF Lives, LeftInv
  <2> QED BY <1>3, <1>4, <2>2, <2>3 DEF Login, rows, history
<1>5. CASE Google(q)
  <2>1. PICK u \in Signing : Takes(q, IF Lives(u) THEN Begins("token", u, None)
                                      ELSE [Begins("found", u, None) EXCEPT !.read = Copy({u})])
    BY <1>5 DEF Google
  <2>2. CASE Lives(u)
    <3>1. request'[q].who = u
      <4> DEFINE s == Begins("token", u, None)
      <4>1. s.who = u
        BY DEF Begins, NotServed
      <4> HIDE DEF s
      <4>2. Takes(q, s)
        BY <2>1, <2>2 DEF s
      <4> QED BY <1>0, <4>1, <4>2, TakesOnly
    <3>2. u \notin left
      BY <2>2 DEF Lives, LeftInv
    <3> QED BY <1>3, <1>5, <3>1, <3>2 DEF Google, rows, history
  <2>3. CASE ~Lives(u)
    <3>1. request'[q].pc = "found"
      <4> DEFINE s == [Begins("found", u, None) EXCEPT !.read = Copy({u})]
      <4>1. s.pc = "found"
        BY DEF Begins, NotServed
      <4> HIDE DEF s
      <4>2. Takes(q, s)
        BY <2>1, <2>3 DEF s
      <4> QED BY <1>0, <4>1, <4>2, TakesOnly
    <3> QED BY <1>3, <1>5, <3>1 DEF Google, rows, history
  <2> QED BY <2>2, <2>3
<1>6. CASE Found(q)
  <2>1. CASE request[q].read[Who(q)] = Stranger /\ user[Who(q)] # Stranger
    <3>1. request'[q].pc = "served"
      BY <1>0, <1>6, <2>1, EndsOnly DEF Found
    <3> QED BY <1>3, <1>6, <2>1, <3>1 DEF Found
  <2>2. CASE ~(request[q].read[Who(q)] = Stranger /\ user[Who(q)] # Stranger)
    <3>1. request'[q].who = Who(q) /\ Who(q) \notin left'
      <4> DEFINE s == Begins("token", Who(q), None)
      <4>1. s.who = Who(q)
        BY DEF Begins, NotServed
      <4> HIDE DEF s
      <4>2. request' = [request EXCEPT ![q] = s] /\ left' = left \ {Who(q)}
        BY <1>6, <2>2 DEF Found, s
      <4> QED BY <1>0, <4>1, <4>2, BecomesOnly
    <3>2. \A u \in left' : u \in left /\ user'[u] = user[u]
      BY <1>0, <1>6, <2>2 DEF Found, TypeOK
    <3> QED BY <1>3, <1>6, <3>1, <3>2 DEF Found
  <2> QED BY <2>1, <2>2
<1>7. CASE FindToken(q)
  <2>1. PICK t \in Tokens : /\ session[t].live
                            /\ Takes(q, [Begins("rotate", session[t].of, None) EXCEPT !.token = t])
    BY <1>7 DEF FindToken
  <2>2. request'[q].who = session[t].of
    <3> DEFINE s == [Begins("rotate", session[t].of, None) EXCEPT !.token = t]
    <3>1. s.who = session[t].of
      BY DEF Begins, NotServed
    <3> HIDE DEF s
    <3>2. Takes(q, s)
      BY <2>1 DEF s
    <3> QED BY <1>0, <3>1, <3>2, TakesOnly
  <2>3. session[t].of \notin left \/ session[t].of \in raced
    BY <2>1 DEF LeftInv, SignedOut
  <2> QED BY <1>3, <1>7, <2>2, <2>3 DEF FindToken, rows
<1>8. CASE Rotate(q)
  <2>1. request'[q].who = request[q].who /\ request[q].pc = "rotate" /\ request[q].token \in Tokens
    <3>1. request'[q] = [request[q] EXCEPT !.pc = "token"]
      BY <1>0, <1>8, GoesOnly DEF Rotate
    <3> QED BY <1>0, <1>8, <3>1 DEF Rotate, At, TypeOK, AllSound, Sound
  <2>2. \A t \in Tokens : session'[t].live => session'[t] = session[t]
    BY <1>0, <1>8, <2>1 DEF Rotate, TypeOK
  <2>3. \A p \in Requests : request'[p].pc \in {"rotate", "token"}
            => request[p].pc \in {"rotate", "token"} /\ request'[p].who = request[p].who
    BY <1>1, <2>1 DEF Only
  <2> QED BY <1>2, <1>8, <2>2, <2>3, LeftFrame DEF Rotate, history
<1>9. CASE GenerateTokens(q)
  <2>1. SigningIn(Who(q)) /\ q \in Tokens
    BY <1>9, NotNone DEF GenerateTokens, At, SigningIn, Who
  <2>2. \A t \in Tokens : session'[t] = IF t = q THEN [of |-> Who(q), live |-> TRUE] ELSE session[t]
    BY <1>0, <1>9, <2>1 DEF GenerateTokens, TypeOK
  <2>3. request'[q].pc = "served"
    BY <1>0, <1>9, EndsOnly DEF GenerateTokens
  <2>4. ASSUME NEW u \in left' PROVE user'[u].deleted /\ (u \notin raced' => SignedOut(u)')
    <3>1. u \in left /\ user' = user /\ user[u].deleted
      BY <1>9, <2>4 DEF GenerateTokens, LeftInv
    <3>2. u \notin raced => SignedOut(u) /\ u # Who(q)
      BY <2>1, <3>1 DEF LeftInv, SignedOut
    <3>3. ~SigningIn(u) => ~SigningIn(u)'
      BY <1>1, <2>3 DEF SigningIn, Who, Only
    <3> QED BY <1>2, <2>2, <3>1, <3>2, <3>3 DEF SignedOut
  <2> QED BY <2>4 DEF LeftInv
<1> QED BY <1>4, <1>5, <1>6, <1>7, <1>8, <1>9 DEF SessionStep

(* Nobody who left and was signed out works on with a token of his, unless a login or a
   refresh of his was under way. *)
THEOREM LeaversAreSignedOut == Spec => []LeftIsSignedOut
<1>1. Init => LeftInv /\ Settled
  BY DEF Init, LeftInv, Settled, NotServed
<1>2. Typed /\ LeftInv /\ Settled /\ [Next]_vars => LeftInv'
  <2> SUFFICES ASSUME Typed, LeftInv, Settled, [Next]_vars PROVE LeftInv'
    OBVIOUS
  <2>1. CASE UNCHANGED vars
    BY <2>1 DEF vars, rows, history, LeftInv, SignedOut, SigningIn, Who
  <2>2. ASSUME NEW u \in Users, Expire(u) PROVE LeftInv'
    BY <2>2 DEF Expire, history, LeftInv, SignedOut, SigningIn, Who
  <2> QED BY <2>1, <2>2, ManageLeft, InviteLeft, SessionLeft DEF Next
<1>3. LeftInv => LeftIsSignedOut
  BY DEF LeftInv, SignedOut, LeftIsSignedOut
<1> QED BY <1>1, <1>2, <1>3, InitTypes, StepTypes, SettledStays, PTL DEF Spec

--------------------------------------------------------------------------------
(* A token is exchanged once: who holds one that two have not found is its only holder,
   and a token that does not exist yet, its request not being served, is held by nobody. *)
Holds(q, t) == request[q].token = t /\ request[q].pc \in {"rotate", "token"}

Unborn == \A q \in Requests : request[q].pc # "served" =>
    /\ ~session[q].live
    /\ rotated[q] = 0
    /\ \A p \in Requests : ~Holds(p, q)

Alone == \A t \in Tokens \ shared :
    /\ rotated[t] <= 1
    /\ session[t].live => rotated[t] = 0
    /\ \A p \in Requests : Holds(p, t) =>
           /\ rotated[t] = 0
           /\ At(p, "token") => ~session[t].live
           /\ \A q \in Requests : Holds(q, t) => q = p

LEMMA RotatedFrame ==
    ASSUME Typed, Unborn, Alone, shared \subseteq shared', rotated' = rotated,
           \A t \in Tokens : session'[t].live => session[t].live,
           \A p \in Requests : request[p].pc = "served" => request'[p].pc = "served",
           \A p \in Requests : request'[p].token \in Tokens /\ request'[p].pc \in {"rotate", "token"}
               => request'[p] = request[p]
    PROVE  Unborn' /\ Alone'
<1>1. \A p \in Requests, t \in Tokens : Holds(p, t)' => Holds(p, t) /\ request'[p] = request[p]
  BY DEF Holds
<1>2. Unborn'
  BY <1>1, NotNone DEF Unborn
<1>3. ASSUME NEW t \in Tokens \ shared'
      PROVE  /\ rotated'[t] <= 1
             /\ session'[t].live => rotated'[t] = 0
             /\ \A p \in Requests : Holds(p, t)' =>
                    /\ rotated'[t] = 0
                    /\ At(p, "token")' => ~session'[t].live
                    /\ \A q \in Requests : Holds(q, t)' => q = p
  BY <1>1, <1>3 DEF Alone, At
<1> QED BY <1>2, <1>3 DEF Alone

LEMMA ManageRotated ==
    ASSUME Typed, Unborn, Alone, NEW q \in Requests, ManageStep(q)
    PROVE  Unborn' /\ Alone'
<1>0. TypeOK
  BY DEF Typed
<1>1. rotated' = rotated /\ shared' = shared
  BY DEF ManageStep, ReadTarget, ReadActor, Write, ReadOwner, ReadSuccessor, Transfer, SignOut,
         AskToLeave, Leave, EnforceLimits, Deactivate, history
<1>2. \A t \in Tokens : session'[t].live => session[t].live
  <2>1. CASE SignOut(q)
    BY <1>0, <2>1 DEF SignOut, Revoked, TypeOK
  <2>2. CASE ~SignOut(q)
    BY <2>2 DEF ManageStep, ReadTarget, ReadActor, Write, ReadOwner, ReadSuccessor, Transfer,
                AskToLeave, Leave, EnforceLimits, Deactivate, rows
  <2> QED BY <2>1, <2>2
<1>3. \A p \in Requests : /\ request[p].pc = "served" => request'[p].pc = "served"
                          /\ request'[p].pc \in {"rotate", "token"} => request'[p] = request[p]
  BY ManageOnly DEF Only, ManagePcs
<1> QED BY <1>1, <1>2, <1>3, RotatedFrame

LEMMA InviteRotated ==
    ASSUME Typed, Unborn, Alone, NEW q \in Requests, InviteStep(q)
    PROVE  Unborn' /\ Alone'
<1>1. rotated' = rotated /\ shared' = shared /\ session' = session
  BY DEF InviteStep, Count, Look, Create, Resend, CancelInvitation, FindRow, Reserve, Compare,
         Accept, Join, Joined, Return, rows, history
<1>2. \A p \in Requests : /\ request[p].pc = "served" => request'[p].pc = "served"
                          /\ request'[p].pc \in {"rotate", "token"} => request'[p] = request[p]
  BY InviteOnly DEF Only, InvitePcs, Inviting, Accepting
<1> QED BY <1>1, <1>2, RotatedFrame

LEMMA SessionRotated ==
    ASSUME Typed, Unborn, Alone, NEW q \in Requests, SessionStep(q)
    PROVE  Unborn' /\ Alone'
<1>0. TypeOK /\ AllSound
  BY DEF Typed
<1>1. Only(q) /\ request[q].pc # "served"
  BY SessionOnly
<1>2. \A p \in Requests : request[p].pc = "served" => request'[p].pc = "served"
  BY <1>1 DEF Only
(* A login or a refresh that begins without a token. *)
<1>3. ASSUME UNCHANGED <<rotated, shared, session>>,
             request'[q].token \notin Tokens \/ request'[q].pc \notin {"rotate", "token"}
      PROVE  Unborn' /\ Alone'
  <2>1. \A p \in Requests : request'[p].token \in Tokens /\ request'[p].pc \in {"rotate", "token"}
            => request'[p] = request[p]
    BY <1>1, <1>3 DEF Only
  <2> QED BY <1>2, <1>3, <2>1, RotatedFrame
<1>4. CASE Login(q)
  <2>1. PICK u \in Users : Takes(q, Begins("token", u, None))
    BY <1>4, AccountsAssumption DEF Login
  <2> DEFINE s == Begins("token", u, None)
  <2>2. s.token = None
    BY DEF Begins, NotServed
  <2> HIDE DEF s
  <2>3. Takes(q, s)
    BY <2>1 DEF s
  <2>4. request'[q] = s
    BY <1>0, <2>3, TakesOnly
  <2> QED BY <1>3, <1>4, <2>2, <2>4, NotNone DEF Login, rows, history
<1>5. CASE Google(q)
  <2>1. PICK u \in Users : Takes(q, IF Lives(u) THEN Begins("token", u, None)
                                    ELSE [Begins("found", u, None) EXCEPT !.read = Copy({u})])
    BY <1>5, AccountsAssumption DEF Google
  <2> DEFINE a == Begins("token", u, None)
  <2> DEFINE b == [Begins("found", u, None) EXCEPT !.read = Copy({u})]
  <2>2. a.token = None /\ b.pc = "found"
    BY DEF Begins, NotServed
  <2> HIDE DEF a, b
  <2>3. Takes(q, a) \/ Takes(q, b)
    BY <2>1 DEF a, b
  <2>4. request'[q] = a \/ request'[q] = b
    BY <1>0, <2>3, TakesOnly
  <2> QED BY <1>3, <1>5, <2>2, <2>4, NotNone DEF Google, rows, history
<1>6. CASE Found(q)
  <2> DEFINE s == Begins("token", Who(q), None)
  <2>1. s.token = None
    BY DEF Begins, NotServed
  <2> HIDE DEF s
  <2>2. Ends(q) \/ request' = [request EXCEPT ![q] = s]
    BY <1>6 DEF Found, s
  <2>3. request'[q].pc = "served" \/ request'[q] = s
    BY <1>0, <2>2, EndsOnly, BecomesOnly
  <2> QED BY <1>3, <1>6, <2>1, <2>3, NotNone DEF Found
<1>7. CASE FindToken(q)
  <2>1. PICK t \in Tokens :
           /\ session[t].live
           /\ Takes(q, [Begins("rotate", session[t].of, None) EXCEPT !.token = t])
           /\ shared' = IF \E p \in Requests : At(p, "rotate") /\ request[p].token = t
                        THEN shared \cup {t} ELSE shared
    BY <1>7 DEF FindToken
  <2> DEFINE s == [Begins("rotate", session[t].of, None) EXCEPT !.token = t]
  <2>2. s.token = t /\ s.pc = "rotate"
    BY DEF Begins, NotServed
  <2> HIDE DEF s
  <2>3. Takes(q, s)
    BY <2>1 DEF s
  <2>4. request'[q].token = t /\ request'[q].pc = "rotate" /\ request[q].pc = "waiting"
    BY <1>0, <2>2, <2>3, TakesOnly
  <2>5. UNCHANGED <<rotated, session>>
    BY <1>7 DEF FindToken, rows
  <2>6. \A p \in Requests, k \in Tokens : Holds(p, k)' <=> Holds(p, k) \/ (p = q /\ k = t)
    BY <1>1, <2>4 DEF Only, Holds
  <2>7. t \in Requests => request[t].pc = "served"
    BY <2>1 DEF Unborn
  <2>8. Unborn'
    BY <1>2, <2>5, <2>6, <2>7, NotNone DEF Unborn
  <2>9. t \notin shared' => \A p \in Requests : ~Holds(p, t)
    BY <2>1 DEF Alone, Holds, At
  <2>10. \A p \in Requests, k \in Tokens : Holds(p, k)' /\ At(p, "token")' => Holds(p, k) /\ At(p, "token")
    BY <1>1, <2>4 DEF Only, Holds, At
  <2>11. ASSUME NEW k \in Tokens \ shared'
         PROVE  /\ rotated'[k] <= 1
                /\ session'[k].live => rotated'[k] = 0
                /\ \A p \in Requests : Holds(p, k)' =>
                       /\ rotated'[k] = 0
                       /\ At(p, "token")' => ~session'[k].live
                       /\ \A r \in Requests : Holds(r, k)' => r = p
    BY <2>1, <2>5, <2>6, <2>9, <2>10, <2>11 DEF Alone
  <2> QED BY <2>8, <2>11 DEF Alone
<1>8. CASE Rotate(q)
  <2>1. request[q].pc = "rotate" /\ request[q].token \in Tokens
    BY <1>0, <1>8 DEF Rotate, At, AllSound, Sound
  <2>2. request'[q] = [request[q] EXCEPT !.pc = "token"]
    BY <1>0, <1>8, GoesOnly DEF Rotate
  <2>3. request'[q].token = request[q].token /\ request'[q].pc = "token"
    BY <1>0, <2>2 DEF TypeOK
  <2>4. UNCHANGED <<rotated, shared>>
    BY <1>8 DEF Rotate, history
  <2>5. \A t \in Tokens : session'[t].live <=> session[t].live /\ t # request[q].token
    BY <1>0, <1>8, <2>1 DEF Rotate, TypeOK
  <2>6. \A p \in Requests, t \in Tokens : Holds(p, t)' <=> Holds(p, t)
    BY <1>1, <2>1, <2>3 DEF Only, Holds
  <2>7. \A p \in Requests : At(p, "token")' => p = q \/ At(p, "token")
    BY <1>1 DEF Only, At
  <2>8. Unborn'
    BY <1>2, <2>4, <2>5, <2>6, NotNone DEF Unborn
  <2>9. ASSUME NEW t \in Tokens \ shared'
        PROVE  /\ rotated'[t] <= 1
               /\ session'[t].live => rotated'[t] = 0
               /\ \A p \in Requests : Holds(p, t)' =>
                      /\ rotated'[t] = 0
                      /\ At(p, "token")' => ~session'[t].live
                      /\ \A r \in Requests : Holds(r, t)' => r = p
    BY <2>4, <2>5, <2>6, <2>7, <2>9 DEF Alone, Holds
  <2> QED BY <2>8, <2>9 DEF Alone
<1>9. CASE GenerateTokens(q)
  <2>1. request[q].pc = "token" /\ q \in Tokens /\ request'[q].pc = "served"
    BY <1>0, <1>9, NotNone, EndsOnly DEF GenerateTokens, At
  <2>2. UNCHANGED shared
    BY <1>9 DEF GenerateTokens
  <2>3. \A t \in Tokens : session'[t].live <=> session[t].live \/ t = q
    BY <1>0, <1>9, <2>1 DEF GenerateTokens, TypeOK
  <2>4. \A t \in Tokens : rotated'[t] = IF Holds(q, t) THEN rotated[t] + 1 ELSE rotated[t]
    BY <1>0, <1>9, <2>1 DEF GenerateTokens, Holds, TypeOK
  <2>5. \A p \in Requests, t \in Tokens : Holds(p, t)' <=> Holds(p, t) /\ p # q
    BY <1>1, <2>1 DEF Only, Holds
  <2>6. \A p \in Requests : At(p, "token")' => At(p, "token")
    BY <1>1, <2>1 DEF Only, At
  <2>7. ~session[q].live /\ rotated[q] = 0 /\ \A p \in Requests : ~Holds(p, q)
    BY <2>1 DEF Unborn
  <2>8. Unborn'
    <3> SUFFICES ASSUME NEW p \in Requests, request'[p].pc # "served"
                 PROVE  /\ ~session'[p].live
                        /\ rotated'[p] = 0
                        /\ \A r \in Requests : ~Holds(r, p)'
      BY DEF Unborn
    <3>1. p # q /\ request[p].pc # "served" /\ p \in Tokens
      BY <1>2, <2>1, NotNone
    <3> QED BY <2>3, <2>4, <2>5, <3>1 DEF Unborn
  <2>9. ASSUME NEW t \in Tokens \ shared'
        PROVE  /\ rotated'[t] <= 1
               /\ session'[t].live => rotated'[t] = 0
               /\ \A p \in Requests : Holds(p, t)' =>
                      /\ rotated'[t] = 0
                      /\ At(p, "token")' => ~session'[t].live
                      /\ \A r \in Requests : Holds(r, t)' => r = p
    <3>1. t \in Tokens \ shared /\ rotated[t] \in Nat
      BY <1>0, <2>2 DEF TypeOK
    <3>2. CASE t = q
      BY <2>3, <2>4, <2>5, <2>7, <3>1, <3>2
    <3>3. CASE t # q /\ Holds(q, t)
      <4>1. rotated[t] = 0 /\ ~session[t].live /\ \A r \in Requests : Holds(r, t) => r = q
        BY <2>1, <3>1, <3>3 DEF Alone, At
      <4> QED BY <2>3, <2>4, <2>5, <3>1, <3>3, <4>1
    <3>4. CASE t # q /\ ~Holds(q, t)
      BY <2>3, <2>4, <2>5, <2>6, <3>1, <3>4 DEF Alone
    <3> QED BY <3>2, <3>3, <3>4
  <2> QED BY <2>8, <2>9 DEF Alone
<1> QED BY <1>4, <1>5, <1>6, <1>7, <1>8, <1>9 DEF SessionStep

(* A refresh token is exchanged once, however many requests there are, unless two refreshes
   found it before either revoked it. *)
THEOREM TokensRotateOnce == Spec => []RotatedOnce
<1>1. Init => Unborn /\ Alone
  <2> SUFFICES ASSUME Init PROVE Unborn /\ Alone
    OBVIOUS
  <2>1. \A q \in Requests, t \in Tokens : ~Holds(q, t)
    BY NotServedType DEF Init, Holds
  <2>2. \A q \in Requests : q \notin First /\ q \in Tokens
    BY AccountsAssumption DEF First, Tokens
  <2>3. \A t \in Tokens : rotated[t] = 0 /\ (session[t].live => t \in First)
    BY Constants DEF Init
  <2> QED BY <2>1, <2>2, <2>3 DEF Unborn, Alone
<1>2. Typed /\ Unborn /\ Alone /\ [Next]_vars => Unborn' /\ Alone'
  <2> SUFFICES ASSUME Typed, Unborn, Alone, [Next]_vars PROVE Unborn' /\ Alone'
    OBVIOUS
  <2>1. CASE UNCHANGED vars
    BY <2>1 DEF vars, rows, history, Unborn, Alone, Holds, At
  <2>2. ASSUME NEW u \in Users, Expire(u) PROVE Unborn' /\ Alone'
    BY <2>2 DEF Expire, history, Unborn, Alone, Holds, At
  <2> QED BY <2>1, <2>2, ManageRotated, InviteRotated, SessionRotated DEF Next
<1>3. Alone => RotatedOnce
  BY DEF Alone, RotatedOnce
<1> QED BY <1>1, <1>2, <1>3, InitTypes, StepTypes, PTL DEF Spec

--------------------------------------------------------------------------------
(* An attempt is counted on the row before the codes are compared: the codes compared and
   those about to be are no more than the attempts the row has counted, and a row whose
   request is not served yet has neither. *)
Comparing(t) == {q \in Requests : At(q, "compare") /\ request[q].row.id = t}

Counted == \A t \in Tokens :
    /\ IsFiniteSet(Comparing(t))
    /\ tried[t] + Cardinality(Comparing(t)) <= MaxAttempts
    /\ \A u \in Users : invitation[u].id = t =>
           /\ tried[t] + Cardinality(Comparing(t)) <= invitation[u].tries
           /\ invitation[u].tries <= MaxAttempts
           /\ \A v \in Users : invitation[v].id = t => v = u

NoRowYet == \A q \in Requests : request[q].pc # "served" =>
    /\ tried[q] = 0
    /\ \A u \in Users : invitation[u].id # q
    /\ \A p \in Requests : request[p].pc \in Accepting => request[p].row.id # q

LEMMA CountedFrame ==
    ASSUME Typed, Counted, NoRowYet, tried' = tried,
           \A u \in Users : \/ invitation'[u].id = None
                            \/ /\ invitation'[u].id = invitation[u].id
                               /\ invitation'[u].tries = invitation[u].tries,
           \A p \in Requests :
               /\ request[p].pc = "served" => request'[p].pc = "served"
               /\ request[p].pc = "compare" \/ request'[p].pc = "compare" => request'[p] = request[p]
               /\ request'[p].pc \in Accepting =>
                      \/ request[p].pc \in Accepting /\ request'[p].row = request[p].row
                      \/ \E u \in Users : request'[p].row.id = invitation[u].id
    PROVE  Counted' /\ NoRowYet'
<1>1. \A t \in Tokens : Comparing(t)' = Comparing(t)
  BY DEF Comparing, At
<1>2. Counted'
  BY <1>1, NotNone DEF Counted
<1>3. NoRowYet'
  BY NotNone DEF NoRowYet
<1> QED BY <1>2, <1>3

LEMMA ManageCounted ==
    ASSUME Typed, Counted, NoRowYet, NEW q \in Requests, ManageStep(q)
    PROVE  Counted' /\ NoRowYet'
<1>1. tried' = tried /\ invitation' = invitation
  BY DEF ManageStep, ReadTarget, ReadActor, Write, ReadOwner, ReadSuccessor, Transfer, SignOut,
         AskToLeave, Leave, EnforceLimits, Deactivate, rows, history
<1>2. \A p \in Requests :
          /\ request[p].pc = "served" => request'[p].pc = "served"
          /\ request[p].pc = "compare" \/ request'[p].pc = "compare" => request'[p] = request[p]
          /\ request'[p].pc \in Accepting => request'[p] = request[p]
  BY ManageOnly DEF Only, ManagePcs, Accepting
<1> QED BY <1>1, <1>2, CountedFrame

LEMMA SessionCounted ==
    ASSUME Typed, Counted, NoRowYet, NEW q \in Requests, SessionStep(q)
    PROVE  Counted' /\ NoRowYet'
<1>0. TypeOK
  BY DEF Typed
<1>1. tried' = tried
  BY DEF SessionStep, Login, Google, Found, FindToken, Rotate, GenerateTokens, rows, history
<1>2. \A u \in Users : invitation'[u] = NoRow \/ invitation'[u] = invitation[u]
  <2>1. invitation' = Discarded(Who(q)) \/ invitation' = invitation
    BY DEF SessionStep, Login, Google, Found, FindToken, Rotate, GenerateTokens, rows
  <2> QED BY <1>0, <2>1 DEF Discarded, TypeOK
<1>3. \A p \in Requests :
          /\ request[p].pc = "served" => request'[p].pc = "served"
          /\ request[p].pc = "compare" \/ request'[p].pc = "compare" => request'[p] = request[p]
          /\ request'[p].pc \in Accepting => request'[p] = request[p]
  BY SessionOnly DEF Only, SessionPcs, Accepting
<1> QED BY <1>1, <1>2, <1>3, Constants, CountedFrame

LEMMA InviteCounted ==
    ASSUME Typed, Counted, NoRowYet, NEW q \in Requests, InviteStep(q)
    PROVE  Counted' /\ NoRowYet'
<1>0. TypeOK /\ AllSound /\ Named
  BY DEF Typed
<1>1. Only(q) /\ request[q].pc # "served"
  BY InviteOnly
<1>2. \A p \in Requests : request[p].pc = "served" => request'[p].pc = "served"
  BY <1>1 DEF Only
<1>3. ASSUME tried' = tried, request[q].pc # "compare", request'[q].pc # "compare",
             \A u \in Users : \/ invitation'[u].id = None
                              \/ /\ invitation'[u].id = invitation[u].id
                                 /\ invitation'[u].tries = invitation[u].tries,
             request'[q].pc \in Accepting =>
                 \/ request[q].pc \in Accepting /\ request'[q].row = request[q].row
                 \/ \E u \in Users : request'[q].row.id = invitation[u].id
      PROVE  Counted' /\ NoRowYet'
  <2>1. \A p \in Requests :
            /\ request[p].pc = "served" => request'[p].pc = "served"
            /\ request[p].pc = "compare" \/ request'[p].pc = "compare" => request'[p] = request[p]
            /\ request'[p].pc \in Accepting =>
                   \/ request[p].pc \in Accepting /\ request'[p].row = request[p].row
                   \/ \E u \in Users : request'[p].row.id = invitation[u].id
    BY <1>1, <1>2, <1>3 DEF Only
  <2> QED BY <1>3, <2>1, CountedFrame
<1>4. \A u \in Users, v \in Users :
          invitation' = Discarded(v) \/ invitation' = invitation
              => invitation'[u].id = None \/ invitation'[u] = invitation[u]
  BY <1>0, Constants DEF Discarded, TypeOK
<1>5. Ends(q) => request'[q].pc = "served"
  BY <1>0, EndsOnly
<1>6. \A pc \in Pcs : Goes(q, pc) => request'[q].pc = pc /\ request'[q].row = request[q].row
  <2> SUFFICES ASSUME NEW pc \in Pcs, Goes(q, pc)
               PROVE  request'[q].pc = pc /\ request'[q].row = request[q].row
    OBVIOUS
  <2>1. request'[q] = [request[q] EXCEPT !.pc = pc]
    BY <1>0, GoesOnly
  <2> QED BY <1>0, <2>1 DEF TypeOK
<1>p. {"create", "compare", "accept", "join", "joined", "signOut"} \subseteq Pcs
  BY DEF Pcs
<1>7. CASE Count(q)
  <2>1. PICK u, v \in Users : Takes(q, Begins("look", None, v))
    BY <1>7 DEF Count
  <2> DEFINE s == Begins("look", None, v)
  <2>2. s.pc = "look"
    BY DEF Begins, NotServed
  <2> HIDE DEF s
  <2>3. Takes(q, s)
    BY <2>1 DEF s
  <2>4. request'[q].pc = "look" /\ request[q].pc = "waiting"
    BY <1>0, <2>2, <2>3, TakesOnly
  <2> QED BY <1>3, <1>7, <2>4 DEF Count, rows, Accepting
<1>8. CASE Look(q)
  <2>1. request[q].pc = "look" /\ request'[q].pc \in {"served", "create"} /\ On(q) \in Users
    BY <1>0, <1>5, <1>6, <1>8, <1>p DEF Look, At, On, AllSound, Sound, Targeted
  <2>2. invitation' = Discarded(On(q)) \/ invitation' = invitation
    BY <1>8 DEF Look, Discarded
  <2> QED BY <1>3, <1>4, <1>8, <2>1, <2>2 DEF Look, history, Accepting
<1>9. CASE Create(q)
  <2>1. request[q].pc = "create" /\ request'[q].pc = "served" /\ On(q) \in Users /\ q \in Tokens
    BY <1>0, <1>5, <1>9, NotNone DEF Create, At, On, AllSound, Sound, Targeted
  <2>2. \A p \in Requests : request'[p].pc # "served" => request'[p] = request[p] /\ p # q
    BY <1>1, <2>1 DEF Only
  <2>3. \A t \in Tokens : Comparing(t)' = Comparing(t)
    BY <1>1, <2>1 DEF Comparing, At, Only
  <2>4. Comparing(q) = {}
    BY <1>1 DEF Comparing, NoRowYet, At, Accepting
  <2>5. tried' = tried /\ tried[q] = 0 /\ Cardinality(Comparing(q)) = 0
    BY <1>1, <1>9, <2>4, FS_EmptySet DEF Create, history, NoRowYet
  <2> DEFINE r == [NoRow EXCEPT !.id = q, !.code = q]
  <2>6. r.id = q /\ r.tries = 0
    BY DEF NoRow
  <2> HIDE DEF r
  <2>7. invitation' = [invitation EXCEPT ![On(q)] = IF Invites(On(q)) THEN @ ELSE r]
    BY <1>9 DEF Create, r
  <2>8. \A u \in Users : invitation'[u] = invitation[u] \/ (u = On(q) /\ invitation'[u] = r)
    BY <1>0, <2>7 DEF TypeOK
  <2>9. \A u \in Users : invitation[u].id # q
    BY <1>1 DEF NoRowYet
  <2>10. 0 <= MaxAttempts
    BY AccountsAssumption
  <2>11. Counted'
    <3> SUFFICES ASSUME NEW t \in Tokens
                 PROVE  /\ IsFiniteSet(Comparing(t))'
                        /\ tried'[t] + Cardinality(Comparing(t))' <= MaxAttempts
                        /\ \A u \in Users : invitation'[u].id = t =>
                               /\ tried'[t] + Cardinality(Comparing(t))' <= invitation'[u].tries
                               /\ invitation'[u].tries <= MaxAttempts
                               /\ \A v \in Users : invitation'[v].id = t => v = u
      BY DEF Counted
    <3>1. CASE t = q
      BY <2>3, <2>5, <2>6, <2>8, <2>9, <2>10, <3>1 DEF Counted
    <3>2. CASE t # q
      BY <2>3, <2>5, <2>6, <2>8, <3>2 DEF Counted
    <3> QED BY <3>1, <3>2
  <2>12. NoRowYet'
    BY <1>2, <2>1, <2>2, <2>5, <2>6, <2>8 DEF NoRowYet, Accepting
  <2> QED BY <2>11, <2>12
<1>10. CASE Resend(q)
  <2>1. PICK v \in Users : invitation' = [invitation EXCEPT ![v].code = q, ![v].expired = FALSE]
    BY <1>10 DEF Resend
  <2>2. \A u \in Users : invitation'[u].id = invitation[u].id /\ invitation'[u].tries = invitation[u].tries
    BY <1>0, <2>1 DEF TypeOK, InvitationRows
  <2> QED BY <1>3, <1>5, <1>10, <2>2 DEF Resend, At, history, Accepting
<1>11. CASE CancelInvitation(q)
  <2>1. PICK v \in Users : invitation' = Discarded(v)
    BY <1>11 DEF CancelInvitation, Discarded
  <2> QED BY <1>3, <1>4, <1>5, <1>11, <2>1 DEF CancelInvitation, At, history, Accepting
<1>12. CASE FindRow(q)
  <2>1. PICK u \in Users, right \in BOOLEAN :
           Takes(q, [Begins("reserve", u, u) EXCEPT !.row = invitation[u], !.right = right])
    BY <1>12 DEF FindRow
  <2> DEFINE s == [Begins("reserve", u, u) EXCEPT !.row = invitation[u], !.right = right]
  <2>2. s.pc = "reserve" /\ s.row = invitation[u]
    BY DEF Begins, NotServed
  <2> HIDE DEF s
  <2>3. Takes(q, s)
    BY <2>1 DEF s
  <2>4. request'[q].pc = "reserve" /\ request[q].pc = "waiting" /\ request'[q].row = invitation[u]
    BY <1>0, <2>2, <2>3, TakesOnly
  <2> QED BY <1>3, <1>12, <2>4 DEF FindRow, rows, history, Accepting
<1>13. CASE Reserve(q)
  <2>1. request[q].pc = "reserve" /\ On(q) \in Users /\ request[q].row.id \in Tokens
    BY <1>0, <1>13 DEF Reserve, At, On, AllSound, Sound, Targeted, Accepting
  <2>2. CASE ~(SameRow(q) /\ invitation[On(q)].tries < MaxAttempts)
    BY <1>3, <1>4, <1>5, <1>13, <2>1, <2>2 DEF Reserve, history, Accepting
  <2>3. CASE SameRow(q) /\ invitation[On(q)].tries < MaxAttempts
    <3> DEFINE k == request[q].row.id
    <3>1. /\ request'[q].pc = "compare" /\ request'[q].row.id = k
          /\ invitation' = [invitation EXCEPT ![On(q)].tries = @ + 1]
          /\ tried' = tried /\ invitation[On(q)].id = k
      BY <1>6, <1>13, <1>p, <2>3 DEF Reserve, SameRow, history
    <3>2. \A u \in Users : /\ invitation'[u].id = invitation[u].id
                           /\ invitation'[u].tries = IF u = On(q) THEN invitation[u].tries + 1
                                                     ELSE invitation[u].tries
      BY <1>0, <3>1 DEF TypeOK, InvitationRows
    <3>3. q \notin Comparing(k) /\ Comparing(k)' = Comparing(k) \cup {q}
      BY <1>1, <2>1, <3>1 DEF Comparing, At, Only
    <3>4. \A t \in Tokens \ {k} : Comparing(t)' = Comparing(t)
      BY <1>1, <2>1, <3>1 DEF Comparing, At, Only
    <3>5. /\ IsFiniteSet(Comparing(k)) /\ IsFiniteSet(Comparing(k))'
          /\ Cardinality(Comparing(k)) \in Nat
          /\ Cardinality(Comparing(k))' = Cardinality(Comparing(k)) + 1
      <4>1. IsFiniteSet(Comparing(k))
        BY <2>1 DEF Counted
      <4>2. IsFiniteSet(Comparing(k) \cup {q}) /\ Cardinality(Comparing(k) \cup {q}) = Cardinality(Comparing(k)) + 1
        BY <3>3, <4>1, FS_AddElement
      <4> QED BY <3>3, <4>1, <4>2, FS_CardinalityType
    <3>6. tried[k] \in Nat /\ invitation[On(q)].tries \in Nat /\ MaxAttempts \in Nat
      BY <1>0, <2>1, AccountsAssumption DEF TypeOK, InvitationRows
    <3>7. /\ tried[k] + Cardinality(Comparing(k)) <= invitation[On(q)].tries
          /\ \A v \in Users : invitation[v].id = k => v = On(q)
      BY <2>1, <3>1 DEF Counted
    <3>8. Counted'
      <4> SUFFICES ASSUME NEW t \in Tokens
                   PROVE  /\ IsFiniteSet(Comparing(t))'
                          /\ tried'[t] + Cardinality(Comparing(t))' <= MaxAttempts
                          /\ \A u \in Users : invitation'[u].id = t =>
                                 /\ tried'[t] + Cardinality(Comparing(t))' <= invitation'[u].tries
                                 /\ invitation'[u].tries <= MaxAttempts
                                 /\ \A v \in Users : invitation'[v].id = t => v = u
        BY DEF Counted
      <4>1. CASE t = k
        <5>1. tried[k] + (Cardinality(Comparing(k)) + 1) <= invitation[On(q)].tries + 1
          BY <3>5, <3>6, <3>7
        <5>2. invitation[On(q)].tries + 1 <= MaxAttempts
          BY <2>3, <3>6
        <5>3. tried[k] + (Cardinality(Comparing(k)) + 1) <= MaxAttempts
          BY <3>5, <3>6, <5>1, <5>2
        <5> QED BY <3>1, <3>2, <3>5, <3>7, <4>1, <5>1, <5>2, <5>3
      <4>2. CASE t # k
        BY <3>1, <3>2, <3>4, <4>2 DEF Counted
      <4> QED BY <4>1, <4>2
    <3>9. NoRowYet'
      BY <1>1, <1>2, <2>1, <3>1, <3>2 DEF NoRowYet, Only, Accepting
    <3> QED BY <3>8, <3>9
  <2> QED BY <2>2, <2>3
<1>14. CASE Compare(q)
  <2>0. request[q].pc = "compare" /\ On(q) \in Users /\ request[q].row.id \in Tokens
    BY <1>0, <1>14 DEF Compare, At, On, AllSound, Sound, Targeted, Accepting
  <2>k. PICK k \in Tokens : k = request[q].row.id
    BY <2>0
  <2>1. request[q].pc = "compare" /\ On(q) \in Users /\ k \in Tokens /\ request[q].row.id = k
    BY <2>0, <2>k
  <2>2. request'[q].pc = "served" \/ (request'[q].pc = "accept" /\ request'[q].row = request[q].row)
    BY <1>5, <1>6, <1>14, <1>p DEF Compare
  <2>3. \A t \in Tokens : tried'[t] = IF t = k THEN tried[t] + 1 ELSE tried[t]
    BY <1>0, <1>14, <2>1 DEF Compare, TypeOK
  <2>4. \A u \in Users : invitation'[u].id = None \/ invitation'[u] = invitation[u]
    BY <1>4, <1>14, <2>1 DEF Compare
  <2>5. q \in Comparing(k) /\ Comparing(k)' = Comparing(k) \ {q}
    BY <1>1, <2>1, <2>2 DEF Comparing, At, Only
  <2>6. \A t \in Tokens \ {k} : Comparing(t)' = Comparing(t)
    BY <1>1, <2>1, <2>2 DEF Comparing, At, Only
  <2>7. /\ IsFiniteSet(Comparing(k))'
        /\ Cardinality(Comparing(k)) \in Nat
        /\ Cardinality(Comparing(k))' = Cardinality(Comparing(k)) - 1
    <3>1. IsFiniteSet(Comparing(k))
      BY <2>1 DEF Counted
    <3>2. IsFiniteSet(Comparing(k) \ {q}) /\ Cardinality(Comparing(k) \ {q}) = Cardinality(Comparing(k)) - 1
      BY <2>5, <3>1, FS_RemoveElement
    <3> QED BY <2>5, <3>1, <3>2, FS_CardinalityType
  <2>8. tried[k] \in Nat
    BY <1>0, <2>1 DEF TypeOK
  <2>9. tried'[k] + Cardinality(Comparing(k))' = tried[k] + Cardinality(Comparing(k))
    BY <2>1, <2>3, <2>7, <2>8
  <2>10. Counted'
    <3> SUFFICES ASSUME NEW t \in Tokens
                 PROVE  /\ IsFiniteSet(Comparing(t))'
                        /\ tried'[t] + Cardinality(Comparing(t))' <= MaxAttempts
                        /\ \A u \in Users : invitation'[u].id = t =>
                               /\ tried'[t] + Cardinality(Comparing(t))' <= invitation'[u].tries
                               /\ invitation'[u].tries <= MaxAttempts
                               /\ \A v \in Users : invitation'[v].id = t => v = u
      BY DEF Counted
    <3>1. CASE t = k
      <4>1. tried'[k] + Cardinality(Comparing(k))' <= MaxAttempts
        BY <2>1, <2>9 DEF Counted
      <4>2. ASSUME NEW u \in Users, invitation'[u].id = k
            PROVE  /\ tried'[k] + Cardinality(Comparing(k))' <= invitation'[u].tries
                   /\ invitation'[u].tries <= MaxAttempts
                   /\ \A v \in Users : invitation'[v].id = k => v = u
        <5>1. invitation'[u] = invitation[u] /\ invitation[u].id = k
          BY <2>1, <2>4, <4>2, NotNone
        <5>2. \A v \in Users : invitation'[v].id = k => invitation[v].id = k
          BY <2>1, <2>4, NotNone
        <5>3. \A v \in Users : invitation[v].id = k => v = u
          BY <2>1, <5>1 DEF Counted
        <5>4. /\ tried[k] + Cardinality(Comparing(k)) <= invitation[u].tries
              /\ invitation[u].tries <= MaxAttempts
          BY <2>1, <5>1 DEF Counted
        <5> QED BY <2>9, <5>1, <5>2, <5>3, <5>4
      <4> QED BY <2>7, <3>1, <4>1, <4>2
    <3>2. CASE t # k
      BY <2>3, <2>4, <2>6, <3>2, NotNone DEF Counted
    <3> QED BY <3>1, <3>2
  <2>11. NoRowYet'
    <3>1. \A p \in Requests : request'[p].pc \in Accepting
              => request[p].pc \in Accepting /\ request'[p].row = request[p].row
      BY <1>1, <2>1, <2>2 DEF Only, Accepting
    <3>2. \A p \in Requests : request[p].pc # "served" => p # k /\ p \in Tokens
      BY <2>1, NotNone DEF NoRowYet, Accepting
    <3> QED BY <1>2, <2>3, <2>4, <3>1, <3>2, NotNone DEF NoRowYet
  <2> QED BY <2>10, <2>11
<1>15. CASE Accept(q)
  <2> DEFINE s == [request[q] EXCEPT !.pc = "return", !.read = Copy({On(q)})]
  <2>1. s.pc = "return" /\ s.row = request[q].row
    BY <1>0 DEF TypeOK
  <2> HIDE DEF s
  <2>2. Goes(q, "join") \/ Ends(q) \/ request' = [request EXCEPT ![q] = s]
    BY <1>15 DEF Accept, s
  <2>3. \/ request'[q].pc = "served"
        \/ request'[q].pc \in {"join", "return"} /\ request'[q].row = request[q].row
    BY <1>0, <1>5, <1>6, <1>p, <2>1, <2>2, BecomesOnly
  <2>4. request[q].pc = "accept" /\ On(q) \in Users
    BY <1>0, <1>15 DEF Accept, At, On, AllSound, Sound, Targeted
  <2> QED BY <1>3, <1>4, <1>15, <2>3, <2>4 DEF Accept, history, Accepting
<1>16. CASE Join(q) \/ Joined(q) \/ Return(q)
  <2>1. request[q].pc \in {"join", "joined", "return"} /\ On(q) \in Users
    BY <1>0, <1>16 DEF Join, Joined, Return, At, On, AllSound, Sound, Targeted
  <2>2. \/ request'[q].pc \in {"served", "signOut"}
        \/ request'[q].pc = "joined" /\ request'[q].row = request[q].row
    BY <1>5, <1>6, <1>16, <1>p DEF Join, Joined, Return
  <2>3. tried' = tried /\ (invitation' = Discarded(On(q)) \/ invitation' = invitation)
    BY <1>16 DEF Join, Joined, Return, history
  <2> QED BY <1>3, <1>4, <2>1, <2>2, <2>3 DEF Accepting
<1> QED BY <1>7, <1>8, <1>9, <1>10, <1>11, <1>12, <1>13, <1>14, <1>15, <1>16 DEF InviteStep

(* However many requests try the codes of an invitation at once, they are compared with it
   at most MaxAttempts times. *)
THEOREM AttemptsAreBounded == Spec => []AttemptsBounded
<1>1. Init => Counted /\ NoRowYet
  <2> SUFFICES ASSUME Init PROVE Counted /\ NoRowYet
    OBVIOUS
  <2>0. TypeOK
    BY InitTypes DEF Typed
  <2>1. \A t \in Tokens : Comparing(t) = {}
    BY NotServedType DEF Init, Comparing, At
  <2>2. \A t \in Tokens : IsFiniteSet(Comparing(t)) /\ Cardinality(Comparing(t)) = 0 /\ tried[t] = 0
    BY <2>1, FS_EmptySet DEF Init
  <2>3. \A u \in Users : \/ invitation[u] = NoRow
                         \/ invitation[u] = [NoRow EXCEPT !.id = u, !.code = u]
    BY DEF Init
  <2>4. \A u \in Users : invitation[u].id \in {None, u} /\ invitation[u].tries = 0
    <3>1. \A u \in Users : LET r == [NoRow EXCEPT !.id = u, !.code = u] IN r.id = u /\ r.tries = 0
      BY DEF NoRow
    <3>2. NoRow.id = None /\ NoRow.tries = 0
      BY DEF NoRow
    <3>3. ASSUME NEW u \in Users PROVE invitation[u].id \in {None, u} /\ invitation[u].tries = 0
      <4>1. CASE invitation[u] = NoRow
        BY <3>2, <4>1
      <4>2. CASE invitation[u] = [NoRow EXCEPT !.id = u, !.code = u]
        BY <3>1, <4>2
      <4> QED BY <2>3, <4>1, <4>2
    <3> QED BY <3>3
  <2>5. Counted
    BY <2>2, <2>4, NotNone, AccountsAssumption DEF Counted
  <2>6. NoRowYet
    <3>1. \A q \in Requests : q \in Tokens /\ q \notin Users /\ q # None
      BY NotNone, AccountsAssumption
    <3>2. \A q \in Requests : request[q].pc = "waiting"
      BY NotServedType DEF Init
    <3> QED BY <2>2, <2>4, <3>1, <3>2 DEF NoRowYet, Accepting
  <2> QED BY <2>5, <2>6
<1>2. Typed /\ Counted /\ NoRowYet /\ [Next]_vars => Counted' /\ NoRowYet'
  <2> SUFFICES ASSUME Typed, Counted, NoRowYet, [Next]_vars PROVE Counted' /\ NoRowYet'
    OBVIOUS
  <2>0. TypeOK
    BY DEF Typed
  <2>1. CASE UNCHANGED vars
    BY <2>1, CountedFrame DEF vars, rows, history
  <2>2. ASSUME NEW u \in Users, Expire(u) PROVE Counted' /\ NoRowYet'
    <3>1. \A v \in Users : invitation'[v].id = invitation[v].id /\ invitation'[v].tries = invitation[v].tries
      BY <2>0, <2>2 DEF Expire, TypeOK, InvitationRows
    <3> QED BY <2>2, <3>1, CountedFrame DEF Expire, history
  <2> QED BY <2>1, <2>2, ManageCounted, InviteCounted, SessionCounted DEF Next
<1>3. TypeOK /\ Counted => AttemptsBounded
  <2> SUFFICES ASSUME TypeOK, Counted, NEW t \in Tokens PROVE tried[t] <= MaxAttempts
    BY DEF AttemptsBounded
  <2>1. tried[t] \in Nat /\ MaxAttempts \in Nat /\ Cardinality(Comparing(t)) \in Nat
    BY AccountsAssumption, FS_CardinalityType DEF TypeOK, Counted
  <2> QED BY <2>1 DEF Counted
<1>4. Typed => TypeOK
  BY DEF Typed
<1> QED BY <1>1, <1>2, <1>3, <1>4, InitTypes, StepTypes, PTL DEF Spec

--------------------------------------------------------------------------------
(* What a request has read lets it write: the owner is not among those it changes, unless
   it moves the ownership. *)
Here(row) == row.org = "here"
Gone(row) == row.org = None \/ row.deleted
Serving(row) == Here(row) /\ ~row.deleted /\ row.active

Justified(r) ==
    /\ r.pc \in {"manage", "write"} => r.on \in DOMAIN r.read /\ Here(r.read[r.on])
    /\ r.pc = "write" => r.read[r.on].role # "OWNER"
    /\ r.pc = "successor" => DOMAIN r.read = {r.who}
    /\ r.pc \in {"successor", "transfer"} =>
           r.who \in DOMAIN r.read /\ Serving(r.read[r.who]) /\ r.read[r.who].role = "OWNER"
    /\ r.pc = "transfer" => r.on \in DOMAIN r.read /\ Serving(r.read[r.on])
    /\ r.pc = "leave" => r.who \in DOMAIN r.read /\ Here(r.read[r.who]) /\ r.read[r.who].role # "OWNER"
    /\ r.pc = "enforce" => \A u \in r.drop :
           u \in DOMAIN r.read /\ Here(r.read[u]) /\ r.read[u].role # "OWNER"
    /\ r.pc = "return" => r.on \in DOMAIN r.read /\ Gone(r.read[r.on])
    /\ r.pc = "found" => r.who \in DOMAIN r.read /\ Gone(r.read[r.who])

AllJustified == \A q \in Requests : Justified(request[q])

LEMMA JustifiedFrame ==
    ASSUME AllJustified, NEW q \in Requests, Only(q), Justified(request'[q])
    PROVE  AllJustified'
BY DEF AllJustified, Only

LEMMA JustifiedOther ==
    ASSUME NEW r, r.pc \notin {"manage", "write", "successor", "transfer", "leave", "enforce",
                               "return", "found"}
    PROVE  Justified(r)
BY DEF Justified

LEMMA CopyOf == ASSUME NEW us, NEW u \in us PROVE u \in DOMAIN Copy(us) /\ Copy(us)[u] = user[u]
BY DEF Copy

LEMMA MayDoSpares ==
    ASSUME NEW op \in Manage, NEW actor \in Roles, NEW target, MayDo(op, actor, target)
    PROVE  target # "OWNER"
BY DEF MayDo, Level, Roles, RoleOps, Manage

LEMMA ManageJustified ==
    ASSUME Typed, AllJustified, NEW q \in Requests, ManageStep(q)
    PROVE  AllJustified'
<1>0. TypeOK /\ AllSound
  BY DEF Typed
<1>1. Only(q)
  BY ManageOnly
<1> SUFFICES Justified(request'[q])
  BY <1>1, JustifiedFrame
<1>2. Ends(q) => Justified(request'[q])
  BY <1>0, EndsOnly, JustifiedOther
<1>3. CASE ReadTarget(q)
  <2>1. PICK op \in Manage, u, v \in Users :
           Member(v) /\ Takes(q, [Begins("manage", u, v) EXCEPT !.op = op, !.read = Copy({v})])
    BY <1>3 DEF ReadTarget
  <2> DEFINE s == [Begins("manage", u, v) EXCEPT !.op = op, !.read = Copy({v})]
  <2>2. s.pc = "manage" /\ s.on = v /\ s.read = Copy({v})
    BY DEF Begins, NotServed
  <2> HIDE DEF s
  <2>3. Takes(q, s)
    BY <2>1 DEF s
  <2>4. request'[q] = s
    BY <1>0, <2>3, TakesOnly
  <2>5. v \in DOMAIN Copy({v}) /\ Copy({v})[v] = user[v]
    BY CopyOf
  <2> QED BY <2>1, <2>2, <2>4, <2>5 DEF Justified, Here, Member
<1>4. CASE ReadActor(q)
  <2>1. request[q].pc = "manage" /\ On(q) \in DOMAIN request[q].read /\ Here(request[q].read[On(q)])
    BY <1>4 DEF ReadActor, At, AllJustified, Justified, On
  <2>2. CASE Allowed(q)
    <3> DEFINE s == [request[q] EXCEPT !.pc = "write", !.read = WithNow(request[q].read, {Who(q)})]
    <3>1. request' = [request EXCEPT ![q] = s]
      BY <1>4, <2>2 DEF ReadActor
    <3>2. s.pc = "write" /\ s.on = On(q) /\ s.read = WithNow(request[q].read, {Who(q)})
      BY <1>0 DEF TypeOK, On
    <3> HIDE DEF s
    <3>3. request'[q] = s
      BY <1>0, <3>1, BecomesOnly
    <3>4. On(q) \in DOMAIN s.read /\ s.read[On(q)] = request[q].read[On(q)]
      BY <2>1, <3>2 DEF WithNow
    <3>5. request[q].read[On(q)].role # "OWNER"
      <4>1. request[q].op \in Manage /\ Who(q) \in Users
        BY <1>0, <2>1 DEF AllSound, Sound, Signed, Who
      <4>2. user[Who(q)].role \in Roles
        BY <1>0, <4>1 DEF TypeOK, AccountRows
      <4> QED BY <2>2, <4>1, <4>2, MayDoSpares DEF Allowed
    <3> QED BY <2>1, <3>2, <3>3, <3>4, <3>5 DEF Justified
  <2> QED BY <1>2, <1>4, <2>2 DEF ReadActor
<1>5. CASE ReadOwner(q)
  <2>1. PICK u, v \in Users : /\ u \in Active /\ user[u].role = "OWNER"
                              /\ Takes(q, [Begins("successor", u, v) EXCEPT !.read = Copy({u})])
    BY <1>5 DEF ReadOwner
  <2> DEFINE s == [Begins("successor", u, v) EXCEPT !.read = Copy({u})]
  <2>2. s.pc = "successor" /\ s.who = u /\ s.read = Copy({u})
    BY DEF Begins, NotServed
  <2> HIDE DEF s
  <2>3. Takes(q, s)
    BY <2>1 DEF s
  <2>4. request'[q] = s
    BY <1>0, <2>3, TakesOnly
  <2>5. DOMAIN Copy({u}) = {u} /\ Copy({u})[u] = user[u]
    BY DEF Copy
  <2> QED BY <2>1, <2>2, <2>4, <2>5 DEF Justified, Serving, Here, Active, Members, Member
<1>6. CASE ReadSuccessor(q)
  <2>1. request[q].pc = "successor" /\ Who(q) \in DOMAIN request[q].read
        /\ Serving(request[q].read[Who(q)]) /\ request[q].read[Who(q)].role = "OWNER"
    BY <1>6 DEF ReadSuccessor, At, AllJustified, Justified, Who
  <2>2. CASE On(q) \in Active
    <3> DEFINE s == [request[q] EXCEPT !.pc = "transfer", !.read = WithNow(request[q].read, {On(q)})]
    <3>1. request' = [request EXCEPT ![q] = s]
      BY <1>6, <2>2 DEF ReadSuccessor
    <3>2. s.pc = "transfer" /\ s.who = Who(q) /\ s.on = On(q) /\ s.read = WithNow(request[q].read, {On(q)})
      BY <1>0 DEF TypeOK, On, Who
    <3> HIDE DEF s
    <3>3. request'[q] = s
      BY <1>0, <3>1, BecomesOnly
    <3>4. Who(q) \in DOMAIN s.read /\ s.read[Who(q)] = request[q].read[Who(q)]
      BY <2>1, <3>2 DEF WithNow
    <3>5. On(q) \in DOMAIN s.read
      BY <3>2 DEF WithNow
    <3>6. Serving(s.read[On(q)])
      <4>1. CASE On(q) \in DOMAIN request[q].read
        <5>1. DOMAIN request[q].read = {Who(q)}
          BY <2>1 DEF AllJustified, Justified, Who
        <5> QED BY <2>1, <3>4, <4>1, <5>1
      <4>2. CASE On(q) \notin DOMAIN request[q].read
        <5>1. s.read[On(q)] = user[On(q)]
          BY <3>2, <4>2 DEF WithNow
        <5> QED BY <2>2, <5>1 DEF Serving, Here, Active, Members, Member
      <4> QED BY <4>1, <4>2
    <3> QED BY <2>1, <3>2, <3>3, <3>4, <3>5, <3>6 DEF Justified
  <2> QED BY <1>2, <1>6, <2>2 DEF ReadSuccessor
<1>7. CASE Write(q) \/ Transfer(q) \/ SignOut(q) \/ Deactivate(q)
  BY <1>2, <1>7 DEF Write, Transfer, SignOut, Deactivate
<1>8. CASE AskToLeave(q)
  <2>1. PICK u \in Active : /\ user[u].role # "OWNER"
                            /\ Takes(q, [Begins("leave", u, u) EXCEPT !.read = Copy({u})])
    BY <1>8 DEF AskToLeave
  <2> DEFINE s == [Begins("leave", u, u) EXCEPT !.read = Copy({u})]
  <2>2. s.pc = "leave" /\ s.who = u /\ s.read = Copy({u})
    BY DEF Begins, NotServed
  <2> HIDE DEF s
  <2>3. Takes(q, s)
    BY <2>1 DEF s
  <2>4. request'[q] = s
    BY <1>0, <2>3, TakesOnly
  <2>5. u \in DOMAIN Copy({u}) /\ Copy({u})[u] = user[u]
    BY CopyOf
  <2> QED BY <2>1, <2>2, <2>4, <2>5 DEF Justified, Here, Active, Members, Member
<1>9. CASE Leave(q)
  <2>1. request'[q].pc = "signOut"
    BY <1>0, <1>9, GoesOnly DEF Leave
  <2> QED BY <2>1, JustifiedOther
<1>10. CASE EnforceLimits(q)
  <2>1. PICK n \in Limits, drop \in SUBSET Active :
           /\ Excess(drop, n)
           /\ Takes(q, [Begins("enforce", None, None) EXCEPT !.drop = drop, !.read = Copy(Active)])
    BY <1>10 DEF EnforceLimits
  <2> DEFINE s == [Begins("enforce", None, None) EXCEPT !.drop = drop, !.read = Copy(Active)]
  <2>2. s.pc = "enforce" /\ s.drop = drop /\ s.read = Copy(Active)
    BY DEF Begins, NotServed
  <2> HIDE DEF s
  <2>3. Takes(q, s)
    BY <2>1 DEF s
  <2>4. request'[q] = s
    BY <1>0, <2>3, TakesOnly
  <2>5. \A u \in drop : /\ u \in DOMAIN Copy(Active) /\ Copy(Active)[u] = user[u]
                        /\ user[u].org = "here" /\ user[u].role # "OWNER"
    BY <2>1 DEF Excess, Copy, Active, Members, Member
  <2> QED BY <2>2, <2>4, <2>5 DEF Justified, Here
<1> QED BY <1>3, <1>4, <1>5, <1>6, <1>7, <1>8, <1>9, <1>10 DEF ManageStep

LEMMA InviteJustified ==
    ASSUME Typed, AllJustified, NEW q \in Requests, InviteStep(q)
    PROVE  AllJustified'
<1>0. TypeOK /\ AllSound
  BY DEF Typed
<1>1. Only(q) /\ request'[q].pc \in InvitePcs
  BY InviteOnly
<1> SUFFICES Justified(request'[q])
  BY <1>1, JustifiedFrame
<1>2. CASE Accept(q)
  <2> DEFINE s == [request[q] EXCEPT !.pc = "return", !.read = Copy({On(q)})]
  <2>1. s.pc = "return" /\ s.on = On(q) /\ s.read = Copy({On(q)})
    BY <1>0 DEF TypeOK, On
  <2> HIDE DEF s
  <2>2. \/ Goes(q, "join") \/ Ends(q)
        \/ ~Lives(On(q)) /\ request' = [request EXCEPT ![q] = s]
    BY <1>2 DEF Accept, s
  <2>3. CASE Goes(q, "join") \/ Ends(q)
    <3>1. request'[q].pc = "join" \/ request'[q].pc = "served"
      BY <1>0, <2>3, GoesOnly, EndsOnly
    <3> QED BY <3>1, JustifiedOther
  <2>4. CASE ~Lives(On(q)) /\ request' = [request EXCEPT ![q] = s]
    <3>1. request'[q] = s
      BY <1>0, <2>4, BecomesOnly
    <3>2. On(q) \in DOMAIN Copy({On(q)}) /\ Copy({On(q)})[On(q)] = user[On(q)]
      BY CopyOf
    <3> QED BY <2>1, <2>4, <3>1, <3>2 DEF Justified, Gone, Lives
  <2> QED BY <2>2, <2>3, <2>4
<1>3. CASE ~Accept(q)
  <2>1. request'[q].pc # "return"
    <3>1. \A pc \in {"create", "compare", "accept", "joined", "signOut"} : Goes(q, pc) => request'[q].pc = pc
      BY <1>0, GoesOnly
    <3>2. Ends(q) => request'[q].pc = "served"
      BY <1>0, EndsOnly
    <3>3. CASE Count(q)
      <4>1. PICK u, v \in Users : Takes(q, Begins("look", None, v))
        BY <3>3 DEF Count
      <4> DEFINE s == Begins("look", None, v)
      <4>2. s.pc = "look"
        BY DEF Begins, NotServed
      <4> HIDE DEF s
      <4>3. Takes(q, s)
        BY <4>1 DEF s
      <4> QED BY <1>0, <4>2, <4>3, TakesOnly
    <3>4. CASE FindRow(q)
      <4>1. PICK u \in Users, right \in BOOLEAN :
               Takes(q, [Begins("reserve", u, u) EXCEPT !.row = invitation[u], !.right = right])
        BY <3>4 DEF FindRow
      <4> DEFINE s == [Begins("reserve", u, u) EXCEPT !.row = invitation[u], !.right = right]
      <4>2. s.pc = "reserve"
        BY DEF Begins, NotServed
      <4> HIDE DEF s
      <4>3. Takes(q, s)
        BY <4>1 DEF s
      <4> QED BY <1>0, <4>2, <4>3, TakesOnly
    <3> QED BY <1>3, <3>1, <3>2, <3>3, <3>4
            DEF InviteStep, Look, Create, Resend, CancelInvitation, Reserve, Compare, Join, Joined, Return
  <2> QED BY <1>1, <2>1, JustifiedOther DEF InvitePcs, Inviting, Accepting
<1> QED BY <1>2, <1>3

LEMMA SessionJustified ==
    ASSUME Typed, AllJustified, NEW q \in Requests, SessionStep(q)
    PROVE  AllJustified'
<1>0. TypeOK
  BY DEF Typed
<1>1. Only(q) /\ request'[q].pc \in SessionPcs
  BY SessionOnly
<1> SUFFICES Justified(request'[q])
  BY <1>1, JustifiedFrame
<1>2. CASE request'[q].pc # "found"
  BY <1>1, <1>2, JustifiedOther DEF SessionPcs
<1>3. CASE Google(q)
  <2>1. PICK u \in Users : Takes(q, IF Lives(u) THEN Begins("token", u, None)
                                    ELSE [Begins("found", u, None) EXCEPT !.read = Copy({u})])
    BY <1>3, AccountsAssumption DEF Google
  <2> DEFINE a == Begins("token", u, None)
  <2> DEFINE b == [Begins("found", u, None) EXCEPT !.read = Copy({u})]
  <2>2. a.pc = "token" /\ b.pc = "found" /\ b.who = u /\ b.read = Copy({u})
    BY DEF Begins, NotServed
  <2> HIDE DEF a, b
  <2>3. Takes(q, a) \/ (~Lives(u) /\ Takes(q, b))
    BY <2>1 DEF a, b
  <2>4. request'[q] = a \/ (~Lives(u) /\ request'[q] = b)
    BY <1>0, <2>3, TakesOnly
  <2>5. u \in DOMAIN Copy({u}) /\ Copy({u})[u] = user[u]
    BY CopyOf
  <2>6. CASE request'[q] = a
    BY <2>2, <2>6, JustifiedOther
  <2>7. CASE ~Lives(u) /\ request'[q] = b
    BY <2>2, <2>5, <2>7 DEF Justified, Gone, Lives
  <2> QED BY <2>4, <2>6, <2>7
<1>4. CASE ~Google(q)
  <2>1. request'[q].pc # "found"
    <3>1. CASE Login(q)
      <4>1. PICK u \in Signing : Takes(q, Begins("token", u, None))
        BY <3>1 DEF Login
      <4> DEFINE s == Begins("token", u, None)
      <4>2. s.pc = "token"
        BY DEF Begins, NotServed
      <4> HIDE DEF s
      <4>3. Takes(q, s)
        BY <4>1 DEF s
      <4> QED BY <1>0, <4>2, <4>3, TakesOnly
    <3>2. CASE Found(q)
      <4> DEFINE s == Begins("token", Who(q), None)
      <4>1. s.pc = "token"
        BY DEF Begins, NotServed
      <4> HIDE DEF s
      <4>2. Ends(q) \/ request' = [request EXCEPT ![q] = s]
        BY <3>2 DEF Found, s
      <4> QED BY <1>0, <4>1, <4>2, EndsOnly, BecomesOnly
    <3>3. CASE FindToken(q)
      <4>1. PICK t \in Tokens : Takes(q, [Begins("rotate", session[t].of, None) EXCEPT !.token = t])
        BY <3>3 DEF FindToken
      <4> DEFINE s == [Begins("rotate", session[t].of, None) EXCEPT !.token = t]
      <4>2. s.pc = "rotate"
        BY DEF Begins, NotServed
      <4> HIDE DEF s
      <4>3. Takes(q, s)
        BY <4>1 DEF s
      <4> QED BY <1>0, <4>2, <4>3, TakesOnly
    <3>4. CASE Rotate(q) \/ GenerateTokens(q)
      <4>1. Goes(q, "token") => request'[q].pc = "token"
        BY <1>0, GoesOnly
      <4>2. Ends(q) => request'[q].pc = "served"
        BY <1>0, EndsOnly
      <4> QED BY <3>4, <4>1, <4>2 DEF Rotate, GenerateTokens
    <3> QED BY <1>4, <3>1, <3>2, <3>3, <3>4 DEF SessionStep
  <2> QED BY <1>2, <2>1
<1> QED BY <1>3, <1>4

(* Who owns the organisation as the request wrote stays its only owner. *)
Owns(u) == Member(u) /\ user[u].role = "OWNER"
OwnerInv ==
    ~stale => /\ \E u \in Users : /\ Owns(u) /\ user[u].active
                                  /\ \A v \in Users : Owns(v) => v = u
              /\ \A u \in Users : user[u].org = "away" => user[u].role = "OWNER"

LEMMA OwnerFrame ==
    ASSUME OwnerInv, ~stale' => ~stale,
           ~stale' => \A u \in Users :
               \/ user'[u] = user[u]
               \/ /\ ~Owns(u)
                  /\ user'[u].org = "away" \/ user'[u].role # "OWNER"
                  /\ user'[u].org = "away" => user'[u].role = "OWNER"
    PROVE  OwnerInv'
<1> SUFFICES ASSUME ~stale'
             PROVE  /\ \E u \in Users : /\ Owns(u)' /\ user'[u].active
                                        /\ \A v \in Users : Owns(v)' => v = u
                    /\ \A u \in Users : user'[u].org = "away" => user'[u].role = "OWNER"
  BY DEF OwnerInv
<1>1. PICK u \in Users : Owns(u) /\ user[u].active /\ \A v \in Users : Owns(v) => v = u
  BY DEF OwnerInv
<1>2. user'[u] = user[u]
  BY <1>1
<1>3. \A v \in Users : Owns(v)' => Owns(v)
  BY DEF Owns, Member
<1>4. Owns(u)' /\ user'[u].active
  BY <1>1, <1>2 DEF Owns, Member
<1>5. \A v \in Users : user'[v].org = "away" => user'[v].role = "OWNER"
  BY DEF OwnerInv
<1> QED BY <1>1, <1>3, <1>4, <1>5

(* A request that notes what it has read, and nothing stale, has read what is there. *)
LEMMA Fresh ==
    ASSUME NEW q \in Requests, Notes(q), stale \in BOOLEAN, ~stale'
    PROVE  ~stale /\ \A u \in DOMAIN request[q].read : request[q].read[u] = user[u]
BY DEF Notes, Stale

LEMMA ManageOwner ==
    ASSUME Typed, AllJustified, OwnerInv, NEW q \in Requests, ManageStep(q)
    PROVE  OwnerInv'
<1>0. TypeOK /\ AllSound /\ Justified(request[q])
  BY DEF Typed, AllJustified
<1>1. CASE Write(q)
  <2>1. /\ request[q].pc = "write" /\ On(q) \in Users /\ request[q].op \in Manage
        /\ On(q) \in DOMAIN request[q].read
        /\ Here(request[q].read[On(q)]) /\ request[q].read[On(q)].role # "OWNER"
    BY <1>0, <1>1 DEF Write, At, On, AllSound, Sound, Targeted, Justified
  <2>2. \A u \in Users : user'[u] = IF u = On(q) THEN Changed(user[u], request[q].op) ELSE user[u]
    BY <1>0, <1>1 DEF Write, TypeOK
  <2>3. \A r \in AccountRows : LET c == Changed(r, request[q].op)
                               IN  c.org = r.org /\ (r.role # "OWNER" => c.role # "OWNER")
    BY <2>1 DEF Manage, RoleOps, Changed, AccountRows
  <2>4. ASSUME ~stale' PROVE ~stale /\ user[On(q)].org = "here" /\ user[On(q)].role # "OWNER"
    BY <1>0, <1>1, <2>1, <2>4, Fresh DEF Write, TypeOK, Here
  <2>5. user[On(q)] \in AccountRows
    BY <1>0, <2>1 DEF TypeOK
  <2>6. ~stale' => /\ user'[On(q)].org = "here" /\ user'[On(q)].role # "OWNER" /\ ~Owns(On(q))
    BY <2>1, <2>2, <2>3, <2>4, <2>5 DEF Owns
  <2> QED BY <2>2, <2>4, <2>6, OwnerFrame
<1>2. CASE Transfer(q)
  <2>1. /\ request[q].pc = "transfer" /\ On(q) \in Users /\ Who(q) \in Users
        /\ On(q) \in DOMAIN request[q].read /\ Who(q) \in DOMAIN request[q].read
        /\ Serving(request[q].read[On(q)]) /\ Serving(request[q].read[Who(q)])
        /\ request[q].read[Who(q)].role = "OWNER"
    BY <1>0, <1>2 DEF Transfer, At, On, Who, AllSound, Sound, Targeted, Signed, Justified
  <2> SUFFICES ASSUME ~stale'
               PROVE  /\ \E u \in Users : /\ Owns(u)' /\ user'[u].active
                                          /\ \A v \in Users : Owns(v)' => v = u
                      /\ \A u \in Users : user'[u].org = "away" => user'[u].role = "OWNER"
    BY DEF OwnerInv
  <2>2. ~stale /\ Serving(user[On(q)]) /\ Serving(user[Who(q)]) /\ user[Who(q)].role = "OWNER"
    BY <1>0, <1>2, <2>1, Fresh DEF Transfer, TypeOK
  <2>3. \A u \in Users : Owns(u) => u = Who(q)
    BY <2>1, <2>2 DEF OwnerInv, Owns, Member, Serving, Here
  <2>4. \A u \in Users : /\ user'[u].org = user[u].org /\ user'[u].deleted = user[u].deleted
                         /\ user'[u].active = user[u].active
                         /\ user'[u].role = IF u = On(q) THEN "OWNER"
                                            ELSE IF u = Who(q) THEN "ADMIN" ELSE user[u].role
    <3>1. user' = [user EXCEPT ![Who(q)].role = "ADMIN", ![On(q)].role = "OWNER"]
      BY <1>2 DEF Transfer
    <3> QED BY <1>0, <2>1, <3>1 DEF TypeOK, AccountRows
  <2>o. PICK u \in Users : u = On(q)
    BY <2>1
  <2>5. Owns(u)' /\ user'[u].active
    BY <2>2, <2>4, <2>o DEF Owns, Member, Serving, Here
  <2>6. \A v \in Users : Owns(v)' => v = u
    BY <2>3, <2>4, <2>o DEF Owns, Member
  <2>7. \A v \in Users : user'[v].org = "away" => user'[v].role = "OWNER"
    BY <2>2, <2>4 DEF OwnerInv, Serving, Here
  <2> QED BY <2>5, <2>6, <2>7
<1>3. CASE Leave(q)
  <2>1. /\ request[q].pc = "leave" /\ Who(q) \in Users /\ Who(q) \in DOMAIN request[q].read
        /\ Here(request[q].read[Who(q)]) /\ request[q].read[Who(q)].role # "OWNER"
    BY <1>0, <1>3 DEF Leave, At, Who, AllSound, Sound, Signed, Justified
  <2>2. \A u \in Users \ {Who(q)} : user'[u] = user[u]
    BY <1>0, <1>3 DEF Leave, TypeOK
  <2>3. user'[Who(q)].org = user[Who(q)].org /\ user'[Who(q)].role = user[Who(q)].role
    BY <1>0, <1>3, <2>1 DEF Leave, TypeOK, AccountRows
  <2>4. ASSUME ~stale' PROVE ~stale /\ user[Who(q)].org = "here" /\ user[Who(q)].role # "OWNER"
    BY <1>0, <1>3, <2>1, <2>4, Fresh DEF Leave, TypeOK, Here
  <2> QED BY <2>2, <2>3, <2>4, OwnerFrame DEF Owns
<1>4. CASE Deactivate(q)
  <2>1. \A u \in request[q].drop : /\ u \in DOMAIN request[q].read
                                   /\ Here(request[q].read[u]) /\ request[q].read[u].role # "OWNER"
    BY <1>0, <1>4 DEF Deactivate, At, Justified
  <2>2. \A u \in Users : user'[u] = IF u \in request[q].drop THEN [user[u] EXCEPT !.active = FALSE] ELSE user[u]
    BY <1>4 DEF Deactivate
  <2>3. \A u \in Users : user'[u].org = user[u].org /\ user'[u].role = user[u].role
    <3>1. \A r \in AccountRows : LET c == [r EXCEPT !.active = FALSE] IN c.org = r.org /\ c.role = r.role
      BY DEF AccountRows
    <3> QED BY <1>0, <2>2, <3>1 DEF TypeOK
  <2>4. ASSUME ~stale'
        PROVE  ~stale /\ \A u \in request[q].drop : user[u].org = "here" /\ user[u].role # "OWNER"
    BY <1>0, <1>4, <2>1, <2>4, Fresh DEF Deactivate, TypeOK, Here
  <2> QED BY <2>2, <2>3, <2>4, OwnerFrame DEF Owns
<1>5. CASE UNCHANGED <<user, stale>>
  BY <1>5, OwnerFrame
<1> QED BY <1>1, <1>2, <1>3, <1>4, <1>5
        DEF ManageStep, ReadTarget, ReadActor, ReadOwner, ReadSuccessor, AskToLeave, SignOut,
            EnforceLimits, rows, history

LEMMA InviteOwner ==
    ASSUME Typed, AllJustified, OwnerInv, NEW q \in Requests, InviteStep(q)
    PROVE  OwnerInv'
<1>0. TypeOK /\ AllSound /\ Justified(request[q])
  BY DEF Typed, AllJustified
<1>a. Account("here", "VIEWER").org = "here" /\ Account("here", "VIEWER").role = "VIEWER"
  BY DEF Account
<1>1. CASE Join(q)
  <2>1. CASE user[On(q)] = Stranger
    <3>1. user[On(q)].org # "here" /\ stale' = stale
      BY <1>1, <2>1, Constants DEF Join, history, None
    <3>2. \A u \in Users : user'[u] = IF u = On(q) THEN Account("here", "VIEWER") ELSE user[u]
      BY <1>0, <1>1, <2>1 DEF Join, TypeOK
    <3> QED BY <1>a, <3>1, <3>2, OwnerFrame DEF Owns, Member
  <2>2. CASE user[On(q)] # Stranger
    BY <1>1, <2>2, OwnerFrame DEF Join, history
  <2> QED BY <2>1, <2>2
<1>2. CASE Return(q)
  <2>1. On(q) \in DOMAIN request[q].read /\ Gone(request[q].read[On(q)])
    BY <1>0, <1>2 DEF Return, At, On, Justified
  <2>2. ASSUME ~stale' PROVE ~stale /\ ~Member(On(q))
    BY <1>0, <1>2, <2>1, <2>2, Fresh DEF Return, TypeOK, Gone, Member, None
  <2>3. \A u \in Users : user'[u] = IF u = On(q) THEN Account("here", "VIEWER") ELSE user[u]
    BY <1>0, <1>2 DEF Return, TypeOK
  <2> QED BY <1>a, <2>2, <2>3, OwnerFrame DEF Owns
<1>3. CASE UNCHANGED <<user, stale>>
  BY <1>3, OwnerFrame
<1> QED BY <1>1, <1>2, <1>3
        DEF InviteStep, Count, Look, Create, Resend, CancelInvitation, FindRow, Reserve, Compare,
            Accept, Joined, rows, history

LEMMA SessionOwner ==
    ASSUME Typed, AllJustified, OwnerInv, NEW q \in Requests, SessionStep(q)
    PROVE  OwnerInv'
<1>0. TypeOK /\ AllSound /\ Justified(request[q])
  BY DEF Typed, AllJustified
<1>1. CASE Found(q)
  <2>1. CASE UNCHANGED <<user, stale>>
    BY <2>1, OwnerFrame
  <2>2. CASE user' = [user EXCEPT ![Who(q)] = Account("away", "OWNER")] /\ Notes(q)
    <3>1. Who(q) \in DOMAIN request[q].read /\ Gone(request[q].read[Who(q)])
      BY <1>0, <1>1 DEF Found, At, Who, Justified
    <3>2. ASSUME ~stale' PROVE ~stale /\ ~Member(Who(q))
      BY <1>0, <2>2, <3>1, <3>2, Fresh DEF TypeOK, Gone, Member, None
    <3>3. \A u \in Users : user'[u] = IF u = Who(q) THEN Account("away", "OWNER") ELSE user[u]
      BY <1>0, <2>2 DEF TypeOK
    <3>4. Account("away", "OWNER").org = "away" /\ Account("away", "OWNER").role = "OWNER"
      BY DEF Account
    <3> QED BY <3>2, <3>3, <3>4, OwnerFrame DEF Owns
  <2> QED BY <1>1, <2>1, <2>2 DEF Found
<1>2. CASE UNCHANGED <<user, stale>>
  BY <1>2, OwnerFrame
<1> QED BY <1>1, <1>2 DEF SessionStep, Login, Google, FindToken, Rotate, GenerateTokens, rows, history

(* The organisation keeps one owner, active, and who founded another owns it, as long as no
   request writes to an account that changed after it was read. *)
THEOREM OrganisationHasOneOwner == Spec => []OneOwner
<1>1. Init => AllJustified /\ OwnerInv
  <2> SUFFICES ASSUME Init PROVE AllJustified /\ OwnerInv
    OBVIOUS
  <2>1. \A q \in Requests : request[q].pc = "waiting"
    BY NotServedType DEF Init
  <2>2. AllJustified
    BY <2>1, JustifiedOther DEF AllJustified
  <2>3. Founder \in Users /\ user[Founder] = Account("here", "OWNER")
    BY AccountsAssumption DEF Init
  <2>4. \A u \in Users \ {Founder} : user[u].role # "OWNER" /\ user[u].org # "away"
    <3> DEFINE f == [Account("here", "VIEWER") EXCEPT !.active = FALSE, !.deleted = TRUE]
    <3>1. f.role = "VIEWER" /\ f.org = "here"
      BY DEF Account
    <3>2. Stranger.role = "VIEWER" /\ Stranger.org = None
      BY DEF Stranger, Account
    <3>3. Account("here", "ADMIN").role = "ADMIN" /\ Account("here", "ADMIN").org = "here"
      BY DEF Account
    <3> HIDE DEF f
    <3>4. \A u \in Users \ {Founder} : user[u] \in {Account("here", "ADMIN"), f, Stranger}
      BY DEF Init, f
    <3> QED BY <3>1, <3>2, <3>3, <3>4 DEF None
  <2>5. Owns(Founder) /\ user[Founder].active /\ user[Founder].org = "here"
    BY <2>3 DEF Owns, Member, Account
  <2>6. OwnerInv
    BY <2>3, <2>4, <2>5 DEF OwnerInv, Owns
  <2> QED BY <2>2, <2>6
<1>2. Typed /\ AllJustified /\ OwnerInv /\ [Next]_vars => AllJustified' /\ OwnerInv'
  <2> SUFFICES ASSUME Typed, AllJustified, OwnerInv, [Next]_vars PROVE AllJustified' /\ OwnerInv'
    OBVIOUS
  <2>1. CASE UNCHANGED vars
    BY <2>1 DEF vars, rows, history, AllJustified, OwnerInv, Owns, Member
  <2>2. ASSUME NEW u \in Users, Expire(u) PROVE AllJustified' /\ OwnerInv'
    BY <2>2 DEF Expire, history, AllJustified, OwnerInv, Owns, Member
  <2> QED BY <2>1, <2>2, ManageJustified, InviteJustified, SessionJustified,
             ManageOwner, InviteOwner, SessionOwner DEF Next
<1>3. OwnerInv => OneOwner
  <2> SUFFICES ASSUME OwnerInv, ~stale
               PROVE  /\ \E u \in Active : Owners("here") = {u}
                      /\ \A u \in Users : user[u].org = "away" => user[u].role = "OWNER"
    BY DEF OneOwner
  <2>1. PICK u \in Users : Owns(u) /\ user[u].active /\ \A v \in Users : Owns(v) => v = u
    BY DEF OwnerInv
  <2>2. Owners("here") = {v \in Users : Owns(v)}
    BY DEF Owners, Owns, Lives, Member, None
  <2>3. u \in Active /\ Owners("here") = {u}
    BY <2>1, <2>2 DEF Active, Members, Owns
  <2> QED BY <2>3 DEF OwnerInv
<1> QED BY <1>1, <1>2, <1>3, InitTypes, StepTypes, PTL DEF Spec

--------------------------------------------------------------------------------
(* While one invitation is pending, and it was alone when seats were counted, a seat is left
   for whom it is about. *)
Aims(u) == \/ Invites(u)
           \/ \E p \in Requests : request[p].pc \in Inviting \cup Accepting /\ request[p].on = u

Seats == ~overlapped => \A u \in Users : Aims(u) =>
    /\ \A v \in Users : Aims(v) => v = u
    /\ Cardinality(Members \ {u}) < limit

LEMMA MembersFinite ==
    ASSUME NEW S, NEW T, S \subseteq Users, T \subseteq S
    PROVE  /\ IsFiniteSet(S) /\ IsFiniteSet(T) /\ Cardinality(S) \in Nat /\ Cardinality(T) \in Nat
           /\ Cardinality(T) <= Cardinality(S)
<1>1. IsFiniteSet(S)
  BY FS_Subset, AccountsAssumption
<1> QED BY <1>1, FS_Subset, FS_CardinalityType

LEMMA SeatsFrame ==
    ASSUME Typed, Seats, overlapped => overlapped', limit' = limit,
           \A u \in Users : (Member(u)' => Member(u) \/ Aims(u)) /\ (Aims(u)' => Aims(u))
    PROVE  Seats'
<1> SUFFICES ASSUME ~overlapped', NEW u \in Users, Aims(u)'
             PROVE  /\ \A v \in Users : Aims(v)' => v = u
                    /\ Cardinality(Members' \ {u}) < limit'
  BY DEF Seats
<1>1. /\ \A v \in Users : Aims(v) => v = u
      /\ Cardinality(Members \ {u}) < limit
  BY DEF Seats
<1>2. Members' \ {u} \subseteq Members \ {u}
  BY <1>1 DEF Members
<1>3. Members \ {u} \subseteq Users
  BY DEF Members
<1>4. /\ Cardinality(Members' \ {u}) <= Cardinality(Members \ {u})
      /\ Cardinality(Members' \ {u}) \in Nat /\ Cardinality(Members \ {u}) \in Nat
  BY <1>2, <1>3, MembersFinite
<1>5. limit \in Nat
  BY DEF Typed, TypeOK
<1> QED BY <1>1, <1>4, <1>5

(* Who becomes a member was invited. *)
LEMMA MembersGrow ==
    ASSUME Typed, [Next]_vars
    PROVE  \A u \in Users : Member(u)' => Member(u) \/ Aims(u)
<1>0. TypeOK /\ AllSound
  BY DEF Typed
<1>1. CASE UNCHANGED user
  BY <1>1 DEF Member
<1>2. ASSUME NEW q \in Requests, Write(q) PROVE \A u \in Users : Member(u)' => Member(u)
  <2>1. \A u \in Users : user'[u] = IF u = On(q) THEN Changed(user[u], request[q].op) ELSE user[u]
    BY <1>0, <1>2 DEF Write, TypeOK
  <2>2. \A r \in AccountRows : LET c == Changed(r, request[q].op)
                               IN  c.org = r.org /\ (r.deleted => c.deleted)
    BY <1>0, <1>2 DEF Write, At, AllSound, Sound, Manage, RoleOps, Changed, AccountRows
  <2> QED BY <1>0, <2>1, <2>2 DEF TypeOK, Member
<1>3. ASSUME NEW q \in Requests, Transfer(q) PROVE \A u \in Users : Member(u)' => Member(u)
  <2>1. user' = [user EXCEPT ![Who(q)].role = "ADMIN", ![On(q)].role = "OWNER"]
    BY <1>3 DEF Transfer
  <2>2. \A u \in Users : user'[u].org = user[u].org /\ user'[u].deleted = user[u].deleted
    BY <1>0, <2>1 DEF TypeOK, AccountRows
  <2> QED BY <2>2 DEF Member
<1>4. ASSUME NEW q \in Requests, Leave(q) PROVE \A u \in Users : Member(u)' => Member(u)
  <2>1. \A u \in Users : user'[u].org = user[u].org /\ (user[u].deleted => user'[u].deleted)
    BY <1>0, <1>4 DEF Leave, TypeOK, AccountRows
  <2> QED BY <2>1 DEF Member
<1>5. ASSUME NEW q \in Requests, Deactivate(q) PROVE \A u \in Users : Member(u)' => Member(u)
  <2>1. \A u \in Users : user'[u].org = user[u].org /\ user'[u].deleted = user[u].deleted
    <3>1. \A r \in AccountRows : LET c == [r EXCEPT !.active = FALSE]
                                 IN  c.org = r.org /\ c.deleted = r.deleted
      BY DEF AccountRows
    <3> QED BY <1>0, <1>5, <3>1 DEF Deactivate, TypeOK
  <2> QED BY <2>1 DEF Member
<1>6. ASSUME NEW q \in Requests, Join(q) \/ Return(q) PROVE \A u \in Users : Member(u)' => Member(u) \/ Aims(u)
  <2>1. \A u \in Users : u # On(q) => user'[u] = user[u]
    BY <1>0, <1>6 DEF Join, Return, TypeOK
  <2>2. Aims(On(q))
    BY <1>6 DEF Join, Return, At, Aims, Accepting, On
  <2> QED BY <2>1, <2>2 DEF Member
<1>7. ASSUME NEW q \in Requests, Found(q) PROVE \A u \in Users : Member(u)' => Member(u)
  <2>1. Account("away", "OWNER").org # "here"
    BY DEF Account
  <2>2. \A u \in Users : user'[u] = user[u] \/ user'[u] = Account("away", "OWNER")
    BY <1>0, <1>7 DEF Found, TypeOK
  <2> QED BY <2>1, <2>2 DEF Member
<1>8. ASSUME NEW q \in Requests, ManageStep(q) PROVE UNCHANGED user \/ Write(q) \/ Transfer(q) \/ Leave(q) \/ Deactivate(q)
  BY <1>8 DEF ManageStep, rows, ReadTarget, ReadActor, ReadOwner, ReadSuccessor, AskToLeave, SignOut,
              EnforceLimits
<1>9. ASSUME NEW q \in Requests, InviteStep(q) PROVE UNCHANGED user \/ Join(q) \/ Return(q)
  BY <1>9 DEF InviteStep, rows, Count, Look, Create, Resend, CancelInvitation, FindRow, Reserve, Compare,
              Accept, Joined
<1>10. ASSUME NEW q \in Requests, SessionStep(q) PROVE UNCHANGED user \/ Found(q)
  BY <1>10 DEF SessionStep, rows, Login, Google, FindToken, Rotate, GenerateTokens
<1>11. ASSUME NEW u \in Users, Expire(u) PROVE UNCHANGED user
  BY <1>11 DEF Expire
<1>12. CASE UNCHANGED vars
  BY <1>1, <1>12 DEF vars, rows
<1> QED BY <1>1, <1>2, <1>3, <1>4, <1>5, <1>6, <1>7, <1>8, <1>9, <1>10, <1>11, <1>12 DEF Next

LEMMA ManageSeats ==
    ASSUME Typed, Seats, NEW q \in Requests, ManageStep(q)
    PROVE  Seats'
<1>1. \A p \in Requests : request'[p].pc \in Inviting \cup Accepting => request'[p] = request[p]
  BY ManageOnly DEF Only, ManagePcs, Inviting, Accepting
<1>2. invitation' = invitation
  BY DEF ManageStep, ReadTarget, ReadActor, Write, ReadOwner, ReadSuccessor, Transfer, SignOut,
         AskToLeave, Leave, EnforceLimits, Deactivate, rows
<1>3. \A u \in Users : Aims(u)' => Aims(u)
  BY <1>1, <1>2 DEF Aims, Invites
<1>4. CASE EnforceLimits(q)
  <2>1. ~overlapped' => ~Pending
    BY <1>4 DEF EnforceLimits
  <2>2. ~Pending => \A u \in Users : ~Aims(u)
    BY DEF Pending, Aims
  <2> QED BY <1>3, <2>1, <2>2 DEF Seats
<1>5. CASE ~EnforceLimits(q)
  <2>1. overlapped' = overlapped /\ limit' = limit
    BY <1>5 DEF ManageStep, ReadTarget, ReadActor, Write, ReadOwner, ReadSuccessor, Transfer,
                SignOut, AskToLeave, Leave, Deactivate, history
  <2>2. [Next]_vars
    BY DEF Next
  <2> QED BY <1>3, <2>1, <2>2, MembersGrow, SeatsFrame
<1> QED BY <1>4, <1>5

LEMMA SessionSeats ==
    ASSUME Typed, Seats, NEW q \in Requests, SessionStep(q)
    PROVE  Seats'
<1>0. TypeOK
  BY DEF Typed
<1>1. \A p \in Requests : request'[p].pc \in Inviting \cup Accepting => request'[p] = request[p]
  BY SessionOnly DEF Only, SessionPcs, Inviting, Accepting
<1>2. \A u \in Users : invitation'[u] = NoRow \/ invitation'[u] = invitation[u]
  <2>1. invitation' = Discarded(Who(q)) \/ invitation' = invitation
    BY DEF SessionStep, Login, Google, Found, FindToken, Rotate, GenerateTokens, rows
  <2> QED BY <1>0, <2>1 DEF Discarded, TypeOK
<1>3. \A u \in Users : Aims(u)' => Aims(u)
  BY <1>1, <1>2 DEF Aims, Invites
<1>4. overlapped' = overlapped /\ limit' = limit
  BY DEF SessionStep, Login, Google, Found, FindToken, Rotate, GenerateTokens, history
<1>5. [Next]_vars
  BY DEF Next
<1> QED BY <1>3, <1>4, <1>5, MembersGrow, SeatsFrame

LEMMA InviteSeats ==
    ASSUME Typed, Seats, NEW q \in Requests, InviteStep(q)
    PROVE  Seats'
<1>0. TypeOK /\ AllSound
  BY DEF Typed
<1>1. Only(q)
  BY InviteOnly
<1>2. [Next]_vars
  BY DEF Next
<1> DEFINE Both == Inviting \cup Accepting
<1>3. CASE Count(q)
  <2>1. PICK w, v \in Users : Takes(q, Begins("look", None, v))
    BY <1>3 DEF Count
  <2> DEFINE s == Begins("look", None, v)
  <2>2. s.on = v
    BY DEF Begins, NotServed
  <2> HIDE DEF s
  <2>3. Takes(q, s)
    BY <2>1 DEF s
  <2>4. request'[q].on = v
    BY <1>0, <2>2, <2>3, TakesOnly
  <2>5. UNCHANGED <<user, invitation, limit>> /\ HasSeat /\ (~overlapped' => ~Pending)
    BY <1>3 DEF Count, rows
  <2> SUFFICES ASSUME ~overlapped', NEW u \in Users, Aims(u)'
               PROVE  /\ \A k \in Users : Aims(k)' => k = u
                      /\ Cardinality(Members' \ {u}) < limit'
    BY DEF Seats
  <2>6. \A k \in Users : Aims(k)' => k = v
    BY <1>1, <2>4, <2>5 DEF Aims, Invites, Pending, Only
  <2>7. Members' = Members
    BY <2>5 DEF Members, Member
  <2>8. Members \subseteq Users /\ Members \ {u} \subseteq Members
    BY DEF Members
  <2>9. Cardinality(Members \ {u}) <= Cardinality(Members)
        /\ Cardinality(Members) \in Nat /\ Cardinality(Members \ {u}) \in Nat
    BY <2>8, MembersFinite
  <2>10. limit \in Nat
    BY <1>0 DEF TypeOK
  <2> QED BY <2>5, <2>6, <2>7, <2>9, <2>10 DEF HasSeat
<1>4. CASE ~Count(q)
  <2>1. overlapped' = overlapped /\ limit' = limit
    BY <1>4 DEF InviteStep, Look, Create, Resend, CancelInvitation, FindRow, Reserve, Compare,
                Accept, Join, Joined, Return, history
  <2>2. ASSUME \A u \in Users : Invites(u)' => Invites(u) \/ Aims(u),
               request'[q].pc \in Both =>
                   \/ request[q].pc \in Both /\ request'[q].on = request[q].on
                   \/ Invites(request'[q].on)
        PROVE  Seats'
    <3>1. \A u \in Users : Aims(u)' => Aims(u)
      BY <1>1, <2>2 DEF Aims, Only
    <3> QED BY <1>2, <2>1, <3>1, MembersGrow, SeatsFrame
  <2>3. Ends(q) => request'[q].pc \notin Both
    BY <1>0, EndsOnly DEF Inviting, Accepting
  <2>4. \A pc \in Pcs : Goes(q, pc) => request'[q].pc = pc /\ request'[q].on = request[q].on
    <3> SUFFICES ASSUME NEW pc \in Pcs, Goes(q, pc)
                 PROVE  request'[q].pc = pc /\ request'[q].on = request[q].on
      OBVIOUS
    <3>1. request'[q] = [request[q] EXCEPT !.pc = pc]
      BY <1>0, GoesOnly
    <3> QED BY <1>0, <3>1 DEF TypeOK
  <2>5. {"create", "compare", "accept", "join", "joined", "signOut"} \subseteq Pcs
    BY DEF Pcs
  <2>6. CASE Resend(q)
    <3>1. PICK v \in Users : Invites(v) /\ invitation' = [invitation EXCEPT ![v].code = q, ![v].expired = FALSE]
      BY <2>6 DEF Resend
    <3>2. \A u \in Users : Invites(u)' => Invites(u)
      BY <1>0, <3>1 DEF TypeOK, Invites
    <3> QED BY <2>2, <2>3, <2>6, <3>2 DEF Resend
  <2>7. CASE CancelInvitation(q)
    <3>1. \A u \in Users : Invites(u)' => Invites(u)
      BY <1>0, <2>7 DEF CancelInvitation, TypeOK, Invites
    <3> QED BY <2>2, <2>3, <2>7, <3>1 DEF CancelInvitation
  <2>8. CASE FindRow(q)
    <3>1. PICK u \in Users, right \in BOOLEAN :
             /\ Invites(u)
             /\ Takes(q, [Begins("reserve", u, u) EXCEPT !.row = invitation[u], !.right = right])
      BY <2>8 DEF FindRow
    <3> DEFINE s == [Begins("reserve", u, u) EXCEPT !.row = invitation[u], !.right = right]
    <3>2. s.on = u
      BY DEF Begins, NotServed
    <3> HIDE DEF s
    <3>3. Takes(q, s)
      BY <3>1 DEF s
    <3>4. request'[q].on = u
      BY <1>0, <3>2, <3>3, TakesOnly
    <3>5. \A v \in Users : Invites(v)' => Invites(v)
      BY <2>8 DEF FindRow, rows, Invites
    <3> QED BY <2>2, <3>1, <3>4, <3>5
  <2>9. CASE Look(q) \/ Create(q) \/ Reserve(q) \/ Compare(q) \/ Accept(q) \/ Join(q) \/ Joined(q) \/ Return(q)
    <3>1. request[q].pc \in Both
      BY <2>9 DEF Look, Create, Reserve, Compare, Accept, Join, Joined, Return, At, Inviting, Accepting
    <3>2. Aims(On(q))
      BY <3>1 DEF Aims, On
    <3>3. \A u \in Users : u # On(q) => invitation'[u] = invitation[u]
      BY <1>0, <2>9 DEF Look, Create, Reserve, Compare, Accept, Join, Joined, Return, Discarded, rows, TypeOK
    <3>4. \A u \in Users : Invites(u)' => Invites(u) \/ Aims(u)
      BY <3>2, <3>3 DEF Invites
    <3>5. request'[q].pc \in Both => request'[q].on = request[q].on
      <4> DEFINE s == [request[q] EXCEPT !.pc = "return", !.read = Copy({On(q)})]
      <4>1. s.on = request[q].on
        BY <1>0 DEF TypeOK
      <4> HIDE DEF s
      <4>2. \/ Ends(q) \/ \E pc \in Pcs : Goes(q, pc)
            \/ request' = [request EXCEPT ![q] = s]
        BY <2>5, <2>9 DEF Look, Create, Reserve, Compare, Accept, Join, Joined, Return, s
      <4>3. request' = [request EXCEPT ![q] = s] => request'[q].on = request[q].on
        BY <1>0, <4>1, BecomesOnly
      <4> QED BY <2>3, <2>4, <4>2, <4>3
    <3> QED BY <2>2, <3>1, <3>4, <3>5
  <2> QED BY <1>4, <2>6, <2>7, <2>8, <2>9 DEF InviteStep
<1> QED BY <1>3, <1>4

(* A new member has a seat of the plan, however many there are, unless seats were counted or
   cut while another invitation was pending. *)
THEOREM MembersFitThePlan == Spec => SeatsBounded
<1>1. Init => Seats
  <2> SUFFICES ASSUME Init PROVE Seats
    OBVIOUS
  <2>1. \A p \in Requests : request[p].pc \notin Inviting \cup Accepting
    BY NotServedType DEF Init, Inviting, Accepting
  <2>2. \A u \in Users : Member(u) => u \in First
    <3> DEFINE f == [Account("here", "VIEWER") EXCEPT !.active = FALSE, !.deleted = TRUE]
    <3>1. f.deleted = TRUE
      BY DEF Account
    <3>2. Stranger.org = None
      BY DEF Stranger, Account
    <3> HIDE DEF f
    <3>3. \A u \in Users : u \notin First => user[u] = f \/ user[u] = Stranger
      BY DEF Init, First, f
    <3> QED BY <3>1, <3>2, <3>3 DEF Member, None
  <2>3. \/ \A u \in Users : ~Aims(u)
        \/ \E u \in Users \ First : Cardinality(First) < limit /\ \A v \in Users : Aims(v) => v = u
    BY <2>1 DEF Init, Aims, Invites
  <2>4. First \subseteq Users
    BY AccountsAssumption DEF First
  <2>5. \A u \in Users : Members \ {u} \subseteq First
    BY <2>2 DEF Members
  <2>6. \A u \in Users : /\ Cardinality(Members \ {u}) <= Cardinality(First)
                         /\ Cardinality(Members \ {u}) \in Nat /\ Cardinality(First) \in Nat
    BY <2>4, <2>5, MembersFinite
  <2>7. limit \in Nat
    BY InitTypes DEF Typed, TypeOK
  <2> QED BY <2>3, <2>6, <2>7 DEF Seats
<1>2. Typed /\ Seats /\ [Next]_vars => Seats'
  <2> SUFFICES ASSUME Typed, Seats, [Next]_vars PROVE Seats'
    OBVIOUS
  <2>0. TypeOK
    BY DEF Typed
  <2>1. CASE UNCHANGED vars
    BY <2>1 DEF vars, rows, history, Seats, Aims, Invites, Members, Member
  <2>2. ASSUME NEW u \in Users, Expire(u) PROVE Seats'
    <3>1. \A v \in Users : Invites(v)' => Invites(v)
      BY <2>0, <2>2 DEF Expire, TypeOK, Invites
    <3>2. \A v \in Users : Aims(v)' => Aims(v)
      BY <2>2, <3>1 DEF Expire, Aims
    <3>3. overlapped' = overlapped /\ limit' = limit
      BY <2>2 DEF Expire, history
    <3> QED BY <3>2, <3>3, MembersGrow, SeatsFrame
  <2> QED BY <2>1, <2>2, ManageSeats, InviteSeats, SessionSeats DEF Next
<1>3. Typed /\ Seats /\ [Next]_vars
        => (Cardinality(Members') > Cardinality(Members) => overlapped \/ Cardinality(Members') <= limit)
  <2> SUFFICES ASSUME Typed, Seats, [Next]_vars, Cardinality(Members') > Cardinality(Members), ~overlapped
               PROVE  Cardinality(Members') <= limit
    OBVIOUS
  <2>1. Members \subseteq Users /\ Members' \subseteq Users
    BY DEF Members
  <2>2. Cardinality(Members) \in Nat /\ Cardinality(Members') \in Nat
    BY <2>1, MembersFinite
  <2>3. PICK u \in Members' : u \notin Members
    <3>1. CASE Members' \subseteq Members
      <4>1. Cardinality(Members') <= Cardinality(Members)
        BY <2>1, <3>1, MembersFinite
      <4> QED BY <2>2, <4>1
    <3> QED BY <3>1
  <2>4. u \in Users /\ Aims(u)
    BY <2>1, <2>3, MembersGrow DEF Members
  <2>5. Cardinality(Members \ {u}) < limit /\ \A v \in Users : Aims(v) => v = u
    BY <2>4 DEF Seats
  <2>6. Members' \subseteq (Members \ {u}) \cup {u}
    BY <2>5, MembersGrow DEF Members
  <2>7. (Members \ {u}) \cup {u} \subseteq Users /\ Members \ {u} \subseteq Users
    BY <2>1, <2>4
  <2>8. /\ IsFiniteSet(Members \ {u}) /\ Cardinality(Members \ {u}) \in Nat
    BY <2>7, MembersFinite
  <2>9. Cardinality((Members \ {u}) \cup {u}) = Cardinality(Members \ {u}) + 1
    BY <2>8, FS_AddElement
  <2>10. Cardinality(Members') <= Cardinality((Members \ {u}) \cup {u})
    BY <2>6, <2>7, MembersFinite
  <2>11. limit \in Nat
    BY DEF Typed, TypeOK
  <2> QED BY <2>2, <2>5, <2>8, <2>9, <2>10, <2>11
<1> QED BY <1>1, <1>2, <1>3, InitTypes, StepTypes, PTL DEF Spec, SeatsBounded
================================================================================
