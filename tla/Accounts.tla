-------------------------------- MODULE Accounts --------------------------------
(*****************************************************************************)
(* The accounts of one organisation while requests overlap: roles, activation, *)
(* removal, transfer of ownership, leaving, the limit of the plan, invitations *)
(* from the first count to the new member, and the refresh tokens that sign a  *)
(* user in.  Every await of a request is a step, so what one request has read  *)
(* may be gone when it writes.                                                 *)
(*                                                                             *)
(* A request is served once.  A refused request changes nothing and is left    *)
(* out, unless it had been accepted so far.                                    *)
(*****************************************************************************)
EXTENDS Naturals, FiniteSets

CONSTANTS
    Users,        \* accounts and the e-mail addresses that have none yet
    Founder,      \* the owner of the organisation
    Admins,       \* users who are members from the start, besides the owner
    Signing,      \* bound: users whose refresh tokens, logins and refreshes are followed
    Requests,     \* requests to the gateway; each is served once
    Overlap,      \* bound: how many requests are under way at once
    Limits,       \* values of the plan's limit of users
    MaxAttempts   \* MAX_VERIFICATION_ATTEMPTS

None == "none"

ASSUME AccountsAssumption ==
    /\ Founder \in Users
    /\ Admins \subseteq Users \ {Founder}
    /\ Signing \subseteq Users
    /\ Users \cap Requests = {}
    /\ IsFiniteSet(Users)
    /\ None \notin Users \cup Requests
    /\ Limits \subseteq Nat
    /\ {Overlap, MaxAttempts} \subseteq Nat \ {0}

VARIABLES
    user,        \* [Users -> the row of users, or Stranger]
    invitation,  \* [Users -> the row of user_verifications for that e-mail, or NoRow]
    session,     \* [Users \cup Requests -> the refresh token it was given first, or NoToken]
    request,     \* [Requests -> progress of the request]
    limit,       \* the plan's limit of users, or the organisation's own
    stale,       \* history: a request wrote to accounts that had changed since it read them
    overlapped,  \* history: seats were counted, or cut, while an invitation was pending
    left,        \* history: users who left and were signed out, and did not come back
    raced,       \* history: users who were signed out during a login or a refresh
    shared,      \* history: tokens two refreshes had found live at once
    rotated,     \* history: [tokens -> tokens that replaced it]
    tried        \* history: [rows of invitation -> codes compared with that row]

rows == <<user, invitation, session>>
history == <<stale, overlapped, left, raced, shared, rotated, tried>>
vars == <<rows, request, limit, history>>

--------------------------------------------------------------------------------
Roles == {"OWNER", "ADMIN", "VIEWER"}
Level == [OWNER |-> 4, ADMIN |-> 3, VIEWER |-> 1]     \* ROLE_HIERARCHY
Tokens == Users \cup Requests      \* also the rows of invitations and their codes
First == {Founder} \cup Admins

AccountRows == [org : {None, "here", "away"}, role : Roles, active : BOOLEAN, deleted : BOOLEAN]
Copies == UNION {[us -> AccountRows] : us \in SUBSET Users}
InvitationRows == [id : Tokens \cup {None}, code : Tokens \cup {None}, tries : Nat, expired : BOOLEAN]
Pcs == {"waiting", "served", "manage", "write", "successor", "transfer", "leave", "signOut",
        "enforce", "look", "create", "reserve", "compare", "accept", "join", "joined", "return",
        "found", "rotate", "token"}

Account(org, role) == [org |-> org, role |-> role, active |-> TRUE, deleted |-> FALSE]
Stranger == [Account(None, "VIEWER") EXCEPT !.active = FALSE]
NoRow == [id |-> None, code |-> None, tries |-> 0, expired |-> FALSE]
NoToken == [of |-> None, live |-> FALSE]

(* read: the accounts as this request read them.  row: the same for an invitation.
   right: the code typed is the code of that row. *)
NotServed == [pc |-> "waiting", op |-> None, who |-> None, on |-> None, read |-> <<>>,
              row |-> NoRow, right |-> FALSE, token |-> None, drop |-> {}]
Served == [NotServed EXCEPT !.pc = "served"]

Lives(u) == user[u].org # None /\ ~ user[u].deleted
Member(u) == user[u].org = "here" /\ ~ user[u].deleted
Members == {u \in Users : Member(u)}
Active == {u \in Members : user[u].active}
InCharge(u) == u \in Active /\ user[u].role \in {"OWNER", "ADMIN"}
Invites(u) == invitation[u] # NoRow

At(q, pc) == request[q].pc = pc
Who(q) == request[q].who
On(q) == request[q].on
Begins(pc, who, on) == [NotServed EXCEPT !.pc = pc, !.who = who, !.on = on]
UnderWay == {q \in Requests : request[q].pc \notin {"waiting", "served"}}
Takes(q, started) ==
    /\ At(q, "waiting")
    /\ Cardinality(UnderWay) < Overlap
    /\ request' = [request EXCEPT ![q] = started]
Goes(q, pc) == request' = [request EXCEPT ![q].pc = pc]
Ends(q) == request' = [request EXCEPT ![q] = Served]

(* The accounts as they are, and what a request has read with one more of them. *)
Copy(us) == [u \in us |-> user[u]]
WithNow(copy, us) == [u \in DOMAIN copy \cup us |-> IF u \in DOMAIN copy THEN copy[u] ELSE user[u]]
Stale(q) == \E u \in DOMAIN request[q].read : request[q].read[u] # user[u]
Notes(q) == stale' = (stale \/ Stale(q))

(* The members fit the plan.  The others have no account, or were members once; one
   with an invitation got it while a seat was free. *)
Init ==
    /\ \E former \in SUBSET (Users \ First) :
          user = [u \in Users |->
                     IF u = Founder THEN Account("here", "OWNER")
                     ELSE IF u \in Admins THEN Account("here", "ADMIN")
                     ELSE IF u \in former
                          THEN [Account("here", "VIEWER") EXCEPT !.active = FALSE, !.deleted = TRUE]
                          ELSE Stranger]
    /\ limit \in {n \in Limits : n >= Cardinality(First)}
    /\ \E u \in Users : \/ invitation = [v \in Users |-> NoRow]
                        \/ /\ u \notin First
                           /\ Cardinality(First) < limit
                           /\ invitation = [v \in Users |-> IF v = u
                                 THEN [NoRow EXCEPT !.id = u, !.code = u] ELSE NoRow]
    /\ session = [t \in Tokens |-> IF t \in First \cap Signing THEN [of |-> t, live |-> TRUE] ELSE NoToken]
    /\ request = [q \in Requests |-> NotServed]
    /\ stale = FALSE
    /\ overlapped = FALSE
    /\ left = {}
    /\ raced = {}
    /\ shared = {}
    /\ rotated = [t \in Tokens |-> 0]
    /\ tried = [t \in Tokens |-> 0]

--------------------------------------------------------------------------------
(* updateRole, activate, deactivate, remove: read the target, read the actor,   *)
(* check, write.                                                               *)

RoleOps == {"ADMIN", "VIEWER"}     \* the role to give
Manage == RoleOps \cup {"activate", "deactivate", "remove"}

ReadTarget(q) ==
    /\ \E op \in Manage, u, v \in Users :
          /\ InCharge(u)
          /\ Member(v)
          /\ Takes(q, [Begins("manage", u, v) EXCEPT !.op = op, !.read = Copy({v})])
    /\ UNCHANGED <<rows, limit, history>>

MayDo_ToAnyone(op, actor, target) ==
    IF op \in RoleOps
    THEN /\ target = "OWNER" => actor = "OWNER"
         /\ actor = "ADMIN" => Level[op] < Level["ADMIN"]
         /\ Level[actor] > Level[target]
    ELSE actor \in {"OWNER", "ADMIN"}

(* validateRoleHierarchy; validateActionPermission. *)
MayDo(op, actor, target) ==
    IF op \in RoleOps
    THEN /\ target = "OWNER" => actor = "OWNER"
         /\ actor = "ADMIN" => Level[op] < Level["ADMIN"]
         /\ Level[actor] > Level[target]
    ELSE /\ actor \in {"OWNER", "ADMIN"}
         /\ target # "OWNER"
         /\ Level[actor] >= Level[target]

Allowed(q) == /\ Member(Who(q))
              /\ MayDo(request[q].op, user[Who(q)].role, request[q].read[On(q)].role)

ReadActor(q) ==
    /\ At(q, "manage")
    /\ IF Allowed(q)
       THEN request' = [request EXCEPT ![q].pc = "write",
                                       ![q].read = WithNow(@, {Who(q)})]
       ELSE Ends(q)
    /\ UNCHANGED <<rows, limit, history>>

Changed(account, op) ==
    CASE op \in RoleOps -> [account EXCEPT !.role = op]
      [] op = "activate" -> [account EXCEPT !.active = TRUE]
      [] op = "deactivate" -> [account EXCEPT !.active = FALSE]
      [] op = "remove" -> [account EXCEPT !.deleted = TRUE]

Write(q) ==
    /\ At(q, "write")
    /\ user' = [user EXCEPT ![On(q)] = Changed(@, request[q].op)]
    /\ Notes(q)
    /\ Ends(q)
    /\ UNCHANGED <<invitation, session, limit, overlapped, left, raced, shared, rotated, tried>>

(* transferOwnership: the owner is read, then the new owner. *)
ReadOwner(q) ==
    /\ \E u, v \in Users : /\ u \in Active
                           /\ user[u].role = "OWNER"
                           /\ Takes(q, [Begins("successor", u, v) EXCEPT !.read = Copy({u})])
    /\ UNCHANGED <<rows, limit, history>>

ReadSuccessor(q) ==
    /\ At(q, "successor")
    /\ IF On(q) \in Active
       THEN request' = [request EXCEPT ![q].pc = "transfer",
                                       ![q].read = WithNow(@, {On(q)})]
       ELSE Ends(q)
    /\ UNCHANGED <<rows, limit, history>>

(* The transaction: two updates by id. *)
Transfer(q) ==
    /\ At(q, "transfer")
    /\ user' = [user EXCEPT ![Who(q)].role = "ADMIN", ![On(q)].role = "OWNER"]
    /\ Notes(q)
    /\ Ends(q)
    /\ UNCHANGED <<invitation, session, limit, overlapped, left, raced, shared, rotated, tried>>

(* leaveOrganization up to its checks; then the update; then logoutAll. *)
AskToLeave(q) ==
    /\ \E u \in Active : /\ user[u].role # "OWNER"
                         /\ Takes(q, [Begins("leave", u, u) EXCEPT !.read = Copy({u})])
    /\ UNCHANGED <<rows, limit, history>>

Leave(q) ==
    /\ At(q, "leave")
    /\ user' = [user EXCEPT ![Who(q)].deleted = TRUE, ![Who(q)].active = FALSE]
    /\ Notes(q)
    /\ Goes(q, "signOut")
    /\ UNCHANGED <<invitation, session, limit, overlapped, left, raced, shared, rotated, tried>>

Revoked(u) == [t \in Tokens |-> IF session[t].of = u THEN [session[t] EXCEPT !.live = FALSE]
                                ELSE session[t]]
SigningIn(u) == \E q \in Requests : Who(q) = u /\ request[q].pc \in {"rotate", "token"}

SignOut_OneDevice(q) ==
    /\ At(q, "signOut")
    /\ \E t \in Tokens : session' = [session EXCEPT ![t].live = FALSE]
    /\ left' = IF Lives(Who(q)) THEN left ELSE left \cup {Who(q)}
    /\ raced' = IF SigningIn(Who(q)) THEN raced \cup {Who(q)} ELSE raced
    /\ Ends(q)
    /\ UNCHANGED <<user, invitation, limit, stale, overlapped, shared, rotated, tried>>

(* Every refresh token of the user that is not revoked is. *)
SignOut(q) ==
    /\ At(q, "signOut")
    /\ session' = Revoked(Who(q))
    /\ left' = IF Lives(Who(q)) THEN left ELSE left \cup {Who(q)}
    /\ raced' = IF SigningIn(Who(q)) THEN raced \cup {Who(q)} ELSE raced
    /\ Ends(q)
    /\ UNCHANGED <<user, invitation, limit, stale, overlapped, shared, rotated, tried>>

Inviting == {"look", "create"}
Accepting == {"reserve", "compare", "accept", "join", "joined", "return"}
Pending == \/ \E u \in Users : Invites(u)
           \/ \E q \in Requests : request[q].pc \in Inviting \cup Accepting

(* enforceLimits: the owners stay, then admins, then viewers, as many as the plan
   has seats; lastLoginAt decides among equals. *)
Excess(drop, n) ==
    /\ drop \subseteq {u \in Active : user[u].role # "OWNER"}
    /\ \A u \in drop, v \in Active \ drop :
          user[v].role # "OWNER" => Level[user[u].role] <= Level[user[v].role]
    /\ \/ Cardinality(Active \ drop) = n
       \/ Cardinality(Active \ drop) > n /\ \A u \in Active \ drop : user[u].role = "OWNER"

(* The plan has changed to one of n seats. *)
EnforceLimits(q) ==
    /\ \E n \in Limits, drop \in SUBSET Active :
          /\ n < Cardinality(Active)
          /\ Excess(drop, n)
          /\ limit' = n
          /\ Takes(q, [Begins("enforce", None, None) EXCEPT
                          !.drop = drop, !.read = Copy(Active)])
    /\ overlapped' = (overlapped \/ Pending)
    /\ UNCHANGED <<rows, stale, left, raced, shared, rotated, tried>>

Deactivate(q) ==
    /\ At(q, "enforce")
    /\ user' = [u \in Users |-> IF u \in request[q].drop
                                THEN [user[u] EXCEPT !.active = FALSE] ELSE user[u]]
    /\ Notes(q)
    /\ Ends(q)
    /\ UNCHANGED <<invitation, session, limit, overlapped, left, raced, shared, rotated, tried>>

--------------------------------------------------------------------------------
(* Invitations.                                                                  *)

HasSeat_OneMore == Cardinality(Members) <= limit

(* validateUserLimit counts the rows of users, not the invitations. *)
HasSeat == Cardinality(Members) < limit

Count(q) ==
    /\ HasSeat
    /\ \E u, v \in Users : InCharge(u) /\ Takes(q, Begins("look", None, v))
    /\ overlapped' = (overlapped \/ Pending)
    /\ UNCHANGED <<rows, limit, stale, left, raced, shared, rotated, tried>>

(* No account lives under this e-mail and no valid code was sent to it; an expired
   row is deleted. *)
Look(q) ==
    /\ At(q, "look")
    /\ IF Lives(On(q)) \/ (Invites(On(q)) /\ ~ invitation[On(q)].expired)
       THEN Ends(q) /\ UNCHANGED invitation
       ELSE Goes(q, "create") /\ invitation' = [invitation EXCEPT ![On(q)] = NoRow]
    /\ UNCHANGED <<user, session, limit, history>>

(* The mail left; the row is created unless another request was first. *)
Create(q) ==
    /\ At(q, "create")
    /\ invitation' = [invitation EXCEPT ![On(q)] =
                         IF Invites(On(q)) THEN @ ELSE [NoRow EXCEPT !.id = q, !.code = q]]
    /\ Ends(q)
    /\ UNCHANGED <<user, session, limit, history>>

(* resendInvitation finds a row, sends the mail and updates the row that is there
   then: any will do, expired or not, and its attempts are not counted anew. *)
Resend(q) ==
    /\ At(q, "waiting")
    /\ \E u, v \in Users : /\ InCharge(u)
                           /\ Invites(v)
                           /\ invitation' = [invitation EXCEPT ![v].code = q,
                                                                ![v].expired = FALSE]
    /\ Ends(q)
    /\ UNCHANGED <<user, session, limit, history>>

CancelInvitation(q) ==
    /\ \E u, v \in Users : /\ InCharge(u)
                           /\ Invites(v)
                           /\ invitation' = [invitation EXCEPT ![v] = NoRow]
    /\ At(q, "waiting")
    /\ Ends(q)
    /\ UNCHANGED <<user, session, limit, history>>

Expire(u) ==
    /\ Invites(u)
    /\ ~ invitation[u].expired
    /\ invitation' = [invitation EXCEPT ![u].expired = TRUE]
    /\ UNCHANGED <<user, session, request, limit, history>>

(* checkVerificationCode: find the row, reserve an attempt, compare. *)
FindRow(q) ==
    /\ \E u \in Users, right \in BOOLEAN :
          /\ Invites(u)
          /\ ~ invitation[u].expired
          /\ Takes(q, [Begins("reserve", u, u) EXCEPT !.row = invitation[u], !.right = right])
    /\ UNCHANGED <<rows, limit, history>>

SameRow(q) == invitation[On(q)].id = request[q].row.id
SameCode(q) == invitation[On(q)].code = request[q].row.code
Discarded(u) == [invitation EXCEPT ![u] = NoRow]

Reserve_FromCopy(q) ==
    /\ At(q, "reserve")
    /\ IF SameRow(q) /\ request[q].row.tries < MaxAttempts
       THEN /\ invitation' = [invitation EXCEPT ![On(q)].tries = request[q].row.tries + 1]
            /\ Goes(q, "compare")
       ELSE /\ invitation' = IF SameRow(q) THEN Discarded(On(q)) ELSE invitation
            /\ Ends(q)
    /\ UNCHANGED <<user, session, limit, history>>

(* One atomic update counts the attempt if any is left; else the row goes. *)
Reserve(q) ==
    /\ At(q, "reserve")
    /\ IF SameRow(q) /\ invitation[On(q)].tries < MaxAttempts
       THEN /\ invitation' = [invitation EXCEPT ![On(q)].tries = @ + 1]
            /\ Goes(q, "compare")
       ELSE /\ invitation' = IF SameRow(q) THEN Discarded(On(q)) ELSE invitation
            /\ Ends(q)
    /\ UNCHANGED <<user, session, limit, history>>

Compare(q) ==
    /\ At(q, "compare")
    /\ tried' = [tried EXCEPT ![request[q].row.id] = @ + 1]
    /\ IF request[q].right
       THEN Goes(q, "accept") /\ UNCHANGED invitation
       ELSE /\ Ends(q)
            /\ invitation' = IF SameRow(q) /\ request[q].row.tries + 1 >= MaxAttempts
                             THEN Discarded(On(q)) ELSE invitation
    /\ UNCHANGED <<user, session, limit, stale, overlapped, left, raced, shared, rotated>>

(* createUserFromInvitation: an account that exists ends the invitation, and one
   that was deleted comes back. *)
Accept(q) ==
    /\ At(q, "accept")
    /\ IF user[On(q)] = Stranger
       THEN Goes(q, "join") /\ UNCHANGED invitation
       ELSE /\ invitation' = IF SameCode(q) THEN Discarded(On(q)) ELSE invitation
            /\ IF Lives(On(q)) THEN Ends(q)
               ELSE request' = [request EXCEPT ![q].pc = "return",
                                               ![q].read = Copy({On(q)})]
    /\ UNCHANGED <<user, session, limit, history>>

Join(q) ==
    /\ At(q, "join")
    /\ IF user[On(q)] = Stranger
       THEN /\ user' = [user EXCEPT ![On(q)] = Account("here", "VIEWER")]
            /\ Goes(q, "joined")
       ELSE Ends(q) /\ UNCHANGED user
    /\ UNCHANGED <<invitation, session, limit, history>>

Joined(q) ==
    /\ At(q, "joined")
    /\ invitation' = IF SameCode(q) THEN Discarded(On(q)) ELSE invitation
    /\ Ends(q)
    /\ UNCHANGED <<user, session, limit, history>>

(* The role it had belonged to another organisation; then its tokens are revoked. *)
Return(q) ==
    /\ At(q, "return")
    /\ user' = [user EXCEPT ![On(q)] = Account("here", "VIEWER")]
    /\ left' = left \ {On(q)}
    /\ Notes(q)
    /\ Goes(q, "signOut")
    /\ UNCHANGED <<invitation, session, limit, overlapped, raced, shared, rotated, tried>>

--------------------------------------------------------------------------------
(* Signing in and out.                                                        *)

(* validateUser accepts the password. *)
Login(q) ==
    /\ \E u \in Signing : Lives(u) /\ user[u].active /\ Takes(q, Begins("token", u, None))
    /\ UNCHANGED <<rows, limit, history>>

(* validateGoogleUser finds an account, a deleted one or none. *)
Google(q) ==
    /\ \E u \in Signing :
          Takes(q, IF Lives(u) THEN Begins("token", u, None)
                   ELSE [Begins("found", u, None) EXCEPT !.read = Copy({u})])
    /\ UNCHANGED <<rows, limit, history>>

(* The transaction: a new organisation of which the user is the owner.  A user who
   had no account when it was read must still have none. *)
Found(q) ==
    /\ At(q, "found")
    /\ IF request[q].read[Who(q)] = Stranger /\ user[Who(q)] # Stranger
       THEN Ends(q) /\ UNCHANGED <<user, invitation, left, stale>>
       ELSE /\ user' = [user EXCEPT ![Who(q)] = Account("away", "OWNER")]
            /\ invitation' = Discarded(Who(q))
            /\ left' = left \ {Who(q)}
            /\ Notes(q)
            /\ request' = [request EXCEPT ![q] = Begins("token", Who(q), None)]
    /\ UNCHANGED <<session, limit, overlapped, raced, shared, rotated, tried>>

FindToken_Revoked(q) ==
    /\ \E t \in Tokens :
          /\ session[t].of # None
          /\ Takes(q, [Begins("rotate", session[t].of, None) EXCEPT !.token = t])
          /\ shared' = IF \E p \in Requests : At(p, "rotate") /\ request[p].token = t
                       THEN shared \cup {t} ELSE shared
    /\ UNCHANGED <<rows, limit, stale, overlapped, left, raced, rotated, tried>>

(* refreshTokens: a row of the user is found among those not revoked. *)
FindToken(q) ==
    /\ \E t \in Tokens :
          /\ session[t].live
          /\ Takes(q, [Begins("rotate", session[t].of, None) EXCEPT !.token = t])
          /\ shared' = IF \E p \in Requests : At(p, "rotate") /\ request[p].token = t
                       THEN shared \cup {t} ELSE shared
    /\ UNCHANGED <<rows, limit, stale, overlapped, left, raced, rotated, tried>>

(* It is revoked by its id, whoever revoked it before. *)
Rotate(q) ==
    /\ At(q, "rotate")
    /\ session' = [session EXCEPT ![request[q].token].live = FALSE]
    /\ Goes(q, "token")
    /\ UNCHANGED <<user, invitation, limit, history>>

(* generateTokens: from the payload, whatever the account has become. *)
GenerateTokens(q) ==
    /\ At(q, "token")
    /\ session' = [session EXCEPT ![q] = [of |-> Who(q), live |-> TRUE]]
    /\ rotated' = [t \in Tokens |-> rotated[t] + (IF request[q].token = t THEN 1 ELSE 0)]
    /\ Ends(q)
    /\ UNCHANGED <<user, invitation, limit, stale, overlapped, left, raced, shared, tried>>

--------------------------------------------------------------------------------
ManageStep(q) ==
    \/ ReadTarget(q) \/ ReadActor(q) \/ Write(q)
    \/ ReadOwner(q) \/ ReadSuccessor(q) \/ Transfer(q)
    \/ AskToLeave(q) \/ Leave(q) \/ SignOut(q)
    \/ EnforceLimits(q) \/ Deactivate(q)

InviteStep(q) ==
    \/ Count(q) \/ Look(q) \/ Create(q)
    \/ Resend(q) \/ CancelInvitation(q)
    \/ FindRow(q) \/ Reserve(q) \/ Compare(q)
    \/ Accept(q) \/ Join(q) \/ Joined(q) \/ Return(q)

SessionStep(q) ==
    \/ Login(q) \/ Google(q) \/ Found(q)
    \/ FindToken(q) \/ Rotate(q) \/ GenerateTokens(q)

Next ==
    \/ \E q \in Requests : ManageStep(q) \/ InviteStep(q) \/ SessionStep(q)
    \/ \E u \in Users : Expire(u)

Spec == Init /\ [][Next]_vars

--------------------------------------------------------------------------------
(* Properties.                                                                *)

(* Types of the rows, of the requests and of what is remembered of them. *)
TypeOK ==
    /\ user \in [Users -> AccountRows]
    /\ invitation \in [Users -> InvitationRows]
    /\ session \in [Tokens -> [of : Users \cup {None}, live : BOOLEAN]]
    /\ request \in [Requests -> [pc : Pcs, op : Manage \cup {None}, who : Users \cup {None},
                                 on : Users \cup {None}, read : Copies, row : InvitationRows,
                                 right : BOOLEAN, token : Tokens \cup {None}, drop : SUBSET Users]]
    /\ limit \in Nat
    /\ stale \in BOOLEAN /\ overlapped \in BOOLEAN
    /\ left \subseteq Users /\ raced \subseteq Users /\ shared \subseteq Tokens
    /\ rotated \in [Tokens -> Nat] /\ tried \in [Tokens -> Nat]

(* The organisation has one owner, who lives and is active, and a user who founded
   one with Google owns it: no sequence of changes of role, removals, transfers,
   returns and limits takes the owner away or makes a second one, as long as no
   request writes to an account that changed after it was read. *)
Owners(org) == {u \in Users : Lives(u) /\ user[u].org = org /\ user[u].role = "OWNER"}

OneOwner ==
    ~ stale => /\ \E u \in Active : Owners("here") = {u}
               /\ \A u \in Users : user[u].org = "away" => user[u].role = "OWNER"

(* A new member, or one who comes back, has a seat of the plan, unless seats were
   counted while another invitation was pending, which the count does not see, or the
   plan shrank meanwhile. *)
SeatsBounded ==
    [][Cardinality(Members') > Cardinality(Members) =>
          overlapped \/ Cardinality(Members') <= limit]_vars

(* Once a member who left has been signed out, no refresh token of his works again,
   unless a login or a refresh of his was under way at that moment. *)
LeftIsSignedOut ==
    \A u \in left \ raced : \A t \in Tokens : session[t].of = u => ~ session[t].live

(* A row of refresh_tokens is exchanged for new tokens once, unless two refreshes found it
   before either revoked it. *)
RotatedOnce == \A t \in Tokens \ shared : rotated[t] <= 1

(* However many requests try codes at once, an invitation is compared with at most
   MaxAttempts of them, a new code sent meanwhile included. *)
AttemptsBounded == \A t \in Tokens : tried[t] <= MaxAttempts
================================================================================
