---------------------------- MODULE AccessProofs ----------------------------
(***************************************************************************)
(* Proofs about who is let in (module Access), for any users, requests in  *)
(* flight and tokens.                                                      *)
(***************************************************************************)
EXTENDS Access, SequenceTheorems, TLAPS

TokenStates == {"live", "expired", "revoked"}
Grants == {"none", "active", "revoked"}

-----------------------------------------------------------------------------
(* Types.                                                                  *)

LEMMA IdleType == Idle \in Call /\ Idle.at = "idle" /\ Idle.late = {}
  BY DEF Idle, Call, Steps, Approving, NoRow

LEMMA InType == In \in Call
  BY DEF In, Idle, Call, Steps, Approving, NoRow

LEMMA NoRowType == NoRow \in Row /\ NoRow.status = "none" /\ NoRow.role = "none"
  BY DEF NoRow, Row

LEMMA CallType ==
  ASSUME TypeOK, NEW c \in Calls
  PROVE  calls[c] \in Call
  BY DEF TypeOK

LEMMA AnyStep ==
  ASSUME NEW call \in Call, NEW step \in Steps
  PROVE  [call EXCEPT !.at = step] \in Call
  BY DEF Call

LEMMA AnyLate ==
  ASSUME NEW call \in Call, NEW late,
         late \subseteq {"member", "grant", "token"} \X (Users \cup Nat)
  PROVE  [call EXCEPT !.late = late] \in Call
  BY DEF Call

(* What has the type of a request does so with another step. *)
LEMMA StepType ==
  ASSUME TypeOK, NEW c \in Calls, NEW step \in Steps, Goto(c, step)
  PROVE  calls' \in [Calls -> Call]
<1>1. [calls[c] EXCEPT !.at = step] \in Call
  BY CallType, AnyStep
<1>2. calls' = [calls EXCEPT ![c] = [calls[c] EXCEPT !.at = step]]
  BY DEF Goto
<1>. QED  BY <1>1, <1>2 DEF TypeOK

LEMMA ReturnType ==
  ASSUME TypeOK, NEW c \in Calls, Return(c)
  PROVE  calls' \in [Calls -> Call]
  BY IdleType DEF TypeOK, Return

LEMMA BeginType ==
  ASSUME TypeOK, NEW c \in Calls, NEW call \in Call, Begin(c, call)
  PROVE  calls' \in [Calls -> Call]
  BY DEF TypeOK, Begin

LEMMA ReadmitType ==
  ASSUME TypeOK, NEW c \in Calls, NEW call \in Call, NEW what,
         Readmit(c, call, what)
  PROVE  calls' \in [Calls -> Call]
<1>1. ASSUME NEW d \in Calls
      PROVE  [calls[d] EXCEPT !.late = @ \ {what}] \in Call
  BY DEF TypeOK, Call
<1>. QED  BY <1>1 DEF Readmit

LEMMA LateLessType ==
  ASSUME TypeOK, NEW what, Readmitted(what)
  PROVE  calls' \in [Calls -> Call]
<1>1. ASSUME NEW call \in Call  PROVE [call EXCEPT !.late = @ \ {what}] \in Call
  BY DEF Call
<1>. QED  BY <1>1, CallType DEF Readmitted

(* A user's own update of the grant leaves each request as it is, up to    *)
(* what came late.                                                         *)
LEMMA OwnLeaves ==
  ASSUME TypeOK, NEW u \in Users, UpdateOwn(u), NEW d \in Calls
  PROVE  /\ calls'[d].at = calls[d].at /\ calls'[d].who = calls[d].who
         /\ calls'[d].set = calls[d].set /\ calls'[d].num = calls[d].num
         /\ calls'[d].late \subseteq calls[d].late
<1>1. CASE UNCHANGED calls
  BY <1>1
<1>2. CASE Readmitted(Grant(u))
  <2>1. calls'[d] = [calls[d] EXCEPT !.late = @ \ {Grant(u)}]
    BY <1>2 DEF Readmitted
  <2>. QED  BY <2>1 DEF TypeOK, Call
<1>. QED  BY <1>1, <1>2 DEF UpdateOwn

LEMMA TokenTypes ==
  ASSUME TypeOK
  PROVE  /\ tokens \in Seq(TokenStates) /\ Len(tokens) \in Nat
         /\ DOMAIN tokens = 1..Len(tokens)
         /\ RevokeAll => tokens' \in Seq(TokenStates)
         /\ Insert => tokens' \in Seq(TokenStates)
         /\ \A n \in DOMAIN tokens : Expire(n) => tokens' \in Seq(TokenStates)
<1>1. /\ tokens \in Seq(TokenStates) /\ Len(tokens) \in Nat
      /\ DOMAIN tokens = 1..Len(tokens)
      /\ tokens \in [1..Len(tokens) -> TokenStates]
  BY LenProperties DEF TypeOK, TokenStates
<1>2. ASSUME NEW f \in [1..Len(tokens) -> TokenStates]
      PROVE  f \in Seq(TokenStates)
  BY <1>1, SeqDef
<1>3. RevokeAll => tokens' \in Seq(TokenStates)
  BY <1>1, <1>2 DEF RevokeAll, TokenStates
<1>4. Insert => tokens' \in Seq(TokenStates)
  BY <1>1, AppendProperties DEF Insert, TokenStates
<1>5. ASSUME NEW n \in DOMAIN tokens, Expire(n)  PROVE tokens' \in Seq(TokenStates)
  BY <1>1, <1>2, <1>5 DEF Expire, TokenStates
<1>. QED  BY <1>1, <1>3, <1>4, <1>5

(* Requests that decide about a user know which, and an administrator      *)
(* chose one who has a row.                                                *)
WhoKnown ==
  \A c \in Calls :
    /\ calls[c].at \in Approving \cup {"client:grant"} => Who(c) \in Users
    /\ calls[c].at = "admin:write" => Who(c) \in Registered

LEMMA GivenType ==
  ASSUME NEW call \in Call, NEW row \in [role : Roles, status : Statuses]
  PROVE  [row EXCEPT !.role = Given(call.set.role, @),
                     !.status = Given(call.set.status, @)]
           \in [role : Roles, status : Statuses]
  BY DEF Given, Call

LEMMA TypeStep ==
  ASSUME TypeOK, WhoKnown, [Next]_vars
  PROVE  TypeOK'
<1>. USE DEF people, oauth, ghosts
<1>1. CASE UNCHANGED vars
  BY <1>1 DEF vars, TypeOK
<1>2. ASSUME NEW u \in Users, Person(u)  PROVE TypeOK'
  <2>1. CASE SignUp(u) \/ SignUpFails(u)
    BY <2>1 DEF SignUp, SignUpFails, TypeOK
  <2>2. CASE Registers(u)
    <3>1. NewUser(u) \in Row
      BY DEF NewUser, Row, Roles, Statuses
    <3>. QED  BY <2>2, <3>1 DEF Registers, TypeOK
  <2>3. CASE SignIn(u) \/ SignOut(u)
    BY <2>3 DEF SignIn, SignOut, PostSession, TypeOK
  <2>4. CASE OpenConsent(u) \/ Deny(u) \/ RevokeGrant(u)
    BY <2>4 DEF OpenConsent, Deny, RevokeGrant, TypeOK
  <2>5. CASE UpdateOwn(u)
    <3>1. calls' \in [Calls -> Call]
      BY <2>5, LateLessType DEF UpdateOwn, TypeOK
    <3>2. grant' \in [Users -> Grants] /\ missed' \subseteq Users
      BY <2>5 DEF UpdateOwn, TypeOK, Grants
    <3>. QED  BY <2>5, <3>1, <3>2 DEF UpdateOwn, TypeOK, Grants
  <2>. QED  BY <1>2, <2>1, <2>2, <2>3, <2>4, <2>5 DEF Person, Revoke, RpcRevoke
<1>3. ASSUME NEW c \in Calls, Request(c)  PROVE TypeOK'
  <2>1. ASSUME NEW u \in Users, UserComes(c, u)  PROVE TypeOK'
    <3>. DEFINE late == {Member(u)} \cap told
    <3>1. late \subseteq {"member", "grant", "token"} \X (Users \cup Nat)
      BY DEF Member
    <3>. HIDE DEF late
    <3>2. [In EXCEPT !.late = late] \in Call
      BY <3>1, InType, AnyLate
    <3>3. calls' \in [Calls -> Call]
      BY <2>1, <3>2, BeginType DEF UserComes, Comes, late
    <3>. QED  BY <2>1, <3>3 DEF UserComes, Comes, TypeOK
  <2>2. ASSUME NEW u \in Users, ClientComes(c, u)  PROVE TypeOK'
    <3>. DEFINE call == [Idle EXCEPT !.at = "client:grant", !.who = u]
                late == {Member(u), Grant(u)} \cap told
    <3>1. late \in SUBSET ({"member", "grant", "token"} \X (Users \cup Nat))
      BY DEF Member, Grant
    <3>. HIDE DEF late
    <3>2. [call EXCEPT !.late = late] \in Call
      BY <3>1 DEF Idle, Call, Steps, Approving, NoRow
    <3>3. calls' \in [Calls -> Call]
      BY <2>2, <3>2, BeginType DEF ClientComes, Comes, late
    <3>. QED  BY <2>2, <3>3 DEF ClientComes, Comes, TypeOK
  <2>3. ASSUME NEW n \in DOMAIN tokens, TokenComes(c, n)  PROVE TypeOK'
    <3>1. n \in Nat
      BY TokenTypes
    <3>. DEFINE late == {Token(n)} \cap told
    <3>2. late \subseteq {"member", "grant", "token"} \X (Users \cup Nat)
      BY <3>1 DEF Token
    <3>. HIDE DEF late
    <3>3. [In EXCEPT !.late = late] \in Call
      BY <3>2, InType, AnyLate
    <3>4. calls' \in [Calls -> Call]
      BY <2>3, <3>3, BeginType DEF TokenComes, Comes, late
    <3>. QED  BY <2>3, <3>4 DEF TokenComes, Comes, TypeOK
  <2>4. ASSUME NEW u \in Users, Approve(c, u)  PROVE TypeOK'
    <3>1. [Idle EXCEPT !.at = "approve:details", !.who = u] \in Call
      BY DEF Idle, Call, Steps, Approving, NoRow
    <3>2. calls' \in [Calls -> Call]
      BY <2>4, <3>1, ReadmitType DEF Approve
    <3>. QED  BY <2>4, <3>2 DEF Approve, TypeOK
  <2>5. ASSUME NEW by \in Users, NEW u \in Users, NEW set \in Changes,
               Administer(c, by, u, set)
        PROVE  TypeOK'
    <3>. DEFINE call == [Idle EXCEPT !.at = "admin:write", !.who = u, !.set = set]
    <3>1. set \in [role : Roles \cup {"none"}, status : Statuses \cup {"none"}]
      BY ChangeAssumption DEF Changes
    <3>2. call \in Call
      BY <3>1 DEF Idle, Call, Steps, Approving, NoRow
    <3>. HIDE DEF call
    <3>3. calls' \in [Calls -> Call]
      BY <2>5, <3>2, ReadmitType, BeginType DEF Administer, call
    <3>. QED  BY <2>5, <3>3 DEF Administer, TypeOK
  <2>6. CASE Rotate(c)
    <3>1. Len(tokens) \in Nat
      BY TokenTypes
    <3>2. [Idle EXCEPT !.at = "token:insert", !.num = Len(tokens)] \in Call
      BY <3>1 DEF Idle, Call, Steps, Approving, NoRow
    <3>3. calls' \in [Calls -> Call]
      BY <2>6, <3>2, BeginType DEF Rotate
    <3>4. tokens' \in Seq(TokenStates)
      BY <2>6, TokenTypes DEF Rotate
    <3>. QED  BY <2>6, <3>3, <3>4 DEF Rotate, TypeOK, TokenStates
  <2>. QED  BY <1>3, <2>1, <2>2, <2>3, <2>4, <2>5, <2>6 DEF Request
<1>4. ASSUME NEW c \in Calls, Answer(c)  PROVE TypeOK'
  <2>0. calls[c] \in Call /\ Who(c) \in Users \cup {Nobody}
    BY DEF TypeOK, Call, Who
  <2>1. CASE CheckGrant(c)
    <3>1. [calls[c] EXCEPT !.at = "in", !.who = Nobody] \in Call
      BY <2>0 DEF Call, Steps
    <3>2. calls' = [calls EXCEPT ![c] = [calls[c] EXCEPT !.at = "in", !.who = Nobody]]
      BY <2>1 DEF CheckGrant
    <3>. QED  BY <2>1, <3>1, <3>2 DEF CheckGrant, TypeOK
  <2>2. CASE CheckFails(c) \/ Leaves(c) \/ RequestFails(c)
    BY <2>2, ReturnType DEF CheckFails, Leaves, RequestFails, Ends, TypeOK
  <2>3. CASE ApproveDetails(c)
    <3>1. PICK known \in BOOLEAN :
            calls' = [calls EXCEPT ![c].at = "approve:ask", ![c].known = known]
      BY <2>3 DEF ApproveDetails
    <3>2. [calls[c] EXCEPT !.at = "approve:ask", !.known = known] \in Call
      BY <2>0 DEF Call, Steps, Approving
    <3>3. calls' = [calls EXCEPT ![c] =
                      [calls[c] EXCEPT !.at = "approve:ask", !.known = known]]
      BY <3>1
    <3>. QED  BY <2>3, <3>2, <3>3 DEF ApproveDetails, TypeOK
  <2>4. CASE ApproveAsk(c)
    <3>1. "approve:grant" \in Steps
      BY DEF Steps, Approving
    <3>2. calls' \in [Calls -> Call]
      BY <2>4, <3>1, StepType, ReturnType DEF ApproveAsk
    <3>3. asked' \subseteq Users
      BY <2>4 DEF ApproveAsk, TypeOK
    <3>4. consented' \subseteq Users /\ missed' \subseteq Users
      BY <2>4 DEF ApproveAsk, Miss, TypeOK, WhoKnown, At, Approving
    <3>. QED  BY <2>4, <3>2, <3>3, <3>4 DEF ApproveAsk, TypeOK
  <2>5. CASE ApproveGrant(c)
    <3>1. calls' \in [Calls -> Call]
      BY <2>5, ReturnType DEF ApproveGrant
    <3>2. grant' \in [Users -> Grants] /\ missed' \subseteq Users
      BY <2>5 DEF ApproveGrant, GrantActive, Miss, TypeOK, Grants, WhoKnown, At,
                   Approving
    <3>. QED  BY <2>5, <3>1, <3>2 DEF ApproveGrant, TypeOK, Grants
  <2>6. CASE Administered(c)
    <3>1. calls' \in [Calls -> Call]
      BY <2>6, ReturnType DEF Administered
    <3>. DEFINE u == Who(c)  set == calls[c].set
    <3>2. u \in Users /\ member[u] \in [role : Roles, status : Statuses]
      BY <2>6 DEF Administered, WhoKnown, At, Registered, TypeOK, Row
    <3>3. [member[u] EXCEPT !.role = Given(set.role, @),
                            !.status = Given(set.status, @)] \in Row
      BY <2>0, <3>2, GivenType DEF Row
    <3>4. member' \in [Users -> Row]
      BY <2>6, <3>2, <3>3 DEF Administered, WriteMember, TypeOK
    <3>. QED  BY <2>6, <3>1, <3>4 DEF Administered, TypeOK
  <2>7. CASE Rotated(c)
    <3>1. calls' \in [Calls -> Call]
      BY <2>7, ReturnType DEF Rotated
    <3>2. tokens' \in Seq(TokenStates)
      BY <2>7, TokenTypes DEF Rotated
    <3>. QED  BY <2>7, <3>1, <3>2 DEF Rotated, TypeOK, TokenStates
  <2>. QED  BY <1>4, <2>1, <2>2, <2>3, <2>4, <2>5, <2>6, <2>7 DEF Answer
<1>5. CASE CreateToken \/ RevokeTokens \/ \E n \in DOMAIN tokens : Expire(n)
  <2>1. tokens' \in Seq(TokenStates)
    BY <1>5, TokenTypes DEF CreateToken, RevokeTokens
  <2>. QED  BY <1>5, <2>1
            DEF CreateToken, RevokeTokens, Expire, TypeOK, TokenStates
<1>. QED  BY <1>1, <1>2, <1>3, <1>4, <1>5 DEF Next

(* Nobody loses the row. *)
LEMMA RowsStay ==
  ASSUME TypeOK, WhoKnown, [Next]_vars, NEW u \in Users, member[u] # NoRow
  PROVE  member'[u] # NoRow
<1>. USE DEF people, oauth, ghosts
<1>1. CASE UNCHANGED member
  BY <1>1
<1>2. ASSUME NEW v \in Users, Registers(v)  PROVE member'[u] # NoRow
  <2>1. NewUser(v) # NoRow
    BY DEF NewUser, NoRow
  <2>. QED  BY <1>2, <2>1 DEF Registers, TypeOK
<1>3. ASSUME NEW c \in Calls, Administered(c)  PROVE member'[u] # NoRow
  <2>. DEFINE v == Who(c)  set == calls[c].set
              new == [member[v] EXCEPT !.role = Given(set.role, @),
                                       !.status = Given(set.status, @)]
  <2>1. calls[c] \in Call /\ v \in Users
    BY <1>3 DEF Administered, WhoKnown, At, Registered, TypeOK
  <2>2. member[v] \in [role : Roles, status : Statuses]
    BY <1>3 DEF Administered, WhoKnown, At, Registered, TypeOK, Row
  <2>3. new \in [role : Roles, status : Statuses]
    BY <2>1, <2>2, GivenType
  <2>4. new # NoRow
    BY <2>3 DEF NoRow, Roles, Statuses
  <2>5. member' = [member EXCEPT ![v] = new]
    BY <1>3 DEF Administered, WriteMember
  <2>. HIDE DEF new
  <2>. QED  BY <2>1, <2>4, <2>5 DEF TypeOK
<1>. QED
  BY <1>1, <1>2, <1>3
  DEF Next, vars, Person, Request, Answer, SignUp, SignUpFails, SignIn, SignOut,
      OpenConsent, Deny, Revoke, RevokeGrant, RpcRevoke, UpdateOwn, UserComes,
      ClientComes, TokenComes, Comes, Approve, Administer, Rotate, CheckGrant,
      CheckFails, Leaves, RequestFails, Ends, ApproveDetails, ApproveAsk,
      ApproveGrant, Rotated, CreateToken, RevokeTokens, Expire

(* What becomes of the requests in flight. *)
LEMMA Moves ==
  ASSUME TypeOK, NEW c \in Calls, NEW d \in Calls
  PROVE  /\ Return(c) => calls'[d] = IF d = c THEN Idle ELSE calls[d]
         /\ \A call : Begin(c, call) => calls'[d] = IF d = c THEN call ELSE calls[d]
         /\ \A step : Goto(c, step) =>
              calls'[d] = IF d = c THEN [calls[c] EXCEPT !.at = step] ELSE calls[d]
         /\ \A call, what : Readmit(c, call, what) =>
              calls'[d] = IF d = c THEN call
                          ELSE [calls[d] EXCEPT !.late = @ \ {what}]
  BY DEF TypeOK, Return, Begin, Goto, Readmit

(* What is decided about, and who: what WhoKnown says of one request. *)
Known(call, registered) ==
  /\ call.at \in Approving \cup {"client:grant"} => call.who \in Users
  /\ call.at = "admin:write" => call.who \in registered

LEMMA WhoStep ==
  ASSUME TypeOK, WhoKnown, [Next]_vars
  PROVE  WhoKnown'
<1>. USE DEF people, oauth, ghosts
<1>. SUFFICES ASSUME NEW d \in Calls
              PROVE  Known(calls'[d], Registered')
  BY DEF WhoKnown, Known, Who
<1>1. Known(calls[d], Registered) /\ calls[d] \in Call
  BY DEF WhoKnown, Known, Who, TypeOK
<1>2. Registered \subseteq Registered'
  BY RowsStay DEF Registered
<1>3. ASSUME NEW call, Known(call, Registered)  PROVE Known(call, Registered')
  BY <1>2, <1>3 DEF Known
<1>4. ASSUME NEW call, call.at \in {"idle", "in", "token:insert"}
      PROVE  Known(call, Registered')
  BY <1>4 DEF Known, Approving
<1>5. CASE calls'[d] = calls[d] \/ calls'[d] = Idle
  BY <1>1, <1>3, <1>4, <1>5, IdleType
<1>6. ASSUME NEW c \in Calls, Request(c)  PROVE Known(calls'[d], Registered')
  <2>1. ASSUME NEW u \in Users, ClientComes(c, u)  PROVE Known(calls'[d], Registered')
    <3>. DEFINE late == {Member(u), Grant(u)} \cap told
                call == [[Idle EXCEPT !.at = "client:grant", !.who = u]
                           EXCEPT !.late = late]
    <3>1. Known(call, Registered')
      BY DEF Known, Idle, Approving
    <3>2. calls'[d] = IF d = c THEN call ELSE calls[d]
      BY <2>1, Moves DEF ClientComes, Comes
    <3>. QED  BY <1>5, <3>1, <3>2
  <2>2. ASSUME NEW bearer, Comes(c, bearer, In)  PROVE Known(calls'[d], Registered')
    <3>1. Known([In EXCEPT !.late = bearer \cap told], Registered')
      BY DEF Known, In, Idle, Approving
    <3>2. calls'[d] = IF d = c THEN [In EXCEPT !.late = bearer \cap told] ELSE calls[d]
      BY <2>2, Moves DEF Comes
    <3>. QED  BY <1>5, <3>1, <3>2
  <2>3. CASE \E u \in Users : UserComes(c, u)
    BY <2>2, <2>3 DEF UserComes
  <2>4. CASE \E n \in DOMAIN tokens : TokenComes(c, n)
    BY <2>2, <2>4 DEF TokenComes
  <2>5. ASSUME NEW call, NEW what, Readmit(c, call, what), Known(call, Registered)
        PROVE  Known(calls'[d], Registered')
    <3>1. calls'[d] = IF d = c THEN call ELSE [calls[d] EXCEPT !.late = @ \ {what}]
      BY <2>5, Moves
    <3>2. Known([calls[d] EXCEPT !.late = @ \ {what}], Registered)
      BY <1>1 DEF Known, Call
    <3>. QED  BY <1>3, <2>5, <3>1, <3>2
  <2>6. ASSUME NEW u \in Users, Approve(c, u)  PROVE Known(calls'[d], Registered')
    <3>1. Known([Idle EXCEPT !.at = "approve:details", !.who = u], Registered)
      BY DEF Known, Idle, Approving
    <3>. QED  BY <2>5, <2>6, <3>1 DEF Approve
  <2>7. ASSUME NEW by \in Users, NEW u \in Users, NEW set \in Changes,
               Administer(c, by, u, set)
        PROVE  Known(calls'[d], Registered')
    <3>. DEFINE call == [Idle EXCEPT !.at = "admin:write", !.who = u, !.set = set]
    <3>1. Known(call, Registered)
      BY <2>7 DEF Administer, Known, Idle, Approving
    <3>2. CASE Readmit(c, call, Member(u))
      BY <2>5, <3>1, <3>2
    <3>3. CASE Begin(c, call)
      <4>1. calls'[d] = IF d = c THEN call ELSE calls[d]
        BY <3>3, Moves
      <4>. QED  BY <1>1, <1>3, <3>1, <4>1
    <3>. QED  BY <2>7, <3>2, <3>3 DEF Administer
  <2>8. CASE Rotate(c)
    <3>. DEFINE call == [Idle EXCEPT !.at = "token:insert", !.num = Len(tokens)]
    <3>1. Known(call, Registered')
      BY DEF Known, Idle, Approving
    <3>2. calls'[d] = IF d = c THEN call ELSE calls[d]
      BY <2>8, Moves DEF Rotate
    <3>. QED  BY <1>5, <3>1, <3>2
  <2>. QED  BY <1>6, <2>1, <2>3, <2>4, <2>6, <2>7, <2>8 DEF Request
<1>7. ASSUME NEW c \in Calls, Answer(c)  PROVE Known(calls'[d], Registered')
  <2>1. CASE Return(c)
    BY <1>5, <2>1, Moves
  <2>2. CASE CheckGrant(c)
    <3>1. calls'[d] = calls[d] \/ calls'[d].at = "in"
      BY <1>1, <2>2 DEF CheckGrant, TypeOK, Call
    <3>. QED  BY <1>4, <1>5, <3>1
  <2>3. CASE ApproveDetails(c) \/ (At(c, "approve:ask") /\ Goto(c, "approve:grant"))
    <3>1. \/ calls'[d] = calls[d]
          \/ /\ calls[d].at \in Approving
             /\ calls'[d].at \in Approving /\ calls'[d].who = calls[d].who
      BY <1>1, <2>3 DEF ApproveDetails, Goto, At, Approving, TypeOK, Call
    <3>. QED  BY <1>1, <1>5, <3>1 DEF Known, Approving
  <2>. QED
    BY <1>7, <2>1, <2>2, <2>3
    DEF Answer, CheckFails, Leaves, RequestFails, Ends, ApproveAsk, ApproveGrant,
        Administered, Rotated
<1>8. CASE UNCHANGED calls
  BY <1>5, <1>8
<1>9. ASSUME NEW u \in Users, UpdateOwn(u)  PROVE Known(calls'[d], Registered')
  BY <1>1, <1>2, <1>9, OwnLeaves DEF Known
<1>. QED
  BY <1>6, <1>7, <1>8, <1>9
  DEF Next, vars, Person, SignUp, Registers, SignUpFails, SignIn, SignOut, OpenConsent,
      Deny, Revoke, RevokeGrant, RpcRevoke, CreateToken, RevokeTokens, Expire

LEMMA InitTypes == Init => TypeOK /\ WhoKnown
<1>. SUFFICES ASSUME Init PROVE TypeOK /\ WhoKnown
  OBVIOUS
<1>1. tokens \in Seq({"live", "expired", "revoked"})
  BY DEF Init
<1>. QED
  BY <1>1, IdleType, NoRowType DEF Init, TypeOK, WhoKnown, Who, Idle, Approving

(* Every variable keeps its type, and a request that decides about a user  *)
(* knows which.                                                            *)
THEOREM AccessTypes == Spec => [](TypeOK /\ WhoKnown)
<1>1. Init => TypeOK /\ WhoKnown
  BY InitTypes
<1>2. TypeOK /\ WhoKnown /\ [Next]_vars => (TypeOK /\ WhoKnown)'
  BY TypeStep, WhoStep
<1>. QED  BY <1>1, <1>2, PTL DEF Spec

-----------------------------------------------------------------------------
(* Owners.  SomeOwner is not inductive: that a later user finds somebody   *)
(* registered, and that who registers had no row, is needed.               *)
Founded ==
  \A u \in Users : /\ joining[u] = "later" => Registered # {}
                   /\ joining[u] # "no" => member[u] = NoRow

LEMMA FoundedStep ==
  ASSUME TypeOK, WhoKnown, Founded, SomeOwner, [Next]_vars
  PROVE  Founded' /\ SomeOwner'
<1>. USE DEF people, oauth, ghosts
<1>1. CASE UNCHANGED <<joining, member, changed>>
  BY <1>1 DEF Founded, SomeOwner, Registered
<1>2. ASSUME NEW u \in Users, SignUp(u)  PROVE Founded' /\ SomeOwner'
  BY <1>2 DEF SignUp, IsFirstUser, Founded, SomeOwner, Registered, TypeOK
<1>3. ASSUME NEW u \in Users, SignUpFails(u)  PROVE Founded' /\ SomeOwner'
  BY <1>3 DEF SignUpFails, Founded, SomeOwner, Registered, TypeOK
<1>4. ASSUME NEW u \in Users, Registers(u)  PROVE Founded' /\ SomeOwner'
  <2>1. Registered' # {}
    <3>1. NewUser(u) # NoRow
      BY DEF NewUser, NoRow
    <3>2. member'[u] = NewUser(u)
      BY <1>4 DEF Registers, TypeOK
    <3>. QED  BY <3>1, <3>2 DEF Registered
  <2>2. Founded'
    BY <1>4, <2>1 DEF Registers, Founded, TypeOK
  <2>3. member[u] = NoRow
    BY <1>4 DEF Registers, Founded
  <2>4. CASE joining[u] = "first"
    BY <1>4, <2>2, <2>4 DEF Registers, NewUser, SomeOwner, TypeOK
  <2>5. CASE joining[u] = "later" /\ ~changed
    <3>1. PICK v \in Users : member[v] = [role |-> "owner", status |-> "active"]
      BY <2>5 DEF Founded, SomeOwner
    <3>2. v # u
      BY <2>3, <3>1 DEF NoRow
    <3>. QED  BY <1>4, <2>2, <3>1, <3>2 DEF Registers, SomeOwner, TypeOK
  <2>6. CASE changed
    BY <1>4, <2>2, <2>6 DEF Registers, SomeOwner
  <2>. QED  BY <1>4, <2>2, <2>4, <2>5, <2>6 DEF Registers, TypeOK
<1>5. ASSUME NEW c \in Calls, Administered(c)  PROVE Founded' /\ SomeOwner'
  <2>1. Registered # {} => Registered' # {}
    BY RowsStay DEF Registered
  <2>2. Who(c) \in Registered
    BY <1>5 DEF Administered, WhoKnown, At
  <2>3. \A v \in Users : member[v] = NoRow => member'[v] = NoRow
    BY <1>5, <2>2 DEF Administered, WriteMember, Registered, TypeOK
  <2>. QED  BY <1>5, <2>1, <2>3 DEF Administered, Founded, SomeOwner
<1>. QED
  BY <1>1, <1>2, <1>3, <1>4, <1>5
  DEF Next, vars, Person, Request, Answer, SignIn, SignOut, OpenConsent, Deny,
      Revoke, RevokeGrant, RpcRevoke, UpdateOwn, UserComes, ClientComes, TokenComes,
      Comes, Approve, Administer, Rotate, CheckGrant, CheckFails, Leaves,
      RequestFails, Ends, ApproveDetails, ApproveAsk, ApproveGrant, Rotated,
      CreateToken, RevokeTokens, Expire

(* While no administrator changed a membership there is an active owner as *)
(* soon as there is a user, however registrations overlap.                 *)
THEOREM OwnerExists == Spec => []SomeOwner
<1>1. Init => Founded /\ SomeOwner
  BY DEF Init, Founded, SomeOwner, Registered
<1>2. TypeOK /\ WhoKnown /\ Founded /\ SomeOwner /\ [Next]_vars
        => (Founded /\ SomeOwner)'
  BY FoundedStep
<1>. QED  BY <1>1, <1>2, AccessTypes, PTL DEF Spec

-----------------------------------------------------------------------------
(* Consents.  An approval that is about to be written stays so until it is *)
(* written or fails.                                                       *)
LEMMA Pending ==
  ASSUME TypeOK, [Next]_vars, NEW d \in Calls, At(d, "approve:grant"),
         ~ApproveGrant(d)
  PROVE  At(d, "approve:grant")' /\ Who(d)' = Who(d)
<1>. USE DEF people, oauth, ghosts
<1>. DEFINE Kept == calls'[d].at = calls[d].at /\ calls'[d].who = calls[d].who
<1>0. calls[d] \in Call /\ calls[d].at = "approve:grant"
  BY DEF TypeOK, At
<1>. SUFFICES Kept
  BY <1>0 DEF At, Who
<1>1. CASE calls'[d] = calls[d]
  BY <1>1
<1>2. ASSUME NEW c \in Calls, Request(c)  PROVE Kept
  <2>1. CASE \E call : Begin(c, call)
    BY <1>0, <1>1, <2>1, Moves DEF Begin, At
  <2>2. CASE \E call, what : Readmit(c, call, what)
    <3>1. PICK call, what : Readmit(c, call, what)
      BY <2>2
    <3>2. d # c
      BY <1>0, <3>1 DEF Readmit, At
    <3>3. calls'[d] = [calls[d] EXCEPT !.late = @ \ {what}]
      BY <3>1, <3>2, Moves
    <3>. QED  BY <1>0, <3>3 DEF Call
  <2>. QED
    BY <1>2, <2>1, <2>2
    DEF Request, UserComes, ClientComes, TokenComes, Comes, Approve, Administer, Rotate
<1>3. ASSUME NEW c \in Calls, Answer(c)  PROVE Kept
  <2>1. c # d
    BY <1>0, <1>3
    DEF Answer, CheckGrant, CheckFails, Leaves, ApproveDetails, ApproveAsk,
        Administered, RequestFails, Rotated, At
  <2>2. CASE Return(c) \/ Goto(c, "approve:grant")
    BY <1>1, <2>1, <2>2, Moves
  <2>3. CASE ApproveDetails(c) \/ CheckGrant(c)
    BY <1>1, <2>1, <2>3 DEF ApproveDetails, CheckGrant, TypeOK
  <2>. QED
    BY <1>3, <2>2, <2>3
    DEF Answer, CheckFails, Leaves, ApproveAsk, ApproveGrant, Administered,
        RequestFails, Rotated, Ends
<1>4. CASE UNCHANGED calls
  BY <1>4
<1>5. ASSUME NEW u \in Users, UpdateOwn(u)  PROVE Kept
  BY <1>5, OwnLeaves
<1>. QED
  BY <1>2, <1>3, <1>4, <1>5
  DEF Next, vars, Person, SignUp, Registers, SignUpFails, SignIn, SignOut, OpenConsent,
      Deny, Revoke, RevokeGrant, RpcRevoke, CreateToken, RevokeTokens, Expire

LEMMA ConsentStep ==
  ASSUME TypeOK, WhoKnown, ConsentIsConnected, [Next]_vars
  PROVE  ConsentIsConnected'
<1>. USE DEF people, oauth, ghosts
<1>. DEFINE Shown(u) == grant[u] = "active" \/ grant[u] = "revoked"
            Fine(u) == Shown(u) \/ \E c \in Calls : Who(c) = u /\ At(c, "approve:grant")
<1>. SUFFICES ASSUME NEW u \in consented' \ missed'
              PROVE  Fine(u)'
  BY DEF ConsentIsConnected, Listed
<1>1. u \in consented \ missed => Fine(u)
  BY DEF ConsentIsConnected, Listed
<1>2. ASSUME Fine(u), Shown(u) => Shown(u)', \A c \in Calls : ~ApproveGrant(c)
      PROVE  Fine(u)'
  BY <1>2, Pending
<1>3. ASSUME NEW c \in Calls, ApproveGrant(c)  PROVE Fine(u)'
  <2>1. Who(c) \in Users
    BY <1>3 DEF ApproveGrant, WhoKnown, Approving, At
  <2>2. CASE Who(c) = u
    BY <1>3, <2>1, <2>2 DEF ApproveGrant, GrantActive, Miss, TypeOK
  <2>3. CASE Who(c) # u
    <3>1. u \in consented \ missed
      BY <1>3, <2>3 DEF ApproveGrant, Miss
    <3>2. CASE Shown(u)
      BY <1>3, <2>1, <2>3, <3>2 DEF ApproveGrant, GrantActive, TypeOK
    <3>3. ASSUME NEW d \in Calls, Who(d) = u, At(d, "approve:grant")
          PROVE  Fine(u)'
      <4>1. calls'[d] = calls[d]
        BY <1>3, <2>3, <3>3, Moves DEF ApproveGrant
      <4>. QED  BY <3>3, <4>1 DEF Who, At
    <3>. QED  BY <1>1, <3>1, <3>2, <3>3
  <2>. QED  BY <2>2, <2>3
<1>4. ASSUME NEW c \in Calls, ApproveAsk(c), ~\E e \in Calls : ApproveGrant(e)
      PROVE  Fine(u)'
  <2>1. CASE u \in consented \ missed
    BY <1>1, <1>2, <1>4, <2>1 DEF ApproveAsk
  <2>2. CASE u \notin consented \ missed
    <3>1. Who(c) = u
      BY <1>4, <2>2 DEF ApproveAsk, Miss
    <3>2. CASE Goto(c, "approve:grant")
      <4>1. calls'[c] = [calls[c] EXCEPT !.at = "approve:grant"]
        BY <3>2, Moves
      <4>. QED  BY <3>1, <4>1 DEF Who, At, TypeOK, Call
    <3>3. CASE Miss(u)
      BY <1>4, <3>1, <3>3 DEF Miss, ApproveAsk, TypeOK, WhoKnown, At, Approving
    <3>. QED  BY <1>4, <2>2, <3>1, <3>2, <3>3 DEF ApproveAsk
  <2>. QED  BY <2>1, <2>2
<1>5. ASSUME NEW v \in Users, RevokeGrant(v), ~\E e \in Calls : ApproveGrant(e)
      PROVE  Fine(u)'
  BY <1>1, <1>2, <1>5 DEF RevokeGrant, TypeOK
<1>6. ASSUME NEW v \in Users, UpdateOwn(v), ~\E e \in Calls : ApproveGrant(e)
      PROVE  Fine(u)'
  <2>1. u \in consented \ missed
    BY <1>6 DEF UpdateOwn
  <2>2. Shown(u) => Shown(u)'
    BY <1>6 DEF UpdateOwn, TypeOK
  <2>. QED  BY <1>1, <1>2, <1>6, <2>1, <2>2
<1>7. CASE UNCHANGED <<consented, grant, missed>> /\ ~\E e \in Calls : ApproveGrant(e)
  BY <1>1, <1>2, <1>7
<1>. QED
  BY <1>3, <1>4, <1>5, <1>6, <1>7
  DEF Next, vars, Person, Request, Answer, SignUp, SignUpFails, Registers, SignIn,
      SignOut, OpenConsent, Deny, Revoke, RpcRevoke, UserComes, ClientComes,
      TokenComes, Comes, Approve, Administer, Rotate, CheckGrant, CheckFails,
      Leaves, RequestFails, Ends, ApproveDetails, Administered, Rotated,
      CreateToken, RevokeTokens, Expire

(* A client that Supabase gives tokens to can be revoked on the account    *)
(* page, was revoked or is about to be written, unless an error was        *)
(* swallowed: whatever approvals, denials and revocations overlap.         *)
THEOREM ConsentsAreConnected == Spec => []ConsentIsConnected
<1>1. Init => ConsentIsConnected
  BY DEF Init, ConsentIsConnected
<1>2. TypeOK /\ WhoKnown /\ ConsentIsConnected /\ [Next]_vars => ConsentIsConnected'
  BY ConsentStep
<1>. QED  BY <1>1, <1>2, AccessTypes, PTL DEF Spec

-----------------------------------------------------------------------------
(* Refusals.  Where what a request is after a step comes from.             *)
Same(d) ==
  /\ calls'[d].at = calls[d].at /\ calls'[d].who = calls[d].who
  /\ calls'[d].set = calls[d].set /\ calls'[d].num = calls[d].num
  /\ calls'[d].late \subseteq calls[d].late

Advances(d) ==
  \/ CheckGrant(d) \/ ApproveDetails(d)
  \/ At(d, "approve:ask") /\ Goto(d, "approve:grant") /\ UNCHANGED told

LEMMA Origin ==
  ASSUME TypeOK, [Next]_vars, NEW d \in Calls
  PROVE  Same(d) \/ calls'[d] = Idle \/ Request(d) \/ Advances(d)
<1>. USE DEF people, oauth, ghosts
<1>0. calls[d] \in Call
  BY DEF TypeOK
<1>1. CASE calls'[d] = calls[d]
  BY <1>1 DEF Same
<1>2. ASSUME NEW c \in Calls, c # d, Request(c)  PROVE Same(d)
  <2>1. CASE \E call : Begin(c, call)
    BY <1>1, <1>2, <2>1, Moves DEF Same
  <2>2. CASE \E call, what : Readmit(c, call, what)
    <3>1. PICK call, what : Readmit(c, call, what)
      BY <2>2
    <3>2. calls'[d] = [calls[d] EXCEPT !.late = @ \ {what}]
      BY <1>2, <3>1, Moves
    <3>. QED  BY <1>0, <3>2 DEF Call, Same
  <2>. QED
    BY <1>2, <2>1, <2>2
    DEF Request, UserComes, ClientComes, TokenComes, Comes, Approve, Administer, Rotate
<1>3. ASSUME NEW c \in Calls, Answer(c)
      PROVE  calls'[d] = calls[d] \/ calls'[d] = Idle \/ Advances(d)
  <2>1. CASE Return(c)
    BY <2>1, Moves
  <2>2. CASE ApproveDetails(c) \/ CheckGrant(c)
    <3>1. c # d => calls'[d] = calls[d]
      BY <2>2 DEF ApproveDetails, CheckGrant, TypeOK
    <3>. QED  BY <2>2, <3>1 DEF Advances
  <2>3. CASE At(c, "approve:ask") /\ Goto(c, "approve:grant") /\ UNCHANGED told
    BY <2>3, Moves DEF Advances
  <2>. QED
    BY <1>3, <2>1, <2>2, <2>3
    DEF Answer, CheckFails, Leaves, ApproveAsk, ApproveGrant, Administered,
        RequestFails, Rotated, Ends
<1>4. CASE UNCHANGED calls
  BY <1>1, <1>4
<1>5. ASSUME NEW u \in Users, UpdateOwn(u)  PROVE Same(d)
  BY <1>5, OwnLeaves DEF Same
<1>. QED
  BY <1>1, <1>2, <1>3, <1>4, <1>5
  DEF Next, vars, Person, SignUp, Registers, SignUpFails, SignIn, SignOut, OpenConsent,
      Deny, Revoke, RevokeGrant, RpcRevoke, CreateToken, RevokeTokens, Expire

(* A member told to be out is out, and nobody is about to readmit them. *)
MemberOut ==
  \A u \in Users : Member(u) \in told =>
    /\ member[u] # NoRow /\ member[u].status # "active"
    /\ \A d \in Calls :
         At(d, "admin:write") /\ Who(d) = u => calls[d].set.status # "active"

(* A connection told to be revoked is, and nobody is about to approve it.  *)
GrantOut ==
  \A u \in Users : Grant(u) \in told =>
    /\ grant[u] # "active"
    /\ \A d \in Calls : calls[d].at \in Approving => Who(d) # u

(* Neither is a token live that was told to be revoked, nor one that a     *)
(* rotation is about to tell so.                                           *)
Dead(n) == n \in DOMAIN tokens /\ tokens[n] # "live"
TokenOut ==
  /\ \A n \in Nat : Token(n) \in told => Dead(n)
  /\ \A d \in Calls : At(d, "token:insert") => \A n \in 1..calls[d].num : Dead(n)

(* What came late is known to be out, and the check of a client's grant    *)
(* has only that left to find out.                                         *)
LateKnown ==
  \A d \in Calls :
    /\ calls[d].late \subseteq told
    /\ At(d, "client:grant") => calls[d].late \subseteq {Grant(Who(d))}
    /\ At(d, "in") => calls[d].late = {}

LEMMA ToldFrom ==
  ASSUME [Next]_vars, NEW x, x \in told' \ told
  PROVE  \/ \E u \in Users : RevokeGrant(u) /\ x = Grant(u)
         \/ \E c \in Calls : Administered(c) /\ x = Member(Who(c))
         \/ RevokeTokens /\ \E n \in DOMAIN tokens : x = Token(n)
         \/ \E c \in Calls : Rotated(c) /\ \E n \in 1..calls[c].num : x = Token(n)
<1>. USE DEF people, oauth, ghosts
<1>1. ASSUME NEW u \in Users, Person(u)  PROVE RevokeGrant(u) /\ x = Grant(u)
  BY <1>1
  DEF Person, SignUp, SignUpFails, Registers, SignIn, SignOut, OpenConsent, Deny,
      Revoke, RpcRevoke, RevokeGrant, UpdateOwn, Readmitted
<1>2. ASSUME NEW c \in Calls, Request(c)  PROVE FALSE
  BY <1>2
  DEF Request, UserComes, ClientComes, TokenComes, Comes, Approve, Administer,
      Readmit, Rotate
<1>3. ASSUME NEW c \in Calls, Answer(c)
      PROVE  \/ Administered(c) /\ x = Member(Who(c))
             \/ Rotated(c) /\ \E n \in 1..calls[c].num : x = Token(n)
  <2>1. CASE Administered(c)
    BY <2>1 DEF Administered
  <2>2. CASE Rotated(c)
    BY <2>2 DEF Rotated
  <2>. QED
    BY <1>3, <2>1, <2>2
    DEF Answer, CheckGrant, CheckFails, Leaves, RequestFails, Ends, ApproveDetails,
        ApproveAsk, ApproveGrant
<1>4. CASE CreateToken \/ RevokeTokens \/ \E n \in DOMAIN tokens : Expire(n)
  BY <1>4 DEF CreateToken, RevokeTokens, Expire
<1>. QED  BY <1>1, <1>2, <1>3, <1>4 DEF Next, vars

LEMMA MemberOutStep ==
  ASSUME TypeOK, WhoKnown, Founded, MemberOut, [Next]_vars
  PROVE  MemberOut'
<1>. USE DEF people, oauth, ghosts
<1>. DEFINE Quiet(u) == \A d \in Calls :
              At(d, "admin:write") /\ Who(d) = u => calls[d].set.status # "active"
<1>. SUFFICES ASSUME NEW u \in Users, Member(u) \in told'
              PROVE  member'[u] # NoRow /\ member'[u].status # "active" /\ Quiet(u)'
  BY DEF MemberOut, Member
<1>1. ASSUME NEW c \in Calls, Administered(c), Who(c) = u
      PROVE  member'[u] # NoRow /\ member'[u].status # "active" /\ Quiet(u)'
  <2>. DEFINE status == calls[c].set.status
  <2>1. \A d \in Calls : calls'[d] = IF d = c THEN Idle ELSE calls[d]
    BY <1>1, Moves DEF Administered
  <2>2. Member(u) \in told \/ (status \notin {"none", "active"} /\ ~Readmitting(u))
    BY <1>1 DEF Administered
  <2>3. At(c, "admin:write") /\ u \in Registered /\ member[u] # NoRow
    BY <1>1 DEF Administered, WhoKnown, At, Registered
  <2>4. Quiet(u)'
    <3>1. Quiet(u)
      BY <2>2 DEF MemberOut, Readmitting
    <3>. QED  BY <2>1, <3>1, IdleType DEF At, Who
  <2>5. member'[u].status = Given(status, member[u].status)
    BY <1>1, <2>3 DEF Administered, WriteMember, TypeOK, Row, Registered
  <2>6. status # "active" /\ (status = "none" => member[u].status # "active")
    BY <1>1, <2>2, <2>3 DEF MemberOut
  <2>. QED  BY <2>3, <2>4, <2>5, <2>6, RowsStay DEF Given
<1>2. ASSUME ~\E c \in Calls : Administered(c) /\ Who(c) = u
      PROVE  member'[u] # NoRow /\ member'[u].status # "active" /\ Quiet(u)'
  <2>1. Member(u) \in told
    <3>1. \A v \in Users : Member(u) # Grant(v)
      BY DEF Member, Grant
    <3>2. \A n : Member(u) # Token(n)
      BY DEF Member, Token
    <3>3. \A v : Member(u) = Member(v) => u = v
      BY DEF Member
    <3>. QED  BY <1>2, <3>1, <3>2, <3>3, ToldFrom
  <2>2. member[u] # NoRow /\ member[u].status # "active" /\ Quiet(u)
    BY <2>1 DEF MemberOut
  <2>3. joining[u] = "no"
    BY <2>2 DEF Founded
  <2>4. member'[u] = member[u]
    <3>1. ASSUME NEW v \in Users, Registers(v)  PROVE member'[u] = member[u]
      BY <2>3, <3>1 DEF Registers, TypeOK
    <3>2. ASSUME NEW c \in Calls, Administered(c)  PROVE member'[u] = member[u]
      BY <1>2, <3>2 DEF Administered, WriteMember, TypeOK
    <3>. QED
      BY <3>1, <3>2
      DEF Next, vars, Person, Request, Answer, SignUp, SignUpFails, SignIn, SignOut,
          OpenConsent, Deny, Revoke, RevokeGrant, RpcRevoke, UpdateOwn, UserComes,
          ClientComes, TokenComes, Comes, Approve, Administer, Rotate, CheckGrant,
          CheckFails, Leaves, RequestFails, Ends, ApproveDetails, ApproveAsk,
          ApproveGrant, Rotated, CreateToken, RevokeTokens, Expire
  <2>5. ASSUME NEW d \in Calls, At(d, "admin:write")', Who(d)' = u
        PROVE  calls'[d].set.status # "active"
    <3>1. CASE Same(d)
      BY <2>2, <2>5, <3>1 DEF Same, At, Who
    <3>2. CASE calls'[d] = Idle
      BY <2>5, <3>2, IdleType DEF At
    <3>3. CASE Advances(d)
      BY <2>5, <3>3 DEF Advances, CheckGrant, ApproveDetails, Goto, At, TypeOK, Call
    <3>4. CASE Request(d)
      <4>1. ASSUME NEW call, Begin(d, call) \/ \E what : Readmit(d, call, what)
            PROVE  calls'[d] = call
        BY <4>1, Moves
      <4>2. PICK by \in Users, v \in Users, set \in Changes : Administer(d, by, v, set)
        BY <2>5, <3>4, <4>1
        DEF Request, UserComes, ClientComes, TokenComes, Comes, Approve, Rotate, At, In,
            Idle
      <4>. DEFINE call == [Idle EXCEPT !.at = "admin:write", !.who = v, !.set = set]
      <4>3. calls'[d] = call
        BY <4>1, <4>2 DEF Administer
      <4>4. call.who = v /\ call.set = set
        BY DEF Idle
      <4>5. u = v
        BY <2>5, <4>3, <4>4 DEF Who
      <4>6. set.status = "active" => told' = told \ {Member(u)}
        BY <4>2, <4>5 DEF Administer, Readmit
      <4>. QED  BY <4>3, <4>4, <4>6
    <3>. QED  BY <3>1, <3>2, <3>3, <3>4, Origin
  <2>. QED  BY <2>2, <2>4, <2>5
<1>. QED  BY <1>1, <1>2

LEMMA GrantOutStep ==
  ASSUME TypeOK, WhoKnown, GrantOut, [Next]_vars
  PROVE  GrantOut'
<1>. USE DEF people, oauth, ghosts
<1>. DEFINE Quiet(u) == \A d \in Calls : calls[d].at \in Approving => Who(d) # u
<1>. SUFFICES ASSUME NEW u \in Users, Grant(u) \in told'
              PROVE  grant'[u] # "active" /\ Quiet(u)'
  BY DEF GrantOut, Grant
<1>1. ASSUME RevokeGrant(u)  PROVE grant'[u] # "active" /\ Quiet(u)'
  <2>1. Quiet(u)
    BY <1>1 DEF RevokeGrant, GrantOut
  <2>2. Quiet(u)'
    BY <1>1, <2>1 DEF RevokeGrant, Who
  <2>. QED  BY <1>1, <2>2 DEF RevokeGrant, TypeOK
<1>2. ASSUME ~RevokeGrant(u)  PROVE grant'[u] # "active" /\ Quiet(u)'
  <2>1. Grant(u) \in told
    <3>1. \A v : Grant(u) # Member(v) /\ Grant(u) # Token(v)
      BY DEF Member, Grant, Token
    <3>2. \A v : Grant(u) = Grant(v) => u = v
      BY DEF Grant
    <3>. QED  BY <1>2, <3>1, <3>2, ToldFrom
  <2>2. grant[u] # "active" /\ Quiet(u)
    BY <2>1 DEF GrantOut
  <2>3. grant'[u] # "active"
    <3>1. ASSUME NEW v \in Users, RevokeGrant(v)  PROVE grant'[u] # "active"
      BY <1>2, <2>2, <3>1 DEF RevokeGrant, TypeOK
    <3>2. ASSUME NEW c \in Calls, ApproveGrant(c)  PROVE grant'[u] # "active"
      <4>1. Who(c) # u
        BY <2>2, <3>2 DEF ApproveGrant, At, Approving
      <4>. QED  BY <2>2, <3>2, <4>1 DEF ApproveGrant, GrantActive, TypeOK
    <3>3. ASSUME NEW v \in Users, UpdateOwn(v)  PROVE grant'[u] # "active"
      <4>1. CASE v = u
        <5>1. ~Readmitted(Grant(u))
          BY DEF Readmitted
        <5>. QED  BY <3>3, <4>1, <5>1 DEF UpdateOwn, TypeOK
      <4>2. CASE v # u
        BY <2>2, <3>3, <4>2 DEF UpdateOwn, TypeOK
      <4>. QED  BY <4>1, <4>2
    <3>. QED
      BY <2>2, <3>1, <3>2, <3>3
      DEF Next, vars, Person, Request, Answer, SignUp, SignUpFails, Registers, SignIn,
          SignOut, OpenConsent, Deny, Revoke, RpcRevoke, UserComes, ClientComes,
          TokenComes, Comes, Approve, Administer, Rotate, CheckGrant, CheckFails,
          Leaves, RequestFails, Ends, ApproveDetails, ApproveAsk, Administered,
          Rotated, CreateToken, RevokeTokens, Expire
  <2>4. ASSUME NEW d \in Calls, calls'[d].at \in Approving, Who(d)' = u
        PROVE  FALSE
    <3>1. CASE Same(d)
      BY <2>2, <2>4, <3>1 DEF Same, Who
    <3>2. CASE calls'[d] = Idle
      BY <2>4, <3>2, IdleType DEF Approving
    <3>3. CASE Advances(d)
      BY <2>2, <2>4, <3>3
      DEF Advances, CheckGrant, ApproveDetails, Goto, At, Who, Approving, TypeOK, Call
    <3>4. CASE Request(d)
      <4>1. ASSUME NEW call, Begin(d, call) \/ \E what : Readmit(d, call, what)
            PROVE  calls'[d] = call
        BY <4>1, Moves
      <4>2. PICK v \in Users : Approve(d, v)
        <5>1. calls'[d].at \notin {"in", "client:grant", "admin:write", "token:insert"}
          BY <2>4 DEF Approving
        <5>2. ASSUME NEW w \in Users, UserComes(d, w) \/ ClientComes(d, w)
              PROVE  FALSE
          BY <4>1, <5>1, <5>2 DEF UserComes, ClientComes, Comes, In, Idle
        <5>3. ASSUME NEW n \in DOMAIN tokens, TokenComes(d, n)  PROVE FALSE
          BY <4>1, <5>1, <5>3 DEF TokenComes, Comes, In, Idle
        <5>4. ASSUME NEW by \in Users, NEW w \in Users, NEW set \in Changes,
                     Administer(d, by, w, set)
              PROVE  FALSE
          BY <4>1, <5>1, <5>4 DEF Administer, Idle
        <5>5. CASE Rotate(d)
          BY <4>1, <5>1, <5>5 DEF Rotate, Idle
        <5>. QED  BY <3>4, <5>2, <5>3, <5>4, <5>5 DEF Request
      <4>3. calls'[d] = [Idle EXCEPT !.at = "approve:details", !.who = v]
        BY <4>1, <4>2 DEF Approve
      <4>4. u = v
        BY <2>4, <4>3 DEF Who, Idle
      <4>. QED  BY <4>2, <4>4 DEF Approve, Readmit
    <3>. QED  BY <3>1, <3>2, <3>3, <3>4, Origin
  <2>. QED  BY <2>2, <2>3, <2>4
<1>. QED  BY <1>1, <1>2

(* What is dead stays dead. *)
LEMMA DeadStays ==
  ASSUME TypeOK, [Next]_vars, NEW n, Dead(n)
  PROVE  Dead(n)'
<1>. USE DEF people, oauth, ghosts
<1>0. /\ DOMAIN tokens = 1..Len(tokens) /\ Len(tokens) \in Nat
      /\ tokens \in Seq(TokenStates)
  BY TokenTypes
<1>1. CASE UNCHANGED tokens
  BY <1>1 DEF Dead
<1>2. CASE RevokeAll
  BY <1>2 DEF RevokeAll, Dead
<1>3. CASE Insert
  BY <1>0, <1>3, AppendProperties DEF Insert, Dead
<1>4. ASSUME NEW m \in DOMAIN tokens, Expire(m)  PROVE Dead(n)'
  BY <1>4 DEF Expire, Dead
<1>. QED
  BY <1>1, <1>2, <1>3, <1>4
  DEF Next, vars, Person, Request, Answer, SignUp, SignUpFails, Registers, SignIn,
      SignOut, OpenConsent, Deny, Revoke, RevokeGrant, RpcRevoke, UpdateOwn,
      UserComes, ClientComes, TokenComes, Comes, Approve, Administer, Rotate,
      CheckGrant, CheckFails, Leaves, RequestFails, Ends, ApproveDetails,
      ApproveAsk, ApproveGrant, Administered, Rotated, CreateToken, RevokeTokens

LEMMA TokenOutStep ==
  ASSUME TypeOK, TokenOut, [Next]_vars
  PROVE  TokenOut'
<1>. USE DEF people, oauth, ghosts
<1>1. ASSUME NEW n \in Nat, Token(n) \in told'  PROVE Dead(n)'
  <2>1. CASE Token(n) \in told
    BY <2>1, DeadStays DEF TokenOut
  <2>2. CASE Token(n) \notin told
    <3>1. \A v : Token(n) # Member(v) /\ Token(n) # Grant(v)
      BY DEF Member, Grant, Token
    <3>2. \A m : Token(n) = Token(m) => n = m
      BY DEF Token
    <3>3. CASE RevokeTokens /\ n \in DOMAIN tokens
      BY <3>3 DEF RevokeTokens, RevokeAll, Dead
    <3>4. ASSUME NEW c \in Calls, Rotated(c), n \in 1..calls[c].num  PROVE Dead(n)'
      BY <3>4, DeadStays DEF TokenOut, Rotated
    <3>. QED  BY <1>1, <2>2, <3>1, <3>2, <3>3, <3>4, ToldFrom
  <2>. QED  BY <2>1, <2>2
<1>2. ASSUME NEW d \in Calls, At(d, "token:insert")', NEW n \in 1..calls'[d].num
      PROVE  Dead(n)'
  <2>1. CASE Same(d)
    BY <1>2, <2>1, DeadStays DEF TokenOut, Same, At
  <2>2. CASE calls'[d] = Idle
    BY <1>2, <2>2, IdleType DEF At
  <2>3. CASE Advances(d)
    BY <1>2, <2>3 DEF Advances, CheckGrant, ApproveDetails, Goto, At, TypeOK, Call
  <2>4. CASE Request(d)
    <3>1. ASSUME NEW call, Begin(d, call) \/ \E what : Readmit(d, call, what)
          PROVE  calls'[d] = call
      BY <3>1, Moves
    <3>2. Rotate(d)
      BY <1>2, <2>4, <3>1
      DEF Request, UserComes, ClientComes, TokenComes, Comes, Approve, Administer, At,
          In, Idle
    <3>3. calls'[d].num = Len(tokens)
      BY <3>1, <3>2 DEF Rotate, Idle
    <3>. QED  BY <3>2, <3>3, TokenTypes DEF Rotate, RevokeAll, Dead
  <2>. QED  BY <2>1, <2>2, <2>3, <2>4, Origin
<1>. QED  BY <1>1, <1>2 DEF TokenOut

LEMMA LateStep ==
  ASSUME TypeOK, WhoKnown, MemberOut, GrantOut, TokenOut, LateKnown, [Next]_vars
  PROVE  LateKnown'
<1>. USE DEF people, oauth, ghosts
<1>. DEFINE Fine(call, out) ==
              /\ call.late \subseteq out
              /\ call.at = "client:grant" => call.late \subseteq {Grant(call.who)}
              /\ call.at = "in" => call.late = {}
<1>. SUFFICES ASSUME NEW d \in Calls
              PROVE  Fine(calls'[d], told')
  BY DEF LateKnown, At, Who
<1>1. Fine(calls[d], told) /\ calls[d] \in Call
  BY DEF LateKnown, At, Who, TypeOK
<1>2. ASSUME NEW c \in Calls, NEW call, NEW what, Readmit(c, call, what),
             call.late = {}
      PROVE  Fine(calls'[d], told')
  <2>1. calls'[d] = IF d = c THEN call ELSE [calls[d] EXCEPT !.late = @ \ {what}]
    BY <1>2, Moves
  <2>2. Fine([calls[d] EXCEPT !.late = @ \ {what}], told \ {what})
    BY <1>1 DEF Call
  <2>. QED  BY <1>2, <2>1, <2>2 DEF Readmit
<1>3. CASE \E c \in Calls, u \in Users : Approve(c, u)
  BY <1>2, <1>3 DEF Approve, Idle
<1>4. ASSUME NEW c \in Calls, NEW by \in Users, NEW u \in Users, NEW set \in Changes,
             Administer(c, by, u, set), set.status = "active"
      PROVE  Fine(calls'[d], told')
  <2>. DEFINE call == [Idle EXCEPT !.at = "admin:write", !.who = u, !.set = set]
  <2>1. call.late = {}
    BY DEF Idle
  <2>. QED  BY <1>2, <1>4, <2>1 DEF Administer
<1>5. ASSUME NEW u \in Users, Readmitted(Grant(u))  PROVE Fine(calls'[d], told')
  <2>1. calls'[d] = [calls[d] EXCEPT !.late = @ \ {Grant(u)}]
    BY <1>5 DEF Readmitted
  <2>2. Fine([calls[d] EXCEPT !.late = @ \ {Grant(u)}], told \ {Grant(u)})
    BY <1>1 DEF Call
  <2>. QED  BY <1>5, <2>1, <2>2 DEF Readmitted
<1>6. CASE /\ ~\E c \in Calls, u \in Users : Approve(c, u)
           /\ ~\E u \in Users : Readmitted(Grant(u))
           /\ ~\E c \in Calls, by, u \in Users, set \in Changes :
                 Administer(c, by, u, set) /\ set.status = "active"
  <2>1. told \subseteq told'
    <3>1. ASSUME NEW u \in Users, Person(u)  PROVE told \subseteq told'
      BY <1>6, <3>1
      DEF Person, SignUp, SignUpFails, Registers, SignIn, SignOut, OpenConsent, Deny,
          Revoke, RevokeGrant, RpcRevoke, UpdateOwn
    <3>2. ASSUME NEW c \in Calls, Request(c)  PROVE told \subseteq told'
      BY <1>6, <3>2
      DEF Request, UserComes, ClientComes, TokenComes, Comes, Administer, Rotate
    <3>3. ASSUME NEW c \in Calls, Answer(c)  PROVE told \subseteq told'
      BY <3>3
      DEF Answer, CheckGrant, CheckFails, Leaves, RequestFails, Ends, ApproveDetails,
          ApproveAsk, ApproveGrant, Administered, Rotated
    <3>. QED
      BY <3>1, <3>2, <3>3 DEF Next, vars, CreateToken, RevokeTokens, Expire
  <2>2. CASE Same(d)
    BY <1>1, <2>1, <2>2 DEF Same
  <2>3. CASE calls'[d] = Idle
    BY <2>3, IdleType
  <2>4. CASE Advances(d)
    <3>1. CASE CheckGrant(d)
      <4>1. Grant(Who(d)) \notin told
        BY <3>1 DEF CheckGrant, IsConnected, GrantOut, WhoKnown, At
      <4>2. calls[d].late = {}
        BY <1>1, <3>1, <4>1 DEF CheckGrant, At, Who
      <4>. QED  BY <1>1, <3>1, <4>2 DEF CheckGrant, TypeOK, Call
    <3>2. CASE ApproveDetails(d) \/ Goto(d, "approve:grant")
      <4>1. CASE ApproveDetails(d)
        <5>1. calls'[d].late = calls[d].late /\ calls'[d].at = "approve:ask"
          BY <1>1, <4>1 DEF ApproveDetails, TypeOK, Call
        <5>. QED  BY <1>1, <2>1, <5>1
      <4>2. CASE Goto(d, "approve:grant")
        <5>1. calls'[d].late = calls[d].late /\ calls'[d].at = "approve:grant"
          BY <1>1, <4>2 DEF Goto, TypeOK, Call
        <5>. QED  BY <1>1, <2>1, <5>1
      <4>. QED  BY <3>2, <4>1, <4>2
    <3>. QED  BY <2>4, <3>1, <3>2 DEF Advances
  <2>5. CASE Request(d)
    <3>1. ASSUME NEW call, Begin(d, call)  PROVE calls'[d] = call
      BY <3>1, Moves
    <3>2. ASSUME NEW bearer, Comes(d, bearer, In), bearer \cap told = {}
          PROVE  Fine(calls'[d], told')
      BY <3>1, <3>2 DEF Comes, In, Idle
    <3>3. ASSUME NEW u \in Users, UserComes(d, u)  PROVE Fine(calls'[d], told')
      BY <3>2, <3>3 DEF UserComes, IsMember, MemberOut
    <3>4. ASSUME NEW n \in DOMAIN tokens, TokenComes(d, n)  PROVE Fine(calls'[d], told')
      <4>1. n \in Nat
        BY TokenTypes
      <4>. QED  BY <3>2, <3>4, <4>1 DEF TokenComes, TokenOut, Dead
    <3>5. ASSUME NEW u \in Users, ClientComes(d, u)  PROVE Fine(calls'[d], told')
      <4>. DEFINE late == {Member(u), Grant(u)} \cap told
                  call == [[Idle EXCEPT !.at = "client:grant", !.who = u]
                             EXCEPT !.late = late]
      <4>1. calls'[d] = call /\ told' = told
        BY <3>1, <3>5 DEF ClientComes, Comes
      <4>2. Member(u) \notin told
        BY <3>5 DEF ClientComes, IsMember, MemberOut
      <4>3. call.late = late /\ call.at = "client:grant" /\ call.who = u
        BY DEF Idle
      <4>. QED  BY <4>1, <4>2, <4>3
    <3>6. CASE Rotate(d)
      BY <3>1, <3>6 DEF Rotate, Idle
    <3>7. ASSUME NEW by \in Users, NEW u \in Users, NEW set \in Changes,
                 Administer(d, by, u, set)
          PROVE  Fine(calls'[d], told')
      <4>. DEFINE call == [Idle EXCEPT !.at = "admin:write", !.who = u, !.set = set]
      <4>1. calls'[d] = call
        BY <1>6, <3>1, <3>7 DEF Administer
      <4>2. call.late = {} /\ call.at = "admin:write"
        BY DEF Idle
      <4>. QED  BY <4>1, <4>2
    <3>. QED  BY <1>6, <2>5, <3>3, <3>4, <3>5, <3>6, <3>7 DEF Request
  <2>. QED  BY <2>2, <2>3, <2>4, <2>5, Origin
<1>. QED  BY <1>3, <1>4, <1>6, <1>5

(* Nobody who was told to be out before a request came is let in with it,  *)
(* until somebody begins to readmit them: an administrator, the user who   *)
(* approves again, or, for a connection, any token of the user that sets   *)
(* the grant active at Supabase, one of the revoked client's included.     *)
(* For any number of users, administrators, requests and tokens.           *)
THEOREM LateNeverIn == Spec => []LateIsRefused
<1>. DEFINE Inv == Founded /\ SomeOwner /\ MemberOut /\ GrantOut /\ TokenOut /\
LateKnown
<1>1. Init => Inv
  <2>1. Init => Founded /\ SomeOwner
    BY DEF Init, Founded, SomeOwner, Registered
  <2>. QED
    BY <2>1 DEF Init, MemberOut, GrantOut, TokenOut, LateKnown, At, Idle
<1>2. TypeOK /\ WhoKnown /\ Inv /\ [Next]_vars => Inv'
  BY FoundedStep, MemberOutStep, GrantOutStep, TokenOutStep, LateStep
<1>3. Inv => LateIsRefused
  BY DEF LateKnown, LateIsRefused
<1>. QED  BY <1>1, <1>2, <1>3, AccessTypes, PTL DEF Spec
=============================================================================
