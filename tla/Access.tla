------------------------------- MODULE Access -------------------------------
(***************************************************************************)
(* Who is let into the controller, where it has a database: the bearer     *)
(* check of POST /mcp (src/src/controller/auth.ts), the consent, account   *)
(* and administration routes (app.ts) with the scripts of their pages      *)
(* (ui.ts), the trigger on new users (migrations/0003), and the token      *)
(* commands of the operator (scripts/auth-cli.ts).                         *)
(*                                                                         *)
(* Supabase keeps users, authorizations and consents and is external: an   *)
(* authorization that is asked of a user who has consented before is       *)
(* approved at once.  It also serves the tables to any token of a user,    *)
(* one of the OAuth client's included: the policies and functions of       *)
(* migrations/0002 say what such a token may do to the user's own rows.    *)
(* There is one OAuth client, one token identifier, and one authorization  *)
(* a user has not decided yet.  Each later query of a request and each     *)
(* request to Supabase is a step, and may fail; the first query is one     *)
(* with the request's arrival, as the program does nothing between them.   *)
(* What only adds rows nobody here reads (audit events, policies,          *)
(* profiles, times of last use) is left out.                               *)
(***************************************************************************)
EXTENDS Naturals, Sequences

CONSTANTS
  Users,
  Calls,        \* HTTP requests and commands in flight
  NewRoles,     \* what administrators set
  NewStatuses,
  Nobody,       \* no user
  MaxTokens     \* bound of the instance: tokens ever created

Roles == {"owner", "admin", "developer", "viewer"}
Statuses == {"invited", "active", "suspended", "revoked"}

ASSUME NobodyAssumption == Nobody \notin Users
ASSUME ChangeAssumption == NewRoles \subseteq Roles /\ NewStatuses \subseteq Statuses
ASSUME TokenAssumption == MaxTokens \in Nat

VARIABLES
  joining,    \* open transactions on auth.users: what the trigger decided
  member,     \* runtime_memberships, a row for each user there is
  cookie,     \* whose browser has a session cookie that is valid
  asked,      \* users with an authorization they have not decided
  consented,  \* users Supabase has a consent of, so the client has a token
  grant,      \* mcp_user_client_grants: status
  tokens,     \* tokens: what the row of each says
  calls,      \* the requests and commands in flight
  told,       \* ghost: what someone was told to be out, and nobody readmits
  missed,     \* ghost: users without a row, where an error was swallowed or
              \* whose own token took the row away
  changed     \* ghost: an administrator has changed a membership

people == <<joining, member, cookie>>
oauth == <<asked, consented, grant>>
ghosts == <<told, missed, changed>>
vars == <<people, oauth, tokens, calls, ghosts>>

NoRow == [role |-> "none", status |-> "none"]
Row == [role : Roles, status : Statuses] \cup {NoRow}
Registered == {u \in Users : member[u] # NoRow}

Approving == {"approve:details", "approve:ask", "approve:grant"}
Steps == Approving \cup {"idle", "in", "client:grant", "admin:write", "token:insert"}

(* Who can be told to be out, with what it is let in by. *)
Member(u) == <<"member", u>>
Grant(u) == <<"grant", u>>
Token(n) == <<"token", n>>

(* who: the user of a request or one an administrator changes; known:      *)
(* whether the details name the client; set: the new role and status, or  *)
(* "none"; num: the tokens a rotation has revoked; late (ghost): what was  *)
(* told to be out when the request came and was not readmitted since.      *)
Call == [at : Steps, who : Users \cup {Nobody}, known : BOOLEAN, num : Nat,
         set : [role : Roles \cup {"none"}, status : Statuses \cup {"none"}],
         late : SUBSET ({"member", "grant", "token"} \X (Users \cup Nat))]
Idle == [at |-> "idle", who |-> Nobody, known |-> FALSE, num |-> 0,
         set |-> NoRow, late |-> {}]

Init ==
  /\ joining = [u \in Users |-> "no"]
  /\ member = [u \in Users |-> NoRow]
  /\ cookie = {}
  /\ asked = {} /\ consented = {} /\ grant = [u \in Users |-> "none"]
  /\ tokens = <<>>
  /\ calls = [c \in Calls |-> Idle]
  /\ told = {} /\ missed = {} /\ changed = FALSE

At(c, step) == calls[c].at = step
Who(c) == calls[c].who
Begin(c, call) == At(c, "idle") /\ calls' = [calls EXCEPT ![c] = call]
Goto(c, step) == calls' = [calls EXCEPT ![c].at = step]
Return(c) == calls' = [calls EXCEPT ![c] = Idle]

(* Whoever begins to readmit ends what was told, for requests on their way *)
(* as well.                                                                *)
Readmit(c, call, what) ==
  /\ At(c, "idle")
  /\ calls' = [d \in Calls |-> IF d = c THEN call
                               ELSE [calls[d] EXCEPT !.late = @ \ {what}]]
  /\ told' = told \ {what}

Readmitted(what) ==
  /\ calls' = [d \in Calls |-> [calls[d] EXCEPT !.late = @ \ {what}]]
  /\ told' = told \ {what}

-----------------------------------------------------------------------------
(* Users.  The trigger runs inside the transaction that adds the user and  *)
(* sees no user of another open transaction.                               *)

(* Mutant: the new user's own row, which is there already, counts too.     *)
NeverFirst(u) == FALSE
IsFirstUser(u) == Registered = {}

SignUp(u) ==
  /\ member[u] = NoRow /\ joining[u] = "no"
  /\ joining' = [joining EXCEPT ![u] = IF IsFirstUser(u) THEN "first" ELSE "later"]
  /\ UNCHANGED <<member, cookie, oauth, tokens, calls, ghosts>>

NewUser(u) ==
  IF joining[u] = "first" THEN [role |-> "owner", status |-> "active"]
                          ELSE [role |-> "viewer", status |-> "invited"]

Registers(u) ==
  /\ joining[u] # "no"
  /\ joining' = [joining EXCEPT ![u] = "no"]
  /\ member' = [member EXCEPT ![u] = NewUser(u)]
  /\ UNCHANGED <<cookie, oauth, tokens, calls, ghosts>>

SignUpFails(u) ==
  /\ joining[u] # "no"
  /\ joining' = [joining EXCEPT ![u] = "no"]
  /\ UNCHANGED <<member, cookie, oauth, tokens, calls, ghosts>>

(* POST /api/auth/session puts Supabase's session into a cookie. *)
PostSession(u) == cookie' = cookie \cup {u}

(* The sign-in page, with a password or a link. *)
SignIn(u) ==
  /\ u \in Registered \ cookie
  /\ PostSession(u)
  /\ UNCHANGED <<joining, member, oauth, tokens, calls, ghosts>>

(* POST /logout, or the hour of the cookie is over. *)
SignOut(u) ==
  /\ u \in cookie
  /\ cookie' = cookie \ {u}
  /\ UNCHANGED <<joining, member, oauth, tokens, calls, ghosts>>

-----------------------------------------------------------------------------
(* createAuthMiddleware on a request to /mcp.  A query that fails answers  *)
(* 500, or has the token compared with the master's.                       *)
Comes(c, bearer, call) ==
  /\ Begin(c, [call EXCEPT !.late = bearer \cap told])
  /\ UNCHANGED <<people, oauth, tokens, ghosts>>
In == [Idle EXCEPT !.at = "in"]

IsMember(u) == member[u].status = "active"
UserComes(c, u) == IsMember(u) /\ Comes(c, {Member(u)}, In)
ClientComes(c, u) ==
  /\ u \in consented /\ IsMember(u)
  /\ Comes(c, {Member(u), Grant(u)}, [Idle EXCEPT !.at = "client:grant", !.who = u])
TokenComes(c, n) == tokens[n] = "live" /\ Comes(c, {Token(n)}, In)

Ends(c) == Return(c) /\ UNCHANGED <<people, oauth, tokens, ghosts>>

(* Mutant: any row is a connection. *)
HasGrantRow(u) == grant[u] # "none"
IsConnected(u) == grant[u] = "active"
CheckGrant(c) ==
  /\ At(c, "client:grant")
  /\ IsConnected(Who(c))
  /\ calls' = [calls EXCEPT ![c].at = "in", ![c].who = Nobody]
  /\ UNCHANGED <<people, oauth, tokens, ghosts>>

(* The request is refused, or has been answered. *)
CheckFails(c) == At(c, "client:grant") /\ Ends(c)
Leaves(c) == At(c, "in") /\ Ends(c)

-----------------------------------------------------------------------------
(* GET /oauth/consent: the user sees the page, unless Supabase has a       *)
(* consent and redirects at once.                                          *)
OpenConsent(u) ==
  /\ u \in cookie \ consented
  /\ asked' = asked \cup {u}
  /\ UNCHANGED <<people, consented, grant, tokens, calls, ghosts>>

(* GET /oauth/consent/approve *)
Approve(c, u) ==
  /\ u \in cookie \cap asked
  /\ Readmit(c, [Idle EXCEPT !.at = "approve:details", !.who = u], Grant(u))
  /\ UNCHANGED <<people, oauth, tokens, missed, changed>>

(* The details name the client, unless the user has consented since.  That *)
(* they cannot be read is not looked at.                                   *)
ApproveDetails(c) ==
  /\ At(c, "approve:details")
  /\ \E known \in BOOLEAN :
       /\ known => Who(c) \notin consented
       /\ calls' = [calls EXCEPT ![c].at = "approve:ask", ![c].known = known]
  /\ UNCHANGED <<people, oauth, tokens, ghosts>>

Miss(u) == missed' = IF grant[u] = "none" THEN missed \cup {u} ELSE missed

ApproveAsk(c) ==
  LET u == Who(c)
  IN  /\ At(c, "approve:ask")
      /\ \/ /\ u \in asked
            /\ asked' = asked \ {u} /\ consented' = consented \cup {u}
            /\ \/ calls[c].known /\ Goto(c, "approve:grant") /\ UNCHANGED missed
               \/ Return(c) /\ Miss(u)
         \/ Return(c) /\ UNCHANGED <<asked, consented, missed>>
      /\ UNCHANGED <<people, grant, tokens, told, changed>>

(* Mutant: a row that is not there is not inserted. *)
GrantUpdate(u) == grant' = [grant EXCEPT ![u] = IF @ = "none" THEN @ ELSE "active"]
GrantActive(u) == grant' = [grant EXCEPT ![u] = "active"]

ApproveGrant(c) ==
  /\ At(c, "approve:grant")
  /\ \/ GrantActive(Who(c)) /\ missed' = missed \ {Who(c)}
     \/ UNCHANGED grant /\ Miss(Who(c))
  /\ Return(c)
  /\ UNCHANGED <<people, asked, consented, tokens, told, changed>>

(* GET /oauth/consent/deny *)
Deny(u) ==
  /\ u \in cookie \cap asked
  /\ asked' = asked \ {u}
  /\ UNCHANGED <<people, consented, grant, tokens, calls, ghosts>>

(* GET /account lists what can be revoked. *)
Listed(u) == grant[u] = "active"

(* A revocation of the grant: while the same user also approves, either may *)
(* come first.                                                             *)
RevokeGrant(u) ==
  /\ grant' = [grant EXCEPT ![u] = IF @ = "none" THEN @ ELSE "revoked"]
  /\ told' = IF \E c \in Calls : Who(c) = u /\ calls[c].at \in Approving
             THEN told ELSE told \cup {Grant(u)}
  /\ UNCHANGED <<people, asked, consented, tokens, calls, missed, changed>>

(* POST /api/oauth/connections/:clientId/revoke *)
Revoke(u) == u \in cookie /\ RevokeGrant(u)

(* At Supabase, with any token of the user: the function that revokes, and *)
(* what the policy grants_update_own lets be written to the row.  A status *)
(* of "denied", which nothing else writes and nobody tells from "revoked", *)
(* stands for that, and a row made another client's is none of this one's. *)
RpcRevoke(u) == u \in Registered /\ RevokeGrant(u)

UpdateOwn(u) ==
  /\ u \in Registered /\ grant[u] # "none"
  /\ \E status \in {"none", "active", "revoked"} :
       /\ grant' = [grant EXCEPT ![u] = status]
       /\ missed' = IF status = "none" THEN missed \cup {u} ELSE missed
       /\ \/ status = "active" /\ Readmitted(Grant(u))
          \/ status # "active" /\ UNCHANGED <<calls, told>>
  /\ UNCHANGED <<people, asked, consented, tokens, changed>>

-----------------------------------------------------------------------------
(* POST /api/admin/users/:userId/membership: a role, a status or both.     *)
Changes == [role : NewRoles \cup {"none"}, status : NewStatuses \cup {"none"}] \ {NoRow}

MayAdminister(u) == member[u].role \in {"owner", "admin"}
Administer(c, by, u, set) ==
  LET call == [Idle EXCEPT !.at = "admin:write", !.who = u, !.set = set]
  IN  /\ by \in cookie /\ MayAdminister(by) /\ u \in Registered
      /\ \/ set.status = "active" /\ Readmit(c, call, Member(u))
         \/ set.status # "active" /\ Begin(c, call) /\ UNCHANGED told
      /\ UNCHANGED <<people, oauth, tokens, missed, changed>>

Given(value, old) == IF value = "none" THEN old ELSE value
WriteMember(u, set) ==
  member' = [member EXCEPT ![u].role = Given(set.role, @),
                           ![u].status = Given(set.status, @)]

Readmitting(u) ==
  \E d \in Calls : Who(d) = u /\ At(d, "admin:write") /\ calls[d].set.status = "active"

Administered(c) ==
  LET u == Who(c)
      out == calls[c].set.status \notin {"none", "active"} /\ ~Readmitting(u)
  IN  /\ At(c, "admin:write")
      /\ WriteMember(u, calls[c].set)
      /\ changed' = TRUE
      /\ told' = IF out THEN told \cup {Member(u)} ELSE told
      /\ Return(c)
      /\ UNCHANGED <<joining, cookie, oauth, tokens, missed>>

(* A query that fails, and changes nothing.                                *)
RequestFails(c) ==
  calls[c].at \in {"admin:write", "token:insert"} /\ Ends(c)

-----------------------------------------------------------------------------
(* auth-cli: create, revoke and rotate the tokens of one identifier.       *)
Insert == Len(tokens) < MaxTokens /\ tokens' = Append(tokens, "live")

CreateToken ==
  Insert /\ UNCHANGED <<people, oauth, calls, ghosts>>

RevokeAll == tokens' = [n \in DOMAIN tokens |-> "revoked"]

RevokeTokens ==
  /\ tokens # <<>>
  /\ RevokeAll
  /\ told' = told \cup {Token(n) : n \in DOMAIN tokens}
  /\ UNCHANGED <<people, oauth, calls, missed, changed>>

Rotate(c) ==
  /\ RevokeAll
  /\ Begin(c, [Idle EXCEPT !.at = "token:insert", !.num = Len(tokens)])
  /\ UNCHANGED <<people, oauth, ghosts>>

Rotated(c) ==
  /\ At(c, "token:insert")
  /\ Insert
  /\ told' = told \cup {Token(n) : n \in 1..calls[c].num}
  /\ Return(c)
  /\ UNCHANGED <<people, oauth, missed, changed>>

Expire(n) ==
  /\ tokens[n] = "live"
  /\ tokens' = [tokens EXCEPT ![n] = "expired"]
  /\ UNCHANGED <<people, oauth, calls, ghosts>>

-----------------------------------------------------------------------------
Person(u) ==
  \/ SignUp(u) \/ Registers(u) \/ SignUpFails(u) \/ SignIn(u) \/ SignOut(u)
  \/ OpenConsent(u) \/ Deny(u) \/ Revoke(u) \/ RpcRevoke(u) \/ UpdateOwn(u)

Request(c) ==
  \/ \E u \in Users : UserComes(c, u) \/ ClientComes(c, u) \/ Approve(c, u)
  \/ \E n \in DOMAIN tokens : TokenComes(c, n)
  \/ \E by, u \in Users, set \in Changes : Administer(c, by, u, set)
  \/ Rotate(c)

Answer(c) ==
  \/ CheckGrant(c) \/ CheckFails(c) \/ Leaves(c)
  \/ ApproveDetails(c) \/ ApproveAsk(c) \/ ApproveGrant(c)
  \/ Administered(c) \/ RequestFails(c) \/ Rotated(c)

Next ==
  \/ \E u \in Users : Person(u)
  \/ \E c \in Calls : Request(c) \/ Answer(c)
  \/ CreateToken \/ RevokeTokens \/ \E n \in DOMAIN tokens : Expire(n)

Spec == Init /\ [][Next]_vars

-----------------------------------------------------------------------------
TypeOK ==
  /\ joining \in [Users -> {"no", "first", "later"}]
  /\ member \in [Users -> Row]
  /\ cookie \subseteq Users
  /\ asked \subseteq Users /\ consented \subseteq Users
  /\ grant \in [Users -> {"none", "active", "revoked"}]
  /\ tokens \in Seq({"live", "expired", "revoked"})
  /\ calls \in [Calls -> Call]
  /\ missed \subseteq Users /\ changed \in BOOLEAN

(* After a user was told that a connection is revoked, an administrator    *)
(* that a member is suspended, or the operator that a token is, no request *)
(* that comes with it is let in until somebody begins to readmit it: the   *)
(* user who approves again, an administrator, or, for a connection, any    *)
(* token of the user that updates the row at Supabase, which one of the    *)
(* revoked client's is as well.                                            *)
LateIsRefused == \A c \in Calls : At(c, "in") => calls[c].late = {}

(* While no membership was ever changed, there is an active owner as soon  *)
(* as there is a user, however registrations overlap or fail.              *)
SomeOwner ==
  Registered # {} /\ ~changed =>
    \E u \in Users : member[u] = [role |-> "owner", status |-> "active"]

(* A client that Supabase gives tokens to is on the account page of the    *)
(* user who approved it, where it can be revoked, or was revoked, or is    *)
(* about to be written, unless an error was swallowed or the user's own    *)
(* token has the row name another client.                                  *)
ConsentIsConnected ==
  \A u \in consented \ missed :
    \/ Listed(u) \/ grant[u] = "revoked"
    \/ \E c \in Calls : Who(c) = u /\ At(c, "approve:grant")
=============================================================================
