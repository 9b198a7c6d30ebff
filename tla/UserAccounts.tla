---------------------------- MODULE UserAccounts ----------------------------
(***************************************************************************)
(* Accounts, the admin role and sessions in the user service.  A session   *)
(* is a pair of signed tokens nobody can take back: the access token says  *)
(* what its bearer may do until it expires, the refresh token buys another *)
(* pair, after a look at the account.  Requests are judged by the token    *)
(* and run side by side; each database statement is a step of one, so what *)
(* a request has read (an unsuspended account, an unused invite) may have  *)
(* changed when it acts on it.                                             *)
(***************************************************************************)
EXTENDS FiniteSets

CONSTANTS Users,    \* those who may register
          Invites,  \* invite codes that may be generated
          Requests, \* requests in progress at the same time
          NoRow,    \* no row of userRole gives the admin role
          NoInvite  \* the sourceInviteId of a row an admin assigned

Sources == Invites \cup {NoInvite}

ASSUME AccountAssumption == NoRow \notin Sources /\ NoInvite \notin Invites

VARIABLES registered, \* table user
          suspended,  \* isSuspended
          adminRow,   \* the row of userRole for the admin role of each user: its sourceInviteId
          codes,      \* table adminInviteCode
          expired,    \* codes past their expiresAt
          access,     \* access tokens that have not expired
          refresh,    \* users with a refresh token
          req         \* the requests

vars == <<registered, suspended, adminRow, codes, expired, access, refresh, req>>
tables == <<registered, suspended, adminRow, codes, expired>>
tokens == <<access, refresh>>

Token == [user: Users, admin: BOOLEAN]
Changes == {"assign", "remove", "suspend", "unsuspend"}
Idle == [step |-> "idle"]
Request == {Idle}
           \cup [step: {"issue"}, user: Users, admin: BOOLEAN]
           \cup [step: {"check", "insert"}, user: Users, code: Invites]
           \cup [step: Changes, user: Users]

TypeOK ==
    /\ registered \subseteq Users /\ suspended \subseteq registered
    /\ adminRow \in [Users -> Sources \cup {NoRow}]
    /\ expired \subseteq codes /\ codes \subseteq Invites
    /\ access \subseteq Token /\ refresh \subseteq Users
    /\ req \in [Requests -> Request]

Init ==
    /\ registered = {} /\ suspended = {}
    /\ adminRow = [u \in Users |-> NoRow]
    /\ codes = {} /\ expired = {}
    /\ access = {} /\ refresh = {}
    /\ req = [r \in Requests |-> Idle]

IsAdmin(u) == adminRow[u] # NoRow
Proceed(r, next) == req' = [req EXCEPT ![r] = next]
Starts(r, next) == req[r] = Idle /\ Proceed(r, next)
Ends(r) == Proceed(r, Idle)

-----------------------------------------------------------------------------
(* Sessions *)

\* One transaction: the account, its default roles and the event user.registered.  A second
\* registration of the email fails on the unique column.
Register(u) ==
    /\ u \notin registered
    /\ registered' = registered \cup {u}
    /\ UNCHANGED <<suspended, adminRow, codes, expired, tokens, req>>

Issuing(u, admin) == [step |-> "issue", user |-> u, admin |-> admin]

\* login reads the account, then spends its time on the password.  A wrong password and an
\* account that was suspended when it was read end the request.
Login(r, u) ==
    /\ u \in registered \ suspended
    /\ Starts(r, Issuing(u, IsAdmin(u)))
    /\ UNCHANGED <<tables, tokens>>

\* Mutant: a refresh does not look at the suspension.
RefreshableUnchecked(u) == TRUE

Refreshable(u) == u \notin suspended
Granted(u) == IsAdmin(u)

\* refreshToken reads the account again; the token itself only says who it is.
Refresh(r, u) ==
    /\ u \in refresh /\ Refreshable(u)
    /\ Starts(r, Issuing(u, Granted(u)))
    /\ UNCHANGED <<tables, tokens>>

\* generateJwtTokenPair
Issue(r) ==
    /\ req[r].step = "issue"
    /\ access' = access \cup {[user |-> req[r].user, admin |-> req[r].admin]}
    /\ refresh' = refresh \cup {req[r].user}
    /\ Ends(r)
    /\ UNCHANGED tables

\* A refresh token may last as long as it takes.
AccessExpires(t) == access' = access \ {t} /\ UNCHANGED <<tables, refresh, req>>

-----------------------------------------------------------------------------
(* What admins do, by their token *)

\* updateUserRole and updateUserSuspension: an admin changes somebody else.
BeginChange(r, t, change, u) ==
    /\ t.admin /\ t.user # u /\ u \in registered
    /\ Starts(r, [step |-> change, user |-> u])
    /\ UNCHANGED <<tables, tokens>>

\* assignRoles: an upsert, which leaves a row that is there alone.
Assigned(u) == IF IsAdmin(u) THEN adminRow ELSE [adminRow EXCEPT ![u] = NoInvite]

\* removeRoles: the row goes, and with it the mark that a code was used.
Removed(u) == [adminRow EXCEPT ![u] = NoRow]

Change(r) ==
    /\ req[r].step \in Changes
    /\ LET u == req[r].user IN
       /\ adminRow' = CASE req[r].step = "assign" -> Assigned(u)
                        [] req[r].step = "remove" -> Removed(u)
                        [] OTHER                  -> adminRow
       /\ suspended' = CASE req[r].step = "suspend"   -> suspended \cup {u}
                         [] req[r].step = "unsuspend" -> suspended \ {u}
                         [] OTHER                     -> suspended
    /\ Ends(r)
    /\ UNCHANGED <<registered, codes, expired, tokens>>

-----------------------------------------------------------------------------
(* Invites *)

\* The private route and the command line.
GenerateInvite(i) ==
    /\ i \notin codes
    /\ codes' = codes \cup {i}
    /\ UNCHANGED <<registered, suspended, adminRow, expired, tokens, req>>

InviteExpires(i) ==
    /\ i \notin expired
    /\ expired' = expired \cup {i}
    /\ UNCHANGED <<registered, suspended, adminRow, codes, tokens, req>>

Used(i) == \E u \in Users : adminRow[u] = i

\* acceptInviteCode: the code exists and has not expired when it is read.
ReadInvite(r, t, i) ==
    /\ ~t.admin /\ i \in codes \ expired
    /\ Starts(r, [step |-> "check", user |-> t.user, code |-> i])
    /\ UNCHANGED <<tables, tokens>>

\* INSERT ... SELECT ... WHERE NOT EXISTS: the condition is decided on a snapshot ...
CheckInvite(r) ==
    /\ req[r].step = "check"
    /\ IF IsAdmin(req[r].user) \/ Used(req[r].code) THEN Ends(r)
       ELSE Proceed(r, [req[r] EXCEPT !.step = "insert"])
    /\ UNCHANGED <<tables, tokens>>

\* ... and the row then meets the key (userId, roleId) and the unique column sourceInviteId.
Conflict(u, i) == IsAdmin(u) \/ Used(i)

InsertRow(r) ==
    /\ req[r].step = "insert"
    /\ LET u == req[r].user
           i == req[r].code
       IN  IF Conflict(u, i) THEN UNCHANGED adminRow
           ELSE adminRow' = [adminRow EXCEPT ![u] = i]
    /\ Ends(r)
    /\ UNCHANGED <<registered, suspended, codes, expired, tokens>>

-----------------------------------------------------------------------------
Advance(r) == Issue(r) \/ Change(r) \/ CheckInvite(r) \/ InsertRow(r)

Begin(r) ==
    \/ \E u \in Users : Login(r, u) \/ Refresh(r, u)
    \/ \E t \in access, u \in Users, change \in Changes : BeginChange(r, t, change, u)
    \/ \E t \in access, i \in Invites : ReadInvite(r, t, i)

Next ==
    \/ \E u \in Users : Register(u)
    \/ \E r \in Requests : Begin(r) \/ Advance(r)
    \/ \E t \in access : AccessExpires(t)
    \/ \E i \in Invites : GenerateInvite(i)
    \/ \E i \in codes : InviteExpires(i)

Spec == Init /\ [][Next]_vars

\* Requests are served and access tokens expire.  Nobody has to sign in, refresh or sign out.
Fairness ==
    /\ \A r \in Requests : WF_vars(Advance(r))
    /\ \A t \in Token : WF_vars(t \in access /\ AccessExpires(t))

FairSpec == Spec /\ Fairness

-----------------------------------------------------------------------------
(* What an account has lost for good is gone in the end.  user-service/README.md:62-66: login *)
(* and refresh check the suspension, access tokens stay usable until they expire, so who      *)
(* stays suspended is without a session, the login that read the account before the           *)
(* suspension included.  And who has lost the admin role is without a token that claims it,   *)
(* although tokens are judged without a look at the account and refreshed for ever            *)
(* (refreshToken, authenticationMiddleware).                                                  *)
LostRightsFade ==
    \A u \in Users :
        /\ <>[](u \in suspended) => <>[](\A t \in access : t.user # u)
        /\ <>[](~IsAdmin(u)) => <>[]([user |-> u, admin |-> TRUE] \notin access)
=============================================================================
