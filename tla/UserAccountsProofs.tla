------------------------- MODULE UserAccountsProofs -------------------------
(***************************************************************************)
(* What holds of accounts and roles for any users, invites and requests.   *)
(* The condition a request checked before it inserts its row plays no part  *)
(* in the argument that an invite makes one admin: the unique column does.    *)
(* That only existing accounts are suspended is not inductive by itself: a *)
(* request acts later than it looked, so it must be kept in mind that its  *)
(* account existed then, and that accounts are never deleted.              *)
(***************************************************************************)
EXTENDS UserAccounts, TLAPS

ChangesAreOfAccounts == \A r \in Requests : req[r].step \in Changes => req[r].user \in registered

\* The rows that a code accounts for, at one moment.
OneAdminAtATime ==
    \A u, v \in Users : adminRow[u] \in Invites /\ adminRow[u] = adminRow[v] => u = v

Inv == TypeOK /\ OneAdminAtATime /\ ChangesAreOfAccounts

\* What a request may become.
LEMMA RequestTypes ==
    /\ Idle \in Request
    /\ \A u \in Users, admin \in BOOLEAN : Issuing(u, admin) \in Request
    /\ \A u \in Users, change \in Changes : [step |-> change, user |-> u] \in Request
    /\ \A u \in Users, i \in Invites, step \in {"check", "insert"} :
           [step |-> step, user |-> u, code |-> i] \in Request
    BY DEF Request, Idle, Issuing

LEMMA Proceeding ==
    ASSUME req \in [Requests -> Request], NEW r \in Requests, NEW next \in Request,
           Proceed(r, next)
    PROVE  req' \in [Requests -> Request]
    BY DEF Proceed

\* A request that goes on leaves those of the others to be about the accounts they are about.
LEMMA ProceedingKeeps ==
    ASSUME req \in [Requests -> Request], ChangesAreOfAccounts, NEW r \in Requests,
           NEW next, Proceed(r, next), registered \subseteq registered',
           next.step \in Changes => next.user \in registered'
    PROVE  ChangesAreOfAccounts'
    BY DEF Proceed, ChangesAreOfAccounts

\* Whatever a request is about can be told from its step.
LEMMA RequestParts ==
    ASSUME NEW q \in Request
    PROVE  /\ q.step = "issue" => q.user \in Users /\ q.admin \in BOOLEAN
           /\ q.step \in {"check", "insert"} =>
                  /\ q.user \in Users /\ q.code \in Invites
                  /\ q = [step |-> q.step, user |-> q.user, code |-> q.code]
           /\ q.step \in Changes => q.user \in Users
    BY DEF Request, Idle, Changes

\* Only the insertion of a row can make a second admin of an invite.
LEMMA OthersKeepOne ==
    ASSUME OneAdminAtATime, NEW u \in Users,
           adminRow \in [Users -> Sources \cup {NoRow}],
           \/ adminRow' = adminRow
           \/ adminRow' = [adminRow EXCEPT ![u] = NoInvite]
           \/ adminRow' = [adminRow EXCEPT ![u] = NoRow]
    PROVE  OneAdminAtATime' /\ adminRow' \in [Users -> Sources \cup {NoRow}]
    BY AccountAssumption DEF OneAdminAtATime, Sources

LEMMA InitInv == Init => Inv
    BY AccountAssumption, RequestTypes
       DEF Init, Inv, TypeOK, OneAdminAtATime, ChangesAreOfAccounts, Idle, Changes, Sources

LEMMA StepInv == Inv /\ [Next]_vars => Inv'
<1> SUFFICES ASSUME Inv, [Next]_vars PROVE Inv'
  OBVIOUS
<1> USE DEF Inv
<1>0. req \in [Requests -> Request]
  BY DEF TypeOK
<1>1. CASE UNCHANGED vars
  BY <1>1 DEF vars, tables, tokens, TypeOK, OneAdminAtATime, ChangesAreOfAccounts
<1>2. ASSUME NEW u \in Users, Register(u) PROVE Inv'
  BY <1>2 DEF Register, tokens, TypeOK, OneAdminAtATime, ChangesAreOfAccounts
<1>3. ASSUME NEW r \in Requests, NEW u \in Users, Login(r, u) \/ Refresh(r, u) PROVE Inv'
  <2>1. PICK admin \in BOOLEAN : Proceed(r, Issuing(u, admin))
    BY <1>3 DEF Login, Refresh, Granted, IsAdmin, Starts
  <2>2. Issuing(u, admin) \in Request
    BY RequestTypes
  <2>3. req' \in [Requests -> Request]
    BY <1>0, <2>1, <2>2, Proceeding
  <2>4. ChangesAreOfAccounts'
    BY <1>0, <1>3, <2>1, ProceedingKeeps DEF Login, Refresh, tables, Issuing, Changes
  <2> QED BY <1>3, <2>3, <2>4 DEF Login, Refresh, tables, tokens, TypeOK, OneAdminAtATime
<1>4. ASSUME NEW r \in Requests, NEW t \in access, NEW u \in Users, NEW change \in Changes,
             BeginChange(r, t, change, u)
      PROVE  Inv'
  <2>1. [step |-> change, user |-> u] \in Request
    BY RequestTypes
  <2>2. req' \in [Requests -> Request]
    BY <1>0, <1>4, <2>1, Proceeding DEF BeginChange, Starts
  <2>3. ChangesAreOfAccounts'
    BY <1>0, <1>4, ProceedingKeeps DEF BeginChange, Starts, tables
  <2> QED BY <1>4, <2>2, <2>3 DEF BeginChange, tables, tokens, TypeOK, OneAdminAtATime
<1>5. ASSUME NEW r \in Requests, NEW t \in access, NEW i \in Invites, ReadInvite(r, t, i)
      PROVE  Inv'
  <2>1. t.user \in Users
    BY DEF TypeOK, Token
  <2>2. [step |-> "check", user |-> t.user, code |-> i] \in Request
    BY <2>1, RequestTypes
  <2>3. req' \in [Requests -> Request]
    BY <1>0, <1>5, <2>2, Proceeding DEF ReadInvite, Starts
  <2>4. ChangesAreOfAccounts'
    BY <1>0, <1>5, ProceedingKeeps DEF ReadInvite, Starts, tables, Changes
  <2> QED BY <1>5, <2>3, <2>4 DEF ReadInvite, tables, tokens, TypeOK, OneAdminAtATime
<1>6. ASSUME NEW r \in Requests, Issue(r) PROVE Inv'
  <2>1. req' \in [Requests -> Request]
    BY <1>0, <1>6, Proceeding, RequestTypes DEF Issue, Ends
  <2>2. req[r].user \in Users /\ req[r].admin \in BOOLEAN
    BY <1>0, <1>6, RequestParts DEF Issue
  <2>3. [user |-> req[r].user, admin |-> req[r].admin] \in Token
    BY <2>2 DEF Token
  <2>4. ChangesAreOfAccounts'
    BY <1>0, <1>6, ProceedingKeeps DEF Issue, Ends, tables, Idle, Changes
  <2> QED BY <1>6, <2>1, <2>2, <2>3, <2>4 DEF Issue, tables, TypeOK, OneAdminAtATime
<1>7. ASSUME NEW r \in Requests, Change(r) PROVE Inv'
  <2>1. req' \in [Requests -> Request]
    BY <1>0, <1>7, Proceeding, RequestTypes DEF Change, Ends
  <2>2. req[r].user \in Users
    BY <1>0, <1>7, RequestParts DEF Change
  <2>3. OneAdminAtATime' /\ adminRow' \in [Users -> Sources \cup {NoRow}]
    <3>1. \/ adminRow' = adminRow
          \/ adminRow' = [adminRow EXCEPT ![req[r].user] = NoInvite]
          \/ adminRow' = [adminRow EXCEPT ![req[r].user] = NoRow]
      BY <1>7 DEF Change, Assigned, Removed
    <3> QED BY <2>2, <3>1, OthersKeepOne DEF TypeOK
  <2>4. suspended' \subseteq registered'
    <3>1. /\ registered' = registered /\ req[r].user \in registered
          /\ suspended' \in {suspended, suspended \cup {req[r].user},
                             suspended \ {req[r].user}}
      BY <1>7 DEF Change, ChangesAreOfAccounts
    <3> QED BY <3>1 DEF TypeOK
  <2>5. ChangesAreOfAccounts'
    BY <1>0, <1>7, ProceedingKeeps DEF Change, Ends, Idle, Changes
  <2> QED BY <1>7, <2>1, <2>3, <2>4, <2>5 DEF Change, tokens, TypeOK
<1>8. ASSUME NEW r \in Requests, CheckInvite(r) PROVE Inv'
  <2>1. [req[r] EXCEPT !.step = "insert"] \in Request
    <3>1. /\ req[r].user \in Users /\ req[r].code \in Invites
          /\ req[r] = [step |-> "check", user |-> req[r].user, code |-> req[r].code]
      BY <1>0, <1>8, RequestParts DEF CheckInvite
    <3>2. [req[r] EXCEPT !.step = "insert"]
              = [step |-> "insert", user |-> req[r].user, code |-> req[r].code]
      BY <3>1
    <3> QED BY <3>1, <3>2, RequestTypes
  <2>2. req' \in [Requests -> Request]
    BY <1>0, <1>8, <2>1, Proceeding, RequestTypes DEF CheckInvite, Ends
  <2>3. ChangesAreOfAccounts'
    <3>1. CASE Proceed(r, Idle)
      BY <1>0, <1>8, <3>1, ProceedingKeeps DEF CheckInvite, Idle, tables, Changes
    <3>2. CASE Proceed(r, [req[r] EXCEPT !.step = "insert"])
      <4>1. [req[r] EXCEPT !.step = "insert"].step = "insert"
        BY <1>0, <1>8, RequestParts DEF CheckInvite
      <4> QED BY <1>0, <1>8, <3>2, <4>1, ProceedingKeeps DEF CheckInvite, tables, Changes
    <3> QED BY <1>8, <3>1, <3>2 DEF CheckInvite, Ends
  <2> QED BY <1>8, <2>2, <2>3 DEF CheckInvite, tables, tokens, TypeOK, OneAdminAtATime
<1>9. ASSUME NEW r \in Requests, InsertRow(r) PROVE Inv'
  <2>1. req' \in [Requests -> Request]
    BY <1>0, <1>9, Proceeding, RequestTypes DEF InsertRow, Ends
  <2>2. req[r].user \in Users /\ req[r].code \in Invites
    BY <1>0, <1>9, RequestParts DEF InsertRow
  <2>3. OneAdminAtATime' /\ adminRow' \in [Users -> Sources \cup {NoRow}]
    <3>1. CASE adminRow' = adminRow
      BY <3>1 DEF TypeOK, OneAdminAtATime
    <3>2. CASE /\ ~Conflict(req[r].user, req[r].code)
               /\ adminRow' = [adminRow EXCEPT ![req[r].user] = req[r].code]
      <4>1. \A u \in Users : adminRow[u] # req[r].code
        BY <3>2 DEF Conflict, Used
      <4> QED BY <2>2, <3>2, <4>1 DEF TypeOK, OneAdminAtATime, Sources
    <3> QED BY <1>9, <3>1, <3>2 DEF InsertRow
  <2>4. ChangesAreOfAccounts'
    BY <1>0, <1>9, ProceedingKeeps DEF InsertRow, Ends, Idle, Changes
  <2> QED BY <1>9, <2>1, <2>3, <2>4 DEF InsertRow, tokens, TypeOK
<1>10. ASSUME NEW t \in access, AccessExpires(t) PROVE Inv'
  BY <1>10 DEF AccessExpires, tables, TypeOK, OneAdminAtATime, ChangesAreOfAccounts
<1>11. ASSUME NEW i \in Invites, GenerateInvite(i) PROVE Inv'
  BY <1>11 DEF GenerateInvite, tokens, TypeOK, OneAdminAtATime, ChangesAreOfAccounts
<1>12. ASSUME NEW i \in codes, InviteExpires(i) PROVE Inv'
  BY <1>12 DEF InviteExpires, tokens, TypeOK, OneAdminAtATime, ChangesAreOfAccounts
<1> QED BY <1>1, <1>2, <1>3, <1>4, <1>5, <1>6, <1>7, <1>8, <1>9, <1>10, <1>11, <1>12
        DEF Next, Begin, Advance

LEMMA InvHolds == Spec => []Inv
    BY InitInv, StepInv, PTL DEF Spec

\* Accounts, roles and requests keep their types; only accounts that exist are suspended
\* (controller/auth.ts, controller/user.ts, prisma/roles.ts).
THEOREM AccountsTyped == Spec => []TypeOK
<1>1. Inv => TypeOK
  BY DEF Inv
<1> QED BY <1>1, InvHolds, PTL

\* However many redeem one code at the same moment, one of them becomes admin by it: of any
\* number of requests whose condition held, one inserts its row (assignAdminByInvite in
\* prisma/roles.ts).  It says nothing of a code redeemed again after its row was removed.
THEOREM InviteMakesOneAdmin == Spec => []OneAdminAtATime
<1>1. Inv => OneAdminAtATime
  BY DEF Inv
<1> QED BY <1>1, InvHolds, PTL
=============================================================================
