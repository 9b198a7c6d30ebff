------------------------------ MODULE WebProofs ------------------------------
(***************************************************************************)
(* What holds in a browser tab for any users, calls, requests and faults.  *)
(*                                                                         *)
(* Part 1, WebSession.  Whatever is left to do has somebody who will do    *)
(* it.  That is not inductive by itself: the access token of nobody in     *)
(* particular could expire, or a refresh for nobody could be waited for.   *)
(* The strengthening is that stored tokens are always somebody's.          *)
(*                                                                         *)
(* Part 2, WebPages.  That a list that is not loading shows its query, and *)
(* that a draft becomes one errand, are both about requests still under    *)
(* way: the one a list waits for asks for the list's query unless a search *)
(* is being typed, and the key and the draft that a request carries belong *)
(* together.                                                               *)
(***************************************************************************)
EXTENDS WebSession, WebPages, TLAPS

--------------------------------------------------------------------------
(* Part 1.  The session. *)

TokensAreSomebodys == tokens = NoTokens \/ tokens.user \in Users

SessionTypes == SessionTypeOK /\ TokensAreSomebodys

\* What somebody must still attend to has somebody who will: the router, a refresh, a call.
NothingForgotten ==
  /\ screen = "app" /\ tokens = NoTokens => leaving
  /\ \A c \in Calls : calls[c].pc = "waits" => refresh["shared"] # Nobody
  /\ credits.loading # Nobody <=> calls[CreditCall].pc # "none"

SessionInv == SessionTypes /\ NothingForgotten

\* What a call becomes by being sent, and the balance it leaves, keep their types.
LEMMA CallTypes ==
  ASSUME NEW retried \in BOOLEAN, NEW token \in [user: Users \cup {Nobody}, fresh: BOOLEAN]
  PROVE  /\ Sent(retried, token) \in [pc: {"none", "sent", "waits"}, fresh: BOOLEAN, retried: BOOLEAN]
         /\ NoCall \in [pc: {"none", "sent", "waits"}, fresh: BOOLEAN, retried: BOOLEAN]
  BY DEF Sent, NoCall

LEMMA BalanceTypes ==
  ASSUME SessionTypeOK, NEW ok \in BOOLEAN
  PROVE  Loaded(ok) \in [owner: Users \cup {Nobody}, loading: Users \cup {Nobody}]
  BY DEF SessionTypeOK, Loaded

\* Tokens are stored for somebody.
LEMMA TokensOf ==
  ASSUME NEW u \in Users, SetTokens(u)
  PROVE  /\ tokens' \in [user: Users \cup {Nobody}, fresh: BOOLEAN]
         /\ tokens' # NoTokens /\ tokens'.user \in Users
  BY NobodyAssumption DEF SetTokens, NoTokens

LEMMA SessionInitInv == SessionInit => SessionInv
<1> SUFFICES ASSUME SessionInit PROVE SessionInv
  OBVIOUS
<1>1. SessionTypes
  <2>1. tokens \in [user: Users \cup {Nobody}, fresh: BOOLEAN]
    BY DEF SessionInit, NoTokens
  <2>2. /\ refresh \in [Refreshers -> Users \cup {Nobody}]
        /\ calls \in [Calls -> [pc: {"none", "sent", "waits"}, fresh: BOOLEAN, retried: BOOLEAN]]
    BY DEF SessionInit, NoCall
  <2>3. /\ credits \in [owner: Users \cup {Nobody}, loading: Users \cup {Nobody}]
        /\ failures \in 0..MaxFailures
    BY FailuresAssumption DEF SessionInit
  <2> QED BY <2>1, <2>2, <2>3 DEF SessionInit, SessionTypes, SessionTypeOK, TokensAreSomebodys
<1>2. /\ screen # "app" /\ credits.loading = Nobody
      /\ \A c \in Calls : calls[c].pc = "none"
  BY DEF SessionInit, NoCall
<1>3. NothingForgotten
  BY <1>2, CreditCallAssumption DEF NothingForgotten
<1> QED BY <1>1, <1>3 DEF SessionInv

LEMMA FaultCounts == ASSUME failures \in 0..MaxFailures, Failure PROVE failures' \in 0..MaxFailures
  BY FailuresAssumption DEF Failure

LEMMA SessionTypesStep == SessionTypes /\ [SessionNext]_session => SessionTypes'
<1> SUFFICES ASSUME SessionTypes, [SessionNext]_session PROVE SessionTypes'
  OBVIOUS
<1> USE DEF SessionTypes, Refreshers
<1>1. CASE UNCHANGED session
  BY <1>1 DEF session, SessionTypeOK, TokensAreSomebodys
<1>2. CASE Expire
  <2>1. tokens' \in [user: Users \cup {Nobody}, fresh: BOOLEAN] /\ tokens'.user = tokens.user
    BY <1>2 DEF Expire, SessionTypeOK
  <2>2. tokens.user \in Users
    BY <1>2 DEF Expire, TokensAreSomebodys, NoTokens
  <2>3. calls' \in [Calls -> [pc: {"none", "sent", "waits"}, fresh: BOOLEAN, retried: BOOLEAN]]
    BY <1>2 DEF Expire, SessionTypeOK
  <2> QED BY <1>2, <2>1, <2>2, <2>3, NobodyAssumption
          DEF Expire, SessionTypeOK, TokensAreSomebodys, NoTokens
<1>3. ASSUME NEW u \in Users, Suspend(u) PROVE SessionTypes'
  <2>1. failures' \in 0..MaxFailures
    BY <1>3, FaultCounts DEF Suspend, SessionTypeOK
  <2> QED BY <1>3, <2>1 DEF Suspend, SessionTypeOK, TokensAreSomebodys
<1>4. ASSUME NEW u \in Users, Login(u) PROVE SessionTypes'
  <2>1. SetTokens(u)
    BY <1>4 DEF Login
  <2> QED BY <1>4, <2>1, TokensOf DEF Login, SessionTypeOK, TokensAreSomebodys
<1>5. CASE Visit
  BY <1>5 DEF Visit, SessionTypeOK, TokensAreSomebodys
<1>6. CASE Logout
  BY <1>6 DEF Logout, ClearTokens, Watched, NoTokens, SessionTypeOK, TokensAreSomebodys
<1>7. ASSUME NEW c \in Calls, StartCall(c) PROVE SessionTypes'
  <2>1. calls' \in [Calls -> [pc: {"none", "sent", "waits"}, fresh: BOOLEAN, retried: BOOLEAN]]
    BY <1>7, CallTypes DEF StartCall, SessionTypeOK
  <2> QED BY <1>7, <2>1 DEF StartCall, SessionTypeOK, TokensAreSomebodys
<1>8. ASSUME NEW c \in Calls, Accepted(c) PROVE SessionTypes'
  <2>1. calls' \in [Calls -> [pc: {"none", "sent", "waits"}, fresh: BOOLEAN, retried: BOOLEAN]]
    BY <1>8, CallTypes DEF Accepted, SessionTypeOK, NoTokens
  <2>2. credits' \in [owner: Users \cup {Nobody}, loading: Users \cup {Nobody}]
    BY <1>8, BalanceTypes DEF Accepted, Finish, SessionTypeOK
  <2> QED BY <1>8, <2>1, <2>2 DEF Accepted, SessionTypeOK, TokensAreSomebodys
<1>9. ASSUME NEW c \in Calls, CallRefused(c) PROVE SessionTypes'
  <2>1. calls' \in [Calls -> [pc: {"none", "sent", "waits"}, fresh: BOOLEAN, retried: BOOLEAN]]
    <3>1. CASE calls' = [calls EXCEPT ![c] = NoCall]
      BY <3>1 DEF SessionTypeOK, NoCall
    <3>2. CASE calls' = [calls EXCEPT ![c].pc = "waits"]
      BY <3>2 DEF SessionTypeOK
    <3> QED BY <1>9, <3>1, <3>2 DEF CallRefused
  <2>2. credits' \in [owner: Users \cup {Nobody}, loading: Users \cup {Nobody}]
    BY <1>9, BalanceTypes DEF CallRefused, Finish, SessionTypeOK
  <2>3. refresh' \in [Refreshers -> Users \cup {Nobody}]
    BY <1>9 DEF CallRefused, SessionTypeOK
  <2> QED BY <1>9, <2>1, <2>2, <2>3
     DEF CallRefused, SessionTypeOK, TokensAreSomebodys
<1>10. ASSUME NEW c \in Calls, ConnectionLost(c) PROVE SessionTypes'
  <2>1. calls' \in [Calls -> [pc: {"none", "sent", "waits"}, fresh: BOOLEAN, retried: BOOLEAN]]
    BY <1>10 DEF ConnectionLost, SessionTypeOK, NoCall
  <2>2. credits' \in [owner: Users \cup {Nobody}, loading: Users \cup {Nobody}]
    BY <1>10, BalanceTypes DEF ConnectionLost, Finish, SessionTypeOK
  <2>3. failures' \in 0..MaxFailures
    BY <1>10, FaultCounts DEF ConnectionLost, SessionTypeOK
  <2> QED BY <1>10, <2>1, <2>2, <2>3
     DEF ConnectionLost, SessionTypeOK, TokensAreSomebodys
<1>11. CASE LoadCredits
  <2>1. calls' \in [Calls -> [pc: {"none", "sent", "waits"}, fresh: BOOLEAN, retried: BOOLEAN]]
    BY <1>11, CallTypes, CreditCallAssumption DEF LoadCredits, SessionTypeOK
  <2>2. credits' \in [owner: Users \cup {Nobody}, loading: Users \cup {Nobody}]
    BY <1>11 DEF LoadCredits, SessionTypeOK
  <2> QED BY <1>11, <2>1, <2>2 DEF LoadCredits, SessionTypeOK, TokensAreSomebodys
<1>12. CASE InviteRefresh
  BY <1>12 DEF InviteRefresh, SessionTypeOK, TokensAreSomebodys
<1>13. ASSUME NEW k \in Refreshers, Refreshed(k) PROVE SessionTypes'
  <2>1. refresh[k] \in Users /\ SetTokens(refresh[k])
    BY <1>13 DEF Refreshed
  <2>2. /\ tokens' \in [user: Users \cup {Nobody}, fresh: BOOLEAN]
        /\ tokens' # NoTokens /\ tokens'.user \in Users
    BY <2>1, TokensOf
  <2>3. Sent(TRUE, tokens') \in [pc: {"none", "sent", "waits"}, fresh: BOOLEAN, retried: BOOLEAN]
    BY <2>2, CallTypes
  <2>4. calls' \in [Calls -> [pc: {"none", "sent", "waits"}, fresh: BOOLEAN, retried: BOOLEAN]]
    BY <1>13, <2>3 DEF Refreshed, SessionTypeOK
  <2> QED BY <1>13, <2>2, <2>4 DEF Refreshed, SessionTypeOK, TokensAreSomebodys
<1>14. ASSUME NEW k \in Refreshers, RefreshFailed(k) PROVE SessionTypes'
  <2>1. calls' \in [Calls -> [pc: {"none", "sent", "waits"}, fresh: BOOLEAN, retried: BOOLEAN]]
    BY <1>14 DEF RefreshFailed, SessionTypeOK, NoCall
  <2>2. credits' \in [owner: Users \cup {Nobody}, loading: Users \cup {Nobody}]
    BY <1>14, BalanceTypes DEF RefreshFailed, SessionTypeOK
  <2>3. failures' \in 0..MaxFailures
    BY <1>14, FaultCounts DEF RefreshFailed, SessionTypeOK
  <2> QED BY <1>14, <2>1, <2>2, <2>3
          DEF RefreshFailed, ClearTokens, Watched, NoTokens, SessionTypeOK, TokensAreSomebodys
<1>15. CASE Leave
  BY <1>15 DEF Leave, SessionTypeOK, TokensAreSomebodys
<1> QED BY <1>1, <1>2, <1>3, <1>4, <1>5, <1>6, <1>7, <1>8, <1>9, <1>10, <1>11, <1>12, <1>13, <1>14,
           <1>15
        DEF SessionNext, Answer, RefreshAnswer

\* Whatever clears the tokens, the watcher tells the router; the call that finds no refresh
\* starts one; and whoever ends the credit store's call ends the loading too.
LEMMA NothingForgottenStep == SessionInv /\ [SessionNext]_session => NothingForgotten'
<1> SUFFICES ASSUME SessionInv, [SessionNext]_session PROVE NothingForgotten'
  OBVIOUS
<1> USE CreditCallAssumption, NobodyAssumption
    DEF SessionInv, SessionTypes, SessionTypeOK, NothingForgotten, Refreshers
<1>1. CASE UNCHANGED session
  BY <1>1 DEF session
<1>2. CASE Expire
  <2>1. tokens'.user = tokens.user /\ tokens.user \in Users
    BY <1>2 DEF Expire, TokensAreSomebodys, NoTokens
  <2>2. tokens' # NoTokens
    BY <2>1 DEF NoTokens
  <2>3. \A c \in Calls : calls'[c].pc = calls[c].pc
    BY <1>2 DEF Expire
  <2> QED BY <1>2, <2>2, <2>3 DEF Expire
<1>3. ASSUME NEW u \in Users, Suspend(u) PROVE NothingForgotten'
  BY <1>3 DEF Suspend
<1>4. ASSUME NEW u \in Users, Login(u) PROVE NothingForgotten'
  BY <1>4 DEF Login
<1>5. CASE Visit
  BY <1>5 DEF Visit
<1>6. CASE Logout
  BY <1>6 DEF Logout, ClearTokens, Watched
<1>7. ASSUME NEW c \in Calls, StartCall(c) PROVE NothingForgotten'
  BY <1>7 DEF StartCall, Sent
<1>8. ASSUME NEW c \in Calls, Accepted(c) PROVE NothingForgotten'
  BY <1>8 DEF Accepted, Finish, Loaded, NoCall
<1>9. ASSUME NEW c \in Calls, CallRefused(c) PROVE NothingForgotten'
  <2>1. CASE /\ calls' = [calls EXCEPT ![c] = NoCall]
             /\ Finish(c, FALSE)
             /\ UNCHANGED <<refresh, tokens, screen, leaving>>
    BY <2>1 DEF Finish, Loaded, NoCall
  <2>2. CASE /\ calls' = [calls EXCEPT ![c].pc = "waits"]
             /\ refresh' = [refresh EXCEPT !["shared"] = IF @ = Nobody THEN tokens.user ELSE @]
             /\ refresh["shared"] # Nobody \/ tokens # NoTokens
             /\ calls[c].pc = "sent"
             /\ UNCHANGED <<credits, tokens, screen, leaving>>
    <3>1. refresh'["shared"] # Nobody
      BY <2>2 DEF TokensAreSomebodys
    <3>2. calls'[CreditCall].pc # "none" <=> calls[CreditCall].pc # "none"
      BY <2>2
    <3> QED BY <2>2, <3>1, <3>2
  <2> QED BY <1>9, <2>1, <2>2 DEF CallRefused
<1>10. ASSUME NEW c \in Calls, ConnectionLost(c) PROVE NothingForgotten'
  BY <1>10 DEF ConnectionLost, Finish, Loaded, NoCall
<1>11. CASE LoadCredits
  <2>1. tokens.user # Nobody
    BY <1>11 DEF LoadCredits, TokensAreSomebodys
  <2> QED BY <1>11, <2>1 DEF LoadCredits, Sent
<1>12. CASE InviteRefresh
  BY <1>12 DEF InviteRefresh
<1>13. ASSUME NEW k \in Refreshers, Refreshed(k) PROVE NothingForgotten'
  <2>1. tokens' # NoTokens
    BY <1>13 DEF Refreshed, SetTokens, NoTokens
  <2>2. /\ \A c \in Calls : calls'[c].pc = IF c \in Waiting(k) THEN "sent" ELSE calls[c].pc
        /\ \A c \in Calls : calls'[c].pc # "none" <=> calls[c].pc # "none"
    BY <1>13 DEF Refreshed, Sent, Waiting
  <2>3. \A c \in Calls : calls'[c].pc = "waits" => refresh'["shared"] # Nobody
    BY <1>13, <2>2 DEF Refreshed, Waiting
  <2> QED BY <1>13, <2>1, <2>2, <2>3 DEF Refreshed
<1>14. ASSUME NEW k \in Refreshers, RefreshFailed(k) PROVE NothingForgotten'
  <2>1. screen' = "app" /\ tokens' = NoTokens => leaving'
    BY <1>14 DEF RefreshFailed, ClearTokens, Watched
  <2>2. \A c \in Calls : calls'[c].pc = IF c \in Waiting(k) THEN "none" ELSE calls[c].pc
    BY <1>14 DEF RefreshFailed, NoCall
  <2>3. \A c \in Calls : calls'[c].pc = "waits" => refresh'["shared"] # Nobody
    BY <1>14, <2>2 DEF RefreshFailed, Waiting
  <2>4. credits'.loading # Nobody <=> calls'[CreditCall].pc # "none"
    BY <1>14, <2>2 DEF RefreshFailed, Loaded
  <2> QED BY <2>1, <2>3, <2>4
<1>15. CASE Leave
  BY <1>15 DEF Leave
<1> QED BY <1>1, <1>2, <1>3, <1>4, <1>5, <1>6, <1>7, <1>8, <1>9, <1>10, <1>11, <1>12, <1>13, <1>14,
           <1>15
        DEF SessionNext, Answer, RefreshAnswer

LEMMA SessionInvariance == SessionSpec => []SessionInv
<1>1. SessionInv /\ [SessionNext]_session => SessionInv'
  BY SessionTypesStep, NothingForgottenStep DEF SessionInv
<1> QED BY SessionInitInv, <1>1, PTL DEF SessionSpec

\* The tab's state keeps its types (auth/tokenStorage.ts, api/http.ts, stores/credit.ts).
THEOREM SessionTyped == SessionSpec => []SessionTypeOK
<1>1. SessionInv => SessionTypeOK
  BY DEF SessionInv, SessionTypes
<1> QED BY <1>1, SessionInvariance, PTL

\* However refreshes, refusals, logins and logouts interleave, a page that stays open without
\* tokens is about to be left (router/index.ts), a call that waits for a refresh has one that
\* is under way (api/http.ts), and the credits are loading exactly as long as their call is
\* (stores/credit.ts): what PagesAreLeft, RequestsEnd and BalanceCatchesUp rest on.
THEOREM SessionOwesNothing == SessionSpec => []NothingForgotten
<1>1. SessionInv => NothingForgotten
  BY DEF SessionInv
<1> QED BY <1>1, SessionInvariance, PTL
--------------------------------------------------------------------------
(* Part 2.  The pages. *)

KeyOK(r) == r.kind = "create" => r.key = r.draft

\* Keys and drafts belong together, in the form, on the way and in the order service.
KeysKept ==
  /\ form.key = form.draft
  /\ \A s \in Slots : KeyOK(requests[s])
  /\ \A o \in orders : o.key = o.draft
  /\ OneOrderPerDraft

LiveList(r) == r.kind = "list" /\ ~r.gone

\* The request a list waits for asks for what the list's query says, unless a search is being
\* typed.
LatestKept == ~list.typing => \A s \in Slots : LiveList(requests[s]) /\ Latest(s) => requests[s].query = list.query

ViewType == [address: Errands \cup {None}, order: Order \cup {None}, updating: BOOLEAN]
ErrandType == [Errands -> [status: Statuses, mine: BOOLEAN]]

PagesInv == TypeOK /\ KeysKept /\ LatestKept /\ ListMatchesQuery

\* A request of each kind has the fields of its kind.
LEMMA Kinds ==
  ASSUME NEW r \in Request
  PROVE  /\ r.kind = "list" => r \in ListRequest
         /\ r.kind = "create" => r \in CreateRequest
         /\ r.kind = "get" => r \in GetRequest
         /\ r.kind = "update" => r \in UpdateRequest
         /\ r # NoRequest => r \in ListRequest \cup CreateRequest \cup GetRequest \cup UpdateRequest
BY NoneAssumption DEF Request, ListRequest, CreateRequest, GetRequest, UpdateRequest, NoRequest

\* The requests a page sends.
LEMMA NewLists ==
  ASSUME NEW q \in Queries
  PROVE  List(q) \in Request /\ List(q).kind = "list" /\ List(q).query = q /\ KeyOK(List(q))
<1>1. List(q) \in ListRequest
  BY DEF List, ListRequest
<1>. QED BY <1>1 DEF Request, List, KeyOK

LEMMA NewGets ==
  ASSUME NEW e \in Errands, NEW b \in BOOLEAN
  PROVE  Get(e, b) \in Request /\ Get(e, b).kind = "get" /\ KeyOK(Get(e, b))
<1>1. Get(e, b) \in GetRequest
  BY DEF Get, GetRequest
<1>. QED BY <1>1 DEF Request, Get, KeyOK

LEMMA NewSteps ==
  ASSUME NEW e \in Errands, NEW t \in Statuses
  PROVE  Update(e, t) \in Request /\ Update(e, t).kind = "update" /\ KeyOK(Update(e, t))
<1>1. Update(e, t) \in UpdateRequest
  BY DEF Update, UpdateRequest
<1>. QED BY <1>1 DEF Request, Update, KeyOK

LEMMA NewCreates ==
  ASSUME PagesInv
  PROVE  Create \in Request /\ Create.kind = "create" /\ KeyOK(Create)
<1>1. Create \in CreateRequest
  BY DEF PagesInv, Create, CreateRequest, TypeOK
<1>. QED BY <1>1 DEF PagesInv, KeysKept, Request, Create, KeyOK

LEMMA FreeSlot == ASSUME Free # {} PROVE NextSlot \in Slots
BY DEF NextSlot, Free

\* What becomes of the requests under way when one of them changes: no list appears.
Stays(old, new) == LiveList(new) => LiveList(old) /\ new.query = old.query

RequestsKept ==
  /\ requests' \in [Slots -> Request]
  /\ \A s \in Slots : KeyOK(requests'[s]) /\ Stays(requests[s], requests'[s])

LEMMA OneChanges ==
  ASSUME PagesInv, NEW s \in Slots, NEW r \in Request, r.kind # "list", KeyOK(r),
         requests' = [requests EXCEPT ![s] = r]
  PROVE  RequestsKept
BY DEF PagesInv, TypeOK, KeysKept, RequestsKept, Stays, LiveList

\* A request that is answered or that gets its answer is no list.
LEMMA OneDone ==
  ASSUME PagesInv, NEW s \in Slots, Done(s)
  PROVE  RequestsKept
<1>1. NoRequest \in Request /\ NoRequest.kind \notin {"list", "create"}
  BY NoneAssumption DEF Request, NoRequest
<1>. QED BY <1>1, OneChanges DEF Done, KeyOK

\* All requests of a page that is left.
LEMMA AllLeft ==
  ASSUME PagesInv, NEW s \in Slots
  PROVE  Left[s] \in Request /\ KeyOK(Left[s]) /\ ~LiveList(Left[s])
<1>1. requests[s] \in Request /\ KeyOK(requests[s])
  BY DEF PagesInv, TypeOK, KeysKept
<1>2. CASE requests[s] = NoRequest
  BY <1>1, <1>2, NoneAssumption DEF Left, LiveList, NoRequest, KeyOK
<1>3. CASE requests[s] # NoRequest
  <2>1. Left[s] = [requests[s] EXCEPT !.gone = TRUE]
    BY <1>3 DEF Left
  <2>2. CASE requests[s] \in ListRequest
    <3>1. Left[s] \in ListRequest /\ Left[s].gone /\ Left[s].kind = "list"
      BY <2>1, <2>2 DEF ListRequest
    <3>. QED BY <3>1 DEF Request, LiveList, KeyOK
  <2>3. CASE requests[s] \in CreateRequest
    <3>1. /\ Left[s] \in CreateRequest /\ Left[s].kind = "create"
          /\ Left[s].key = requests[s].key /\ Left[s].draft = requests[s].draft
      BY <2>1, <2>3 DEF CreateRequest
    <3>2. requests[s].key = requests[s].draft
      BY <1>1, <2>3 DEF KeyOK, CreateRequest
    <3>. QED BY <3>1, <3>2 DEF Request, LiveList, KeyOK
  <2>4. CASE requests[s] \in GetRequest
    <3>1. Left[s] \in GetRequest /\ Left[s].kind = "get"
      BY <2>1, <2>4 DEF GetRequest
    <3>. QED BY <3>1 DEF Request, LiveList, KeyOK
  <2>5. CASE requests[s] \in UpdateRequest
    <3>1. Left[s] \in UpdateRequest /\ Left[s].kind = "update"
      BY <2>1, <2>5 DEF UpdateRequest
    <3>. QED BY <3>1 DEF Request, LiveList, KeyOK
  <2>. QED BY <1>1, <1>3, <2>2, <2>3, <2>4, <2>5, Kinds
<1>. QED BY <1>2, <1>3

\* An action that leaves the list alone only has to respect the keys.
LEMMA ListUntouched ==
  ASSUME PagesInv, RequestsKept, TypeOK', form'.key = form'.draft, orders' = orders,
         UNCHANGED <<page, list>>
  PROVE  PagesInv'
<1>1. KeysKept'
  BY DEF PagesInv, KeysKept, RequestsKept, OneOrderPerDraft
<1>2. LatestKept'
  BY DEF PagesInv, LatestKept, RequestsKept, Stays, Latest
<1>3. ListMatchesQuery'
  BY DEF PagesInv, ListMatchesQuery
<1>. QED BY <1>1, <1>2, <1>3 DEF PagesInv

\* The errand page and its requests.
LEMMA ErrandPage ==
  ASSUME PagesInv, RequestsKept, UNCHANGED <<page, list, form, orders, role, faults>>,
         view' \in ViewType,
         errand' \in ErrandType
  PROVE  PagesInv'
<1>1. TypeOK'
  BY DEF PagesInv, TypeOK, RequestsKept, ViewType, ErrandType
<1>. QED BY <1>1, ListUntouched DEF PagesInv, KeysKept

LEMMA PagesInit == Init => PagesInv
<1>. SUFFICES ASSUME Init PROVE PagesInv
  OBVIOUS
<1>1. TypeOK
  <2>1. 0 \in Keys
    BY BoundsAssumption DEF Keys
  <2>2. /\ list \in [query: Queries, shown: Queries \cup {None}, latest: Slots \cup {None},
                    failed: BOOLEAN, typing: BOOLEAN]
        /\ form \in [key: Keys, draft: Keys, submitting: BOOLEAN]
        /\ view \in [address: Errands \cup {None}, order: Order \cup {None}, updating: BOOLEAN]
    BY <2>1, QueriesAssumption DEF Init, Fresh, Blank, Closed
  <2>3. /\ requests \in [Slots -> Request]
        /\ errand \in [Errands -> [status: Statuses, mine: BOOLEAN]]
        /\ faults \in 0..MaxFaults
    BY BoundsAssumption DEF Init, Request, NoRequest, Statuses
  <2>. QED BY <2>2, <2>3 DEF Init, TypeOK
<1>2. \A s \in Slots : requests[s].kind = None
  BY DEF Init, NoRequest
<1>3. KeysKept
  BY <1>2, NoneAssumption DEF Init, KeysKept, KeyOK, OneOrderPerDraft, Blank
<1>4. LatestKept /\ ListMatchesQuery
  BY <1>2, NoneAssumption DEF Init, LatestKept, LiveList, ListMatchesQuery
<1>. QED BY <1>1, <1>3, <1>4 DEF PagesInv

\* A list that starts afresh.
LEMMA FreshTypes ==
  ASSUME NEW n \in Slots \cup {None}
  PROVE  /\ Fresh(n) \in [query: Queries, shown: Queries \cup {None}, latest: Slots \cup {None},
                         failed: BOOLEAN, typing: BOOLEAN]
         /\ Fresh(n).query = Start /\ Fresh(n).latest = n
  BY QueriesAssumption DEF Fresh

\* Another page is mounted: what the old one waits for changes nothing any more.
LEMMA NavigateInv ==
  ASSUME PagesInv, NEW target \in {"list", "form"}, Navigate(target)
  PROVE  PagesInv'
<1>1. PICK n \in Slots : n = NextSlot
  BY FreeSlot DEF Navigate
<1>2. Left = [s \in Slots |-> Left[s]]
  BY DEF Left
<1>3. \A s \in Slots : Left[s] \in Request /\ KeyOK(Left[s]) /\ ~LiveList(Left[s])
  BY AllLeft
<1>4. List(Start) \in Request /\ KeyOK(List(Start)) /\ List(Start).query = Start
  BY NewLists, QueriesAssumption
<1>5. /\ view' = Closed /\ page' = target /\ UNCHANGED <<errand, orders, role, faults>>
      /\ Closed \in ViewType
  BY DEF Navigate, Closed, ViewType
<1>6. /\ form \in [key: Keys, draft: Keys, submitting: BOOLEAN] /\ form.key = form.draft
  BY DEF PagesInv, TypeOK, KeysKept
<1>7. CASE target = "list"
  <2>1. /\ requests' = [Left EXCEPT ![n] = List(Start)] /\ list' = Fresh(n)
        /\ form' = [form EXCEPT !.submitting = FALSE]
    BY <1>1, <1>7 DEF Navigate
  <2>2. /\ requests' \in [Slots -> Request] /\ \A s \in Slots : KeyOK(requests'[s])
        /\ \A s \in Slots : LiveList(requests'[s]) => requests'[s].query = Start
    BY <1>2, <1>3, <1>4, <2>1
  <2>3. form' \in [key: Keys, draft: Keys, submitting: BOOLEAN] /\ form'.key = form'.draft
    BY <1>6, <2>1
  <2>4. TypeOK'
    BY <1>5, <1>7, <2>1, <2>2, <2>3, FreshTypes DEF PagesInv, TypeOK, ViewType
  <2>5. KeysKept'
    BY <1>5, <2>2, <2>3 DEF PagesInv, KeysKept, OneOrderPerDraft
  <2>6. list'.query = Start /\ list'.latest # None
    BY <2>1, FreshTypes, QueriesAssumption
  <2>7. LatestKept' /\ ListMatchesQuery'
    BY <2>2, <2>6 DEF LatestKept, ListMatchesQuery
  <2>. QED BY <2>4, <2>5, <2>7 DEF PagesInv
<1>8. CASE target = "form"
  <2>1. /\ requests' = Left /\ list' = Fresh(None) /\ form.draft < MaxKeys
        /\ form' = Blank(form.key + 1, form.draft + 1)
    BY <1>8 DEF Navigate
  <2>2. form.key + 1 \in Keys
    BY <1>6, <2>1, BoundsAssumption DEF Keys
  <2>3. form' \in [key: Keys, draft: Keys, submitting: BOOLEAN] /\ form'.key = form'.draft
    BY <1>6, <2>1, <2>2 DEF Blank
  <2>4. requests' \in [Slots -> Request] /\ \A s \in Slots : KeyOK(requests'[s])
    BY <1>2, <1>3, <2>1
  <2>5. TypeOK'
    BY <1>5, <1>8, <2>1, <2>3, <2>4, FreshTypes DEF PagesInv, TypeOK, ViewType
  <2>6. KeysKept'
    BY <1>5, <2>3, <2>4 DEF PagesInv, KeysKept, OneOrderPerDraft
  <2>7. LatestKept' /\ ListMatchesQuery'
    BY <1>3, <1>5, <1>8, <2>1 DEF LatestKept, ListMatchesQuery
  <2>. QED BY <2>5, <2>6, <2>7 DEF PagesInv
<1>. QED BY <1>7, <1>8

\* The page of an errand opens: no list is mounted, whether or not the requests go on.
LEMMA OpenInv ==
  ASSUME PagesInv, NEW e \in Errands, NEW s \in Slots, Open(e, s),
         UNCHANGED <<errand, orders, role, faults>>
  PROVE  PagesInv'
<1>. DEFINE old == IF page = "errand" THEN requests ELSE Left
<1>1. old \in [Slots -> Request] /\ \A t \in Slots : KeyOK(old[t])
  <2>1. CASE page = "errand"
    BY <2>1 DEF PagesInv, TypeOK, KeysKept
  <2>2. CASE page # "errand"
    <3>1. Left = [t \in Slots |-> Left[t]]
      BY DEF Left
    <3>. QED BY <2>2, <3>1, AllLeft
  <2>. QED BY <2>1, <2>2
<1>2. requests' = [old EXCEPT ![s] = Get(e, FALSE)]
  BY DEF Open
<1>3. Get(e, FALSE) \in Request /\ KeyOK(Get(e, FALSE))
  BY NewGets
<1>. HIDE DEF old
<1>4. requests' \in [Slots -> Request] /\ \A t \in Slots : KeyOK(requests'[t])
  BY <1>1, <1>2, <1>3
<1>5. form' \in [key: Keys, draft: Keys, submitting: BOOLEAN] /\ form'.key = form'.draft
  BY DEF Open, PagesInv, TypeOK, KeysKept
<1>6. view' \in ViewType
  BY DEF Open, PagesInv, TypeOK, ViewType
<1>7. page' = "errand" /\ list' = Fresh(None)
  BY DEF Open
<1>8. TypeOK'
  BY <1>4, <1>5, <1>6, <1>7, FreshTypes DEF PagesInv, TypeOK, ViewType
<1>9. KeysKept'
  BY <1>4, <1>5 DEF PagesInv, KeysKept, OneOrderPerDraft
<1>10. LatestKept' /\ ListMatchesQuery'
  BY <1>7, FreshTypes, QueriesAssumption DEF LatestKept, Latest, ListMatchesQuery
<1>. QED BY <1>8, <1>9, <1>10 DEF PagesInv

LEMMA OpenErrandInv ==
  ASSUME PagesInv, NEW e \in Errands, OpenErrand(e)
  PROVE  PagesInv'
  BY FreeSlot, OpenInv DEF OpenErrand

--------------------------------------------------------------------------
\* A list.

\* It asks for what its query says from now on.
LEMMA LoadInv ==
  ASSUME PagesInv, NEW query \in Queries, NEW typing \in BOOLEAN, Load(query, typing)
  PROVE  PagesInv'
<1>. PICK n \in Slots : n = NextSlot
  BY FreeSlot DEF Load
<1>1. List(query) \in Request /\ KeyOK(List(query)) /\ List(query).query = query
  BY NewLists
<1>2. /\ requests' = [requests EXCEPT ![n] = List(query)]
      /\ list' = [list EXCEPT !.query = query, !.latest = n, !.typing = typing]
      /\ UNCHANGED <<page, form, view, errand, orders, role, faults>>
  BY DEF Load, Send
<1>3. TypeOK'
  BY <1>1, <1>2 DEF PagesInv, TypeOK
<1>4. KeysKept'
  BY <1>1, <1>2 DEF PagesInv, TypeOK, KeysKept, OneOrderPerDraft
<1>5. list'.latest = n /\ list'.query = query /\ requests'[n] = List(query)
  BY <1>2 DEF PagesInv, TypeOK
<1>6. LatestKept'
  BY <1>1, <1>5 DEF LatestKept, Latest
<1>7. ListMatchesQuery'
  BY <1>5, QueriesAssumption DEF ListMatchesQuery
<1>. QED BY <1>3, <1>4, <1>6, <1>7 DEF PagesInv

\* Typing asks for nothing: the timer, still to run out, makes up for it.
LEMMA ChangeSearchInv ==
  ASSUME PagesInv, NEW query \in Queries, ChangeSearch(query)
  PROVE  PagesInv'
<1>1. /\ list' = [list EXCEPT !.query = query, !.typing = TRUE]
      /\ UNCHANGED <<page, requests, form, view, errand, orders, role, faults>>
  BY DEF ChangeSearch
<1>2. TypeOK' /\ list'.typing
  BY <1>1 DEF PagesInv, TypeOK
<1>3. KeysKept'
  BY <1>1 DEF PagesInv, KeysKept, OneOrderPerDraft
<1>. QED BY <1>2, <1>3 DEF PagesInv, LatestKept, ListMatchesQuery

LEMMA LoadsInv ==
  ASSUME PagesInv, SearchTimer \/ ReloadList \/ \E query \in Queries : ChangeQuery(query)
  PROVE  PagesInv'
<1>1. /\ list.query \in Queries /\ list.typing \in BOOLEAN
      /\ FirstPage[list.query] \in Queries
  BY QueriesAssumption DEF PagesInv, TypeOK
<1>2. CASE SearchTimer
  BY <1>1, <1>2, LoadInv DEF SearchTimer
<1>3. CASE ReloadList
  BY <1>1, <1>3, LoadInv DEF ReloadList
<1>4. ASSUME NEW query \in Queries, ChangeQuery(query) PROVE PagesInv'
  BY <1>1, <1>4, LoadInv DEF ChangeQuery
<1>. QED BY <1>2, <1>3, <1>4

\* Only the answer to the latest request is shown, and it is the answer to the query.
LEMMA ListAnsweredInv ==
  ASSUME PagesInv, NEW s \in Slots, ListAnswered(s)
  PROVE  PagesInv'
<1>1. UNCHANGED <<page, form, view, errand, orders, role, faults>>
  BY DEF ListAnswered
<1>2. CASE Done(s) /\ UNCHANGED list
  <2>1. RequestsKept
    BY <1>2, OneDone
  <2>2. TypeOK'
    BY <1>1, <1>2, <2>1 DEF PagesInv, TypeOK, RequestsKept
  <2>. QED BY <1>1, <1>2, <2>1, <2>2, ListUntouched DEF PagesInv, KeysKept
<1>3. requests[s] \in ListRequest /\ requests[s].kind = "list"
  BY Kinds DEF ListAnswered, PagesInv, TypeOK
<1>4. requests[s].query \in Queries
  BY <1>3 DEF ListRequest
<1>5. CASE /\ ~requests[s].gone /\ Latest(s)
           /\ list' = [list EXCEPT !.shown = requests[s].query, !.latest = None, !.failed = FALSE]
           /\ Done(s)
  <2>1. ~list.typing => requests[s].query = list.query
    BY <1>3, <1>5 DEF PagesInv, LatestKept, LiveList
  <2>2. RequestsKept
    BY <1>5, OneDone
  <2>3. TypeOK'
    BY <1>1, <1>4, <1>5, <2>2 DEF PagesInv, TypeOK, RequestsKept
  <2>4. KeysKept'
    BY <1>1, <2>2 DEF PagesInv, KeysKept, RequestsKept, OneOrderPerDraft
  <2>5. /\ list'.shown = requests[s].query /\ list'.latest = None
        /\ list'.query = list.query /\ list'.typing = list.typing
    BY <1>5 DEF PagesInv, TypeOK
  <2>6. LatestKept'
    BY <2>5, QueriesAssumption DEF LatestKept, Latest
  <2>7. ListMatchesQuery'
    BY <2>1, <2>5 DEF ListMatchesQuery
  <2>. QED BY <2>3, <2>4, <2>6, <2>7 DEF PagesInv
<1>6. ASSUME NEW query \in Queries, ~requests[s].gone, Latest(s), Send(s, List(query)),
             list' = [list EXCEPT !.query = query, !.shown = requests[s].query, !.failed = FALSE]
      PROVE  PagesInv'
  <2>1. List(query) \in Request /\ KeyOK(List(query)) /\ List(query).query = query
    BY NewLists
  <2>2. requests' = [requests EXCEPT ![s] = List(query)]
    BY <1>6 DEF Send
  <2>3. TypeOK'
    BY <1>1, <1>4, <1>6, <2>1, <2>2 DEF PagesInv, TypeOK
  <2>4. KeysKept'
    BY <1>1, <2>1, <2>2 DEF PagesInv, TypeOK, KeysKept, OneOrderPerDraft
  <2>5. list'.latest = s /\ list'.query = query /\ requests'[s].query = query
    BY <1>6, <2>1, <2>2 DEF PagesInv, TypeOK, Latest
  <2>6. LatestKept' /\ ListMatchesQuery'
    BY <2>5, QueriesAssumption DEF LatestKept, Latest, ListMatchesQuery
  <2>. QED BY <2>3, <2>4, <2>6 DEF PagesInv
<1>. QED BY <1>2, <1>5, <1>6 DEF ListAnswered

--------------------------------------------------------------------------
\* The form.

\* The form sends its key and its draft together.
LEMMA SubmitInv ==
  ASSUME PagesInv, Submit
  PROVE  PagesInv'
<1>. PICK n \in Slots : n = NextSlot
  BY FreeSlot DEF Submit
<1>1. Create \in Request /\ Create.kind = "create" /\ KeyOK(Create)
  BY NewCreates
<1>2. RequestsKept
  BY <1>1, OneChanges DEF Submit, Send
<1>3. /\ form' \in [key: Keys, draft: Keys, submitting: BOOLEAN]
      /\ form'.key = form'.draft
  BY DEF Submit, PagesInv, TypeOK, KeysKept
<1>4. TypeOK'
  BY <1>2, <1>3 DEF Submit, PagesInv, TypeOK, RequestsKept
<1>. QED BY <1>2, <1>3, <1>4, ListUntouched DEF Submit

\* A cleared form has a new key and a new draft.
LEMMA ResetFormInv ==
  ASSUME PagesInv, ResetForm
  PROVE  PagesInv'
<1>1. RequestsKept
  BY DEF ResetForm, PagesInv, TypeOK, KeysKept, RequestsKept, Stays
<1>2. form.key \in Keys /\ form.draft \in Keys /\ form.key = form.draft
  BY DEF PagesInv, TypeOK, KeysKept
<1>3. form.key + 1 \in Keys /\ form.draft + 1 \in Keys
  BY <1>2, BoundsAssumption DEF ResetForm, Keys
<1>4. /\ form' \in [key: Keys, draft: Keys, submitting: BOOLEAN]
      /\ form'.key = form'.draft
  BY <1>2, <1>3 DEF ResetForm, Blank
<1>5. TypeOK'
  BY <1>1, <1>4 DEF ResetForm, PagesInv, TypeOK, RequestsKept
<1>. QED BY <1>1, <1>4, <1>5, ListUntouched DEF ResetForm

\* An answer that is written into a request changes nothing else of it.
LEMMA AnswerWritten ==
  ASSUME PagesInv, NEW s \in Slots, NEW a \in Statuses \cup {"404", "409"},
         requests[s].kind \in {"create", "get", "update"},
         requests[s].kind = "create" => a = "PENDING",
         requests[s].kind = "get" => a \in Statuses \cup {"404"},
         requests[s].kind = "update" => a \in Statuses \cup {"409"},
         requests' = [requests EXCEPT ![s].answer = a]
  PROVE  RequestsKept
<1>. DEFINE r == [requests[s] EXCEPT !.answer = a]
            Good == r \in Request /\ KeyOK(r) /\ r.kind # "list"
<1>1. requests[s] \in Request /\ KeyOK(requests[s])
  BY DEF PagesInv, TypeOK, KeysKept
<1>2. CASE requests[s].kind = "create"
  <2>1. requests[s] \in CreateRequest
    BY <1>1, <1>2, Kinds
  <2>2. r \in CreateRequest /\ r.kind = "create" /\ r.key = requests[s].key /\ r.draft = requests[s].draft
    BY <1>2, <2>1 DEF CreateRequest
  <2>3. Good
    BY <1>1, <1>2, <2>2 DEF Request, KeyOK
  <2>. QED BY <2>3, OneChanges
<1>3. CASE requests[s].kind = "get"
  <2>1. requests[s] \in GetRequest
    BY <1>1, <1>3, Kinds
  <2>2. r \in GetRequest /\ r.kind = "get"
    BY <1>3, <2>1 DEF GetRequest
  <2>3. Good
    BY <2>2 DEF Request, KeyOK
  <2>. QED BY <2>3, OneChanges
<1>4. CASE requests[s].kind = "update"
  <2>1. requests[s] \in UpdateRequest
    BY <1>1, <1>4, Kinds
  <2>2. r \in UpdateRequest /\ r.kind = "update"
    BY <1>4, <2>1 DEF UpdateRequest
  <2>3. Good
    BY <2>2 DEF Request, KeyOK
  <2>. QED BY <2>3, OneChanges
<1>. QED BY <1>2, <1>3, <1>4

\* The order service makes an errand of a draft unless it knows the key, which is the draft's.
LEMMA CreateServedInv ==
  ASSUME PagesInv, NEW s \in Slots, CreateServed(s)
  PROVE  PagesInv'
<1>1. RequestsKept
  <2>1. "PENDING" \in Statuses
    BY DEF Statuses
  <2>. QED BY <2>1, AnswerWritten DEF CreateServed
<1>2. requests[s] \in CreateRequest /\ requests[s].key = requests[s].draft
  BY Kinds DEF CreateServed, PagesInv, TypeOK, KeysKept, KeyOK
<1>3. UNCHANGED <<page, list, form, view, errand, role, faults>>
  BY DEF CreateServed
<1>. DEFINE o == [key |-> requests[s].key, draft |-> requests[s].draft]
<1>4. o \in [key: Keys, draft: Keys] /\ o.key = o.draft /\ o.key = requests[s].key
  BY <1>2 DEF CreateRequest
<1>5. \/ orders' = orders
      \/ orders' = orders \cup {o} /\ \A p \in orders : p.key # o.key
  BY DEF CreateServed
<1>. HIDE DEF o
<1>6. TypeOK'
  BY <1>1, <1>3, <1>4, <1>5 DEF PagesInv, TypeOK, RequestsKept
<1>7. KeysKept'
  <2>1. \A p \in orders' : p.key = p.draft
    BY <1>4, <1>5 DEF PagesInv, KeysKept
  <2>2. OneOrderPerDraft'
    <3>1. ASSUME NEW p \in orders, NEW q \in orders, p.draft = q.draft
          PROVE  p = q
      BY <3>1 DEF PagesInv, KeysKept, OneOrderPerDraft
    <3>2. ASSUME NEW p \in orders, p.draft = o.draft
          PROVE  p.key = o.key
      BY <1>4, <3>2 DEF PagesInv, KeysKept
    <3>3. CASE orders' = orders
      BY <3>1, <3>3 DEF OneOrderPerDraft
    <3>4. CASE orders' = orders \cup {o} /\ \A p \in orders : p.key # o.key
      <4>1. \A p \in orders : p.draft # o.draft
        BY <3>2, <3>4
      <4>. QED BY <3>1, <3>4, <4>1 DEF OneOrderPerDraft
    <3>. QED BY <1>5, <3>3, <3>4
  <2>. QED BY <1>1, <1>3, <2>1, <2>2 DEF PagesInv, KeysKept, RequestsKept
<1>8. LatestKept' /\ ListMatchesQuery'
  BY <1>1, <1>3 DEF PagesInv, LatestKept, RequestsKept, Stays, Latest, ListMatchesQuery
<1>. QED BY <1>6, <1>7, <1>8 DEF PagesInv

\* The page of the new errand opens, unless it is open already.
LEMMA CreateAnsweredInv ==
  ASSUME PagesInv, NEW s \in Slots, CreateAnswered(s)
  PROVE  PagesInv'
<1>1. requests[s] \in CreateRequest
  BY Kinds DEF CreateAnswered, PagesInv, TypeOK
<1>2. requests[s].key \in Errands
  BY <1>1 DEF CreateRequest, Errands
<1>3. CASE Open(requests[s].key, s)
  BY <1>2, <1>3, OpenInv DEF CreateAnswered
<1>4. CASE Done(s) /\ UNCHANGED <<page, list, form, view>>
  <2>1. UNCHANGED <<errand, orders, role, faults>>
    BY DEF CreateAnswered
  <2>2. RequestsKept
    BY <1>4, OneDone
  <2>3. TypeOK'
    BY <1>4, <2>1, <2>2 DEF PagesInv, TypeOK, RequestsKept
  <2>. QED BY <1>4, <2>1, <2>2, <2>3, ListUntouched DEF PagesInv, KeysKept
<1>. QED BY <1>3, <1>4 DEF CreateAnswered

--------------------------------------------------------------------------
\* The page of an errand.

LEMMA Types ==
  ASSUME PagesInv
  PROVE  view \in ViewType /\ errand \in ErrandType
  BY DEF PagesInv, TypeOK, ViewType, ErrandType

LEMMA ReloadsInv ==
  ASSUME PagesInv, Refresh \/ ExpiryReload
  PROVE  PagesInv'
<1>. PICK n \in Slots : n = NextSlot
  BY FreeSlot DEF Refresh, ExpiryReload
<1>1. PICK e \in Errands : view.order.id = e
  BY DEF Refresh, ExpiryReload, Shows
<1>2. Get(e, FALSE) \in Request /\ Get(e, FALSE).kind = "get" /\ KeyOK(Get(e, FALSE))
  BY NewGets
<1>3. RequestsKept
  BY <1>1, <1>2, OneChanges DEF Refresh, ExpiryReload, LoadOrder, Send
<1>. QED BY <1>3, ErrandPage, Types DEF Refresh, ExpiryReload

LEMMA ConfirmActionInv ==
  ASSUME PagesInv, NEW target \in Statuses, ConfirmAction(target)
  PROVE  PagesInv'
<1>. PICK n \in Slots : n = NextSlot
  BY FreeSlot DEF ConfirmAction
<1>1. PICK e \in Errands : view.order.id = e
  BY Types DEF ConfirmAction, ViewType, Order
<1>2. Update(e, target) \in Request /\ Update(e, target).kind = "update" /\ KeyOK(Update(e, target))
  BY NewSteps
<1>3. RequestsKept
  BY <1>1, <1>2, OneChanges DEF ConfirmAction, Send
<1>4. view' \in ViewType
  BY Types DEF ConfirmAction, ViewType
<1>. QED BY <1>3, <1>4, ErrandPage, Types DEF ConfirmAction

LEMMA GetServedInv ==
  ASSUME PagesInv, NEW s \in Slots, GetServed(s)
  PROVE  PagesInv'
<1>1. requests[s].of \in Errands
  BY Kinds DEF GetServed, PagesInv, TypeOK, GetRequest
<1>2. PICK a \in Statuses \cup {"404"} : requests' = [requests EXCEPT ![s].answer = a]
  <2>1. errand[requests[s].of].status \in Statuses
    BY <1>1, Types DEF ErrandType
  <2>. QED BY <2>1 DEF GetServed
<1>3. RequestsKept
  BY <1>2, AnswerWritten DEF GetServed
<1>. QED BY <1>3, ErrandPage, Types DEF GetServed

LEMMA UpdateServedInv ==
  ASSUME PagesInv, NEW s \in Slots, UpdateServed(s)
  PROVE  PagesInv'
<1>. DEFINE e == requests[s].of
            target == requests[s].target
            a == IF /\ target = "DELIVERED"
                    /\ errand[e].status = target /\ errand[e].mine
                 THEN target ELSE "409"
<1>1. e \in Errands /\ target \in Statuses
  BY Kinds DEF UpdateServed, PagesInv, TypeOK, UpdateRequest
<1>2. a \in Statuses \cup {"409"}
  BY <1>1
<1>3. RequestsKept
  <2>1. CASE Step(e, target)
    <3>1. requests' = [requests EXCEPT ![s].answer = target]
      BY <2>1 DEF UpdateServed
    <3>. QED BY <1>1, <3>1, AnswerWritten DEF UpdateServed
  <2>2. CASE ~Step(e, target)
    <3>1. requests' = [requests EXCEPT ![s].answer = a]
      BY <2>2 DEF UpdateServed
    <3>. HIDE DEF a
    <3>. QED BY <1>2, <3>1, AnswerWritten DEF UpdateServed
  <2>. QED BY <2>1, <2>2
<1>4. errand' \in ErrandType
  <2>1. CASE Step(e, target)
    <3>1. errand' = [errand EXCEPT
              ![e] = [status |-> target, mine |-> errand[e].mine \/ Role(e) = "courier"]]
      BY <2>1 DEF UpdateServed
    <3>2. (errand[e].mine \/ Role(e) = "courier") \in BOOLEAN
      OBVIOUS
    <3>. HIDE DEF e, target
    <3>. QED BY <1>1, <3>1, <3>2, Types DEF ErrandType
  <2>2. CASE ~Step(e, target)
    BY <2>2, Types DEF UpdateServed
  <2>. QED BY <2>1, <2>2
<1>. QED BY <1>3, <1>4, ErrandPage, Types DEF UpdateServed

\* Whatever errand an answer is about, it is one, or none.
LEMMA AnswerShown ==
  ASSUME NEW s \in Slots, requests[s].of \in Errands, requests[s].answer \in Statuses \cup {"404"}
  PROVE  Answering(s) \in Order \cup {None}
  BY DEF Answering, Order

LEMMA GetAnsweredInv ==
  ASSUME PagesInv, NEW s \in Slots, GetAnswered(s)
  PROVE  PagesInv'
<1>1. requests[s] \in GetRequest
  BY Kinds DEF GetAnswered, PagesInv, TypeOK
<1>2. Answering(s) \in Order \cup {None}
  BY <1>1, AnswerShown DEF GetAnswered, GetRequest
<1>3. view' \in ViewType
  <2>1. (view.updating /\ ~requests[s].after) \in BOOLEAN
    OBVIOUS
  <2>. QED BY <1>2, <2>1, Types DEF GetAnswered, ViewType
<1>4. RequestsKept
  BY OneDone DEF GetAnswered
<1>. QED BY <1>3, <1>4, ErrandPage, Types DEF GetAnswered

\* A refused step ends, or reloads the errand.
LEMMA RefusedKeeps ==
  ASSUME PagesInv, NEW s \in Slots, Refused(s)
  PROVE  RequestsKept /\ view' \in ViewType
<1>1. CASE view.order = None
  BY <1>1, OneDone, Types DEF Refused, ViewType
<1>2. CASE view.order # None
  <2>1. PICK e \in Errands : view.order.id = e
    BY <1>2, Types DEF ViewType, Order
  <2>2. Get(e, TRUE) \in Request /\ Get(e, TRUE).kind = "get" /\ KeyOK(Get(e, TRUE))
    BY NewGets
  <2>. QED BY <1>2, <2>1, <2>2, OneChanges, Types DEF Refused, Send
<1>. QED BY <1>1, <1>2

LEMMA UpdateAnsweredInv ==
  ASSUME PagesInv, NEW s \in Slots, UpdateAnswered(s)
  PROVE  PagesInv'
<1>1. requests[s] \in UpdateRequest
  BY Kinds DEF UpdateAnswered, PagesInv, TypeOK
<1>2. RequestsKept /\ view' \in ViewType
  <2>1. CASE Refused(s)
    BY <2>1, RefusedKeeps
  <2>2. CASE Done(s) /\ UNCHANGED view
    BY <2>2, OneDone, Types
  <2>3. CASE Done(s) /\ requests[s].answer # "409"
             /\ view' = [view EXCEPT !.order = Answering(s), !.updating = FALSE]
    <3>1. Answering(s) \in Order \cup {None}
      BY <1>1, <2>3, AnswerShown DEF UpdateAnswered, UpdateRequest
    <3>. QED BY <2>3, <3>1, OneDone, Types DEF ViewType
  <2>. QED BY <2>1, <2>2, <2>3 DEF UpdateAnswered
<1>. QED BY <1>2, ErrandPage, Types DEF UpdateAnswered

LEMMA OthersActInv ==
  ASSUME PagesInv, NEW e \in Errands, OthersAct(e)
  PROVE  PagesInv'
<1>1. RequestsKept
  BY DEF OthersAct, tab, PagesInv, TypeOK, KeysKept, RequestsKept, Stays
<1>2. errand' \in ErrandType
  <2>1. ASSUME NEW target \in Others(e), errand' = [errand EXCEPT ![e].status = target]
        PROVE  errand' \in ErrandType
    <3>1. target \in Statuses
      BY DEF Others, Statuses
    <3>. QED BY <2>1, <3>1, Types DEF ErrandType
  <2>2. CASE errand' = [errand EXCEPT ![e].status = "CANCELLED"]
    BY <2>2, Types DEF ErrandType, Statuses
  <2>3. CASE errand' = [errand EXCEPT ![e] = [status |-> "OPEN", mine |-> FALSE]]
    BY <2>3, Types DEF ErrandType, Statuses
  <2>. QED BY <2>1, <2>2, <2>3 DEF OthersAct
<1>. QED BY <1>1, <1>2, ErrandPage, Types DEF OthersAct, tab

\* A lost request frees what waits for it; a lost creation leaves the key in the form.
LEMMA LostInv ==
  ASSUME PagesInv, NEW s \in Slots, Lost(s)
  PROVE  PagesInv'
<1>1. faults' \in 0..MaxFaults /\ UNCHANGED <<page, errand, orders, role>>
  BY BoundsAssumption DEF Lost, PagesInv, TypeOK
<1>2. RequestsKept /\ view' \in ViewType
  <2>1. CASE Refused(s)
    BY <2>1, RefusedKeeps
  <2>2. CASE Done(s) /\ UNCHANGED view
    BY <2>2, OneDone, Types
  <2>3. CASE /\ Done(s) /\ requests[s].kind = "get"
             /\ view' = [view EXCEPT !.updating = @ /\ ~requests[s].after]
    <3>1. requests[s] \in GetRequest
      BY <2>3, Kinds DEF PagesInv, TypeOK
    <3>2. (view.updating /\ ~requests[s].after) \in BOOLEAN
      OBVIOUS
    <3>3. view' \in ViewType
      BY <2>3, <3>2, Types DEF ViewType
    <3>. QED BY <2>3, <3>3, OneDone
  <2>. QED BY <2>1, <2>2, <2>3 DEF Lost
<1>3. /\ form' \in [key: Keys, draft: Keys, submitting: BOOLEAN]
      /\ form'.key = form'.draft
  BY DEF Lost, KeyAfterFailure, PagesInv, TypeOK, KeysKept
<1>4. CASE UNCHANGED list
  <2>1. TypeOK'
    BY <1>1, <1>2, <1>3, <1>4 DEF PagesInv, TypeOK, RequestsKept, ViewType
  <2>. QED BY <1>1, <1>2, <1>3, <1>4, <2>1, ListUntouched
<1>5. CASE list' = [list EXCEPT !.latest = None, !.failed = TRUE]
  <2>1. TypeOK'
    BY <1>1, <1>2, <1>3, <1>5 DEF PagesInv, TypeOK, RequestsKept, ViewType
  <2>2. KeysKept'
    BY <1>1, <1>2, <1>3 DEF PagesInv, KeysKept, RequestsKept, OneOrderPerDraft
  <2>3. list'.latest = None /\ list'.failed
    BY <1>5 DEF PagesInv, TypeOK
  <2>4. LatestKept' /\ ListMatchesQuery'
    BY <2>3, QueriesAssumption DEF LatestKept, Latest, ListMatchesQuery
  <2>. QED BY <2>1, <2>2, <2>4 DEF PagesInv
<1>. QED BY <1>4, <1>5 DEF Lost

LEMMA PagesStep == PagesInv /\ [Next]_vars => PagesInv'
<1>. SUFFICES ASSUME PagesInv, [Next]_vars
              PROVE  PagesInv'
  OBVIOUS
<1>1. CASE UNCHANGED vars
  BY <1>1 DEF vars, PagesInv, TypeOK, KeysKept, KeyOK, OneOrderPerDraft, LatestKept, LiveList, Latest,
              ListMatchesQuery
<1>2. ASSUME NEW target \in {"list", "form"}, Navigate(target)
      PROVE  PagesInv'
  BY <1>2, NavigateInv
<1>3. ASSUME NEW e \in Errands, OpenErrand(e) \/ OthersAct(e)
      PROVE  PagesInv'
  BY <1>3, OpenErrandInv, OthersActInv
<1>4. ASSUME NEW query \in Queries, ChangeQuery(query) \/ ChangeSearch(query)
      PROVE  PagesInv'
  BY <1>4, LoadsInv, ChangeSearchInv
<1>5. CASE Submit \/ ResetForm
  BY <1>5, SubmitInv, ResetFormInv
<1>6. CASE Refresh \/ ExpiryReload
  BY <1>6, ReloadsInv
<1>7. ASSUME NEW target \in Statuses, ConfirmAction(target)
      PROVE  PagesInv'
  BY <1>7, ConfirmActionInv
<1>8. ASSUME NEW s \in Slots, Served(s)
      PROVE  PagesInv'
  BY <1>8, CreateServedInv, GetServedInv, UpdateServedInv DEF Served
<1>9. ASSUME NEW s \in Slots, Answered(s)
      PROVE  PagesInv'
  BY <1>9, ListAnsweredInv, CreateAnsweredInv, GetAnsweredInv, UpdateAnsweredInv DEF Answered
<1>10. ASSUME NEW s \in Slots, Lost(s)
       PROVE  PagesInv'
  BY <1>10, LostInv
<1>11. CASE SearchTimer \/ ReloadList
  BY <1>11, LoadsInv
<1>. QED BY <1>1, <1>2, <1>3, <1>4, <1>5, <1>6, <1>7, <1>8, <1>9, <1>10, <1>11 DEF Next

LEMMA PagesInvariance == Spec => []PagesInv
BY PagesInit, PagesStep, PTL DEF Spec

\* What the pages remember and the requests under way keep their types.
THEOREM PagesTyped == Spec => []TypeOK
<1>1. PagesInv => TypeOK
  BY DEF PagesInv
<1>. QED BY <1>1, PagesInvariance, PTL

\* A list that is neither loading nor about to, after typing, shows what its tab, filter, search
\* and page number say, in whatever order answers come in (pages/my-errands.vue:126-154,
\* pages/suppliers.vue:200-264).
THEOREM ListsMatchQueries == Spec => []ListMatchesQuery
<1>1. PagesInv => ListMatchesQuery
  BY DEF PagesInv
<1>. QED BY <1>1, PagesInvariance, PTL

\* What the user filled in once becomes one errand, however often it is submitted after failures
\* (pages/request-errand.vue:452-463).
THEOREM DraftsMakeOneOrder == Spec => []OneOrderPerDraft
<1>1. PagesInv => OneOrderPerDraft
  BY DEF PagesInv, KeysKept
<1>. QED BY <1>1, PagesInvariance, PTL
=============================================================================
