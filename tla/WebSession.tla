---------------------------- MODULE WebSession ----------------------------
(***************************************************************************)
(* One browser tab: the tokens it stores, the HTTP client that refreshes   *)
(* them when a call is refused, the login page and the pages behind it,    *)
(* and the credits that the navigation bar shows.  Answers arrive in any   *)
(* order and late: after a logout, or after another user signed in.        *)
(***************************************************************************)
EXTENDS Naturals

CONSTANTS Users, Nobody,
          Calls,       \* API calls of the pages that may be under way together
          CreditCall,  \* the one call of the credit store
          MaxFailures  \* bound: lost connections and suspensions

ASSUME CreditCallAssumption == CreditCall \in Calls
ASSUME NobodyAssumption == Nobody \notin Users
ASSUME FailuresAssumption == MaxFailures \in Nat

VARIABLES tokens,     \* the stored tokens: whose they are, whether the access token is valid
          refresh,    \* the refreshes under way: shared by all calls, and the invite form's
          calls,      \* the calls under way
          screen,     \* "login", or "app" for any page behind it
          leaving,    \* whether the router has been told to show the login page
          credits,    \* the store: whose balance is shown, and for whom one is loading
          suspended,  \* users the user service refuses to refresh
          failures

session == <<tokens, refresh, calls, screen, leaving, credits, suspended, failures>>

NoTokens == [user |-> Nobody, fresh |-> FALSE]
NoCall == [pc |-> "none", fresh |-> FALSE, retried |-> FALSE]
Refreshers == {"shared", "invite"}

SessionTypeOK ==
  /\ tokens \in [user: Users \cup {Nobody}, fresh: BOOLEAN]
  /\ refresh \in [Refreshers -> Users \cup {Nobody}]
  /\ calls \in [Calls -> [pc: {"none", "sent", "waits"}, fresh: BOOLEAN, retried: BOOLEAN]]
  /\ screen \in {"login", "app"}
  /\ leaving \in BOOLEAN
  /\ credits \in [owner: Users \cup {Nobody}, loading: Users \cup {Nobody}]
  /\ suspended \in SUBSET Users
  /\ failures \in 0..MaxFailures

SessionInit ==
  /\ tokens = NoTokens
  /\ refresh = [k \in Refreshers |-> Nobody]
  /\ calls = [c \in Calls |-> NoCall]
  /\ screen = "login"
  /\ leaving = FALSE
  /\ credits = [owner |-> Nobody, loading |-> Nobody]
  /\ suspended = {}
  /\ failures = 0

Failure == failures < MaxFailures /\ failures' = failures + 1

--------------------------------------------------------------------------
(* The stored tokens. *)

SetTokens(u) == tokens' = [user |-> u, fresh |-> TRUE]

\* Mutant: nobody watches the tokens of an open page.
Unwatched == UNCHANGED leaving

\* The watcher on isAuthenticated sees tokens go while a page that needs them is open, and
\* pushes the login page.  The router takes its own time to show it.
Watched == leaving' = (leaving \/ (screen = "app" /\ tokens # NoTokens))

ClearTokens == tokens' = NoTokens /\ Watched

\* The router shows the login page, but its guard sends who has tokens again to the pages.
Leave ==
  /\ leaving
  /\ leaving' = FALSE
  /\ screen' = IF tokens = NoTokens THEN "login" ELSE screen
  /\ UNCHANGED <<tokens, refresh, calls, credits, suspended, failures>>

\* The access token expires, also for the calls that carry it.
Expire ==
  /\ tokens.fresh
  /\ tokens' = [tokens EXCEPT !.fresh = FALSE]
  /\ calls' = [c \in Calls |-> [calls[c] EXCEPT !.fresh = FALSE]]
  /\ UNCHANGED <<refresh, screen, leaving, credits, suspended, failures>>

Suspend(u) ==
  /\ Failure
  /\ u \notin suspended
  /\ suspended' = suspended \cup {u}
  /\ UNCHANGED <<tokens, refresh, calls, screen, leaving, credits>>

\* The login page may be open although a late refresh has just stored tokens.  The
\* dashboard is pushed next, for the guard to let it open (Visit).
Login(u) ==
  /\ screen = "login"
  /\ u \notin suspended
  /\ SetTokens(u)
  /\ UNCHANGED <<refresh, calls, screen, leaving, credits, suspended, failures>>

\* The router's guard lets any page open as long as there are tokens.
Visit ==
  /\ screen = "login"
  /\ tokens # NoTokens
  /\ screen' = "app"
  /\ UNCHANGED <<tokens, refresh, calls, leaving, credits, suspended, failures>>

\* Forgets both tokens; calls and refreshes under way are not cancelled.  That the menu
\* pushes the login page too changes nothing.
Logout ==
  /\ screen = "app"
  /\ ClearTokens
  /\ UNCHANGED <<refresh, calls, screen, credits, suspended, failures>>

--------------------------------------------------------------------------
(* Calls.  A call carries the token stored at the moment it is sent. *)

\* The repeated call is not marked as such.
Unmarked(retried, token) ==
  [pc |-> "sent", fresh |-> token.fresh, retried |-> FALSE]

Sent(retried, token) ==
  [pc |-> "sent", fresh |-> token.fresh, retried |-> retried]

\* The store goes on "loading" after a failure.
LoadedOrStuck(ok) ==
  [owner |-> IF ok THEN credits.loading ELSE Nobody,
   loading |-> IF ok THEN Nobody ELSE credits.loading]

\* What the credit store makes of its call: the balance, or none when it failed.
\* The user is the one it was asked for, whoever is signed in by now.
Loaded(ok) ==
  [owner |-> IF ok THEN credits.loading ELSE Nobody, loading |-> Nobody]

Finish(c, ok) == credits' = IF c = CreditCall THEN Loaded(ok) ELSE credits

\* A page that is being left may still send a call, without a token.
StartCall(c) ==
  /\ screen = "app"
  /\ c # CreditCall
  /\ calls[c] = NoCall
  /\ calls' = [calls EXCEPT ![c] = Sent(FALSE, tokens)]
  /\ UNCHANGED <<tokens, refresh, screen, leaving, credits, suspended, failures>>

\* The navigation bar reloads the credits of whoever has signed in on every page change, at
\* every change of the user and every 30 s that the tab is visible.
LoadCredits ==
  /\ screen = "app"
  /\ tokens # NoTokens
  /\ credits.loading = Nobody
  /\ credits' = [credits EXCEPT !.loading = tokens.user]
  /\ calls' = [calls EXCEPT ![CreditCall] = Sent(FALSE, tokens)]
  /\ UNCHANGED <<tokens, refresh, screen, leaving, suspended, failures>>

Accepted(c) ==
  /\ calls[c].pc = "sent"
  /\ calls[c].fresh
  /\ calls' = [calls EXCEPT ![c] = NoCall]
  /\ Finish(c, TRUE)
  /\ UNCHANGED <<tokens, refresh, screen, leaving, suspended, failures>>

\* Without a response there is nothing to refresh for.
ConnectionLost(c) ==
  /\ Failure
  /\ calls[c].pc = "sent"
  /\ calls' = [calls EXCEPT ![c] = NoCall]
  /\ Finish(c, FALSE)
  /\ UNCHANGED <<tokens, refresh, screen, leaving, suspended>>

\* A refused call waits for the shared refresh and starts it if there is none; a
\* second refusal, or a refresh without tokens, fails the call.
CallRefused(c) ==
  /\ calls[c].pc = "sent"
  /\ ~calls[c].fresh
  /\ IF calls[c].retried \/ (refresh["shared"] = Nobody /\ tokens = NoTokens)
     THEN /\ calls' = [calls EXCEPT ![c] = NoCall]
          /\ Finish(c, FALSE)
          /\ UNCHANGED refresh
     ELSE /\ calls' = [calls EXCEPT ![c].pc = "waits"]
          /\ refresh' = [refresh EXCEPT !["shared"] = IF @ = Nobody THEN tokens.user ELSE @]
          /\ UNCHANGED credits
  /\ UNCHANGED <<tokens, screen, leaving, suspended, failures>>

--------------------------------------------------------------------------
(* Refreshes. *)

\* An accepted invite refreshes the tokens on its own, outside the shared lock.
InviteRefresh ==
  /\ screen = "app"
  /\ tokens # NoTokens
  /\ refresh["invite"] = Nobody
  /\ refresh' = [refresh EXCEPT !["invite"] = tokens.user]
  /\ UNCHANGED <<tokens, calls, screen, leaving, credits, suspended, failures>>

\* All calls that were refused share one refresh and are repeated after it.
Waiting(k) == IF k = "shared" THEN {c \in Calls : calls[c].pc = "waits"} ELSE {}

Refreshed(k) ==
  /\ refresh[k] \in Users \ suspended
  /\ SetTokens(refresh[k])
  /\ refresh' = [refresh EXCEPT ![k] = Nobody]
  /\ calls' = [c \in Calls |-> IF c \in Waiting(k) THEN Sent(TRUE, tokens') ELSE calls[c]]
  /\ UNCHANGED <<screen, leaving, credits, suspended, failures>>

\* Refused, or no answer: the stored tokens are cleared, whosever they are by now.
RefreshFailed(k) ==
  /\ refresh[k] # Nobody
  /\ \/ refresh[k] \in suspended /\ UNCHANGED failures
     \/ Failure
  /\ ClearTokens
  /\ refresh' = [refresh EXCEPT ![k] = Nobody]
  /\ calls' = [c \in Calls |-> IF c \in Waiting(k) THEN NoCall ELSE calls[c]]
  /\ credits' = IF CreditCall \in Waiting(k) THEN Loaded(FALSE) ELSE credits
  /\ UNCHANGED <<screen, suspended>>

--------------------------------------------------------------------------
Answer(c) == Accepted(c) \/ CallRefused(c)
RefreshAnswer(k) == Refreshed(k) \/ RefreshFailed(k)

SessionNext ==
  \/ Expire
  \/ \E u \in Users : Suspend(u) \/ Login(u)
  \/ Visit
  \/ Leave
  \/ Logout
  \/ \E c \in Calls : StartCall(c) \/ Answer(c) \/ ConnectionLost(c)
  \/ LoadCredits
  \/ InviteRefresh
  \/ \E k \in Refreshers : RefreshAnswer(k)

\* Answers arrive in the end, the router does what it was told, and the navigation bar
\* keeps its timer.
SessionFairness ==
  /\ WF_session(Leave)
  /\ \A c \in Calls : WF_session(Answer(c))
  /\ \A k \in Refreshers : WF_session(RefreshAnswer(k))
  /\ WF_session(LoadCredits)

SessionSpec == SessionInit /\ [][SessionNext]_session
FairSessionSpec == SessionSpec /\ SessionFairness

--------------------------------------------------------------------------
(* Properties. *)

\* Whatever clears the tokens, and whenever, the pages behind the login page are left in the
\* end, unless there are tokens again (initCredentialWatcher and the router's guard): the
\* watcher hears of changes only, and a late refresh may store and clear tokens meanwhile.
PagesAreLeft == screen = "app" /\ tokens = NoTokens ~> screen = "login" \/ tokens # NoTokens

\* Every call ends: a refused one is repeated once, however often tokens expire, and none
\* waits for a refresh that nobody is making.
RequestsEnd == \A c \in Calls : calls[c].pc # "none" ~> calls[c].pc = "none"

SignedIn(u) == screen = "app" /\ tokens.user = u

\* A user who stays signed in sees their own balance again and again, although answers
\* meant for the user before them, failures and refreshes come in between; provided that
\* their tab is visible again and again, so that the timer counts, and that from some time
\* on no access token expires, so that the calls are not all overtaken by it.
BalanceCatchesUp ==
  \A u \in Users :
    <>[]SignedIn(u) /\ <>[][tokens.fresh => tokens'.fresh]_session => []<>(credits.owner = u)
=============================================================================
