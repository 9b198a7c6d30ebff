----------------------------- MODULE WebPages -----------------------------
(***************************************************************************)
(* The pages of one signed-in user: a list that reloads itself, the form   *)
(* that requests an errand, and the page of an errand, which polls the     *)
(* order service and sends the viewer's own steps.  Requests are handled   *)
(* by the service at one moment and answered at a later one, so answers    *)
(* overtake each other; a connection may be lost before or after the       *)
(* service handled the request.  A page that is left is gone, and answers  *)
(* to it change nothing; but from one errand to another the page stays and *)
(* only its address changes.  What the HTTP client does with tokens is     *)
(* WebSession's matter: here a request has an answer or it failed.         *)
(***************************************************************************)
EXTENDS Naturals

CONSTANTS Slots,      \* requests that may be under way together
          Queries,    \* what a list can show: a tab, a filter, a search, a page number
          FirstPage,  \* of each query, the same with the first page
          Start,      \* the query a list starts from
          Listed,     \* errands that are found in the lists from the beginning
          None,
          MaxKeys,    \* bound: errands the user starts to fill in
          MaxFaults   \* bound: lost connections

Keys == 0..MaxKeys

\* An errand that the form makes has its key for a name.
Errands == Listed \cup Keys

ASSUME QueriesAssumption ==
  /\ FirstPage \in [Queries -> Queries]
  /\ Start \in Queries /\ FirstPage[Start] = Start
  /\ None \notin Queries \cup Slots
ASSUME BoundsAssumption == MaxKeys \in Nat /\ MaxFaults \in Nat
ASSUME ListedAssumption == Listed \cap Keys = {} /\ None \notin Errands

VARIABLES page,      \* the page that is mounted
          requests,  \* per slot: the request under way
          list,      \* the list page
          form,      \* the request form
          view,      \* the errand page: its address, what it shows
          errand,    \* in the order service: each errand
          orders,    \* in the order service: the errands the form made
          role,      \* what the viewer is to the listed errands
          faults

tab == <<page, requests, list, form, view>>
vars == <<page, requests, list, form, view, errand, orders, role, faults>>

Statuses == {"PENDING", "OPEN", "ACCEPTED", "COLLECTED",
             "REJECTED", "DELIVERED", "CANCELLED", "EXPIRED"}
Ended == {"REJECTED", "DELIVERED", "CANCELLED", "EXPIRED"}

ASSUME NoneAssumption == None \notin Statuses \cup {"list", "create", "get", "update", "404", "409"}

\* The errands polled by the page, one status forgotten.
ActiveButCollected == {"PENDING", "OPEN", "ACCEPTED"}

Active == {"PENDING", "OPEN", "ACCEPTED", "COLLECTED"}

NoRequest == [kind |-> None]
Free == {s \in Slots : requests[s] = NoRequest}

Closed == [address |-> None, order |-> None, updating |-> FALSE]
Fresh(slot) ==
  [query |-> Start, shown |-> None, latest |-> slot, failed |-> FALSE, typing |-> FALSE]
Blank(key, draft) == [key |-> key, draft |-> draft, submitting |-> FALSE]

\* A request under way, what the service answered, and whether its page is gone.
ListRequest == [kind: {"list"}, query: Queries, gone: BOOLEAN]
CreateRequest == [kind: {"create"}, answer: {None, "PENDING"}, key: Keys, draft: Keys, gone: BOOLEAN]
GetRequest ==
  [kind: {"get"}, of: Errands, answer: Statuses \cup {None, "404"}, after: BOOLEAN, gone: BOOLEAN]
UpdateRequest ==
  [kind: {"update"}, of: Errands, answer: Statuses \cup {None, "409"}, target: Statuses, gone: BOOLEAN]
Request == {NoRequest} \cup ListRequest \cup CreateRequest \cup GetRequest \cup UpdateRequest

\* An errand as a page shows it.
Order == [id: Errands, status: Statuses]

TypeOK ==
  /\ page \in {"list", "form", "errand"}
  /\ requests \in [Slots -> Request]
  /\ list \in [query: Queries, shown: Queries \cup {None}, latest: Slots \cup {None},
              failed: BOOLEAN, typing: BOOLEAN]
  /\ form \in [key: Keys, draft: Keys, submitting: BOOLEAN]
  /\ view \in [address: Errands \cup {None}, order: Order \cup {None}, updating: BOOLEAN]
  /\ errand \in [Errands -> [status: Statuses, mine: BOOLEAN]]
  /\ orders \in SUBSET [key: Keys, draft: Keys]
  /\ role \in {"requester", "courier"}
  /\ faults \in 0..MaxFaults

Init ==
  /\ page = "form"
  /\ requests = [s \in Slots |-> NoRequest]
  /\ list = Fresh(None)
  /\ form = Blank(0, 0)
  /\ view = Closed
  /\ errand = [e \in Errands |-> [status |-> "PENDING", mine |-> FALSE]]
  /\ orders = {}
  /\ role \in {"requester", "courier"}
  /\ faults = 0

--------------------------------------------------------------------------
(* Requests.  The answers to a page that is gone change nothing any more. *)

Send(s, request) == requests' = [requests EXCEPT ![s] = request]
Done(s) == requests' = [requests EXCEPT ![s] = NoRequest]

\* The first free slot, so that slots are interchangeable.
NextSlot == CHOOSE s \in Free : TRUE

Left == [s \in Slots |->
  IF requests[s] = NoRequest THEN NoRequest ELSE [requests[s] EXCEPT !.gone = TRUE]]

Get(e, thenReady) == [kind |-> "get", of |-> e, answer |-> None, after |-> thenReady, gone |-> FALSE]
Update(e, target) == [kind |-> "update", of |-> e, answer |-> None, target |-> target, gone |-> FALSE]
Create == [kind |-> "create", answer |-> None, key |-> form.key, draft |-> form.draft, gone |-> FALSE]
List(query) == [kind |-> "list", query |-> query, gone |-> FALSE]

\* The mounted page is left for a list or the form, which start afresh.  (A search timer still
\* running sends a request whose answer nobody sees.)
Navigate(target) ==
  /\ target # page
  /\ Free # {}
  /\ page' = target
  /\ view' = Closed
  /\ \/ /\ target = "list"
        /\ list' = Fresh(NextSlot)
        /\ requests' = [Left EXCEPT ![NextSlot] = List(Start)]
        /\ form' = [form EXCEPT !.submitting = FALSE]
     \/ /\ target = "form"
        /\ form.draft < MaxKeys
        /\ list' = Fresh(None)
        /\ requests' = Left
        /\ form' = Blank(form.key + 1, form.draft + 1)
  /\ UNCHANGED <<errand, orders, role, faults>>

\* The page of an errand opens, its GET in slot s.  From one errand to another the page is
\* the same and stays: so do its requests, the button and the timer.
Open(e, s) ==
  /\ page' = "errand"
  /\ view' = [view EXCEPT !.address = e, !.order = None]
  /\ list' = Fresh(None)
  /\ form' = [form EXCEPT !.submitting = FALSE]
  /\ requests' = [(IF page = "errand" THEN requests ELSE Left) EXCEPT ![s] = Get(e, FALSE)]

Made == {o.key : o \in orders}

\* By a link in a list, or backwards and forwards in the history.
OpenErrand(e) ==
  /\ e \in Listed \cup Made
  /\ view.address # e
  /\ Free # {}
  /\ Open(e, NextSlot)
  /\ UNCHANGED <<errand, orders, role, faults>>

--------------------------------------------------------------------------
(* A list page: my errands, open errands, suppliers, an admin's view of a user. *)

Load(query, typing) ==
  /\ Free # {}
  /\ list' = [list EXCEPT !.query = query, !.latest = NextSlot, !.typing = typing]
  /\ Send(NextSlot, List(query))
  /\ UNCHANGED <<page, form, view, errand, orders, role, faults>>

\* Another tab or filter, which starts at its first page, or another page of the same.
ChangeQuery(query) ==
  /\ page = "list"
  /\ query # list.query
  /\ FirstPage[query] \in {query, FirstPage[list.query]}
  /\ Load(query, list.typing)

\* A search is typed; nothing is asked for until the timer, set anew, has run out.  Until
\* then the list stays what it is, and an answer under way is still the latest.
ChangeSearch(query) ==
  /\ page = "list"
  /\ FirstPage[query] # FirstPage[list.query]
  /\ list' = [list EXCEPT !.query = query, !.typing = TRUE]
  /\ UNCHANGED <<page, requests, form, view, errand, orders, role, faults>>

SearchTimer ==
  /\ page = "list"
  /\ list.typing
  /\ Load(FirstPage[list.query], FALSE)

\* Every 30 s, unless the list is loading.  Lists that reload themselves have no search.
ReloadList ==
  /\ page = "list"
  /\ list.latest = None
  /\ ~list.typing
  /\ Load(list.query, FALSE)

\* Answers are taken as they come.
AnyAnswer(s) == TRUE

\* Answers to requests superseded by a newer one are ignored.
Latest(s) == list.latest = s

\* The last errand of a later page is gone: the list, one without a search, goes back to a
\* page that is there and loads again.
ListAnswered(s) ==
  /\ requests[s].kind = "list"
  /\ \/ /\ requests[s].gone \/ ~Latest(s)
        /\ Done(s)
        /\ UNCHANGED list
     \/ /\ ~requests[s].gone /\ Latest(s)
        /\ list' = [list EXCEPT !.shown = requests[s].query, !.latest = None, !.failed = FALSE]
        /\ Done(s)
     \/ /\ ~requests[s].gone /\ Latest(s) /\ ~list.typing
        /\ \E query \in Queries \ {list.query} :
             /\ FirstPage[query] = FirstPage[list.query]
             /\ list' = [list EXCEPT !.query = query, !.shown = requests[s].query, !.failed = FALSE]
             /\ Send(s, List(query))
        /\ list.query # FirstPage[list.query]
  /\ UNCHANGED <<page, form, view, errand, orders, role, faults>>

--------------------------------------------------------------------------
(* The request form. *)

Submit ==
  /\ page = "form"
  /\ ~form.submitting
  /\ Free # {}
  /\ form' = [form EXCEPT !.submitting = TRUE]
  /\ Send(NextSlot, Create)
  /\ UNCHANGED <<page, list, view, errand, orders, role, faults>>

\* "Clear": another errand, another key.
ResetForm ==
  /\ page = "form"
  /\ ~form.submitting
  /\ form.draft < MaxKeys
  /\ form' = Blank(form.key + 1, form.draft + 1)
  /\ UNCHANGED <<page, requests, list, view, errand, orders, role, faults>>

\* The order service answers a known key with the errand it made for it.
CreateServed(s) ==
  /\ requests[s].kind = "create"
  /\ requests[s].answer = None
  /\ orders' = IF \E o \in orders : o.key = requests[s].key
               THEN orders
               ELSE orders \cup {[key |-> requests[s].key, draft |-> requests[s].draft]}
  /\ requests' = [requests EXCEPT ![s].answer = "PENDING"]
  /\ UNCHANGED <<page, list, form, view, errand, role, faults>>

\* The next errand gets a fresh key, and the new errand's page opens, even when the
\* user has left the form, for the page of another errand perhaps.
CreateAnswered(s) ==
  /\ requests[s].kind = "create"
  /\ requests[s].answer # None
  /\ \/ /\ view.address # requests[s].key
        /\ Open(requests[s].key, s)
     \/ /\ view.address = requests[s].key
        /\ Done(s)
        /\ UNCHANGED <<page, list, form, view>>
  /\ UNCHANGED <<errand, orders, role, faults>>

\* Every attempt has a key of its own.
KeyAfterEachFailure(key) == IF key < MaxKeys THEN key + 1 ELSE key

\* A failed attempt keeps its key: the service may have made the errand.
KeyAfterFailure(key) == key

--------------------------------------------------------------------------
(* The page of an errand. *)

LoadOrder(thenReady) == Send(NextSlot, Get(view.order.id, thenReady))

Shows(e) == page = "errand" /\ view.order # None /\ view.order.id = e

\* Every 10 s while the errand shown is active and no step is being sent: the errand shown is
\* asked for, not the one of the address.
Refresh ==
  /\ \E e \in Errands : Shows(e) /\ view.order.status \in Active
  /\ ~view.updating
  /\ Free # {}
  /\ LoadOrder(FALSE)
  /\ UNCHANGED <<page, list, form, view, errand, orders, role, faults>>

\* Just after the errand shown has expired; a PENDING one has no deadline yet.
ExpiryReload ==
  /\ \E e \in Errands : Shows(e) /\ errand[e].status = "EXPIRED"
  /\ view.order.status \in Active \ {"PENDING"}
  /\ Free # {}
  /\ LoadOrder(FALSE)
  /\ UNCHANGED <<page, list, form, view, errand, orders, role, faults>>

\* What the viewer is to an errand.
Role(e) == IF e \in Listed THEN role ELSE "requester"

\* The steps the page offers, from what it shows.
AvailableActions(order) ==
  IF Role(order.id) = "requester"
  THEN IF order.status \in {"OPEN", "ACCEPTED"} THEN {"CANCELLED"} ELSE {}
  ELSE CASE order.status = "OPEN" -> {"ACCEPTED"}
         [] order.status = "ACCEPTED" -> {"COLLECTED"}
         [] order.status = "COLLECTED" -> {"DELIVERED"}
         [] OTHER -> {}

ConfirmAction(target) ==
  /\ page = "errand" /\ view.order # None
  /\ ~view.updating
  /\ target \in AvailableActions(view.order)
  /\ Free # {}
  /\ view' = [view EXCEPT !.updating = TRUE]
  /\ Send(NextSlot, Update(view.order.id, target))
  /\ UNCHANGED <<page, list, form, errand, orders, role, faults>>

\* Who may see an errand: its parties, and everybody while it is open.
Visible(e) == Role(e) = "requester" \/ errand[e].mine \/ errand[e].status = "OPEN"

GetServed(s) ==
  /\ requests[s].kind = "get"
  /\ requests[s].answer = None
  /\ LET e == requests[s].of IN
     requests' = [requests EXCEPT ![s].answer = IF Visible(e) THEN errand[e].status ELSE "404"]
  /\ UNCHANGED <<page, list, form, view, errand, orders, role, faults>>

\* The errand's next status on its way, and who may take it there.
Step(e, target) ==
  LET from == errand[e].status IN
  \/ from = "OPEN" /\ target = "ACCEPTED" /\ Role(e) = "courier"
  \/ from = "ACCEPTED" /\ target = "COLLECTED" /\ errand[e].mine
  \/ from = "COLLECTED" /\ target = "DELIVERED" /\ errand[e].mine
  \/ from \in {"OPEN", "ACCEPTED"} /\ target = "CANCELLED" /\ Role(e) = "requester"

\* Delivering twice gets the errand as it is; any other step out of turn is refused.
UpdateServed(s) ==
  /\ requests[s].kind = "update"
  /\ requests[s].answer = None
  /\ LET e == requests[s].of
         target == requests[s].target
     IN IF Step(e, target)
        THEN /\ errand' = [errand EXCEPT
                  ![e] = [status |-> target, mine |-> @.mine \/ Role(e) = "courier"]]
             /\ requests' = [requests EXCEPT ![s].answer = target]
        ELSE /\ UNCHANGED errand
             /\ requests' = [requests EXCEPT ![s].answer =
                  IF /\ target = "DELIVERED"
                     /\ errand[e].status = target /\ errand[e].mine
                  THEN target ELSE "409"]
  /\ UNCHANGED <<page, list, form, view, orders, role, faults>>

\* Whatever errand the answer is about, it is shown.
Answering(s) ==
  IF requests[s].answer = "404" THEN None
  ELSE [id |-> requests[s].of, status |-> requests[s].answer]

GetAnswered(s) ==
  /\ requests[s].kind = "get"
  /\ requests[s].answer # None
  /\ view' = IF requests[s].gone THEN view
             ELSE [view EXCEPT !.order = Answering(s), !.updating = @ /\ ~requests[s].after]
  /\ Done(s)
  /\ UNCHANGED <<page, list, form, errand, orders, role, faults>>

\* The button stays disabled when the page has lost its errand meanwhile.
StuckWithoutOrder(s) ==
  IF view.order = None
  THEN Done(s) /\ UNCHANGED view
  ELSE Send(s, Get(view.order.id, TRUE)) /\ UNCHANGED view

\* A refused step reloads the errand shown by now and only then frees the button; if a
\* refresh has meanwhile found it gone, or another errand is loading, there is nothing to
\* reload, and the handler throws.
Refused(s) ==
  IF view.order = None
  THEN Done(s) /\ view' = [view EXCEPT !.updating = FALSE]
  ELSE Send(s, Get(view.order.id, TRUE)) /\ UNCHANGED view

UpdateAnswered(s) ==
  /\ requests[s].kind = "update"
  /\ requests[s].answer # None
  /\ \/ requests[s].gone /\ Done(s) /\ UNCHANGED view
     \/ /\ ~requests[s].gone /\ requests[s].answer = "409"
        /\ Refused(s)
     \/ /\ ~requests[s].gone /\ requests[s].answer # "409"
        /\ view' = [view EXCEPT !.order = Answering(s), !.updating = FALSE]
        /\ Done(s)
  /\ UNCHANGED <<page, list, form, errand, orders, role, faults>>

--------------------------------------------------------------------------
(* Lost connections, and the other users. *)

Lost(s) ==
  /\ requests[s] # NoRequest
  /\ faults < MaxFaults
  /\ faults' = faults + 1
  /\ \/ requests[s].gone /\ Done(s) /\ UNCHANGED <<list, form, view>>
     \/ /\ ~requests[s].gone /\ requests[s].kind = "list"
        /\ list' = IF Latest(s) THEN [list EXCEPT !.latest = None, !.failed = TRUE] ELSE list
        /\ Done(s)
        /\ UNCHANGED <<form, view>>
     \/ /\ ~requests[s].gone /\ requests[s].kind = "create"
        /\ form' = [form EXCEPT !.submitting = FALSE, !.key = KeyAfterFailure(@)]
        /\ Done(s)
        /\ UNCHANGED <<list, view>>
     \/ /\ ~requests[s].gone /\ requests[s].kind = "get"
        /\ view' = [view EXCEPT !.updating = @ /\ ~requests[s].after]
        /\ Done(s)
        /\ UNCHANGED <<list, form>>
     \/ /\ ~requests[s].gone /\ requests[s].kind = "update"
        /\ Refused(s)
        /\ UNCHANGED <<list, form>>
  /\ UNCHANGED <<page, errand, orders, role>>

Others(e) ==
  CASE errand[e].status = "PENDING" -> {"OPEN", "REJECTED"}
    [] errand[e].status = "OPEN" -> {"ACCEPTED", "EXPIRED"}
    [] errand[e].status = "ACCEPTED" -> {"EXPIRED"} \cup IF errand[e].mine THEN {} ELSE {"COLLECTED"}
    [] errand[e].status = "COLLECTED" -> {"EXPIRED"} \cup IF errand[e].mine THEN {} ELSE {"DELIVERED"}
    [] OTHER -> {}

\* The last: an acceptance of a courier without an account is undone.
OthersAct(e) ==
  /\ e \in Listed \cup Made
  /\ \/ \E target \in Others(e) : errand' = [errand EXCEPT ![e].status = target]
     \/ /\ Role(e) = "courier"
        /\ errand[e].status \in {"OPEN", "ACCEPTED"}
        /\ errand' = [errand EXCEPT ![e].status = "CANCELLED"]
     \/ /\ errand[e].status = "ACCEPTED"
        /\ errand' = [errand EXCEPT ![e] = [status |-> "OPEN", mine |-> FALSE]]
  /\ UNCHANGED <<tab, orders, role, faults>>

--------------------------------------------------------------------------
Served(s) == CreateServed(s) \/ GetServed(s) \/ UpdateServed(s)
Answered(s) == ListAnswered(s) \/ CreateAnswered(s) \/ GetAnswered(s) \/ UpdateAnswered(s)

Next ==
  \/ \E target \in {"list", "form"} : Navigate(target)
  \/ \E e \in Errands : OpenErrand(e) \/ OthersAct(e)
  \/ \E query \in Queries : ChangeQuery(query) \/ ChangeSearch(query)
  \/ SearchTimer
  \/ ReloadList
  \/ Submit
  \/ ResetForm
  \/ Refresh
  \/ ExpiryReload
  \/ \E target \in Statuses : ConfirmAction(target)
  \/ \E s \in Slots : Served(s) \/ Answered(s) \/ Lost(s)

\* Requests are handled and answered, and the timer of the errand page runs.
Fairness ==
  /\ \A s \in Slots : WF_vars(Served(s)) /\ WF_vars(Answered(s))
  /\ WF_vars(Refresh)

Spec == Init /\ [][Next]_vars
FairSpec == Spec /\ Fairness

--------------------------------------------------------------------------
(* Properties. *)

\* A list that is neither loading nor about to, because a search was typed just now, shows
\* what its tab, filter, search and page number say, in whatever order the answers to earlier
\* choices came in; unless its load failed.
ListMatchesQuery ==
  page = "list" /\ list.latest = None /\ ~list.failed /\ ~list.typing => list.shown = list.query

\* One errand at most is made of what the user filled in once, however often it is
\* submitted again after failures that may have come too late.
OneOrderPerDraft == \A o, p \in orders : o.draft = p.draft => o = p

Live(r) == r # NoRequest /\ ~r.gone

\* The errand of the address is shown, and no request about another is left over from the
\* address before.
Settled(e) ==
  /\ Shows(e) /\ view.address = e
  /\ \A s \in Slots : Live(requests[s]) /\ requests[s].kind \in {"get", "update"}
        => requests[s].of = e

\* A viewer who stays on an errand sees that it has ended, unless they may no longer see it
\* at all: an old answer may undo a newer one, but not for good.  While answers about the
\* errand of the address before may still come, the page may go over to that errand for good,
\* and then shows the end of that one; afterwards it stays with the errand of the address.
EndIsShown ==
  \A e \in Errands :
    /\ Shows(e) /\ errand[e].status \in Ended
         ~> ~Shows(e) \/ view.order = [id |-> e, status |-> errand[e].status]
    /\ Settled(e) /\ errand[e].status \in Ended
         ~> view.address # e \/ view.order \in {None, [id |-> e, status |-> errand[e].status]}

\* A button that was pressed can be pressed again in the end, also after a refused
\* step, a lost answer or an errand that went away in between.
ButtonsComeBack ==
  /\ form.submitting ~> ~form.submitting
  /\ view.updating ~> ~view.updating
=============================================================================
