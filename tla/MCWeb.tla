------------------------------- MODULE MCWeb -------------------------------
(***************************************************************************)
(* One tab, a part of it at a time: a plan, chosen at the start and never  *)
(* changed, says what the user and the others do.  The session and the     *)
(* pages are plans of their own, since the pages know no tokens.  A plan   *)
(* never holds back what fairness promises: answers, timers, the router.   *)
(***************************************************************************)
EXTENDS WebSession, WebPages, TLC

CONSTANTS all, found, foundPage2  \* what the list shows

\* The suppliers: all of them, and a search of two pages.
MCFirstPage == (all :> all) @@ (found :> found) @@ (foundPage2 :> found)

VARIABLE plan

Plans == {"session", "list", "form", "errand", "errands"}

\* Which pages a plan opens ...
Opens ==
  CASE plan = "list" -> page' \in {"list", "form"}
    [] plan = "form" -> page' # "errand" \/ view'.address \in Keys
    [] plan = "errand" -> /\ ~form'.submitting
                          /\ page' \in IF form'.draft = 0 THEN {"form", "errand"} ELSE {"form"}
    [] plan = "errands" -> page' # "list" /\ form'.draft = 0

\* ... and what becomes of the errands.
Becomes ==
  CASE plan \in {"list", "form"} -> errand' = errand
    [] plan = "errand" -> \A e \in Keys : errand'[e] = errand[e]
    [] plan = "errands" -> \A e \in Errands : errand'[e].status \in
         IF e \in Keys THEN {"PENDING", "REJECTED"} ELSE {"PENDING", "OPEN", "ACCEPTED", "CANCELLED"}

\* What the viewer is to the listed errand matters where it opens.
Roles ==
  CASE plan = "errand" -> {"requester", "courier"}
    [] plan = "errands" -> {"courier"}
    [] OTHER -> {"requester"}

MCInit == SessionInit /\ Init /\ plan \in Plans /\ role \in Roles

MCNext ==
  /\ \/ plan = "session" /\ SessionNext /\ UNCHANGED vars
     \/ plan # "session" /\ Next /\ Opens /\ Becomes /\ UNCHANGED session
  /\ UNCHANGED plan

MCSpec == MCInit /\ [][MCNext]_<<session, vars, plan>> /\ SessionFairness /\ Fairness
=============================================================================
