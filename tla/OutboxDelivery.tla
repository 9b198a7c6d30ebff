--------------------------- MODULE OutboxDelivery ---------------------------
(***************************************************************************)
(* What an outbox promises to the services that write rows into it, without *)
(* connections, transactions or relays.  A row waits until a relay is done  *)
(* with it; meanwhile the queue of the receiving service gets any number of *)
(* copies.  Of an assured row (the order service's, whose relay never gives *)
(* up and publishes mandatorily) at least one copy is there when the row    *)
(* counts as sent.  Other rows (the user service's) may be abandoned, and   *)
(* may count as sent although no queue took them.                           *)
(***************************************************************************)
EXTENDS Naturals

CONSTANTS Rows,    \* the rows that may be written
          Assured  \* those that must arrive

VARIABLES waiting,   \* rows written and not done with
          sent,      \* rows that count as delivered
          abandoned, \* rows given up
          copies     \* copies of each row the receiving queue took

vars == <<waiting, sent, abandoned, copies>>

Init ==
    /\ waiting = {} /\ sent = {} /\ abandoned = {}
    /\ copies = [r \in Rows |-> 0]

Write(r) ==
    /\ r \notin waiting \cup sent \cup abandoned
    /\ waiting' = waiting \cup {r}
    /\ UNCHANGED <<sent, abandoned, copies>>

\* A copy arrives, late ones included.
Arrive(r) ==
    /\ r \in waiting \cup sent \cup abandoned
    /\ copies' = [copies EXCEPT ![r] = @ + 1]
    /\ UNCHANGED <<waiting, sent, abandoned>>

\* A batch of rows is done with at once.
Conclude(done, lost) ==
    /\ done \cup lost # {}
    /\ done \cup lost \subseteq waiting
    /\ done \cap lost = {}
    /\ \A r \in done \cap Assured : copies[r] > 0
    /\ lost \cap Assured = {}
    /\ waiting' = waiting \ (done \cup lost)
    /\ sent' = sent \cup done
    /\ abandoned' = abandoned \cup lost
    /\ UNCHANGED copies

Next ==
    \/ \E r \in Rows : Write(r) \/ Arrive(r)
    \/ \E done, lost \in SUBSET Rows : Conclude(done, lost)

Spec == Init /\ [][Next]_vars
=============================================================================
