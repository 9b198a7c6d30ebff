--------------------------- MODULE OrderLifecycle ---------------------------
(***************************************************************************)
(* The life of an errand in the order service, one atomic step per change  *)
(* of an `orders` row together with the outbox rows its transaction writes *)
(* (order-service/src/prisma/orders.ts: createOrder, transitionOrder,      *)
(* expireDueOrders).  OrderService shows that the HTTP handlers and the    *)
(* consumer, which read first and update later, implement these steps;     *)
(* ErrandSystem composes them with the credit service.                     *)
(***************************************************************************)
EXTENDS Integers

CONSTANTS Users,    \* user ids
          Errands,  \* order ids
          Amounts,  \* the bounties an errand may carry
          NoUser    \* the null of the nullable courierId column

ASSUME OrderAssumption ==
    /\ NoUser \notin Users
    /\ Amounts \subseteq Nat \ {0}

VARIABLES order,       \* the orders row of each errand, NoOrder if there is none
          overdue,     \* the errands whose expiresAt has passed
          orderOutbox  \* the outbox rows that wait for the credit service

lifecycle == <<order, overdue, orderOutbox>>

Active == {"OPEN", "ACCEPTED", "COLLECTED"}
RefundStatus == {"REJECTED", "CANCELLED", "EXPIRED"}
Terminal == RefundStatus \cup {"DELIVERED"}
Status == {"PENDING"} \cup Active \cup Terminal

NoOrder == [status |-> "NONE", requester |-> NoUser, courier |-> NoUser, bounty |-> 0]
OrderRow == [status: Status, requester: Users, courier: Users \cup {NoUser}, bounty: Amounts]

-----------------------------------------------------------------------------
\* The messages to the credit service (rabbitmq/events.ts).
Created(e, r, a) == [topic |-> "order.created", errand |-> e, user |-> r, amount |-> a]
Accepted(e, c) == [topic |-> "order.accepted", errand |-> e, user |-> c, amount |-> 0]
Completed(e) == [topic |-> "order.completed", errand |-> e, user |-> NoUser, amount |-> 0]
Cancelled(e) == [topic |-> "order.cancelled", errand |-> e, user |-> NoUser, amount |-> 0]

OrderEvent ==
    [topic: {"order.created", "order.accepted", "order.completed", "order.cancelled"},
     errand: Errands, user: Users \cup {NoUser}, amount: Amounts \cup {0}]

\* enqueueEvents, in the transaction of the change.
Queue(events) == orderOutbox' = orderOutbox \cup events

LifecycleInit ==
    /\ order = [e \in Errands |-> NoOrder]
    /\ overdue = {}
    /\ orderOutbox = {}

\* createOrder: the row and its order.created event in one transaction.
Create(e, r, a) ==
    /\ order[e] = NoOrder
    /\ order' = [order EXCEPT ![e] =
                    [status |-> "PENDING", requester |-> r, courier |-> NoUser, bounty |-> a]]
    /\ Queue({Created(e, r, a)})
    /\ UNCHANGED overdue

\* transitionOrder: one conditional UPDATE and its events; nothing at all if it matches no row.
Transition(e, from, row, events, beforeDeadline) ==
    /\ order[e].status = from
    /\ beforeDeadline => e \notin overdue
    /\ order' = [order EXCEPT ![e] = row]
    /\ Queue(events)
    /\ UNCHANGED overdue

Moved(e, to) == [order[e] EXCEPT !.status = to]

Open(e) == Transition(e, "PENDING", Moved(e, "OPEN"), {}, FALSE)
Reject(e) == Transition(e, "PENDING", Moved(e, "REJECTED"), {}, FALSE)

Accept(e, c) ==
    /\ c # order[e].requester
    /\ Transition(e, "OPEN", [Moved(e, "ACCEPTED") EXCEPT !.courier = c], {Accepted(e, c)}, TRUE)

\* Mutant: without clearCourier.
UndoKeepsCourier(e) == Transition(e, "ACCEPTED", Moved(e, "OPEN"), {}, FALSE)

\* The credit service does not know the courier: the errand is open again.
UndoAccept(e) ==
    Transition(e, "ACCEPTED", [Moved(e, "OPEN") EXCEPT !.courier = NoUser], {}, FALSE)

\* Mutant: the payment is asked for when the item is collected.
CollectAndPay(e) == Transition(e, "ACCEPTED", Moved(e, "COLLECTED"), {Completed(e)}, TRUE)

Collect(e) == Transition(e, "ACCEPTED", Moved(e, "COLLECTED"), {}, TRUE)
Deliver(e) == Transition(e, "COLLECTED", Moved(e, "DELIVERED"), {Completed(e)}, TRUE)

Cancel(e) ==
    \E from \in {"OPEN", "ACCEPTED"} :
        Transition(e, from, Moved(e, "CANCELLED"), {Cancelled(e)}, FALSE)

\* Mutant of Due: all errands that were not cancelled.
DeliveredDue == {e \in overdue : order[e].status \in Active \cup {"DELIVERED"}}

\* expireDueOrders: one UPDATE over all the orders that are due.
Due == {e \in overdue : order[e].status \in Active}

\* Mutant: an order expires without its refund event.
ExpireSilently ==
    /\ Due # {}
    /\ order' = [e \in Errands |-> IF e \in Due THEN Moved(e, "EXPIRED") ELSE order[e]]
    /\ UNCHANGED <<overdue, orderOutbox>>

ExpireDue ==
    /\ Due # {}
    /\ order' = [e \in Errands |-> IF e \in Due THEN Moved(e, "EXPIRED") ELSE order[e]]
    /\ Queue({Cancelled(e) : e \in Due})
    /\ UNCHANGED overdue

\* A hold was placed for an order that is over: its refund is asked for (again).
RefundOrphan(e) ==
    /\ order[e].status \in RefundStatus
    /\ Queue({Cancelled(e)})
    /\ UNCHANGED <<order, overdue>>

DeadlinePasses(e) ==
    /\ order[e] # NoOrder
    /\ e \notin overdue
    /\ overdue' = overdue \cup {e}
    /\ UNCHANGED <<order, orderOutbox>>

LifecycleNext ==
    \/ \E e \in Errands, r \in Users, a \in Amounts : Create(e, r, a)
    \/ \E e \in Errands, c \in Users : Accept(e, c)
    \/ \E e \in Errands :
          \/ Open(e) \/ Reject(e) \/ UndoAccept(e) \/ Collect(e) \/ Deliver(e)
          \/ Cancel(e) \/ RefundOrphan(e) \/ DeadlinePasses(e)
    \/ ExpireDue

LifecycleSpec == LifecycleInit /\ [][LifecycleNext]_lifecycle

-----------------------------------------------------------------------------
LifecycleTypeOK ==
    /\ order \in [Errands -> OrderRow \cup {NoOrder}]
    /\ overdue \subseteq Errands
    /\ orderOutbox \subseteq OrderEvent

\* An errand has a courier from the moment it is accepted until an undone accept, the
\* courier is not its requester, and nobody carries an errand that was never funded.
CourierMatchesStatus ==
    \A e \in Errands :
        /\ order[e].status \in {"ACCEPTED", "COLLECTED", "DELIVERED"} => order[e].courier # NoUser
        /\ order[e].status \in {"PENDING", "OPEN", "REJECTED"} => order[e].courier = NoUser
        /\ order[e].courier # NoUser => order[e].courier # order[e].requester

\* The outbox asks for a payment only of a delivered errand, for a refund only of one that
\* ended otherwise, and it asks for a refund of every errand that was cancelled or expired
\* (the events are written by the transaction that changes the status).
EventsMatchStatus ==
    \A e \in Errands :
        /\ Completed(e) \in orderOutbox <=> order[e].status = "DELIVERED"
        /\ Cancelled(e) \in orderOutbox => order[e].status \in RefundStatus
        /\ order[e].status \in {"CANCELLED", "EXPIRED"} => Cancelled(e) \in orderOutbox
        /\ order[e].courier # NoUser => Accepted(e, order[e].courier) \in orderOutbox

\* The arrows of the lifecycle (controller/order.ts:238-243); a courier is only replaced
\* through OPEN, and an order that is over never changes again.
Arrows ==
    {<<"NONE", "PENDING">>, <<"PENDING", "OPEN">>, <<"PENDING", "REJECTED">>,
     <<"OPEN", "ACCEPTED">>, <<"OPEN", "CANCELLED">>, <<"OPEN", "EXPIRED">>,
     <<"ACCEPTED", "OPEN">>, <<"ACCEPTED", "COLLECTED">>, <<"ACCEPTED", "CANCELLED">>,
     <<"ACCEPTED", "EXPIRED">>, <<"COLLECTED", "DELIVERED">>, <<"COLLECTED", "EXPIRED">>}

OrderHistory(old, new) ==
    \/ old = new
    \/ /\ <<old.status, new.status>> \in Arrows
       /\ old.status # "NONE" => new.requester = old.requester /\ new.bounty = old.bounty
       /\ new.courier = old.courier \/ "OPEN" \in {old.status, new.status}

FollowsLifecycle == [][\A e \in Errands : OrderHistory(order[e], order'[e])]_order
=============================================================================
