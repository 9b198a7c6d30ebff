-------------------------- MODULE OrderServiceProofs --------------------------
(***************************************************************************)
(* Proofs about the order service for any number of users, errands,        *)
(* workers and calls.                                                      *)
(*                                                                         *)
(* Part 1 is about OrderLifecycle.  Its inductive invariant is the         *)
(* conjunction of the types, of CourierMatchesStatus and of                *)
(* EventsMatchStatus.  One lemma covers every conditional UPDATE: it asks  *)
(* what a transition leaves in the row and what it writes to the outbox,   *)
(* and each action is then an instance.                                    *)
(*                                                                         *)
(* Part 2 is about OrderService.  A worker relies on a row it has read; its *)
(* invariant says what of that row is still true when the worker uses it.  *)
(* From it every step is shown to be one of the lifecycle's, which gives   *)
(* the detailed specification everything that part 1 proves.               *)
(***************************************************************************)
EXTENDS OrderService, TLAPS

LifecycleInv == LifecycleTypeOK /\ CourierMatchesStatus /\ EventsMatchStatus

\* What the new row and the new outbox of one errand have to satisfy.
CourierFits(row) ==
    /\ row.status \in {"ACCEPTED", "COLLECTED", "DELIVERED"} => row.courier # NoUser
    /\ row.status \in {"PENDING", "OPEN", "REJECTED"} => row.courier = NoUser
    /\ row.courier # NoUser => row.courier # row.requester

EventsFit(e, row, outbox) ==
    /\ Completed(e) \in outbox <=> row.status = "DELIVERED"
    /\ Cancelled(e) \in outbox => row.status \in RefundStatus
    /\ row.status \in {"CANCELLED", "EXPIRED"} => Cancelled(e) \in outbox
    /\ row.courier # NoUser => Accepted(e, row.courier) \in outbox

LEMMA LifecycleInitInv == LifecycleInit => LifecycleInv
BY OrderAssumption
   DEF LifecycleInit, LifecycleInv, LifecycleTypeOK, CourierMatchesStatus, EventsMatchStatus,
       NoOrder, OrderRow, Completed, Cancelled, RefundStatus

\* An order with a status of the lifecycle is a row of the table.
LEMMA RealRow ==
    ASSUME LifecycleTypeOK, NEW e \in Errands, order[e].status \in Status
    PROVE  order[e] \in OrderRow /\ order[e] # NoOrder
BY DEF LifecycleTypeOK, NoOrder, Status, Active, Terminal, RefundStatus

\* An event is about one errand, and the events of another errand change nothing for this one.
LEMMA OtherErrands ==
    ASSUME NEW e \in Errands, NEW f \in Errands, e # f, NEW row, NEW outbox, NEW events,
           EventsFit(f, row, outbox),
           \A m \in events : m.errand = e
    PROVE  EventsFit(f, row, outbox \cup events)
BY DEF EventsFit, Completed, Cancelled, Accepted

\* Changing one row and adding events of that errand only.
LEMMA RowChange ==
    ASSUME LifecycleInv, NEW e \in Errands, NEW row \in OrderRow, NEW events \in SUBSET OrderEvent,
           order' = [order EXCEPT ![e] = row], overdue' = overdue, Queue(events),
           \A m \in events : m.errand = e,
           CourierFits(row), EventsFit(e, row, orderOutbox \cup events)
    PROVE  LifecycleInv'
<1>1. LifecycleTypeOK'
  BY DEF LifecycleInv, LifecycleTypeOK, Queue
<1>2. CourierMatchesStatus'
  BY DEF LifecycleInv, LifecycleTypeOK, CourierMatchesStatus, CourierFits
<1>3. ASSUME NEW f \in Errands
      PROVE  EventsFit(f, order'[f], orderOutbox')
  <2>1. CASE f = e
    BY <2>1 DEF LifecycleInv, LifecycleTypeOK, Queue
  <2>2. CASE f # e
    <3>1. EventsFit(f, order[f], orderOutbox)
      BY DEF LifecycleInv, EventsMatchStatus, EventsFit
    <3>2. order'[f] = order[f] /\ orderOutbox' = orderOutbox \cup events
      BY <2>2 DEF LifecycleInv, LifecycleTypeOK, Queue
    <3>3. EventsFit(f, order[f], orderOutbox \cup events)
      BY <2>2, <3>1, OtherErrands
    <3>. QED BY <3>2, <3>3
  <2>. QED BY <2>1, <2>2
<1>4. EventsMatchStatus'
  BY <1>3 DEF EventsMatchStatus, EventsFit
<1>. QED BY <1>1, <1>2, <1>4 DEF LifecycleInv

\* The conditional UPDATE, in the terms of its caller.
LEMMA TransitionInv ==
    ASSUME LifecycleInv, NEW e \in Errands, NEW from \in Status, NEW row \in OrderRow,
           NEW events \in SUBSET OrderEvent, NEW beforeDeadline \in BOOLEAN,
           Transition(e, from, row, events, beforeDeadline),
           \A m \in events : m.errand = e,
           CourierFits(row), EventsFit(e, row, orderOutbox \cup events)
    PROVE  LifecycleInv'
BY RowChange DEF Transition

LEMMA CreateInv ==
    ASSUME LifecycleInv, NEW e \in Errands, NEW r \in Users, NEW a \in Amounts, Create(e, r, a)
    PROVE  LifecycleInv'
<1>. DEFINE row == [status |-> "PENDING", requester |-> r, courier |-> NoUser, bounty |-> a]
            events == {Created(e, r, a)}
<1>1. row \in OrderRow /\ CourierFits(row)
  BY DEF OrderRow, Status, CourierFits
<1>2. events \subseteq OrderEvent /\ \A m \in events : m.errand = e
  BY DEF OrderEvent, Created
<1>3. Completed(e) \notin orderOutbox /\ Cancelled(e) \notin orderOutbox
  BY DEF Create, LifecycleInv, EventsMatchStatus, NoOrder, RefundStatus
<1>4. EventsFit(e, row, orderOutbox \cup events)
  BY <1>3 DEF EventsFit, Created, Completed, Cancelled, Accepted, RefundStatus
<1>5. order' = [order EXCEPT ![e] = row] /\ overdue' = overdue /\ Queue(events)
  BY DEF Create
<1>. HIDE DEF row, events
<1>. QED BY <1>1, <1>2, <1>4, <1>5, RowChange

LEMMA AcceptInv ==
    ASSUME LifecycleInv, NEW e \in Errands, NEW c \in Users, Accept(e, c)
    PROVE  LifecycleInv'
<1>. DEFINE row == [Moved(e, "ACCEPTED") EXCEPT !.courier = c]
            events == {Accepted(e, c)}
<1>0. Transition(e, "OPEN", row, events, TRUE) /\ c # order[e].requester
  BY DEF Accept
<1>1. order[e].status = "OPEN" /\ order[e] \in OrderRow
  BY <1>0, RealRow DEF Transition, LifecycleInv, Status, Active
<1>2. row = [order[e] EXCEPT !.status = "ACCEPTED", !.courier = c]
  BY <1>1 DEF Moved, OrderRow
<1>3. row \in OrderRow /\ CourierFits(row)
  BY <1>0, <1>1, <1>2, OrderAssumption DEF OrderRow, Status, Active, CourierFits
<1>4. events \subseteq OrderEvent /\ \A m \in events : m.errand = e
  BY DEF OrderEvent, Accepted
<1>5. Completed(e) \notin orderOutbox /\ Cancelled(e) \notin orderOutbox
  BY <1>1 DEF LifecycleInv, EventsMatchStatus, RefundStatus
<1>6. EventsFit(e, row, orderOutbox \cup events)
  BY <1>1, <1>2, <1>5 DEF EventsFit, OrderRow, Completed, Cancelled, Accepted, RefundStatus
<1>7. "OPEN" \in Status
  BY DEF Status, Active
<1>. HIDE DEF row, events
<1>. QED BY <1>0, <1>3, <1>4, <1>6, <1>7, TransitionInv

\* The transitions that only move the status, with the events they write.
LEMMA MovedInv ==
    ASSUME LifecycleInv, NEW e \in Errands, NEW from \in Status, NEW to \in Status,
           NEW events \in SUBSET OrderEvent, NEW beforeDeadline \in BOOLEAN,
           Transition(e, from, Moved(e, to), events, beforeDeadline),
           \A m \in events : m.errand = e,
           CourierFits(Moved(e, to)), EventsFit(e, Moved(e, to), orderOutbox \cup events)
    PROVE  LifecycleInv'
<1>1. order[e] \in OrderRow
  BY RealRow DEF Transition, LifecycleInv
<1>2. Moved(e, to) \in OrderRow
  BY <1>1 DEF Moved, OrderRow
<1>. QED BY <1>2, TransitionInv

\* What is known of an errand and of its row before a transition.
LEMMA Before ==
    ASSUME LifecycleInv, NEW e \in Errands, NEW from \in Status, order[e].status = from
    PROVE  /\ order[e] \in OrderRow
           /\ CourierFits(order[e])
           /\ EventsFit(e, order[e], orderOutbox)
BY RealRow DEF LifecycleInv, CourierMatchesStatus, EventsMatchStatus, CourierFits, EventsFit

LEMMA OpenRejectCollectInv ==
    ASSUME LifecycleInv, NEW e \in Errands, Open(e) \/ Reject(e) \/ Collect(e)
    PROVE  LifecycleInv'
<1>. USE DEF Status, Active, Terminal, RefundStatus
<1>1. ASSUME NEW from \in {"PENDING", "ACCEPTED"}, NEW to \in {"OPEN", "REJECTED", "COLLECTED"},
             NEW b \in BOOLEAN,
             from = "PENDING" <=> to # "COLLECTED",
             Transition(e, from, Moved(e, to), {}, b)
      PROVE  LifecycleInv'
  <2>1. /\ order[e].status = from /\ order[e] \in OrderRow
        /\ CourierFits(order[e]) /\ EventsFit(e, order[e], orderOutbox)
    BY <1>1, Before DEF Transition
  <2>2. CourierFits(Moved(e, to))
    BY <1>1, <2>1 DEF CourierFits, Moved, OrderRow
  <2>3. EventsFit(e, Moved(e, to), orderOutbox \cup {})
    BY <1>1, <2>1 DEF EventsFit, Moved, OrderRow
  <2>. QED BY <1>1, <2>2, <2>3, MovedInv
<1>. QED BY <1>1 DEF Open, Reject, Collect

LEMMA UndoAcceptInv ==
    ASSUME LifecycleInv, NEW e \in Errands, UndoAccept(e)
    PROVE  LifecycleInv'
<1>. DEFINE row == [Moved(e, "OPEN") EXCEPT !.courier = NoUser]
<1>. USE DEF Status, Active, Terminal, RefundStatus
<1>0. Transition(e, "ACCEPTED", row, {}, FALSE)
  BY DEF UndoAccept
<1>1. /\ order[e].status = "ACCEPTED" /\ order[e] \in OrderRow
      /\ EventsFit(e, order[e], orderOutbox)
  BY <1>0, Before DEF Transition
<1>2. row = [order[e] EXCEPT !.status = "OPEN", !.courier = NoUser]
  BY <1>1 DEF Moved, OrderRow
<1>3. row \in OrderRow /\ CourierFits(row)
  BY <1>1, <1>2 DEF OrderRow, CourierFits
<1>4. EventsFit(e, row, orderOutbox \cup {})
  BY <1>1, <1>2 DEF EventsFit, OrderRow
<1>5. "ACCEPTED" \in Status /\ {} \in SUBSET OrderEvent /\ \A m \in {} : m.errand = e
  OBVIOUS
<1>. HIDE DEF row, Status
<1>. QED BY <1>0, <1>3, <1>4, <1>5, TransitionInv

LEMMA DeliverInv ==
    ASSUME LifecycleInv, NEW e \in Errands, Deliver(e)
    PROVE  LifecycleInv'
<1>. USE DEF Status, Active, Terminal, RefundStatus
<1>1. /\ order[e].status = "COLLECTED" /\ order[e] \in OrderRow
      /\ CourierFits(order[e]) /\ EventsFit(e, order[e], orderOutbox)
  BY Before DEF Deliver, Transition
<1>2. CourierFits(Moved(e, "DELIVERED"))
  BY <1>1 DEF CourierFits, Moved, OrderRow
<1>3. EventsFit(e, Moved(e, "DELIVERED"), orderOutbox \cup {Completed(e)})
  BY <1>1 DEF EventsFit, Moved, OrderRow, Completed, Cancelled
<1>4. {Completed(e)} \in SUBSET OrderEvent /\ \A m \in {Completed(e)} : m.errand = e
  BY DEF Completed, OrderEvent
<1>5. Transition(e, "COLLECTED", Moved(e, "DELIVERED"), {Completed(e)}, TRUE)
  BY DEF Deliver
<1>. QED BY <1>2, <1>3, <1>4, <1>5, MovedInv

LEMMA CancelInv ==
    ASSUME LifecycleInv, NEW e \in Errands, Cancel(e)
    PROVE  LifecycleInv'
<1>. USE DEF Status, Active, Terminal, RefundStatus
<1>0. PICK from \in {"OPEN", "ACCEPTED"} :
            Transition(e, from, Moved(e, "CANCELLED"), {Cancelled(e)}, FALSE)
  BY DEF Cancel
<1>1. /\ order[e].status = from /\ order[e] \in OrderRow
      /\ CourierFits(order[e]) /\ EventsFit(e, order[e], orderOutbox)
  BY <1>0, Before DEF Transition
<1>2. CourierFits(Moved(e, "CANCELLED"))
  BY <1>1 DEF CourierFits, Moved, OrderRow
<1>3. EventsFit(e, Moved(e, "CANCELLED"), orderOutbox \cup {Cancelled(e)})
  BY <1>1 DEF EventsFit, Moved, OrderRow, Completed, Cancelled
<1>4. {Cancelled(e)} \in SUBSET OrderEvent /\ \A m \in {Cancelled(e)} : m.errand = e
  BY DEF Cancelled, OrderEvent
<1>. QED BY <1>0, <1>2, <1>3, <1>4, MovedInv

\* Many rows at once: every due order expires, with its own event.
LEMMA ExpireDueInv ==
    ASSUME LifecycleInv, ExpireDue
    PROVE  LifecycleInv'
<1>. USE DEF Status, Active, Terminal, RefundStatus
<1>1. ASSUME NEW e \in Due
      PROVE  /\ e \in Errands
             /\ order[e].status \in Active /\ order[e] \in OrderRow
             /\ CourierFits(order[e]) /\ EventsFit(e, order[e], orderOutbox)
             /\ order'[e] = [order[e] EXCEPT !.status = "EXPIRED"]
  BY <1>1, Before DEF Due, ExpireDue, Moved, LifecycleInv, LifecycleTypeOK
<1>2. ASSUME NEW e \in Errands, e \notin Due
      PROVE  order'[e] = order[e]
  BY <1>2 DEF ExpireDue
<1>3. ASSUME NEW e \in Errands
      PROVE  Cancelled(e) \in orderOutbox' <=> Cancelled(e) \in orderOutbox \/ e \in Due
  BY DEF ExpireDue, Queue, Cancelled
<1>4. ASSUME NEW e \in Errands
      PROVE  Completed(e) \in orderOutbox' <=> Completed(e) \in orderOutbox
  BY DEF ExpireDue, Queue, Cancelled, Completed
<1>5. LifecycleTypeOK'
  <2>1. \A e \in Errands : order'[e] \in OrderRow \cup {NoOrder}
    BY <1>1, <1>2 DEF LifecycleInv, LifecycleTypeOK, OrderRow
  <2>2. \A e \in Due : Cancelled(e) \in OrderEvent
    BY <1>1 DEF Cancelled, OrderEvent
  <2>. QED BY <2>1, <2>2 DEF LifecycleInv, LifecycleTypeOK, ExpireDue, Queue
<1>6. CourierMatchesStatus'
  <2>. SUFFICES ASSUME NEW e \in Errands
                PROVE  CourierFits(order'[e])
    BY DEF CourierMatchesStatus, CourierFits
  <2>1. CASE e \in Due
    BY <1>1, <2>1 DEF CourierFits, OrderRow
  <2>2. CASE e \notin Due
    BY <1>2, <2>2 DEF CourierFits, LifecycleInv, CourierMatchesStatus
  <2>. QED BY <2>1, <2>2
<1>7. EventsMatchStatus'
  <2>. SUFFICES ASSUME NEW e \in Errands
                PROVE  EventsFit(e, order'[e], orderOutbox')
    BY DEF EventsMatchStatus, EventsFit
  <2>0. orderOutbox \subseteq orderOutbox'
    BY DEF ExpireDue, Queue
  <2>1. CASE e \in Due
    <3>1. /\ order[e].status \in Active /\ order[e] \in OrderRow
          /\ EventsFit(e, order[e], orderOutbox)
      BY <1>1, <2>1
    <3>2. order'[e].status = "EXPIRED" /\ order'[e].courier = order[e].courier
      BY <1>1, <2>1, <3>1 DEF OrderRow
    <3>3. Cancelled(e) \in orderOutbox'
      BY <1>3, <2>1
    <3>4. Completed(e) \notin orderOutbox'
      BY <1>4, <3>1 DEF EventsFit
    <3>5. order'[e].courier # NoUser => Accepted(e, order'[e].courier) \in orderOutbox'
      BY <2>0, <3>1, <3>2 DEF EventsFit
    <3>. QED BY <3>2, <3>3, <3>4, <3>5 DEF EventsFit
  <2>2. CASE e \notin Due
    BY <1>2, <1>3, <1>4, <2>0, <2>2 DEF EventsFit, LifecycleInv, EventsMatchStatus
  <2>. QED BY <2>1, <2>2
<1>. QED BY <1>5, <1>6, <1>7 DEF LifecycleInv

LEMMA RefundOrphanInv ==
    ASSUME LifecycleInv, NEW e \in Errands, RefundOrphan(e)
    PROVE  LifecycleInv'
<1>1. order[e].status \in Status
  BY DEF RefundOrphan, Status, Terminal
<1>2. order[e] \in OrderRow /\ CourierFits(order[e]) /\ EventsFit(e, order[e], orderOutbox)
  BY <1>1, Before
<1>3. EventsFit(e, order[e], orderOutbox \cup {Cancelled(e)})
  BY <1>2 DEF EventsFit, RefundOrphan, Completed, Cancelled
<1>4. {Cancelled(e)} \in SUBSET OrderEvent /\ \A m \in {Cancelled(e)} : m.errand = e
  BY DEF Cancelled, OrderEvent
<1>5. order' = [order EXCEPT ![e] = order[e]]
  BY DEF RefundOrphan, LifecycleInv, LifecycleTypeOK
<1>. QED BY <1>2, <1>3, <1>4, <1>5, RowChange DEF RefundOrphan

LEMMA LifecycleStepInv == LifecycleInv /\ [LifecycleNext]_lifecycle => LifecycleInv'
<1>. SUFFICES ASSUME LifecycleInv, [LifecycleNext]_lifecycle
              PROVE  LifecycleInv'
  OBVIOUS
<1>1. CASE UNCHANGED lifecycle
  BY <1>1 DEF lifecycle, LifecycleInv, LifecycleTypeOK, CourierMatchesStatus, EventsMatchStatus
<1>2. ASSUME NEW e \in Errands, NEW r \in Users, NEW a \in Amounts, Create(e, r, a)
      PROVE  LifecycleInv'
  BY <1>2, CreateInv
<1>3. ASSUME NEW e \in Errands, NEW c \in Users, Accept(e, c)
      PROVE  LifecycleInv'
  BY <1>3, AcceptInv
<1>4. ASSUME NEW e \in Errands, Open(e) \/ Reject(e) \/ Collect(e)
      PROVE  LifecycleInv'
  BY <1>4, OpenRejectCollectInv
<1>5. ASSUME NEW e \in Errands, UndoAccept(e)
      PROVE  LifecycleInv'
  BY <1>5, UndoAcceptInv
<1>6. ASSUME NEW e \in Errands, Deliver(e)
      PROVE  LifecycleInv'
  BY <1>6, DeliverInv
<1>7. ASSUME NEW e \in Errands, Cancel(e)
      PROVE  LifecycleInv'
  BY <1>7, CancelInv
<1>8. ASSUME NEW e \in Errands, RefundOrphan(e)
      PROVE  LifecycleInv'
  BY <1>8, RefundOrphanInv
<1>9. ASSUME NEW e \in Errands, DeadlinePasses(e)
      PROVE  LifecycleInv'
  BY <1>9 DEF DeadlinePasses, LifecycleInv, LifecycleTypeOK, CourierMatchesStatus, EventsMatchStatus
<1>10. CASE ExpireDue
  BY <1>10, ExpireDueInv
<1>. QED BY <1>1, <1>2, <1>3, <1>4, <1>5, <1>6, <1>7, <1>8, <1>9, <1>10 DEF LifecycleNext

\* Types, couriers and events stay consistent in every reachable state.
THEOREM LifecycleInvariance == LifecycleSpec => []LifecycleInv
BY LifecycleInitInv, LifecycleStepInv, PTL DEF LifecycleSpec

\* The orders table keeps its column types.
THEOREM LifecycleTypes == LifecycleSpec => []LifecycleTypeOK
<1>1. LifecycleInv => LifecycleTypeOK
  BY DEF LifecycleInv
<1>. QED BY <1>1, LifecycleInvariance, PTL

\* An errand has a courier exactly while one may be carrying it (controller/order.ts:273-352).
THEOREM CouriersMatch == LifecycleSpec => []CourierMatchesStatus
<1>1. LifecycleInv => CourierMatchesStatus
  BY DEF LifecycleInv
<1>. QED BY <1>1, LifecycleInvariance, PTL

\* The outbox asks for a payment exactly for delivered errands, for a refund of every one
\* that was cancelled or expired, and never for both (prisma/orders.ts:195-242).
THEOREM EventsMatch == LifecycleSpec => []EventsMatchStatus
<1>1. LifecycleInv => EventsMatchStatus
  BY DEF LifecycleInv
<1>. QED BY <1>1, LifecycleInvariance, PTL

\* A row changes along the arrows of the lifecycle only.
LEMMA StepHistory ==
    ASSUME LifecycleInv, LifecycleNext, NEW f \in Errands
    PROVE  OrderHistory(order[f], order'[f])
<1>. USE DEF OrderHistory, Arrows
<1>0. order \in [Errands -> OrderRow \cup {NoOrder}]
  BY DEF LifecycleInv, LifecycleTypeOK
<1>1. ASSUME NEW e \in Errands, NEW from \in Status, NEW to \in Status,
             NEW events, NEW b,
             Transition(e, from, Moved(e, to), events, b),
             <<from, to>> \in Arrows
      PROVE  OrderHistory(order[f], order'[f])
  <2>1. order[e] \in OrderRow
    BY <1>1, RealRow DEF Transition, LifecycleInv
  <2>. QED BY <1>0, <1>1, <2>1 DEF Transition, Moved, OrderRow
<1>2. ASSUME NEW e \in Errands, NEW from \in Status, NEW to \in Status, NEW c,
             NEW events, NEW b,
             Transition(e, from, [Moved(e, to) EXCEPT !.courier = c], events, b),
             <<from, to>> \in {<<"OPEN", "ACCEPTED">>, <<"ACCEPTED", "OPEN">>}
      PROVE  OrderHistory(order[f], order'[f])
  <2>1. order[e] \in OrderRow
    BY <1>2, RealRow DEF Transition, LifecycleInv
  <2>. QED BY <1>0, <1>2, <2>1 DEF Transition, Moved, OrderRow
<1>3. ASSUME NEW e \in Errands, NEW r \in Users, NEW a \in Amounts, Create(e, r, a)
      PROVE  OrderHistory(order[f], order'[f])
  BY <1>0, <1>3 DEF Create, NoOrder
<1>4. ASSUME NEW e \in Errands, NEW c \in Users, Accept(e, c)
      PROVE  OrderHistory(order[f], order'[f])
  BY <1>2, <1>4 DEF Accept, Status, Active
<1>5. ASSUME NEW e \in Errands,
             Open(e) \/ Reject(e) \/ Collect(e) \/ Deliver(e) \/ Cancel(e)
      PROVE  OrderHistory(order[f], order'[f])
  BY <1>1, <1>5 DEF Open, Reject, Collect, Deliver, Cancel, Status, Active, Terminal, RefundStatus
<1>6. ASSUME NEW e \in Errands, UndoAccept(e)
      PROVE  OrderHistory(order[f], order'[f])
  BY <1>2, <1>6 DEF UndoAccept, Status, Active
<1>7. CASE ExpireDue
  <2>1. CASE f \in Due
    <3>1. order[f].status \in Active /\ order[f] \in OrderRow
      BY <2>1, RealRow DEF Due, LifecycleInv, Status
    <3>2. order'[f] = [order[f] EXCEPT !.status = "EXPIRED"]
      BY <1>7, <2>1 DEF ExpireDue, Moved
    <3>. QED BY <3>1, <3>2 DEF Active, OrderRow
  <2>2. CASE f \notin Due
    BY <1>7, <2>2 DEF ExpireDue
  <2>. QED BY <2>1, <2>2
<1>8. ASSUME NEW e \in Errands, RefundOrphan(e) \/ DeadlinePasses(e)
      PROVE  OrderHistory(order[f], order'[f])
  BY <1>8 DEF RefundOrphan, DeadlinePasses
<1>. QED BY <1>3, <1>4, <1>5, <1>6, <1>7, <1>8 DEF LifecycleNext

\* An order that is over never changes again, and a courier is only replaced through OPEN.
THEOREM LifecycleFollowed == LifecycleSpec => FollowsLifecycle
<1>1. LifecycleInv /\ [LifecycleNext]_lifecycle
        => [\A e \in Errands : OrderHistory(order[e], order'[e])]_order
  BY StepHistory DEF lifecycle
<1>. QED BY <1>1, LifecycleInvariance, PTL DEF LifecycleSpec, FollowsLifecycle

-----------------------------------------------------------------------------
\* Part 2.  OrderService.  What a worker holds at each point of its handler.
ControlOK(w) ==
    /\ pc[w] \in {"lookup", "insert", "again"} => task[w] \in Calls /\ Op(w) = "CREATE"
    /\ pc[w] \in {"read", "update", "recheck"} => task[w] \in Calls /\ Op(w) \in Targets
    /\ pc[w] = "respond" => task[w] \in Calls
    /\ pc[w] \in {"orphan", "refund"} => \E e \in Errands : task[w] = HeldReply(e)

\* What a row must have been for its request to go on to the UPDATE.
Admits(call, row) ==
    /\ row \in OrderRow
    /\ RightParty(call, row)
    /\ call.op = "ACCEPTED" => row.status = "OPEN"
    /\ call.op = "COLLECTED" => row.status = "ACCEPTED"
    /\ call.op = "DELIVERED" => row.status = "COLLECTED"
    /\ call.op = "CANCELLED" => row.status \in {"OPEN", "ACCEPTED"}

\* What still holds of the order, at the UPDATE, of the row that was read.
StillJudged(w) ==
    pc[w] = "update" =>
        LET row == order[Errand(w)] IN
        /\ Admits(task[w], seen[w])
        /\ row \in OrderRow
        /\ row.requester = seen[w].requester
        /\ Op(w) \in {"COLLECTED", "DELIVERED"} /\ NoAcceptUndone(Errand(w)) =>
              /\ row.courier = seen[w].courier
              /\ row.status \in {"ACCEPTED", "COLLECTED", "DELIVERED", "CANCELLED", "EXPIRED"}
        /\ Op(w) = "DELIVERED" => row.status \in {"COLLECTED", "DELIVERED", "EXPIRED"}

\* A delivery that found no row to update: nobody can deliver the order any more.
PastDelivery(e) ==
    \/ order[e].status \in {"DELIVERED", "EXPIRED"}
    \/ order[e].status = "COLLECTED" /\ e \in overdue

StillMissed(w) == pc[w] = "recheck" => Op(w) = "DELIVERED" /\ PastDelivery(Errand(w))

StillRefundable(w) == pc[w] = "refund" => order[Errand(w)].status \in RefundStatus

\* What a status change was answered with.
StillAnswered(w) ==
    (pc[w] = "respond" /\ Op(w) \in Targets) =>
        LET e == Errand(w) IN
        /\ (answer[w].code = 200 /\ Op(w) = "DELIVERED") => order[e].status = "DELIVERED"
        /\ (answer[w].code = 200 /\ Op(w) = "CANCELLED") => order[e].status = "CANCELLED"
        /\ answer[w].code = 410 => order[e].status = "EXPIRED"
        /\ (answer[w].code = 409 /\ Op(w) = "DELIVERED") =>
              PastDelivery(e) /\ order[e].status # "DELIVERED"

\* What the creation of an order was answered with.
StillCreated(w) ==
    (pc[w] = "respond" /\ Op(w) = "CREATE" /\ answer[w].code \in {200, 201}) =>
        LET e == answer[w].errand IN
        /\ e \in Errands
        /\ order[e] \in OrderRow
        /\ IF task[w].key = NoKey THEN order[e].requester = Caller(w)
                                  ELSE e \in Holder(task[w].key)

HandlerInv ==
    \A w \in Workers :
        /\ ControlOK(w) /\ StillJudged(w) /\ StillMissed(w) /\ StillRefundable(w)
        /\ StillAnswered(w) /\ StillCreated(w)

KeysUnique == \A k \in Keys, d, e \in Errands : {d, e} \subseteq Holder(k) => d = e

ServiceInv ==
    /\ TypeOK /\ CourierMatchesStatus /\ EventsMatchStatus
    /\ HandlerInv /\ KeysUnique

LEMMA ServiceLifecycle == ServiceInv => LifecycleInv
BY DEF ServiceInv, LifecycleInv, TypeOK

LEMMA ServiceInitInv == Init => ServiceInv
<1>. SUFFICES ASSUME Init
              PROVE  ServiceInv
  OBVIOUS
<1>1. LifecycleInv
  BY LifecycleInitInv DEF Init
<1>2. TypeOK
  BY <1>1 DEF Init, TypeOK, LifecycleInv, NoAnswer
<1>3. HandlerInv
  BY DEF Init, HandlerInv, ControlOK, StillJudged, StillMissed, StillRefundable, StillAnswered,
         StillCreated
<1>4. KeysUnique
  BY DEF Init, LifecycleInit, KeysUnique, Holder
<1>. QED BY <1>1, <1>2, <1>3, <1>4 DEF ServiceInv, LifecycleInv

\* What a client may ask for.
LEMMA CallTypes ==
    ASSUME NEW call \in Calls
    PROVE  /\ call.op \in Targets \cup {"CREATE"}
           /\ call.caller \in Users
           /\ call.key \in Keys \cup {NoKey}
           /\ call.op = "CREATE" => call.amount \in Amounts
           /\ call.op \in Targets => call.errand \in Errands
BY ServiceAssumption DEF Call, Targets

\* The ways a step of the order service may change the orders there are, and those it may
\* change the database in.
Steady ==
    \/ \E e \in Errands, c \in Users : Accept(e, c)
    \/ \E e \in Errands :
          \/ Open(e) \/ Reject(e) \/ Collect(e) \/ Deliver(e)
          \/ Cancel(e) \/ RefundOrphan(e) \/ DeadlinePasses(e)
    \/ ExpireDue

OldOrdersStep ==
    \/ UNCHANGED lifecycle
    \/ Steady
    \/ \E e \in Errands : UndoAccept(e) /\ ~NoAcceptUndone(e)

NewOrderStep == \E e \in Errands, r \in Users, a \in Amounts : Create(e, r, a)

DatabaseStep == OldOrdersStep \/ NewOrderStep

LEMMA DatabaseStepsAreLifecycle == DatabaseStep => [LifecycleNext]_lifecycle
BY DEF DatabaseStep, OldOrdersStep, NewOrderStep, Steady, LifecycleNext

\* The UPDATE of a request is the lifecycle step of its target status.
LEMMA UpdateIsStep ==
    ASSUME ServiceInv, NEW w \in Workers, UpdateOrder(w)
    PROVE  Steady
<1>. DEFINE e == Errand(w)
<1>1. task[w] \in Calls /\ Op(w) \in Targets
  BY DEF ServiceInv, HandlerInv, ControlOK, UpdateOrder
<1>2. e \in Errands /\ Caller(w) \in Users
  BY <1>1, CallTypes DEF Errand, Caller, Op
<1>3. /\ Admits(task[w], seen[w]) /\ order[e].requester = seen[w].requester
      /\ Transition(e, From(w), Updated(w), Events(w), BeforeDeadline(w))
  BY DEF ServiceInv, HandlerInv, StillJudged, UpdateOrder
<1>. HIDE DEF e
<1>4. CASE Op(w) = "ACCEPTED"
  <2>1. Caller(w) # order[e].requester
    BY <1>3, <1>4 DEF Admits, RightParty, Op, Caller
  <2>2. Transition(e, "OPEN", [Moved(e, "ACCEPTED") EXCEPT !.courier = Caller(w)],
                   {Accepted(e, Caller(w))}, TRUE)
    BY <1>3, <1>4 DEF From, Updated, Events, BeforeDeadline, e
  <2>. QED BY <1>2, <2>1, <2>2 DEF Steady, Accept
<1>5. CASE Op(w) = "COLLECTED"
  <2>1. Transition(e, "ACCEPTED", Moved(e, "COLLECTED"), {}, TRUE)
    BY <1>3, <1>5 DEF From, Updated, Events, BeforeDeadline, e
  <2>. QED BY <1>2, <2>1 DEF Steady, Collect
<1>6. CASE Op(w) = "DELIVERED"
  <2>1. Transition(e, "COLLECTED", Moved(e, "DELIVERED"), {Completed(e)}, TRUE)
    BY <1>3, <1>6 DEF From, Updated, Events, BeforeDeadline, e
  <2>. QED BY <1>2, <2>1 DEF Steady, Deliver
<1>7. CASE Op(w) = "CANCELLED"
  <2>1. From(w) \in {"OPEN", "ACCEPTED"}
    BY <1>3, <1>7 DEF From, Admits, Op
  <2>2. Transition(e, From(w), Moved(e, "CANCELLED"), {Cancelled(e)}, FALSE)
    BY <1>3, <1>7 DEF Updated, Events, BeforeDeadline, e
  <2>. QED BY <1>2, <2>1, <2>2 DEF Steady, Cancel
<1>. QED BY <1>1, <1>4, <1>5, <1>6, <1>7 DEF Targets

LEMMA InsertIsStep ==
    ASSUME ServiceInv, NEW w \in Workers, InsertOrder(w)
    PROVE  NewOrderStep
<1>1. task[w] \in Calls /\ Op(w) = "CREATE"
  BY DEF ServiceInv, HandlerInv, ControlOK, InsertOrder
<1>2. Caller(w) \in Users /\ task[w].amount \in Amounts
  BY <1>1, CallTypes DEF Caller, Op
<1>. QED BY <1>2 DEF InsertOrder, NewOrderStep

LEMMA RefundIsStep ==
    ASSUME ServiceInv, NEW w \in Workers, AskRefund(w)
    PROVE  Steady
<1>1. PICK e \in Errands : task[w] = HeldReply(e)
  BY DEF ServiceInv, HandlerInv, ControlOK, AskRefund
<1>2. Errand(w) = e
  BY <1>1 DEF Errand, HeldReply
<1>3. order[e].status \in RefundStatus
  BY <1>2 DEF ServiceInv, HandlerInv, StillRefundable, AskRefund
<1>. QED BY <1>2, <1>3 DEF AskRefund, RefundOrphan, Steady

\* Steps of a worker that leave the database alone.
QuietStep(w) ==
    \/ LookupKey(w) \/ PlacesRefused(w) \/ InsertFails(w) \/ LookupAgain(w)
    \/ ReadOrder(w) \/ UpdateMissed(w) \/ Recheck(w) \/ Finish(w) \/ ReadOrphan(w)
    \/ \E call \in Calls : BeginCreate(w, call)

LEMMA QuietLifecycle ==
    ASSUME NEW w \in Workers, QuietStep(w)
    PROVE  UNCHANGED <<lifecycle, key>>
BY DEF QuietStep, LookupKey, PlacesRefused, InsertFails, LookupAgain, ReadOrder, UpdateMissed,
       Recheck, Finish, ReadOrphan, BeginCreate, Start

\* Only an insert makes an order or writes a key.
LEMMA ServiceSteps ==
    ServiceInv /\ [Next]_vars =>
        \/ OldOrdersStep /\ UNCHANGED key
        \/ NewOrderStep /\ \E w \in Workers : InsertOrder(w)
<1>. SUFFICES ASSUME ServiceInv, [Next]_vars
              PROVE  \/ OldOrdersStep /\ UNCHANGED key
                     \/ NewOrderStep /\ \E w \in Workers : InsertOrder(w)
  OBVIOUS
<1>. USE DEF OldOrdersStep
<1>1. CASE UNCHANGED vars
  BY <1>1 DEF vars
<1>2. ASSUME NEW w \in Workers, QuietStep(w)
      PROVE  OldOrdersStep /\ UNCHANGED key
  BY <1>2, QuietLifecycle
<1>3. ASSUME NEW w \in Workers, NEW call \in Calls, BeginUpdate(w, call)
      PROVE  OldOrdersStep /\ UNCHANGED key
  BY <1>3 DEF BeginUpdate, Start, Expire, Steady
<1>4. ASSUME NEW w \in Workers, UpdateOrder(w) \/ AskRefund(w)
      PROVE  OldOrdersStep /\ UNCHANGED key
  BY <1>4, UpdateIsStep, RefundIsStep DEF UpdateOrder, AskRefund
<1>5. ASSUME NEW w \in Workers, NEW e \in Errands, OnHeld(w, e)
      PROVE  OldOrdersStep /\ UNCHANGED key
  BY <1>5 DEF OnHeld, Start, Steady
<1>6. ASSUME NEW e \in Errands, OnHoldRejected(e) \/ Deadline(e)
      PROVE  OldOrdersStep /\ UNCHANGED key
  BY <1>6 DEF OnHoldRejected, Deadline, Steady
<1>7. ASSUME NEW e \in Errands, OnAcceptRejected(e)
      PROVE  OldOrdersStep /\ UNCHANGED key
  BY <1>7 DEF OnAcceptRejected, NoAcceptUndone
<1>8. ASSUME ExpiryJob \/ Crash
      PROVE  OldOrdersStep /\ UNCHANGED key
  BY <1>8 DEF ExpiryJob, Crash, Steady
<1>9. ASSUME NEW w \in Workers, InsertOrder(w)
      PROVE  NewOrderStep
  BY <1>9, InsertIsStep
<1>. HIDE DEF OldOrdersStep
<1>. QED BY <1>1, <1>2, <1>3, <1>4, <1>5, <1>6, <1>7, <1>8, <1>9 DEF Next, QuietStep

\* What a step may do to one row, and that events and deadlines are never taken back.
RowStep(f) ==
    /\ OrderHistory(order[f], order'[f])
    /\ f \in overdue /\ order'[f].status \in {"ACCEPTED", "COLLECTED", "DELIVERED"} =>
          order'[f] = order[f]
    /\ order[f].status = "ACCEPTED" /\ order'[f].status = "OPEN" => ~NoAcceptUndone(f)

LEMMA OneRow ==
    ASSUME LifecycleInv, NEW e \in Errands, NEW f \in Errands, NEW from \in Status, NEW row,
           NEW events, NEW b, Transition(e, from, row, events, b)
    PROVE  /\ order[e] \in OrderRow /\ order[e].status = from
           /\ order'[f] = IF f = e THEN row ELSE order[f]
           /\ b => e \notin overdue
BY RealRow DEF LifecycleInv, LifecycleTypeOK, Transition

LEMMA RowSteps ==
    ASSUME LifecycleInv, DatabaseStep, NEW f \in Errands
    PROVE  RowStep(f)
<1>. USE DEF RowStep
<1>0. OrderHistory(order[f], order'[f])
  <2>1. CASE UNCHANGED lifecycle
    BY <2>1 DEF lifecycle, OrderHistory
  <2>2. CASE LifecycleNext
    BY <2>2, StepHistory
  <2>. QED BY <2>1, <2>2, DatabaseStepsAreLifecycle
<1>. DEFINE Late == f \in overdue /\ order'[f].status \in {"ACCEPTED", "COLLECTED", "DELIVERED"}
                       => order'[f] = order[f]
            Reopened == order[f].status = "ACCEPTED" /\ order'[f].status = "OPEN"
                       => ~NoAcceptUndone(f)
<1>1. CASE UNCHANGED lifecycle
  BY <1>0, <1>1 DEF lifecycle
<1>2. ASSUME NewOrderStep
      PROVE  Late /\ Reopened
  BY <1>2 DEF NewOrderStep, Create, LifecycleInv, LifecycleTypeOK, NoOrder
<1>3. ASSUME NEW e \in Errands, NEW c \in Users, Accept(e, c)
      PROVE  Late /\ Reopened
  <2>1. "OPEN" \in Status
    BY DEF Status, Active
  <2>. DEFINE row == [Moved(e, "ACCEPTED") EXCEPT !.courier = c]
  <2>2. Transition(e, "OPEN", row, {Accepted(e, c)}, TRUE)
    BY <1>3 DEF Accept
  <2>. HIDE DEF row
  <2>3. order[e].status = "OPEN" /\ e \notin overdue /\ (f # e => order'[f] = order[f])
    BY <2>1, <2>2, OneRow
  <2>. QED BY <2>3
<1>4. ASSUME NEW e \in Errands, NEW from \in Status, NEW to \in Status, NEW events,
             NEW b \in BOOLEAN,
             Transition(e, from, Moved(e, to), events, b),
             from = "ACCEPTED" => to # "OPEN",
             b \/ to \notin {"ACCEPTED", "COLLECTED", "DELIVERED"}
      PROVE  Late /\ Reopened
  <2>1. /\ order'[f] = IF f = e THEN Moved(e, to) ELSE order[f]
        /\ order[e] \in OrderRow /\ order[e].status = from /\ (b => e \notin overdue)
    BY <1>4, OneRow
  <2>. QED BY <1>4, <2>1 DEF Moved, OrderRow
<1>5. ASSUME NEW e \in Errands, Open(e) \/ Reject(e) \/ Collect(e) \/ Deliver(e) \/ Cancel(e)
      PROVE  Late /\ Reopened
  <2>. HIDE DEF Late, Reopened
  <2>. QED BY <1>4, <1>5 DEF Open, Reject, Collect, Deliver, Cancel, Status, Active, Terminal,
                             RefundStatus
<1>6. ASSUME NEW e \in Errands, RefundOrphan(e) \/ DeadlinePasses(e)
      PROVE  Late /\ Reopened
  BY <1>6 DEF RefundOrphan, DeadlinePasses
<1>7. ASSUME ExpireDue
      PROVE  Late /\ Reopened
  <2>1. order'[f] = order[f] \/ (order[f] \in OrderRow /\ order'[f] = Moved(f, "EXPIRED"))
    BY <1>7, RealRow DEF ExpireDue, Due, LifecycleInv, Status
  <2>. QED BY <2>1 DEF Moved, OrderRow
<1>8. ASSUME NEW e \in Errands, UndoAccept(e), ~NoAcceptUndone(e)
      PROVE  Late /\ Reopened
  <2>1. "ACCEPTED" \in Status
    BY DEF Status, Active
  <2>. DEFINE row == [Moved(e, "OPEN") EXCEPT !.courier = NoUser]
  <2>2. Transition(e, "ACCEPTED", row, {}, FALSE)
    BY <1>8 DEF UndoAccept
  <2>3. row.status = "OPEN"
    BY <2>1, <2>2, OneRow DEF Moved, OrderRow
  <2>. HIDE DEF row
  <2>4. order'[f] = IF f = e THEN row ELSE order[f]
    BY <2>1, <2>2, OneRow
  <2>. QED BY <1>8, <2>3, <2>4
<1>. HIDE DEF Late, Reopened
<1>9. CASE Steady
  <2>1. Late /\ Reopened
    BY <1>3, <1>5, <1>6, <1>7, <1>9 DEF Steady
  <2>. QED BY <1>0, <2>1 DEF Late, Reopened
<1>10. CASE \E e \in Errands : UndoAccept(e) /\ ~NoAcceptUndone(e)
  <2>1. Late /\ Reopened
    BY <1>8, <1>10
  <2>. QED BY <1>0, <2>1 DEF Late, Reopened
<1>11. CASE NewOrderStep
  <2>1. Late /\ Reopened
    BY <1>2, <1>11
  <2>. QED BY <1>0, <2>1 DEF Late, Reopened
<1>. QED BY <1>1, <1>9, <1>10, <1>11 DEF DatabaseStep, OldOrdersStep

\* Without an insert, no order comes into being.
LEMMA NoNewOrder ==
    ASSUME LifecycleInv, OldOrdersStep, NEW f \in Errands, order[f] = NoOrder
    PROVE  order'[f] = NoOrder
<1>0. order[f].status \notin Status
  BY DEF NoOrder, Status, Active, Terminal, RefundStatus
<1>1. ASSUME NEW e \in Errands, NEW from \in Status, NEW row, NEW events, NEW b,
             Transition(e, from, row, events, b)
      PROVE  order'[f] = order[f]
  BY <1>0, <1>1, OneRow
<1>. USE DEF Status, Active, Terminal, RefundStatus
<1>2. ASSUME NEW e \in Errands, NEW c \in Users, Accept(e, c)
      PROVE  order'[f] = order[f]
  BY <1>1, <1>2 DEF Accept
<1>3. ASSUME NEW e \in Errands, UndoAccept(e)
      PROVE  order'[f] = order[f]
  BY <1>1, <1>3 DEF UndoAccept
<1>4. ASSUME NEW e \in Errands, Open(e) \/ Reject(e) \/ Collect(e) \/ Deliver(e) \/ Cancel(e)
      PROVE  order'[f] = order[f]
  BY <1>1, <1>4 DEF Open, Reject, Collect, Deliver, Cancel
<1>5. ASSUME ExpireDue
      PROVE  order'[f] = order[f]
  BY <1>0, <1>5 DEF ExpireDue, Due
<1>. QED BY <1>2, <1>3, <1>4, <1>5
         DEF OldOrdersStep, Steady, lifecycle, RefundOrphan, DeadlinePasses

LEMMA NothingTakenBack ==
    ASSUME DatabaseStep
    PROVE  orderOutbox \subseteq orderOutbox' /\ overdue \subseteq overdue'
BY DEF DatabaseStep, OldOrdersStep, NewOrderStep, Steady, lifecycle, Create, Accept, Open,
       Reject, UndoAccept, Collect, Deliver, Cancel, RefundOrphan, DeadlinePasses, ExpireDue,
       Transition, Queue

-----------------------------------------------------------------------------
\* Part 2b.  The invariant of the workers is kept.
WorkerOK(w) ==
    /\ ControlOK(w) /\ StillJudged(w) /\ StillMissed(w) /\ StillRefundable(w)
    /\ StillAnswered(w) /\ StillCreated(w)

Same(w) ==
    /\ pc'[w] = pc[w] /\ task'[w] = task[w]
    /\ seen'[w] = seen[w] /\ answer'[w] = answer[w]

\* What every step leaves of an order, told from its row and its key before.
OrderStep(f) ==
    /\ RowStep(f)
    /\ order'[f] \in OrderRow \cup {NoOrder}
    /\ order[f] # NoOrder => key'[f] = key[f]
    /\ f \in overdue => f \in overdue'
    /\ NoAcceptUndone(f)' => NoAcceptUndone(f)

LEMMA OrderSteps ==
    ASSUME ServiceInv, [Next]_vars, NEW f \in Errands
    PROVE  OrderStep(f)
<1>1. DatabaseStep /\ LifecycleInv
  BY ServiceSteps, ServiceLifecycle DEF DatabaseStep
<1>2. RowStep(f)
  BY <1>1, RowSteps
<1>3. LifecycleInv'
  BY <1>1, DatabaseStepsAreLifecycle, LifecycleStepInv
<1>4. order[f] # NoOrder => key'[f] = key[f]
  <2>1. CASE UNCHANGED key
    BY <2>1
  <2>2. ASSUME NEW w \in Workers, InsertOrder(w)
        PROVE  order[f] # NoOrder => key'[f] = key[f]
    BY <2>2 DEF InsertOrder, Create, ServiceInv, TypeOK
  <2>. QED BY <2>1, <2>2, ServiceSteps
<1>5. NoAcceptUndone(f)' => NoAcceptUndone(f)
  BY <1>1, NothingTakenBack DEF NoAcceptUndone, Accepted
<1>. QED BY <1>1, <1>2, <1>3, <1>4, <1>5, NothingTakenBack
         DEF OrderStep, LifecycleInv, LifecycleTypeOK

\* An existing order keeps its requester; one that is over stays as it is.
LEMMA OrderKept ==
    ASSUME NEW f \in Errands, OrderStep(f), order[f] \in OrderRow
    PROVE  /\ order'[f] \in OrderRow
           /\ order'[f].requester = order[f].requester
           /\ key'[f] = key[f]
           /\ order[f].status \in Terminal => order'[f] = order[f]
<1>1. order[f].status # "NONE" /\ order[f] # NoOrder
  BY DEF OrderRow, Status, Active, Terminal, RefundStatus, NoOrder
<1>2. order'[f] # NoOrder
  BY <1>1 DEF OrderStep, RowStep, OrderHistory, Arrows, NoOrder
<1>. QED BY <1>1, <1>2 DEF OrderStep, RowStep, OrderHistory, Arrows, Terminal, RefundStatus

LEMMA JudgedKept ==
    ASSUME ServiceInv, NEW v \in Workers, WorkerOK(v), Same(v),
           \A f \in Errands : OrderStep(f)
    PROVE  StillJudged(v)'
<1>. SUFFICES ASSUME pc[v] = "update"
              PROVE  StillJudged(v)'
  BY DEF StillJudged, Same
<1>0. PICK e : e = Errand(v)
  OBVIOUS
<1>1. e \in Errands /\ Op(v) \in Targets
  BY <1>0, CallTypes DEF WorkerOK, ControlOK, Op, Errand
<1>2. Op(v)' = Op(v) /\ Errand(v)' = e
  BY <1>0 DEF Same, Op, Errand
<1>3. OrderStep(e)
  BY <1>1
<1>4. /\ Admits(task[v], seen[v]) /\ order[e] \in OrderRow /\ order[e].requester = seen[v].requester
      /\ Op(v) \in {"COLLECTED", "DELIVERED"} /\ NoAcceptUndone(e) =>
            /\ order[e].courier = seen[v].courier
            /\ order[e].status \in {"ACCEPTED", "COLLECTED", "DELIVERED", "CANCELLED", "EXPIRED"}
      /\ Op(v) = "DELIVERED" => order[e].status \in {"COLLECTED", "DELIVERED", "EXPIRED"}
  BY <1>0 DEF WorkerOK, StillJudged
<1>5. order'[e] \in OrderRow /\ order'[e].requester = seen[v].requester
  BY <1>1, <1>3, <1>4, OrderKept
<1>6. Op(v) = "DELIVERED" => order'[e].status \in {"COLLECTED", "DELIVERED", "EXPIRED"}
  BY <1>3, <1>4 DEF OrderStep, RowStep, OrderHistory, Arrows
<1>7. ASSUME Op(v) \in {"COLLECTED", "DELIVERED"}, NoAcceptUndone(e)'
      PROVE  /\ order'[e].courier = seen[v].courier
             /\ order'[e].status \in {"ACCEPTED", "COLLECTED", "DELIVERED", "CANCELLED", "EXPIRED"}
  <2>1. NoAcceptUndone(e)
    BY <1>3, <1>7 DEF OrderStep
  <2>2. ~ (order[e].status = "ACCEPTED" /\ order'[e].status = "OPEN")
    BY <1>3, <2>1 DEF OrderStep, RowStep
  <2>3. OrderHistory(order[e], order'[e])
    BY <1>3 DEF OrderStep, RowStep
  <2>. QED BY <1>4, <1>7, <2>1, <2>2, <2>3 DEF OrderHistory, Arrows
<1>8. Admits(task[v], seen[v])'
  BY <1>4 DEF Same, Admits, RightParty
<1>. QED BY <1>2, <1>5, <1>6, <1>7, <1>8 DEF StillJudged, Same

LEMMA PastDeliveryKept ==
    ASSUME NEW e \in Errands, OrderStep(e), PastDelivery(e)
    PROVE  /\ PastDelivery(e)'
           /\ order[e].status # "DELIVERED" => order'[e].status # "DELIVERED"
BY DEF OrderStep, RowStep, OrderHistory, Arrows, PastDelivery

\* A worker that takes no step relies on nothing that another one can change.
LEMMA Undisturbed ==
    ASSUME ServiceInv, NEW v \in Workers, WorkerOK(v), Same(v),
           \A f \in Errands : OrderStep(f)
    PROVE  WorkerOK(v)'
<1>1. ControlOK(v)'
  BY DEF WorkerOK, ControlOK, Same, Op
<1>2. StillJudged(v)'
  BY JudgedKept
<1>0. PICK e : e = Errand(v)
  OBVIOUS
<1>3. Op(v)' = Op(v) /\ Caller(v)' = Caller(v) /\ Errand(v)' = e
  BY <1>0 DEF Same, Op, Caller, Errand
<1>4. (task[v] \in Calls /\ Op(v) \in Targets) => e \in Errands /\ OrderStep(e)
  BY <1>0, CallTypes DEF Op, Errand
<1>5. StillMissed(v)'
  BY <1>0, <1>3, <1>4, PastDeliveryKept DEF WorkerOK, ControlOK, StillMissed, Same
<1>6. StillRefundable(v)'
  <2>. SUFFICES ASSUME pc[v] = "refund"
                PROVE  order'[e].status \in RefundStatus
    BY <1>3 DEF StillRefundable, Same
  <2>0. PICK d \in Errands : task[v] = HeldReply(d)
    BY DEF WorkerOK, ControlOK
  <2>1. e \in Errands
    BY <1>0, <2>0 DEF Errand, HeldReply
  <2>2. order[e].status \in RefundStatus
    BY <1>0 DEF WorkerOK, StillRefundable
  <2>3. order[e] \in OrderRow
    BY <2>1, <2>2, RealRow, ServiceLifecycle DEF LifecycleInv, Status, Terminal
  <2>. QED BY <2>1, <2>2, <2>3, OrderKept DEF Terminal
<1>7. StillAnswered(v)'
  <2>. SUFFICES ASSUME pc[v] = "respond", Op(v) \in Targets
                PROVE  StillAnswered(v)'
    BY <1>3 DEF StillAnswered, Same
  <2>1. e \in Errands /\ OrderStep(e)
    BY <1>4 DEF WorkerOK, ControlOK
  <2>2. order[e].status \in {"DELIVERED", "CANCELLED", "EXPIRED"} => order'[e] = order[e]
    <3>1. order[e].status \in {"DELIVERED", "CANCELLED", "EXPIRED"} => order[e] \in OrderRow
      BY <2>1, RealRow, ServiceLifecycle DEF LifecycleInv, Status, Terminal, RefundStatus
    <3>. QED BY <2>1, <3>1, OrderKept DEF Terminal, RefundStatus
  <2>3. PastDelivery(e) /\ order[e].status # "DELIVERED"
            => PastDelivery(e)' /\ order'[e].status # "DELIVERED"
    BY <2>1, PastDeliveryKept
  <2>4. StillAnswered(v)
    BY DEF WorkerOK
  <2>. QED BY <1>0, <1>3, <2>2, <2>3, <2>4 DEF StillAnswered, Same
<1>8. StillCreated(v)'
  <2>. SUFFICES ASSUME pc[v] = "respond", Op(v) = "CREATE", answer[v].code \in {200, 201}
                PROVE  StillCreated(v)'
    BY <1>3 DEF StillCreated, Same
  <2>0. PICK d : d = answer[v].errand
    OBVIOUS
  <2>1. /\ d \in Errands /\ order[d] \in OrderRow
        /\ IF task[v].key = NoKey THEN order[d].requester = Caller(v)
                                  ELSE d \in Holder(task[v].key)
    BY <2>0 DEF WorkerOK, StillCreated
  <2>2. answer'[v].errand = d
    BY <2>0 DEF Same
  <2>3. /\ order'[d] \in OrderRow /\ order'[d].requester = order[d].requester
        /\ key'[d] = key[d]
    BY <2>1, OrderKept
  <2>4. order'[d] # NoOrder
    BY <2>3 DEF OrderRow, NoOrder, Status, Active, Terminal, RefundStatus
  <2>. QED BY <1>3, <2>1, <2>2, <2>3, <2>4 DEF StillCreated, Same, Holder
<1>. QED BY <1>1, <1>2, <1>5, <1>6, <1>7, <1>8 DEF WorkerOK

\* The step of one worker, as Next lists them.
WorkerStep(w) ==
    \/ QuietStep(w)
    \/ \E call \in Calls : BeginUpdate(w, call)
    \/ InsertOrder(w) \/ UpdateOrder(w) \/ AskRefund(w)
    \/ \E e \in Errands : OnHeld(w, e)

\* Nobody writes to another worker's variables.
LEMMA OthersSame ==
    ASSUME TypeOK, NEW w \in Workers, NEW v \in Workers, v # w, WorkerStep(w)
    PROVE  Same(v)
<1>. USE DEF TypeOK, Same, Goto, Respond, Start, Leave
<1>1. ASSUME QuietStep(w)
      PROVE  Same(v)
  BY <1>1 DEF QuietStep, LookupKey, PlacesRefused, InsertFails, LookupAgain, ReadOrder,
              UpdateMissed, Recheck, Finish, ReadOrphan, BeginCreate
<1>2. ASSUME NEW call \in Calls, BeginUpdate(w, call)
      PROVE  Same(v)
  BY <1>2 DEF BeginUpdate
<1>3. ASSUME InsertOrder(w) \/ UpdateOrder(w) \/ AskRefund(w)
      PROVE  Same(v)
  BY <1>3 DEF InsertOrder, UpdateOrder, AskRefund
<1>4. ASSUME NEW e \in Errands, OnHeld(w, e)
      PROVE  Same(v)
  BY <1>4 DEF OnHeld, handlers
<1>. QED BY <1>1, <1>2, <1>3, <1>4 DEF WorkerStep

\* At these points a worker relies on nothing but its task.
LEMMA TaskOnly ==
    ASSUME NEW w \in Workers, ControlOK(w)',
           pc'[w] \in {"idle", "lookup", "insert", "again", "read", "orphan"}
    PROVE  WorkerOK(w)'
BY DEF WorkerOK, StillJudged, StillMissed, StillRefundable, StillAnswered, StillCreated

\* The answers of Judge, and the rows it gives them for.
LEMMA JudgeFacts ==
    ASSUME NEW call \in Calls, call.op \in Targets, NEW row \in OrderRow \cup {NoOrder}
    PROVE  /\ Judge(call, row) \in {0, 200, 400, 403, 404, 409, 410}
           /\ Judge(call, row) = 0 => Admits(call, row)
           /\ Judge(call, row) = 200 => call.op = "DELIVERED" /\ row.status = "DELIVERED"
           /\ Judge(call, row) = 410 => row.status = "EXPIRED"
           /\ Judge(call, row) = 409 => call.op = "ACCEPTED"
BY DEF Judge, Admits, Targets

\* A worker whose task is the creation of an order.
LEMMA CreateSteps ==
    ASSUME ServiceInv, NEW w \in Workers,
           \/ \E call \in Calls : BeginCreate(w, call)
           \/ LookupKey(w) \/ PlacesRefused(w) \/ InsertOrder(w) \/ InsertFails(w) \/ LookupAgain(w)
    PROVE  WorkerOK(w)'
<1>. USE DEF Op
<1>0. TypeOK /\ ControlOK(w) /\ order \in [Errands -> OrderRow \cup {NoOrder}]
  BY DEF ServiceInv, HandlerInv, TypeOK, LifecycleTypeOK
<1>1. ASSUME NEW call \in Calls, BeginCreate(w, call)
      PROVE  WorkerOK(w)'
  BY <1>0, <1>1, TaskOnly DEF BeginCreate, Start, Goto, TypeOK, ControlOK
<1>2. ASSUME pc[w] \in {"lookup", "insert", "again"}, NEW code, NEW e, Respond(w, code, e),
             task' = task,
             code \in {200, 201} =>
                /\ e \in Errands /\ order'[e] \in OrderRow
                /\ IF task[w].key = NoKey THEN order'[e].requester = Caller(w)
                                          ELSE e \in Holder(task[w].key)'
      PROVE  WorkerOK(w)'
  <2>1. pc'[w] = "respond" /\ answer'[w].code = code /\ answer'[w].errand = e /\ task'[w] = task[w]
    BY <1>0, <1>2 DEF Respond, Goto, TypeOK
  <2>2. task[w] \in Calls /\ task[w].op = "CREATE"
    BY <1>0, <1>2 DEF ControlOK
  <2>3. StillCreated(w)'
    BY <1>2, <2>1, <2>2 DEF StillCreated, Caller, Holder
  <2>4. "CREATE" \notin Targets
    BY DEF Targets
  <2>. QED BY <2>1, <2>2, <2>3, <2>4 DEF WorkerOK, ControlOK, StillJudged, StillMissed,
                                         StillRefundable, StillAnswered
<1>3. ASSUME pc[w] \in {"lookup", "insert", "again"}, NEW label \in {"insert", "again"},
             Goto(w, label), task' = task
      PROVE  WorkerOK(w)'
  BY <1>0, <1>3, TaskOnly DEF Goto, TypeOK, ControlOK
<1>4. ASSUME NEW k, NEW e \in Holder(k), order' = order, key' = key
      PROVE  k # NoKey /\ e \in Errands /\ order'[e] \in OrderRow /\ e \in Holder(k)'
  BY <1>0, <1>4 DEF Holder
<1>5. CASE LookupKey(w)
  <2>1. task' = task /\ order' = order /\ key' = key /\ pc[w] = "lookup"
    BY <1>5 DEF LookupKey, lifecycle
  <2>2. ASSUME NEW e \in Holder(task[w].key), Respond(w, 200, e)
        PROVE  WorkerOK(w)'
    <3>. PICK k : k = task[w].key
      OBVIOUS
    <3>. QED BY <1>2, <1>4, <2>1, <2>2 DEF Holder
  <2>. QED BY <1>3, <1>5, <2>1, <2>2 DEF LookupKey
<1>6. CASE PlacesRefused(w)
  <2>1. task' = task /\ pc[w] = "insert"
    BY <1>6 DEF PlacesRefused
  <2>2. PICK code \in {400, 503} : Respond(w, code, NoErrand)
    BY <1>6 DEF PlacesRefused
  <2>. QED BY <1>2, <2>1, <2>2
<1>7. CASE InsertOrder(w)
  <2>1. PICK e \in Errands : /\ Create(e, Caller(w), task[w].amount)
                             /\ key' = [key EXCEPT ![e] = task[w].key]
                             /\ Respond(w, 201, e)
    BY <1>7 DEF InsertOrder
  <2>2. task' = task /\ pc[w] = "insert"
    BY <1>7 DEF InsertOrder
  <2>3. Caller(w) \in Users /\ task[w].amount \in Amounts /\ task[w].key \in Keys \cup {NoKey}
    BY <1>0, <2>2, CallTypes DEF ControlOK, Caller
  <2>4. order'[e] \in OrderRow /\ order'[e].requester = Caller(w) /\ order'[e] # NoOrder
    BY <1>0, <2>1, <2>3 DEF Create, OrderRow, Status, NoOrder
  <2>5. key'[e] = task[w].key
    BY <1>0, <2>1 DEF TypeOK
  <2>6. task[w].key # NoKey => e \in Holder(task[w].key)'
    BY <2>2, <2>4, <2>5 DEF Holder
  <2>. QED BY <1>2, <2>1, <2>2, <2>4, <2>6
<1>8. CASE InsertFails(w)
  BY <1>3, <1>8 DEF InsertFails
<1>9. CASE LookupAgain(w)
  <2>1. task' = task /\ order' = order /\ key' = key /\ pc[w] = "again"
    BY <1>9 DEF LookupAgain, lifecycle
  <2>2. ASSUME NEW e \in Holder(task[w].key), Respond(w, 200, e)
        PROVE  WorkerOK(w)'
    BY <1>2, <1>4, <2>1, <2>2 DEF Holder
  <2>3. ASSUME Respond(w, 500, NoErrand)
        PROVE  WorkerOK(w)'
    BY <1>2, <2>1, <2>3
  <2>. QED BY <1>9, <2>2, <2>3 DEF LookupAgain
<1>. QED BY <1>1, <1>5, <1>6, <1>7, <1>8, <1>9

\* A worker whose task is a change of status.
LEMMA UpdateSteps ==
    ASSUME ServiceInv, NEW w \in Workers,
           \/ \E call \in Calls : BeginUpdate(w, call)
           \/ ReadOrder(w) \/ UpdateOrder(w) \/ UpdateMissed(w) \/ Recheck(w) \/ Finish(w)
    PROVE  WorkerOK(w)'
<1>0. TypeOK /\ WorkerOK(w) /\ order \in [Errands -> OrderRow \cup {NoOrder}]
  BY DEF ServiceInv, HandlerInv, WorkerOK, TypeOK, LifecycleTypeOK
<1>1. ASSUME NEW call \in Calls, BeginUpdate(w, call)
      PROVE  WorkerOK(w)'
  BY <1>0, <1>1, TaskOnly DEF BeginUpdate, Start, Goto, TypeOK, ControlOK, Op
<1>2. ASSUME Finish(w)
      PROVE  WorkerOK(w)'
  BY <1>0, <1>2, TaskOnly DEF Finish, Leave, Goto, TypeOK, ControlOK
<1>3. ASSUME pc[w] \in {"read", "update", "recheck"}, task' = task
      PROVE  /\ task'[w] = task[w] /\ task[w] \in Calls /\ Op(w) \in Targets
             /\ Op(w)' = Op(w) /\ Errand(w)' = Errand(w) /\ Errand(w) \in Errands
  BY <1>0, <1>3, CallTypes DEF WorkerOK, ControlOK, Op, Errand
\* A response is judged by the order as the step leaves it.
<1>4. ASSUME pc[w] \in {"read", "update", "recheck"}, task' = task,
             NEW code, NEW e, e = Errand(w), Respond(w, code, e),
             code = 200 /\ Op(w) = "DELIVERED" => order'[e].status = "DELIVERED",
             code = 200 /\ Op(w) = "CANCELLED" => order'[e].status = "CANCELLED",
             code = 410 => order'[e].status = "EXPIRED",
             code = 409 /\ Op(w) = "DELIVERED" => PastDelivery(e)' /\ order'[e].status # "DELIVERED"
      PROVE  WorkerOK(w)'
  <2>1. pc'[w] = "respond" /\ answer'[w].code = code
    BY <1>0, <1>4 DEF Respond, Goto, TypeOK
  <2>2. Op(w) # "CREATE"
    BY <1>3, <1>4 DEF Targets
  <2>3. StillAnswered(w)'
    BY <1>3, <1>4, <2>1 DEF StillAnswered
  <2>. QED BY <1>3, <1>4, <2>1, <2>2, <2>3
           DEF WorkerOK, ControlOK, StillJudged, StillMissed, StillRefundable, StillCreated
<1>5. CASE ReadOrder(w)
  <2>0. PICK e : e = Errand(w)
    OBVIOUS
  <2>1. task' = task /\ order' = order /\ pc[w] = "read"
    BY <1>5 DEF ReadOrder, lifecycle
  <2>2. /\ e \in Errands /\ order[e] \in OrderRow \cup {NoOrder}
        /\ task[w] \in Calls /\ task[w].op \in Targets
    BY <1>0, <1>3, <2>0, <2>1 DEF Op
  <2>3. PICK code : code = Judge(task[w], order[e])
    OBVIOUS
  <2>4. /\ code = 0 => Admits(task[w], order[e])
        /\ code = 200 => Op(w) = "DELIVERED" /\ order[e].status = "DELIVERED"
        /\ code = 410 => order[e].status = "EXPIRED"
        /\ code = 409 => Op(w) = "ACCEPTED"
    BY <2>2, <2>3, JudgeFacts DEF Op
  <2>5. CASE code # 0
    <3>1. Respond(w, code, e)
      BY <1>5, <2>0, <2>3, <2>5 DEF ReadOrder
    <3>. QED BY <1>4, <2>0, <2>1, <2>4, <3>1
  <2>6. CASE code = 0
    <3>1. pc'[w] = "update" /\ seen'[w] = order[e]
      BY <1>0, <1>5, <2>0, <2>3, <2>6 DEF ReadOrder, Goto, TypeOK
    <3>2. Admits(task[w], order[e])
      BY <2>4, <2>6
    <3>3. StillJudged(w)'
      <4>1. Admits(task[w], seen[w])'
        BY <2>1, <3>1, <3>2 DEF Admits, RightParty
      <4>2. order[e] \in OrderRow
        BY <3>2 DEF Admits
      <4>3. Op(w) \in {"COLLECTED", "DELIVERED"} => order[e].status \in {"ACCEPTED", "COLLECTED"}
        BY <3>2 DEF Admits, Op
      <4>4. Op(w) = "DELIVERED" => order[e].status = "COLLECTED"
        BY <3>2 DEF Admits, Op
      <4>. QED BY <1>3, <2>0, <2>1, <3>1, <4>1, <4>2, <4>3, <4>4 DEF StillJudged
    <3>. QED BY <1>3, <2>1, <3>1, <3>3
             DEF WorkerOK, ControlOK, StillMissed, StillRefundable, StillAnswered, StillCreated
  <2>. QED BY <2>5, <2>6
<1>6. CASE UpdateOrder(w)
  <2>0. PICK e : e = Errand(w)
    OBVIOUS
  <2>1. /\ task' = task /\ pc[w] = "update" /\ Respond(w, 200, e)
        /\ Transition(e, From(w), Updated(w), Events(w), BeforeDeadline(w))
    BY <1>6, <2>0 DEF UpdateOrder
  <2>2. e \in Errands /\ order[e] \in OrderRow
    BY <1>0, <1>3, <2>0, <2>1 DEF WorkerOK, StillJudged
  <2>3. Op(w) # "ACCEPTED" => order'[e].status = Op(w)
    BY <1>0, <2>0, <2>1, <2>2 DEF Transition, Updated, Moved, OrderRow
  <2>. QED BY <1>4, <2>0, <2>1, <2>3
<1>7. CASE UpdateMissed(w)
  <2>0. PICK e : e = Errand(w)
    OBVIOUS
  <2>1. /\ task' = task /\ pc[w] = "update" /\ order' = order /\ overdue' = overdue
        /\ order[e].status # From(w) \/ (BeforeDeadline(w) /\ e \in overdue)
    BY <1>7, <2>0 DEF UpdateMissed, lifecycle
  <2>2. CASE Op(w) = "DELIVERED"
    <3>1. pc'[w] = "recheck"
      BY <1>0, <1>7, <2>2 DEF UpdateMissed, Goto, TypeOK
    <3>2. PastDelivery(e)
      BY <1>0, <2>0, <2>1, <2>2 DEF WorkerOK, StillJudged, From, PastDelivery
    <3>3. PastDelivery(e)'
      BY <2>1, <3>2 DEF PastDelivery
    <3>. QED BY <1>3, <2>0, <2>1, <2>2, <3>1, <3>3
             DEF WorkerOK, ControlOK, StillJudged, StillMissed, StillRefundable, StillAnswered,
                 StillCreated
  <2>3. CASE Op(w) # "DELIVERED"
    <3>1. Respond(w, 409, e)
      BY <1>7, <2>0, <2>3 DEF UpdateMissed
    <3>. QED BY <1>4, <2>0, <2>1, <2>3, <3>1
  <2>. QED BY <2>2, <2>3
<1>8. CASE Recheck(w)
  <2>0. PICK e : e = Errand(w)
    OBVIOUS
  <2>1. task' = task /\ pc[w] = "recheck" /\ order' = order /\ overdue' = overdue
    BY <1>8 DEF Recheck, lifecycle
  <2>2. Op(w) = "DELIVERED" /\ PastDelivery(e)
    BY <1>0, <2>0, <2>1 DEF WorkerOK, StillMissed
  <2>3. PastDelivery(e)'
    BY <2>1, <2>2 DEF PastDelivery
  <2>4. Respond(w, IF order[e].status = "DELIVERED" THEN 200 ELSE 409, e)
    BY <1>8, <2>0 DEF Recheck
  <2>. QED BY <1>4, <2>0, <2>1, <2>2, <2>3, <2>4
<1>. QED BY <1>1, <1>2, <1>5, <1>6, <1>7, <1>8

\* A worker whose task is a reply of the credit service.
LEMMA ReplySteps ==
    ASSUME ServiceInv, NEW w \in Workers,
           \A f \in Errands : OrderStep(f),
           \/ ReadOrphan(w) \/ AskRefund(w)
           \/ \E e \in Errands : OnHeld(w, e)
    PROVE  WorkerOK(w)'
<1>0. TypeOK /\ WorkerOK(w)
  BY DEF ServiceInv, HandlerInv, WorkerOK
<1>1. ASSUME NEW e \in Errands, OnHeld(w, e)
      PROVE  WorkerOK(w)'
  <2>1. CASE Open(e) /\ UNCHANGED <<key, handlers>>
    <3>1. Same(w)
      BY <2>1 DEF Same, handlers
    <3>. QED BY <1>0, <3>1, Undisturbed
  <2>2. CASE Start(w, "orphan", HeldReply(e))
    BY <1>0, <2>2, TaskOnly DEF Start, Goto, TypeOK, ControlOK
  <2>. QED BY <1>1, <2>1, <2>2 DEF OnHeld
<1>2. ASSUME Leave(w)
      PROVE  WorkerOK(w)'
  BY <1>0, <1>2, TaskOnly DEF Leave, Goto, TypeOK, ControlOK
<1>3. CASE ReadOrphan(w)
  <2>1. pc[w] = "orphan" /\ order' = order
    BY <1>3 DEF ReadOrphan, lifecycle
  <2>2. CASE order[Errand(w)].status \in RefundStatus
    <3>1. pc'[w] = "refund" /\ task' = task
      BY <1>0, <1>3, <2>2 DEF ReadOrphan, Goto, TypeOK
    <3>. QED BY <1>0, <2>1, <2>2, <3>1
             DEF WorkerOK, ControlOK, StillJudged, StillMissed, StillRefundable, StillAnswered,
                 StillCreated, Errand
  <2>. QED BY <1>2, <1>3, <2>2 DEF ReadOrphan
<1>4. CASE AskRefund(w)
  BY <1>2, <1>4 DEF AskRefund
<1>. QED BY <1>1, <1>3, <1>4

LEMMA WorkerSteps ==
    ASSUME ServiceInv, NEW w \in Workers, WorkerStep(w),
           \A f \in Errands : OrderStep(f)
    PROVE  WorkerOK(w)'
BY CreateSteps, UpdateSteps, ReplySteps DEF WorkerStep, QuietStep

LEMMA HandlersKept ==
    ASSUME ServiceInv, [Next]_vars
    PROVE  HandlerInv'
<1>. SUFFICES ASSUME NEW v \in Workers
              PROVE  WorkerOK(v)'
  BY DEF HandlerInv, WorkerOK
<1>0. /\ TypeOK /\ WorkerOK(v)
      /\ \A f \in Errands : OrderStep(f)
  BY OrderSteps DEF ServiceInv, HandlerInv, WorkerOK
<1>1. ASSUME Same(v)
      PROVE  WorkerOK(v)'
  BY <1>0, <1>1, Undisturbed
<1>2. ASSUME NEW w \in Workers, WorkerStep(w)
      PROVE  WorkerOK(v)'
  BY <1>0, <1>1, <1>2, WorkerSteps, OthersSame
<1>3. ASSUME \/ UNCHANGED vars
             \/ ExpiryJob
             \/ \E e \in Errands : OnHoldRejected(e) \/ OnAcceptRejected(e) \/ Deadline(e)
      PROVE  Same(v)
  BY <1>3 DEF vars, handlers, ExpiryJob, OnHoldRejected, OnAcceptRejected, Deadline, Same
<1>4. CASE Crash
  BY <1>4, TaskOnly DEF Crash, ControlOK
<1>. QED BY <1>1, <1>2, <1>3, <1>4 DEF Next, WorkerStep, QuietStep

\* The types of the handlers' variables, step by step.
LEMMA TypesKept ==
    ASSUME ServiceInv, [Next]_vars
    PROVE  TypeOK'
<1>0. TypeOK /\ order \in [Errands -> OrderRow \cup {NoOrder}]
  BY DEF ServiceInv, TypeOK, LifecycleTypeOK
<1>1. LifecycleTypeOK'
  BY ServiceSteps, ServiceLifecycle, DatabaseStepsAreLifecycle, LifecycleStepInv
  DEF DatabaseStep, LifecycleInv
<1>. DEFINE HandlerTypes ==
              /\ key \in [Errands -> Keys \cup {NoKey}]
              /\ pc \in [Workers -> {"idle", "lookup", "insert", "again", "read", "update",
                                     "recheck", "respond", "orphan", "refund"}]
              /\ task \in [Workers -> Calls \cup {NoTask} \cup {HeldReply(e) : e \in Errands}]
              /\ seen \in [Workers -> OrderRow \cup {NoOrder}]
              /\ answer \in [Workers -> [code: {0, 200, 201, 400, 403, 404, 409, 410, 500, 503},
                                         errand: Errands \cup {NoErrand}]]
<1>2. HandlerTypes
  BY <1>0 DEF TypeOK
<1>. SUFFICES HandlerTypes'
  BY <1>1 DEF TypeOK
<1>3. ASSUME NEW w \in Workers, NEW code \in {200, 201, 400, 403, 404, 409, 410, 500, 503},
             NEW e \in Errands \cup {NoErrand}, Respond(w, code, e), task' = task, key' = key
      PROVE  HandlerTypes'
  BY <1>2, <1>3 DEF Respond, Goto
<1>4. ASSUME NEW w \in Workers, NEW label \in {"insert", "again", "recheck", "refund"},
             Goto(w, label), UNCHANGED <<key, task, seen, answer>>
      PROVE  HandlerTypes'
  BY <1>2, <1>4 DEF Goto
<1>5. ASSUME NEW w \in Workers, Leave(w), key' = key
      PROVE  HandlerTypes'
  BY <1>2, <1>5 DEF Leave, Goto, NoAnswer
<1>6. ASSUME NEW w \in Workers, NEW label \in {"insert", "lookup", "read", "orphan"},
             NEW job \in Calls \cup {HeldReply(e) : e \in Errands}, Start(w, label, job)
      PROVE  HandlerTypes'
  BY <1>2, <1>6 DEF Start, Goto
<1>7. ASSUME NEW w \in Workers, pc[w] \in {"read", "update", "recheck"}
      PROVE  task[w] \in Calls /\ Op(w) \in Targets /\ Errand(w) \in Errands
  BY <1>7, CallTypes DEF ServiceInv, HandlerInv, ControlOK, Op, Errand
<1>8. ASSUME NEW w \in Workers,
             LookupKey(w) \/ PlacesRefused(w) \/ InsertFails(w) \/ LookupAgain(w)
      PROVE  HandlerTypes'
  <2>. HIDE DEF HandlerTypes
  <2>. QED BY <1>3, <1>4, <1>8 DEF LookupKey, PlacesRefused, InsertFails, LookupAgain, Holder
<1>9. ASSUME NEW w \in Workers, InsertOrder(w)
      PROVE  HandlerTypes'
  <2>1. task[w].key \in Keys \cup {NoKey}
    BY <1>9, CallTypes DEF InsertOrder, ServiceInv, HandlerInv, ControlOK
  <2>2. PICK e \in Errands : key' = [key EXCEPT ![e] = task[w].key] /\ Respond(w, 201, e)
    BY <1>9 DEF InsertOrder
  <2>. QED BY <1>2, <1>9, <2>1, <2>2 DEF InsertOrder, Respond, Goto
<1>10. ASSUME NEW w \in Workers, ReadOrder(w)
       PROVE  HandlerTypes'
  <2>0. pc[w] = "read" /\ UNCHANGED <<key, task>>
    BY <1>10 DEF ReadOrder
  <2>1. Judge(task[w], order[Errand(w)]) \in {0, 200, 400, 403, 404, 409, 410}
    BY <1>0, <1>7, <2>0, JudgeFacts DEF Op
  <2>2. CASE Judge(task[w], order[Errand(w)]) = 0
    <3>1. Goto(w, "update") /\ seen' = [seen EXCEPT ![w] = order[Errand(w)]] /\ answer' = answer
      BY <1>10, <2>2 DEF ReadOrder
    <3>2. order[Errand(w)] \in OrderRow \cup {NoOrder}
      BY <1>0, <1>7, <2>0
    <3>. QED BY <1>2, <2>0, <3>1, <3>2 DEF Goto
  <2>3. CASE Judge(task[w], order[Errand(w)]) # 0
    <3>1. Respond(w, Judge(task[w], order[Errand(w)]), Errand(w))
      BY <1>10, <2>3 DEF ReadOrder
    <3>. HIDE DEF HandlerTypes
    <3>. QED BY <1>3, <1>7, <2>0, <2>1, <2>3, <3>1
  <2>. QED BY <2>2, <2>3
<1>11. ASSUME NEW w \in Workers, UpdateOrder(w) \/ UpdateMissed(w) \/ Recheck(w)
       PROVE  HandlerTypes'
  <2>1. Errand(w) \in Errands
    BY <1>7, <1>11 DEF UpdateOrder, UpdateMissed, Recheck
  <2>. HIDE DEF HandlerTypes
  <2>2. CASE UpdateOrder(w)
    BY <1>3, <2>1, <2>2 DEF UpdateOrder
  <2>3. CASE UpdateMissed(w)
    BY <1>3, <1>4, <2>1, <2>3 DEF UpdateMissed
  <2>4. CASE Recheck(w)
    BY <1>3, <2>1, <2>4 DEF Recheck
  <2>. QED BY <1>11, <2>2, <2>3, <2>4
<1>12. ASSUME NEW w \in Workers, Finish(w) \/ ReadOrphan(w) \/ AskRefund(w)
       PROVE  HandlerTypes'
  <2>. HIDE DEF HandlerTypes
  <2>. QED BY <1>4, <1>5, <1>12 DEF Finish, ReadOrphan, AskRefund
<1>13. ASSUME NEW w \in Workers, NEW call \in Calls, BeginCreate(w, call) \/ BeginUpdate(w, call)
       PROVE  HandlerTypes'
  <2>. HIDE DEF HandlerTypes
  <2>. QED BY <1>6, <1>13 DEF BeginCreate, BeginUpdate
<1>14. ASSUME handlers' = handlers, key' = key
       PROVE  HandlerTypes'
  BY <1>2, <1>14 DEF handlers
<1>15. ASSUME NEW w \in Workers, NEW e \in Errands, OnHeld(w, e)
       PROVE  HandlerTypes'
  <2>. HIDE DEF HandlerTypes
  <2>. QED BY <1>6, <1>14, <1>15 DEF OnHeld
<1>16. ASSUME Crash
       PROVE  HandlerTypes'
  BY <1>2, <1>16 DEF Crash, NoAnswer
<1>. HIDE DEF HandlerTypes
<1>17. ASSUME \/ UNCHANGED vars
              \/ ExpiryJob
              \/ \E e \in Errands : OnHoldRejected(e) \/ OnAcceptRejected(e) \/ Deadline(e)
       PROVE  HandlerTypes'
  BY <1>14, <1>17 DEF vars, ExpiryJob, OnHoldRejected, OnAcceptRejected, Deadline
<1>. QED BY <1>8, <1>9, <1>10, <1>11, <1>12, <1>13, <1>15, <1>16, <1>17 DEF Next

\* A key is only given to a new order, and only if no order has it.
LEMMA KeysKept ==
    ASSUME ServiceInv, [Next]_vars
    PROVE  KeysUnique'
<1>. SUFFICES ASSUME NEW k \in Keys, NEW d \in Errands, NEW e \in Errands,
                     d \in Holder(k)', e \in Holder(k)'
              PROVE  d = e
  BY DEF KeysUnique
<1>1. CASE OldOrdersStep /\ UNCHANGED key
  <2>1. \A f \in Errands : f \in Holder(k)' => f \in Holder(k)
    BY <1>1, NoNewOrder, ServiceLifecycle DEF Holder
  <2>. QED BY <2>1 DEF ServiceInv, KeysUnique
<1>2. ASSUME NEW w \in Workers, InsertOrder(w)
      PROVE  d = e
  <2>1. PICK f \in Errands : /\ Create(f, Caller(w), task[w].amount)
                             /\ key' = [key EXCEPT ![f] = task[w].key]
    BY <1>2 DEF InsertOrder
  <2>2. /\ \A g \in Errands \ {f} : order'[g] = order[g] /\ key'[g] = key[g]
        /\ key'[f] = task[w].key
    BY <2>1 DEF Create, ServiceInv, TypeOK, LifecycleTypeOK
  <2>3. CASE k = task[w].key
    <3>1. Holder(k) = {}
      BY <1>2, <2>3 DEF InsertOrder, KeyTaken
    <3>. QED BY <2>2, <3>1 DEF Holder
  <2>4. CASE k # task[w].key
    <3>1. d \in Holder(k) /\ e \in Holder(k)
      BY <2>2, <2>4 DEF Holder
    <3>. QED BY <3>1 DEF ServiceInv, KeysUnique
  <2>. QED BY <2>3, <2>4
<1>. QED BY <1>1, <1>2, ServiceSteps

LEMMA ServiceStepInv == ServiceInv /\ [Next]_vars => ServiceInv'
<1>. SUFFICES ASSUME ServiceInv, [Next]_vars
              PROVE  ServiceInv'
  OBVIOUS
<1>1. LifecycleInv'
  BY ServiceSteps, ServiceLifecycle, DatabaseStepsAreLifecycle, LifecycleStepInv DEF DatabaseStep
<1>. QED BY <1>1, TypesKept, HandlersKept, KeysKept DEF ServiceInv, LifecycleInv

-----------------------------------------------------------------------------
\* Part 2c.  What follows for the order service.

\* In every reachable state each worker still knows enough about the order it has read.
THEOREM ServiceInvariance == Spec => []ServiceInv
BY ServiceInitInv, ServiceStepInv, PTL DEF Spec

\* The variables of the order service keep their types.
THEOREM ServiceTypes == Spec => []TypeOK
<1>1. ServiceInv => TypeOK
  BY DEF ServiceInv
<1>. QED BY <1>1, ServiceInvariance, PTL

\* Handlers that read first and update later change orders only in the atomic steps of the
\* lifecycle: every step of the detailed specification is one of LifecycleNext or leaves
\* orders, deadlines and outbox alone (controller/order.ts:244).
THEOREM ServiceImplementsLifecycle == Spec => ImplementsLifecycle
<1>1. Init => LifecycleInit
  BY DEF Init
<1>2. ServiceInv /\ [Next]_vars => [LifecycleNext]_lifecycle
  BY ServiceSteps, DatabaseStepsAreLifecycle DEF DatabaseStep
<1>. QED BY <1>1, <1>2, ServiceInvariance, PTL DEF Spec, ImplementsLifecycle, LifecycleSpec

\* What part 1 proves of the lifecycle therefore holds under the interleaved handlers: the
\* outbox asks for the payment of delivered and the refund of undelivered errands only.
THEOREM ServiceEventsMatch == Spec => []EventsMatchStatus
BY ServiceImplementsLifecycle, EventsMatch DEF ImplementsLifecycle

\* And an errand has a courier exactly while one may be carrying it.
THEOREM ServiceCouriersMatch == Spec => []CourierMatchesStatus
BY ServiceImplementsLifecycle, CouriersMatch DEF ImplementsLifecycle

\* What a client was told about the end of an errand is true and stays true, whoever else
\* changes the order between the read, the UPDATE and the response
\* (controller/order.ts:323-351).
THEOREM AnswersStayTrue == Spec => []AnswersMatchOrder
<1>1. ServiceInv => AnswersMatchOrder
  <2>. SUFFICES ASSUME ServiceInv, NEW w \in Workers, pc[w] = "respond", Op(w) \in Targets
                PROVE  LET e == Errand(w) IN
                       /\ (answer[w].code = 200 /\ Op(w) = "DELIVERED") =>
                             order[e].status = "DELIVERED" /\ Completed(e) \in orderOutbox
                       /\ (answer[w].code = 200 /\ Op(w) = "CANCELLED") =>
                             order[e].status = "CANCELLED" /\ Cancelled(e) \in orderOutbox
                       /\ answer[w].code = 410 => order[e].status = "EXPIRED"
                       /\ (answer[w].code = 409 /\ Op(w) = "DELIVERED") =>
                             order[e].status # "DELIVERED"
    BY DEF AnswersMatchOrder
  <2>1. StillAnswered(w) /\ EventsMatchStatus
    BY DEF ServiceInv, HandlerInv
  <2>2. Errand(w) \in Errands
    BY CallTypes DEF ServiceInv, HandlerInv, ControlOK, Op, Errand
  <2>. QED BY <2>1, <2>2 DEF StillAnswered, EventsMatchStatus
<1>. QED BY <1>1, ServiceInvariance, PTL

\* An Idempotency-Key makes one order at most, and whoever repeats the request is led to
\* that order (controller/order.ts:141-147, 219-227).
THEOREM KeysMakeOneOrder == Spec => []OneOrderPerKey
<1>1. ServiceInv => OneOrderPerKey
  BY DEF ServiceInv, HandlerInv, KeysUnique, StillCreated, OneOrderPerKey
<1>. QED BY <1>1, ServiceInvariance, PTL

\* No errand is accepted, collected or delivered after its deadline, however long ago the
\* request read the order (prisma/orders.ts: "expiresAt" > now() in the UPDATE).
THEOREM NothingLate == Spec => NothingAfterDeadline
<1>1. ServiceInv /\ [Next]_vars =>
        [\A e \in overdue : order'[e].status \in {"ACCEPTED", "COLLECTED", "DELIVERED"}
                               => order'[e] = order[e]]_order
  <2>. SUFFICES ASSUME ServiceInv, [Next]_vars, NEW e \in overdue,
                       order'[e].status \in {"ACCEPTED", "COLLECTED", "DELIVERED"}
                PROVE  order'[e] = order[e]
    OBVIOUS
  <2>1. e \in Errands
    BY DEF ServiceInv, TypeOK, LifecycleTypeOK
  <2>. QED BY <2>1, OrderSteps DEF OrderStep, RowStep
<1>. QED BY <1>1, ServiceInvariance, PTL DEF Spec, NothingAfterDeadline

\* A step on an errand is made by the one who may make it when it is made, although the
\* right was judged on a row that was read before (controller/order.ts:273-351).
THEOREM StepsByParty == Spec => MadeByParty
<1>. DEFINE Made(w) ==
              LET row == order[Errand(w)] IN
              CASE Op(w) = "ACCEPTED" -> Caller(w) # row.requester
                [] Op(w) \in {"COLLECTED", "DELIVERED"} ->
                      NoAcceptUndone(Errand(w)) => Caller(w) = row.courier
                [] Op(w) = "CANCELLED" -> Caller(w) = row.requester
<1>1. ASSUME ServiceInv, NEW w \in Workers, pc[w] = "update"
      PROVE  Made(w)
  <2>1. StillJudged(w) /\ Op(w) \in Targets
    BY <1>1 DEF ServiceInv, HandlerInv, ControlOK
  <2>2. /\ RightParty(task[w], seen[w])
        /\ order[Errand(w)].requester = seen[w].requester
        /\ Op(w) \in {"COLLECTED", "DELIVERED"} /\ NoAcceptUndone(Errand(w)) =>
              order[Errand(w)].courier = seen[w].courier
    BY <1>1, <2>1 DEF StillJudged, Admits
  <2>. QED BY <2>1, <2>2 DEF RightParty, Op, Caller, Targets
<1>2. ServiceInv /\ [Next]_vars =>
        [\A w \in Workers :
            (pc[w] = "update" /\ pc'[w] = "respond" /\ answer'[w].code = 200) => Made(w)]_vars
  BY <1>1
<1>. QED BY <1>2, ServiceInvariance, PTL DEF Spec, MadeByParty
=============================================================================
