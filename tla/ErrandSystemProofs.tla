------------------------- MODULE ErrandSystemProofs -------------------------
(***************************************************************************)
(* Proofs about ErrandSystem for any number of users, errands and bounties *)
(* and for messages that are reordered, repeated and lost in any way.      *)
(*                                                                         *)
(* That an active errand is funded is not inductive: an order becomes OPEN *)
(* because of a reply and stops being funded because of a message, so the  *)
(* invariant has to say what messages and replies still under way are      *)
(* about.  It is the conjunction of the types, of these two facts, of the  *)
(* terms of a hold being those of its order, and of when a hold may have   *)
(* been settled.  Two lemmas, one per service, say what a step of that     *)
(* service has to respect; every action is then an instance of one.        *)
(***************************************************************************)
EXTENDS ErrandSystem, TLAPS

\* What an order event says is true of its order, however late it is handled.
FitsRow(m, row) ==
    /\ m.topic = "order.created" =>
          row.status # "NONE" /\ m.user = row.requester /\ m.amount = row.bounty
    /\ m.topic = "order.completed" => row.status = "DELIVERED"
    /\ m.topic = "order.cancelled" => row.status \in RefundStatus

MessagesFit == \A m \in orderOutbox : FitsRow(m, order[m.errand])

\* The hold that credits.held announces was placed.
RepliesFit == \A r \in replies : r.topic = "credits.held" => hold[r.errand] # Ledger!NoHold

\* A hold has the terms of its order.
SameTerms(h, row) ==
    row.status # "NONE" /\ h.requestor = row.requester /\ h.amount = row.bounty

HoldsFit == \A e \in Errands : hold[e] # Ledger!NoHold => SameTerms(hold[e], order[e])

PaidIsDelivered ==
    \A e \in Errands : hold[e].status = "RELEASED" => order[e].status = "DELIVERED"

SystemInv ==
    /\ TypeOK
    /\ MessagesFit /\ RepliesFit /\ HoldsFit
    /\ PaidIsDelivered /\ RefundedOnlyIfOver /\ ActiveIsFunded

\* No order, no hold and no message: the invariant holds initially.
LEMMA SystemInit == Init => SystemInv
BY SystemAssumption, OrderAssumption
   DEF Init, SystemInv, TypeOK, LifecycleInit, LifecycleTypeOK, NoOrder,
       Ledger!LedgerInit, Ledger!LedgerTypeOK, Ledger!NoHold, MessagesFit, RepliesFit, HoldsFit,
       PaidIsDelivered, RefundedOnlyIfOver, ActiveIsFunded, Active, RefundStatus

\* A hold that is not NoHold is a row of the table, and in one of its three statuses.
LEMMA RealHold ==
    ASSUME Ledger!LedgerTypeOK, NEW e \in Errands
    PROVE  /\ hold[e] = Ledger!NoHold \/ hold[e] \in Ledger!HoldRow
           /\ hold[e] # Ledger!NoHold <=> hold[e].status \in {"HELD", "RELEASED", "REFUNDED"}
BY DEF Ledger!LedgerTypeOK, Ledger!NoHold, Ledger!HoldRow

-----------------------------------------------------------------------------
\* A step of the order service keeps the terms of an order and its end, and makes it active
\* only while its bounty is held.
RowKept(old, new, h) ==
    /\ old.status # "NONE" =>
          new.status # "NONE" /\ new.requester = old.requester /\ new.bounty = old.bounty
    /\ old.status \in Terminal => new.status = old.status
    /\ new.status \in Active => old.status \in Active \/ h.status = "HELD"

\* What a step of the order service has to respect.
LEMMA OrderStep ==
    ASSUME SystemInv, LifecycleTypeOK', UNCHANGED money, replies' \subseteq replies,
           \A m \in orderOutbox' : m \in orderOutbox \/ FitsRow(m, order'[m.errand]),
           \A e \in Errands : RowKept(order[e], order'[e], hold[e])
    PROVE  SystemInv'
<1>. USE DEF SystemInv, money
<1>1. TypeOK'
  BY DEF TypeOK, Ledger!LedgerTypeOK
<1>2. MessagesFit'
  <2>. SUFFICES ASSUME NEW m \in orderOutbox'
                PROVE  FitsRow(m, order'[m.errand])
    BY DEF MessagesFit
  <2>1. CASE m \in orderOutbox
    <3>1. m.errand \in Errands
      BY <2>1 DEF TypeOK, LifecycleTypeOK, OrderEvent
    <3>2. FitsRow(m, order[m.errand]) /\ RowKept(order[m.errand], order'[m.errand], hold[m.errand])
      BY <2>1, <3>1 DEF MessagesFit
    <3>. QED BY <3>2 DEF FitsRow, RowKept, Terminal
  <2>. QED BY <2>1
<1>3. RepliesFit'
  BY DEF RepliesFit
<1>4. HoldsFit'
  BY DEF HoldsFit, SameTerms, RowKept
<1>5. PaidIsDelivered' /\ RefundedOnlyIfOver'
  BY DEF PaidIsDelivered, RefundedOnlyIfOver, RowKept, Terminal
<1>6. ActiveIsFunded'
  <2>. SUFFICES ASSUME NEW e \in Errands, order'[e].status \in Active
                PROVE  /\ hold[e].status = "HELD"
                       /\ hold[e].requestor = order'[e].requester
                       /\ hold[e].amount = order'[e].bounty
    BY DEF ActiveIsFunded
  <2>1. RowKept(order[e], order'[e], hold[e])
    OBVIOUS
  <2>2. hold[e].status = "HELD"
    BY <2>1 DEF RowKept, ActiveIsFunded
  <2>3. SameTerms(hold[e], order[e])
    BY <2>2, RealHold DEF HoldsFit, TypeOK
  <2>. QED BY <2>1, <2>2, <2>3 DEF RowKept, SameTerms
<1>. QED BY <1>1, <1>2, <1>3, <1>4, <1>5, <1>6

\* One row changes and its events are queued.
LEMMA RowStep ==
    ASSUME SystemInv, UNCHANGED money, replies' \subseteq replies, UNCHANGED overdue,
           NEW e \in Errands, NEW row \in OrderRow, NEW events \in SUBSET OrderEvent,
           order' = [order EXCEPT ![e] = row], orderOutbox' = orderOutbox \cup events,
           \A m \in events : m.errand = e /\ FitsRow(m, row),
           RowKept(order[e], row, hold[e])
    PROVE  SystemInv'
<1>1. order \in [Errands -> OrderRow \cup {NoOrder}] /\ orderOutbox \subseteq OrderEvent
      /\ overdue \subseteq Errands
  BY DEF SystemInv, TypeOK, LifecycleTypeOK
<1>3. LifecycleTypeOK'
  BY <1>1 DEF LifecycleTypeOK
<1>4. \A f \in Errands : RowKept(order[f], order'[f], hold[f])
  BY <1>1 DEF RowKept
<1>5. \A m \in orderOutbox' : m \in orderOutbox \/ FitsRow(m, order'[m.errand])
  BY <1>1
<1>. QED BY <1>3, <1>4, <1>5, OrderStep

\* A row whose status is known is a row of the table.
LEMMA SystemRow ==
    ASSUME TypeOK, NEW e \in Errands, order[e].status \in Status
    PROVE  order[e] \in OrderRow
BY DEF TypeOK, LifecycleTypeOK, NoOrder, Status, Active, Terminal, RefundStatus

\* A moved row keeps its requester and its bounty.
LEMMA MovedRow ==
    ASSUME TypeOK, NEW e \in Errands, order[e].status \in Status, NEW to \in Status
    PROVE  /\ Moved(e, to) \in OrderRow
           /\ Moved(e, to).status = to
           /\ Moved(e, to).requester = order[e].requester
           /\ Moved(e, to).bounty = order[e].bounty
<1>1. order[e] \in OrderRow
  BY SystemRow
<1>. QED BY <1>1 DEF Moved, OrderRow

\* The transitions that only move the status.
LEMMA MovedStep ==
    ASSUME SystemInv, UNCHANGED money, replies' \subseteq replies, UNCHANGED overdue,
           NEW e \in Errands, NEW to \in Status, NEW events \in SUBSET OrderEvent,
           order[e].status \in Status, order[e].status \notin Terminal,
           order' = [order EXCEPT ![e] = Moved(e, to)], orderOutbox' = orderOutbox \cup events,
           \A m \in events : m.errand = e /\ FitsRow(m, Moved(e, to)),
           to \in Active => order[e].status \in Active \/ hold[e].status = "HELD"
    PROVE  SystemInv'
<1>1. /\ Moved(e, to) \in OrderRow
      /\ Moved(e, to).status = to
      /\ Moved(e, to).requester = order[e].requester
      /\ Moved(e, to).bounty = order[e].bounty
  BY MovedRow DEF SystemInv
<1>. HIDE DEF Moved
<1>2. RowKept(order[e], Moved(e, to), hold[e])
  BY <1>1 DEF RowKept, Status, Active, Terminal, RefundStatus
<1>. QED BY <1>1, <1>2, RowStep

\* createOrder announces the terms it stores.
LEMMA CreateStep ==
    ASSUME SystemInv, UNCHANGED money, replies' \subseteq replies,
           NEW e \in Errands, NEW r \in Users, NEW a \in Amounts, Create(e, r, a)
    PROVE  SystemInv'
<1>. DEFINE row == [status |-> "PENDING", requester |-> r, courier |-> NoUser, bounty |-> a]
<1>1. row \in OrderRow
  BY DEF OrderRow, Status
<1>2. {Created(e, r, a)} \in SUBSET OrderEvent
  BY DEF OrderEvent, Created
<1>3. \A m \in {Created(e, r, a)} : m.errand = e /\ FitsRow(m, row)
  BY DEF Created, FitsRow
<1>4. RowKept(order[e], row, hold[e])
  BY DEF Create, NoOrder, RowKept, Active, Terminal, RefundStatus
<1>5. /\ order' = [order EXCEPT ![e] = row]
      /\ orderOutbox' = orderOutbox \cup {Created(e, r, a)}
      /\ overdue' = overdue
  BY DEF Create, Queue
<1>. HIDE DEF row
<1>. QED BY <1>1, <1>2, <1>3, <1>4, <1>5, RowStep

\* An accepted errand was open, so its bounty is held.
LEMMA AcceptStep ==
    ASSUME SystemInv, UNCHANGED money, replies' \subseteq replies,
           NEW e \in Errands, NEW c \in Users, Accept(e, c)
    PROVE  SystemInv'
<1>. DEFINE row == [Moved(e, "ACCEPTED") EXCEPT !.courier = c]
<1>0. /\ order[e].status = "OPEN"
      /\ order' = [order EXCEPT ![e] = row]
      /\ orderOutbox' = orderOutbox \cup {Accepted(e, c)}
      /\ overdue' = overdue
  BY DEF Accept, Transition, Queue
<1>1. order[e] \in OrderRow
  BY <1>0, SystemRow DEF SystemInv, Status, Active
<1>2. row = [order[e] EXCEPT !.status = "ACCEPTED", !.courier = c]
  BY <1>1 DEF Moved, OrderRow
<1>3. row \in OrderRow /\ RowKept(order[e], row, hold[e])
  BY <1>0, <1>1, <1>2 DEF OrderRow, RowKept, Status, Active, Terminal, RefundStatus
<1>4. {Accepted(e, c)} \in SUBSET OrderEvent
  BY DEF OrderEvent, Accepted
<1>5. \A m \in {Accepted(e, c)} : m.errand = e /\ FitsRow(m, row)
  BY DEF Accepted, FitsRow
<1>. HIDE DEF row
<1>. QED BY <1>0, <1>3, <1>4, <1>5, RowStep

\* An undone accept puts the errand back among the open ones.
LEMMA UndoAcceptStep ==
    ASSUME SystemInv, UNCHANGED money, replies' \subseteq replies,
           NEW e \in Errands, UndoAccept(e)
    PROVE  SystemInv'
<1>. DEFINE row == [Moved(e, "OPEN") EXCEPT !.courier = NoUser]
<1>0. /\ order[e].status = "ACCEPTED"
      /\ order' = [order EXCEPT ![e] = row]
      /\ orderOutbox' = orderOutbox \cup {}
      /\ overdue' = overdue
  BY DEF UndoAccept, Transition, Queue
<1>1. order[e] \in OrderRow
  BY <1>0, SystemRow DEF SystemInv, Status, Active
<1>2. row = [order[e] EXCEPT !.status = "OPEN", !.courier = NoUser]
  BY <1>1 DEF Moved, OrderRow
<1>3. row \in OrderRow /\ RowKept(order[e], row, hold[e])
  BY <1>0, <1>1, <1>2 DEF OrderRow, RowKept, Status, Active, Terminal, RefundStatus
<1>4. {} \in SUBSET OrderEvent /\ \A m \in {} : m.errand = e /\ FitsRow(m, row)
  OBVIOUS
<1>. HIDE DEF row
<1>. QED BY <1>0, <1>3, <1>4, RowStep

\* Collecting queues nothing.
LEMMA CollectStep ==
    ASSUME SystemInv, UNCHANGED money, replies' \subseteq replies,
           NEW e \in Errands, Collect(e)
    PROVE  SystemInv'
<1>1. /\ order[e].status = "ACCEPTED"
      /\ order' = [order EXCEPT ![e] = Moved(e, "COLLECTED")]
      /\ orderOutbox' = orderOutbox \cup {}
      /\ overdue' = overdue
  BY DEF Collect, Transition, Queue
<1>2. {} \in SUBSET OrderEvent
  OBVIOUS
<1>. HIDE DEF Moved
<1>. QED BY <1>1, <1>2, MovedStep DEF Status, Active, Terminal, RefundStatus

\* Only a delivery asks for a payment.
LEMMA DeliverStep ==
    ASSUME SystemInv, UNCHANGED money, replies' \subseteq replies,
           NEW e \in Errands, Deliver(e)
    PROVE  SystemInv'
<1>1. /\ order[e].status = "COLLECTED"
      /\ order' = [order EXCEPT ![e] = Moved(e, "DELIVERED")]
      /\ orderOutbox' = orderOutbox \cup {Completed(e)}
      /\ overdue' = overdue
  BY DEF Deliver, Transition, Queue
<1>2. /\ order[e].status \in Status /\ order[e].status \notin Terminal
      /\ "DELIVERED" \in Status /\ "DELIVERED" \notin Active
  BY <1>1 DEF Status, Active, Terminal, RefundStatus
<1>3. {Completed(e)} \in SUBSET OrderEvent
  BY DEF OrderEvent, Completed
<1>4. \A m \in {Completed(e)} : m.errand = e /\ FitsRow(m, Moved(e, "DELIVERED"))
  BY <1>2, MovedRow DEF SystemInv, Completed, FitsRow
<1>. HIDE DEF Moved
<1>. QED BY <1>1, <1>2, <1>3, <1>4, MovedStep

\* A cancelled errand asks for its refund.
LEMMA CancelStep ==
    ASSUME SystemInv, UNCHANGED money, replies' \subseteq replies,
           NEW e \in Errands, Cancel(e)
    PROVE  SystemInv'
<1>1. /\ order[e].status \in {"OPEN", "ACCEPTED"}
      /\ order' = [order EXCEPT ![e] = Moved(e, "CANCELLED")]
      /\ orderOutbox' = orderOutbox \cup {Cancelled(e)}
      /\ overdue' = overdue
  BY DEF Cancel, Transition, Queue
<1>2. /\ order[e].status \in Status /\ order[e].status \notin Terminal
      /\ "CANCELLED" \in Status /\ "CANCELLED" \notin Active /\ "CANCELLED" \in RefundStatus
  BY <1>1 DEF Status, Active, Terminal, RefundStatus
<1>3. {Cancelled(e)} \in SUBSET OrderEvent
  BY DEF OrderEvent, Cancelled
<1>4. \A m \in {Cancelled(e)} : m.errand = e /\ FitsRow(m, Moved(e, "CANCELLED"))
  BY <1>2, MovedRow DEF SystemInv, Cancelled, FitsRow
<1>. HIDE DEF Moved
<1>. QED BY <1>1, <1>2, <1>3, <1>4, MovedStep

\* An answer moves a pending order.
LEMMA AnswerStep ==
    ASSUME SystemInv, UNCHANGED money, replies' \subseteq replies, NEW e \in Errands,
           Reject(e) \/ (Open(e) /\ hold[e] # Ledger!NoHold)
    PROVE  SystemInv'
<1>1. PICK to \in {"OPEN", "REJECTED"} :
          /\ order[e].status = "PENDING"
          /\ order' = [order EXCEPT ![e] = Moved(e, to)]
          /\ orderOutbox' = orderOutbox \cup {}
          /\ overdue' = overdue
          /\ to = "OPEN" => hold[e] # Ledger!NoHold
  BY DEF Reject, Open, Transition, Queue
<1>2. to = "OPEN" => hold[e].status = "HELD"
  BY <1>1, RealHold
     DEF SystemInv, TypeOK, PaidIsDelivered, RefundedOnlyIfOver, RefundStatus
<1>3. /\ order[e].status \in Status /\ order[e].status \notin Terminal
      /\ to \in Status
      /\ to \in Active => order[e].status \in Active \/ hold[e].status = "HELD"
  BY <1>1, <1>2 DEF Status, Active, Terminal, RefundStatus
<1>4. {} \in SUBSET OrderEvent
  OBVIOUS
<1>. HIDE DEF Moved
<1>. QED BY <1>1, <1>2, <1>3, <1>4, MovedStep

\* A refund is asked for once more.
LEMMA RefundOrphanStep ==
    ASSUME SystemInv, UNCHANGED money, replies' \subseteq replies,
           NEW e \in Errands, RefundOrphan(e)
    PROVE  SystemInv'
<1>1. orderOutbox' = orderOutbox \cup {Cancelled(e)} /\ order' = order /\ overdue' = overdue
  BY DEF RefundOrphan, Queue
<1>2. Cancelled(e) \in OrderEvent
  BY DEF OrderEvent, Cancelled
<1>3. FitsRow(Cancelled(e), order[e]) /\ Cancelled(e).errand = e
  BY DEF RefundOrphan, FitsRow, Cancelled
<1>4. LifecycleTypeOK'
  BY <1>1, <1>2 DEF SystemInv, TypeOK, LifecycleTypeOK
<1>5. \A f \in Errands : RowKept(order[f], order'[f], hold[f])
  BY <1>1 DEF RowKept
<1>6. \A m \in orderOutbox' : m \in orderOutbox \/ FitsRow(m, order'[m.errand])
  BY <1>1, <1>3
<1>. QED BY <1>4, <1>5, <1>6, OrderStep

\* One UPDATE over all the orders that are due.
LEMMA ExpireDueStep ==
    ASSUME SystemInv, UNCHANGED money, replies' \subseteq replies, ExpireDue
    PROVE  SystemInv'
<1>. USE DEF Status, Active, Terminal, RefundStatus
<1>1. ASSUME NEW e \in Errands, e \in Due
      PROVE  /\ order[e].status \in Active /\ order[e] \in OrderRow
             /\ order'[e] = [order[e] EXCEPT !.status = "EXPIRED"]
  BY <1>1, SystemRow DEF Due, ExpireDue, Moved, SystemInv
<1>2. ASSUME NEW e \in Errands, e \notin Due
      PROVE  order'[e] = order[e]
  BY <1>2 DEF ExpireDue
<1>3. \A e \in Errands : RowKept(order[e], order'[e], hold[e])
  BY <1>1, <1>2 DEF RowKept, OrderRow
<1>4. ASSUME NEW m \in orderOutbox', m \notin orderOutbox
      PROVE  FitsRow(m, order'[m.errand])
  <2>1. PICK e \in Due : m = Cancelled(e)
    BY <1>4 DEF ExpireDue, Queue
  <2>2. e \in Errands
    BY DEF Due, SystemInv, TypeOK, LifecycleTypeOK
  <2>3. order'[e].status = "EXPIRED"
    BY <1>1, <2>2 DEF OrderRow
  <2>. QED BY <2>1, <2>2, <2>3 DEF Cancelled, FitsRow
<1>5. LifecycleTypeOK'
  <2>1. \A e \in Errands : order'[e] \in OrderRow \cup {NoOrder}
    BY <1>1, <1>2 DEF SystemInv, TypeOK, LifecycleTypeOK, OrderRow
  <2>2. \A e \in Due : Cancelled(e) \in OrderEvent
    BY DEF Due, SystemInv, TypeOK, LifecycleTypeOK, Cancelled, OrderEvent
  <2>. QED BY <2>1, <2>2 DEF SystemInv, TypeOK, LifecycleTypeOK, ExpireDue, Queue
<1>. QED BY <1>3, <1>4, <1>5, OrderStep

\* Time changes no row.
LEMMA DeadlinePassesStep ==
    ASSUME SystemInv, UNCHANGED money, replies' \subseteq replies, NEW e \in Errands, DeadlinePasses(e)
    PROVE  SystemInv'
<1>1. LifecycleTypeOK'
  BY DEF SystemInv, TypeOK, LifecycleTypeOK, DeadlinePasses
<1>2. \A f \in Errands : RowKept(order[f], order'[f], hold[f])
  BY DEF RowKept, DeadlinePasses
<1>. QED BY <1>1, <1>2, OrderStep DEF DeadlinePasses

-----------------------------------------------------------------------------
\* A step of the credit service settles a hold only as the order ended, and never changes
\* its terms.
HoldKept(old, new, row) ==
    \/ new = old
    \/ /\ SameTerms(new, row)
       /\ \/ new.status = "HELD"
          \/ new.status = "RELEASED" /\ row.status = "DELIVERED"
          \/ new.status = "REFUNDED" /\ row.status \in RefundStatus

\* What a step of the credit service has to respect.
LEMMA LedgerStep ==
    ASSUME SystemInv, order' = order, overdue' = overdue, orderOutbox' \subseteq orderOutbox,
           Ledger!LedgerTypeOK', replies' \subseteq Reply,
           \A r \in replies' :
               r \in replies \/ (r.topic = "credits.held" => hold'[r.errand] # Ledger!NoHold),
           \A e \in Errands : HoldKept(hold[e], hold'[e], order[e])
    PROVE  SystemInv'
<1>. USE DEF SystemInv
<1>1. TypeOK'
  BY DEF TypeOK, LifecycleTypeOK
<1>2. MessagesFit'
  BY DEF MessagesFit
<1>3. \A e \in Errands : hold[e] # Ledger!NoHold => hold'[e] # Ledger!NoHold
  BY DEF HoldKept, Ledger!NoHold
<1>4. RepliesFit'
  BY <1>3 DEF RepliesFit, TypeOK, Reply
<1>5. HoldsFit'
  BY DEF HoldsFit, HoldKept
<1>6. PaidIsDelivered' /\ RefundedOnlyIfOver'
  BY DEF PaidIsDelivered, RefundedOnlyIfOver, HoldKept
<1>7. ActiveIsFunded'
  BY DEF ActiveIsFunded, HoldKept, SameTerms, Active, RefundStatus
<1>. QED BY <1>1, <1>2, <1>4, <1>5, <1>6, <1>7

\* One hold changes and an account with it.
LEMMA HoldStep ==
    ASSUME SystemInv, order' = order, overdue' = overdue, orderOutbox' \subseteq orderOutbox,
           NEW e \in Errands, NEW new \in Ledger!HoldRow, NEW u \in Users, NEW b \in Int,
           account' = account, balance' = [balance EXCEPT ![u] = b],
           hold' = [hold EXCEPT ![e] = new],
           replies' = replies \/ Send("credits.held", e),
           HoldKept(hold[e], new, order[e])
    PROVE  SystemInv'
<1>1. /\ account \subseteq Users
      /\ balance \in [Users -> Int]
      /\ hold \in [Errands -> Ledger!HoldRow \cup {Ledger!NoHold}]
      /\ replies \subseteq Reply
  BY DEF SystemInv, TypeOK, Ledger!LedgerTypeOK
<1>2. Ledger!LedgerTypeOK'
  BY <1>1 DEF Ledger!LedgerTypeOK
<1>3. \A f \in Errands : HoldKept(hold[f], hold'[f], order[f])
  BY <1>1 DEF HoldKept
<1>4. hold'[e] # Ledger!NoHold
  BY <1>1 DEF Ledger!HoldRow, Ledger!NoHold
<1>5. replies' \subseteq Reply
  BY <1>1 DEF Send, ReplyTo, Reply
<1>6. \A r \in replies' :
          r \in replies \/ (r.topic = "credits.held" => hold'[r.errand] # Ledger!NoHold)
  BY <1>4 DEF Send, ReplyTo
<1>. QED BY <1>2, <1>3, <1>5, <1>6, LedgerStep

\* Nothing but a reply is sent, or not even that.
LEMMA ReplyStep ==
    ASSUME SystemInv, order' = order, overdue' = overdue, orderOutbox' \subseteq orderOutbox,
           UNCHANGED money, NEW e \in Errands,
           \/ replies' = replies
           \/ Send("credits.hold.rejected", e)
           \/ Send("credits.accepted.rejected", e)
    PROVE  SystemInv'
<1>1. account' = account /\ balance' = balance /\ hold' = hold
  BY DEF money
<1>2. Ledger!LedgerTypeOK'
  BY <1>1 DEF SystemInv, TypeOK, Ledger!LedgerTypeOK
<1>3. replies' \subseteq Reply
  BY DEF SystemInv, TypeOK, Send, ReplyTo, Reply
<1>4. \A r \in replies' :
          r \in replies \/ (r.topic = "credits.held" => hold'[r.errand] # Ledger!NoHold)
  BY DEF Send, ReplyTo
<1>5. \A f \in Errands : HoldKept(hold[f], hold'[f], order[f])
  BY <1>1 DEF HoldKept
<1>. QED BY <1>2, <1>3, <1>4, <1>5, LedgerStep

\* What is known of a hold that can still be settled.
LEMMA HeldRow ==
    ASSUME SystemInv, NEW e \in Errands, hold[e].status = "HELD"
    PROVE  /\ hold[e] \in Ledger!HoldRow
           /\ hold[e].amount \in Int
           /\ SameTerms(hold[e], order[e])
<1>1. hold[e] \in Ledger!HoldRow /\ hold[e] # Ledger!NoHold
  BY RealHold DEF SystemInv, TypeOK, Ledger!NoHold
<1>2. hold[e].amount \in Amounts
  BY <1>1 DEF Ledger!HoldRow
<1>3. Amounts \subseteq Int
  BY OrderAssumption
<1>. QED BY <1>1, <1>2, <1>3 DEF SystemInv, HoldsFit

\* Opening an account touches no hold.
LEMMA OpenAccountStep ==
    ASSUME SystemInv, NEW u \in Users, OpenAccount(u)
    PROVE  SystemInv'
<1>1. /\ order' = order /\ overdue' = overdue /\ orderOutbox' = orderOutbox
      /\ hold' = hold /\ replies' = replies
  BY DEF OpenAccount, Ledger!OpenAccount, lifecycle
<1>2. Ledger!LedgerTypeOK'
  BY SystemAssumption
     DEF SystemInv, TypeOK, OpenAccount, Ledger!OpenAccount, Ledger!LedgerTypeOK
<1>3. replies' \subseteq Reply
  BY <1>1 DEF SystemInv, TypeOK
<1>4. \A f \in Errands : HoldKept(hold[f], hold'[f], order[f])
  BY <1>1 DEF HoldKept
<1>. QED BY <1>1, <1>2, <1>3, <1>4, LedgerStep

\* A hold is placed on the terms the event carries, which are those of its order.
LEMMA HoldBountyStep ==
    ASSUME SystemInv, order' = order, overdue' = overdue, orderOutbox' \subseteq orderOutbox,
           NEW m \in orderOutbox, HoldBounty(m)
    PROVE  SystemInv'
<1>1. m \in OrderEvent /\ m.errand \in Errands
  BY DEF SystemInv, TypeOK, LifecycleTypeOK, OrderEvent
<1>2. CASE Ledger!PlaceHold(m.errand, m.user, NoUser, m.amount) /\ Send("credits.held", m.errand)
  <2>. DEFINE new == Ledger!NewHold(m.user, NoUser, m.amount)
  <2>1. SameTerms(new, order[m.errand]) /\ new.status = "HELD"
    BY DEF HoldBounty, SystemInv, MessagesFit, FitsRow, SameTerms, Ledger!NewHold
  <2>2. order[m.errand] \in OrderRow
    BY <1>1, <2>1 DEF SystemInv, TypeOK, LifecycleTypeOK, SameTerms, NoOrder
  <2>3. m.user \in Users /\ m.amount \in Amounts
    BY <2>2 DEF HoldBounty, SystemInv, MessagesFit, FitsRow, OrderRow
  <2>4. new \in Ledger!HoldRow
    BY <2>3 DEF Ledger!HoldRow, Ledger!NewHold
  <2>5. balance[m.user] - m.amount \in Int
    <3>1. balance[m.user] \in Int
      BY <2>3 DEF SystemInv, TypeOK, Ledger!LedgerTypeOK
    <3>2. Amounts \subseteq Int
      BY OrderAssumption
    <3>3. \A x, y \in Int : x - y \in Int
      OBVIOUS
    <3>4. m.amount \in Int
      BY <2>3, <3>2, Zenon
    <3>. QED BY <3>1, <3>3, <3>4, Zenon
  <2>6. /\ account' = account
        /\ balance' = [balance EXCEPT ![m.user] = balance[m.user] - m.amount]
        /\ hold' = [hold EXCEPT ![m.errand] = new]
    BY <1>2 DEF Ledger!PlaceHold
  <2>7. HoldKept(hold[m.errand], new, order[m.errand])
    BY <2>1 DEF HoldKept
  <2>. HIDE DEF new
  <2>. QED BY <1>1, <1>2, <2>3, <2>4, <2>5, <2>6, <2>7, HoldStep
<1>3. CASE Send("credits.hold.rejected", m.errand) /\ UNCHANGED money
  BY <1>1, <1>3, ReplyStep
<1>4. CASE UNCHANGED <<money, replies>>
  BY <1>1, <1>4, ReplyStep
<1>. QED BY <1>2, <1>3, <1>4 DEF HoldBounty

\* Recording the courier leaves the terms alone.
LEMMA RecordCourierStep ==
    ASSUME SystemInv, order' = order, overdue' = overdue, orderOutbox' \subseteq orderOutbox,
           NEW m \in orderOutbox, RecordCourier(m)
    PROVE  SystemInv'
<1>1. m \in OrderEvent /\ m.errand \in Errands
  BY DEF SystemInv, TypeOK, LifecycleTypeOK, OrderEvent
<1>2. CASE Ledger!AssignCourier(m.errand, m.user) /\ UNCHANGED replies
  <2>. DEFINE new == [hold[m.errand] EXCEPT !.courier = m.user]
  <2>0. /\ hold[m.errand].status = "HELD" /\ m.user \in account
        /\ account' = account /\ balance' = balance
        /\ hold' = [hold EXCEPT ![m.errand] = new]
    BY <1>2 DEF Ledger!AssignCourier
  <2>1. hold[m.errand] \in Ledger!HoldRow /\ SameTerms(hold[m.errand], order[m.errand])
    BY <1>1, <2>0, HeldRow
  <2>2. m.user \in Users /\ balance \in [Users -> Int]
    BY <2>0 DEF SystemInv, TypeOK, Ledger!LedgerTypeOK
  <2>3. new \in Ledger!HoldRow /\ new.status = "HELD"
    BY <2>0, <2>1, <2>2 DEF Ledger!HoldRow
  <2>4. HoldKept(hold[m.errand], new, order[m.errand])
    BY <2>1, <2>3 DEF HoldKept, SameTerms, Ledger!HoldRow
  <2>5. balance[m.user] \in Int /\ balance' = [balance EXCEPT ![m.user] = balance[m.user]]
    BY <2>0, <2>2
  <2>. HIDE DEF new
  <2>. QED BY <1>1, <1>2, <2>0, <2>2, <2>3, <2>4, <2>5, HoldStep
<1>3. CASE Send("credits.accepted.rejected", m.errand) /\ UNCHANGED money
  BY <1>1, <1>3, ReplyStep
<1>4. CASE UNCHANGED <<money, replies>>
  BY <1>1, <1>4, ReplyStep
<1>. QED BY <1>2, <1>3, <1>4 DEF RecordCourier

\* A hold is settled for u as its order ended.
LEMMA SettleStep ==
    ASSUME SystemInv, order' = order, overdue' = overdue, orderOutbox' \subseteq orderOutbox,
           NEW e \in Errands, NEW u \in account, NEW to, hold[e].status = "HELD",
           \/ to = "RELEASED" /\ order[e].status = "DELIVERED"
           \/ to = "REFUNDED" /\ order[e].status \in RefundStatus,
           account' = account, balance' = [balance EXCEPT ![u] = @ + hold[e].amount],
           hold' = [hold EXCEPT ![e].status = to], replies' = replies
    PROVE  SystemInv'
<1>. DEFINE new == [hold[e] EXCEPT !.status = to]
<1>1. /\ hold[e] \in Ledger!HoldRow
      /\ hold[e].amount \in Int
      /\ SameTerms(hold[e], order[e])
  BY HeldRow
<1>2. u \in Users /\ balance \in [Users -> Int]
  BY DEF SystemInv, TypeOK, Ledger!LedgerTypeOK
<1>3. new \in Ledger!HoldRow /\ hold' = [hold EXCEPT ![e] = new]
  BY <1>1 DEF Ledger!HoldRow
<1>4. HoldKept(hold[e], new, order[e])
  BY <1>1 DEF HoldKept, SameTerms, Ledger!HoldRow
<1>5. balance[u] + hold[e].amount \in Int
  BY <1>1, <1>2
<1>. HIDE DEF new
<1>. QED BY <1>2, <1>3, <1>4, <1>5, HoldStep

\* A payment was asked for by a delivery, a refund by another end.
LEMMA SettlementStep ==
    ASSUME SystemInv, order' = order, overdue' = overdue, orderOutbox' \subseteq orderOutbox,
           NEW m \in orderOutbox, PayCourier(m) \/ RefundRequester(m)
    PROVE  SystemInv'
<1>1. m.errand \in Errands /\ FitsRow(m, order[m.errand]) /\ replies' = replies
  BY DEF SystemInv, TypeOK, LifecycleTypeOK, OrderEvent, MessagesFit, PayCourier, RefundRequester
<1>2. CASE UNCHANGED money
  BY <1>1, <1>2, ReplyStep
<1>3. CASE m.topic = "order.completed" /\ Ledger!Release(m.errand)
  <2>1. order[m.errand].status = "DELIVERED"
    BY <1>1, <1>3 DEF FitsRow
  <2>. QED BY <1>1, <1>3, <2>1, SettleStep DEF Ledger!Release
<1>4. CASE m.topic = "order.cancelled" /\ Ledger!Refund(m.errand)
  <2>1. order[m.errand].status \in RefundStatus
    BY <1>1, <1>4 DEF FitsRow
  <2>. QED BY <1>1, <1>4, <2>1, SettleStep DEF Ledger!Refund
<1>. QED BY <1>2, <1>3, <1>4 DEF PayCourier, RefundRequester

\* Acknowledged or repeated, an event is handled by one of the four.
LEMMA HandleEventStep ==
    ASSUME SystemInv, NEW m \in orderOutbox, HandleEvent(m)
    PROVE  SystemInv'
<1>1. order' = order /\ overdue' = overdue /\ orderOutbox' \subseteq orderOutbox
  BY DEF HandleEvent
<1>. QED
  BY <1>1, HoldBountyStep, RecordCourierStep, SettlementStep DEF HandleEvent

-----------------------------------------------------------------------------
\* An order that is unchanged.
LEMMA NoOrderStep ==
    ASSUME SystemInv, UNCHANGED <<lifecycle, money>>, replies' \subseteq replies
    PROVE  SystemInv'
<1>1. order' = order /\ overdue' = overdue /\ orderOutbox' = orderOutbox
  BY DEF lifecycle
<1>2. LifecycleTypeOK'
  BY <1>1 DEF SystemInv, TypeOK, LifecycleTypeOK
<1>3. \A e \in Errands : RowKept(order[e], order'[e], hold[e])
  BY <1>1 DEF RowKept
<1>. QED BY <1>1, <1>2, <1>3, OrderStep

\* A reply moves a pending order, undoes an accept, asks for a refund, or does nothing.
LEMMA HandleReplyStep ==
    ASSUME SystemInv, NEW r \in replies, HandleReply(r)
    PROVE  SystemInv'
<1>1. r.errand \in Errands /\ (r.topic = "credits.held" => hold[r.errand] # Ledger!NoHold)
  BY DEF SystemInv, TypeOK, Reply, RepliesFit
<1>2. replies' \subseteq replies /\ UNCHANGED money
  BY DEF HandleReply
<1>3. CASE UNCHANGED lifecycle
  BY <1>2, <1>3, NoOrderStep
<1>4. CASE r.topic = "credits.held" /\ OnHeld(r.errand) /\ lifecycle' # lifecycle
  <2>1. CASE Open(r.errand)
    BY <1>1, <1>2, <1>4, <2>1, AnswerStep
  <2>2. CASE RefundOrphan(r.errand)
    BY <1>1, <1>2, <2>2, RefundOrphanStep
  <2>. QED BY <1>4, <2>1, <2>2 DEF OnHeld
<1>5. CASE OnHoldRejected(r.errand) /\ lifecycle' # lifecycle
  BY <1>1, <1>2, <1>5, AnswerStep DEF OnHoldRejected
<1>6. CASE OnAcceptRejected(r.errand) /\ lifecycle' # lifecycle
  BY <1>1, <1>2, <1>6, UndoAcceptStep DEF OnAcceptRejected
<1>. QED BY <1>3, <1>4, <1>5, <1>6 DEF HandleReply

\* Whatever the users do.
LEMMA UsersStep ==
    ASSUME SystemInv, UserStep
    PROVE  SystemInv'
<1>1. UNCHANGED money /\ replies' \subseteq replies
  BY DEF UserStep
<1>. QED
  BY <1>1, CreateStep, AcceptStep, CollectStep, DeliverStep, CancelStep, DeadlinePassesStep
     DEF UserStep

\* Every step keeps the invariant.
LEMMA SystemStep ==
    ASSUME SystemInv, [Next]_vars
    PROVE  SystemInv'
<1>1. CASE UserStep
  BY <1>1, UsersStep
<1>2. CASE ExpiryJob
  <2>1. ExpireDue /\ UNCHANGED money /\ replies' \subseteq replies
    BY <1>2 DEF ExpiryJob
  <2>. QED BY <2>1, ExpireDueStep
<1>3. CASE \E u \in Users : OpenAccount(u)
  BY <1>3, OpenAccountStep
<1>4. CASE \E m \in orderOutbox : HandleEvent(m)
  BY <1>4, HandleEventStep
<1>5. ASSUME NEW r \in replies, HandleReply(r)
      PROVE  SystemInv'
  BY <1>5, HandleReplyStep
<1>6. ASSUME NEW r \in replies, LoseReply(r)
      PROVE  SystemInv'
  <2>1. UNCHANGED <<lifecycle, money>> /\ replies' \subseteq replies
    BY <1>6 DEF LoseReply
  <2>. QED BY <2>1, NoOrderStep
<1>7. CASE UNCHANGED vars
  <2>1. UNCHANGED <<lifecycle, money>> /\ replies' \subseteq replies
    BY <1>7 DEF vars
  <2>. QED BY <2>1, NoOrderStep
<1>. QED BY <1>1, <1>2, <1>3, <1>4, <1>5, <1>6, <1>7 DEF Next

-----------------------------------------------------------------------------
\* The invariant of the two services together, whatever is reordered, repeated or lost.
THEOREM SystemIsInvariant == Spec => []SystemInv
<1>1. Init => SystemInv
  BY SystemInit
<1>2. SystemInv /\ [Next]_vars => SystemInv'
  BY SystemStep
<1>. QED BY <1>1, <1>2, PTL DEF Spec

\* The tables, the outbox and the replies under way hold values of their types.
THEOREM SystemTyped == Spec => []TypeOK
<1>1. SystemInv => TypeOK
  BY DEF SystemInv
<1>. QED BY <1>1, SystemIsInvariant, PTL

\* While an errand can be worked on, its whole bounty is on hold for it, under the name of
\* its requester.
THEOREM ActiveFunded == Spec => []ActiveIsFunded
<1>1. SystemInv => ActiveIsFunded
  BY DEF SystemInv
<1>. QED BY <1>1, SystemIsInvariant, PTL

\* A bounty goes back only for an errand that ended without delivery.
THEOREM RefundedOver == Spec => []RefundedOnlyIfOver
<1>1. SystemInv => RefundedOnlyIfOver
  BY DEF SystemInv
<1>. QED BY <1>1, SystemIsInvariant, PTL

\* Nobody is paid for an errand that was not delivered: a released hold is that of a delivered
\* order, whatever is reordered, repeated or lost between the services.
THEOREM PaidOnlyDelivered == Spec => []PaidOnlyIfDelivered
<1>1. SystemInv => PaidOnlyIfDelivered
  BY DEF SystemInv, PaidIsDelivered, PaidOnlyIfDelivered
<1>. QED BY <1>1, SystemIsInvariant, PTL

-----------------------------------------------------------------------------
\* What the two services do to their own tables.

\* A message that asks for a hold asks for the bounty of an order.
LEMMA BountyAsked ==
    ASSUME SystemInv, NEW m \in orderOutbox, m.topic = "order.created"
    PROVE  m.errand \in Errands /\ m.amount \in Amounts
<1>1. m.errand \in Errands /\ order[m.errand] \in OrderRow \cup {NoOrder}
  BY DEF SystemInv, TypeOK, LifecycleTypeOK, OrderEvent
<1>2. order[m.errand].status # "NONE" /\ m.amount = order[m.errand].bounty
  BY DEF SystemInv, MessagesFit, FitsRow
<1>3. order[m.errand] \in OrderRow
  BY <1>1, <1>2 DEF NoOrder
<1>. QED BY <1>1, <1>2, <1>3 DEF OrderRow

LEMMA SystemLedgerSteps == SystemInv /\ [Next]_vars => [Ledger!LedgerNext]_(Ledger!ledger)
<1>. SUFFICES ASSUME SystemInv, [Next]_vars
              PROVE  [Ledger!LedgerNext]_money
  BY DEF money, Ledger!ledger
<1>1. CASE UNCHANGED money
  BY <1>1
<1>2. ASSUME NEW u \in Users, OpenAccount(u)
      PROVE  Ledger!LedgerNext
  BY <1>2 DEF OpenAccount, Ledger!LedgerNext
<1>3. ASSUME NEW m \in orderOutbox, HandleEvent(m)
      PROVE  [Ledger!LedgerNext]_money
  <2>1. account \subseteq Users /\ m.errand \in Errands
    BY DEF SystemInv, TypeOK, LifecycleTypeOK, OrderEvent, Ledger!LedgerTypeOK
  <2>2. CASE HoldBounty(m)
    <3>1. CASE Ledger!PlaceHold(m.errand, m.user, NoUser, m.amount)
      <4>1. m.user \in Users
        BY <2>1, <3>1 DEF Ledger!PlaceHold
      <4>2. m.amount \in Amounts
        BY <2>2, BountyAsked DEF HoldBounty
      <4>. QED BY <2>1, <3>1, <4>1, <4>2 DEF Ledger!LedgerNext
    <3>. QED BY <2>2, <3>1 DEF HoldBounty
  <2>3. CASE RecordCourier(m)
    <3>1. CASE Ledger!AssignCourier(m.errand, m.user)
      <4>1. m.user \in Users
        BY <2>1, <3>1 DEF Ledger!AssignCourier
      <4>. QED BY <2>1, <3>1, <4>1 DEF Ledger!LedgerNext
    <3>. QED BY <2>3, <3>1 DEF RecordCourier
  <2>4. CASE PayCourier(m) \/ RefundRequester(m)
    BY <2>1, <2>4 DEF PayCourier, RefundRequester, Ledger!LedgerNext
  <2>. QED BY <1>3, <2>2, <2>3, <2>4 DEF HandleEvent
<1>. QED BY <1>1, <1>2, <1>3 DEF Next, vars, UserStep, ExpiryJob, HandleReply, LoseReply

\* Messages that are reordered, repeated or lost never make the credit service do more than
\* its ledger allows: what is proved of CreditLedger, that no credit is made or lost and no
\* hold is settled twice, is true of the two services together.
THEOREM SystemKeepsLedger == Spec => Ledger!LedgerSpec
<1>1. Init => Ledger!LedgerInit
  BY DEF Init
<1>. QED BY <1>1, SystemLedgerSteps, SystemIsInvariant, PTL DEF Spec, Ledger!LedgerSpec

LEMMA SystemOrderSteps == SystemInv /\ [Next]_vars => [LifecycleNext]_<<order, overdue>>
<1>. SUFFICES ASSUME SystemInv, [Next]_vars
              PROVE  LifecycleNext \/ UNCHANGED <<order, overdue>>
  OBVIOUS
<1>1. CASE UNCHANGED vars \/ \E u \in Users : OpenAccount(u)
  BY <1>1 DEF vars, OpenAccount, lifecycle
<1>2. CASE UserStep
  BY <1>2 DEF UserStep, LifecycleNext
<1>3. CASE ExpiryJob
  BY <1>3 DEF ExpiryJob, LifecycleNext
<1>4. ASSUME NEW m \in orderOutbox, HandleEvent(m)
      PROVE  UNCHANGED <<order, overdue>>
  BY <1>4 DEF HandleEvent
<1>5. ASSUME NEW r \in replies, HandleReply(r) \/ LoseReply(r)
      PROVE  LifecycleNext \/ UNCHANGED <<order, overdue>>
  <2>1. CASE UNCHANGED lifecycle
    BY <2>1 DEF lifecycle
  <2>2. CASE Open(r.errand) \/ RefundOrphan(r.errand) \/ Reject(r.errand) \/ UndoAccept(r.errand)
    <3>1. r.errand \in Errands
      BY DEF SystemInv, TypeOK, Reply
    <3>. QED BY <2>2, <3>1 DEF LifecycleNext
  <2>. QED BY <1>5, <2>1, <2>2 DEF HandleReply, LoseReply, OnHeld, OnHoldRejected, OnAcceptRejected
<1>. QED BY <1>1, <1>2, <1>3, <1>4, <1>5 DEF Next

\* Nor do they make an order do what its lifecycle does not allow: only the messages that
\* wait for the credit service are handled behind the order service's back.
THEOREM SystemKeepsLifecycle == Spec => LifecycleInit /\ [][LifecycleNext]_<<order, overdue>>
<1>1. Init => LifecycleInit
  BY DEF Init
<1>. QED BY <1>1, SystemOrderSteps, SystemIsInvariant, PTL DEF Spec
=============================================================================
