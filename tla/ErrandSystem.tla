---------------------------- MODULE ErrandSystem ----------------------------
(***************************************************************************)
(* The order service and the credit service together.  An errand's bounty  *)
(* is held by one service while the errand is carried out in the other;    *)
(* they only talk through their outboxes and the message broker.           *)
(*                                                                         *)
(* Each service moves in the atomic steps that OrderService and            *)
(* CreditTransactions show its handlers to implement.  Every kind of       *)
(* message has a queue of its own and a failed publication or handler is   *)
(* retried later, so messages overtake each other; a publisher or consumer *)
(* that dies before it has recorded its success repeats a message.         *)
(***************************************************************************)
EXTENDS OrderLifecycle

CONSTANTS InitialBalance, \* the credits a new account starts with
          Registered,     \* the users the User service knows
          LossyErrands    \* the errands a reply about which may be given up on

VARIABLES account, balance, hold, \* the tables of CreditLedger
          replies                 \* replies on their way to the order service

Ledger == INSTANCE CreditLedger

money == <<account, balance, hold>>
vars == <<lifecycle, money, replies>>

\* The replies that change something; all others are only logged.
Reply == [topic: {"credits.held", "credits.hold.rejected", "credits.accepted.rejected"},
          errand: Errands]

ReplyTo(e, topic) == [topic |-> topic, errand |-> e]

ASSUME SystemAssumption ==
    /\ Registered \subseteq Users
    /\ InitialBalance \in Nat
    /\ LossyErrands \subseteq Errands

TypeOK ==
    /\ LifecycleTypeOK
    /\ Ledger!LedgerTypeOK
    /\ replies \subseteq Reply

Init ==
    /\ LifecycleInit
    /\ Ledger!LedgerInit
    /\ replies = {}

-----------------------------------------------------------------------------
\* The credit service handles a message of the order service.

Send(topic, e) == replies' = replies \cup {ReplyTo(e, topic)}

\* Whoever a handler concerns was looked up before, and has an account if it may have one.
Resolved(u) == u \in account \/ u \notin Registered

OpenAccount(u) ==
    /\ u \in Registered
    /\ Ledger!OpenAccount(u)
    /\ UNCHANGED <<lifecycle, replies>>

\* ensureCreditsHeld; there is only one order.created of an errand, so an existing hold is
\* its own and a repetition is silent.
HoldBounty(m) ==
    /\ m.topic = "order.created"
    /\ Resolved(m.user)
    /\ \/ /\ Ledger!PlaceHold(m.errand, m.user, NoUser, m.amount)
          /\ Send("credits.held", m.errand)
       \/ /\ hold[m.errand] = Ledger!NoHold
          /\ m.user \notin account \/ balance[m.user] < m.amount
          /\ Send("credits.hold.rejected", m.errand)
          /\ UNCHANGED money
       \/ /\ hold[m.errand] # Ledger!NoHold
          /\ UNCHANGED <<money, replies>>

\* ensureCreditsAccepted.
Assignable(e) == hold[e].status = "HELD" /\ hold[e].courier = NoUser

RecordCourier(m) ==
    /\ m.topic = "order.accepted"
    /\ Resolved(m.user)
    /\ \/ /\ Ledger!AssignCourier(m.errand, m.user)
          /\ UNCHANGED replies
       \/ /\ Assignable(m.errand) /\ m.user \notin account
          /\ Send("credits.accepted.rejected", m.errand)
          /\ UNCHANGED money
       \/ /\ ~Assignable(m.errand)
          /\ UNCHANGED <<money, replies>>

\* ensureCreditsReleased: without a recorded courier nobody is paid, and the message is done.
PayCourier(m) ==
    /\ m.topic = "order.completed"
    /\ \/ Ledger!Release(m.errand)
       \/ /\ hold[m.errand].status # "HELD" \/ hold[m.errand].courier = NoUser
          /\ UNCHANGED money
    /\ UNCHANGED replies

\* ensureCreditsRefunded.
RefundRequester(m) ==
    /\ m.topic = "order.cancelled"
    /\ \/ Ledger!Refund(m.errand)
       \/ /\ hold[m.errand].status # "HELD"
          /\ UNCHANGED money
    /\ UNCHANGED replies

\* The message is acknowledged, or delivered once more.
HandleEvent(m) ==
    /\ m \in orderOutbox
    /\ HoldBounty(m) \/ RecordCourier(m) \/ PayCourier(m) \/ RefundRequester(m)
    /\ orderOutbox' \in {orderOutbox, orderOutbox \ {m}}
    /\ UNCHANGED <<order, overdue>>

-----------------------------------------------------------------------------
\* The order service handles a reply.
\* Mutants: a late credits.held is ignored, and any repeated one is taken for a late one.
IgnoreLateHold(e) == Open(e) \/ (order[e].status # "PENDING" /\ UNCHANGED lifecycle)

RefundAnyLateHold(e) ==
    \/ Open(e)
    \/ order[e].status # "PENDING" /\ Queue({Cancelled(e)}) /\ UNCHANGED <<order, overdue>>

OnHeld(e) ==
    \/ Open(e)
    \/ RefundOrphan(e)
    \/ order[e].status \in Active \cup {"DELIVERED"} /\ UNCHANGED lifecycle

\* Mutants: a refused hold opens the order, and a refused hold is only logged.
OpenUnfunded(e) == Open(e) \/ (order[e].status # "PENDING" /\ UNCHANGED lifecycle)
LogHoldRejected(e) == e \in Errands /\ UNCHANGED lifecycle

OnHoldRejected(e) == Reject(e) \/ (order[e].status # "PENDING" /\ UNCHANGED lifecycle)

OnAcceptRejected(e) == UndoAccept(e) \/ (order[e].status # "ACCEPTED" /\ UNCHANGED lifecycle)

HandleReply(r) ==
    /\ r \in replies
    /\ \/ r.topic = "credits.held" /\ OnHeld(r.errand)
       \/ r.topic = "credits.hold.rejected" /\ OnHoldRejected(r.errand)
       \/ r.topic = "credits.accepted.rejected" /\ OnAcceptRejected(r.errand)
    /\ replies' \in {replies, replies \ {r}}
    /\ UNCHANGED money

\* The relay of the credit service gives a row up after its fifth failed attempt, and the
\* order service dead-letters a reply it failed to handle twice.
LoseReply(r) ==
    /\ r.errand \in LossyErrands
    /\ r \in replies
    /\ replies' = replies \ {r}
    /\ UNCHANGED <<lifecycle, money>>

-----------------------------------------------------------------------------
\* What the users do, and time.
UserStep ==
    /\ \/ \E e \in Errands, r \in Users, a \in Amounts : Create(e, r, a)
       \/ \E e \in Errands, c \in Users : Accept(e, c)
       \/ \E e \in Errands : Collect(e) \/ Deliver(e) \/ Cancel(e) \/ DeadlinePasses(e)
    /\ UNCHANGED <<money, replies>>

ExpiryJob == ExpireDue /\ UNCHANGED <<money, replies>>

Next ==
    \/ UserStep
    \/ ExpiryJob
    \/ \E u \in Users : OpenAccount(u)
    \/ \E m \in orderOutbox : HandleEvent(m)
    \/ \E r \in replies : HandleReply(r) \/ LoseReply(r)

Spec == Init /\ [][Next]_vars

\* A message that is not lost is handled in the end, a user the User service knows gets an
\* account, and the expiry job runs.  The users owe nobody a step.
Fairness ==
    /\ \A u \in Users : WF_vars(OpenAccount(u))
    /\ \A e \in Errands :
          /\ \A u \in Users, a \in Amounts : WF_vars(HandleEvent(Created(e, u, a)))
          /\ \A u \in Users : WF_vars(HandleEvent(Accepted(e, u)))
          /\ WF_vars(HandleEvent(Completed(e))) /\ WF_vars(HandleEvent(Cancelled(e)))
    /\ \A r \in Reply : WF_vars(HandleReply(r))
    /\ WF_vars(ExpiryJob)

FairSpec == Spec /\ Fairness

-----------------------------------------------------------------------------
\* Properties.

\* Whoever may be carrying an errand works for credits that are really there: while it is
\* open, accepted or collected, its whole bounty is on hold for it, out of its requester's
\* account (prisma/contract.prisma:8-11 of the order service), over every reordering and
\* repetition of messages.
ActiveIsFunded ==
    \A e \in Errands :
        order[e].status \in Active =>
            /\ hold[e].status = "HELD"
            /\ hold[e].requestor = order[e].requester
            /\ hold[e].amount = order[e].bounty

\* Nobody is paid for an errand that was not delivered (services/credits.ts:164-231 does not
\* know whether it was, only the message).  Who is paid is another matter: a repeated
\* credits.accepted.rejected about a courier without an account can undo the accept of the
\* next courier, whom the credit service has recorded and will pay, and the errand may then
\* be delivered by a third (rabbitmq/client.ts:205-214 cannot tell whose accept was refused).
PaidOnlyIfDelivered == \A e \in Errands : hold[e].status = "RELEASED" => order[e].status = "DELIVERED"

\* A bounty goes back only for an errand that ended without delivery, so no courier works
\* for a refunded hold (services/credits.ts:233-300).
RefundedOnlyIfOver ==
    \A e \in Errands : hold[e].status = "REFUNDED" => order[e].status \in RefundStatus

\* The requester of an errand that was cancelled or has expired gets the credits back, even
\* when replies are lost (prisma/orders.ts:228-229).
CancelledIsRefunded ==
    \A e \in Errands :
        order[e].status \in {"CANCELLED", "EXPIRED"} ~> hold[e].status = "REFUNDED"

\* A hold that was placed for a rejected order, by a repeated order.created after a first
\* refusal, does not keep the requester's credits if its reply is not lost (rabbitmq/client.ts:179-185).
OrphanIsRefunded ==
    \A e \in Errands \ LossyErrands :
        (order[e].status = "REJECTED" /\ hold[e].status = "HELD") ~> hold[e].status = "REFUNDED"

\* An order whose replies are not lost does not stay PENDING, whatever is repeated or reordered
\* and however often the credit service changes its mind (rabbitmq/client.ts:171-192).
AnsweredLeavesPending ==
    \A e \in Errands \ LossyErrands : order[e].status = "PENDING" ~> order[e].status # "PENDING"

\* An order does not wait for the credit service for ever: config.ts:30-32 promises that it
\* is rejected, and can never stay stuck, when no answer arrives.
PendingEnds == \A e \in Errands : order[e].status = "PENDING" ~> order[e].status # "PENDING"

\* A courier whom the credit service has recorded by the time it is asked to pay is paid
\* (services/credits.ts:164-231), whatever else is lost, repeated or reordered.
RecordedIsPaid ==
    \A e \in Errands :
        (Completed(e) \in orderOutbox /\ hold[e].courier # NoUser) ~> hold[e].status = "RELEASED"

\* Delivered means that the credits go to the courier (prisma/contract.prisma:13 of the order
\* service): the payment follows every delivery.
DeliveredIsPaid ==
    \A e \in Errands : order[e].status = "DELIVERED" ~> hold[e].status = "RELEASED"
=============================================================================
