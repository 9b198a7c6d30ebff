---------------------------- MODULE OrderService ----------------------------
(***************************************************************************)
(* The order service at the grain at which its requests interleave: every  *)
(* read and every UPDATE of createOrder and updateOrderStatus (order-      *)
(* service/src/controller/order.ts) and of the reply consumer (rabbitmq/   *)
(* client.ts) is a step of its own, so that an order may change between    *)
(* the read a request is judged by and the UPDATE it leads to.             *)
(*                                                                         *)
(* A worker is one HTTP request or one reply of the credit service being   *)
(* handled.  The outbox rows stay in orderOutbox: their relay belongs to   *)
(* ErrandSystem.  What the credit service answers is external here; any    *)
(* answer it may have given is delivered at any time, any number of times. *)
(***************************************************************************)
EXTENDS OrderLifecycle

CONSTANTS Workers,  \* requests and replies being handled at the same time
          Calls,    \* the requests clients may send, and send again
          Keys,     \* Idempotency-Key header values
          NoKey,    \* a request without that header
          NoErrand, \* the order id of a request that names none
          Payable   \* the couriers the credit service finds an account for

Targets == {"ACCEPTED", "COLLECTED", "DELIVERED", "CANCELLED"}

Call == [op: Targets \cup {"CREATE"}, caller: Users, errand: Errands \cup {NoErrand},
         key: Keys \cup {NoKey}, amount: Amounts \cup {0}]

ASSUME ServiceAssumption ==
    /\ NoKey \notin Keys
    /\ NoErrand \notin Errands
    /\ Calls \subseteq Call
    /\ \A call \in Calls : IF call.op = "CREATE" THEN call.amount \in Amounts
                                                 ELSE call.errand \in Errands
    /\ Payable \subseteq Users

VARIABLES key,   \* the idempotencyKey column of each order
          pc,    \* where each worker is in its handler
          task,  \* the call, or the errand of the reply, a worker handles
          seen,  \* the order row a worker has read
          answer \* the HTTP status and order a worker responds with

handlers == <<pc, task, seen, answer>>
vars == <<lifecycle, key, handlers>>

NoTask == [op |-> "NONE"]
HeldReply(e) == [op |-> "credits.held", errand |-> e]
NoAnswer == [code |-> 0, errand |-> NoErrand]

TypeOK ==
    /\ LifecycleTypeOK
    /\ key \in [Errands -> Keys \cup {NoKey}]
    /\ pc \in [Workers -> {"idle", "lookup", "insert", "again", "read", "update", "recheck",
                           "respond", "orphan", "refund"}]
    /\ task \in [Workers -> Calls \cup {NoTask} \cup {HeldReply(e) : e \in Errands}]
    /\ seen \in [Workers -> OrderRow \cup {NoOrder}]
    /\ answer \in [Workers -> [code: {0, 200, 201, 400, 403, 404, 409, 410, 500, 503},
                               errand: Errands \cup {NoErrand}]]

Init ==
    /\ LifecycleInit
    /\ key = [e \in Errands |-> NoKey]
    /\ pc = [w \in Workers |-> "idle"]
    /\ task = [w \in Workers |-> NoTask]
    /\ seen = [w \in Workers |-> NoOrder]
    /\ answer = [w \in Workers |-> NoAnswer]

-----------------------------------------------------------------------------

Op(w) == task[w].op
Caller(w) == task[w].caller
Errand(w) == task[w].errand

Goto(w, label) == pc' = [pc EXCEPT ![w] = label]

Respond(w, code, e) ==
    /\ Goto(w, "respond")
    /\ answer' = [answer EXCEPT ![w] = [code |-> code, errand |-> e]]
    /\ seen' = [seen EXCEPT ![w] = NoOrder]

Start(w, label, job) ==
    /\ pc[w] = "idle"
    /\ Goto(w, label)
    /\ task' = [task EXCEPT ![w] = job]
    /\ UNCHANGED <<key, seen, answer>>

Leave(w) ==
    /\ Goto(w, "idle")
    /\ task' = [task EXCEPT ![w] = NoTask]
    /\ seen' = [seen EXCEPT ![w] = NoOrder]
    /\ answer' = [answer EXCEPT ![w] = NoAnswer]

\* expireDueErrands.
Expire == ExpireDue \/ (Due = {} /\ UNCHANGED lifecycle)

-----------------------------------------------------------------------------
\* createOrder: look the key up, ask the supplier service, insert, and after a failed
\* insert look the key up again.

Holder(k) == {e \in Errands : k # NoKey /\ order[e] # NoOrder /\ key[e] = k}

BeginCreate(w, call) ==
    /\ call.op = "CREATE"
    /\ Start(w, IF call.key = NoKey THEN "insert" ELSE "lookup", call)
    /\ UNCHANGED lifecycle

LookupKey(w) ==
    /\ pc[w] = "lookup"
    /\ IF Holder(task[w].key) # {}
       THEN \E e \in Holder(task[w].key) : Respond(w, 200, e)
       ELSE Goto(w, "insert") /\ UNCHANGED <<seen, answer>>
    /\ UNCHANGED <<lifecycle, key, task>>

\* The supplier service is down, or does not know a place the order names.
PlacesRefused(w) ==
    /\ pc[w] = "insert"
    /\ \E code \in {400, 503} : Respond(w, code, NoErrand)
    /\ UNCHANGED <<lifecycle, key, task>>

\* The unique constraint on idempotencyKey.
\* Mutant: the column is not unique.
KeyNeverTaken(k) == FALSE

KeyTaken(k) == Holder(k) # {}

InsertOrder(w) ==
    /\ pc[w] = "insert"
    /\ ~KeyTaken(task[w].key)
    /\ \E e \in Errands : /\ Create(e, Caller(w), task[w].amount)
                          /\ key' = [key EXCEPT ![e] = task[w].key]
                          /\ Respond(w, 201, e)
    /\ UNCHANGED task

\* The insert fails, on a taken key or because the database refuses it.
InsertFails(w) ==
    /\ pc[w] = "insert"
    /\ Goto(w, "again")
    /\ UNCHANGED <<lifecycle, key, task, seen, answer>>

LookupAgain(w) ==
    /\ pc[w] = "again"
    /\ \/ \E e \in Holder(task[w].key) : Respond(w, 200, e)
       \/ Holder(task[w].key) = {} /\ Respond(w, 500, NoErrand)
    /\ UNCHANGED <<lifecycle, key, task>>

-----------------------------------------------------------------------------
\* updateOrderStatus: expire, read, judge the row that was read, update.

BeginUpdate(w, call) ==
    /\ call.op \in Targets
    /\ Start(w, "read", call)
    /\ Expire

\* Mutant: anybody may mark an item as collected.
AnyCollector(call, row) ==
    CASE call.op \in {"ACCEPTED", "COLLECTED"} -> call.caller # row.requester
      [] call.op = "DELIVERED" -> call.caller = row.courier
      [] call.op = "CANCELLED" -> call.caller = row.requester

\* Who may make which step.
RightParty(call, row) ==
    CASE call.op = "ACCEPTED" -> call.caller # row.requester
      [] call.op \in {"COLLECTED", "DELIVERED"} -> call.caller = row.courier
      [] call.op = "CANCELLED" -> call.caller = row.requester

\* The answer the row that was read leads to; 0 if the request goes on to its UPDATE.
Judge(call, row) ==
    CASE row = NoOrder -> 404
      [] row.status = "EXPIRED" -> 410
      [] call.op = "ACCEPTED" /\ row.status # "OPEN" -> 409
      [] call.op = "COLLECTED" /\ row.status # "ACCEPTED" -> 400
      [] OTHER ->
            IF ~RightParty(call, row) THEN 403
            ELSE IF call.op = "DELIVERED" /\ row.status = "DELIVERED" THEN 200
            ELSE IF call.op = "DELIVERED" /\ row.status # "COLLECTED" THEN 400
            ELSE IF call.op = "CANCELLED" /\ row.status \notin {"OPEN", "ACCEPTED"} THEN 400
            ELSE 0

ReadOrder(w) ==
    /\ pc[w] = "read"
    /\ LET row == order[Errand(w)]
           code == Judge(task[w], row)
       IN IF code # 0
          THEN Respond(w, code, Errand(w))
          ELSE Goto(w, "update") /\ seen' = [seen EXCEPT ![w] = row] /\ UNCHANGED answer
    /\ UNCHANGED <<lifecycle, key, task>>

\* Mutant: a cancellation starts from whatever status the order has by now.
FromAnyStatus(w) ==
    CASE Op(w) = "ACCEPTED" -> "OPEN"
      [] Op(w) = "COLLECTED" -> "ACCEPTED"
      [] Op(w) = "DELIVERED" -> "COLLECTED"
      [] Op(w) = "CANCELLED" -> order[Errand(w)].status

\* The WHERE clause of the UPDATE: a cancellation asks for the status that was read, the
\* others for the only status they may start from.
From(w) ==
    CASE Op(w) = "ACCEPTED" -> "OPEN"
      [] Op(w) = "COLLECTED" -> "ACCEPTED"
      [] Op(w) = "DELIVERED" -> "COLLECTED"
      [] Op(w) = "CANCELLED" -> seen[w].status

\* Mutant: only an accept has a deadline.
AcceptBeforeDeadline(w) == Op(w) = "ACCEPTED"

BeforeDeadline(w) == Op(w) # "CANCELLED"

\* What the UPDATE sets, and the events of the order it returns.
Updated(w) ==
    LET row == Moved(Errand(w), Op(w))
    IN IF Op(w) = "ACCEPTED" THEN [row EXCEPT !.courier = Caller(w)] ELSE row

\* Mutant: a cancellation asks for no refund.
EventsWithoutRefund(w) ==
    CASE Op(w) = "ACCEPTED" -> {Accepted(Errand(w), Caller(w))}
      [] Op(w) \in {"COLLECTED", "CANCELLED"} -> {}
      [] Op(w) = "DELIVERED" -> {Completed(Errand(w))}

Events(w) ==
    CASE Op(w) = "ACCEPTED" -> {Accepted(Errand(w), Caller(w))}
      [] Op(w) = "COLLECTED" -> {}
      [] Op(w) = "DELIVERED" -> {Completed(Errand(w))}
      [] Op(w) = "CANCELLED" -> {Cancelled(Errand(w))}

UpdateOrder(w) ==
    /\ pc[w] = "update"
    /\ Transition(Errand(w), From(w), Updated(w), Events(w), BeforeDeadline(w))
    /\ Respond(w, 200, Errand(w))
    /\ UNCHANGED <<key, task>>

\* Mutant: a delivery that lost its race is refused without a second look.
MissedIsConflict(w) ==
    /\ pc[w] = "update"
    /\ order[Errand(w)].status # From(w) \/ (BeforeDeadline(w) /\ Errand(w) \in overdue)
    /\ Respond(w, 409, Errand(w))
    /\ UNCHANGED <<lifecycle, key, task>>

\* The UPDATE matches no row: a delivery looks whether somebody else delivered.
UpdateMissed(w) ==
    /\ pc[w] = "update"
    /\ order[Errand(w)].status # From(w) \/ (BeforeDeadline(w) /\ Errand(w) \in overdue)
    /\ IF Op(w) = "DELIVERED"
       THEN Goto(w, "recheck") /\ UNCHANGED <<seen, answer>>
       ELSE Respond(w, 409, Errand(w))
    /\ UNCHANGED <<lifecycle, key, task>>

Recheck(w) ==
    /\ pc[w] = "recheck"
    /\ Respond(w, IF order[Errand(w)].status = "DELIVERED" THEN 200 ELSE 409, Errand(w))
    /\ UNCHANGED <<lifecycle, key, task>>

\* The response leaves; the client may send the same call again.
Finish(w) ==
    /\ pc[w] = "respond"
    /\ Leave(w)
    /\ UNCHANGED <<lifecycle, key>>

-----------------------------------------------------------------------------
\* handleIncomingMessage: the answers of the credit service to an order event.

Asked(e, topic) == \E m \in orderOutbox : m.topic = topic /\ m.errand = e

OnHeld(w, e) ==
    /\ Asked(e, "order.created")
    /\ pc[w] = "idle"
    /\ \/ Open(e) /\ UNCHANGED <<key, handlers>>
       \/ /\ order[e].status # "PENDING"
          /\ Start(w, "orphan", HeldReply(e))
          /\ UNCHANGED lifecycle

\* The order is not PENDING any more: is its hold an orphan?
ReadOrphan(w) ==
    /\ pc[w] = "orphan"
    /\ IF order[Errand(w)].status \in RefundStatus
       THEN Goto(w, "refund") /\ UNCHANGED <<task, seen, answer>>
       ELSE Leave(w)
    /\ UNCHANGED <<lifecycle, key>>

AskRefund(w) ==
    /\ pc[w] = "refund"
    /\ Queue({Cancelled(Errand(w))})
    /\ Leave(w)
    /\ UNCHANGED <<order, overdue, key>>

OnHoldRejected(e) ==
    /\ Asked(e, "order.created")
    /\ Reject(e)
    /\ UNCHANGED <<key, handlers>>

\* credits.accepted.rejected with COURIER_NOT_FOUND: the reply names the errand only.
OnAcceptRejected(e) ==
    /\ \E c \in Users \ Payable : Accepted(e, c) \in orderOutbox
    /\ UndoAccept(e)
    /\ UNCHANGED <<key, handlers>>

-----------------------------------------------------------------------------
\* The expiry job; the GET endpoints expire what is due in the same way.
ExpiryJob == ExpireDue /\ UNCHANGED <<key, handlers>>

Deadline(e) == DeadlinePasses(e) /\ UNCHANGED <<key, handlers>>

\* The process dies: nothing but the database survives.
Crash ==
    /\ \E w \in Workers : pc[w] # "idle"
    /\ pc' = [w \in Workers |-> "idle"]
    /\ task' = [w \in Workers |-> NoTask]
    /\ seen' = [w \in Workers |-> NoOrder]
    /\ answer' = [w \in Workers |-> NoAnswer]
    /\ UNCHANGED <<lifecycle, key>>

Next ==
    \/ \E w \in Workers :
          \/ \E call \in Calls : BeginCreate(w, call) \/ BeginUpdate(w, call)
          \/ LookupKey(w) \/ PlacesRefused(w)
          \/ InsertOrder(w) \/ InsertFails(w) \/ LookupAgain(w)
          \/ ReadOrder(w) \/ UpdateOrder(w) \/ UpdateMissed(w) \/ Recheck(w) \/ Finish(w)
          \/ ReadOrphan(w) \/ AskRefund(w)
          \/ \E e \in Errands : OnHeld(w, e)
    \/ \E e \in Errands : OnHoldRejected(e) \/ OnAcceptRejected(e) \/ Deadline(e)
    \/ ExpiryJob
    \/ Crash

Spec == Init /\ [][Next]_vars

-----------------------------------------------------------------------------
\* Properties.  TypeOK, what OrderLifecycle states of the rows and their events, and:

\* Handlers that read first and update later still change an order only in the atomic steps
\* of its lifecycle (controller/order.ts:244: two requests that race cannot both succeed).
ImplementsLifecycle == LifecycleSpec

\* Nobody accepts, collects or delivers an errand once its deadline has passed, however long
\* ago the request read the order (prisma/orders.ts: "expiresAt" > now() in the UPDATE).
NothingAfterDeadline ==
    [][\A e \in overdue :
          order'[e].status \in {"ACCEPTED", "COLLECTED", "DELIVERED"} => order'[e] = order[e]]_order

\* Nobody whose accept of the errand the credit service refuses has accepted it.
NoAcceptUndone(e) == \A c \in Users \ Payable : Accepted(e, c) \notin orderOutbox

\* A step on an errand is made by the one who may make it at that moment, not only when the
\* order was read: cancelling by its requester, collecting and delivering by its courier,
\* unless an accept was undone in between and made again by somebody else, which the UPDATE
\* cannot see (controller/order.ts:310 compares the courier that was read).
MadeByParty ==
    [][\A w \in Workers :
          (pc[w] = "update" /\ pc'[w] = "respond" /\ answer'[w].code = 200) =>
             LET row == order[Errand(w)] IN
             CASE Op(w) = "ACCEPTED" -> Caller(w) # row.requester
               [] Op(w) \in {"COLLECTED", "DELIVERED"} ->
                     NoAcceptUndone(Errand(w)) => Caller(w) = row.courier
               [] Op(w) = "CANCELLED" -> Caller(w) = row.requester]_vars

\* What a client is told about the end of an errand is true and stays true: a delivery or
\* cancellation answered 200 took place and its payment or refund is queued, 410 means that
\* it expired, and the courier of a delivered errand is not told that the delivery failed
\* (the repeated request and the lost race of controller/order.ts:323-351).
AnswersMatchOrder ==
    \A w \in Workers :
        (pc[w] = "respond" /\ Op(w) \in Targets) =>
            LET e == Errand(w) IN
            /\ (answer[w].code = 200 /\ Op(w) = "DELIVERED") =>
                  order[e].status = "DELIVERED" /\ Completed(e) \in orderOutbox
            /\ (answer[w].code = 200 /\ Op(w) = "CANCELLED") =>
                  order[e].status = "CANCELLED" /\ Cancelled(e) \in orderOutbox
            /\ answer[w].code = 410 => order[e].status = "EXPIRED"
            /\ (answer[w].code = 409 /\ Op(w) = "DELIVERED") => order[e].status # "DELIVERED"

\* A client that repeats a request with its Idempotency-Key, at the same moment or later, is
\* led to the one order that the key made (controller/order.ts:141-147, 219-227).
OneOrderPerKey ==
    /\ \A k \in Keys, d, e \in Errands : {d, e} \subseteq Holder(k) => d = e
    /\ \A w \in Workers :
          (pc[w] = "respond" /\ Op(w) = "CREATE" /\ answer[w].code \in {200, 201}) =>
             IF task[w].key = NoKey THEN order[answer[w].errand].requester = Caller(w)
                                    ELSE answer[w].errand \in Holder(task[w].key)
=============================================================================
