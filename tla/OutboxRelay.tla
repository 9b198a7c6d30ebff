---------------------------- MODULE OutboxRelay ----------------------------
(***************************************************************************)
(* How outbox rows reach RabbitMQ.  The order service and the user service *)
(* write a row in the transaction of the change it announces; a relay in   *)
(* every process of the service locks the rows that are due, publishes     *)
(* them one after the other and commits what became of them.  The relays   *)
(* differ: the order service keeps one connection for the process, relays  *)
(* only while it has a channel, publishes with `mandatory` and never gives *)
(* a row up; the user service starts and stops its relay with the          *)
(* connection (startQueueTasks, together with its RPC consumer), drops     *)
(* what no queue is bound for, and gives a row up after MAX_RETRIES.  The  *)
(* credit service runs a copy of that relay, without the RPC consumer.     *)
(*                                                                         *)
(* Everything that can go wrong is bounded by MaxFaults: a connection or a *)
(* channel closes, a process crashes, the database ends a transaction.     *)
(***************************************************************************)
EXTENDS Naturals, FiniteSets

CONSTANTS Rows,       \* rows that may be written, numbered in the order of createdAt
          OrderRows,  \* those of the order service, the others are the user service's
          OrderProcs, \* processes of the order service
          UserProcs,  \* processes of the user service
          MaxRetries, \* MAX_RETRIES of the user service's relay
          MaxFaults,  \* bound on faults
          LoneCloses  \* processes whose channel may close while its connection stays

Procs == OrderProcs \cup UserProcs

ASSUME RelayAssumption ==
    /\ Rows \subseteq Nat /\ OrderRows \subseteq Rows
    /\ OrderProcs \cap UserProcs = {}
    /\ MaxRetries \in Nat \ {0} /\ MaxFaults \in Nat
    /\ LoneCloses \subseteq Procs

VARIABLES row,      \* the outbox tables
          copies,   \* copies of each row the queue of the receiving service took
          bound,    \* whether that queue exists: the credit service declares it
          link,     \* "deaf": the process still holds a channel that has closed
          task,     \* startQueueTasks of a user process
          consumer, \* whether the broker has the RPC consumer of a user process
          pc, tx,   \* the relay's loop, and its transaction
          faults

vars == <<row, copies, bound, link, task, consumer, pc, tx, faults>>

Row == [status: {"NONE", "PENDING", "COMPLETED", "FAILED"}, retries: 0..MaxRetries, due: BOOLEAN]

\* The rows a transaction has locked, and what it will commit for those already tried.
\* It is not alive when the database ended it while the relay waits for the broker.
NoTx == [rows |-> {}, sent |-> {}, failed |-> {}, alive |-> TRUE]
Todo(p) == tx[p].rows \ (tx[p].sent \cup tx[p].failed)
Oldest(p) == CHOOSE r \in Todo(p) : \A s \in Todo(p) : r <= s

TypeOK ==
    /\ row \in [Rows -> Row]
    /\ copies \in [Rows -> Nat]
    /\ bound \in BOOLEAN
    /\ link \in [Procs -> {"down", "up", "deaf"}]
    /\ task \in [UserProcs -> {"first", "waitUp", "consume", "running", "backoff", "stop"}]
    /\ consumer \in [UserProcs -> BOOLEAN]
    /\ pc \in [Procs -> {"off", "poll", "batch", "confirm"}]
    /\ tx \in [Procs -> [rows: SUBSET Rows, sent: SUBSET Rows, failed: SUBSET Rows,
                         alive: BOOLEAN]]
    /\ faults \in 0..MaxFaults

Init ==
    /\ row = [r \in Rows |-> [status |-> "NONE", retries |-> 0, due |-> TRUE]]
    /\ copies = [r \in Rows |-> 0]
    /\ bound = FALSE
    /\ link = [p \in Procs |-> "down"]
    /\ task = [p \in UserProcs |-> "first"]
    /\ consumer = [p \in UserProcs |-> FALSE]
    /\ pc = [p \in Procs |-> IF p \in OrderProcs THEN "poll" ELSE "off"]
    /\ tx = [p \in Procs |-> NoTx]
    /\ faults = 0

RowsOf(p) == IF p \in OrderProcs THEN OrderRows ELSE Rows \ OrderRows

-----------------------------------------------------------------------------
(* The tables *)

\* A request or a consumer commits a change and the event that announces it.
Enqueue(r) ==
    /\ row[r].status = "NONE"
    /\ row' = [row EXCEPT ![r].status = "PENDING"]
    /\ UNCHANGED <<copies, bound, link, task, consumer, pc, tx, faults>>

\* nextRetryAt has passed.
Due(r) ==
    /\ ~row[r].due
    /\ row' = [row EXCEPT ![r].due = TRUE]
    /\ UNCHANGED <<copies, bound, link, task, consumer, pc, tx, faults>>

Ready(rows) == {r \in rows : row[r].status = "PENDING" /\ row[r].due}
Locked == UNION {tx[q].rows : q \in {q \in Procs : tx[q].alive}}

\* Mutant: no lock clause.
PendingEventsUnlocked(p) == Ready(RowsOf(p))

\* FOR UPDATE SKIP LOCKED
PendingEvents(p) == Ready(RowsOf(p)) \ Locked

Completed(r) == [row[r] EXCEPT !.status = "COMPLETED", !.due = TRUE]

\* Mutant: an order event is given up like one of the user service.
OrderFailedForGood(r) == [row[r] EXCEPT !.status = "FAILED"]

\* The order service schedules another attempt, however often it failed.
OrderFailed(r) == [row[r] EXCEPT !.due = FALSE]

\* The user service's row becomes FAILED at the last attempt.
UserFailed(r) ==
    LET n == row[r].retries + 1
        shouldFail == n >= MaxRetries
    IN  [status |-> IF shouldFail THEN "FAILED" ELSE "PENDING", retries |-> n, due |-> shouldFail]

Failed(p, r) == IF p \in OrderProcs THEN OrderFailed(r) ELSE UserFailed(r)

-----------------------------------------------------------------------------
(* The relay *)

\* `while (this.running)`: startQueueTasks stops the relay of a user process.
Running(p) == task[p] \in {"consume", "running", "backoff"}

Fetch(p) ==
    /\ pc[p] = "poll"
    /\ \/ p \in OrderProcs /\ link[p] # "down"
       \/ p \in UserProcs /\ Running(p)
    /\ PendingEvents(p) # {}
    /\ tx' = [tx EXCEPT ![p] = [NoTx EXCEPT !.rows = PendingEvents(p)]]
    /\ pc' = [pc EXCEPT ![p] = "batch"]
    /\ UNCHANGED <<row, copies, bound, link, task, consumer, faults>>

\* The next row is handed to the channel, which throws when it is closed.
Publish(p) ==
    /\ pc[p] = "batch" /\ Todo(p) # {}
    /\ IF link[p] = "up"
       THEN pc' = [pc EXCEPT ![p] = "confirm"] /\ UNCHANGED tx
       ELSE tx' = [tx EXCEPT ![p].failed = @ \cup {Oldest(p)}] /\ UNCHANGED pc
    /\ UNCHANGED <<row, copies, bound, link, task, consumer, faults>>

\* The publication is over, ok or not: the relay notes it in its transaction, or learns that
\* the transaction is gone, which ends the batch.
Note(p, ok) ==
    IF tx[p].alive
    THEN /\ tx' = IF ok THEN [tx EXCEPT ![p].sent = @ \cup {Oldest(p)}]
                        ELSE [tx EXCEPT ![p].failed = @ \cup {Oldest(p)}]
         /\ pc' = [pc EXCEPT ![p] = "batch"]
    ELSE /\ tx' = [tx EXCEPT ![p] = NoTx]
         /\ pc' = [pc EXCEPT ![p] = "poll"]

\* The queue takes a copy, when there is a queue.
Arrives(p, accepted) ==
    copies' = IF accepted /\ bound THEN [copies EXCEPT ![Oldest(p)] = @ + 1] ELSE copies

\* Mutant: published without `mandatory`.
AlwaysRoutable(p) == TRUE

\* The broker confirms a message no queue is bound for; the order service has it returned.
Routable(p) == p \in OrderProcs => bound

Confirm(p) ==
    /\ pc[p] = "confirm"
    /\ Arrives(p, TRUE)
    /\ Note(p, Routable(p))
    /\ UNCHANGED <<row, bound, link, task, consumer, faults>>

Commit(p) ==
    /\ pc[p] = "batch" /\ Todo(p) = {}
    /\ row' = [r \in Rows |-> CASE r \in tx[p].sent   -> Completed(r)
                                [] r \in tx[p].failed -> Failed(p, r)
                                [] OTHER              -> row[r]]
    /\ tx' = [tx EXCEPT ![p] = NoTx]
    /\ pc' = [pc EXCEPT ![p] = "poll"]
    /\ UNCHANGED <<copies, bound, link, task, consumer, faults>>

\* The database ends the transaction.  A relay waiting for the broker learns of it later.
DbFails(p) ==
    /\ faults < MaxFaults /\ faults' = faults + 1
    /\ \/ /\ pc[p] = "batch"
          /\ tx' = [tx EXCEPT ![p] = NoTx]
          /\ pc' = [pc EXCEPT ![p] = "poll"]
       \/ /\ pc[p] = "confirm" /\ tx[p].alive
          /\ tx' = [tx EXCEPT ![p].alive = FALSE]
          /\ UNCHANGED pc
    /\ UNCHANGED <<row, copies, bound, link, task, consumer>>

-----------------------------------------------------------------------------
(* Connections *)

\* The credit service declares and binds its durable queues when it first connects.
CreditStarts ==
    /\ ~bound /\ bound' = TRUE
    /\ UNCHANGED <<row, copies, link, task, consumer, pc, tx, faults>>

\* connectRabbitMQ: the retry loop of an order process succeeds.
OrderConnects(p) ==
    /\ link[p] = "down"
    /\ link' = [link EXCEPT ![p] = "up"]
    /\ UNCHANGED <<row, copies, bound, task, consumer, pc, tx, faults>>

\* The first connection, or the provider's reconnection loop.
UserConnects(p) ==
    /\ link[p] = "down"
    /\ link' = [link EXCEPT ![p] = "up"]
    /\ task' = [task EXCEPT ![p] = IF @ = "first" THEN "waitUp" ELSE @]
    /\ UNCHANGED <<row, copies, bound, consumer, pc, tx, faults>>

\* A publication under way is rejected; its message may have got through all the same.
Rejects(p) ==
    IF pc[p] = "confirm"
    THEN Note(p, FALSE) /\ \E accepted \in BOOLEAN : Arrives(p, accepted)
    ELSE UNCHANGED <<tx, pc, copies>>

\* Mutant: nobody waits for the connection to go down.
Unnoticed(p) ==
    /\ UNCHANGED task
    /\ consumer' = [consumer EXCEPT ![p] = FALSE]

\* handleDisconnect wakes whoever waits in waitUntilDown and fails the `consume` under way.
Disconnected(p) ==
    /\ task' = [task EXCEPT ![p] = CASE @ = "consume" -> "backoff"
                                     [] @ = "running" -> "stop"
                                     [] OTHER         -> @]
    /\ consumer' = [consumer EXCEPT ![p] = FALSE]

OrderDisconnects(p) ==
    /\ link[p] # "down" /\ faults < MaxFaults /\ faults' = faults + 1
    /\ \/ link' = [link EXCEPT ![p] = "down"]
       \/ p \in LoneCloses /\ link[p] = "up" /\ link' = [link EXCEPT ![p] = "deaf"]
    /\ Rejects(p)
    /\ UNCHANGED <<row, bound, task, consumer>>

\* The provider treats the close of its channel like that of its connection.
UserDisconnects(p) ==
    /\ link[p] = "up" /\ faults < MaxFaults /\ faults' = faults + 1
    /\ link' = [link EXCEPT ![p] = "down"]
    /\ Rejects(p)
    /\ Disconnected(p)
    /\ UNCHANGED <<row, bound>>

-----------------------------------------------------------------------------
(* startQueueTasks of the user service *)

\* waitUntilUp resolves: the relay starts, and the RPC server asks for its consumer.
StartWorkers(p) ==
    /\ task[p] = "waitUp" /\ link[p] = "up"
    /\ task' = [task EXCEPT ![p] = "consume"]
    /\ pc' = [pc EXCEPT ![p] = "poll"]
    /\ UNCHANGED <<row, copies, bound, link, consumer, tx, faults>>

Consume(p) ==
    /\ task[p] = "consume" /\ link[p] = "up"
    /\ task' = [task EXCEPT ![p] = "running"]
    /\ consumer' = [consumer EXCEPT ![p] = TRUE]
    /\ UNCHANGED <<row, copies, bound, link, pc, tx, faults>>

BackoffOver(p) ==
    /\ task[p] = "backoff"
    /\ task' = [task EXCEPT ![p] = "stop"]
    /\ UNCHANGED <<row, copies, bound, link, consumer, pc, tx, faults>>

\* stop() returns once the loop has finished its batch; the next cycle begins.
Stopped(p) ==
    /\ task[p] = "stop" /\ pc[p] = "poll"
    /\ task' = [task EXCEPT ![p] = "waitUp"]
    /\ pc' = [pc EXCEPT ![p] = "off"]
    /\ UNCHANGED <<row, copies, bound, link, consumer, tx, faults>>

-----------------------------------------------------------------------------
\* A process ends and is started again; a message on its way may get through.
Crash(p) ==
    /\ faults < MaxFaults /\ faults' = faults + 1
    /\ IF pc[p] = "confirm" THEN \E accepted \in BOOLEAN : Arrives(p, accepted)
                            ELSE UNCHANGED copies
    /\ link' = [link EXCEPT ![p] = "down"]
    /\ tx' = [tx EXCEPT ![p] = NoTx]
    /\ pc' = [pc EXCEPT ![p] = IF p \in OrderProcs THEN "poll" ELSE "off"]
    /\ task' = [q \in UserProcs |-> IF q = p THEN "first" ELSE task[q]]
    /\ consumer' = [q \in UserProcs |-> q # p /\ consumer[q]]
    /\ UNCHANGED <<row, bound>>

Relay(p) == Fetch(p) \/ Publish(p) \/ Confirm(p) \/ Commit(p)
QueueTasks(p) == StartWorkers(p) \/ Consume(p) \/ BackoffOver(p) \/ Stopped(p)

Next ==
    \/ \E r \in Rows : Enqueue(r) \/ Due(r)
    \/ CreditStarts
    \/ \E p \in Procs : Relay(p) \/ DbFails(p) \/ Crash(p)
    \/ \E p \in OrderProcs : OrderConnects(p) \/ OrderDisconnects(p)
    \/ \E p \in UserProcs : UserConnects(p) \/ UserDisconnects(p) \/ QueueTasks(p)

Spec == Init /\ [][Next]_vars

\* Timers fire, the loops go on, the broker answers, and the connection loops retry for ever.
FairSpec ==
    /\ Spec
    /\ WF_vars(CreditStarts)
    /\ \A r \in Rows : WF_vars(Due(r))
    /\ \A p \in Procs : WF_vars(Relay(p))
    /\ \A p \in OrderProcs : WF_vars(OrderConnects(p))
    /\ \A p \in UserProcs : WF_vars(UserConnects(p)) /\ WF_vars(QueueTasks(p))

-----------------------------------------------------------------------------
Status(s) == {r \in Rows : row[r].status = s}

(* The relays keep the promise of an outbox: a row waits until it is done with, and an order *)
(* event counts as sent only when the credit service's queue has it (relayOnce, publishEvent *)
(* with `mandatory`, markEventSent).                                                         *)
Delivery == INSTANCE OutboxDelivery
            WITH waiting <- Status("PENDING"), sent <- Status("COMPLETED"),
                 abandoned <- Status("FAILED"), Assured <- OrderRows
Implements == Delivery!Spec

(* order-service/src/prisma/outbox.ts:41-44: FOR UPDATE SKIP LOCKED lets any number of        *)
(* processes relay one table without publishing a row twice.  Only a fault, at most one copy  *)
(* per fault, sends a row again.                                                              *)
OneCopyPerFault == \A r \in Rows : copies[r] <= 1 + faults

(* order-service/src/rabbitmq/outbox.ts:5-7: an order event is never lost and never given up  *)
(* on, so every row the order service writes is sent, unless a process stays deaf: its        *)
(* channel closed alone, only the close of the connection makes it reconnect                  *)
(* (rabbitmq/client.ts:99), and until then it claims rows that it cannot send.  The user      *)
(* service's relay is done with every row, sent or FAILED, whatever connection changes        *)
(* interrupt and restart it (OutboxWorker, startQueueTasks).                                  *)
RowsSettle ==
    /\ <>[](\A p \in OrderProcs : link[p] # "deaf") =>
          \A r \in OrderRows : row[r].status = "PENDING" ~> row[r].status = "COMPLETED"
    /\ \A r \in Rows \ OrderRows :
          row[r].status = "PENDING" ~> row[r].status \in {"COMPLETED", "FAILED"}

(* After the last fault every user process answers RPC queries and relays again: no sequence  *)
(* of disconnections leaves it connected without its consumer (startQueueTasks, provider.ts). *)
ServiceRecovers ==
    <>[](\A p \in UserProcs : link[p] = "up" /\ consumer[p] /\ Running(p))
=============================================================================
