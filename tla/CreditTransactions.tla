------------------------- MODULE CreditTransactions -------------------------
(***************************************************************************)
(* The credit service at the grain at which its handlers interleave: every *)
(* row lock, unlocked read, insert and commit of the functions in          *)
(* credit-service/src/services/credits.ts and of the private endpoints of  *)
(* controller/credits.ts is a step.                                        *)
(*                                                                         *)
(* A worker is one message being consumed, or one HTTP request being       *)
(* served.  Up to ten deliveries per queue are in progress at a time       *)
(* (prefetch), so handlers of the same errand and of the same user run     *)
(* side by side.  The database runs them at READ COMMITTED: a plain read   *)
(* sees what is committed at that moment, SELECT ... FOR UPDATE waits for  *)
(* the row and then sees its committed value, and nothing a transaction    *)
(* wrote is visible before it commits.                                     *)
(***************************************************************************)
EXTENDS CreditLedger, Sequences

CONSTANTS Workers,        \* deliveries and requests in progress at the same time
          NoWorker,       \* the holder of a lock nobody holds
          NoErrand,       \* the errand of a job that concerns none
          Registered,     \* the users the User service knows
          Deliveries,     \* the messages order and user service may send
          Requests,       \* the requests that may reach the HTTP endpoints
          MaxCrashes,     \* bound on crashes of the process
          MaxRows,        \* rows of an accepting event are counted up to this bound
          LookupsMayFail, \* whether the RPC to the User service may time out
          AlwaysReady     \* whether every message is ready all the time: as Arrive can bring
                          \* back any message, this leaves the same behaviours of everything
                          \* but `ready`, and safety runs without the subsets of messages

\* What the queues of the service are bound to, and its private endpoints.
Topics == {"user.registered", "order.created", "order.accepted", "order.completed",
           "order.cancelled"}
Endpoints == {"GET balance", "POST hold", "POST released", "POST refunded"}

Job == [op: Topics \cup Endpoints,
        errand: Errands \cup {NoErrand},
        user: Users \cup {NoUser},
        supplier: Users \cup {NoUser},
        amount: Amounts \cup {0}]

MoneyOps == {"order.created", "order.accepted", "order.completed", "order.cancelled",
             "POST hold", "POST released", "POST refunded"}

ASSUME TransactionAssumption ==
    /\ NoWorker \notin Workers
    /\ NoErrand \notin Errands
    /\ Registered \subseteq Users
    /\ Deliveries \subseteq {j \in Job : j.op \in Topics}
    /\ Requests \subseteq {j \in Job : j.op \in Endpoints}
    /\ \A j \in Deliveries \cup Requests :
          /\ j.op \in MoneyOps => j.errand \in Errands
          /\ j.op \in {"order.created", "POST hold"} => j.user \in Users /\ j.amount \in Amounts
          /\ j.op = "order.created" => j.supplier = NoUser
          /\ j.op \in {"order.accepted", "GET balance"} => j.user \in Users
          /\ j.op = "user.registered" => j.user \in Registered
    /\ MaxCrashes \in Nat /\ MaxRows \in Nat \ {0, 1}
    /\ LookupsMayFail \in BOOLEAN /\ AlwaysReady \in BOOLEAN

Reasons == {"REQUESTOR_NOT_FOUND", "RECORD_NOT_MATCHING", "INSUFFICIENT_CREDITS",
            "ERRAND_NOT_FOUND", "HOLD_ALREADY_REFUNDED", "HOLD_ALREADY_RELEASED",
            "COURIER_NOT_FOUND"}

\* Outbox rows; a rejection also carries the reason, which is its transaction's outcome.
Accepting == [topic: {"credits.held", "credits.accepted", "credits.released", "credits.refunded"},
              errand: Errands]
Rejecting == [topic: {"credits.hold.rejected", "credits.accepted.rejected",
                      "credits.released.rejected", "credits.refunded.rejected"},
              errand: Errands]

VARIABLES announced, \* how many outbox rows there are of each accepting event
          rejected,  \* the rejecting events the outbox has a row of
          ready,     \* the messages the broker will (re)deliver
          pc,        \* where each worker is in its handler
          txn,       \* each worker's local variables
          userLock,  \* who holds the lock of a UserCredits row
          holdLock,  \* who holds the lock of a CreditsOnHold row, or of its key while
                     \* the row is being inserted
          crashes    \* crashes of the process so far

outbox == <<announced, rejected>>
vars == <<ledger, outbox, ready, pc, txn, userLock, holdLock, crashes>>
locks == <<userLock, holdLock>>

NoJob == [op |-> "NONE"]
NoTxn == [job |-> NoJob, lookups |-> <<>>, row |-> NoHold, seen |-> 0,
          outcome |-> "NONE"]
Outcomes == {"NONE", "APPLY", "SILENT"} \cup Reasons

TypeOK ==
    /\ LedgerTypeOK
    /\ announced \in [Accepting -> 0..MaxRows]
    /\ rejected \subseteq Rejecting
    /\ ready \subseteq Deliveries
    /\ pc \in [Workers -> {"idle", "resolve", "ask", "ensure", "first", "second", "insert",
                           "commit", "settle"}]
    /\ txn \in [Workers -> [job: Deliveries \cup Requests \cup {NoJob},
                            lookups: Seq(Users \cup {NoUser}),
                            row: HoldRow \cup {NoHold}, seen: Int, outcome: Outcomes]]
    /\ userLock \in [Users -> Workers \cup {NoWorker}]
    /\ holdLock \in [Errands -> Workers \cup {NoWorker}]
    /\ crashes \in 0..MaxCrashes

Init ==
    /\ LedgerInit
    /\ announced = [ev \in Accepting |-> 0]
    /\ rejected = {}
    /\ ready = IF AlwaysReady THEN Deliveries ELSE {}
    /\ pc = [w \in Workers |-> "idle"]
    /\ txn = [w \in Workers |-> NoTxn]
    /\ userLock = [u \in Users |-> NoWorker]
    /\ holdLock = [e \in Errands |-> NoWorker]
    /\ crashes = 0

-----------------------------------------------------------------------------
\* The job in progress and how the code reads it.

Op(w) == txn[w].job.op
Errand(w) == txn[w].job.errand
User(w) == txn[w].job.user

Holds(w) == Op(w) \in {"order.created", "POST hold"}
Accepts(w) == Op(w) = "order.accepted"
Releases(w) == Op(w) \in {"order.completed", "POST released"}
Refunds(w) == Op(w) \in {"order.cancelled", "POST refunded"}
FromQueue(w) == txn[w].job \in Deliveries

\* Who a settlement pays, in a hold row.
Payee(op, row) ==
    IF op \in {"order.completed", "POST released"} THEN row.courier ELSE row.requestor

\* resolveHoldCreditAccount: only a live hold's payee is looked up.
HoldLookup(op, row) ==
    IF row.status = "HELD" /\ Payee(op, row) # NoUser THEN <<Payee(op, row)>> ELSE <<>>

\* The users whose accounts the handler resolves before its transaction.
Lookups(j) ==
    IF j.op \in {"order.completed", "order.cancelled", "POST released", "POST refunded"}
    THEN HoldLookup(j.op, hold[j.errand])
    ELSE IF j.op = "POST hold" THEN <<j.user, j.supplier>> ELSE <<j.user>>

-----------------------------------------------------------------------------
\* Steps shared by the handlers.

Goto(w, label) == pc' = [pc EXCEPT ![w] = label]

\* Leave the transaction's reads behind with what is to be committed.
Decide(w, outcome) ==
    /\ Goto(w, "commit")
    /\ txn' = [txn EXCEPT ![w].outcome = outcome]

\* Mutant: the transaction is left open, with its locks.
KeepLocks(w) == UNCHANGED locks

ReleaseLocks(w) ==
    /\ userLock' = [u \in Users |-> IF userLock[u] = w THEN NoWorker ELSE userLock[u]]
    /\ holdLock' = [e \in Errands |-> IF holdLock[e] = w THEN NoWorker ELSE holdLock[e]]

Leave(w) ==
    /\ Goto(w, "idle")
    /\ txn' = [txn EXCEPT ![w] = NoTxn]

\* The handler throws: the database rolls back, and a delivery is requeued.
Fail(w) ==
    /\ Leave(w)
    /\ ReleaseLocks(w)
    /\ ready' = IF FromQueue(w) THEN ready \cup {txn[w].job} ELSE ready
    /\ UNCHANGED <<ledger, outbox, crashes>>

\* Mutants: SELECT without FOR UPDATE.
ReadUserUnlocked(u) == TRUE
ReadHoldUnlocked(e) == TRUE

UserRowFree(u) == userLock[u] = NoWorker
HoldRowFree(e) == holdLock[e] = NoWorker

-----------------------------------------------------------------------------
\* Another service publishes a message that is bound to a queue of this one, or publishes
\* it again; or the broker takes a message back because its channel closed, while the
\* handler carries on (its acknowledgement is then void).
Arrive(j) ==
    /\ j \notin ready
    /\ ready' = ready \cup {j}
    /\ UNCHANGED <<ledger, outbox, pc, txn, locks, crashes>>

\* What comes after the lookups: the transaction, if the job has one.
AfterLookups(j, lookups) ==
    IF lookups # <<>> THEN "resolve" ELSE IF j.op \in MoneyOps THEN "first" ELSE "settle"

Begin(w, j) ==
    /\ pc[w] = "idle"
    /\ Goto(w, IF j.op = "user.registered" THEN "ensure" ELSE AfterLookups(j, Lookups(j)))
    /\ txn' = [txn EXCEPT ![w] = [NoTxn EXCEPT !.job = j, !.lookups = Lookups(j)]]
    /\ UNCHANGED <<ledger, outbox, locks, crashes>>

\* The broker hands a message to a consumer.
Deliver(w, j) ==
    /\ j \in ready
    /\ Begin(w, j)
    /\ ready' = IF AlwaysReady THEN ready ELSE ready \ {j}

\* A client calls an endpoint.
Serve(w, j) ==
    /\ j \in Requests
    /\ Begin(w, j)
    /\ UNCHANGED ready

\* The first user to look up is done with.
Resolved(w) ==
    /\ Goto(w, AfterLookups(txn[w].job, Tail(txn[w].lookups)))
    /\ txn' = [txn EXCEPT ![w].lookups = Tail(@)]

\* resolveCreditAccount: the unlocked read that may make the RPC needless.
Resolve(w) ==
    /\ pc[w] = "resolve"
    /\ IF Head(txn[w].lookups) \in account
       THEN Resolved(w)
       ELSE Goto(w, "ask") /\ UNCHANGED txn
    /\ UNCHANGED <<ledger, outbox, ready, locks, crashes>>

\* The User service answers whether the user exists.
LookupAnswered(w) ==
    /\ pc[w] = "ask"
    /\ Head(txn[w].lookups) \in Users
    /\ IF Head(txn[w].lookups) \in Registered
       THEN Goto(w, "ensure") /\ UNCHANGED txn
       ELSE Resolved(w)
    /\ UNCHANGED <<ledger, outbox, ready, locks, crashes>>

\* The RPC times out or is refused; a null user id is always refused.
LookupFails(w) ==
    /\ pc[w] = "ask"
    /\ LookupsMayFail \/ Head(txn[w].lookups) = NoUser
    /\ Fail(w)

\* ensureCreditAccount, an insert of its own that does nothing on conflict.
EnsureAccount(w) ==
    /\ pc[w] = "ensure"
    /\ LET u == Head(txn[w].lookups)
       IN  OpenAccount(u) \/ (u \in account /\ UNCHANGED ledger)
    /\ Resolved(w)
    /\ UNCHANGED <<outbox, ready, locks, crashes>>

-----------------------------------------------------------------------------
\* ensureCreditsHeld and createTransaction: lock the requester's row, read the hold
\* without a lock, insert it, deduct.

LockRequestor(w) ==
    /\ pc[w] = "first" /\ Holds(w)
    /\ \/ /\ User(w) \notin account
          /\ Decide(w, "REQUESTOR_NOT_FOUND")
          /\ UNCHANGED userLock
       \/ /\ User(w) \in account
          /\ UserRowFree(User(w))
          /\ userLock' = [userLock EXCEPT ![User(w)] = w]
          /\ txn' = [txn EXCEPT ![w].seen = balance[User(w)]]
          /\ Goto(w, "second")
    /\ UNCHANGED <<ledger, outbox, ready, holdLock, crashes>>

\* A repeated order.created is silent, the endpoint refuses any existing hold.
ExistingHoldOutcome(j, row) ==
    IF j.op = "order.created" /\ row.requestor = j.user /\ row.amount = j.amount
    THEN "SILENT" ELSE "RECORD_NOT_MATCHING"

\* Mutant: off by one.
OneCreditShort(w) == txn[w].seen + 1 < txn[w].job.amount

TooPoor(w) == txn[w].seen < txn[w].job.amount

\* Mutant: the supplier's account is not looked at.
SupplierUnchecked(j) == FALSE

\* The endpoint checks the supplier it was given, by an unlocked read.
SupplierMissing(j) == j.op = "POST hold" /\ j.supplier # NoUser /\ j.supplier \notin account

ReadHold(w) ==
    /\ pc[w] = "second" /\ Holds(w)
    /\ LET j == txn[w].job IN
       IF hold[j.errand] # NoHold THEN Decide(w, ExistingHoldOutcome(j, hold[j.errand]))
       ELSE IF TooPoor(w) THEN Decide(w, "INSUFFICIENT_CREDITS")
       ELSE IF SupplierMissing(j) THEN Decide(w, "COURIER_NOT_FOUND")
       ELSE Goto(w, "insert") /\ UNCHANGED txn
    /\ UNCHANGED <<ledger, outbox, ready, locks, crashes>>

\* The insert waits for an uncommitted insert of the same key, and fails on a
\* committed one (unique violation).
InsertHold(w) ==
    /\ pc[w] = "insert"
    /\ hold[Errand(w)] = NoHold
    /\ HoldRowFree(Errand(w))
    /\ holdLock' = [holdLock EXCEPT ![Errand(w)] = w]
    /\ Decide(w, "APPLY")
    /\ UNCHANGED <<ledger, outbox, ready, userLock, crashes>>

InsertConflicts(w) ==
    /\ pc[w] = "insert"
    /\ hold[Errand(w)] # NoHold
    /\ Fail(w)

-----------------------------------------------------------------------------
\* ensureCreditsAccepted, ensureCreditsReleased, ensureCreditsRefunded and the two
\* settlement endpoints: lock the hold, then look at the user.

\* What the locked row alone decides; "NONE" if the handler goes on to the user.
AcceptOutcome(row, c) ==
    CASE row.courier = c -> "SILENT"
      [] row.courier # c /\ row.status = "REFUNDED" -> "HOLD_ALREADY_REFUNDED"
      [] row.courier # c /\ row.status = "RELEASED" -> "HOLD_ALREADY_RELEASED"
      [] row.courier \notin {c, NoUser} /\ row.status = "HELD" -> "RECORD_NOT_MATCHING"
      [] OTHER -> "NONE"

\* Mutant: a refund does not look whether the hold is already refunded.
SettleRefundedAgain(op, row) ==
    IF row.status = "RELEASED" THEN "HOLD_ALREADY_RELEASED" ELSE "NONE"

\* A settlement repeated by an event is silent, the endpoints refuse it (their reply
\* is an HTTP status, so the reason they would give is immaterial).
SettleOutcome(op, row) ==
    CASE row.status = "RELEASED" -> IF op = "order.completed" THEN "SILENT" ELSE "HOLD_ALREADY_RELEASED"
      [] row.status = "REFUNDED" -> IF op = "order.cancelled" THEN "SILENT" ELSE "HOLD_ALREADY_REFUNDED"
      [] OTHER -> "NONE"

RowOutcome(j, row) ==
    IF j.op = "order.accepted" THEN AcceptOutcome(row, j.user) ELSE SettleOutcome(j.op, row)

LockHold(w) ==
    /\ pc[w] = "first" /\ ~Holds(w)
    /\ LET e == Errand(w)
           outcome == RowOutcome(txn[w].job, hold[e])
       IN \/ /\ hold[e] = NoHold
             /\ Decide(w, "ERRAND_NOT_FOUND")
             /\ UNCHANGED holdLock
          \/ /\ hold[e] # NoHold
             /\ HoldRowFree(e)
             /\ holdLock' = [holdLock EXCEPT ![e] = w]
             /\ txn' = [txn EXCEPT ![w].row = hold[e], ![w].outcome = outcome]
             /\ Goto(w, IF outcome = "NONE" THEN "second" ELSE "commit")
    /\ UNCHANGED <<ledger, outbox, ready, userLock, crashes>>

\* ensureCreditsAccepted reads the courier's account without locking it.
ReadCourier(w) ==
    /\ pc[w] = "second" /\ Accepts(w)
    /\ Decide(w, IF User(w) \in account THEN "APPLY" ELSE "COURIER_NOT_FOUND")
    /\ UNCHANGED <<ledger, outbox, ready, locks, crashes>>

\* A settlement locks the account it pays and reads its balance.
LockPayee(w) ==
    /\ pc[w] = "second" /\ (Releases(w) \/ Refunds(w))
    /\ LET u == Payee(Op(w), txn[w].row) IN
       \/ /\ u \notin account
          /\ Decide(w, IF Releases(w) THEN "COURIER_NOT_FOUND" ELSE "REQUESTOR_NOT_FOUND")
          /\ UNCHANGED userLock
       \/ /\ u \in account
          /\ UserRowFree(u)
          /\ userLock' = [userLock EXCEPT ![u] = w]
          /\ txn' = [txn EXCEPT ![w].seen = balance[u], ![w].outcome = "APPLY"]
          /\ Goto(w, "commit")
    /\ UNCHANGED <<ledger, outbox, ready, holdLock, crashes>>

-----------------------------------------------------------------------------
\* Commit: the rows written become visible together with the reply in the outbox.

\* The statements of the transaction, computed from what it read.
WrittenHold(w) ==
    LET e == Errand(w)
        j == txn[w].job
    IN CASE Holds(w) -> [hold EXCEPT ![e] = NewHold(j.user, j.supplier, j.amount)]
         [] Accepts(w) -> [hold EXCEPT ![e].courier = j.user]
         [] Releases(w) -> [hold EXCEPT ![e].status = "RELEASED"]
         [] Refunds(w) -> [hold EXCEPT ![e].status = "REFUNDED"]

WrittenBalance(w) ==
    LET seen == txn[w].seen
        row == txn[w].row
    IN CASE Holds(w) -> [balance EXCEPT ![User(w)] = seen - txn[w].job.amount]
         [] Accepts(w) -> balance
         [] Releases(w) \/ Refunds(w) -> [balance EXCEPT ![Payee(Op(w), row)] = seen + row.amount]

AcceptingTopic == [op \in {"order.created", "order.accepted", "order.completed", "order.cancelled"} |->
    CASE op = "order.created" -> "credits.held"
      [] op = "order.accepted" -> "credits.accepted"
      [] op = "order.completed" -> "credits.released"
      [] op = "order.cancelled" -> "credits.refunded"]

RejectingTopic == [op \in {"order.created", "order.accepted", "order.completed", "order.cancelled"} |->
    CASE op = "order.created" -> "credits.hold.rejected"
      [] op = "order.accepted" -> "credits.accepted.rejected"
      [] op = "order.completed" -> "credits.released.rejected"
      [] op = "order.cancelled" -> "credits.refunded.rejected"]

\* The outbox rows a transaction writes: the endpoints write none, a repetition none.
Replies(w) ==
    IF ~FromQueue(w) \/ txn[w].outcome = "SILENT" THEN {}
    ELSE IF txn[w].outcome = "APPLY"
    THEN {[topic |-> AcceptingTopic[Op(w)], errand |-> Errand(w)]}
    ELSE {[topic |-> RejectingTopic[Op(w)], errand |-> Errand(w)]}

Enqueue(events) ==
    /\ announced' = [ev \in Accepting |->
                        IF ev \in events /\ announced[ev] < MaxRows
                        THEN announced[ev] + 1 ELSE announced[ev]]
    /\ rejected' = rejected \cup (events \cap Rejecting)

Commit(w) ==
    /\ pc[w] = "commit"
    /\ IF txn[w].outcome = "APPLY"
       THEN /\ hold' = WrittenHold(w)
            /\ balance' = WrittenBalance(w)
            /\ UNCHANGED account
       ELSE UNCHANGED ledger
    /\ Enqueue(Replies(w))
    /\ ReleaseLocks(w)
    /\ Goto(w, "settle")
    /\ UNCHANGED <<ready, txn, crashes>>

\* The message is acknowledged, or the HTTP response sent.
Settle(w) ==
    /\ pc[w] = "settle"
    /\ Leave(w)
    /\ UNCHANGED <<ledger, outbox, ready, locks, crashes>>

-----------------------------------------------------------------------------
\* Mutant: deliveries are acknowledged as soon as they arrive.
CrashAfterEarlyAck ==
    /\ crashes < MaxCrashes
    /\ \E w \in Workers : pc[w] # "idle"
    /\ pc' = [w \in Workers |-> "idle"]
    /\ txn' = [w \in Workers |-> NoTxn]
    /\ userLock' = [u \in Users |-> NoWorker]
    /\ holdLock' = [e \in Errands |-> NoWorker]
    /\ crashes' = crashes + 1
    /\ UNCHANGED <<ledger, outbox, ready>>

\* The process dies: open transactions roll back, and the deliveries that were not
\* acknowledged go back to their queues.
Crash ==
    /\ crashes < MaxCrashes
    /\ \E w \in Workers : pc[w] # "idle"
    /\ ready' = ready \cup {txn[w].job : w \in {v \in Workers : FromQueue(v)}}
    /\ pc' = [w \in Workers |-> "idle"]
    /\ txn' = [w \in Workers |-> NoTxn]
    /\ userLock' = [u \in Users |-> NoWorker]
    /\ holdLock' = [e \in Errands |-> NoWorker]
    /\ crashes' = crashes + 1
    /\ UNCHANGED <<ledger, outbox>>

Work(w) ==
    \/ Resolve(w) \/ LookupAnswered(w) \/ EnsureAccount(w)
    \/ LockRequestor(w) \/ ReadHold(w) \/ InsertHold(w) \/ InsertConflicts(w)
    \/ LockHold(w) \/ ReadCourier(w) \/ LockPayee(w)
    \/ Commit(w) \/ Settle(w)

Next ==
    \/ \E j \in Deliveries : Arrive(j)
    \/ \E w \in Workers, j \in Deliveries : Deliver(w, j)
    \/ \E w \in Workers, j \in Requests : Serve(w, j)
    \/ \E w \in Workers : Work(w) \/ LookupFails(w)
    \/ Crash

Spec == Init /\ [][Next]_vars

\* Row locks are granted in the order they are asked for, the broker redelivers what is
\* ready, and the User service answers again and again, if not always.
Fairness ==
    /\ \A w \in Workers : SF_vars(Work(w)) /\ SF_vars(LookupAnswered(w))
    /\ \A j \in Deliveries : SF_vars(\E w \in Workers : Deliver(w, j))

FairSpec == Spec /\ Fairness

-----------------------------------------------------------------------------
\* Properties.  TypeOK and what CreditLedger states of the tables, and:

\* The row locks make every handler one atomic change of the ledger, whatever runs beside
\* it and wherever it crashes (services/credits.ts): no deduction or payout is computed
\* from a balance that changed meanwhile, and no hold is settled twice.
ImplementsLedger == LedgerSpec

\* The worker whose lock w waits for, if it waits.
BlockedOn(w) ==
    CASE pc[w] = "first" /\ Holds(w) /\ User(w) \in account -> userLock[User(w)]
      [] pc[w] = "first" /\ ~Holds(w) /\ hold[Errand(w)] # NoHold -> holdLock[Errand(w)]
      [] pc[w] = "second" /\ (Releases(w) \/ Refunds(w))
            /\ Payee(Op(w), txn[w].row) \in account -> userLock[Payee(Op(w), txn[w].row)]
      [] pc[w] = "insert" /\ hold[Errand(w)] = NoHold -> holdLock[Errand(w)]
      [] OTHER -> NoWorker

\* Handlers that lock a user before a hold (order.created) and handlers that lock a hold
\* before a user (order.completed, order.cancelled) never wait for each other in a circle.
NoLockCycle ==
    ~ \E S \in SUBSET Workers : S # {} /\ \A w \in S : BlockedOn(w) \in S

Row(topic, e) == announced[[topic |-> topic, errand |-> e]]

\* However often a message is delivered, each change of a hold is announced to the order
\* service at most once, and only if it took place (the outbox row is written by the
\* transaction that makes the change, services/credits.ts:97, 157, 221, 290).
RepliesMatchLedger ==
    \A e \in Errands :
        /\ Row("credits.held", e) <= (IF hold[e] = NoHold THEN 0 ELSE 1)
        /\ Row("credits.accepted", e) <= (IF hold[e].courier = NoUser THEN 0 ELSE 1)
        /\ Row("credits.released", e) <= (IF hold[e].status = "RELEASED" THEN 1 ELSE 0)
        /\ Row("credits.refunded", e) <= (IF hold[e].status = "REFUNDED" THEN 1 ELSE 0)

\* The outbox holds an answer to a message, whoever of its deliveries caused it.
Answered(j) ==
    \/ Row(AcceptingTopic[j.op], j.errand) > 0
    \/ [topic |-> RejectingTopic[j.op], errand |-> j.errand] \in rejected

\* A private endpoint makes the change that a message asks for.
SameChange(j, request) ==
    /\ request.errand = j.errand
    /\ \/ /\ j.op = "order.created" /\ request.op = "POST hold"
          /\ request.user = j.user /\ request.amount = j.amount
       \/ j.op = "order.accepted" /\ request.op = "POST hold" /\ request.supplier = j.user
       \/ j.op = "order.completed" /\ request.op = "POST released"
       \/ j.op = "order.cancelled" /\ request.op = "POST refunded"

\* The change is in the ledger already, possibly by a request: whichever came first, a
\* message that finds it there is silent.
MadeByRequest(j) ==
    LET row == hold[j.errand] IN
    /\ \E request \in Requests : SameChange(j, request)
    /\ row # NoHold
    /\ (IF j.op = "order.created" THEN ExistingHoldOutcome(j, row) ELSE RowOutcome(j, row)) = "SILENT"

\* Every message about an errand is answered in the end, over crashes, lost channels and
\* failed lookups: a handler that fails requeues its message, and a repetition is silent
\* only when the answer is already in the outbox (queue/impl/orderCreated.ts and the like).
\* The exception: where a private endpoint may make the very same change, the message may
\* find it made and be silent, and the endpoint announces nothing either.
EveryMessageAnswered ==
    \A j \in {d \in Deliveries : d.op \in MoneyOps} :
        j \in ready ~> Answered(j) \/ MadeByRequest(j)
=============================================================================
