# A TLA+ model of CampusGo

CampusGo lets a student (the *requester*) pay another one (the *courier*) in credits for
carrying something across campus.  The bounty of an errand is kept by one service, the errand
itself by another, and the two only talk through a message broker; users, suppliers and the
web frontend are around them.  This directory models all of these, checks the models with TLC
and proves the central facts with TLAPS.  File names below are relative to `src/`.

1. The system and its hard parts
2. The modules, and how they correspond to the code
3. What is assumed of the parts that are not this repository's code
4. The runs: what each asks, its bounds, its fairness
5. The proofs
6. Where code and promise differ
7. What is not modelled

## 1. The system

| Component | State | Operations | Talks to |
|---|---|---|---|
| Credit service, ledger (`credit-service/src/services/credits.ts`, `controller/credits.ts`) | tables `UserCredits` (balance per user) and `CreditsOnHold` (requestor, courier, amount, HELD/RELEASED/REFUNDED per errand) | open an account with 100 credits, place a hold, record the courier, release, refund; the same three money operations again as private HTTP endpoints | consumes `order.*` and `user.registered`; asks the user service by RPC whether a user exists; answers `credits.*` through its outbox |
| Credit service, queues (`queue/provider.ts`, `queue/transientReplyQueue.ts`, `queue/impl/*.ts`, `queue/outboxWorker.ts`) | connection, pending RPCs, outbox rows with retry counts | consume with acknowledgement after the commit, requeue on failure; look users up with a timeout; relay the outbox, give a row up after five attempts | RabbitMQ |
| Order service, lifecycle (`order-service/src/controller/order.ts`, `prisma/orders.ts`) | table `orders` (status, requester, courier, bounty, deadline, idempotency key) | create, accept, collect, deliver, cancel; expire what is due, on every request and once a minute | supplier service over HTTP, its outbox |
| Order service, messaging (`rabbitmq/client.ts`, `rabbitmq/outbox.ts`, `prisma/outbox.ts`) | channel, outbox rows | publish `order.*` and retry for ever; handle `credits.*`: open, reject, undo an accept, ask for the refund of an orphaned hold | RabbitMQ |
| User service, accounts (`user-service/src/controller`, `prisma/roles.ts`) | users, suspension, role rows, admin invites; tokens in the hands of clients | register, sign in, refresh, change roles, suspend, redeem an invite | HTTP, its outbox |
| User service, queues (`user-service/src/queue`, `index.ts`) | connection, relay, RPC consumer, unacknowledged queries | start and stop the workers with the connection; answer "does this user exist" | RabbitMQ |
| Supplier service (`supplier-service/src`) | suppliers, buildings | create, edit and delete (softly) both; seed | HTTP |
| Frontend (`frontend/src`) | tokens, credit store, the state of each page | sign in and out, refresh tokens once for parallel requests, poll, submit, act on an errand | HTTP |
| Gateway, edge, observability | configuration | route, rate-limit, trace | - |

### How they interact

    requester: POST /orders ......... order PENDING ---- order.created ---> hold placed
                                      order OPEN    <--- credits.held ----- (or credits.hold.rejected: REJECTED)
    courier:   PATCH ACCEPTED ....... order ACCEPTED --- order.accepted --> courier recorded
                                      order OPEN    <--- credits.accepted.rejected (courier unknown)
    courier:   PATCH COLLECTED, DELIVERED ... --------- order.completed --> hold RELEASED, courier paid
    requester: PATCH CANCELLED, or the deadline -------- order.cancelled --> hold REFUNDED

Every arrow is an outbox row written in the transaction of the change it announces, relayed at
least once, into a queue of its own per kind of message, and requeued when its handler fails.
Before the ledger opens an account it asks the user service over the queue `user.rpc`.

### What is hard

* Ten deliveries of each queue are handled at the same time, several of them of one errand or
  one user; correctness rests on which rows are locked and which are only read.
* Messages repeat (a crash between commit and acknowledgement, a channel that closes during
  handling, a relay that dies after publishing) and overtake each other (separate queues,
  requeued failures).
* A request judges the row it read and updates a row that may have changed since: in the order,
  the user and the supplier service.
* A reply says which errand it is about, but not which courier.
* Deadlines pass between the read and the update.
* Replies may be lost for good: five failed publications, or a dead-lettered message.
* Connections and channels close in the middle of a publication, a lookup or an acknowledgement,
  and handlers outlive the channel they got their message from.
* Tokens say what their bearer was entitled to when they were issued.
* In the browser, answers arrive after the page, the tab's user or the question have changed.

`PROJECT.json` lists these hazards at their lines with the properties that watch them.

### What makes each part correct

* Ledger: no account is overdrawn, credits are conserved, a hold is settled at most once, and
  whoever a hold may have to pay can be paid; handlers are atomic although they interleave;
  every message is answered unless a private endpoint had made its change, every change announced
  once.
* Orders: an errand follows the arrows of its lifecycle, no courier's step succeeds after its
  deadline (opening it, undoing an accept, cancelling and expiring it may), steps are made by the
  party entitled to them, one idempotency key makes one order, clients are told the truth, and the
  outbox asks for exactly the payment or refund the status calls for.
* Both: an active errand is funded; only delivered errands are paid; only errands that ended
  otherwise are refunded, and all of these are.
* Outboxes: a row is delivered, again only after a fault; a service finds back to work after
  any sequence of disconnections.
* Lookups: an answer is true, a call ends, a query leaves its queue.
* Accounts: rights that were taken away are gone in the end; an invite makes one admin at a time.
* Catalogue: edits of different fields do not undo each other, names stay unique, what was
  deleted stays deleted.
* Frontend: pages without tokens are left, no call or button hangs, no stale list or balance
  stays, the end of an errand is shown, a repeated submission makes no second errand.

## 2. The modules

| Module | What it is |
|---|---|
| `CreditLedger` | *Abstract.* The two tables of the credit service and the five atomic changes they may undergo, with what the ledger promises. |
| `CreditTransactions` | *Detailed.* The consumers and private endpoints of the credit service: every row lock, unlocked read, insert, RPC, commit and acknowledgement is a step of a worker. Implements `CreditLedger`. |
| `OrderLifecycle` | *Abstract.* The `orders` table and its outbox, one atomic step per conditional UPDATE. |
| `OrderService` | *Detailed.* `createOrder`, `updateOrderStatus` and the reply consumer, with a step per database statement. Implements `OrderLifecycle`. |
| `ErrandSystem` | *Composition.* `OrderLifecycle` and an instance of `CreditLedger`, joined by messages that repeat, overtake each other and may be lost. |
| `OutboxDelivery` | *Abstract.* What an outbox promises: rows wait, copies arrive, a row is sent or, in some services, abandoned. |
| `OutboxRelay` | *Detailed.* The relays of several processes over one table, their transactions, connections and the tasks that start and stop them. Implements `OutboxDelivery` through `INSTANCE ... WITH`. |
| `Lookups` | The RPC between credit and user service: client, queues, server, acknowledgements. |
| `UserAccounts` | Accounts, suspension, the admin role, invites and tokens, with a step per database statement. |
| `SupplierCatalog` | Suppliers and buildings, the requests of several admins a step per statement, the dialogs that send them and the seed task. |
| `WebSession` | One browser tab: tokens, the HTTP client that refreshes them, the router's guard and its watcher, the credit store. |
| `WebPages` | One user's list pages, request form and errand page against a service that answers late. |
| `CreditTransactionsProofs` | The theorems about `CreditLedger` and `CreditTransactions`. |
| `OrderServiceProofs` | The theorems about `OrderLifecycle` and `OrderService`. |
| `ErrandSystemProofs`, `OutboxRelayProofs`, `LookupsProofs`, `UserAccountsProofs`, `SupplierCatalogProofs` | The theorems about the module of that name. |
| `WebProofs` | The theorems about `WebSession` and `WebPages`. |
| `MC*` | Instances for TLC: the messages and calls of each run, plans and symmetries; `MCInvites` adds a record of the codes redeemed. |

`CreditTransactions` and `OrderService` extend their abstract modules and share their variables,
so the refinement mapping is the identity and "implements" is the abstract specification as a
property.  The composition can then be built from the abstract modules: its steps are those the
detailed handlers were shown to make.  `OutboxRelay` has tables and transactions of its own; its
mapping takes the rows by status to the sets of `OutboxDelivery`.  What `ErrandSystem` assumes of
messages (any number of copies, in any order, order events never lost, replies perhaps) is what
`OutboxDelivery` allows; what `CreditTransactions` assumes of a lookup (a true answer or a
failure, in the end) is what `Lookups` shows.

### CreditTransactions and the credit service

`account`, `balance` and `hold` are the committed rows.  `pc[w]` and `txn[w]` are the position
and the local variables of one delivery or request; `userLock` and `holdLock` are the row locks
of `SELECT ... FOR UPDATE`, `holdLock` also that of a key being inserted.

| Step | Code |
|---|---|
| `Deliver`, `Serve` | a consumer gets a message (`queue/impl/*.ts`), an endpoint a request (`controller/credits.ts`); for a settlement also the unlocked read of `resolveHoldCreditAccount` |
| `Resolve`, `LookupAnswered`, `LookupFails`, `EnsureAccount` | `resolveCreditAccount`: read, RPC, insert on conflict do nothing |
| `LockRequestor`, `ReadHold`, `InsertHold`, `InsertConflicts` | `ensureCreditsHeld`, `createTransaction` |
| `LockHold`, `ReadCourier`, `LockPayee` | `ensureCreditsAccepted`, `ensureCreditsReleased`, `ensureCreditsRefunded`, `releaseCredits`, `refundCredits` |
| `Commit`, `Settle` | the writes become visible with the outbox rows; then the acknowledgement or the response |
| `Fail`, `Crash`, `Arrive` | requeue after an exception; the process dies; a publication, a repetition, or a message the broker takes back while its handler carries on |

What a transaction writes is computed from what it *read* (`seen`, `row`), not from the current
tables: a missing lock shows up as a lost update.  The endpoints differ from the messages in
what a repetition leads to (409 instead of silence) and in writing no outbox row; their private
routes are modelled although no service calls them today.  Formats of messages, malformed
payloads (dead-lettered before any of this) and telemetry are left out.

### OrderService and the order service

`order`, `orderOutbox` and `key` are the committed rows; `overdue` is the set of orders whose
`expiresAt` has passed.  `pc`, `task`, `seen` and `answer` belong to one request or reply.

| Step | Code |
|---|---|
| `BeginCreate`, `LookupKey`, `PlacesRefused`, `InsertOrder`, `InsertFails`, `LookupAgain` | `createOrder`, with its catch branch |
| `BeginUpdate`, `ReadOrder`, `UpdateOrder`, `UpdateMissed`, `Recheck` | `updateOrderStatus`: expire, read and judge, conditional UPDATE, and the second look of a delivery |
| `OnHeld`, `ReadOrphan`, `AskRefund`, `OnHoldRejected`, `OnAcceptRejected` | `handleIncomingMessage` |
| `ExpiryJob`, `Deadline`, `Crash` | the interval of `index.ts`, time, a restart |

`Judge` is the table of early returns of `updateOrderStatus` with their status codes.  What the
credit service answers is external to this module: any answer it can have given, at any time,
any number of times.  Names of places, texts and paging are left out; the supplier service is
the choice between an accepted and a refused place.

### ErrandSystem

One action per message handler on either side, in the atomic grain that the two detailed modules
justify.  `orderOutbox` and `replies` stand for outbox, broker and queue together: a *set* of
messages without order; a handled message stays or goes, so it may be handled any number of
times; `LoseReply` removes a reply about an errand of `LossyErrands` for good.  Order events are
never lost, because the order service's relay retries for ever and the credit service requeues
what fails.

### OutboxRelay and the relays

`row` is the outbox tables, `tx[p]` the open transaction of a process (its locked rows and what
it will commit for those already tried; `alive` says whether the database still has it), `pc[p]`
its loop, `link[p]` its connection, `copies` what the receiving queues took.

| Step | Code |
|---|---|
| `Enqueue`, `Due` | the insert in the transaction of a change; `nextRetryAt` |
| `Fetch`, `Publish`, `Confirm`, `Commit` | `relayOnce` of the order service (`rabbitmq/outbox.ts`, `prisma/outbox.ts`), `relayOnce` and `relayRow` of the user service's `queue/outboxWorker.ts`: `FOR UPDATE SKIP LOCKED`, publication row by row, the marks, the commit |
| `DbFails` | a transaction the database ends, at once or while the relay awaits the broker |
| `OrderConnects`, `OrderDisconnects` | `connectRabbitMQ` and its close handlers; `"deaf"` is a process whose channel has closed while its connection stays |
| `UserConnects`, `UserDisconnects` | `queue/provider.ts`: `handleDisconnect`, `scheduleReconnect` |
| `StartWorkers`, `Consume`, `BackoffOver`, `Stopped` | `startQueueTasks` of `user-service/src/index.ts` |
| `CreditStarts`, `Crash` | the credit service declares its queues; a process is restarted |

The order service publishes with `mandatory` and never gives up; the user service drops what no
queue is bound for and gives up after `MaxRetries`.  The credit service runs a copy of the user
service's relay and provider, so definitions about shared code are mapped to one copy or the
other.

### Lookups and the RPC

`call` is `pendingTasks` with what became of each call, `replyQueue` the exclusive queue of the
current channel, `queries` and `unacked` the broker's view of `user.rpc`, `handlers` the
dispatches under way in the user service.

| Step | Code |
|---|---|
| `CreditConnects`, `CreditDisconnects` | `defaultChannelSetup`, `handleDisconnect` of `transientReplyQueue.ts` |
| `Call`, `Timeout`, `Receive` | `call`, its timer, `replyCb` and `userExists` of `queue/impl/rpc.ts` |
| `Expire` | the query's `expiration` |
| `Dispatch`, `LookUp`, `Ack` | `dispatchMessage` of `queue/rpc/router.ts`, `checkUserExists`, `replyToRpcCaller`; the acknowledgement on the channel of the moment, with the tag of the old one |
| `ServerConnects`, `ServerDisconnects` | the user service's provider; the broker makes unacknowledged queries ready again |

### UserAccounts and the user service

`adminRow[u]` is the row of `userRole` that makes `u` an admin, or none: its value is the row's
`sourceInviteId`, the only mark that a code was used.  `access` is the set of unexpired access
tokens, `refresh` the users who hold a refresh token, `req` the requests with what they have read.

| Step | Code |
|---|---|
| `Register`, `Login`, `Refresh`, `Issue` | `controller/user.ts`, `controller/auth.ts`, `util/jwt.ts`: the account is read, the password compared, the tokens signed |
| `BeginChange`, `Change` | `updateUserRole`, `updateUserSuspension`: judged by the token (`middleware/auth.ts`), then one statement (`assignRoles`, `removeRoles`) |
| `GenerateInvite`, `ReadInvite`, `CheckInvite`, `InsertRow` | the invite endpoints and `assignAdminByInvite`: the read of the code, the `NOT EXISTS` of the insert, the key and the unique column |
| `AccessExpires`, `InviteExpires` | time |

Passwords, profile fields and the lists are left out; none of these steps depends on them.

### SupplierCatalog and the supplier service

`suppliers` and `places` are the two tables, `dialog[a]` the dialog of an admin and then the
request it sent, with the form's original and the patch.  `edited` is bookkeeping for
`EditsKept`: what was last asked of each field by somebody who edited that field.

| Step | Code |
|---|---|
| `StartCreate`, `OpenForm`, `Save`, `StartDelete`, `StartDeletePlace` | `SupplierFormDialog.vue` (`changedFields`) and the delete dialogs |
| `FindSupplier`, `FindPlace`, `FindName` | the reads of `createSupplier`, `updateSupplier` and `deleteSupplier` |
| `CreateSupplier`, `UpdateSupplier`, `DeleteSupplier` | their INSERT and UPDATE, with the constraints of `prisma/contract.prisma` |
| `CreateLocation`, `FindLocation`, `FindUsers`, `DeleteLocation` | `controller/location.ts` |
| `Seed` | a record of `tasks/seedSuppliers.ts`, in its transaction |

The descriptive columns behave like the name and are represented by it.  Images are left out.

### WebSession, WebPages and the frontend

`WebSession` keeps whose tokens are stored and whether the access token is valid, the refreshes
under way, the calls, whether a page behind the login page is open, whether the router has been
told to leave it (`leaving`), and the credit store.

| Step | Code |
|---|---|
| `Login`, `Logout`, `Visit` | `stores/auth.ts`, `auth/tokenStorage.ts`, the guard of `router/index.ts` |
| `Watched`, in every step that clears tokens; `Leave` | the watcher on `isAuthenticated`, which hears of changes only and only while a page that needs tokens is shown; later the router, whose guard looks at the tokens again |
| `StartCall`, `Accepted`, `CallRefused`, `ConnectionLost` | the interceptors of `api/http.ts`: one repetition after a 401, one refresh for all |
| `Refreshed`, `RefreshFailed`, `InviteRefresh` | `tryRefreshToken`, `refreshOnce`; the refresh of `AdminInviteForm.vue`, outside the shared one |
| `LoadCredits` | `stores/credit.ts` and the timer of the navigation bar |
| `Expire`, `Suspend` | time, and the user service's refusal |

`WebPages` keeps the mounted page, the requests under way (a `gone` one belongs to a page
that was left), and what the order service has.  A request is handled at one step and answered
at a later one.  `view.address` is the errand in the URL and `view.order` the one that is shown:
from one errand to another the component stays, with its requests, its button and its timer, and
the two may differ.  The router opens pages within one step here: the pages are imported
statically (`router/index.ts:11-21`), so nothing else runs between its guard and the new page.

| Step | Code |
|---|---|
| `Navigate`, `OpenErrand`, `Open` | the links, the history, `watch(route.params.id)` of `errand.vue` |
| `ChangeQuery`, `ReloadList`, `ListAnswered` | the lists (`my-errands.vue`, `open-errands.vue`, `suppliers.vue`, `admin-user.vue`): tab, filter, page number, reload, `latest` |
| `ChangeSearch`, `SearchTimer` | the search of `suppliers.vue`, which loads only 300 ms after the last change; till then `list.typing`: old requests are still the latest and are taken |
| `Submit`, `ResetForm`, `CreateAnswered`, `Lost` | `request-errand.vue` with its `Idempotency-Key` |
| `Refresh`, `ExpiryReload`, `ConfirmAction`, `GetAnswered`, `UpdateAnswered`, `Lost` | `errand.vue`: polling, the timer of the deadline, the viewer's steps |
| `CreateServed`, `GetServed`, `UpdateServed`, `OthersAct` | the order service, as `OrderService` answers |

Validation, texts, templates and the profile page are left out.

## 3. Assumptions about the environment

* PostgreSQL at READ COMMITTED.  A plain read sees committed rows; `FOR UPDATE` waits for the
  lock and returns the current row, `SKIP LOCKED` leaves locked rows out; an insert waits for an
  uncommitted insert of the same key and then fails on it; an UPDATE with a WHERE clause is
  atomic; a transaction that failed or died leaves nothing behind.
* SQL's `now()` is the start of the statement's transaction.  `OrderService` judges the deadline
  when the UPDATE happens; a step that starts just before the deadline and waits for a row lock may
  succeed a moment after it.
* The tables of order and credit service have no foreign keys to users, so only the checks in the
  code relate them.
* RabbitMQ redelivers what was not acknowledged, possibly while the old handler still runs, and
  keeps no order between queues or with requeued messages.  A confirmed `mandatory` message that
  was not returned is in a queue.  An exclusive queue dies with its connection.  A delivery tag
  means something on its channel only, and an unknown one closes the channel.
* In `CreditTransactions` the user service answers a lookup truthfully or not at all, which
  `Lookups` shows; `Registered` is the set of users it knows, fixed in a run.  A lookup of a null
  user id is malformed and refused.
* A user the order service lets accept may be unknown to the user service: the reply handler of
  `rabbitmq/client.ts:200-214` is written for that.  The application itself never deletes users.

## 4. The runs

Each constant that bounds anything is named here.  Two or three workers suffice because all
coordination in the code is pairwise: a lock or a conditional UPDATE orders two transactions on
one row.  Where one run asks its question of several instances, its MC module has a variable
`plan`, chosen at the start and never changed, that says which inputs there are; `WithinPlan`
restricts the steps to them.  So each instance stays small and every property is asked of all.
A plan never holds back a step that fairness asks for: inputs that are not in it are never offered.

| Run (module) | Question | Bounds | Finds |
|---|---|---|---|
| `credit_ledger` (`MCCreditTransactions`) | Is every interleaving of the handlers an atomic change of the ledger, without lost updates, deadlocks or repeated announcements? | plans: one errand with two couriers, one unknown (5 messages, 3 workers); two errands of a requester who can pay for one, a refund and a payout (6 messages, 2 workers, a crash); the private endpoints against the messages (2 messages, 5 requests, 2 workers); a requester nobody knows (2 workers). Messages repeat without bound, lookups may fail, `MaxRows` = 2 (a second row of an event already violates the property) | holds |
| `credit_answers` (`MCCreditAnswers`) | Is every message answered in the end, unless an endpoint had made its change? | 2 workers, lookups that fail; plans: an errand and its courier, with a crash; an errand that is paid out while a request places a rival hold; an errand whose hold a request may place first | holds |
| `order_requests` (`MCOrderService`) | Do requester, two couriers, the deadline, replies and crashes race on an order without harm, and does a key make one order? | plans: one errand, all steps by right and wrong parties (3 workers); an accept that is undone and the next courier's (2 workers); retries with a key two requesters share (2 workers, 2 orders) | holds |
| `system` (`MCErrandSystem`) | Is every active errand funded, does money move only for the right status, and does it move in the end? | plans: one errand whose replies may be lost, between 3 users of whom the user service knows 2; two errands of one requester with credits for one, replies not lost. One bounty of 2, `InitialBalance` = 2 | holds |
| `outbox_relay` (`MCOutboxRelay`) | Are rows delivered as an outbox promises, once unless a fault intervenes, and do the services recover? | a row of each kind, 2 order processes, 1 user process, `MaxRetries` = 2, `MaxFaults` = 3, one process may lose its channel alone | holds |
| `user_service` (`MCUserService`) | Do lost rights fade? Are the answers to lookups true, does every call end and every query leave? | plans: accounts (2 users, 1 invite, 2 requests); lookups (2 calls about 1 user, `MaxPending` = 1, so that the second may be refused, `MaxFaults` = 1), made in the order of their numbers | holds |
| `catalog` (`MCSupplierCatalog`) | Are edits kept, is the catalogue consistent, do deletions last? | 2 admins, 2 names, 2 buildings, 2 suppliers | holds |
| `web` (`MCWeb`) | Are pages without tokens left, do calls end, does a user see their own balance? Do lists, form and errand page come to show the truth? | plans: the session (2 users who share a tab, a call and the credit store's, both refreshes, `MaxFailures` = 2); and the pages, with 2 requests under way and `MaxFaults` = 1: a list (3 queries, two of them pages of one search), the form (2 drafts, `MaxKeys` = 1), the page of one errand as requester or courier, the pages of two errands, one opened by a late creation | holds |
| `system_pending_forever` (`ErrandSystem`) | Does every order leave PENDING? | 2 users, 1 errand, replies may be lost | violated |
| `system_unpaid_courier` (`ErrandSystem`) | Is the courier of every delivered errand paid? | 2 users, 1 errand, no message lost | violated |
| `invite_used_twice` (`MCInvites`) | Is a code good for one redemption? | 2 users, 1 invite, 1 request at a time | violated |
| `store_in_deleted_building` (`SupplierCatalog`) | Is no supplier created in a deleted building? | 2 admins, 1 name, 1 building, 1 supplier | violated |

In `credit_ledger` every message is ready all the time (`AlwaysReady`).  Since `Arrive` may bring
any message back at any moment, nothing but the variable `ready` can tell the difference, and the
state space shrinks by the number of subsets of messages.  `credit_answers` keeps the real queue.

Symmetry over workers, admins, names and buildings is used where no property tells them apart and
none is a liveness property.  The deadlock check is on for the two services whose handlers lock
(`credit_ledger`, `credit_answers`, `order_requests`).  Elsewhere it is off, because a system
whose users do nothing more, whose rows are all sent and whose faults are used up may stop.

Faults are counted because an unbounded number of them refutes every "in the end".  A bound of
two or three lets a fault hit the recovery from another one.

### Fairness

* `CreditTransactions!Fairness`.  A worker's steps are strongly fair because PostgreSQL grants a
  row lock in the order of requests, so a waiting handler is not passed over for ever;
  deliveries because RabbitMQ hands out what is ready to a consumer with room; an answered
  lookup because the handler that failed is requeued and asks again, and the user service is
  assumed not to be down for ever.  `Arrive`, `Serve`, `LookupFails` and `Crash` are not fair.
* `ErrandSystem!Fairness`: the handling of each message by itself (its queue is served, and a
  repetition of one message does not stand for another), the opening of an account of a user the
  user service knows, and the expiry job (`index.ts:49-53` runs it every minute).  Users owe
  nobody a step.  A reply that may be lost is fair only while it is there.
* `OutboxRelay!FairSpec`: timers fire, the relay's loop goes on, the broker confirms, the
  connection loops retry for ever, `startQueueTasks` goes round, and the credit service starts
  at some time.
* `Lookups!LookupsFairness`: timers fire, both connection loops retry, the broker hands out or
  expires a query and hands out a reply, handlers go on.
* `UserAccounts!Fairness`: a request that has begun is served and access tokens expire.  Nobody
  has to sign in or refresh.
* `WebSession!SessionFairness` and `WebPages!Fairness`: a request and a refresh is answered,
  refused or fails, the router does what it was told, and the interval timers of the navigation bar
  and of the errand page run, for which the tab must be visible.  Users need not click or type, and
  even the search timer is owed nothing: no property waits for it.

### What the properties say

The comment over each definition states it and names the code.  The ones to read first:
`ImplementsLedger` and `ImplementsLifecycle` (what was read is still true when it is used, or does
not matter), `EveryMessageAnswered` (a repetition may be silent only because its answer exists or
because a private endpoint made the change), `AnswersMatchOrder` (the 200, 409 and 410 of
`controller/order.ts`), `OneOrderPerKey`, `ActiveIsFunded`, `CancelledIsRefunded`,
`OneCopyPerFault` and `RowsSettle` (relays side by side, under faults), `QueriesLeave`
(acknowledging on the wrong channel heals), `LostRightsFade`, `EditsKept` and `BalanceCatchesUp`.

Some of them carry a condition, and most conditions are a weakness of the code:

* `MadeByParty` holds unless an accept of the errand is refused: the request compares its caller
  with the courier it read, the UPDATE of `controller/order.ts:310` only the status, so a
  courier's collecting can hit the next courier's accept.
* `RowsSettle` holds for the order service unless a process stays deaf: section 6.
* `EveryMessageAnswered` excepts a message whose change a private endpoint has made: section 6.
* `ListMatchesQuery` excepts the moment after a search was typed, `EndIsShown` is about the
  errand that is shown unless no answer about another one is under way: section 6.
* `BalanceCatchesUp` asks that from some time on no access token expires, so that calls are not all
  overtaken by it, and the timer needs a visible tab.

Each property has a mutant in `PROJECT.json`: a definition in the model changed the way a bug
would change the code (a lock left out, a guard dropped, an event forgotten), under which the run
fails.  The mutants stand beside the definitions they replace, marked `Mutant`, or are definitions
of the code with another meaning (`LoadedOrStuck` beside `Loaded`).

## 5. The proofs

Every safety invariant and every action property or refinement that holds in a run is also a
theorem, for any sets of users, errands, processes, calls, requests and so on, and any number of
steps and faults.  The theorems assume only the named `ASSUME`s of the modules:

* the sentinels (`NoUser`, `NoWorker`, `Nobody`, `None` ...) are not values, bounds are natural
  numbers, a bounty is a positive integer and a new account is not overdrawn;
* the tables of users and errands are finite, since `CreditsConserved` adds up their rows;
* a message or request of `CreditTransactions` is one the service has a consumer or an endpoint
  for (`Topics`, `Endpoints`) and has the fields the validation demands; an `order.created` names no
  supplier, because `queue/impl/orderCreated.ts` reads none from it.

**`CreditTransactionsProofs`.**  *Part 1* is about the abstract ledger.  `LedgerInv` is the
conjunction of `LedgerTypeOK`, `NoOverdraft` and `PayeesHaveAccounts`.  The parts need each other:
a payout keeps a balance non-negative because the amount is that of a well-typed hold, and a
well-typed balance function needs the payee to be a user with an account, which needs that accounts
are never closed.  `LedgerStepInv` splits on the five actions.  Results: `LedgerTypes`,
`NeverOverdrawn`, `PayeesPayable` and the action property `NeverSettledTwice`.

*Part 2* adds `CreditsConserved`, which equates sums over a table.  What the
recursion of `MapThenSumSet` computes is only known by induction, and the library's induction
theorems take an operator the provers cannot instantiate.  So the proof has its own sum:
`AddsUp` says what it is for a function `it` to add up `g` over the subsets of a set, one picked
element at a time, and `Total` is its value.  That such a function exists, and that changing one
value of `g` changes the total by the difference (`TotalChange`), is shown by taking a smallest
counterexample: `NatSets` turns the library's well-foundedness of < into a statement about sets of
naturals, here of cardinalities.  `SumsAreTotals` shows that this sum is the one the property
speaks of.  The inductive invariant `ConservationInv` adds that a user without an account has no
credits, or opening one would lose them.  Result: `NoCreditMadeOrLost`.

*Part 3* is about the handlers.  `TransactionInv` says, for each worker and each point of its
handler, which row locks it holds, and no others (`LocksOK`), and which of the things it read are
still true: the requester's balance and that they can pay (`RequestorRead`), the key it is inserting
(`KeyReserved`), the hold and the decision made from it (`HoldRead`), the courier's account
(`CourierRead`), the payee's balance (`PayeeRead`).  `CommitIsStep` uses this to show that a commit,
which writes values computed from what was read, is one atomic step of the ledger.  The other half
is that nobody disturbs it: a commit writes only rows its worker has locked (`CommitWritesLocked`),
and each read of another worker is of a row that worker has locked (`OthersKept`).  The results of
parts 1 and 2 carry over through the refinement.  `NoCircle` starts from a set of workers who wait
only for each other: none is at its commit; so nobody waits for a key being inserted, because
whoever inserts it is; so nobody there has a user's account locked; so all wait for their first
lock and hold none.  Results: `TransactionTypes`, `TransactionsImplementLedger`,
`HandlersNeverOverdraw`, `HandlersFindPayees`, `HandlersConserveCredits`, `HandlersSettleOnce`,
`EachChangeAnnouncedOnce` and `LocksMakeNoCircle`.

**`OrderServiceProofs`.**  *Part 1* is about the abstract lifecycle.  `LifecycleInv` is the
conjunction of `LifecycleTypeOK`, `CourierMatchesStatus` and `EventsMatchStatus`.
`EventsMatchStatus` alone is not inductive: that a courier's `order.accepted` stays in the outbox
needs the courier to change only through OPEN, where `CourierMatchesStatus` says there is none.
`RowChange` says what a change of one row has to leave behind; `TransitionInv` makes that a
statement about the conditional UPDATE, of which open, reject, accept, undo, collect, deliver and
cancel are instances; `ExpireDueInv` treats the one UPDATE over many rows.  Results:
`LifecycleTypes`, `CouriersMatch`, `EventsMatch` and the action property `LifecycleFollowed`.

*Part 2* is about the requests.  No lock is held between the read of an order and the UPDATE, so
much of what was read may be out of date; `ServiceInv` says what is not.  At the UPDATE
(`StillJudged`) the order is still the same requester's; for a delivery it is collected or past
it; and unless an accept was undone, the courier who may collect or deliver is still the one that
was read.  A delivery that found no row (`StillMissed`) will never find one.  What a client was told
(`StillAnswered`, `StillCreated`) stays true because the statuses concerned are final, and
`KeysUnique` rests on the unique index, not on the lookup before the insert.  `OrderSteps` lists
what a step may do to an order, `JudgedKept` and `PastDeliveryKept` show that it keeps what others
rely on.  Results: `ServiceTypes`, `ServiceImplementsLifecycle`, `ServiceEventsMatch`,
`ServiceCouriersMatch`, `AnswersStayTrue`, `KeysMakeOneOrder`, and the action properties
`NothingLate` and `StepsByParty`.

**`ErrandSystemProofs`.**  `ActiveIsFunded` relates the tables of two services that never
change together: an order opens because of a reply and a hold is settled because of a message, each
possibly long after it was sent.  The invariant `SystemInv` therefore says what is true of
everything under way: an `order.created` carries the terms of its order, an `order.completed` or
`order.cancelled` is about an order that has ended that way (`MessagesFit`), and the hold of a
`credits.held` was placed (`RepliesFit`).  With the terms of a hold being those of its order
(`HoldsFit`) and a hold being settled only as its order ended (`PaidIsDelivered`,
`RefundedOnlyIfOver`) it is inductive: a pending order whose hold was placed cannot have been
settled, so it opens on a live hold, and a live hold is settled only by a message about an order
that is no longer active and never will be again.  `OrderStep` and `LedgerStep` say what a step of
either service has to respect; every action is an instance of one of them.  Nothing is assumed
about the order of messages, how often they are repeated, or which replies are lost.  Results:
`SystemTyped`, `ActiveFunded`, `RefundedOver`, `PaidOnlyDelivered`, and that each half of the
composition is a behaviour of its own abstract module: `SystemKeepsLedger`, `SystemKeepsLifecycle`.

**`OutboxRelayProofs`.**  The relays implement `OutboxDelivery`.  A commit must find each row as
the relay fetched it: a row in a living transaction is PENDING (`RowsHeld`) and in no other living
one (`Exclusive`, from SKIP LOCKED).  That a transaction may be dead is the difficulty: the
database has released its rows, another relay may have settled them, and only because its relay
is still waiting for the broker (`Sound`) does it never commit.  `Arrived` says that an order row
is noted as sent only after a copy arrived, `RetriesLeft` that a row still waiting may be tried
again, and `Stands` that `startQueueTasks` never starts a second relay in a process.
`StepSimulates` then maps a message that gets through, by a confirmation or in spite of a fault,
to `Arrive`, a commit to one `Conclude` over the whole batch, and everything else but `Enqueue`
to a stutter.  `OneCopyPerFault` needs more: a fault may let a copy arrive only much later.
`CopiesCounted` therefore counts, with the copies of a row, what can still add one without another
fault: the row itself while it is open, and every relay that still waits for the broker over a
transaction the database has ended.  Together they are at most one more than the faults so far.
Results: `RelaysTyped`, `RelaysDeliver` and `OneCopyUnlessFault`.

**`LookupsProofs`.**  Follows a query through the queue, a delivery, a handler and a reply:
wherever it is, it is about the user its call asked for (`Genuine`), and what is on its way back
was true when it was read and has stayed so, because accounts are never deleted (`KnownStay`).
Acknowledgements that hit the wrong delivery do not matter to this.  The capacity needs that a
call is admitted only below it and that the set of waiting calls is finite.  Results:
`LookupsTyped`, `LookupsTruthful` and `WaitingBounded`.

**`UserAccountsProofs`.**  The condition a request checked before its insert plays no part; the
unique column does.  The strengthening `ChangesAreOfAccounts` is needed for the types: a request
acts later than it looked.  `InviteMakesOneAdmin` is about one moment, since one code can make
several admins one after the other (section 6).  Results: `AccountsTyped` and
`InviteMakesOneAdmin`.

**`SupplierCatalogProofs`.**  Again no check is used: between a check and its write the tables
may change.  What carries the proof is the shape of a request (`Shape`: a patch holds the fields
that were edited, and never the mark of a deletion), that rows are never removed, and the tables'
constraints.  Results: `EditsAreKept`, `CatalogStaysConsistent` and the action property
`DeletionsAreFinal`.

**`WebProofs`.**  `NothingForgotten` is the safety half of the session's liveness: what is still to
be done has somebody who will do it.  A page without tokens is about to be left, because whatever
clears tokens while a page is open tells the router, and the router forgets it only when it shows
the login page or finds tokens again; a call waits only for a refresh that is under way; the
credit store is loading exactly as long as its call goes on.  It needs that stored tokens are
somebody's (`TokensAreSomebodys`), or an expiry could turn them into no tokens and a refresh could
be started for nobody.  For the pages, `PagesInv` says that the key of a submission is that of its
draft wherever it is, in the form, in a request or with the order service (`KeysKept`), and that
the request a list is waiting for asks for what the list's query says unless a search is being
typed (`LatestKept`); the query may have been changed many times since older requests left, which
is why only the latest may be shown, and the timer of the search asks again.  Results:
`SessionTyped`, `SessionOwesNothing`, `PagesTyped`, `ListsMatchQueries` and `DraftsMakeOneOrder`.

**Only model-checked.**  The liveness properties: `EveryMessageAnswered`, `CancelledIsRefunded`,
`RecordedIsPaid`, `OrphanIsRefunded`, `AnsweredLeavesPending`, `RowsSettle`, `ServiceRecovers`,
`CallsSettle`, `QueriesLeave`, `LostRightsFade`, `PagesAreLeft`, `RequestsEnd`,
`BalanceCatchesUp`, `EndIsShown` and `ButtonsComeBack`.  They rest on fairness, hence on ENABLED,
which is out of the prover's reach. So is the claim of no deadlock as TLC checks it; of it
`LocksMakeNoCircle` is proved.

## 6. Where code and promise differ

* **An order can stay PENDING for ever** (`system_pending_forever`).  `config.ts:30-32` of the
  order service promises that an order without an answer is rejected, "so it can never stay
  stuck"; `rejectStalePendingOrders` would do it, but nothing calls it.  When the credit service's
  relay gives its reply up after five attempts, the order stays PENDING and the bounty on hold.
* **A delivered errand may never be paid** (`system_unpaid_courier`).  If `order.accepted` is
  requeued because its courier lookup failed, `order.completed` is handled first;
  `ensureCreditsReleased` finds no courier, answers COURIER_NOT_FOUND and acknowledges.  Nothing
  asks again, although the courier is recorded a moment later.

* **A single-use invite can be used again** (`invite_used_twice`).  `user-service/README.md:42`
  calls a code "single-use".  The only mark of its use is the role row of the admin it made, and
  removing the role deletes that row (`roles.ts:171`): the code makes an admin again until it
  expires.
* **A store can be created in a deleted building** (`store_in_deleted_building`).
  `supplier-service/README.md:114-117` says that every write runs in one transaction that locks the
  rows it depends on, and that a store can never be created at a landmark that is being deleted.
  There is no such transaction: either check (`supplier.ts:314`, `location.ts:61`) can come before
  the other request's write.

Observations made while modelling, which no run of their own shows:

* A repeated `credits.accepted.rejected` about a courier the user service does not know undoes
  the accept of the *next* courier (`rabbitmq/client.ts:205-214` cannot tell whose accept was
  refused).  The credit service has recorded that courier by then and will pay them, even if a
  third delivers; so `PaidOnlyIfDelivered` says that a paid errand was delivered, not by whom.
* An order process whose channel closes while its connection stays does not reconnect
  (`rabbitmq/client.ts:61`, `99`), yet goes on claiming rows it cannot publish.  While it holds
  them other processes skip them; it commits new delays for them and may starve the others.
* A message whose change a private endpoint has made first is answered with nothing: after a
  POSTed hold of the same requester and amount, `order.created` finds it and is silent
  (`services/credits.ts:63-76`), `createTransaction` writes no outbox row, and the order stays
  PENDING with its bounty on hold.  No service calls these endpoints today.
* The page of an errand that opens in the place of another errand's page may show the other errand
  for ever: a late answer about it is taken (`errand.vue:344`), and from then on the timer asks
  for the errand shown, not the one of the address (`errand.vue:390`).  A creation answered late
  does this (`request-errand.vue:451`), or the browser's history.  The user who stays there then
  does not see the errand's progress "without reloading", as the comment at `errand.vue:279` has it.
* For 300 ms after a search was typed, `suppliers.vue` shows the list of the search before, and
  takes an answer to it, without a sign that it is loading (`suppliers.vue:255-259`).
* A refresh that is answered after the logout stores tokens again (`http.ts:33`).
* The credit store shows the balance of whoever it was asked for (`stores/credit.ts:30`), which
  after a change of user is the previous one, until the next reload.
* `createTransaction` resolves an absent `supplierId` like any other id, the lookup is refused,
  and the private endpoint answers 500 (`controller/credits.ts:237`, `246`).

## 7. What is not modelled

* Gateway, edge proxy, telemetry: configuration, or without influence on the state.
* Malformed messages: dead-lettered before any step of the models.
* `close()` of the queue providers: nothing calls it before the process ends.
* List and detail endpoints of the services: reads.  What the pages make of their answers is in
  `WebPages`.
* Passwords, profile fields, user lists: none of the modelled steps depends on them.  Two races
  there are known and not covered: a password may be changed between the comparison of the old
  one and the write, and two admins who demote each other at the same moment leave no admin.
* Names are model values, so that the seed task compares names without regard to case, and the
  service does not, makes no difference in `SupplierCatalog`.
* The dialog that asks for a confirmation on the errand page (`pendingAction`, which stays open from
  one errand to the next) is one step with what it confirms; a search timer that runs on after
  its list was left sends a request whose answer nobody sees.
* Templates, validation texts and the profile page of the frontend; images and the descriptive
  columns of suppliers, which are written like the name.
* That a courier is paid for what they delivered is modelled up to the identity of the courier
  when an accept is undone; see section 6.
