------------------------------ MODULE Lookups ------------------------------
(***************************************************************************)
(* How the credit service asks the user service whether a user exists: an  *)
(* RPC over RabbitMQ.  A call publishes a query to the queue user.rpc and  *)
(* waits in pendingTasks of a reply queue that lives as long as the        *)
(* channel.  The user service handles queries side by side, replies to the *)
(* queue a query names and then acknowledges the query.                    *)
(*                                                                         *)
(* Replies may be late, repeated or meant for a queue that is gone; calls  *)
(* time out; either side may lose its connection; a handler of the user    *)
(* service outlives the channel it got its query from, and replies and     *)
(* acknowledges on the channel of the moment: the delivery tag then means  *)
(* another query there, or none, upon which the broker closes the channel. *)
(***************************************************************************)
EXTENDS Naturals, FiniteSets

CONSTANTS Calls,      \* calls that may be made, each once
          Sought,     \* the users that calls ask about
          MaxPending, \* calls that may wait at the same time
          MaxFaults   \* bound on lost connections and failed database reads

ASSUME LookupAssumption == Sought # {} /\ MaxPending \in Nat \ {0} /\ MaxFaults \in Nat

VARIABLES existing,   \* those of them that exist
          call,       \* what became of each call
          replyQueue, \* state of the reply queue, and which one it is
          declared,   \* whether the queue user.rpc exists
          queries,    \* those ready in user.rpc
          server,     \* the channel of the user service: up, number, deliveries made on it
          unacked,    \* the deliveries of that channel which await acknowledgement
          handlers,   \* dispatches under way in the user service
          replies,    \* messages in the reply queue
          faults

lookupVars == <<existing, call, replyQueue, declared, queries, server, unacked, handlers,
                replies, faults>>

Query == [call: Calls, user: Sought, replyTo: Nat]
Delivery == [query: Query, tag: Nat]
Bodies == {"exists", "missing", "DB_ERROR"}

LookupsTypeOK ==
    /\ existing \subseteq Sought
    /\ call \in [Calls -> [state: {"idle", "pending", "true", "false", "failed"},
                           user: Sought, known: BOOLEAN]]
    /\ replyQueue \in [state: {"none", "open", "suspended"}, number: Nat]
    /\ declared \in BOOLEAN
    /\ queries \subseteq Query
    /\ server \in [up: BOOLEAN, number: Nat, tags: Nat]
    /\ unacked \subseteq Delivery
    /\ handlers \subseteq [query: Query, tag: Nat, channel: Nat,
                           body: Bodies \cup {"none"}]
    /\ replies \subseteq [query: Query, body: Bodies]
    /\ faults \in 0..MaxFaults

\* `user` and `known` of an idle call mean nothing yet.
LookupsInit ==
    /\ existing = {}
    /\ call \in [Calls -> [state: {"idle"}, user: {CHOOSE u \in Sought : TRUE}, known: {FALSE}]]
    /\ replyQueue = [state |-> "none", number |-> 0]
    /\ declared = FALSE
    /\ queries = {} /\ unacked = {} /\ handlers = {} /\ replies = {}
    /\ server = [up |-> FALSE, number |-> 0, tags |-> 0]
    /\ faults = 0

Pending == {c \in Calls : call[c].state = "pending"}

UserRegisters(u) ==
    /\ u \notin existing
    /\ existing' = existing \cup {u}
    /\ UNCHANGED <<call, replyQueue, declared, queries, server, unacked, handlers, replies, faults>>

-----------------------------------------------------------------------------
(* The credit service *)

\* A new channel gets a new reply queue (defaultChannelSetup).
CreditConnects ==
    /\ replyQueue.state # "open"
    /\ replyQueue' = [state |-> "open", number |-> replyQueue.number + 1]
    /\ UNCHANGED <<existing, call, declared, queries, server, unacked, handlers, replies, faults>>

\* Without a queue to wait in, and beyond its capacity, a call fails at once.
Refused == replyQueue.state # "open" \/ Cardinality(Pending) >= MaxPending

Call(c, u) ==
    /\ call[c].state = "idle"
    /\ call' = [call EXCEPT ![c] = [state |-> IF Refused THEN "failed" ELSE "pending",
                                    user |-> u, known |-> ~Refused /\ u \in existing]]
    /\ queries' = IF Refused \/ ~declared THEN queries
                  ELSE queries \cup {[call |-> c, user |-> u, replyTo |-> replyQueue.number]}
    /\ UNCHANGED <<existing, replyQueue, declared, server, unacked, handlers, replies, faults>>

\* What was known when a call that failed was made is of no interest any more.
FailedCall(c) == [call[c] EXCEPT !.state = "failed", !.known = FALSE]

Timeout(c) ==
    /\ call[c].state = "pending"
    /\ call' = [call EXCEPT ![c] = FailedCall(c)]
    /\ UNCHANGED <<existing, replyQueue, declared, queries, server, unacked, handlers, replies,
                   faults>>

\* Mutant: the waiting calls lose their timers and their entries, and hear nothing.
PendingForgotten == [c \in Calls |-> IF call[c].state = "pending"
                                     THEN [call[c] EXCEPT !.state = "forgotten"] ELSE call[c]]

\* handleDisconnect rejects whatever waits.
PendingRejected == [c \in Calls |-> IF call[c].state = "pending"
                                    THEN FailedCall(c) ELSE call[c]]

\* The exclusive reply queue goes with its connection, and the replies in it too.
CreditDisconnects ==
    /\ replyQueue.state = "open"
    /\ faults < MaxFaults /\ faults' = faults + 1
    /\ replyQueue' = [replyQueue EXCEPT !.state = "suspended"]
    /\ call' = PendingRejected
    /\ replies' = {}
    /\ UNCHANGED <<existing, declared, queries, server, unacked, handlers>>

\* Mutant: any call about the user may be answered, not just the one that asked.
SameUser(c, q) == call[c].user = q.user

\* A reply belongs to the call whose correlationId it carries.
Matches(c, q) == c = q.call

\* userExists: an error must not be taken for a missing user.
Result(body) == CASE body = "exists"  -> "true"
                  [] body = "missing" -> "false"
                  [] OTHER            -> "failed"

\* replyCb: a reply nobody waits for is only acknowledged.
Receive(m) ==
    /\ replies' = replies \ {m}
    /\ \/ \E c \in Pending :
             /\ Matches(c, m.query)
             /\ call' = [call EXCEPT ![c].state = Result(m.body)]
       \/ /\ \A c \in Pending : ~Matches(c, m.query)
          /\ UNCHANGED call
    /\ UNCHANGED <<existing, replyQueue, declared, queries, server, unacked, handlers, faults>>

-----------------------------------------------------------------------------
(* The broker *)

\* A query that outlives its call's timeout is dropped (`expiration`).
Expire(q) ==
    /\ call[q.call].state # "pending"
    /\ queries' = queries \ {q}
    /\ UNCHANGED <<existing, call, replyQueue, declared, server, unacked, handlers, replies,
                   faults>>

\* The channel of the user service closes: what is unacknowledged is ready again, and a reply
\* whose confirmation is awaited counts as failed, which ends its handler.
ServerChannelCloses ==
    /\ server' = [server EXCEPT !.up = FALSE, !.tags = 0]
    /\ queries' = queries \cup {d.query : d \in unacked}
    /\ unacked' = {}

ServerDisconnects ==
    /\ server.up
    /\ faults < MaxFaults /\ faults' = faults + 1
    /\ ServerChannelCloses
    /\ handlers' = {h \in handlers : h.body = "none"}
    /\ UNCHANGED <<existing, call, replyQueue, declared, replies>>

-----------------------------------------------------------------------------
(* The user service *)

ServerConnects ==
    /\ ~server.up
    /\ declared' = TRUE
    /\ server' = [up |-> TRUE, number |-> server.number + 1, tags |-> 0]
    /\ UNCHANGED <<existing, call, replyQueue, queries, unacked, handlers, replies, faults>>

Dispatch(q) ==
    /\ server.up
    /\ LET tag == server.tags + 1 IN
       /\ server' = [server EXCEPT !.tags = tag]
       /\ unacked' = unacked \cup {[query |-> q, tag |-> tag]}
       /\ handlers' = handlers \cup {[query |-> q, tag |-> tag, channel |-> server.number,
                                      body |-> "none"]}
    /\ queries' = queries \ {q}
    /\ UNCHANGED <<existing, call, replyQueue, declared, replies, faults>>

\* Whether the reply finds its queue.
Delivered(q) == replyQueue.state = "open" /\ q.replyTo = replyQueue.number

\* checkUserExists reads the table, or fails to; the reply is published on the channel of the
\* moment.  Without one the dispatch ends.
Answer(h, body) ==
    IF server.up
    THEN /\ handlers' = (handlers \ {h}) \cup {[h EXCEPT !.body = body]}
         /\ replies' = IF Delivered(h.query)
                       THEN replies \cup {[query |-> h.query, body |-> body]} ELSE replies
    ELSE handlers' = handlers \ {h} /\ UNCHANGED replies

LookUp(h) ==
    /\ h.body = "none"
    /\ \/ /\ Answer(h, IF h.query.user \in existing THEN "exists" ELSE "missing")
          /\ UNCHANGED faults
       \/ /\ faults < MaxFaults /\ faults' = faults + 1
          /\ Answer(h, "DB_ERROR")
    /\ UNCHANGED <<existing, call, replyQueue, declared, queries, server, unacked>>

\* Mutant: an error is replied to and not acknowledged.
SuccessDone(h) == h.body \in {"exists", "missing"}

\* The reply is confirmed.
Done(h) == h.body # "none"

\* The tag is acknowledged on the channel of the moment, whichever channel it came from.  A tag
\* that channel does not know makes the broker close it.
Ack(h) ==
    /\ Done(h)
    /\ LET meant == {d \in unacked : d.tag = h.tag} IN
       IF meant # {}
       THEN /\ unacked' = unacked \ meant
            /\ handlers' = handlers \ {h}
            /\ UNCHANGED <<server, queries>>
       ELSE /\ ServerChannelCloses
            /\ handlers' = {g \in handlers \ {h} : g.body = "none"}
    /\ UNCHANGED <<existing, call, replyQueue, declared, replies, faults>>

-----------------------------------------------------------------------------
CallStep == \E c \in Calls, u \in Sought : Call(c, u)
Handle(h) == LookUp(h) \/ Ack(h)

LookupsNext ==
    \/ \E u \in Sought : UserRegisters(u)
    \/ CallStep
    \/ CreditConnects \/ CreditDisconnects
    \/ \E c \in Calls : Timeout(c)
    \/ \E m \in replies : Receive(m)
    \/ \E q \in queries : Expire(q) \/ Dispatch(q)
    \/ ServerConnects \/ ServerDisconnects
    \/ \E h \in handlers : Handle(h)

LookupsSpec == LookupsInit /\ [][LookupsNext]_lookupVars

\* Timers fire, the broker delivers and expires, and handlers and reconnection loops go on.
LookupsFairness ==
    /\ WF_lookupVars(CreditConnects) /\ WF_lookupVars(ServerConnects)
    /\ \A c \in Calls : WF_lookupVars(Timeout(c))
    /\ WF_lookupVars(\E m \in replies : Receive(m))
    /\ WF_lookupVars(\E q \in queries : Expire(q) \/ Dispatch(q))
    /\ WF_lookupVars(\E h \in handlers : Handle(h))

-----------------------------------------------------------------------------
(* An answer is true: "yes" names a user who exists, "no" one who did not exist when the call *)
(* was made.  Late and repeated replies, database errors and other calls about the same user  *)
(* do not change that (replyCb, userExists in queue/impl/rpc.ts).                             *)
Truthful ==
    \A c \in Calls :
        /\ call[c].state = "true" => call[c].user \in existing
        /\ call[c].state = "false" => ~call[c].known

(* Calls wait only in a queue that is open, at most MaxPending of them: a disconnection,      *)
(* which replaces the queue, leaves none behind (handleDisconnect, call).                     *)
NobodyWaitsInVain ==
    /\ Pending # {} => replyQueue.state = "open"
    /\ Cardinality(Pending) <= MaxPending

(* Every call ends, by an answer, an error, a timeout or a disconnection (call, replyCb,      *)
(* handleDisconnect): the message handler that awaits it is not stuck.                        *)
CallsSettle ==
    \A c \in Calls : call[c].state # "idle" ~> call[c].state \in {"true", "false", "failed"}

(* Every query leaves user.rpc for good, and the user service ends up connected, although     *)
(* handlers that outlive a channel acknowledge on the next one (dispatchMessage).             *)
QueriesLeave == <>[](queries = {} /\ unacked = {} /\ server.up)
=============================================================================
