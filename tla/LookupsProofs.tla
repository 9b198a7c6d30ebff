---------------------------- MODULE LookupsProofs ----------------------------
(***************************************************************************)
(* Lookups are answered truthfully, for any calls, users and faults.  The  *)
(* strengthening follows a query through the queue, a delivery, a handler  *)
(* and a reply: wherever it is, it is about the user its call asked for,   *)
(* and what is on its way back was true when it was read and has stayed so, *)
(* because accounts are never deleted.                                     *)
(***************************************************************************)
EXTENDS Lookups, TLAPS, FiniteSetTheorems

Entry == [state: {"idle", "pending", "true", "false", "failed"}, user: Sought, known: BOOLEAN]
Reply == [query: Query, body: Bodies]
Handler == [query: Query, tag: Nat, channel: Nat, body: Bodies \cup {"none"}]

CallsTyped == call \in [Calls -> Entry] /\ existing \subseteq Sought
QueriesTyped == queries \subseteq Query /\ unacked \subseteq Delivery
AnswersTyped == handlers \subseteq Handler /\ replies \subseteq Reply
RestTyped ==
    /\ replyQueue \in [state: {"none", "open", "suspended"}, number: Nat]
    /\ declared \in BOOLEAN
    /\ server \in [up: BOOLEAN, number: Nat, tags: Nat]
    /\ faults \in 0..MaxFaults

\* The query is that of its call.
Genuine(q) == call[q.call].state # "idle" /\ call[q.call].user = q.user

\* What a handler has read is true of its call.
True(q, body) ==
    /\ body = "exists" => q.user \in existing
    /\ body = "missing" => ~call[q.call].known

Asked == \A q \in queries : Genuine(q)
Taken == \A d \in unacked : Genuine(d.query)
Read == \A h \in handlers : Genuine(h.query) /\ True(h.query, h.body)
Replied == \A m \in replies : Genuine(m.query) /\ True(m.query, m.body)

\* Who was known when a call was made is known now.
KnownStay == \A c \in Calls : call[c].known => call[c].user \in existing

Waiting ==
    /\ Pending # {} => replyQueue.state = "open"
    /\ IsFiniteSet(Pending) /\ Cardinality(Pending) <= MaxPending

Inv ==
    /\ CallsTyped /\ QueriesTyped /\ AnswersTyped /\ RestTyped
    /\ Asked /\ Taken /\ Read /\ Replied
    /\ KnownStay /\ Truthful /\ Waiting

-----------------------------------------------------------------------------
LEMMA InitInv == LookupsInit => Inv
<1> SUFFICES ASSUME LookupsInit PROVE Inv
  OBVIOUS
<1>1. CallsTyped /\ \A c \in Calls : call[c].state = "idle" /\ call[c].known = FALSE
  <2>1. (CHOOSE u \in Sought : TRUE) \in Sought
    BY LookupAssumption
  <2> QED BY <2>1 DEF LookupsInit, CallsTyped, Entry
<1>2. QueriesTyped /\ AnswersTyped /\ Asked /\ Taken /\ Read /\ Replied
  BY DEF LookupsInit, QueriesTyped, AnswersTyped, Asked, Taken, Read, Replied
<1>3. RestTyped
  <2>1. faults \in 0..MaxFaults
    BY LookupAssumption DEF LookupsInit
  <2> QED BY <2>1 DEF LookupsInit, RestTyped
<1>4. KnownStay /\ Truthful
  BY <1>1 DEF KnownStay, Truthful
<1>5. Waiting
  <2>1. Pending = {}
    BY <1>1 DEF Pending
  <2> QED BY <2>1, FS_EmptySet, LookupAssumption DEF Waiting
<1> QED BY <1>1, <1>2, <1>3, <1>4, <1>5 DEF Inv

\* A call that was made stays the call it was; accounts stay.
Progress ==
    /\ existing \subseteq existing'
    /\ \A c \in Calls : call[c].state # "idle" =>
           /\ call'[c].state # "idle" /\ call'[c].user = call[c].user
           /\ call'[c].known => call[c].known

LEMMA Staying ==
    ASSUME Progress
    PROVE  \A q \in Query : Genuine(q) => /\ Genuine(q)'
                                          /\ \A body : True(q, body) => True(q, body)'
    BY DEF Progress, Genuine, True, Query

\* What is under way stays what it is, whatever happens to the calls.
LEMMA MessagesStay ==
    ASSUME Inv, Progress
    PROVE  /\ \A q \in queries : Genuine(q)'
           /\ \A d \in unacked : Genuine(d.query)'
           /\ \A h \in handlers : Genuine(h.query)' /\ True(h.query, h.body)'
           /\ \A m \in replies : Genuine(m.query)' /\ True(m.query, m.body)'
<1>1. \A q \in queries : q \in Query
  BY DEF Inv, QueriesTyped
<1>2. \A d \in unacked : d.query \in Query
  BY DEF Inv, QueriesTyped, Delivery
<1>3. \A h \in handlers : h.query \in Query
  BY DEF Inv, AnswersTyped, Handler
<1>4. \A m \in replies : m.query \in Query
  BY DEF Inv, AnswersTyped, Reply
<1> QED BY <1>1, <1>2, <1>3, <1>4, Staying DEF Inv, Asked, Taken, Read, Replied

\* A step that adds nothing to what is under way.
LEMMA FewerMessages ==
    ASSUME Inv, Progress, queries' \subseteq queries \cup {d.query : d \in unacked},
           unacked' \subseteq unacked, handlers' \subseteq handlers, replies' \subseteq replies
    PROVE  (QueriesTyped /\ AnswersTyped /\ Asked /\ Taken /\ Read /\ Replied)'
<1>1. QueriesTyped' /\ AnswersTyped'
  BY DEF Inv, QueriesTyped, AnswersTyped, Delivery
<1>2. Asked' /\ Taken'
  BY MessagesStay DEF Asked, Taken
<1>3. Read' /\ Replied'
  BY MessagesStay DEF Read, Replied
<1> QED BY <1>1, <1>2, <1>3

\* A step that makes no call: the calls that wait become fewer.
LEMMA FewerWaiting ==
    ASSUME Inv, Pending' \subseteq Pending, Pending' # {} => replyQueue'.state = "open"
    PROVE  Waiting'
<1>1. IsFiniteSet(Pending) /\ Cardinality(Pending) <= MaxPending /\ MaxPending \in Nat
  BY LookupAssumption DEF Inv, Waiting
<1>2. IsFiniteSet(Pending') /\ Cardinality(Pending') <= Cardinality(Pending)
  BY <1>1, FS_Subset
<1>3. Cardinality(Pending') \in Nat /\ Cardinality(Pending) \in Nat
  BY <1>1, <1>2, FS_CardinalityType
<1> QED BY <1>1, <1>2, <1>3 DEF Waiting

\* Calls end, none begins.
Ending(c) ==
    \/ call'[c] = call[c]
    \/ /\ call[c].state = "pending" /\ call'[c] \in Entry
       /\ call'[c].state \in {"true", "false", "failed"}
       /\ call'[c].user = call[c].user /\ (call'[c].known => call[c].known)

LEMMA CallsEnd ==
    ASSUME Inv, call' \in [Calls -> Entry], \A c \in Calls : Ending(c), existing' = existing
    PROVE  Progress /\ CallsTyped' /\ KnownStay' /\ Pending' \subseteq Pending
<1>1. Progress
  BY DEF Progress, Ending
<1>2. CallsTyped' /\ KnownStay'
  BY DEF Inv, CallsTyped, KnownStay, Ending, Entry
<1>3. Pending' \subseteq Pending
  BY DEF Pending, Ending
<1> QED BY <1>1, <1>2, <1>3

LEMMA FaultCounts ==
    ASSUME faults \in 0..MaxFaults, faults < MaxFaults, faults' = faults + 1
    PROVE  faults' \in 0..MaxFaults
    BY LookupAssumption

LEMMA FailedCallType ==
    ASSUME Inv, NEW c \in Calls
    PROVE  /\ FailedCall(c) \in Entry /\ FailedCall(c).state = "failed"
           /\ FailedCall(c).user = call[c].user /\ FailedCall(c).known = FALSE
<1>1. call[c] \in Entry
  BY DEF Inv, CallsTyped
<1> QED BY <1>1 DEF FailedCall, Entry

-----------------------------------------------------------------------------
LEMMA CreditStep ==
    ASSUME Inv, CreditConnects \/ CreditDisconnects \/ \E c \in Calls : Timeout(c)
    PROVE  Inv'
<1>1. call \in [Calls -> Entry] /\ RestTyped
  BY DEF Inv, CallsTyped
<1>2. call' \in [Calls -> Entry] /\ \A c \in Calls : Ending(c)
  <2>1. CASE call' = call
    BY <1>1, <2>1 DEF Ending
  <2>2. CASE call' = PendingRejected
    BY <1>1, <2>2, FailedCallType DEF PendingRejected, Ending
  <2>3. ASSUME NEW c \in Calls, Timeout(c)
        PROVE  call' \in [Calls -> Entry] /\ \A d \in Calls : Ending(d)
    BY <1>1, <2>3, FailedCallType DEF Timeout, Ending
  <2> QED BY <2>1, <2>2, <2>3 DEF CreditConnects, CreditDisconnects
<1>3. existing' = existing /\ UNCHANGED <<declared, queries, server, unacked, handlers>>
  BY DEF CreditConnects, CreditDisconnects, Timeout
<1>4. Progress /\ CallsTyped' /\ KnownStay' /\ Pending' \subseteq Pending
  BY <1>2, <1>3, CallsEnd
<1>5. replies' \subseteq replies
  BY DEF CreditConnects, CreditDisconnects, Timeout
<1>6. (QueriesTyped /\ AnswersTyped /\ Asked /\ Taken /\ Read /\ Replied)'
  BY <1>3, <1>4, <1>5, FewerMessages
<1>7. RestTyped'
  <2>1. faults' \in 0..MaxFaults
    BY <1>1, FaultCounts DEF CreditConnects, CreditDisconnects, Timeout, RestTyped
  <2>2. replyQueue' \in [state: {"none", "open", "suspended"}, number: Nat]
    BY <1>1 DEF CreditConnects, CreditDisconnects, Timeout, RestTyped
  <2> QED BY <1>1, <1>3, <2>1, <2>2 DEF RestTyped
<1>8. Truthful'
  <2> SUFFICES ASSUME NEW c \in Calls
               PROVE  /\ call'[c].state = "true" => call'[c].user \in existing'
                      /\ call'[c].state = "false" => ~call'[c].known
    BY DEF Truthful
  <2>1. CASE call'[c] = call[c]
    BY <1>3, <2>1 DEF Inv, Truthful
  <2>2. CASE call'[c] = FailedCall(c)
    BY <2>2, FailedCallType
  <2> QED BY <1>1, <2>1, <2>2 DEF CreditConnects, CreditDisconnects, PendingRejected, Timeout
<1>9. Waiting'
  <2>1. Pending' # {} => replyQueue'.state = "open"
    <3>1. CASE CreditConnects
      BY <3>1 DEF CreditConnects
    <3>2. CASE CreditDisconnects
      BY <1>1, <3>2, FailedCallType DEF CreditDisconnects, PendingRejected, Pending
    <3>3. CASE \E c \in Calls : Timeout(c)
      BY <1>4, <3>3 DEF Timeout, Inv, Waiting
    <3> QED BY <3>1, <3>2, <3>3
  <2> QED BY <1>4, <2>1, FewerWaiting
<1> QED BY <1>4, <1>6, <1>7, <1>8, <1>9 DEF Inv

LEMMA ReceiveStep ==
    ASSUME Inv, NEW m \in replies, Receive(m)
    PROVE  Inv'
<1>1. call \in [Calls -> Entry] /\ RestTyped
  BY DEF Inv, CallsTyped
<1>2. /\ m.query \in Query /\ m.body \in Bodies
      /\ Genuine(m.query) /\ True(m.query, m.body)
  BY DEF Inv, AnswersTyped, Reply, Replied
<1>3. /\ Result(m.body) \in {"true", "false", "failed"}
      /\ Result(m.body) = "true" => m.body = "exists"
      /\ Result(m.body) = "false" => m.body = "missing"
  BY <1>2 DEF Result, Bodies
<1>4. /\ UNCHANGED <<existing, replyQueue, declared, queries, server, unacked, handlers, faults>>
      /\ replies' \subseteq replies
  BY DEF Receive
<1>5. PICK c \in Calls :
        \/ call' = call
        \/ /\ call[c].state = "pending" /\ c = m.query.call
           /\ call' = [call EXCEPT ![c].state = Result(m.body)]
  <2>1. m.query.call \in Calls
    BY <1>2 DEF Query
  <2> QED BY <2>1 DEF Receive, Pending, Matches
<1>6. /\ call' \in [Calls -> Entry] /\ \A d \in Calls : d # c => call'[d] = call[d]
      /\ \/ call'[c] = call[c]
         \/ /\ call[c].state = "pending" /\ c = m.query.call
            /\ call'[c].state = Result(m.body)
            /\ call'[c].user = call[c].user /\ call'[c].known = call[c].known
  BY <1>1, <1>3, <1>5 DEF Entry
<1>7. \A d \in Calls : Ending(d)
  BY <1>3, <1>6 DEF Ending
<1>8. Progress /\ CallsTyped' /\ KnownStay' /\ Pending' \subseteq Pending
  BY <1>4, <1>6, <1>7, CallsEnd
<1>9. (QueriesTyped /\ AnswersTyped /\ Asked /\ Taken /\ Read /\ Replied)'
  BY <1>4, <1>8, FewerMessages
<1>10. RestTyped'
  BY <1>1, <1>4 DEF RestTyped
<1>11. Truthful'
  <2> SUFFICES ASSUME NEW d \in Calls
               PROVE  /\ call'[d].state = "true" => call'[d].user \in existing
                      /\ call'[d].state = "false" => ~call'[d].known
    BY <1>4 DEF Truthful
  <2>1. CASE call'[d] = call[d]
    BY <2>1 DEF Inv, Truthful
  <2>2. CASE call'[d] # call[d]
    BY <1>2, <1>3, <1>6, <2>2 DEF Genuine, True
  <2> QED BY <2>1, <2>2
<1>12. Waiting'
  BY <1>4, <1>8, FewerWaiting DEF Inv, Waiting
<1> QED BY <1>8, <1>9, <1>10, <1>11, <1>12 DEF Inv

LEMMA CallStepInv ==
    ASSUME Inv, NEW c \in Calls, NEW u \in Sought, Call(c, u)
    PROVE  Inv'
<1>1. call \in [Calls -> Entry] /\ RestTyped /\ existing \subseteq Sought
  BY DEF Inv, CallsTyped
<1>2. Refused \in BOOLEAN /\ call[c].state = "idle"
  BY DEF Refused, Call
<1>3. /\ call' \in [Calls -> Entry] /\ \A d \in Calls : d # c => call'[d] = call[d]
      /\ call'[c].state = (IF Refused THEN "failed" ELSE "pending") /\ call'[c].user = u
      /\ call'[c].known => u \in existing
  BY <1>1, <1>2 DEF Call, Entry
<1>4. UNCHANGED <<existing, replyQueue, declared, server, unacked, handlers, replies, faults>>
  BY DEF Call
<1>5. Progress
  BY <1>2, <1>3, <1>4 DEF Progress
<1>6. CallsTyped' /\ KnownStay' /\ Truthful'
  BY <1>1, <1>3, <1>4 DEF Inv, CallsTyped, KnownStay, Truthful
<1>7. QueriesTyped' /\ Asked'
  <2>0. PICK q : q = [call |-> c, user |-> u, replyTo |-> replyQueue.number]
    OBVIOUS
  <2>1. q \in Query /\ Genuine(q)'
    BY <1>1, <1>3, <2>0 DEF Query, RestTyped, Genuine
  <2>2. queries' \subseteq queries \cup {q}
    BY <2>0 DEF Call
  <2>3. QueriesTyped'
    BY <1>4, <2>1, <2>2 DEF Inv, QueriesTyped
  <2>4. \A x \in queries : Genuine(x)'
    BY <1>5, MessagesStay
  <2>5. Asked'
    BY <2>1, <2>2, <2>4 DEF Asked
  <2> QED BY <2>3, <2>5
<1>8. (AnswersTyped /\ Taken /\ Read /\ Replied)'
  BY <1>4, <1>5, MessagesStay DEF Inv, AnswersTyped, Taken, Read, Replied
<1>9. RestTyped'
  BY <1>1, <1>4 DEF RestTyped
<1>10. Waiting'
  <2>1. CASE Refused
    <3>1. Pending' \subseteq Pending
      BY <1>3, <2>1 DEF Pending
    <3> QED BY <1>4, <3>1, FewerWaiting DEF Inv, Waiting
  <2>2. CASE ~Refused
    <3>1. replyQueue.state = "open" /\ ~(Cardinality(Pending) >= MaxPending)
      BY <2>2 DEF Refused
    <3>2. Pending' = Pending \cup {c} /\ c \notin Pending
      BY <1>2, <1>3, <2>2 DEF Pending
    <3>3. IsFiniteSet(Pending) /\ Cardinality(Pending) \in Nat /\ MaxPending \in Nat
      BY FS_CardinalityType, LookupAssumption DEF Inv, Waiting
    <3>4. IsFiniteSet(Pending') /\ Cardinality(Pending') = Cardinality(Pending) + 1
      BY <3>2, <3>3, FS_AddElement
    <3> QED BY <1>4, <3>1, <3>3, <3>4 DEF Waiting
  <2> QED BY <1>2, <2>1, <2>2
<1> QED BY <1>6, <1>7, <1>8, <1>9, <1>10 DEF Inv

\* A step of the broker or of the user service leaves the calls alone.
LEMMA CallsAlone ==
    ASSUME Inv, UNCHANGED <<call, existing, replyQueue, declared>>,
           server' \in [up: BOOLEAN, number: Nat, tags: Nat], faults' \in 0..MaxFaults
    PROVE  Progress /\ (CallsTyped /\ RestTyped /\ KnownStay /\ Truthful /\ Waiting)'
<1>1. Progress /\ Pending' = Pending
  BY DEF Progress, Pending
<1> QED BY <1>1 DEF Inv, CallsTyped, RestTyped, KnownStay, Truthful, Waiting

LEMMA BrokerStep ==
    ASSUME Inv, ServerConnects \/ ServerDisconnects \/ \E q \in queries : Expire(q)
    PROVE  Inv'
<1>1. server \in [up: BOOLEAN, number: Nat, tags: Nat] /\ faults \in 0..MaxFaults
  BY DEF Inv, RestTyped
<1>2. CASE ServerConnects
  <2>1. server' \in [up: BOOLEAN, number: Nat, tags: Nat] /\ faults' \in 0..MaxFaults
    BY <1>1, <1>2 DEF ServerConnects
  <2>2. declared' \in BOOLEAN
    BY <1>2 DEF ServerConnects
  <2>3. Progress /\ Pending' = Pending
    BY <1>2 DEF Progress, Pending, ServerConnects
  <2>4. (CallsTyped /\ RestTyped /\ KnownStay /\ Truthful /\ Waiting)'
    BY <1>2, <2>1, <2>2, <2>3
       DEF ServerConnects, Inv, CallsTyped, RestTyped, KnownStay, Truthful, Waiting
  <2>5. (QueriesTyped /\ AnswersTyped /\ Asked /\ Taken /\ Read /\ Replied)'
    BY <1>2, <2>3, FewerMessages DEF ServerConnects
  <2> QED BY <2>4, <2>5 DEF Inv
<1>3. CASE ServerDisconnects \/ \E q \in queries : Expire(q)
  <2>1. server' \in [up: BOOLEAN, number: Nat, tags: Nat] /\ faults' \in 0..MaxFaults
    <3>1. CASE ServerDisconnects
      BY <1>1, <3>1, FaultCounts DEF ServerDisconnects, ServerChannelCloses
    <3> QED BY <1>1, <1>3, <3>1 DEF Expire
  <2>2. UNCHANGED <<call, existing, replyQueue, declared>>
    BY <1>3 DEF ServerDisconnects, Expire
  <2>3. Progress /\ (CallsTyped /\ RestTyped /\ KnownStay /\ Truthful /\ Waiting)'
    BY <2>1, <2>2, CallsAlone
  <2>4. /\ queries' \subseteq queries \cup {d.query : d \in unacked}
        /\ unacked' \subseteq unacked /\ handlers' \subseteq handlers /\ replies' \subseteq replies
    BY <1>3 DEF ServerDisconnects, ServerChannelCloses, Expire
  <2>5. (QueriesTyped /\ AnswersTyped /\ Asked /\ Taken /\ Read /\ Replied)'
    BY <2>3, <2>4, FewerMessages
  <2> QED BY <2>3, <2>5 DEF Inv
<1> QED BY <1>2, <1>3

LEMMA DispatchStep ==
    ASSUME Inv, NEW q \in queries, Dispatch(q)
    PROVE  Inv'
<1>0. PICK tag, d, h :
        /\ tag = server.tags + 1 /\ d = [query |-> q, tag |-> tag]
        /\ h = [query |-> q, tag |-> tag, channel |-> server.number, body |-> "none"]
  OBVIOUS
<1>1. server \in [up: BOOLEAN, number: Nat, tags: Nat] /\ faults \in 0..MaxFaults
  BY DEF Inv, RestTyped
<1>2. tag \in Nat /\ server' \in [up: BOOLEAN, number: Nat, tags: Nat] /\ faults' \in 0..MaxFaults
  BY <1>0, <1>1 DEF Dispatch
<1>3. Progress /\ (CallsTyped /\ RestTyped /\ KnownStay /\ Truthful /\ Waiting)'
  BY <1>2, CallsAlone DEF Dispatch
<1>4. q \in Query /\ Genuine(q)'
  BY <1>3, MessagesStay DEF Inv, QueriesTyped
<1>5. d \in Delivery /\ d.query = q /\ h \in Handler /\ h.query = q /\ h.body = "none"
  BY <1>0, <1>1, <1>2, <1>4 DEF Delivery, Handler
<1>6. /\ queries' \subseteq queries /\ unacked' = unacked \cup {d}
      /\ handlers' = handlers \cup {h} /\ replies' = replies
  BY <1>0 DEF Dispatch
<1>7. QueriesTyped' /\ AnswersTyped'
  BY <1>5, <1>6 DEF Inv, QueriesTyped, AnswersTyped
<1>8. Asked' /\ Taken'
  BY <1>3, <1>4, <1>5, <1>6, MessagesStay DEF Asked, Taken
<1>9. Read'
  <2>1. True(h.query, h.body)'
    BY <1>5 DEF True
  <2> QED BY <1>3, <1>4, <1>5, <1>6, <2>1, MessagesStay DEF Read
<1>10. Replied'
  BY <1>3, <1>6, MessagesStay DEF Replied
<1> QED BY <1>3, <1>7, <1>8, <1>9, <1>10 DEF Inv

LEMMA LookUpStep ==
    ASSUME Inv, NEW h \in handlers, LookUp(h)
    PROVE  Inv'
<1>1. server \in [up: BOOLEAN, number: Nat, tags: Nat] /\ faults \in 0..MaxFaults
  BY DEF Inv, RestTyped
<1>2. faults' \in 0..MaxFaults
  BY <1>1, FaultCounts DEF LookUp
<1>3. Progress /\ (CallsTyped /\ RestTyped /\ KnownStay /\ Truthful /\ Waiting)'
  BY <1>1, <1>2, CallsAlone DEF LookUp
<1>4. h \in Handler /\ h.query \in Query /\ Genuine(h.query)
  BY DEF Inv, AnswersTyped, Handler, Read
<1>5. PICK body \in Bodies : Answer(h, body) /\ True(h.query, body)
  <2>1. h.query.call \in Calls
    BY <1>4 DEF Query
  <2>2. h.query.user \notin existing => ~call[h.query.call].known
    BY <1>4, <2>1 DEF Genuine, Inv, KnownStay
  <2> QED BY <2>2 DEF LookUp, True, Bodies
<1>6. Genuine(h.query)' /\ True(h.query, body)'
  BY <1>3, <1>4, <1>5, Staying
<1> DEFINE g == [h EXCEPT !.body = body]
           m == [query |-> h.query, body |-> body]
<1>7. g \in Handler /\ g.query = h.query /\ g.body = body /\ m \in Reply
  BY <1>4 DEF Handler, Reply
<1>8. /\ queries' = queries /\ unacked' = unacked
      /\ handlers' \subseteq handlers \cup {g} /\ replies' \subseteq replies \cup {m}
  BY <1>5 DEF LookUp, Answer
<1>9. m.query = h.query /\ m.body = body
  OBVIOUS
<1> HIDE DEF g, m
<1>10. QueriesTyped' /\ AnswersTyped'
  BY <1>7, <1>8 DEF Inv, QueriesTyped, AnswersTyped
<1>11. Asked' /\ Taken'
  BY <1>3, <1>8, MessagesStay DEF Asked, Taken
<1>12. Read'
  BY <1>3, <1>6, <1>7, <1>8, MessagesStay DEF Read
<1>13. Replied'
  BY <1>3, <1>6, <1>8, <1>9, MessagesStay DEF Replied
<1> QED BY <1>3, <1>10, <1>11, <1>12, <1>13 DEF Inv

LEMMA AckStep ==
    ASSUME Inv, NEW h \in handlers, Ack(h)
    PROVE  Inv'
<1>1. server \in [up: BOOLEAN, number: Nat, tags: Nat] /\ faults \in 0..MaxFaults
  BY DEF Inv, RestTyped
<1>2. server' \in [up: BOOLEAN, number: Nat, tags: Nat] /\ faults' \in 0..MaxFaults
  <2>1. [server EXCEPT !.up = FALSE, !.tags = 0] \in [up: BOOLEAN, number: Nat, tags: Nat]
    BY <1>1
  <2>2. server' = server \/ server' = [server EXCEPT !.up = FALSE, !.tags = 0]
    BY DEF Ack, ServerChannelCloses
  <2>3. faults' = faults
    BY DEF Ack
  <2> QED BY <1>1, <2>1, <2>2, <2>3
<1>3. Progress /\ (CallsTyped /\ RestTyped /\ KnownStay /\ Truthful /\ Waiting)'
  BY <1>2, CallsAlone DEF Ack
<1>4. /\ queries' \subseteq queries \cup {d.query : d \in unacked}
      /\ unacked' \subseteq unacked /\ handlers' \subseteq handlers /\ replies' \subseteq replies
  BY DEF Ack, ServerChannelCloses
<1>5. (QueriesTyped /\ AnswersTyped /\ Asked /\ Taken /\ Read /\ Replied)'
  BY <1>3, <1>4, FewerMessages
<1> QED BY <1>3, <1>5 DEF Inv

LEMMA RegisterStep ==
    ASSUME Inv, NEW u \in Sought, UserRegisters(u)
    PROVE  Inv'
<1>1. Progress /\ Pending' = Pending
  BY DEF UserRegisters, Progress, Pending
<1>2. (QueriesTyped /\ AnswersTyped /\ Asked /\ Taken /\ Read /\ Replied)'
  BY <1>1, FewerMessages DEF UserRegisters
<1>3. (CallsTyped /\ RestTyped /\ KnownStay /\ Truthful /\ Waiting)'
  BY <1>1 DEF UserRegisters, Inv, CallsTyped, RestTyped, KnownStay, Truthful, Waiting
<1> QED BY <1>2, <1>3 DEF Inv

LEMMA StepInv == Inv /\ [LookupsNext]_lookupVars => Inv'
<1> SUFFICES ASSUME Inv, [LookupsNext]_lookupVars PROVE Inv'
  OBVIOUS
<1>1. CASE UNCHANGED lookupVars
  <2>1. Progress /\ Pending' = Pending
    BY <1>1 DEF lookupVars, Progress, Pending
  <2>2. (QueriesTyped /\ AnswersTyped /\ Asked /\ Taken /\ Read /\ Replied)'
    BY <1>1, <2>1, FewerMessages DEF lookupVars
  <2>3. (CallsTyped /\ RestTyped /\ KnownStay /\ Truthful /\ Waiting)'
    BY <1>1, <2>1 DEF lookupVars, Inv, CallsTyped, RestTyped, KnownStay, Truthful, Waiting
  <2> QED BY <2>2, <2>3 DEF Inv
<1> QED BY <1>1, RegisterStep, CallStepInv, CreditStep, ReceiveStep, BrokerStep, DispatchStep,
           LookUpStep, AckStep
        DEF LookupsNext, CallStep, Handle

LEMMA InvHolds == LookupsSpec => []Inv
    BY InitInv, StepInv, PTL DEF LookupsSpec

\* The calls, queries, deliveries, handlers and replies keep their types
\* (transientReplyQueue.ts, router.ts).
THEOREM LookupsTyped == LookupsSpec => []LookupsTypeOK
<1>1. Inv => LookupsTypeOK
  BY DEF Inv, LookupsTypeOK, CallsTyped, QueriesTyped, AnswersTyped, RestTyped, Entry, Handler, Reply
<1> QED BY <1>1, InvHolds, PTL

\* A lookup is never answered with what is not so: a query is about the user its call asked for
\* wherever it is, and accounts stay (replyCb, userExists in queue/impl/rpc.ts).
THEOREM LookupsTruthful == LookupsSpec => []Truthful
<1>1. Inv => Truthful
  BY DEF Inv
<1> QED BY <1>1, InvHolds, PTL

\* Calls wait only in an open reply queue, and never more of them than it has places
\* (handleDisconnect and call in transientReplyQueue.ts).
THEOREM WaitingBounded == LookupsSpec => []NobodyWaitsInVain
<1>1. Inv => NobodyWaitsInVain
  BY DEF Inv, Waiting, NobodyWaitsInVain
<1> QED BY <1>1, InvHolds, PTL
=============================================================================
