-------------------------- MODULE OutboxRelayProofs --------------------------
(***************************************************************************)
(* The relays implement OutboxDelivery for any rows, processes, retries    *)
(* and faults.  The heart of the argument: a row in a living transaction is *)
(* PENDING and in no other living transaction, so a commit finds the row   *)
(* as the relay fetched it; and an order row is only noted as sent once a  *)
(* copy has arrived.  A transaction the database has ended keeps none of    *)
(* this, but its relay is still waiting for the broker and never commits.  *)
(***************************************************************************)
EXTENDS OutboxRelay, TLAPS, WellFoundedInduction, FiniteSetTheorems

Tx == [rows: SUBSET Rows, sent: SUBSET Rows, failed: SUBSET Rows, alive: BOOLEAN]

\* A transaction t of process p, whose relay is at c.
Sound(p, t, c) ==
    /\ t.rows \subseteq RowsOf(p)
    /\ t.sent \cup t.failed \subseteq t.rows
    /\ t.sent \cap t.failed = {}
    /\ c \in {"off", "poll"} => t = NoTx
    /\ c = "confirm" => t.rows \ (t.sent \cup t.failed) # {}
    /\ ~t.alive => c = "confirm"

Batches == \A p \in Procs : Sound(p, tx[p], pc[p])

RowsHeld ==
    \A p \in Procs : \A r \in tx[p].rows :
        /\ row[r].status # "NONE"
        /\ tx[p].alive => row[r].status = "PENDING"

Exclusive ==
    \A p, q \in Procs : p # q /\ tx[p].alive /\ tx[q].alive => tx[p].rows \cap tx[q].rows = {}

Arrived == \A p \in OrderProcs : \A r \in tx[p].sent : copies[r] > 0

RetriesLeft == \A r \in Rows : row[r].status \in {"NONE", "PENDING"} => row[r].retries < MaxRetries

Relays == TypeOK /\ Batches /\ RowsHeld /\ Exclusive /\ Arrived /\ RetriesLeft

\* startQueueTasks starts a relay only where none is at work.
Stands == \A p \in UserProcs : task[p] \in {"first", "waitUp"} => pc[p] = "off"

Inv == Relays /\ Stands

-----------------------------------------------------------------------------
\* A batch that is not done with has an oldest row.
LEMMA OldestInTodo ==
    ASSUME NEW p \in Procs, Todo(p) \subseteq Rows, Todo(p) # {}
    PROVE  Oldest(p) \in Todo(p)
<1>1. \E x \in Todo(p) : \A y \in Todo(p) : ~(<<y, x>> \in OpToRel(<, Nat))
  <2>1. Todo(p) \subseteq Nat
    BY RelayAssumption
  <2>2. \A T \in SUBSET Nat : T # {} => \E x \in T : \A y \in T : ~(<<y, x>> \in OpToRel(<, Nat))
    BY WFMin, NatLessThanWellFounded
  <2> QED BY <2>1, <2>2
<1>2. \E x \in Todo(p) : \A y \in Todo(p) : x <= y
  <2>1. \A x, y \in Nat : y < x => <<y, x>> \in OpToRel(<, Nat)
    BY DEF OpToRel
  <2>2. PICK x \in Todo(p) : \A y \in Todo(p) : ~(<<y, x>> \in OpToRel(<, Nat))
    BY <1>1
  <2>3. \A y \in Todo(p) : x \in Nat /\ y \in Nat /\ ~(y < x)
    BY <2>1, <2>2, RelayAssumption
  <2> QED BY <2>3
<1> QED BY <1>2 DEF Oldest

LEMMA NoTxType == NoTx \in Tx /\ NoTx.alive /\ NoTx.rows = {} /\ NoTx.sent = {} /\ NoTx.failed = {}
    BY DEF NoTx, Tx

\* A step that only changes the transaction of one relay, and may add copies.
LEMMA TxStep ==
    ASSUME Inv, NEW p \in Procs, NEW t \in Tx, NEW c \in {"off", "poll", "batch", "confirm"},
           tx' = [tx EXCEPT ![p] = t], pc' = [pc EXCEPT ![p] = c], row' = row,
           Sound(p, t, c), t.rows \subseteq tx[p].rows,
           t.alive /\ t.rows # {} => tx[p].alive,
           copies' \in [Rows -> Nat], \A r \in Rows : copies'[r] >= copies[r],
           p \in OrderProcs => \A r \in t.sent : copies'[r] > 0
    PROVE  /\ tx' \in [Procs -> Tx] /\ pc' \in [Procs -> {"off", "poll", "batch", "confirm"}]
           /\ Batches' /\ RowsHeld' /\ Exclusive' /\ Arrived'
<1>1. tx \in [Procs -> Tx] /\ pc \in [Procs -> {"off", "poll", "batch", "confirm"}]
  BY DEF Inv, Relays, TypeOK, Tx
<1>2. \A q \in Procs : /\ tx'[q] = IF q = p THEN t ELSE tx[q]
                       /\ pc'[q] = IF q = p THEN c ELSE pc[q]
  BY <1>1
<1>3. tx' \in [Procs -> Tx] /\ pc' \in [Procs -> {"off", "poll", "batch", "confirm"}]
  BY <1>1
<1>4. Batches'
  BY <1>2 DEF Inv, Relays, Batches, Sound
<1>5. RowsHeld'
  BY <1>2 DEF Inv, Relays, RowsHeld
<1>6. Exclusive'
  BY <1>2 DEF Inv, Relays, Exclusive
<1>7. Arrived'
  <2> SUFFICES ASSUME NEW q \in OrderProcs, NEW r \in tx'[q].sent PROVE copies'[r] > 0
    BY DEF Arrived
  <2>1. CASE q = p
    BY <1>2, <2>1
  <2>2. CASE q # p
    <3>1. q \in Procs /\ tx'[q] = tx[q] /\ r \in tx[q].sent
      BY <1>2, <2>2 DEF Procs
    <3>2. copies[r] > 0 /\ r \in Rows
      BY <1>1, <3>1 DEF Inv, Relays, Arrived, Tx
    <3>3. copies[r] \in Nat /\ copies'[r] \in Nat
      BY <3>2 DEF Inv, Relays, TypeOK
    <3> QED BY <3>2, <3>3
  <2> QED BY <2>1, <2>2
<1> QED BY <1>3, <1>4, <1>5, <1>6, <1>7

\* A step that leaves the relays alone.
LEMMA RestStep ==
    ASSUME Inv, UNCHANGED <<tx, pc, copies>>,
           row' \in [Rows -> Row],
           \A r \in Rows : row[r].status # "NONE" => row'[r].status = row[r].status
    PROVE  Batches' /\ RowsHeld' /\ Exclusive' /\ Arrived'
<1>1. \A p \in Procs : tx[p].rows \subseteq Rows
  BY DEF Inv, Relays, TypeOK
<1>2. Batches' /\ Exclusive' /\ Arrived'
  BY DEF Inv, Relays, Batches, Exclusive, Arrived, Sound
<1>3. RowsHeld'
  BY <1>1 DEF Inv, Relays, RowsHeld
<1> QED BY <1>2, <1>3

\* What the relay publishes is a row of its transaction that is not done with.
LEMMA OldestOfBatch ==
    ASSUME Inv, NEW p \in Procs, Todo(p) # {}
    PROVE  /\ Oldest(p) \in Rows /\ Oldest(p) \in tx[p].rows
           /\ Oldest(p) \notin tx[p].sent \cup tx[p].failed
<1>1. Todo(p) \subseteq Rows
  BY DEF Inv, Relays, TypeOK, Todo
<1>2. Oldest(p) \in Todo(p)
  BY <1>1, OldestInTodo
<1> QED BY <1>1, <1>2 DEF Todo

LEMMA Arriving ==
    ASSUME Inv, NEW p \in Procs, Todo(p) # {}, NEW accepted \in BOOLEAN, Arrives(p, accepted)
    PROVE  /\ copies' \in [Rows -> Nat] /\ \A r \in Rows : copies'[r] >= copies[r]
           /\ accepted /\ bound => copies'[Oldest(p)] > 0
<1>1. Oldest(p) \in Rows
  BY OldestOfBatch
<1>2. copies \in [Rows -> Nat]
  BY DEF Inv, Relays, TypeOK
<1> QED BY <1>1, <1>2 DEF Arrives

\* The end of a publication, with a copy or without one.
LEMMA Noting ==
    ASSUME Inv, NEW p \in Procs, pc[p] = "confirm", NEW ok \in BOOLEAN, Note(p, ok), row' = row,
           copies' \in [Rows -> Nat], \A r \in Rows : copies'[r] >= copies[r],
           ok /\ p \in OrderProcs => copies'[Oldest(p)] > 0
    PROVE  /\ tx' \in [Procs -> Tx] /\ pc' \in [Procs -> {"off", "poll", "batch", "confirm"}]
           /\ Batches' /\ RowsHeld' /\ Exclusive' /\ Arrived'
<1>1. /\ tx[p] \in Tx /\ Sound(p, tx[p], pc[p])
      /\ Todo(p) # {}
  BY DEF Inv, Relays, TypeOK, Tx, Batches, Sound, Todo
<1>2. /\ Oldest(p) \in Rows /\ Oldest(p) \in tx[p].rows
      /\ Oldest(p) \notin tx[p].sent \cup tx[p].failed
  BY <1>1, OldestOfBatch
<1>3. CASE tx[p].alive
  <2> DEFINE t == [rows   |-> tx[p].rows,
                   sent   |-> IF ok THEN tx[p].sent \cup {Oldest(p)} ELSE tx[p].sent,
                   failed |-> IF ok THEN tx[p].failed ELSE tx[p].failed \cup {Oldest(p)},
                   alive  |-> TRUE]
  <2>1. tx' = [tx EXCEPT ![p] = t] /\ pc' = [pc EXCEPT ![p] = "batch"]
    BY <1>1, <1>3 DEF Note, Inv, Relays, TypeOK, Tx
  <2>2. /\ t \in Tx /\ t.rows = tx[p].rows /\ t.alive
        /\ t.sent = IF ok THEN tx[p].sent \cup {Oldest(p)} ELSE tx[p].sent
        /\ t.failed = IF ok THEN tx[p].failed ELSE tx[p].failed \cup {Oldest(p)}
    BY <1>1, <1>2, <1>3 DEF Tx
  <2> HIDE DEF t
  <2>3. Sound(p, t, "batch")
    BY <1>1, <1>2, <2>2 DEF Sound
  <2>4. p \in OrderProcs => \A r \in t.sent : copies'[r] > 0
    <3> SUFFICES ASSUME p \in OrderProcs, NEW r \in t.sent PROVE copies'[r] > 0
      OBVIOUS
    <3>1. CASE r \in tx[p].sent
      <4>1. copies[r] > 0 /\ r \in Rows /\ copies \in [Rows -> Nat]
        BY <3>1, <1>1 DEF Inv, Relays, Arrived, TypeOK, Tx
      <4>2. copies[r] \in Nat /\ copies'[r] \in Nat /\ copies'[r] >= copies[r]
        BY <4>1
      <4> QED BY <4>1, <4>2
    <3>2. CASE r \notin tx[p].sent
      BY <2>2, <3>2
    <3> QED BY <3>1, <3>2
  <2> QED BY <1>3, <2>1, <2>2, <2>3, <2>4, TxStep
<1>4. CASE ~tx[p].alive
  <2>1. tx' = [tx EXCEPT ![p] = NoTx] /\ pc' = [pc EXCEPT ![p] = "poll"]
    BY <1>4 DEF Note
  <2>2. Sound(p, NoTx, "poll")
    BY NoTxType DEF Sound
  <2> QED BY <2>1, <2>2, NoTxType, TxStep
<1> QED BY <1>3, <1>4

\* A relay that gives its transaction up.
LEMMA GivingUp ==
    ASSUME Inv, NEW p \in Procs, NEW c \in {"off", "poll"},
           tx' = [tx EXCEPT ![p] = NoTx], pc' = [pc EXCEPT ![p] = c], row' = row,
           copies' \in [Rows -> Nat], \A r \in Rows : copies'[r] >= copies[r]
    PROVE  /\ tx' \in [Procs -> Tx] /\ pc' \in [Procs -> {"off", "poll", "batch", "confirm"}]
           /\ Batches' /\ RowsHeld' /\ Exclusive' /\ Arrived'
<1>1. Sound(p, NoTx, c)
  BY NoTxType DEF Sound
<1> QED BY <1>1, NoTxType, TxStep

LEMMA FaultCounts ==
    ASSUME faults \in 0..MaxFaults, faults < MaxFaults, faults' = faults + 1
    PROVE  faults' \in 0..MaxFaults
    BY RelayAssumption
-----------------------------------------------------------------------------
LEMMA InitInv == Init => Inv
<1> SUFFICES ASSUME Init PROVE Inv
  OBVIOUS
<1>1. NoTx \in Tx
  BY NoTxType
<1>2. TypeOK
  <2>1. 0 \in 0..MaxRetries /\ 0 \in 0..MaxFaults /\ 0 \in Nat
    BY RelayAssumption
  <2>2. row \in [Rows -> Row] /\ copies \in [Rows -> Nat]
    BY <2>1 DEF Init, Row
  <2>3. tx \in [Procs -> Tx]
    BY <1>1 DEF Init
  <2>4. pc \in [Procs -> {"off", "poll", "batch", "confirm"}]
    BY DEF Init
  <2> QED BY <2>1, <2>2, <2>3, <2>4 DEF Init, TypeOK, Tx
<1>3. \A p \in Procs : tx[p] = NoTx /\ pc[p] \in {"off", "poll"}
  BY DEF Init
<1>4. Batches /\ RowsHeld /\ Exclusive
  BY <1>3, NoTxType DEF Batches, Sound, RowsHeld, Exclusive
<1>5. Arrived
  BY <1>3, NoTxType DEF Arrived, Procs
<1>6. RetriesLeft
  BY RelayAssumption DEF Init, RetriesLeft
<1>7. Stands
  BY RelayAssumption DEF Init, Stands, Procs
<1> QED BY <1>2, <1>4, <1>5, <1>6, <1>7 DEF Inv, Relays

\* What becomes of a row that was PENDING.
LEMMA RowTypes ==
    ASSUME Inv, NEW p \in Procs, NEW r \in Rows, row[r].status = "PENDING"
    PROVE  /\ Completed(r) \in Row /\ Completed(r).status = "COMPLETED"
           /\ Failed(p, r) \in Row
           /\ Failed(p, r).status \in {"PENDING", "FAILED"}
           /\ Failed(p, r).status = "PENDING" => Failed(p, r).retries < MaxRetries
           /\ p \in OrderProcs => Failed(p, r).status = "PENDING"
<1>1. row[r] \in Row /\ row[r].retries < MaxRetries
  BY DEF Inv, Relays, TypeOK, RetriesLeft
<1>2. Completed(r) \in Row /\ Completed(r).status = "COMPLETED"
  BY <1>1 DEF Completed, Row
<1>3. /\ OrderFailed(r) \in Row /\ OrderFailed(r).status = "PENDING"
      /\ OrderFailed(r).retries = row[r].retries
  BY <1>1 DEF OrderFailed, Row
<1>4. CASE p \in OrderProcs
  BY <1>1, <1>2, <1>3, <1>4 DEF Failed
<1>5. CASE p \notin OrderProcs
  <2> DEFINE n == row[r].retries + 1
  <2>1. row[r].retries \in 0..MaxRetries
    BY <1>1 DEF Row
  <2>2. n \in 0..MaxRetries
    BY <1>1, <2>1, RelayAssumption
  <2>3. UserFailed(r) = [status |-> IF n >= MaxRetries THEN "FAILED" ELSE "PENDING",
                         retries |-> n, due |-> n >= MaxRetries]
    BY DEF UserFailed
  <2>4. n >= MaxRetries \/ n < MaxRetries
    BY <2>2, RelayAssumption
  <2> HIDE DEF n
  <2> QED BY <1>2, <1>5, <2>2, <2>3, <2>4 DEF Failed, Row
<1> QED BY <1>4, <1>5

\* The transaction a relay begins takes rows nobody else holds.
LEMMA FetchStep ==
    ASSUME Inv, NEW p \in Procs, Fetch(p)
    PROVE  Relays'
<1> DEFINE P == PendingEvents(p)
<1>1. /\ P \subseteq RowsOf(p) /\ P \subseteq Rows
      /\ \A r \in P : row[r].status = "PENDING"
      /\ \A q \in Procs : tx[q].alive => P \cap tx[q].rows = {}
  BY RelayAssumption DEF PendingEvents, Ready, RowsOf, Locked
<1> DEFINE t == [NoTx EXCEPT !.rows = P]
<1>2. t \in Tx /\ t.rows = P /\ t.sent = {} /\ t.failed = {} /\ t.alive
  BY <1>1 DEF NoTx, Tx
<1>3. tx' = [tx EXCEPT ![p] = t] /\ pc' = [pc EXCEPT ![p] = "batch"]
  BY DEF Fetch
<1> HIDE DEF P, t
<1>4. tx \in [Procs -> Tx] /\ pc \in [Procs -> {"off", "poll", "batch", "confirm"}]
  BY DEF Inv, Relays, TypeOK, Tx
<1>5. \A q \in Procs : /\ tx'[q] = IF q = p THEN t ELSE tx[q]
                       /\ pc'[q] = IF q = p THEN "batch" ELSE pc[q]
  BY <1>3, <1>4
<1>6. UNCHANGED <<row, copies, bound, link, task, consumer, faults>>
  BY DEF Fetch
<1>7. TypeOK'
  <2>1. tx' \in [Procs -> Tx] /\ pc' \in [Procs -> {"off", "poll", "batch", "confirm"}]
    BY <1>2, <1>3, <1>4
  <2> QED BY <1>6, <2>1 DEF Inv, Relays, TypeOK, Tx
<1>8. Batches'
  BY <1>1, <1>2, <1>5 DEF Inv, Relays, Batches, Sound, RowsOf
<1>9. RowsHeld'
  BY <1>1, <1>2, <1>5, <1>6 DEF Inv, Relays, RowsHeld
<1>10. Exclusive'
  BY <1>1, <1>2, <1>5 DEF Inv, Relays, Exclusive
<1>11. Arrived'
  BY <1>2, <1>5, <1>6 DEF Inv, Relays, Arrived, Procs
<1>12. RetriesLeft'
  BY <1>6 DEF Inv, Relays, RetriesLeft
<1> QED BY <1>7, <1>8, <1>9, <1>10, <1>11, <1>12 DEF Inv, Relays

\* What a commit finds, and what it makes of the rows.
LEMMA Committing ==
    ASSUME Inv, NEW p \in Procs, Commit(p)
    PROVE  /\ tx[p].sent \subseteq Rows /\ tx[p].failed \subseteq Rows
           /\ tx[p].sent \cap tx[p].failed = {}
           /\ tx[p].sent \cup tx[p].failed = tx[p].rows /\ tx[p].alive
           /\ \A r \in tx[p].rows : row[r].status = "PENDING"
           /\ \A r \in tx[p].sent : row'[r] = Completed(r)
           /\ \A r \in tx[p].failed : row'[r] = Failed(p, r)
           /\ \A r \in Rows \ tx[p].rows : row'[r] = row[r]
           /\ row' \in [Rows -> Row]
<1>1. /\ tx[p] \in Tx /\ pc[p] = "batch" /\ Todo(p) = {} /\ Sound(p, tx[p], pc[p])
  BY DEF Inv, Relays, TypeOK, Tx, Batches, Commit
<1>2. /\ tx[p].sent \subseteq Rows /\ tx[p].failed \subseteq Rows
      /\ tx[p].sent \cap tx[p].failed = {}
      /\ tx[p].sent \cup tx[p].failed = tx[p].rows /\ tx[p].alive
  BY <1>1 DEF Sound, Todo, Tx
<1>3. \A r \in tx[p].rows : row[r].status = "PENDING"
  BY <1>2 DEF Inv, Relays, RowsHeld
<1>4. \A r \in Rows : row'[r] = CASE r \in tx[p].sent   -> Completed(r)
                                  [] r \in tx[p].failed -> Failed(p, r)
                                  [] OTHER              -> row[r]
  BY DEF Commit
<1>5. \A r \in tx[p].sent : row'[r] = Completed(r)
  BY <1>2, <1>4
<1>6. \A r \in tx[p].failed : row'[r] = Failed(p, r)
  BY <1>2, <1>4
<1>7. \A r \in Rows \ tx[p].rows : row'[r] = row[r]
  BY <1>2, <1>4
<1>8. \A r \in Rows : row'[r] \in Row
  <2> TAKE r \in Rows
  <2>1. CASE r \in tx[p].rows
    BY <1>2, <1>3, <1>5, <1>6, <2>1, RowTypes
  <2>2. CASE r \notin tx[p].rows
    BY <1>7, <2>2 DEF Inv, Relays, TypeOK
  <2> QED BY <2>1, <2>2
<1>9. row' \in [Rows -> Row]
  BY <1>8 DEF Commit
<1> QED BY <1>2, <1>3, <1>5, <1>6, <1>7, <1>9

LEMMA CommitStep ==
    ASSUME Inv, NEW p \in Procs, Commit(p)
    PROVE  Relays'
<1>1. /\ tx[p].alive /\ row' \in [Rows -> Row]
      /\ \A r \in Rows \ tx[p].rows : row'[r] = row[r]
  BY Committing
<1>2. /\ tx' = [tx EXCEPT ![p] = NoTx] /\ pc' = [pc EXCEPT ![p] = "poll"]
      /\ UNCHANGED <<copies, bound, link, task, consumer, faults>>
  BY DEF Commit
<1>3. tx \in [Procs -> Tx] /\ pc \in [Procs -> {"off", "poll", "batch", "confirm"}]
  BY DEF Inv, Relays, TypeOK, Tx
<1>4. \A q \in Procs : /\ tx'[q] = IF q = p THEN NoTx ELSE tx[q]
                       /\ pc'[q] = IF q = p THEN "poll" ELSE pc[q]
  BY <1>2, <1>3
<1>5. TypeOK'
  <2>1. tx' \in [Procs -> Tx] /\ pc' \in [Procs -> {"off", "poll", "batch", "confirm"}]
    BY <1>2, <1>3, NoTxType
  <2> QED BY <1>1, <1>2, <2>1 DEF Inv, Relays, TypeOK, Tx
<1>6. Batches' /\ Exclusive'
  BY <1>4, NoTxType DEF Inv, Relays, Batches, Sound, Exclusive, RowsOf
<1>7. RowsHeld'
  <2> SUFFICES ASSUME NEW q \in Procs, q # p, NEW r \in tx[q].rows
               PROVE  /\ row'[r].status # "NONE"
                      /\ tx[q].alive => row'[r].status = "PENDING"
    BY <1>4, NoTxType DEF RowsHeld
  <2>1. row[r].status # "NONE" /\ (tx[q].alive => row[r].status = "PENDING") /\ r \in Rows
    BY <1>3 DEF Inv, Relays, RowsHeld, Tx
  <2>2. tx[q].alive => r \notin tx[p].rows
    BY <1>1 DEF Inv, Relays, Exclusive
  <2>3. r \in tx[p].rows => row'[r].status # "NONE"
    BY Committing, RowTypes
  <2> QED BY <1>1, <2>1, <2>2, <2>3
<1>8. Arrived'
  BY <1>2, <1>4, NoTxType DEF Inv, Relays, Arrived, Procs
<1>9. RetriesLeft'
  <2> SUFFICES ASSUME NEW r \in Rows, row'[r].status \in {"NONE", "PENDING"}
               PROVE  row'[r].retries < MaxRetries
    BY DEF RetriesLeft
  <2>1. CASE r \in tx[p].rows
    BY <2>1, Committing, RowTypes
  <2>2. CASE r \notin tx[p].rows
    BY <1>1, <2>2 DEF Inv, Relays, RetriesLeft
  <2> QED BY <2>1, <2>2
<1> QED BY <1>5, <1>6, <1>7, <1>8, <1>9 DEF Inv, Relays

LEMMA StepRelays == Inv /\ [Next]_vars => Relays'
<1> SUFFICES ASSUME Inv, [Next]_vars PROVE Relays'
  OBVIOUS
<1> DEFINE Rest == Batches' /\ RowsHeld' /\ Exclusive' /\ Arrived'
<1>0. /\ TypeOK /\ RetriesLeft /\ faults \in 0..MaxFaults
      /\ tx \in [Procs -> Tx] /\ copies \in [Rows -> Nat]
      /\ pc \in [Procs -> {"off", "poll", "batch", "confirm"}]
  BY DEF Inv, Relays, TypeOK, Tx
<1>a. \A r \in Rows : copies[r] >= copies[r]
  BY <1>0
<1>1. CASE UNCHANGED vars
  <2>1. Rest
    BY <1>0, <1>1, RestStep DEF vars, TypeOK
  <2> QED BY <1>1, <2>1 DEF vars, Inv, Relays, TypeOK, RetriesLeft
<1>2. ASSUME NEW r \in Rows, Enqueue(r) PROVE Relays'
  <2>1. /\ row' \in [Rows -> Row]
        /\ \A s \in Rows : row'[s].status = IF s = r THEN "PENDING" ELSE row[s].status
    BY <1>0, <1>2 DEF Enqueue, TypeOK, Row
  <2>2. RetriesLeft'
    BY <1>0, <1>2 DEF Enqueue, RetriesLeft, TypeOK, Row
  <2>3. Rest
    BY <1>2, <2>1, RestStep DEF Enqueue
  <2> QED BY <1>0, <1>2, <2>1, <2>2, <2>3 DEF Enqueue, Inv, Relays, TypeOK
<1>3. ASSUME NEW r \in Rows, Due(r) PROVE Relays'
  <2>1. /\ row' \in [Rows -> Row]
        /\ \A s \in Rows : row'[s].status = row[s].status /\ row'[s].retries = row[s].retries
    <3>1. [row[r] EXCEPT !.due = TRUE] \in Row
      <4>1. row[r] \in Row
        BY <1>0 DEF TypeOK
      <4> QED BY <4>1 DEF Row
    <3>2. row' = [row EXCEPT ![r] = [row[r] EXCEPT !.due = TRUE]]
      BY <1>3 DEF Due
    <3> QED BY <1>0, <3>1, <3>2 DEF TypeOK, Row
  <2>2. Rest
    BY <1>3, <2>1, RestStep DEF Due
  <2> QED BY <1>0, <1>3, <2>1, <2>2 DEF Due, Inv, Relays, TypeOK, RetriesLeft
<1>4. CASE CreditStarts
  <2>1. Rest
    BY <1>0, <1>4, RestStep DEF CreditStarts, TypeOK
  <2> QED BY <1>0, <1>4, <2>1 DEF CreditStarts, Inv, Relays, TypeOK, RetriesLeft
<1>5. ASSUME NEW p \in Procs, Fetch(p) PROVE Relays'
  BY <1>5, FetchStep
<1>6. ASSUME NEW p \in Procs, Publish(p) PROVE Relays'
  <2> DEFINE t == IF link[p] = "up" THEN tx[p]
                  ELSE [rows |-> tx[p].rows, sent |-> tx[p].sent,
                        failed |-> tx[p].failed \cup {Oldest(p)}, alive |-> tx[p].alive]
             c == IF link[p] = "up" THEN "confirm" ELSE pc[p]
  <2>1. tx[p] \in Tx /\ Sound(p, tx[p], pc[p]) /\ Todo(p) # {} /\ pc[p] = "batch"
    BY <1>0, <1>6 DEF Publish, Inv, Relays, Batches
  <2>2. /\ Oldest(p) \in Rows /\ Oldest(p) \in tx[p].rows
        /\ Oldest(p) \notin tx[p].sent \cup tx[p].failed
    BY <2>1, OldestOfBatch
  <2>3. tx' = [tx EXCEPT ![p] = t] /\ pc' = [pc EXCEPT ![p] = c]
    BY <1>0, <1>6 DEF Publish, Tx
  <2>4. t \in Tx /\ t.rows = tx[p].rows /\ t.sent = tx[p].sent /\ t.alive = tx[p].alive
    BY <2>1, <2>2 DEF Tx
  <2>5. Sound(p, t, c) /\ c \in {"batch", "confirm"}
    BY <2>1, <2>2 DEF Sound, Todo
  <2> HIDE DEF t, c
  <2>6. /\ UNCHANGED <<row, copies, bound, link, task, consumer, faults>>
        /\ copies' \in [Rows -> Nat] /\ \A r \in Rows : copies'[r] >= copies[r]
    BY <1>0, <1>6, <1>a DEF Publish
  <2>7. p \in OrderProcs => \A r \in t.sent : copies'[r] > 0
    BY <2>4, <2>6 DEF Inv, Relays, Arrived
  <2>8. tx' \in [Procs -> Tx] /\ pc' \in [Procs -> {"off", "poll", "batch", "confirm"}] /\ Rest
    BY <2>3, <2>4, <2>5, <2>6, <2>7, TxStep
  <2> QED BY <1>0, <2>6, <2>8 DEF Inv, Relays, TypeOK, Tx, RetriesLeft
<1>7. ASSUME NEW p \in Procs, Confirm(p) PROVE Relays'
  <2>1. Todo(p) # {} /\ pc[p] = "confirm" /\ Routable(p) \in BOOLEAN
    BY <1>7 DEF Confirm, Inv, Relays, Batches, Sound, Todo, Routable
  <2>2. /\ copies' \in [Rows -> Nat] /\ \A r \in Rows : copies'[r] >= copies[r]
        /\ bound => copies'[Oldest(p)] > 0
    BY <1>7, <2>1, Arriving DEF Confirm
  <2>3. Note(p, Routable(p)) /\ UNCHANGED <<row, bound, link, task, consumer, faults>>
    BY <1>7 DEF Confirm
  <2>4. Routable(p) /\ p \in OrderProcs => copies'[Oldest(p)] > 0
    BY <2>2 DEF Routable
  <2>5. tx' \in [Procs -> Tx] /\ pc' \in [Procs -> {"off", "poll", "batch", "confirm"}] /\ Rest
    BY <2>1, <2>2, <2>3, <2>4, Noting
  <2> QED BY <1>0, <2>2, <2>3, <2>5 DEF Inv, Relays, TypeOK, Tx, RetriesLeft
<1>8. ASSUME NEW p \in Procs, Commit(p) PROVE Relays'
  BY <1>8, CommitStep
<1>9. ASSUME NEW p \in Procs, DbFails(p) PROVE Relays'
  <2>1. UNCHANGED <<row, copies, bound, link, task, consumer>> /\ faults' \in 0..MaxFaults
    BY <1>0, <1>9, FaultCounts DEF DbFails
  <2>2. tx' \in [Procs -> Tx] /\ pc' \in [Procs -> {"off", "poll", "batch", "confirm"}] /\ Rest
    <3>1. CASE tx' = [tx EXCEPT ![p] = NoTx] /\ pc' = [pc EXCEPT ![p] = "poll"]
      BY <1>0, <1>a, <2>1, <3>1, GivingUp
    <3>2. CASE /\ pc[p] = "confirm" /\ tx[p].alive /\ pc' = pc
               /\ tx' = [tx EXCEPT ![p].alive = FALSE]
      <4> DEFINE t == [tx[p] EXCEPT !.alive = FALSE]
      <4>1. tx' = [tx EXCEPT ![p] = t] /\ pc' = [pc EXCEPT ![p] = "confirm"]
        BY <1>0, <3>2
      <4>2. tx[p] \in Tx /\ Sound(p, tx[p], "confirm")
        BY <1>0, <3>2 DEF Inv, Relays, Batches
      <4>3. /\ t \in Tx /\ t.rows = tx[p].rows /\ t.sent = tx[p].sent /\ t.failed = tx[p].failed
            /\ ~t.alive
        BY <4>2 DEF Tx
      <4> HIDE DEF t
      <4>4. Sound(p, t, "confirm")
        BY <4>2, <4>3 DEF Sound
      <4>5. p \in OrderProcs => \A r \in t.sent : copies'[r] > 0
        BY <2>1, <4>3 DEF Inv, Relays, Arrived
      <4> QED BY <1>0, <1>a, <2>1, <4>1, <4>3, <4>4, <4>5, TxStep
    <3> QED BY <1>9, <3>1, <3>2 DEF DbFails
  <2> QED BY <1>0, <2>1, <2>2 DEF Inv, Relays, TypeOK, Tx, RetriesLeft
<1>10. ASSUME NEW p \in Procs, Crash(p) PROVE Relays'
  <2>1. faults' \in 0..MaxFaults /\ row' = row /\ bound' = bound
    BY <1>0, <1>10, FaultCounts DEF Crash
  <2>2. copies' \in [Rows -> Nat] /\ \A r \in Rows : copies'[r] >= copies[r]
    <3>1. CASE copies' = copies
      BY <1>0, <1>a, <3>1
    <3>2. CASE pc[p] = "confirm" /\ \E accepted \in BOOLEAN : Arrives(p, accepted)
      <4>1. Todo(p) # {}
        BY <3>2 DEF Inv, Relays, Batches, Sound, Todo
      <4> QED BY <3>2, <4>1, Arriving
    <3> QED BY <1>10, <3>1, <3>2 DEF Crash
  <2>3. tx' \in [Procs -> Tx] /\ pc' \in [Procs -> {"off", "poll", "batch", "confirm"}] /\ Rest
    <3>1. \/ pc' = [pc EXCEPT ![p] = "poll"]
          \/ pc' = [pc EXCEPT ![p] = "off"]
      BY <1>10 DEF Crash
    <3> QED BY <1>10, <2>1, <2>2, <3>1, GivingUp DEF Crash
  <2>4. /\ link' \in [Procs -> {"down", "up", "deaf"}]
        /\ task' \in [UserProcs -> {"first", "waitUp", "consume", "running", "backoff", "stop"}]
        /\ consumer' \in [UserProcs -> BOOLEAN]
    BY <1>0, <1>10 DEF Crash, TypeOK
  <2> QED BY <1>0, <2>1, <2>2, <2>3, <2>4 DEF Inv, Relays, TypeOK, Tx, RetriesLeft
<1>11. ASSUME NEW p \in OrderProcs, OrderConnects(p) PROVE Relays'
  <2>1. Rest
    BY <1>0, <1>11, RestStep DEF OrderConnects, TypeOK
  <2> QED BY <1>0, <1>11, <2>1 DEF OrderConnects, Inv, Relays, TypeOK, RetriesLeft
<1>12. ASSUME NEW p \in Procs, Rejects(p) 
       PROVE  /\ copies' \in [Rows -> Nat]
              /\ row' = row => /\ tx' \in [Procs -> Tx]
                               /\ pc' \in [Procs -> {"off", "poll", "batch", "confirm"}]
                               /\ Rest
  <2>1. CASE UNCHANGED <<tx, pc, copies>>
    <3>1. row' = row => Rest
      BY <1>0, <2>1, RestStep DEF TypeOK
    <3> QED BY <1>0, <2>1, <3>1
  <2>2. CASE pc[p] = "confirm" /\ Note(p, FALSE) /\ \E accepted \in BOOLEAN : Arrives(p, accepted)
    <3>1. Todo(p) # {}
      BY <2>2 DEF Inv, Relays, Batches, Sound, Todo
    <3>2. copies' \in [Rows -> Nat] /\ \A r \in Rows : copies'[r] >= copies[r]
      BY <2>2, <3>1, Arriving
    <3> QED BY <2>2, <3>2, Noting
  <2> QED BY <1>12, <2>1, <2>2 DEF Rejects
<1>13. ASSUME NEW p \in OrderProcs, OrderDisconnects(p) PROVE Relays'
  <2>1. p \in Procs /\ Rejects(p) /\ faults' \in 0..MaxFaults
    BY <1>0, <1>13, FaultCounts DEF OrderDisconnects, Procs
  <2>2. /\ link' \in [Procs -> {"down", "up", "deaf"}]
        /\ UNCHANGED <<row, bound, task, consumer>>
    BY <1>0, <1>13 DEF OrderDisconnects, TypeOK
  <2> QED BY <1>0, <1>12, <2>1, <2>2 DEF Inv, Relays, TypeOK, Tx, RetriesLeft
<1>14. ASSUME NEW p \in UserProcs, UserConnects(p) PROVE Relays'
  <2>1. Rest
    BY <1>0, <1>14, RestStep DEF UserConnects, TypeOK
  <2>2. task' \in [UserProcs -> {"first", "waitUp", "consume", "running", "backoff", "stop"}]
    BY <1>0, <1>14 DEF UserConnects, TypeOK
  <2> QED BY <1>0, <1>14, <2>1, <2>2 DEF UserConnects, Inv, Relays, TypeOK, RetriesLeft
<1>15. ASSUME NEW p \in UserProcs, UserDisconnects(p) PROVE Relays'
  <2>1. p \in Procs /\ Rejects(p) /\ faults' \in 0..MaxFaults
    BY <1>0, <1>15, FaultCounts DEF UserDisconnects, Procs
  <2>2. /\ link' \in [Procs -> {"down", "up", "deaf"}]
        /\ UNCHANGED <<row, bound>>
    BY <1>0, <1>15 DEF UserDisconnects, TypeOK
  <2>3. /\ task' \in [UserProcs -> {"first", "waitUp", "consume", "running", "backoff", "stop"}]
        /\ consumer' \in [UserProcs -> BOOLEAN]
    BY <1>0, <1>15 DEF UserDisconnects, Disconnected, TypeOK
  <2> QED BY <1>0, <1>12, <2>1, <2>2, <2>3 DEF Inv, Relays, TypeOK, Tx, RetriesLeft
<1>16. ASSUME NEW p \in UserProcs, QueueTasks(p) PROVE Relays'
  <2>1. /\ UNCHANGED <<row, copies, bound, link, tx, faults>>
        /\ task' \in [UserProcs -> {"first", "waitUp", "consume", "running", "backoff", "stop"}]
        /\ consumer' \in [UserProcs -> BOOLEAN]
        /\ \/ pc' = pc
           \/ pc[p] = "off" /\ pc' = [pc EXCEPT ![p] = "poll"]
           \/ pc[p] = "poll" /\ pc' = [pc EXCEPT ![p] = "off"]
    BY <1>0, <1>16 DEF QueueTasks, StartWorkers, Consume, BackoffOver, Stopped, TypeOK, Inv, Stands
  <2>2. tx' \in [Procs -> Tx] /\ pc' \in [Procs -> {"off", "poll", "batch", "confirm"}] /\ Rest
    <3>1. CASE pc' = pc
      BY <1>0, <2>1, <3>1, RestStep DEF TypeOK
    <3>2. ASSUME NEW c \in {"off", "poll"}, pc[p] \in {"off", "poll"}, pc' = [pc EXCEPT ![p] = c]
          PROVE  /\ tx' \in [Procs -> Tx]
                 /\ pc' \in [Procs -> {"off", "poll", "batch", "confirm"}]
                 /\ Rest
      <4>1. p \in Procs
        BY DEF Procs
      <4>2. tx[p] = NoTx
        BY <3>2, <4>1 DEF Inv, Relays, Batches, Sound
      <4>3. tx' = [tx EXCEPT ![p] = NoTx]
        BY <1>0, <2>1, <4>2
      <4> QED BY <1>0, <1>a, <2>1, <3>2, <4>1, <4>3, GivingUp
    <3>3. "off" \in {"off", "poll"} /\ "poll" \in {"off", "poll"}
      OBVIOUS
    <3> QED BY <1>0, <2>1, <3>1, <3>2, <3>3
  <2> QED BY <1>0, <2>1, <2>2 DEF Inv, Relays, TypeOK, Tx, RetriesLeft
<1> QED BY <1>1, <1>2, <1>3, <1>4, <1>5, <1>6, <1>7, <1>8, <1>9, <1>10, <1>11, <1>13, <1>14,
           <1>15, <1>16
        DEF Next, Relay

LEMMA StepStands == Inv /\ [Next]_vars => Stands'
<1> SUFFICES ASSUME Inv, [Next]_vars, NEW u \in UserProcs, task'[u] \in {"first", "waitUp"}
             PROVE  pc'[u] = "off"
  BY DEF Stands
<1>0. /\ pc \in [Procs -> {"off", "poll", "batch", "confirm"}] /\ u \in Procs
      /\ task \in [UserProcs -> {"first", "waitUp", "consume", "running", "backoff", "stop"}]
      /\ task[u] \in {"first", "waitUp"} => pc[u] = "off"
  BY DEF Inv, Relays, TypeOK, Procs, Stands
<1>2. CASE task' = task /\ pc' = pc
  BY <1>0, <1>2
<1>3. ASSUME NEW p \in Procs, Fetch(p) PROVE pc'[u] = "off"
  BY <1>0, <1>3, RelayAssumption DEF Fetch, Running
<1>4. ASSUME NEW p \in Procs, Publish(p) \/ Commit(p) \/ DbFails(p) PROVE pc'[u] = "off"
  BY <1>0, <1>4 DEF Publish, Commit, DbFails
<1>5. ASSUME NEW p \in Procs, Confirm(p) PROVE pc'[u] = "off"
  BY <1>0, <1>5 DEF Confirm, Note
<1>6. ASSUME NEW p \in Procs, Crash(p) PROVE pc'[u] = "off"
  BY <1>0, <1>6, RelayAssumption DEF Crash
<1>7. ASSUME NEW p \in OrderProcs, OrderDisconnects(p) PROVE pc'[u] = "off"
  BY <1>0, <1>7 DEF OrderDisconnects, Rejects, Note, Procs
<1>8. ASSUME NEW p \in UserProcs, UserConnects(p) PROVE pc'[u] = "off"
  BY <1>0, <1>8 DEF UserConnects
<1>9. ASSUME NEW p \in UserProcs, UserDisconnects(p) PROVE pc'[u] = "off"
  <2>1. task[u] \in {"first", "waitUp"}
    BY <1>0, <1>9 DEF UserDisconnects, Disconnected
  <2> QED BY <1>0, <1>9, <2>1 DEF UserDisconnects, Rejects, Note, Procs
<1>10. ASSUME NEW p \in UserProcs, QueueTasks(p) PROVE pc'[u] = "off"
  BY <1>0, <1>10 DEF QueueTasks, StartWorkers, Consume, BackoffOver, Stopped
<1> QED BY <1>2, <1>3, <1>4, <1>5, <1>6, <1>7, <1>8, <1>9, <1>10
        DEF Next, Relay, vars, Enqueue, Due, CreditStarts, OrderConnects

LEMMA InvHolds == Spec => []Inv
<1>1. Inv /\ [Next]_vars => Inv'
  BY StepRelays, StepStands DEF Inv
<1> QED BY InitInv, <1>1, PTL DEF Spec

-----------------------------------------------------------------------------
\* A step that leaves the copies and the status of all rows alone is a stutter.
LEMMA Stutter ==
    ASSUME copies' = copies, \A r \in Rows : row'[r].status = row[r].status
    PROVE  UNCHANGED Delivery!vars
    BY DEF Delivery!vars, Status

\* A step that lets a copy of a row arrive, or none.
LEMMA Arrival ==
    ASSUME Inv, NEW p \in Procs, pc[p] = "confirm", NEW accepted \in BOOLEAN,
           Arrives(p, accepted), row' = row
    PROVE  [Delivery!Next]_(Delivery!vars)
<1>1. Todo(p) # {}
  BY DEF Inv, Relays, Batches, Sound, Todo
<1>2. Oldest(p) \in Rows /\ row[Oldest(p)].status # "NONE"
  BY <1>1, OldestOfBatch DEF Inv, Relays, RowsHeld
<1>3. row[Oldest(p)] \in Row
  BY <1>2 DEF Inv, Relays, TypeOK
<1>4. CASE copies' = copies
  BY <1>4, Stutter
<1>5. CASE copies' = [copies EXCEPT ![Oldest(p)] = @ + 1]
  <2>1. Delivery!Arrive(Oldest(p))
    BY <1>2, <1>3, <1>5 DEF Delivery!Arrive, Status, Row
  <2> QED BY <1>2, <2>1 DEF Delivery!Next
<1> QED BY <1>4, <1>5 DEF Arrives

LEMMA StepSimulates == Inv /\ [Next]_vars => [Delivery!Next]_(Delivery!vars)
<1> SUFFICES ASSUME Inv, [Next]_vars PROVE [Delivery!Next]_(Delivery!vars)
  OBVIOUS
<1>0. row \in [Rows -> Row] /\ copies \in [Rows -> Nat]
  BY DEF Inv, Relays, TypeOK
<1>1. CASE UNCHANGED <<row, copies>>
  BY <1>1, Stutter
<1>2. ASSUME NEW r \in Rows, Enqueue(r) PROVE [Delivery!Next]_(Delivery!vars)
  <2>1. /\ row[r].status = "NONE" /\ copies' = copies
        /\ \A s \in Rows : row'[s].status = IF s = r THEN "PENDING" ELSE row[s].status
    BY <1>0, <1>2 DEF Enqueue, Row
  <2>2. Delivery!Write(r)
    BY <2>1 DEF Delivery!Write, Status
  <2> QED BY <2>2 DEF Delivery!Next
<1>3. ASSUME NEW r \in Rows, Due(r) PROVE [Delivery!Next]_(Delivery!vars)
  <2>1. copies' = copies /\ \A s \in Rows : row'[s].status = row[s].status
    BY <1>0, <1>3 DEF Due, Row
  <2> QED BY <2>1, Stutter
<1>4. ASSUME NEW p \in Procs, Confirm(p) PROVE [Delivery!Next]_(Delivery!vars)
  BY <1>4, Arrival DEF Confirm
<1>5. ASSUME NEW p \in Procs, Commit(p) PROVE [Delivery!Next]_(Delivery!vars)
  <2> DEFINE done == tx[p].sent
             lost == {r \in tx[p].failed : Failed(p, r).status = "FAILED"}
  <2>1. /\ \A r \in done : row[r].status = "PENDING" /\ row'[r].status = "COMPLETED"
        /\ \A r \in lost : row[r].status = "PENDING" /\ row'[r].status = "FAILED"
        /\ \A r \in Rows \ (done \cup lost) : row'[r].status = row[r].status
        /\ done \subseteq Rows /\ lost \subseteq Rows /\ done \cap lost = {}
    <3>1. /\ tx[p].sent \subseteq Rows /\ tx[p].failed \subseteq Rows
          /\ tx[p].sent \cap tx[p].failed = {}
          /\ tx[p].sent \cup tx[p].failed = tx[p].rows
          /\ \A r \in tx[p].rows : row[r].status = "PENDING"
          /\ \A r \in tx[p].sent : row'[r] = Completed(r)
          /\ \A r \in tx[p].failed : row'[r] = Failed(p, r)
          /\ \A r \in Rows \ tx[p].rows : row'[r] = row[r]
      BY <1>5, Committing
    <3>2. \A r \in tx[p].rows : /\ Completed(r).status = "COMPLETED"
                                /\ Failed(p, r).status \in {"PENDING", "FAILED"}
      BY <3>1, RowTypes
    <3> QED BY <3>1, <3>2
  <2>2. \A r \in done \cap OrderRows : copies[r] > 0
    <3>1. tx[p].rows \subseteq RowsOf(p) /\ tx[p].sent \subseteq tx[p].rows
      BY DEF Inv, Relays, Batches, Sound
    <3>2. p \notin OrderProcs => done \cap OrderRows = {}
      BY <3>1 DEF RowsOf
    <3> QED BY <3>2 DEF Inv, Relays, Arrived
  <2>3. lost \cap OrderRows = {}
    <3>1. tx[p].rows \subseteq RowsOf(p) /\ tx[p].failed \subseteq tx[p].rows
      BY DEF Inv, Relays, Batches, Sound
    <3>2. p \notin OrderProcs => lost \cap OrderRows = {}
      BY <3>1 DEF RowsOf
    <3>3. p \in OrderProcs => lost = {}
      BY <1>5, Committing, RowTypes
    <3> QED BY <3>2, <3>3
  <2>4. copies' = copies
    BY <1>5 DEF Commit
  <2> HIDE DEF done, lost
  <2>5. CASE done \cup lost = {}
    BY <2>1, <2>4, <2>5, Stutter
  <2>6. CASE done \cup lost # {}
    <3>1. /\ Status("PENDING")' = Status("PENDING") \ (done \cup lost)
          /\ Status("COMPLETED")' = Status("COMPLETED") \cup done
          /\ Status("FAILED")' = Status("FAILED") \cup lost
          /\ done \cup lost \subseteq Status("PENDING")
      BY <2>1 DEF Status
    <3>2. Delivery!Conclude(done, lost)
      BY <2>1, <2>2, <2>3, <2>4, <2>6, <3>1 DEF Delivery!Conclude
    <3>3. done \in SUBSET Rows /\ lost \in SUBSET Rows
      BY <2>1
    <3> QED BY <3>2, <3>3 DEF Delivery!Next
  <2> QED BY <2>5, <2>6
<1>6. ASSUME NEW p \in Procs, Crash(p) \/ OrderDisconnects(p) \/ UserDisconnects(p)
      PROVE  [Delivery!Next]_(Delivery!vars)
  <2>1. row' = row
    BY <1>6 DEF Crash, OrderDisconnects, UserDisconnects
  <2>2. \/ copies' = copies
        \/ pc[p] = "confirm" /\ \E accepted \in BOOLEAN : Arrives(p, accepted)
    BY <1>6 DEF Crash, OrderDisconnects, UserDisconnects, Rejects
  <2> QED BY <2>1, <2>2, Stutter, Arrival
<1>7. ASSUME NEW p \in Procs, Fetch(p) \/ Publish(p) \/ DbFails(p)
      PROVE  [Delivery!Next]_(Delivery!vars)
  <2>1. UNCHANGED <<row, copies>>
    BY <1>7 DEF Fetch, Publish, DbFails
  <2> QED BY <1>1, <2>1
<1>8. CASE CreditStarts \/ \E p \in Procs : OrderConnects(p) \/ UserConnects(p) \/ QueueTasks(p)
  <2>1. UNCHANGED <<row, copies>>
    BY <1>8 DEF CreditStarts, OrderConnects, UserConnects, QueueTasks, StartWorkers, Consume,
                BackoffOver, Stopped
  <2> QED BY <1>1, <2>1
<1> QED BY <1>1, <1>2, <1>3, <1>4, <1>5, <1>6, <1>7, <1>8 DEF Next, Relay, vars, Procs

-----------------------------------------------------------------------------
\* Copies.  What may still add a copy of a row without another fault is counted with the
\* copies there are: a living attempt that has not been noted as sent, and every relay that
\* waits for the broker over a transaction the database has ended.

Dead(r) == {p \in Procs : ~tx[p].alive /\ Oldest(p) = r}
SentInTx(r) == \E p \in Procs : tx[p].alive /\ r \in tx[p].sent
Open(r) == row[r].status \in {"NONE", "PENDING"} /\ ~SentInTx(r)

N(b) == IF b THEN 1 ELSE 0

CopiesCounted ==
    \A r \in Rows : /\ IsFiniteSet(Dead(r))
                    /\ copies[r] + Cardinality(Dead(r)) + N(Open(r)) <= 1 + faults

\* Oldest depends on the transaction only.
LeastOf(T) == CHOOSE r \in T : \A s \in T : r <= s

LEMMA OldestSame ==
    ASSUME NEW p \in Procs, tx'[p].rows = tx[p].rows, tx'[p].sent = tx[p].sent,
           tx'[p].failed = tx[p].failed
    PROVE  Oldest(p)' = Oldest(p)
<1>1. Oldest(p) = LeastOf(Todo(p)) /\ Oldest(p)' = LeastOf(Todo(p)')
  BY DEF Oldest, LeastOf
<1>2. Todo(p)' = Todo(p)
  BY DEF Todo
<1> QED BY <1>1, <1>2

LEMMA DeadChange ==
    ASSUME NEW p \in Procs, NEW r \in Rows, IsFiniteSet(Dead(r)),
           \A q \in Procs : q # p => tx'[q] = tx[q]
    PROVE  /\ IsFiniteSet(Dead(r)') /\ Cardinality(Dead(r)) \in Nat
           /\ Cardinality(Dead(r)') + N(p \in Dead(r)) = Cardinality(Dead(r)) + N(p \in Dead(r)')
<1>1. \A q \in Procs : q # p => (q \in Dead(r)' <=> q \in Dead(r))
  <2> SUFFICES ASSUME NEW q \in Procs, q # p PROVE q \in Dead(r)' <=> q \in Dead(r)
    OBVIOUS
  <2>1. tx'[q] = tx[q] /\ Oldest(q)' = Oldest(q)
    BY OldestSame
  <2> QED BY <2>1 DEF Dead
<1>2. Dead(r) \subseteq Procs /\ Dead(r)' \subseteq Procs
  BY DEF Dead
<1>. PICK D : D = Dead(r)
  OBVIOUS
<1>. PICK E : E = Dead(r)'
  OBVIOUS
<1>3. E = IF p \in E THEN (D \ {p}) \cup {p} ELSE D \ {p}
  BY <1>1, <1>2
<1>4. IsFiniteSet(D) /\ Cardinality(D) \in Nat
  BY FS_CardinalityType
<1>5. /\ IsFiniteSet(D \ {p})
      /\ Cardinality(D \ {p}) = IF p \in D THEN Cardinality(D) - 1 ELSE Cardinality(D)
  BY <1>4, FS_RemoveElement
<1>6. /\ IsFiniteSet((D \ {p}) \cup {p})
      /\ Cardinality((D \ {p}) \cup {p}) = Cardinality(D \ {p}) + 1
  BY <1>5, FS_AddElement
<1>7. IsFiniteSet(E) /\ Cardinality(E) = Cardinality(D \ {p}) + N(p \in E)
  <2>1. Cardinality(D \ {p}) \in Int
    BY <1>4, <1>5
  <2>2. CASE p \in E
    BY <1>3, <1>6, <2>2 DEF N
  <2>3. CASE p \notin E
    BY <1>3, <1>5, <2>1, <2>3 DEF N
  <2> QED BY <2>2, <2>3
<1>8. Cardinality(E) + N(p \in D) = Cardinality(D) + N(p \in E)
  BY <1>4, <1>5, <1>7 DEF N
<1> QED BY <1>4, <1>7, <1>8

\* A step that touches one relay's transaction keeps the count if it does for that relay.
LEMMA CountStep ==
    ASSUME Inv, Inv', CopiesCounted, NEW p \in Procs,
           \A q \in Procs : q # p => tx'[q] = tx[q],
           \A r \in Rows : copies'[r] + N(p \in Dead(r)') + N(Open(r)') + faults
                              <= copies[r] + N(p \in Dead(r)) + N(Open(r)) + faults'
    PROVE  CopiesCounted'
<1> SUFFICES ASSUME NEW r \in Rows
             PROVE  /\ IsFiniteSet(Dead(r)')
                    /\ copies'[r] + Cardinality(Dead(r)') + N(Open(r)') <= 1 + faults'
  BY DEF CopiesCounted
<1>1. IsFiniteSet(Dead(r)) /\ copies[r] + Cardinality(Dead(r)) + N(Open(r)) <= 1 + faults
  BY DEF CopiesCounted
<1>2. /\ IsFiniteSet(Dead(r)') /\ Cardinality(Dead(r)) \in Nat /\ Cardinality(Dead(r)') \in Nat
      /\ Cardinality(Dead(r)') + N(p \in Dead(r)) = Cardinality(Dead(r)) + N(p \in Dead(r)')
  BY <1>1, DeadChange, FS_CardinalityType
<1>3. copies[r] \in Nat /\ copies'[r] \in Nat /\ faults \in Nat /\ faults' \in Nat
  BY RelayAssumption DEF Inv, Relays, TypeOK
<1>4. /\ N(Open(r)) \in Nat /\ N(Open(r)') \in Nat
      /\ N(p \in Dead(r)) \in Nat /\ N(p \in Dead(r)') \in Nat
  BY DEF N
<1>5. copies'[r] + N(p \in Dead(r)') + N(Open(r)') + faults
          <= copies[r] + N(p \in Dead(r)) + N(Open(r)) + faults'
  OBVIOUS
<1> QED BY <1>1, <1>2, <1>3, <1>4, <1>5

\* A step that changes neither copies nor transactions, nor opens a row.
LEMMA CountStays ==
    ASSUME Inv, CopiesCounted, UNCHANGED <<tx, copies, faults>>,
           \A r \in Rows : row'[r].status \in {"NONE", "PENDING"}
                              => row[r].status \in {"NONE", "PENDING"}
    PROVE  CopiesCounted'
<1> SUFFICES ASSUME NEW r \in Rows
             PROVE  /\ IsFiniteSet(Dead(r)')
                    /\ copies'[r] + Cardinality(Dead(r)') + N(Open(r)') <= 1 + faults'
  BY DEF CopiesCounted
<1>1. Dead(r)' = Dead(r)
  BY OldestSame DEF Dead
<1>2. Open(r)' => Open(r)
  BY DEF Open, SentInTx
<1>3. copies[r] \in Nat /\ faults \in Nat
  BY RelayAssumption DEF Inv, Relays, TypeOK
<1>4. IsFiniteSet(Dead(r)) /\ copies[r] + Cardinality(Dead(r)) + N(Open(r)) <= 1 + faults
  BY DEF CopiesCounted
<1>5. Cardinality(Dead(r)) \in Nat
  BY <1>4, FS_CardinalityType
<1> QED BY <1>1, <1>2, <1>3, <1>4, <1>5 DEF N

\* What is not sent in one living transaction stays open.
LEMMA OpenSame ==
    ASSUME NEW r \in Rows, row' = row,
           \A q \in Procs : tx'[q].alive /\ r \in tx'[q].sent <=> tx[q].alive /\ r \in tx[q].sent
    PROVE  Open(r)' <=> Open(r)
BY DEF Open, SentInTx

\* The row a relay waits for is open, while its transaction lives.
LEMMA HeldOpen ==
    ASSUME Inv, NEW p \in Procs, tx[p].alive, NEW r \in tx[p].rows, r \notin tx[p].sent
    PROVE  Open(r)
<1>1. row[r].status = "PENDING"
  BY DEF Inv, Relays, RowsHeld
<1>2. ASSUME NEW q \in Procs, tx[q].alive, r \in tx[q].sent PROVE FALSE
  <2>1. r \in tx[q].rows /\ q # p
    BY <1>2 DEF Inv, Relays, Batches, Sound
  <2> QED BY <1>2, <2>1 DEF Inv, Relays, Exclusive
<1> QED BY <1>1, <1>2 DEF Open, SentInTx

\* At most the row that is waited for gets a copy.
LEMMA CopyOfOldest ==
    ASSUME Inv, NEW p \in Procs, Todo(p) # {}, NEW accepted \in BOOLEAN, Arrives(p, accepted),
           NEW r \in Rows
    PROVE  copies[r] \in Nat /\ copies'[r] \in Nat /\ copies'[r] <= copies[r] + N(r = Oldest(p))
<1>1. copies \in [Rows -> Nat]
  BY DEF Inv, Relays, TypeOK
<1> QED BY <1>1 DEF Arrives, N

\* A relay whose transaction lives, or is none, waits over no dead one.
LEMMA NotDead ==
    ASSUME NEW p \in Procs, NEW r \in Rows
    PROVE  (tx[p].alive => p \notin Dead(r)) /\ (tx'[p].alive => p \notin Dead(r)')
BY DEF Dead

\* The broker is done with a publication, or the connection is: a fault unless the broker
\* confirmed it.
LEMMA NotingCounts ==
    ASSUME Inv, Inv', CopiesCounted, NEW p \in Procs, pc[p] = "confirm", NEW ok \in BOOLEAN,
           NEW accepted \in BOOLEAN, Note(p, ok), Arrives(p, accepted), row' = row,
           faults' \in Nat, faults' = faults \/ faults' = faults + 1,
           ~ok /\ accepted /\ bound => faults' = faults + 1
    PROVE  CopiesCounted'
<1>. PICK o : o = Oldest(p)
  OBVIOUS
<1>1. /\ tx \in [Procs -> Tx] /\ faults \in Nat /\ Todo(p) # {}
      /\ tx[p].sent \subseteq tx[p].rows
  BY RelayAssumption DEF Inv, Relays, TypeOK, Tx, Batches, Sound, Todo
<1>2. o \in Rows /\ o \in tx[p].rows /\ o \notin tx[p].sent
  BY <1>1, OldestOfBatch
<1>3. \A r \in Rows : /\ copies[r] \in Nat /\ copies'[r] \in Nat
                      /\ copies'[r] <= copies[r] + N(r = o)
  BY <1>1, CopyOfOldest
<1>4. \A q \in Procs : q # p => tx'[q] = tx[q]
  BY <1>1 DEF Note
<1>. SUFFICES ASSUME NEW r \in Rows
              PROVE  copies'[r] + N(p \in Dead(r)') + N(Open(r)') + faults
                        <= copies[r] + N(p \in Dead(r)) + N(Open(r)) + faults'
  BY <1>4, CountStep
<1>5. CASE tx[p].alive
  <2>1. /\ tx'[p].alive
        /\ tx'[p].sent = IF ok THEN tx[p].sent \cup {o} ELSE tx[p].sent
    <3>1. tx[p] \in Tx
      BY <1>1
    <3>2. CASE ok
      <4>1. tx'[p] = [tx[p] EXCEPT !.sent = @ \cup {o}]
        BY <1>1, <1>5, <3>2 DEF Note
      <4> QED BY <1>5, <3>1, <3>2, <4>1 DEF Tx
    <3>3. CASE ~ok
      <4>1. tx'[p] = [tx[p] EXCEPT !.failed = @ \cup {o}]
        BY <1>1, <1>5, <3>3 DEF Note
      <4> QED BY <1>5, <3>1, <3>3, <4>1 DEF Tx
    <3> QED BY <3>2, <3>3
  <2>2. p \notin Dead(r) /\ p \notin Dead(r)'
    BY <1>5, <2>1, NotDead
  <2>3. CASE ok /\ r = o
    <3>1. Open(r)
      BY <1>2, <1>5, <2>3, HeldOpen
    <3>2. ~Open(r)'
      BY <2>1, <2>3 DEF Open, SentInTx
    <3> QED BY <1>1, <1>3, <2>2, <2>3, <3>1, <3>2 DEF N
  <2>4. CASE ~ok \/ r # o
    <3>1. Open(r)' <=> Open(r)
      BY <1>4, <1>5, <2>1, <2>4, OpenSame
    <3>2. copies'[r] + faults <= copies[r] + faults'
      <4>1. CASE r = o
        <5>1. CASE accepted /\ bound
          BY <1>1, <1>3, <2>4, <4>1, <5>1 DEF N
        <5>2. CASE ~(accepted /\ bound)
          BY <1>1, <1>3, <5>2 DEF Arrives
        <5> QED BY <5>1, <5>2
      <4>2. CASE r # o
        BY <1>1, <1>3, <4>2 DEF N
      <4> QED BY <4>1, <4>2
    <3> QED BY <1>1, <1>3, <2>2, <3>1, <3>2 DEF N
  <2> QED BY <2>3, <2>4
<1>6. CASE ~tx[p].alive
  <2>1. tx'[p] = NoTx
    BY <1>1, <1>6 DEF Note
  <2>2. p \notin Dead(r)' /\ (p \in Dead(r) <=> r = o)
    BY <1>6, <2>1, NoTxType DEF Dead
  <2>3. Open(r)' <=> Open(r)
    BY <1>4, <1>6, <2>1, NoTxType, OpenSame
  <2> QED BY <1>1, <1>3, <2>2, <2>3 DEF N
<1> QED BY <1>5, <1>6

\* A relay loses its transaction, and perhaps a publication that gets through.
LEMMA LosingCounts ==
    ASSUME Inv, Inv', CopiesCounted, NEW p \in Procs, tx' = [tx EXCEPT ![p] = NoTx], row' = row,
           faults' = faults + 1,
           \/ pc[p] = "confirm" /\ \E accepted \in BOOLEAN : Arrives(p, accepted)
           \/ pc[p] # "confirm" /\ copies' = copies
    PROVE  CopiesCounted'
<1>1. /\ tx \in [Procs -> Tx] /\ copies \in [Rows -> Nat] /\ faults \in Nat
      /\ pc[p] = "confirm" => Todo(p) # {}
      /\ ~tx[p].alive => pc[p] = "confirm"
  BY RelayAssumption DEF Inv, Relays, TypeOK, Tx, Batches, Sound, Todo
<1>. SUFFICES ASSUME NEW r \in Rows
              PROVE  copies'[r] + N(p \in Dead(r)') + N(Open(r)') + faults
                        <= copies[r] + N(p \in Dead(r)) + N(Open(r)) + faults'
  BY <1>1, CountStep
<1>2. p \notin Dead(r)' /\ copies[r] \in Nat
  BY <1>1, NoTxType DEF Dead
<1>3. CASE pc[p] # "confirm"
  BY <1>1, <1>2, <1>3 DEF N
<1>4. CASE pc[p] = "confirm"
  <2>1. copies'[r] \in Nat /\ copies'[r] <= copies[r] + N(r = Oldest(p))
    BY <1>1, <1>4, CopyOfOldest
  <2>2. CASE r # Oldest(p)
    BY <1>1, <1>2, <2>1, <2>2 DEF N
  <2>3. CASE r = Oldest(p) /\ ~tx[p].alive
    <3>1. p \in Dead(r)
      BY <2>3 DEF Dead
    <3> QED BY <1>1, <1>2, <2>1, <3>1 DEF N
  <2>4. CASE r = Oldest(p) /\ tx[p].alive
    <3>1. Open(r)
      BY <1>1, <1>4, <2>4, OldestOfBatch, HeldOpen
    <3> QED BY <1>1, <1>2, <2>1, <3>1 DEF N
  <2> QED BY <2>2, <2>3, <2>4
<1> QED BY <1>3, <1>4

\* The database ends the transaction of a relay that waits for the broker.
LEMMA EndingCounts ==
    ASSUME Inv, Inv', CopiesCounted, NEW p \in Procs, pc[p] = "confirm", tx[p].alive,
           tx' = [tx EXCEPT ![p].alive = FALSE], UNCHANGED <<row, copies>>, faults' = faults + 1
    PROVE  CopiesCounted'
<1>1. /\ tx \in [Procs -> Tx] /\ copies \in [Rows -> Nat] /\ faults \in Nat /\ Todo(p) # {}
  BY RelayAssumption DEF Inv, Relays, TypeOK, Tx, Batches, Sound, Todo
<1>. SUFFICES ASSUME NEW r \in Rows
              PROVE  copies'[r] + N(p \in Dead(r)') + N(Open(r)') + faults
                        <= copies[r] + N(p \in Dead(r)) + N(Open(r)) + faults'
  BY <1>1, CountStep
<1>2. Oldest(p)' = Oldest(p)
  BY <1>1, OldestSame DEF Tx
<1>3. (p \in Dead(r)' => r = Oldest(p)) /\ p \notin Dead(r)
  BY <1>2 DEF Dead
<1>4. CASE r = Oldest(p)
  <2>1. Open(r)
    BY <1>1, <1>4, OldestOfBatch, HeldOpen
  <2> QED BY <1>1, <1>3, <2>1 DEF N
<1>5. CASE r # Oldest(p)
  BY <1>1, <1>3, <1>5 DEF N
<1> QED BY <1>4, <1>5

LEMMA CommittingCounts ==
    ASSUME Inv, Inv', CopiesCounted, NEW p \in Procs, Commit(p)
    PROVE  CopiesCounted'
<1>1. /\ tx \in [Procs -> Tx] /\ copies \in [Rows -> Nat] /\ faults \in Nat
      /\ UNCHANGED <<copies, faults>> /\ tx' = [tx EXCEPT ![p] = NoTx] /\ tx[p].alive
      /\ tx[p].sent \cup tx[p].failed = tx[p].rows
  <2>1. tx \in [Procs -> Tx] /\ copies \in [Rows -> Nat] /\ faults \in Nat
    BY RelayAssumption DEF Inv, Relays, TypeOK, Tx
  <2>2. tx[p].alive /\ tx[p].sent \cup tx[p].failed = tx[p].rows
    BY Committing
  <2> QED BY <2>1, <2>2 DEF Commit
<1>. SUFFICES ASSUME NEW r \in Rows
              PROVE  copies'[r] + N(p \in Dead(r)') + N(Open(r)') + faults
                        <= copies[r] + N(p \in Dead(r)) + N(Open(r)) + faults'
  BY <1>1, CountStep
<1>2. p \notin Dead(r) /\ p \notin Dead(r)'
  BY <1>1, NoTxType, NotDead
<1>3. Open(r)' => Open(r)
  <2>1. CASE r \in tx[p].sent
    BY <2>1, Committing, RowTypes DEF Open
  <2>2. CASE r \in tx[p].failed
    <3>1. r \in tx[p].rows /\ r \notin tx[p].sent
      BY <2>2, Committing
    <3> QED BY <1>1, <3>1, HeldOpen
  <2>3. CASE r \notin tx[p].rows
    <3>1. row'[r] = row[r] /\ r \notin tx[p].sent
      BY <1>1, <2>3, Committing
    <3>2. \A q \in Procs : q # p => tx'[q] = tx[q]
      BY <1>1
    <3> QED BY <3>1, <3>2 DEF Open, SentInTx
  <2> QED BY <1>1, <2>1, <2>2, <2>3
<1> QED BY <1>1, <1>2, <1>3 DEF N

LEMMA StepCounts ==
    ASSUME Inv, Inv', CopiesCounted, [Next]_vars
    PROVE  CopiesCounted'
<1>0. row \in [Rows -> Row] /\ tx \in [Procs -> Tx] /\ faults \in Nat
  BY RelayAssumption DEF Inv, Relays, TypeOK, Tx
<1>1. CASE UNCHANGED <<row, tx, copies, faults>>
  BY <1>1, CountStays
<1>2. ASSUME NEW r \in Rows, Enqueue(r) \/ Due(r)
      PROVE  CopiesCounted'
  BY <1>0, <1>2, CountStays DEF Enqueue, Due, Row
<1>3. CASE CreditStarts \/ \E p \in Procs : OrderConnects(p) \/ UserConnects(p) \/ QueueTasks(p)
  BY <1>1, <1>3 DEF CreditStarts, OrderConnects, UserConnects, QueueTasks, StartWorkers, Consume,
                    BackoffOver, Stopped
<1>4. ASSUME NEW p \in Procs, Fetch(p) \/ Publish(p)
      PROVE  CopiesCounted'
  <2>1. UNCHANGED <<row, copies, faults>> /\ \A q \in Procs : q # p => tx'[q] = tx[q]
    BY <1>0, <1>4 DEF Fetch, Publish
  <2>2. tx[p].alive /\ tx'[p].alive /\ tx'[p].sent = tx[p].sent
    <3>1. CASE Fetch(p)
      <4>1. tx[p] = NoTx
        BY <3>1 DEF Fetch, Inv, Relays, Batches, Sound
      <4> QED BY <1>0, <3>1, <4>1 DEF Fetch, NoTx
    <3>2. CASE Publish(p)
      <4>1. tx[p].alive
        BY <3>2 DEF Publish, Inv, Relays, Batches, Sound
      <4> QED BY <1>0, <3>2, <4>1 DEF Publish, Tx
    <3> QED BY <1>4, <3>1, <3>2
  <2>3. ASSUME NEW r \in Rows
        PROVE  copies'[r] + N(p \in Dead(r)') + N(Open(r)') + faults
                        <= copies[r] + N(p \in Dead(r)) + N(Open(r)) + faults'
    <3>1. p \notin Dead(r) /\ p \notin Dead(r)'
      BY <2>2, NotDead
    <3>2. Open(r)' <=> Open(r)
      BY <2>1, <2>2, OpenSame
    <3>3. copies[r] \in Nat
      BY DEF Inv, Relays, TypeOK
    <3> QED BY <1>0, <2>1, <3>1, <3>2, <3>3 DEF N
  <2> QED BY <2>1, <2>3, CountStep
<1>5. ASSUME NEW p \in Procs, Confirm(p)
      PROVE  CopiesCounted'
  <2>1. /\ pc[p] = "confirm" /\ Arrives(p, TRUE) /\ Note(p, Routable(p)) /\ row' = row
        /\ faults' = faults /\ Routable(p) \in BOOLEAN /\ (bound => Routable(p))
    BY <1>5 DEF Confirm, Routable
  <2> QED BY <1>0, <2>1, NotingCounts
<1>6. ASSUME NEW p \in Procs, Commit(p)
      PROVE  CopiesCounted'
  BY <1>6, CommittingCounts
<1>7. ASSUME NEW p \in Procs, DbFails(p)
      PROVE  CopiesCounted'
  BY <1>7, LosingCounts, EndingCounts DEF DbFails
<1>8. ASSUME NEW p \in Procs, Crash(p)
      PROVE  CopiesCounted'
  BY <1>8, LosingCounts DEF Crash
<1>9. ASSUME NEW p \in Procs, Rejects(p), row' = row, faults' = faults + 1
      PROVE  CopiesCounted'
  <2>1. CASE UNCHANGED <<tx, pc, copies>>
    <3>1. \A r \in Rows : /\ copies[r] \in Nat /\ (Open(r)' <=> Open(r))
                          /\ (p \in Dead(r)' <=> p \in Dead(r))
      BY <1>9, <2>1, OpenSame, OldestSame DEF Inv, Relays, TypeOK, Dead
    <3>2. \A r \in Rows : copies'[r] + N(p \in Dead(r)') + N(Open(r)') + faults
                             <= copies[r] + N(p \in Dead(r)) + N(Open(r)) + faults'
      BY <1>0, <1>9, <2>1, <3>1 DEF N
    <3> QED BY <2>1, <3>2, CountStep
  <2>2. CASE pc[p] = "confirm" /\ Note(p, FALSE) /\ \E accepted \in BOOLEAN : Arrives(p, accepted)
    <3>1. PICK accepted \in BOOLEAN : Arrives(p, accepted)
      BY <2>2
    <3>2. faults' \in Nat
      BY <1>0, <1>9
    <3>3. \A ok \in BOOLEAN : ~ok /\ Note(p, ok) => CopiesCounted'
      BY <1>9, <2>2, <3>1, <3>2, NotingCounts
    <3> QED BY <2>2, <3>3
  <2> QED BY <1>9, <2>1, <2>2 DEF Rejects
<1>10. ASSUME NEW p \in Procs, OrderDisconnects(p) \/ UserDisconnects(p)
       PROVE  CopiesCounted'
  BY <1>9, <1>10 DEF OrderDisconnects, UserDisconnects
<1> QED BY <1>1, <1>2, <1>3, <1>4, <1>5, <1>6, <1>7, <1>8, <1>10
        DEF Next, Relay, vars, Procs

LEMMA InitCounts == Init => CopiesCounted
<1> SUFFICES ASSUME Init, NEW r \in Rows
             PROVE  /\ IsFiniteSet(Dead(r))
                    /\ copies[r] + Cardinality(Dead(r)) + N(Open(r)) <= 1 + faults
  BY DEF CopiesCounted
<1>1. Dead(r) = {} /\ copies[r] = 0 /\ faults = 0
  BY NoTxType DEF Init, Dead
<1> QED BY <1>1, FS_EmptySet DEF N

-----------------------------------------------------------------------------
\* The outbox tables, the relays and their transactions keep their types, and a row waits only
\* as long as it has attempts left (prisma/outbox.ts, outboxWorker.ts, rabbitmq/outbox.ts).
THEOREM RelaysTyped == Spec => []TypeOK
<1>1. Inv => TypeOK
  BY DEF Inv, Relays
<1> QED BY <1>1, InvHolds, PTL

\* The relays of both services implement the outbox they promise: a row waits until one relay
\* is done with it, an order row is never given up, and counts as sent only when the credit
\* service's queue has a copy (rabbitmq/outbox.ts, outboxWorker.ts).
THEOREM RelaysDeliver == Spec => Implements
<1>1. Init => Delivery!Init
  BY DEF Init, Delivery!Init, Status
<1>2. Inv /\ [Next]_vars => [Delivery!Next]_(Delivery!vars)
  BY StepSimulates
<1> QED BY <1>1, <1>2, InvHolds, PTL DEF Spec, Implements, Delivery!Spec

\* However many relays share a table, only a fault sends a row again, and each fault at most
\* once (FOR UPDATE SKIP LOCKED, order-service/src/prisma/outbox.ts:41-44).
THEOREM OneCopyUnlessFault == Spec => []OneCopyPerFault
<1>1. Inv /\ Inv' /\ CopiesCounted /\ [Next]_vars => CopiesCounted'
  BY StepCounts
<1>2. Inv /\ CopiesCounted => OneCopyPerFault
  <2> SUFFICES ASSUME Inv, CopiesCounted, NEW r \in Rows PROVE copies[r] <= 1 + faults
    BY DEF OneCopyPerFault
  <2>1. IsFiniteSet(Dead(r)) /\ copies[r] + Cardinality(Dead(r)) + N(Open(r)) <= 1 + faults
    BY DEF CopiesCounted
  <2>2. Cardinality(Dead(r)) \in Nat
    BY <2>1, FS_CardinalityType
  <2>3. copies[r] \in Nat /\ faults \in Nat
    BY RelayAssumption DEF Inv, Relays, TypeOK
  <2> QED BY <2>1, <2>2, <2>3 DEF N
<1> QED BY InitCounts, <1>1, <1>2, InvHolds, PTL DEF Spec
=============================================================================
