--------------------------- MODULE MCOrderService ---------------------------
(* Three instances of OrderService checked in one run: a plan, chosen at the start and never *)
(* changed, says which calls clients make and how many handlers run at the same time.      *)
EXTENDS OrderService, FiniteSets, TLC

CONSTANTS u1, u2, u3, e1, e2, k1

CreateCall(u, k, a) ==
    [op |-> "CREATE", caller |-> u, errand |-> NoErrand, key |-> k, amount |-> a]
UpdateCall(op, u, e) == [op |-> op, caller |-> u, errand |-> e, key |-> NoKey, amount |-> 0]

\* One errand: its requester, two couriers who race for it, and steps by the wrong party.
OneErrand ==
    {CreateCall(u1, NoKey, 1), UpdateCall("CANCELLED", u1, e1), UpdateCall("ACCEPTED", u1, e1),
     UpdateCall("DELIVERED", u3, e1)}
    \cup {UpdateCall(op, c, e1) : op \in {"ACCEPTED", "COLLECTED"}, c \in {u2, u3}}
    \cup {UpdateCall("DELIVERED", u2, e1)}

\* Two requesters share a key, and one of them also orders without.
Retries == {CreateCall(u1, k1, 1), CreateCall(u2, k1, 1), CreateCall(u1, NoKey, 1)}

\* An accept that the credit service refuses, and the next courier's.
UndoneAccept == {CreateCall(u2, NoKey, 1)}
    \cup {UpdateCall(op, c, e1) : op \in {"ACCEPTED", "COLLECTED"}, c \in {u1, u3}}

AllCalls == OneErrand \cup Retries \cup UndoneAccept

VARIABLE plan

Plans == {[calls |-> OneErrand, errands |-> {e1}, busy |-> 3],
          [calls |-> UndoneAccept, errands |-> {e1}, busy |-> 2],
          [calls |-> Retries, errands |-> {e1, e2}, busy |-> 2]}

Busy == {w \in Workers : pc[w] # "idle"}

WithinPlan ==
    /\ {task'[w] : w \in Workers} \cap Calls \subseteq plan.calls
    /\ {e \in Errands : order'[e] # NoOrder} \subseteq plan.errands
    /\ Cardinality(Busy') <= plan.busy

MCInit == Init /\ plan \in Plans
MCNext == Next /\ WithinPlan /\ UNCHANGED plan
MCSpec == MCInit /\ [][MCNext]_<<vars, plan>>

WorkerSymmetry == Permutations(Workers)
=============================================================================
