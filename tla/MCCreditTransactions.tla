------------------------ MODULE MCCreditTransactions ------------------------
(* Instances of CreditTransactions.  Four of them are checked in one run: a plan, chosen at *)
(* the start and never changed, says which messages and requests there are, how many are     *)
(* handled at the same time and how often the process may crash.                             *)
EXTENDS CreditTransactions, FiniteSets, TLC

CONSTANTS u1, u2, u3, e1, e2

JobOf(op, e, u, s, a) == [op |-> op, errand |-> e, user |-> u, supplier |-> s, amount |-> a]

UserRegistered(u) == JobOf("user.registered", NoErrand, u, NoUser, 0)
OrderCreated(e, u, a) == JobOf("order.created", e, u, NoUser, a)
OrderAccepted(e, u) == JobOf("order.accepted", e, u, NoUser, 0)
OrderCompleted(e) == JobOf("order.completed", e, NoUser, NoUser, 0)
OrderCancelled(e) == JobOf("order.cancelled", e, NoUser, NoUser, 0)
GetBalance(u) == JobOf("GET balance", NoErrand, u, NoUser, 0)
PostHold(e, u, s, a) == JobOf("POST hold", e, u, s, a)
PostReleased(e) == JobOf("POST released", e, NoUser, NoUser, 0)
PostRefunded(e) == JobOf("POST refunded", e, NoUser, NoUser, 0)

\* One errand: its hold, two couriers of whom one is unknown to the User service, and
\* both ways to settle it.
OneErrand == {OrderCreated(e1, u1, 2), OrderAccepted(e1, u2), OrderAccepted(e1, u3),
              OrderCompleted(e1), OrderCancelled(e1)}

\* Two errands of one requester, who can pay for one of them at a time: both deductions,
\* a refund and a payout meet on two accounts, one of which the requester's
\* registration opens.
TwoErrands == {UserRegistered(u1), OrderCreated(e1, u1, 2), OrderCreated(e2, u1, 2),
               OrderAccepted(e1, u2), OrderCompleted(e1), OrderCancelled(e2)}

\* The private endpoints against the messages of the same errand.
EndpointMessages == {OrderCreated(e1, u1, 2), OrderCompleted(e1)}
EndpointRequests == {PostHold(e1, u2, u1, 1), PostHold(e1, u1, u3, 2), PostReleased(e1),
                     PostRefunded(e1), GetBalance(u3)}

\* A requester unknown to the User service, whose errand is ordered all the same.
UnknownRequester == {OrderCreated(e2, u3, 1), OrderCancelled(e2), PostHold(e2, u3, u1, 1)}

VARIABLE plan

Plans == {[jobs |-> OneErrand, busy |-> 3, crashes |-> 0],
          [jobs |-> TwoErrands, busy |-> 2, crashes |-> 1],
          [jobs |-> EndpointMessages \cup EndpointRequests, busy |-> 2, crashes |-> 0],
          [jobs |-> UnknownRequester, busy |-> 2, crashes |-> 0]}

AllMessages == OneErrand \cup TwoErrands \cup EndpointMessages \cup {OrderCreated(e2, u3, 1)}

AllRequests == EndpointRequests \cup {PostHold(e2, u3, u1, 1)}

Busy == {w \in Workers : pc[w] # "idle"}

WithinPlan ==
    /\ {txn'[w].job : w \in Workers} \subseteq plan.jobs \cup {NoJob}
    /\ Cardinality(Busy') <= plan.busy
    /\ crashes' <= plan.crashes

MCInit == Init /\ plan \in Plans
MCNext == Next /\ WithinPlan /\ UNCHANGED plan
MCSpec == MCInit /\ [][MCNext]_<<vars, plan>>

WorkerSymmetry == Permutations(Workers)
=============================================================================
