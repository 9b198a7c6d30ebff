--------------------------- MODULE MCCreditAnswers ---------------------------
(* Instances of CreditTransactions for liveness over crashes, checked in one run: a plan,    *)
(* chosen at the start and never changed, says which messages and requests there are.        *)
EXTENDS CreditTransactions

CONSTANTS u1, u2, e1, e2

Message(op, e, u, a) == [op |-> op, errand |-> e, user |-> u, supplier |-> NoUser, amount |-> a]
Call(op, e, u, s, a) == [op |-> op, errand |-> e, user |-> u, supplier |-> s, amount |-> a]

\* An errand and its courier, who has to be looked up.
AcceptedErrand == {Message("order.created", e1, u1, 2), Message("order.accepted", e1, u2, 0)}

\* An errand that is paid out, while a request places somebody else's hold for it: one of
\* the two inserts fails.
RivalHold == {Call("POST hold", e1, u2, u1, 1)}
CompletedErrand == {Message("order.created", e1, u1, 2), Message("order.completed", e1, NoUser, 0)}

\* Another errand, for which requests make the changes that its messages ask for.
SameHold == Call("POST hold", e2, u1, u2, 2)
HeldErrand == {Message("order.created", e2, u1, 2)}

AllMessages == AcceptedErrand \cup CompletedErrand \cup HeldErrand
AllRequests == RivalHold \cup {SameHold}

VARIABLE plan

Plans == {[jobs |-> AcceptedErrand, crashes |-> 1],
          [jobs |-> CompletedErrand \cup RivalHold, crashes |-> 0],
          [jobs |-> HeldErrand \cup {SameHold}, crashes |-> 0]}

\* What is not in the plan is never published, so that fairness does not ask for it.
WithinPlan ==
    /\ ready' \subseteq plan.jobs
    /\ {txn'[w].job : w \in Workers} \subseteq plan.jobs \cup {NoJob}
    /\ crashes' <= plan.crashes

MCInit == Init /\ plan \in Plans
MCNext == Next /\ WithinPlan /\ UNCHANGED plan
MCSpec == MCInit /\ [][MCNext]_<<vars, plan>> /\ Fairness
=============================================================================
