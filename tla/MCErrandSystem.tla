--------------------------- MODULE MCErrandSystem ---------------------------
(* Instances of ErrandSystem small enough for liveness, checked in one run: a plan, chosen *)
(* at the start and never changed, says who may request and who may accept which errand.   *)
EXTENDS ErrandSystem

CONSTANTS u1, u2, u3, e1, e2, e3

VARIABLE plan

Nobody == [e \in Errands |-> {}]

\* One errand, whose replies may be lost: anybody requests, anybody accepts.
OneErrand == [requesters |-> [Nobody EXCEPT ![e1] = Users], couriers |-> [Nobody EXCEPT ![e1] = Users]]

\* One purse that pays for one errand at a time, and nobody who carries them.
OnePurse == [requesters |-> [Nobody EXCEPT ![e2] = {u1}, ![e3] = {u1}],
             couriers |-> Nobody]

WithinPlan ==
    \A e \in Errands :
        /\ order'[e].requester \in plan.requesters[e] \cup {NoUser}
        /\ order'[e].courier \in plan.couriers[e] \cup {NoUser}

MCInit == Init /\ plan \in {OneErrand, OnePurse}
MCNext == Next /\ WithinPlan /\ UNCHANGED plan
MCSpec == MCInit /\ [][MCNext]_<<vars, plan>> /\ Fairness
=============================================================================
