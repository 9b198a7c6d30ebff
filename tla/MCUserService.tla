--------------------------- MODULE MCUserService ---------------------------
(* The two parts of the user service in one run: a plan, chosen at the start and never       *)
(* changed, says which of them is used.  While the accounts are, the queue user.rpc is just  *)
(* there, so that nothing the lookups owe is left undone.                                    *)
EXTENDS UserAccounts, Lookups

VARIABLE plan

Connected == replyQueue.state = "open" /\ server.up

UseAccounts ==
    /\ plan = "accounts"
    /\ \/ (CreditConnects \/ ServerConnects) /\ UNCHANGED vars
       \/ Connected /\ Next /\ UNCHANGED lookupVars

\* Calls are numbers, made in their order: which of them is made first is immaterial.
InOrder == \A c, d \in Calls : c < d /\ call'[d].state # "idle" => call'[c].state # "idle"

UseLookups == plan = "lookups" /\ LookupsNext /\ InOrder /\ UNCHANGED vars

MCInit == Init /\ LookupsInit /\ plan \in {"accounts", "lookups"}
MCNext == (UseAccounts \/ UseLookups) /\ UNCHANGED plan
MCSpec == MCInit /\ [][MCNext]_<<vars, lookupVars, plan>> /\ Fairness /\ LookupsFairness
=============================================================================
