----------------------------- MODULE MCInvites -----------------------------
(* UserAccounts, and a record of the codes that have been redeemed. *)
EXTENDS UserAccounts

VARIABLE redeemed

\* Somebody becomes admin by the code.
Redeems(i) == \E u \in Users : adminRow[u] # i /\ adminRow'[u] = i

MCInit == Init /\ redeemed = {}
MCNext == Next /\ redeemed' = redeemed \cup {i \in Invites : Redeems(i)}
MCSpec == MCInit /\ [][MCNext]_<<vars, redeemed>>

(* user-service/README.md:42 calls an invite a "single-use code": once it has made an admin, *)
(* it never makes one again, neither somebody else nor the same account (assignAdminByInvite *)
(* in prisma/roles.ts takes a code for used as long as a row of userRole names it).           *)
SingleUse == [][\A i \in Invites : Redeems(i) => i \notin redeemed]_<<vars, redeemed>>
=============================================================================
