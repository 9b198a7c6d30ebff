---------------------------- MODULE CreditLedger ----------------------------
(***************************************************************************)
(* What the credit service promises about its money: the two tables        *)
(* UserCredits and CreditsOnHold (credit-service/src/prisma/               *)
(* contract.prisma) and the five ways a committed transaction may change   *)
(* them.  A hold takes a requester's credits out of circulation; it is     *)
(* then settled once, to the courier or back to the requester.             *)
(*                                                                         *)
(* Every operation is one atomic step here.  CreditTransactions shows that *)
(* the row locks of the code make it so; ErrandSystem composes these steps *)
(* with the order service.                                                 *)
(***************************************************************************)
EXTENDS Integers, FiniteSets, FiniteSetsExt

CONSTANTS Users,          \* user ids
          Errands,        \* errand (order) ids
          Amounts,        \* the bounties an errand may carry
          InitialBalance, \* the credits a new account starts with
          NoUser          \* the null of the nullable courierId column

ASSUME LedgerAssumption ==
    /\ NoUser \notin Users
    /\ Amounts \subseteq Nat \ {0}
    /\ InitialBalance \in Nat

\* The tables are finite: what is said about the sum of a column is about finite tables.
ASSUME FinitenessAssumption == IsFiniteSet(Users) /\ IsFiniteSet(Errands)

VARIABLES account,  \* the users who have a UserCredits row
          balance,  \* UserCredits.balance, 0 for a user without a row
          hold      \* the CreditsOnHold row of each errand, NoHold if there is none

ledger == <<account, balance, hold>>

-----------------------------------------------------------------------------

NoHold == [status |-> "NONE", requestor |-> NoUser, courier |-> NoUser, amount |-> 0]

HoldRow ==
    [status: {"HELD", "RELEASED", "REFUNDED"},
     requestor: Users, courier: Users \cup {NoUser}, amount: Amounts]

NewHold(r, c, a) == [status |-> "HELD", requestor |-> r, courier |-> c, amount |-> a]

-----------------------------------------------------------------------------

LedgerInit ==
    /\ account = {}
    /\ balance = [u \in Users |-> 0]
    /\ hold = [e \in Errands |-> NoHold]

\* ensureCreditAccount: an insert that skips a row that exists already.
OpenAccount(u) ==
    /\ u \notin account
    /\ account' = account \cup {u}
    /\ balance' = [balance EXCEPT ![u] = InitialBalance]
    /\ UNCHANGED hold

\* The committing path of ensureCreditsHeld (c is null) and of the private
\* endpoint createTransaction (c may be given).
PlaceHold(e, r, c, a) ==
    /\ hold[e] = NoHold
    /\ r \in account
    /\ c \in account \cup {NoUser}
    /\ balance[r] >= a
    /\ hold' = [hold EXCEPT ![e] = NewHold(r, c, a)]
    /\ balance' = [balance EXCEPT ![r] = @ - a]
    /\ UNCHANGED account

\* The committing path of ensureCreditsAccepted.
AssignCourier(e, c) ==
    /\ hold[e].status = "HELD"
    /\ hold[e].courier = NoUser
    /\ c \in account
    /\ hold' = [hold EXCEPT ![e].courier = c]
    /\ UNCHANGED <<account, balance>>

\* The committing path of ensureCreditsReleased and of releaseCredits.
Release(e) ==
    /\ hold[e].status = "HELD"
    /\ hold[e].courier \in account
    /\ hold' = [hold EXCEPT ![e].status = "RELEASED"]
    /\ balance' = [balance EXCEPT ![hold[e].courier] = @ + hold[e].amount]
    /\ UNCHANGED account

\* The committing path of ensureCreditsRefunded and of refundCredits.
Refund(e) ==
    /\ hold[e].status = "HELD"
    /\ hold[e].requestor \in account
    /\ hold' = [hold EXCEPT ![e].status = "REFUNDED"]
    /\ balance' = [balance EXCEPT ![hold[e].requestor] = @ + hold[e].amount]
    /\ UNCHANGED account

LedgerNext ==
    \/ \E u \in Users : OpenAccount(u)
    \/ \E e \in Errands, r \in Users, c \in Users \cup {NoUser}, a \in Amounts :
            PlaceHold(e, r, c, a)
    \/ \E e \in Errands, c \in Users : AssignCourier(e, c)
    \/ \E e \in Errands : Release(e) \/ Refund(e)

LedgerSpec == LedgerInit /\ [][LedgerNext]_ledger

-----------------------------------------------------------------------------
\* The tables hold values of their column types; a user without a row has no credits.
LedgerTypeOK ==
    /\ account \subseteq Users
    /\ balance \in [Users -> Int]
    /\ hold \in [Errands -> HoldRow \cup {NoHold}]

\* No balance is ever negative: the check `credits.balance < amount` and the
\* deduction that relies on it see the same balance (services/credits.ts:78, 93).
NoOverdraft == \A u \in Users : balance[u] >= 0

\* Credits are neither made nor lost: what is in the accounts and on hold is what the
\* accounts were opened with.
HeldAmount(e) == IF hold[e].status = "HELD" THEN hold[e].amount ELSE 0

CreditsConserved ==
    MapThenSumSet(LAMBDA u : balance[u], Users) + MapThenSumSet(HeldAmount, Errands)
        = InitialBalance * Cardinality(account)

\* Whoever a hold may have to pay has an account to be paid on, so a release or
\* a refund of a hold never fails for want of one: the COURIER_NOT_FOUND answer to
\* a release means that no courier was recorded, and the REQUESTOR_NOT_FOUND
\* answer to a refund is never given (services/credits.ts:204, 273).
PayeesHaveAccounts ==
    \A e \in Errands :
        hold[e] # NoHold =>
            /\ hold[e].requestor \in account
            /\ hold[e].courier \in account \cup {NoUser}
            /\ hold[e].status = "RELEASED" => hold[e].courier # NoUser

\* A hold is settled at most once and never comes back: its terms never change,
\* the courier is recorded once, before it is settled, and RELEASED and REFUNDED
\* exclude each other for good.
HoldHistory(old, new) ==
    \/ old = new
    \/ old = NoHold /\ new.status = "HELD"
    \/ /\ old.status = "HELD"
       /\ new.requestor = old.requestor /\ new.amount = old.amount
       /\ \/ new.status = "HELD" /\ old.courier = NoUser
          \/ new.status \in {"RELEASED", "REFUNDED"} /\ new.courier = old.courier

SettledOnce == [][\A e \in Errands : HoldHistory(hold[e], hold'[e])]_hold

=============================================================================
