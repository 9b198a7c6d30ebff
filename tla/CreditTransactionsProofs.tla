----------------------- MODULE CreditTransactionsProofs -----------------------
(***************************************************************************)
(* Proofs about the credit service for any number of users, errands,       *)
(* workers and messages, and any bounties.                                 *)
(*                                                                         *)
(* Part 1 is about CreditLedger.  Its inductive invariant is the           *)
(* conjunction of the types, of NoOverdraft and of PayeesHaveAccounts: a   *)
(* balance only stays non-negative because the amounts that are paid out   *)
(* are those of well-typed holds, and a payee's account is only there      *)
(* because accounts are never closed.                                      *)
(*                                                                         *)
(* Part 2 adds CreditsConserved.  It is about a sum over a table, so it    *)
(* first shows how such a sum changes when one row does; its invariant     *)
(* adds that a user without an account has no credits, or opening the      *)
(* account would lose them.                                                *)
(*                                                                         *)
(* Part 3 is about CreditTransactions.  Its invariant says which locks a   *)
(* handler holds at each point and that what it read under them is still   *)
(* true; a commit is then one of the ledger's steps.                       *)
(***************************************************************************)
EXTENDS CreditTransactions, FiniteSetTheorems, WellFoundedInduction, TLAPS

LedgerInv == LedgerTypeOK /\ NoOverdraft /\ PayeesHaveAccounts

\* The tables are empty at first.
LEMMA LedgerInitInv == LedgerInit => LedgerInv
BY LedgerAssumption
   DEF LedgerInit, LedgerInv, LedgerTypeOK, NoOverdraft, PayeesHaveAccounts, NoHold, HoldRow

\* A row whose status was found to be HELD is a row of the table, with terms of its types.
LEMMA HeldRow ==
    ASSUME LedgerTypeOK, NEW e \in Errands, hold[e].status = "HELD"
    PROVE  hold[e] \in HoldRow /\ hold[e] # NoHold
BY DEF LedgerTypeOK, NoHold

LEMMA OpenAccountInv ==
    ASSUME LedgerInv, NEW u \in Users, OpenAccount(u)
    PROVE  LedgerInv'
<1>. USE LedgerAssumption DEF LedgerInv, OpenAccount
<1>1. LedgerTypeOK' /\ NoOverdraft'
  BY DEF LedgerTypeOK, NoOverdraft
<1>2. PayeesHaveAccounts'
  BY DEF PayeesHaveAccounts
<1>. QED BY <1>1, <1>2

LEMMA PlaceHoldInv ==
    ASSUME LedgerInv,
           NEW e \in Errands, NEW r \in Users, NEW c \in Users \cup {NoUser}, NEW a \in Amounts,
           PlaceHold(e, r, c, a)
    PROVE  LedgerInv'
<1>. USE LedgerAssumption DEF LedgerInv, PlaceHold
<1>1. NewHold(r, c, a) \in HoldRow
  BY DEF NewHold, HoldRow
<1>2. LedgerTypeOK'
  BY <1>1 DEF LedgerTypeOK
<1>3. NoOverdraft'
  BY DEF LedgerTypeOK, NoOverdraft
<1>4. PayeesHaveAccounts'
  BY DEF LedgerTypeOK, PayeesHaveAccounts, NewHold
<1>. QED BY <1>2, <1>3, <1>4

LEMMA AssignCourierInv ==
    ASSUME LedgerInv, NEW e \in Errands, NEW c \in Users, AssignCourier(e, c)
    PROVE  LedgerInv'
<1>. USE DEF LedgerInv, AssignCourier
<1>1. hold[e] \in HoldRow /\ hold[e] # NoHold
  BY HeldRow
<1>2. [hold[e] EXCEPT !.courier = c] \in HoldRow
  BY <1>1 DEF HoldRow
<1>3. LedgerTypeOK'
  BY <1>2 DEF LedgerTypeOK
<1>4. NoOverdraft'
  BY DEF NoOverdraft
<1>5. PayeesHaveAccounts'
  BY <1>1 DEF LedgerTypeOK, PayeesHaveAccounts, HoldRow
<1>. QED BY <1>3, <1>4, <1>5

\* Release and Refund pay the held amount to an account and change the status.
LEMMA SettleInv ==
    ASSUME LedgerInv, NEW e \in Errands, NEW u \in Users, NEW s \in {"RELEASED", "REFUNDED"},
           hold[e].status = "HELD",
           s = "RELEASED" => hold[e].courier # NoUser,
           hold' = [hold EXCEPT ![e].status = s],
           balance' = [balance EXCEPT ![u] = @ + hold[e].amount],
           account' = account
    PROVE  LedgerInv'
<1>. USE LedgerAssumption DEF LedgerInv
<1>1. hold[e] \in HoldRow /\ hold[e] # NoHold
  BY HeldRow
<1>2. hold[e].amount \in Nat
  BY <1>1 DEF HoldRow
<1>3. [hold[e] EXCEPT !.status = s] \in HoldRow
  BY <1>1 DEF HoldRow
<1>4. LedgerTypeOK'
  BY <1>2, <1>3 DEF LedgerTypeOK
<1>5. NoOverdraft'
  BY <1>2 DEF LedgerTypeOK, NoOverdraft
<1>6. PayeesHaveAccounts'
  BY <1>1 DEF LedgerTypeOK, PayeesHaveAccounts, HoldRow
<1>. QED BY <1>4, <1>5, <1>6

LEMMA LedgerStepInv == LedgerInv /\ [LedgerNext]_ledger => LedgerInv'
<1>. SUFFICES ASSUME LedgerInv, [LedgerNext]_ledger
              PROVE  LedgerInv'
  OBVIOUS
<1>1. CASE UNCHANGED ledger
  BY <1>1 DEF ledger, LedgerInv, LedgerTypeOK, NoOverdraft, PayeesHaveAccounts
<1>2. ASSUME NEW u \in Users, OpenAccount(u)
      PROVE  LedgerInv'
  BY <1>2, OpenAccountInv
<1>3. ASSUME NEW e \in Errands, NEW r \in Users, NEW c \in Users \cup {NoUser}, NEW a \in Amounts,
             PlaceHold(e, r, c, a)
      PROVE  LedgerInv'
  BY <1>3, PlaceHoldInv
<1>4. ASSUME NEW e \in Errands, NEW c \in Users, AssignCourier(e, c)
      PROVE  LedgerInv'
  BY <1>4, AssignCourierInv
<1>5. ASSUME NEW e \in Errands, Release(e)
      PROVE  LedgerInv'
  <2>1. hold[e].courier \in Users /\ hold[e].courier # NoUser
    BY <1>5, LedgerAssumption DEF Release, LedgerInv, LedgerTypeOK
  <2>. QED BY <1>5, <2>1, SettleInv DEF Release
<1>6. ASSUME NEW e \in Errands, Refund(e)
      PROVE  LedgerInv'
  <2>1. hold[e].requestor \in Users
    BY <1>6 DEF Refund, LedgerInv, LedgerTypeOK
  <2>. QED BY <1>6, <2>1, SettleInv DEF Refund
<1>. QED BY <1>1, <1>2, <1>3, <1>4, <1>5, <1>6 DEF LedgerNext

\* Types, no overdraft and payees with accounts hold together in every reachable state.
THEOREM LedgerInvariance == LedgerSpec => []LedgerInv
BY LedgerInitInv, LedgerStepInv, PTL DEF LedgerSpec

\* The tables keep their column types.
THEOREM LedgerTypes == LedgerSpec => []LedgerTypeOK
<1>1. LedgerInv => LedgerTypeOK
  BY DEF LedgerInv
<1>. QED BY <1>1, LedgerInvariance, PTL

\* No account is ever overdrawn (services/credits.ts:78, 93).
THEOREM NeverOverdrawn == LedgerSpec => []NoOverdraft
<1>1. LedgerInv => NoOverdraft
  BY DEF LedgerInv
<1>. QED BY <1>1, LedgerInvariance, PTL

\* Every settlement of a live hold finds the account it has to pay (services/credits.ts:204, 273).
THEOREM PayeesPayable == LedgerSpec => []PayeesHaveAccounts
<1>1. LedgerInv => PayeesHaveAccounts
  BY DEF LedgerInv
<1>. QED BY <1>1, LedgerInvariance, PTL

\* A hold only moves along its history.
LEMMA HistorySteps ==
    LedgerInv /\ [LedgerNext]_ledger => \A e \in Errands : HoldHistory(hold[e], hold'[e])
<1>. SUFFICES ASSUME LedgerInv, LedgerNext, NEW f \in Errands
              PROVE  HoldHistory(hold[f], hold'[f])
  BY DEF ledger, HoldHistory
<1>. USE DEF HoldHistory, LedgerInv
<1>0. hold = [e \in Errands |-> hold[e]] /\ hold[f] \in HoldRow \cup {NoHold}
  BY DEF LedgerTypeOK
<1>1. ASSUME NEW u \in Users, OpenAccount(u)
      PROVE  HoldHistory(hold[f], hold'[f])
  BY <1>1 DEF OpenAccount
<1>2. ASSUME NEW e \in Errands, NEW r \in Users, NEW c \in Users \cup {NoUser}, NEW a \in Amounts,
             PlaceHold(e, r, c, a)
      PROVE  HoldHistory(hold[f], hold'[f])
  BY <1>0, <1>2 DEF PlaceHold, NewHold
<1>3. ASSUME NEW e \in Errands, NEW c \in Users, AssignCourier(e, c)
      PROVE  HoldHistory(hold[f], hold'[f])
  BY <1>0, <1>3, HeldRow DEF AssignCourier, HoldRow
<1>4. ASSUME NEW e \in Errands, Release(e)
      PROVE  HoldHistory(hold[f], hold'[f])
  BY <1>0, <1>4, HeldRow DEF Release, HoldRow
<1>5. ASSUME NEW e \in Errands, Refund(e)
      PROVE  HoldHistory(hold[f], hold'[f])
  BY <1>0, <1>5, HeldRow DEF Refund, HoldRow
<1>. QED BY <1>1, <1>2, <1>3, <1>4, <1>5 DEF LedgerNext

\* No hold is paid out twice, or both paid out and refunded, and its terms never change.
THEOREM NeverSettledTwice == LedgerSpec => SettledOnce
BY LedgerInvariance, HistorySteps, PTL DEF LedgerSpec, SettledOnce

-----------------------------------------------------------------------------
\* Part 2.  No credit is made or lost: how the sums of CreditsConserved change when one row
\* does.  Total is MapThenSumSet without its operator parameter.

\* Induction over the natural numbers, as a fact about sets of them.
LEMMA NatSets ==
    ASSUME NEW T \in SUBSET Nat, 0 \in T, \A n \in T : n + 1 \in T
    PROVE  \A n \in Nat : n \in T
<1>1. SUFFICES ASSUME Nat \ T # {} PROVE FALSE
  OBVIOUS
<1>2. PICK m \in Nat \ T : \A k \in Nat \ T : ~(<<k, m>> \in OpToRel(<, Nat))
  <2>1. \A U \in SUBSET Nat : U # {} => \E x \in U : \A y \in U : ~(<<y, x>> \in OpToRel(<, Nat))
    BY WFMin, NatLessThanWellFounded
  <2>. QED BY <1>1, <2>1
<1>3. \A k, l \in Nat : k < l => <<k, l>> \in OpToRel(<, Nat)
  BY DEF OpToRel
<1>4. m - 1 \in Nat /\ m - 1 < m
  OBVIOUS
<1>5. m - 1 \in T
  BY <1>2, <1>3, <1>4
<1>6. (m - 1) + 1 = m
  OBVIOUS
<1>. QED BY <1>2, <1>5, <1>6

Pick(s) == CHOOSE x \in s : TRUE

\* The function `it` adds up g over the subsets of S, an element at a time.
AddsUp(it, g, S) ==
    it = [s \in SUBSET S |-> IF s = {} THEN 0 ELSE g[Pick(s)] + it[s \ {Pick(s)}]]

Total(g, S) == (CHOOSE it : AddsUp(it, g, S))[S]

\* A subset without the element picked from it is a subset with one element less.
LEMMA PickOne ==
    ASSUME NEW S, IsFiniteSet(S), NEW s \in SUBSET S, s # {}
    PROVE  /\ Pick(s) \in s /\ s \ {Pick(s)} \in SUBSET S
           /\ Cardinality(s) \in Nat /\ Cardinality(s \ {Pick(s)}) \in Nat
           /\ Cardinality(s) = Cardinality(s \ {Pick(s)}) + 1
<1>1. Pick(s) \in s
  BY DEF Pick
<1>2. IsFiniteSet(s)
  BY FS_Subset
<1>3. IsFiniteSet(s \ {Pick(s)}) /\ Cardinality(s \ {Pick(s)}) = Cardinality(s) - 1
  BY <1>1, <1>2, FS_RemoveElement
<1>4. Cardinality(s) \in Nat /\ Cardinality(s \ {Pick(s)}) \in Nat
  BY <1>2, <1>3, FS_CardinalityType
<1>. QED BY <1>1, <1>3, <1>4

\* The recursion of MapThenSumSet has a solution on a finite set.
LEMMA AddsUpExists ==
    ASSUME NEW S, IsFiniteSet(S), NEW g
    PROVE  \E it : AddsUp(it, g, S)
<1>. DEFINE Small(n) == {s \in SUBSET S : Cardinality(s) <= n}
            Next1(it, s) == IF s = {} THEN 0 ELSE g[Pick(s)] + it[s \ {Pick(s)}]
            Solved == {n \in Nat : \E it : it = [s \in Small(n) |-> Next1(it, s)]}
<1>0. \A s \in SUBSET S : IsFiniteSet(s) /\ Cardinality(s) \in Nat /\ (Cardinality(s) = 0 => s = {})
  BY FS_Subset, FS_CardinalityType, FS_EmptySet
<1>1. 0 \in Solved
  <2>1. \A s \in Small(0) : s = {}
    BY <1>0
  <2>. DEFINE it == [s \in Small(0) |-> 0]
  <2>2. it = [s \in Small(0) |-> Next1(it, s)]
    BY <2>1
  <2>. QED BY <2>2
<1>2. ASSUME NEW n \in Solved
      PROVE  n + 1 \in Solved
  <2>1. PICK it : it = [s \in Small(n) |-> Next1(it, s)]
    OBVIOUS
  <2>. DEFINE jt == [s \in Small(n + 1) |-> Next1(it, s)]
  <2>2. ASSUME NEW s \in Small(n + 1), s # {}
        PROVE  jt[s \ {Pick(s)}] = it[s \ {Pick(s)}]
    <3>1. s \ {Pick(s)} \in Small(n) /\ s \ {Pick(s)} \in Small(n + 1)
      <4>1. s \ {Pick(s)} \in SUBSET S /\ Cardinality(s) \in Nat
            /\ Cardinality(s \ {Pick(s)}) \in Nat
            /\ Cardinality(s) = Cardinality(s \ {Pick(s)}) + 1 /\ Cardinality(s) <= n + 1
        BY <2>2, PickOne
      <4>. QED BY <4>1
    <3>2. PICK t : t = s \ {Pick(s)}
      OBVIOUS
    <3>3. it[t] = Next1(it, t) /\ jt[t] = Next1(it, t)
      <4>. HIDE DEF Next1, Small
      <4>. QED BY <2>1, <3>1, <3>2
    <3>. QED BY <3>2, <3>3
  <2>3. \A s \in Small(n + 1) : Next1(jt, s) = Next1(it, s)
    <3>. HIDE DEF jt, Small
    <3>. QED BY <2>2
  <2>4. jt = [s \in Small(n + 1) |-> Next1(jt, s)]
    <3>1. jt = [s \in Small(n + 1) |-> Next1(it, s)]
      OBVIOUS
    <3>. HIDE DEF jt, Small, Next1
    <3>. QED BY <2>3, <3>1
  <2>5. \E kt : kt = [s \in Small(n + 1) |-> Next1(kt, s)]
    <3>. HIDE DEF jt, Small, Next1
    <3>. QED BY <2>4
  <2>6. n + 1 \in Nat
    OBVIOUS
  <2>. HIDE DEF jt, Small, Next1
  <2>. QED BY <2>5, <2>6
<1>3. \A n \in Nat : n \in Solved
  <2>. HIDE DEF Small, Next1
  <2>1. Solved \in SUBSET Nat
    OBVIOUS
  <2>. HIDE DEF Solved
  <2>. QED BY <1>1, <1>2, <2>1, NatSets
<1>4. PICK it : it = [s \in Small(Cardinality(S)) |-> Next1(it, s)]
  <2>1. Cardinality(S) \in Nat
    BY FS_CardinalityType
  <2>. QED BY <1>3, <2>1
<1>5. Small(Cardinality(S)) = SUBSET S
  <2>1. \A s \in SUBSET S : Cardinality(s) <= Cardinality(S)
    BY FS_Subset
  <2>. QED BY <2>1
<1>6. AddsUp(it, g, S)
  <2>1. it = [s \in SUBSET S |-> Next1(it, s)]
    <3>. HIDE DEF Small, Next1
    <3>. QED BY <1>4, <1>5
  <2>. QED BY <2>1 DEF AddsUp
<1>. QED BY <1>6

LEMMA TotalAddsUp ==
    ASSUME NEW S, IsFiniteSet(S), NEW g
    PROVE  \E it : AddsUp(it, g, S) /\ Total(g, S) = it[S]
<1>1. AddsUp(CHOOSE it : AddsUp(it, g, S), g, S)
  BY AddsUpExists
<1>. QED BY <1>1 DEF Total

\* One summand changes: so does the total, by as much.
LEMMA TotalChange ==
    ASSUME NEW S, IsFiniteSet(S), NEW f \in [S -> Int], NEW g \in [S -> Int], NEW a \in S,
           \A x \in S : x # a => f[x] = g[x]
    PROVE  /\ Total(f, S) \in Int /\ Total(g, S) \in Int
           /\ Total(g, S) = Total(f, S) + g[a] - f[a]
<1>1. PICK it : AddsUp(it, f, S) /\ Total(f, S) = it[S]
  BY TotalAddsUp
<1>2. PICK jt : AddsUp(jt, g, S) /\ Total(g, S) = jt[S]
  BY TotalAddsUp
<1>. DEFINE Good(s) == /\ it[s] \in Int /\ jt[s] \in Int
                       /\ jt[s] = IF a \in s THEN it[s] + g[a] - f[a] ELSE it[s]
            Agree == {n \in Nat : \A s \in SUBSET S : Cardinality(s) = n => Good(s)}
<1>3. /\ it[{}] = 0 /\ jt[{}] = 0
      /\ \A s \in SUBSET S : s # {} => /\ it[s] = f[Pick(s)] + it[s \ {Pick(s)}]
                                       /\ jt[s] = g[Pick(s)] + jt[s \ {Pick(s)}]
  BY <1>1, <1>2 DEF AddsUp
<1>4. 0 \in Agree
  <2>1. \A s \in SUBSET S : Cardinality(s) = 0 => s = {}
    BY FS_Subset, FS_EmptySet
  <2>2. Good({})
    BY <1>3
  <2>. HIDE DEF Good
  <2>. QED BY <2>1, <2>2
<1>5. ASSUME NEW n \in Agree
      PROVE  n + 1 \in Agree
  <2>. SUFFICES ASSUME NEW s \in SUBSET S, Cardinality(s) = n + 1
                PROVE  Good(s)
    OBVIOUS
  <2>0. n \in Nat
    OBVIOUS
  <2>1. s # {}
    <3>. HIDE DEF Agree
    <3>. QED BY <2>0, FS_EmptySet
  <2>. PICK x : x = Pick(s)
    OBVIOUS
  <2>. PICK t : t = s \ {x}
    OBVIOUS
  <2>2. x \in s /\ x \in S /\ t \in SUBSET S /\ Cardinality(t) = n
    <3>1. /\ Pick(s) \in s /\ s \ {Pick(s)} \in SUBSET S
          /\ Cardinality(s) \in Nat /\ Cardinality(s \ {Pick(s)}) \in Nat
          /\ Cardinality(s) = Cardinality(s \ {Pick(s)}) + 1
      BY <2>1, PickOne
    <3>. QED BY <3>1
  <2>3. Good(t)
    BY <2>2
  <2>4. it[s] = f[x] + it[t] /\ jt[s] = g[x] + jt[t]
    BY <1>3, <2>1
  <2>5. f[x] \in Int /\ g[x] \in Int /\ f[a] \in Int /\ g[a] \in Int
    BY <2>2
  <2>6. CASE x = a
    BY <2>2, <2>3, <2>4, <2>5, <2>6
  <2>7. CASE x # a
    <3>1. f[x] = g[x] /\ (a \in t <=> a \in s)
      BY <2>2, <2>7
    <3>. QED BY <2>3, <2>4, <2>5, <3>1
  <2>. QED BY <2>6, <2>7
<1>6. \A n \in Nat : n \in Agree
  <2>. HIDE DEF Good
  <2>1. Agree \in SUBSET Nat
    OBVIOUS
  <2>. HIDE DEF Agree
  <2>. QED BY <1>4, <1>5, <2>1, NatSets
<1>7. Good(S)
  <2>1. Cardinality(S) \in Nat
    BY FS_CardinalityType
  <2>. QED BY <1>6, <2>1
<1>. QED BY <1>1, <1>2, <1>7

\* Nothing adds up to nothing.
LEMMA TotalZero ==
    ASSUME NEW S, IsFiniteSet(S)
    PROVE  Total([x \in S |-> 0], S) = 0
<1>. DEFINE g == [x \in S |-> 0]
<1>1. PICK it : AddsUp(it, g, S) /\ Total(g, S) = it[S]
  BY TotalAddsUp
<1>. DEFINE Zero == {n \in Nat : \A s \in SUBSET S : Cardinality(s) = n => it[s] = 0}
<1>2. it[{}] = 0 /\ \A s \in SUBSET S : s # {} => it[s] = g[Pick(s)] + it[s \ {Pick(s)}]
  BY <1>1 DEF AddsUp
<1>3. 0 \in Zero
  <2>1. \A s \in SUBSET S : Cardinality(s) = 0 => s = {}
    BY FS_Subset, FS_EmptySet
  <2>. QED BY <1>2, <2>1
<1>4. ASSUME NEW n \in Zero
      PROVE  n + 1 \in Zero
  <2>. SUFFICES ASSUME NEW s \in SUBSET S, Cardinality(s) = n + 1
                PROVE  it[s] = 0
    OBVIOUS
  <2>1. s # {}
    BY FS_EmptySet
  <2>2. /\ Pick(s) \in s /\ s \ {Pick(s)} \in SUBSET S
        /\ Cardinality(s) \in Nat /\ Cardinality(s \ {Pick(s)}) \in Nat
        /\ Cardinality(s) = Cardinality(s \ {Pick(s)}) + 1
    BY <2>1, PickOne
  <2>3. it[s \ {Pick(s)}] = 0 /\ g[Pick(s)] = 0
    BY <2>2
  <2>. QED BY <1>2, <2>1, <2>3
<1>5. \A n \in Nat : n \in Zero
  <2>1. Zero \in SUBSET Nat
    OBVIOUS
  <2>. HIDE DEF Zero
  <2>. QED BY <1>3, <1>4, <2>1, NatSets
<1>6. Cardinality(S) \in Nat
  BY FS_CardinalityType
<1>. QED BY <1>1, <1>5, <1>6

-----------------------------------------------------------------------------
Held == [e \in Errands |-> HeldAmount(e)]

TotalsConserved ==
    Total(balance, Users) + Total(Held, Errands) = InitialBalance * Cardinality(account)

ConservationInv ==
    /\ LedgerInv
    /\ \A u \in Users \ account : balance[u] = 0
    /\ TotalsConserved

\* The sums of CreditsConserved are those totals.
LEMMA SumsAreTotals == CreditsConserved <=> TotalsConserved
<1>1. MapThenSumSet(LAMBDA u : balance[u], Users) = Total(balance, Users)
  BY DEF MapThenSumSet, MapThenFoldSet, Total, AddsUp, Pick
<1>2. MapThenSumSet(HeldAmount, Errands) = Total(Held, Errands)
  BY DEF MapThenSumSet, MapThenFoldSet, Total, AddsUp, Pick, Held
<1>. QED BY <1>1, <1>2 DEF CreditsConserved, TotalsConserved

\* What is held is a number, whatever a well-typed row says.
LEMMA HeldTypes ==
    ASSUME NEW h \in [Errands -> HoldRow \cup {NoHold}]
    PROVE  [e \in Errands |-> IF h[e].status = "HELD" THEN h[e].amount ELSE 0] \in [Errands -> Int]
<1>1. ASSUME NEW e \in Errands, h[e].status = "HELD"
      PROVE  h[e].amount \in Int
  <2>1. h[e] \in HoldRow
    BY <1>1 DEF NoHold
  <2>2. h[e].amount \in Amounts
    BY <2>1 DEF HoldRow
  <2>3. Amounts \subseteq Int
    BY LedgerAssumption
  <2>. QED BY <2>2, <2>3
<1>2. \A e \in Errands : (IF h[e].status = "HELD" THEN h[e].amount ELSE 0) \in Int
  BY <1>1
<1>. QED BY <1>2

\* There is no credit at first.
LEMMA ConservationInit == LedgerInit => ConservationInv
<1>. SUFFICES ASSUME LedgerInit
              PROVE  ConservationInv
  OBVIOUS
<1>1. balance = [u \in Users |-> 0] /\ Held = [e \in Errands |-> 0] /\ account = {}
  BY DEF LedgerInit, Held, HeldAmount, NoHold
<1>2. Total(balance, Users) = 0 /\ Total(Held, Errands) = 0
  BY <1>1, TotalZero, FinitenessAssumption
<1>3. InitialBalance * Cardinality(account) = 0
  BY <1>1, FS_EmptySet, LedgerAssumption
<1>4. TotalsConserved
  BY <1>2, <1>3 DEF TotalsConserved
<1>. QED BY <1>1, <1>4, LedgerInitInv DEF ConservationInv

\* A new account brings InitialBalance credits.
LEMMA OpenAccountConserves ==
    ASSUME ConservationInv, LedgerInv', NEW u \in Users, OpenAccount(u)
    PROVE  ConservationInv'
<1>1. /\ balance \in [Users -> Int] /\ balance' \in [Users -> Int] /\ balance[u] = 0
      /\ balance'[u] = InitialBalance /\ \A x \in Users : x # u => balance[x] = balance'[x]
  BY LedgerAssumption DEF ConservationInv, LedgerInv, LedgerTypeOK, OpenAccount
<1>2. /\ Total(balance, Users) \in Int
      /\ Total(balance', Users) = Total(balance, Users) + InitialBalance
  BY <1>1, TotalChange, FinitenessAssumption, LedgerAssumption
<1>3. Held' = Held
  BY DEF OpenAccount, Held, HeldAmount
<1>4. Cardinality(account) \in Nat /\ Cardinality(account') = Cardinality(account) + 1
  <2>1. IsFiniteSet(account)
    BY FinitenessAssumption, FS_Subset DEF ConservationInv, LedgerInv, LedgerTypeOK
  <2>. QED BY <2>1, FS_AddElement, FS_CardinalityType DEF OpenAccount
<1>5. InitialBalance * Cardinality(account') = InitialBalance * Cardinality(account) + InitialBalance
  <2>1. \A b, n \in Nat : b * (n + 1) = b * n + b
    OBVIOUS
  <2>. QED BY <1>4, <2>1, LedgerAssumption
<1>6. Total(Held, Errands) \in Int
  <2>1. Held \in [Errands -> Int]
    BY HeldTypes DEF ConservationInv, LedgerInv, LedgerTypeOK, Held, HeldAmount
  <2>2. CASE Errands = {}
    <3>1. Held = [e \in Errands |-> 0]
      BY <2>2 DEF Held
    <3>. QED BY <3>1, TotalZero, FinitenessAssumption
  <2>3. CASE Errands # {}
    <3>1. PICK e \in Errands : TRUE
      BY <2>3
    <3>. QED BY <2>1, <3>1, TotalChange, FinitenessAssumption
  <2>. QED BY <2>2, <2>3
<1>7. TotalsConserved'
  <2>1. Total(balance, Users) + Total(Held, Errands) = InitialBalance * Cardinality(account)
    BY DEF ConservationInv, TotalsConserved
  <2>2. Total(Held', Errands) = Total(Held, Errands)
    BY <1>3
  <2>3. Total(balance', Users) + Total(Held', Errands) = InitialBalance * Cardinality(account')
    BY <1>2, <1>4, <1>5, <1>6, <2>1, <2>2, LedgerAssumption
  <2>. QED BY <2>3 DEF TotalsConserved
<1>8. \A x \in Users \ account' : balance'[x] = 0
  BY <1>1 DEF ConservationInv, OpenAccount
<1>. QED BY <1>7, <1>8 DEF ConservationInv

\* Credits that move between an account and a hold stay what they are together.
LEMMA TransferConserves ==
    ASSUME ConservationInv, LedgerInv', NEW u \in account, NEW e \in Errands, NEW d \in Int,
           \A x \in Users : x # u => balance[x] = balance'[x],
           \A x \in Errands : x # e => hold[x] = hold'[x],
           balance'[u] = balance[u] + d,
           HeldAmount(e)' = HeldAmount(e) - d,
           account' = account
    PROVE  ConservationInv'
<1>1. u \in Users /\ balance \in [Users -> Int] /\ balance' \in [Users -> Int]
  BY DEF ConservationInv, LedgerInv, LedgerTypeOK
<1>2. /\ Total(balance, Users) \in Int /\ Total(balance', Users) \in Int
      /\ Total(balance', Users) = Total(balance, Users) + balance'[u] - balance[u]
  BY <1>1, TotalChange, FinitenessAssumption
<1>3. /\ Held \in [Errands -> Int] /\ Held' \in [Errands -> Int]
      /\ \A x \in Errands : x # e => Held[x] = Held'[x]
      /\ Held[e] = HeldAmount(e) /\ Held'[e] = HeldAmount(e)'
  <2>1. Held \in [Errands -> Int]
    BY HeldTypes DEF ConservationInv, LedgerInv, LedgerTypeOK, Held, HeldAmount
  <2>2. LedgerTypeOK'
    BY DEF LedgerInv
  <2>3. Held' \in [Errands -> Int]
    BY <2>2, HeldTypes DEF LedgerTypeOK, Held, HeldAmount
  <2>. QED BY <2>1, <2>3 DEF Held, HeldAmount
<1>4. /\ Total(Held, Errands) \in Int /\ Total(Held', Errands) \in Int
      /\ Total(Held', Errands) = Total(Held, Errands) + Held'[e] - Held[e]
  BY <1>3, TotalChange, FinitenessAssumption
<1>5. TotalsConserved'
  <2>1. Total(balance, Users) + Total(Held, Errands) = InitialBalance * Cardinality(account)
    BY DEF ConservationInv, TotalsConserved
  <2>2. Held[e] \in Int /\ balance[u] \in Int
    BY <1>1, <1>3
  <2>3. /\ Total(balance', Users) = Total(balance, Users) + d
        /\ Total(Held', Errands) = Total(Held, Errands) - d
    BY <1>1, <1>2, <1>3, <1>4, <2>2
  <2>4. Total(balance', Users) + Total(Held', Errands) = InitialBalance * Cardinality(account')
    BY <1>2, <1>4, <2>1, <2>3
  <2>. QED BY <2>4 DEF TotalsConserved
<1>6. \A x \in Users \ account' : balance'[x] = 0
  BY DEF ConservationInv
<1>. QED BY <1>5, <1>6 DEF ConservationInv

LEMMA ConservationStep == ConservationInv /\ [LedgerNext]_ledger => ConservationInv'
<1>. SUFFICES ASSUME ConservationInv, [LedgerNext]_ledger
              PROVE  ConservationInv'
  OBVIOUS
<1>0. LedgerInv /\ LedgerTypeOK /\ LedgerInv'
  BY LedgerStepInv DEF ConservationInv, LedgerInv
<1>. USE DEF LedgerTypeOK
<1>1. CASE UNCHANGED ledger
  BY <1>0, <1>1 DEF ledger, ConservationInv, TotalsConserved, Held, HeldAmount
<1>2. ASSUME NEW u \in Users, OpenAccount(u)
      PROVE  ConservationInv'
  BY <1>0, <1>2, OpenAccountConserves
<1>3. ASSUME NEW e \in Errands, NEW r \in Users, NEW c \in Users \cup {NoUser}, NEW a \in Amounts,
             PlaceHold(e, r, c, a)
      PROVE  ConservationInv'
  <2>1. r \in account /\ -a \in Int /\ balance'[r] = balance[r] + (-a)
    BY <1>0, <1>3, LedgerAssumption DEF PlaceHold
  <2>2. HeldAmount(e) = 0 /\ HeldAmount(e)' = a
    BY <1>0, <1>3 DEF PlaceHold, HeldAmount, NoHold, NewHold
  <2>3. HeldAmount(e)' = HeldAmount(e) - (-a)
    BY <2>2, LedgerAssumption
  <2>4. /\ \A x \in Users : x # r => balance[x] = balance'[x]
        /\ \A x \in Errands : x # e => hold[x] = hold'[x]
        /\ account' = account
    BY <1>0, <1>3 DEF PlaceHold
  <2>. QED BY <1>0, <2>1, <2>3, <2>4, TransferConserves
<1>4. ASSUME NEW e \in Errands, NEW c \in Users, AssignCourier(e, c)
      PROVE  ConservationInv'
  <2>1. c \in account /\ balance[c] \in Int /\ balance'[c] = balance[c] + 0
    BY <1>0, <1>4 DEF AssignCourier
  <2>2. HeldAmount(e) \in Int /\ HeldAmount(e)' = HeldAmount(e)
    BY <1>0, <1>4, HeldRow, LedgerAssumption DEF AssignCourier, HeldAmount, HoldRow
  <2>3. /\ \A x \in Users : x # c => balance[x] = balance'[x]
        /\ \A x \in Errands : x # e => hold[x] = hold'[x]
        /\ account' = account
    BY <1>0, <1>4 DEF AssignCourier
  <2>4. HeldAmount(e)' = HeldAmount(e) - 0
    BY <2>2
  <2>. QED BY <1>0, <2>1, <2>3, <2>4, TransferConserves
<1>5. ASSUME NEW e \in Errands, NEW u \in account, NEW s \in {"RELEASED", "REFUNDED"},
             hold[e].status = "HELD",
             hold' = [hold EXCEPT ![e].status = s],
             balance' = [balance EXCEPT ![u] = @ + hold[e].amount],
             account' = account
      PROVE  ConservationInv'
  <2>1. hold[e].amount \in Int
    BY <1>0, <1>5, HeldRow, LedgerAssumption DEF HoldRow
  <2>2. HeldAmount(e) = hold[e].amount /\ HeldAmount(e)' = 0
    BY <1>0, <1>5, HeldRow DEF HeldAmount, HoldRow
  <2>3. HeldAmount(e)' = HeldAmount(e) - hold[e].amount
    BY <2>1, <2>2
  <2>4. /\ \A x \in Users : x # u => balance[x] = balance'[x]
        /\ \A x \in Errands : x # e => hold[x] = hold'[x]
        /\ balance'[u] = balance[u] + hold[e].amount
    BY <1>0, <1>5
  <2>. QED BY <1>0, <1>5, <2>1, <2>3, <2>4, TransferConserves
<1>6. ASSUME NEW e \in Errands, Release(e) \/ Refund(e)
      PROVE  ConservationInv'
  BY <1>5, <1>6 DEF Release, Refund
<1>. QED BY <1>1, <1>2, <1>3, <1>4, <1>6 DEF LedgerNext

\* What is in the accounts and on hold is at any time what the accounts were opened with
\* (services/credits.ts:93, 215, 284: a deduction and its hold, a settlement and its payment,
\* are one transaction).
THEOREM NoCreditMadeOrLost == LedgerSpec => []CreditsConserved
<1>1. ConservationInv => CreditsConserved
  BY SumsAreTotals DEF ConservationInv
<1>. QED BY <1>1, ConservationInit, ConservationStep, PTL DEF LedgerSpec


-----------------------------------------------------------------------------
\* Part 3.  CreditTransactions.  What a handler relies on between its steps.

Settles(w) == Releases(w) \/ Refunds(w)
Applies(w) == pc[w] = "commit" /\ txn[w].outcome = "APPLY"

ControlOK(w) ==
    /\ pc[w] \in {"resolve", "ask", "ensure"} => txn[w].lookups # <<>>
    /\ pc[w] = "ensure" => Head(txn[w].lookups) \in Users
    /\ pc[w] # "idle" => txn[w].job \in Deliveries \cup Requests
    /\ pc[w] \in {"first", "second", "insert", "commit"} => Op(w) \in MoneyOps
    /\ pc[w] = "insert" => Holds(w)

\* A worker holds the locks its handler has taken so far, and no others.
LocksOK(w) ==
    /\ \A u \in Users : userLock[u] = w =>
          \/ Holds(w) /\ u = User(w) /\ pc[w] \in {"second", "insert", "commit"}
          \/ Settles(w) /\ u = Payee(Op(w), txn[w].row) /\ pc[w] = "commit"
    /\ \A e \in Errands : holdLock[e] = w =>
          /\ e = Errand(w)
          /\ pc[w] = "commit" \/ (pc[w] = "second" /\ ~Holds(w))
          /\ Holds(w) <=> hold[e] = NoHold

\* What was read of the requester's account is still true when the hold is placed.
RequestorRead(w) ==
    Holds(w) /\ (pc[w] \in {"second", "insert"} \/ Applies(w)) =>
        /\ User(w) \in account
        /\ userLock[User(w)] = w
        /\ txn[w].seen = balance[User(w)]
        /\ pc[w] # "second" => ~TooPoor(w) /\ txn[w].job.supplier \in account \cup {NoUser}

KeyReserved(w) == Holds(w) /\ Applies(w) => holdLock[Errand(w)] = w

\* What was read of the hold is still true when it changes.
HoldRead(w) ==
    ~Holds(w) /\ (pc[w] = "second" \/ Applies(w)) =>
        /\ holdLock[Errand(w)] = w
        /\ txn[w].row = hold[Errand(w)]
        /\ RowOutcome(txn[w].job, hold[Errand(w)]) = "NONE"

CourierRead(w) == Accepts(w) /\ Applies(w) => User(w) \in account

\* What was read of the account that is paid is still true when it is paid.
PayeeRead(w) ==
    Settles(w) /\ Applies(w) =>
        LET u == Payee(Op(w), txn[w].row) IN
        u \in account /\ userLock[u] = w /\ txn[w].seen = balance[u]

WorkerOK(w) ==
    /\ ControlOK(w) /\ LocksOK(w) /\ RequestorRead(w) /\ KeyReserved(w)
    /\ HoldRead(w) /\ CourierRead(w) /\ PayeeRead(w)

TransactionInv ==
    /\ TypeOK /\ NoOverdraft /\ PayeesHaveAccounts /\ RepliesMatchLedger
    /\ \A w \in Workers : WorkerOK(w)

\* What a message or a request may ask for.
LEMMA JobTypes ==
    ASSUME NEW j \in Deliveries \cup Requests
    PROVE  /\ j \in Job
           /\ j.op \in MoneyOps => j.errand \in Errands
           /\ j.op \in {"order.created", "POST hold"} => j.user \in Users /\ j.amount \in Amounts
           /\ j.op = "order.created" => j.supplier = NoUser
           /\ j.op = "order.accepted" => j.user \in Users
           /\ j.op = "user.registered" => j.user \in Users
           /\ j.supplier \in Users \cup {NoUser} /\ j.user \in Users \cup {NoUser}
BY TransactionAssumption DEF Job

LEMMA TransactionLedger == TransactionInv => LedgerInv
BY DEF TransactionInv, TypeOK, LedgerInv

LEMMA TransactionInitInv == Init => TransactionInv
<1>. SUFFICES ASSUME Init
              PROVE  TransactionInv
  OBVIOUS
<1>1. LedgerInv
  BY LedgerInitInv DEF Init
<1>2. NoTxn \in [job: Deliveries \cup Requests \cup {NoJob}, lookups: Seq(Users \cup {NoUser}),
                 row: HoldRow \cup {NoHold}, seen: Int, outcome: Outcomes]
  BY DEF NoTxn, Outcomes
<1>3. TypeOK
  <2>0. MaxRows \in Nat /\ MaxCrashes \in Nat
    BY TransactionAssumption
  <2>1. announced \in [Accepting -> 0..MaxRows] /\ crashes \in 0..MaxCrashes
    BY <2>0 DEF Init
  <2>2. ready \subseteq Deliveries /\ rejected \subseteq Rejecting
    BY DEF Init
  <2>3. /\ pc \in [Workers -> {"idle", "resolve", "ask", "ensure", "first", "second", "insert",
                               "commit", "settle"}]
        /\ userLock \in [Users -> Workers \cup {NoWorker}]
        /\ holdLock \in [Errands -> Workers \cup {NoWorker}]
    BY DEF Init
  <2>. QED BY <1>1, <1>2, <2>1, <2>2, <2>3 DEF Init, TypeOK, LedgerInv
<1>4. RepliesMatchLedger
  BY DEF Init, LedgerInit, RepliesMatchLedger, Row, Accepting, NoHold
<1>5. ASSUME NEW w \in Workers
      PROVE  WorkerOK(w)
  <2>1. pc[w] = "idle" /\ Op(w) = "NONE"
    BY DEF Init, Op, NoTxn, NoJob
  <2>2. ~Holds(w) /\ ~Accepts(w) /\ ~Settles(w) /\ ~Applies(w)
    BY <2>1 DEF Holds, Accepts, Settles, Releases, Refunds, Applies
  <2>3. LocksOK(w)
    BY TransactionAssumption DEF Init, LocksOK
  <2>. QED BY <2>1, <2>2, <2>3 DEF WorkerOK, ControlOK, RequestorRead, KeyReserved, HoldRead,
                                   CourierRead, PayeeRead
<1>. QED BY <1>1, <1>3, <1>4, <1>5 DEF TransactionInv, LedgerInv

\* The handlers of the operations on money are of one kind each.
LEMMA Kinds ==
    ASSUME NEW w \in Workers, Op(w) \in MoneyOps
    PROVE  /\ Holds(w) \/ Accepts(w) \/ Releases(w) \/ Refunds(w)
           /\ Settles(w) <=> Releases(w) \/ Refunds(w)
           /\ Holds(w) => ~Accepts(w) /\ ~Releases(w) /\ ~Refunds(w)
           /\ Accepts(w) => ~Holds(w) /\ ~Releases(w) /\ ~Refunds(w)
           /\ Releases(w) => ~Holds(w) /\ ~Accepts(w) /\ ~Refunds(w)
           /\ Refunds(w) => ~Holds(w) /\ ~Accepts(w) /\ ~Releases(w)
BY DEF MoneyOps, Holds, Accepts, Settles, Releases, Refunds

\* A hold that AcceptOutcome or SettleOutcome lets pass is held, and for an accept it has no
\* courier yet.
LEMMA HeldIfUndecided ==
    ASSUME NEW j \in Deliveries \cup Requests, NEW row \in HoldRow, RowOutcome(j, row) = "NONE"
    PROVE  /\ row.status = "HELD"
           /\ j.op = "order.accepted" => row.courier = NoUser
BY DEF RowOutcome, AcceptOutcome, SettleOutcome, HoldRow

\* A commit that applies is one step of the ledger.
LEMMA CommitIsStep ==
    ASSUME TransactionInv, NEW w \in Workers, Commit(w), txn[w].outcome = "APPLY"
    PROVE  \E e \in Errands :
              /\ e = Errand(w) /\ holdLock[e] = w
              /\ \/ Holds(w) /\ PlaceHold(e, User(w), txn[w].job.supplier, txn[w].job.amount)
                 \/ Accepts(w) /\ AssignCourier(e, User(w))
                 \/ Releases(w) /\ Release(e)
                 \/ Refunds(w) /\ Refund(e)
<1>0. /\ TypeOK /\ LedgerTypeOK /\ WorkerOK(w) /\ Applies(w) /\ Op(w) \in MoneyOps
      /\ pc[w] = "commit"
  BY DEF TransactionInv, TypeOK, Commit, Applies, WorkerOK, ControlOK
<1>1. txn[w].job \in Deliveries \cup Requests
  BY <1>0 DEF WorkerOK, ControlOK
<1>2. PICK e \in Errands : e = Errand(w)
  BY <1>0, <1>1, JobTypes DEF Errand, Op
<1>3. hold' = WrittenHold(w) /\ balance' = WrittenBalance(w) /\ account' = account
  BY DEF Commit
<1>4. holdLock[e] = w
  BY <1>0, <1>2 DEF WorkerOK, KeyReserved, HoldRead
<1>5. CASE Holds(w)
  <2>1. /\ hold' = [hold EXCEPT ![e] = NewHold(User(w), txn[w].job.supplier, txn[w].job.amount)]
        /\ balance' = [balance EXCEPT ![User(w)] = txn[w].seen - txn[w].job.amount]
    BY <1>0, <1>2, <1>3, <1>5, Kinds DEF WrittenHold, WrittenBalance, User
  <2>2. hold[e] = NoHold
    BY <1>0, <1>4, <1>5 DEF WorkerOK, LocksOK
  <2>3. /\ User(w) \in account /\ txn[w].seen = balance[User(w)]
        /\ ~TooPoor(w) /\ txn[w].job.supplier \in account \cup {NoUser}
    BY <1>0, <1>5 DEF WorkerOK, RequestorRead
  <2>4. txn[w].job.amount \in Int /\ txn[w].seen \in Int
    <3>1. txn[w].job.amount \in Amounts
      BY <1>1, <1>5, JobTypes DEF Holds, Op
    <3>2. txn[w].seen \in Int
      BY <1>0 DEF TypeOK
    <3>3. Amounts \subseteq Int
      BY LedgerAssumption
    <3>. QED BY <3>1, <3>2, <3>3
  <2>5. balance[User(w)] >= txn[w].job.amount
    BY <2>3, <2>4 DEF TooPoor
  <2>6. balance' = [balance EXCEPT ![User(w)] = @ - txn[w].job.amount]
    BY <1>0, <2>1, <2>3 DEF LedgerTypeOK
  <2>7. PlaceHold(e, User(w), txn[w].job.supplier, txn[w].job.amount)
    BY <1>3, <2>1, <2>2, <2>3, <2>5, <2>6 DEF PlaceHold
  <2>. QED BY <1>2, <1>4, <1>5, <2>7
<1>6. ASSUME ~Holds(w)
      PROVE  /\ hold[e] \in HoldRow /\ hold[e].status = "HELD" /\ txn[w].row = hold[e]
             /\ Accepts(w) => hold[e].courier = NoUser
  <2>1. RowOutcome(txn[w].job, hold[e]) = "NONE" /\ txn[w].row = hold[e] /\ hold[e] # NoHold
    BY <1>0, <1>2, <1>4, <1>6 DEF WorkerOK, HoldRead, LocksOK
  <2>2. hold[e] \in HoldRow
    BY <1>0, <2>1 DEF LedgerTypeOK
  <2>. QED BY <1>1, <2>1, <2>2, HeldIfUndecided DEF Accepts, Op
<1>7. CASE Accepts(w)
  <2>1. hold' = [hold EXCEPT ![e].courier = User(w)] /\ balance' = balance
    BY <1>0, <1>2, <1>3, <1>7, Kinds DEF WrittenHold, WrittenBalance, User
  <2>2. User(w) \in account
    BY <1>0, <1>7 DEF WorkerOK, CourierRead
  <2>3. ~Holds(w)
    BY <1>0, <1>7, Kinds
  <2>4. AssignCourier(e, User(w))
    BY <1>3, <1>6, <1>7, <2>1, <2>2, <2>3 DEF AssignCourier
  <2>. QED BY <1>2, <1>4, <1>7, <2>4
<1>8. CASE Settles(w)
  <2>1. ~Holds(w) /\ ~Accepts(w)
    BY <1>0, <1>8, Kinds
  <2>2. PICK u : u = Payee(Op(w), hold[e])
    OBVIOUS
  <2>3. u \in account /\ txn[w].seen = balance[u] /\ txn[w].row = hold[e]
    BY <1>0, <1>6, <1>8, <2>1, <2>2 DEF WorkerOK, PayeeRead
  <2>4. balance' = [balance EXCEPT ![u] = @ + hold[e].amount]
    BY <1>0, <1>3, <1>8, <2>1, <2>2, <2>3 DEF WrittenBalance, Settles, LedgerTypeOK
  <2>5. CASE Releases(w)
    <3>1. hold' = [hold EXCEPT ![e].status = "RELEASED"]
      BY <1>0, <1>2, <1>3, <2>5, Kinds DEF WrittenHold
    <3>2. u = hold[e].courier
      BY <2>2, <2>5 DEF Payee, Releases
    <3>. QED BY <1>2, <1>3, <1>4, <1>6, <2>1, <2>3, <2>4, <2>5, <3>1, <3>2 DEF Release
  <2>6. CASE Refunds(w)
    <3>1. hold' = [hold EXCEPT ![e].status = "REFUNDED"]
      BY <1>0, <1>2, <1>3, <2>1, <2>6, Kinds DEF WrittenHold
    <3>2. u = hold[e].requestor
      BY <2>2, <2>6 DEF Payee, Refunds
    <3>. QED BY <1>2, <1>3, <1>4, <1>6, <2>1, <2>3, <2>4, <2>6, <3>1, <3>2 DEF Refund
  <2>. QED BY <1>8, <2>5, <2>6 DEF Settles
<1>. QED BY <1>0, <1>5, <1>7, <1>8, Kinds DEF Settles

-----------------------------------------------------------------------------
\* Part 3b.  The invariant of the handlers is kept.

Same(w) == pc'[w] = pc[w] /\ txn'[w] = txn[w]

\* What a worker has locked is not touched, and it is given no lock it did not ask for.
LockedKept(w) ==
    /\ account \subseteq account'
    /\ \A u \in Users : /\ userLock'[u] = w <=> userLock[u] = w
                        /\ userLock[u] = w /\ u \in account => balance'[u] = balance[u]
    /\ \A e \in Errands : /\ holdLock'[e] = w <=> holdLock[e] = w
                          /\ holdLock[e] = w => hold'[e] = hold[e]

LEMMA Undisturbed ==
    ASSUME TransactionInv, NEW v \in Workers, Same(v), LockedKept(v)
    PROVE  WorkerOK(v)'
<1>0. TypeOK /\ WorkerOK(v) /\ account \subseteq Users
  BY DEF TransactionInv, TypeOK, LedgerTypeOK
<1>. PICK e : e = Errand(v)
  OBVIOUS
<1>. PICK r : r = User(v)
  OBVIOUS
<1>. PICK u : u = Payee(Op(v), txn[v].row)
  OBVIOUS
<1>1. /\ txn'[v] = txn[v] /\ pc'[v] = pc[v]
      /\ Op(v)' = Op(v) /\ Errand(v)' = e /\ User(v)' = r
      /\ Payee(Op(v), txn[v].row)' = u
  BY DEF Same, Op, Errand, User, Payee
<1>2. /\ Holds(v)' <=> Holds(v)
      /\ Accepts(v)' <=> Accepts(v)
      /\ Settles(v)' <=> Settles(v)
      /\ Applies(v)' <=> Applies(v)
      /\ TooPoor(v)' <=> TooPoor(v)
  BY <1>1 DEF Holds, Accepts, Settles, Releases, Refunds, Applies, TooPoor
<1>3. ControlOK(v)'
  BY <1>0, <1>1, <1>2 DEF WorkerOK, ControlOK
<1>4. pc[v] \in {"first", "second", "insert", "commit"} => e \in Errands
  BY <1>0, JobTypes DEF WorkerOK, ControlOK, Op, Errand
<1>5. LocksOK(v)'
  BY <1>0, <1>1, <1>2 DEF WorkerOK, LocksOK, LockedKept
<1>6. RequestorRead(v)'
  BY <1>0, <1>1, <1>2 DEF WorkerOK, RequestorRead, LockedKept
<1>7. KeyReserved(v)'
  BY <1>0, <1>1, <1>2, <1>4 DEF WorkerOK, KeyReserved, LockedKept, Applies
<1>8. HoldRead(v)'
  <2>. SUFFICES ASSUME ~Holds(v), pc[v] = "second" \/ Applies(v)
                PROVE  HoldRead(v)'
    BY <1>1, <1>2 DEF HoldRead
  <2>1. e \in Errands /\ holdLock[e] = v /\ txn[v].row = hold[e]
        /\ RowOutcome(txn[v].job, hold[e]) = "NONE"
    BY <1>0, <1>4 DEF WorkerOK, HoldRead, Applies
  <2>2. hold'[e] = hold[e] /\ holdLock'[e] = v
    BY <2>1 DEF LockedKept
  <2>. QED BY <1>1, <2>1, <2>2 DEF HoldRead
<1>9. CourierRead(v)'
  BY <1>0, <1>1, <1>2 DEF WorkerOK, CourierRead, LockedKept
<1>10. PayeeRead(v)'
  BY <1>0, <1>1, <1>2 DEF WorkerOK, PayeeRead, LockedKept
<1>. QED BY <1>3, <1>5, <1>6, <1>7, <1>8, <1>9, <1>10 DEF WorkerOK

\* The step of one worker, as Next lists them.
WorkerStep(w) ==
    \/ \E j \in Deliveries : Deliver(w, j)
    \/ \E j \in Requests : Serve(w, j)
    \/ Work(w) \/ LookupFails(w)

\* Nothing another worker does touches what this one has locked.
LEMMA OthersSame ==
    ASSUME TypeOK, NEW w \in Workers, NEW v \in Workers, v # w, WorkerStep(w)
    PROVE  Same(v)
<1>. USE DEF TypeOK, Same, Goto
<1>1. ASSUME NEW j \in Deliveries \cup Requests, Begin(w, j)
      PROVE  Same(v)
  BY <1>1 DEF Begin
<1>2. ASSUME Resolve(w) \/ LookupAnswered(w) \/ EnsureAccount(w)
      PROVE  Same(v)
  BY <1>2 DEF Resolve, LookupAnswered, EnsureAccount, Resolved
<1>3. ASSUME LookupFails(w) \/ InsertConflicts(w) \/ Settle(w)
      PROVE  Same(v)
  BY <1>3 DEF LookupFails, InsertConflicts, Settle, Fail, Leave
<1>4. ASSUME LockRequestor(w) \/ ReadHold(w) \/ InsertHold(w)
      PROVE  Same(v)
  BY <1>4 DEF LockRequestor, ReadHold, InsertHold, Decide
<1>5. ASSUME LockHold(w) \/ ReadCourier(w) \/ LockPayee(w)
      PROVE  Same(v)
  BY <1>5 DEF LockHold, ReadCourier, LockPayee, Decide
<1>6. ASSUME Commit(w)
      PROVE  Same(v)
  BY <1>6 DEF Commit
<1>. QED BY <1>1, <1>2, <1>3, <1>4, <1>5, <1>6 DEF WorkerStep, Deliver, Serve, Work

\* A lock is only taken when it is free.
LEMMA OthersLocksKept ==
    ASSUME TypeOK, NEW w \in Workers, NEW v \in Workers, v # w, WorkerStep(w)
    PROVE  /\ \A u \in Users : userLock'[u] = v <=> userLock[u] = v
           /\ \A e \in Errands : holdLock'[e] = v <=> holdLock[e] = v
<1>. DEFINE Kept == /\ \A u \in Users : userLock'[u] = v <=> userLock[u] = v
                    /\ \A e \in Errands : holdLock'[e] = v <=> holdLock[e] = v
<1>0. NoWorker # v
  BY TransactionAssumption
<1>1. ASSUME UNCHANGED locks
      PROVE  Kept
  BY <1>1 DEF locks
<1>2. ASSUME ReleaseLocks(w)
      PROVE  Kept
  BY <1>0, <1>2 DEF ReleaseLocks, TypeOK
<1>3. ASSUME NEW u \in Users, userLock[u] = NoWorker, userLock' = [userLock EXCEPT ![u] = w],
             holdLock' = holdLock
      PROVE  Kept
  BY <1>0, <1>3 DEF TypeOK
<1>4. ASSUME NEW e \in Errands, holdLock[e] = NoWorker, holdLock' = [holdLock EXCEPT ![e] = w],
             userLock' = userLock
      PROVE  Kept
  BY <1>0, <1>4 DEF TypeOK
<1>5. ASSUME userLock' = [userLock EXCEPT ![User(w)] = w], UserRowFree(User(w)),
             User(w) \in account, holdLock' = holdLock
      PROVE  Kept
  <2>. HIDE DEF Kept
  <2>. QED BY <1>3, <1>5 DEF UserRowFree, TypeOK, LedgerTypeOK
<1>6. ASSUME NEW u \in account, userLock' = [userLock EXCEPT ![u] = w], UserRowFree(u),
             holdLock' = holdLock
      PROVE  Kept
  <2>. HIDE DEF Kept
  <2>. QED BY <1>3, <1>6 DEF UserRowFree, TypeOK, LedgerTypeOK
<1>7. ASSUME holdLock' = [holdLock EXCEPT ![Errand(w)] = w], HoldRowFree(Errand(w)),
             userLock' = userLock
      PROVE  Kept
  <2>1. CASE Errand(w) \in Errands
    <3>. HIDE DEF Kept
    <3>. QED BY <1>4, <1>7, <2>1 DEF HoldRowFree
  <2>2. CASE Errand(w) \notin Errands
    BY <1>7, <2>2 DEF TypeOK
  <2>. QED BY <2>1, <2>2
<1>. HIDE DEF Kept
<1>8. ASSUME \/ \E j \in Deliveries : Deliver(w, j)
             \/ \E j \in Requests : Serve(w, j)
             \/ Resolve(w) \/ LookupAnswered(w) \/ EnsureAccount(w)
      PROVE  Kept
  BY <1>1, <1>8 DEF Deliver, Serve, Begin, Resolve, LookupAnswered, EnsureAccount
<1>9. ASSUME LookupFails(w) \/ InsertConflicts(w) \/ Settle(w) \/ Commit(w)
      PROVE  Kept
  BY <1>1, <1>2, <1>9 DEF LookupFails, InsertConflicts, Settle, Commit, Fail
<1>10. ASSUME LockRequestor(w)
       PROVE  Kept
  BY <1>1, <1>5, <1>10 DEF LockRequestor, locks
<1>11. ASSUME ReadHold(w) \/ ReadCourier(w)
       PROVE  Kept
  BY <1>1, <1>11 DEF ReadHold, ReadCourier
<1>12. ASSUME InsertHold(w)
       PROVE  Kept
  BY <1>7, <1>12 DEF InsertHold
<1>13. ASSUME LockHold(w)
       PROVE  Kept
  BY <1>1, <1>7, <1>13 DEF LockHold, locks
<1>14. ASSUME LockPayee(w)
       PROVE  Kept
  <2>. PICK u : u = Payee(Op(w), txn[w].row)
    OBVIOUS
  <2>. QED BY <1>1, <1>6, <1>14 DEF LockPayee, locks
<1>15. Kept
  BY <1>8, <1>9, <1>10, <1>11, <1>12, <1>13, <1>14 DEF WorkerStep, Work
<1>. QED BY <1>15 DEF Kept

\* The tables change when an account is opened and when a transaction that applies commits.
LEMMA LedgerEffects ==
    ASSUME TransactionInv, NEW w \in Workers, WorkerStep(w)
    PROVE  \/ UNCHANGED ledger
           \/ \E u \in Users : OpenAccount(u)
           \/ Commit(w) /\ txn[w].outcome = "APPLY"
<1>1. CASE \/ \E j \in Deliveries : Deliver(w, j)
           \/ \E j \in Requests : Serve(w, j)
           \/ Resolve(w) \/ LookupAnswered(w)
  BY <1>1 DEF Deliver, Serve, Begin, Resolve, LookupAnswered
<1>2. CASE EnsureAccount(w)
  <2>1. Head(txn[w].lookups) \in Users
    BY <1>2 DEF EnsureAccount, TransactionInv, WorkerOK, ControlOK
  <2>. QED BY <1>2, <2>1 DEF EnsureAccount
<1>3. CASE LookupFails(w) \/ InsertConflicts(w) \/ Settle(w)
  BY <1>3 DEF LookupFails, InsertConflicts, Settle, Fail
<1>4. CASE Commit(w)
  BY <1>4 DEF Commit
<1>5. CASE LockRequestor(w) \/ ReadHold(w) \/ InsertHold(w)
  BY <1>5 DEF LockRequestor, ReadHold, InsertHold
<1>6. CASE LockHold(w) \/ ReadCourier(w) \/ LockPayee(w)
  BY <1>6 DEF LockHold, ReadCourier, LockPayee
<1>. QED BY <1>1, <1>2, <1>3, <1>4, <1>5, <1>6 DEF WorkerStep, Work

LEMMA LedgerSteps == TransactionInv /\ [Next]_vars => [LedgerNext]_ledger
<1>. SUFFICES ASSUME TransactionInv, [Next]_vars
              PROVE  [LedgerNext]_ledger
  OBVIOUS
<1>1. ASSUME NEW w \in Workers, Commit(w), txn[w].outcome = "APPLY"
      PROVE  LedgerNext
  <2>0. /\ txn[w].job \in Deliveries \cup Requests
        /\ Holds(w) => User(w) \in Users /\ txn[w].job.amount \in Amounts
        /\ txn[w].job.supplier \in Users \cup {NoUser}
        /\ Accepts(w) => User(w) \in Users
    BY <1>1, JobTypes DEF TransactionInv, WorkerOK, ControlOK, Commit, Holds, Accepts, Op, User
  <2>1. PICK e \in Errands :
            \/ Holds(w) /\ PlaceHold(e, User(w), txn[w].job.supplier, txn[w].job.amount)
            \/ Accepts(w) /\ AssignCourier(e, User(w))
            \/ Releases(w) /\ Release(e)
            \/ Refunds(w) /\ Refund(e)
    BY <1>1, CommitIsStep
  <2>. QED BY <2>0, <2>1 DEF LedgerNext
<1>2. ASSUME NEW w \in Workers, WorkerStep(w)
      PROVE  [LedgerNext]_ledger
  BY <1>1, <1>2, LedgerEffects DEF LedgerNext
<1>3. CASE UNCHANGED vars
  BY <1>3 DEF vars, ledger
<1>4. CASE Crash \/ \E j \in Deliveries : Arrive(j)
  BY <1>4 DEF Crash, Arrive
<1>. QED BY <1>2, <1>3, <1>4 DEF Next, WorkerStep

\* A commit writes the rows its worker has locked.
LEMMA CommitWritesLocked ==
    ASSUME TransactionInv, NEW w \in Workers, Commit(w), txn[w].outcome = "APPLY"
    PROVE  /\ account' = account
           /\ \A u \in Users : userLock[u] # w => balance'[u] = balance[u]
           /\ \A e \in Errands : holdLock[e] # w => hold'[e] = hold[e]
<1>0. TypeOK /\ LedgerTypeOK /\ WorkerOK(w) /\ Applies(w) /\ Op(w) \in MoneyOps
  BY DEF TransactionInv, TypeOK, Commit, Applies, WorkerOK, ControlOK
<1>1. PICK e \in Errands :
          /\ e = Errand(w) /\ holdLock[e] = w
          /\ \/ Holds(w) /\ PlaceHold(e, User(w), txn[w].job.supplier, txn[w].job.amount)
             \/ Accepts(w) /\ AssignCourier(e, User(w))
             \/ Releases(w) /\ Release(e)
             \/ Refunds(w) /\ Refund(e)
  BY CommitIsStep
<1>2. CASE Holds(w) /\ PlaceHold(e, User(w), txn[w].job.supplier, txn[w].job.amount)
  <2>1. userLock[User(w)] = w
    BY <1>0, <1>2 DEF WorkerOK, RequestorRead
  <2>. QED BY <1>0, <1>1, <1>2, <2>1 DEF PlaceHold, LedgerTypeOK
<1>3. CASE Accepts(w) /\ AssignCourier(e, User(w))
  BY <1>0, <1>1, <1>3 DEF AssignCourier, LedgerTypeOK
<1>4. CASE (Releases(w) /\ Release(e)) \/ (Refunds(w) /\ Refund(e))
  <2>1. ~Holds(w) /\ Settles(w)
    BY <1>0, <1>4, Kinds
  <2>2. txn[w].row = hold[e]
    BY <1>0, <1>1, <2>1 DEF WorkerOK, HoldRead
  <2>3. userLock[Payee(Op(w), hold[e])] = w
    BY <1>0, <2>1, <2>2 DEF WorkerOK, PayeeRead
  <2>4. CASE Releases(w) /\ Release(e)
    <3>1. userLock[hold[e].courier] = w
      BY <2>3, <2>4 DEF Releases, Payee
    <3>. QED BY <1>0, <1>1, <2>4, <3>1 DEF Release, LedgerTypeOK
  <2>5. CASE Refunds(w) /\ Refund(e)
    <3>1. userLock[hold[e].requestor] = w
      BY <2>3, <2>5 DEF Refunds, Payee
    <3>. QED BY <1>0, <1>1, <2>5, <3>1 DEF Refund, LedgerTypeOK
  <2>. QED BY <1>4, <2>4, <2>5
<1>. QED BY <1>1, <1>2, <1>3, <1>4

LEMMA OthersKept ==
    ASSUME TransactionInv, NEW w \in Workers, NEW v \in Workers, v # w, WorkerStep(w)
    PROVE  LockedKept(v)
<1>0. TypeOK /\ LedgerTypeOK
  BY DEF TransactionInv, TypeOK
<1>1. /\ \A u \in Users : userLock'[u] = v <=> userLock[u] = v
      /\ \A e \in Errands : holdLock'[e] = v <=> holdLock[e] = v
  BY <1>0, OthersLocksKept
<1>2. CASE UNCHANGED ledger
  BY <1>1, <1>2 DEF ledger, LockedKept
<1>3. ASSUME NEW u \in Users, OpenAccount(u)
      PROVE  LockedKept(v)
  BY <1>0, <1>1, <1>3 DEF OpenAccount, LockedKept, LedgerTypeOK
<1>4. CASE Commit(w) /\ txn[w].outcome = "APPLY"
  BY <1>1, <1>4, CommitWritesLocked DEF LockedKept
<1>. QED BY <1>2, <1>3, <1>4, LedgerEffects

NoLocks(w) == /\ \A u \in Users : userLock[u] # w
              /\ \A e \in Errands : holdLock[e] # w

\* Outside its transaction a worker relies on nothing but its job.
LEMMA OutsideTransaction ==
    ASSUME NEW w \in Workers, ControlOK(w)', NoLocks(w)',
           pc'[w] \in {"idle", "resolve", "ask", "ensure", "first", "settle"}
    PROVE  WorkerOK(w)'
BY DEF WorkerOK, LocksOK, RequestorRead, KeyReserved, HoldRead, CourierRead, PayeeRead, Applies,
       NoLocks

\* Neither does a worker that commits nothing but an answer.
LEMMA AnswerOnly ==
    ASSUME NEW w \in Workers, ControlOK(w)', LocksOK(w)', pc'[w] = "commit",
           txn'[w].outcome # "APPLY"
    PROVE  WorkerOK(w)'
BY DEF WorkerOK, RequestorRead, KeyReserved, HoldRead, CourierRead, PayeeRead, Applies

LEMMA NothingLocked ==
    ASSUME NEW w \in Workers, WorkerOK(w), pc[w] \notin {"second", "insert", "commit"}
    PROVE  NoLocks(w)
BY DEF WorkerOK, LocksOK, NoLocks

\* Before and after the transaction.
LEMMA OutsideSteps ==
    ASSUME TransactionInv, NEW w \in Workers,
           \/ \E j \in Deliveries : Deliver(w, j)
           \/ \E j \in Requests : Serve(w, j)
           \/ Resolve(w) \/ LookupAnswered(w) \/ LookupFails(w) \/ EnsureAccount(w)
           \/ InsertConflicts(w) \/ Commit(w) \/ Settle(w)
    PROVE  WorkerOK(w)'
<1>0. TypeOK /\ WorkerOK(w)
  BY DEF TransactionInv
<1>1. ASSUME NEW j \in Deliveries \cup Requests, Begin(w, j)
      PROVE  WorkerOK(w)'
  <2>1. NoLocks(w)'
    BY <1>0, <1>1, NothingLocked DEF Begin, locks, NoLocks
  <2>2. /\ pc'[w] = IF j.op = "user.registered" THEN "ensure" ELSE AfterLookups(j, Lookups(j))
        /\ txn'[w].job = j /\ txn'[w].lookups = Lookups(j)
    BY <1>0, <1>1 DEF Begin, Goto, TypeOK, NoTxn
  <2>3. j.op = "user.registered" => Lookups(j) = <<j.user>> /\ j.user \in Users
    BY <1>1, JobTypes DEF Lookups
  <2>4. ControlOK(w)'
    BY <1>1, <2>2, <2>3 DEF ControlOK, AfterLookups, Op
  <2>. QED BY <2>1, <2>2, <2>4, OutsideTransaction DEF AfterLookups
<1>2. ASSUME Resolved(w), UNCHANGED locks, pc[w] \in {"resolve", "ask", "ensure"}
      PROVE  WorkerOK(w)'
  <2>1. NoLocks(w)'
    BY <1>0, <1>2, NothingLocked DEF locks, NoLocks
  <2>2. /\ pc'[w] = AfterLookups(txn[w].job, Tail(txn[w].lookups))
        /\ txn'[w].job = txn[w].job /\ txn'[w].lookups = Tail(txn[w].lookups)
    BY <1>0, <1>2 DEF Resolved, Goto, TypeOK
  <2>3. ControlOK(w)'
    BY <1>0, <1>2, <2>2 DEF WorkerOK, ControlOK, AfterLookups, Op
  <2>. QED BY <2>1, <2>2, <2>3, OutsideTransaction DEF AfterLookups
<1>3. ASSUME NEW label \in {"ask", "ensure"}, Goto(w, label), UNCHANGED <<txn, locks>>,
             pc[w] \in {"resolve", "ask"},
             label = "ensure" => Head(txn[w].lookups) \in Users
      PROVE  WorkerOK(w)'
  <2>1. NoLocks(w)'
    BY <1>0, <1>3, NothingLocked DEF locks, NoLocks
  <2>2. ControlOK(w)' /\ pc'[w] = label
    BY <1>0, <1>3 DEF WorkerOK, ControlOK, Goto, TypeOK
  <2>. QED BY <2>1, <2>2, OutsideTransaction
<1>4. ASSUME pc'[w] \in {"idle", "settle"}, NoLocks(w)',
             pc'[w] = "settle" => txn' = txn /\ pc[w] = "commit"
      PROVE  WorkerOK(w)'
  BY <1>0, <1>4, OutsideTransaction DEF WorkerOK, ControlOK
<1>5. ASSUME ReleaseLocks(w)
      PROVE  NoLocks(w)'
  BY <1>5, TransactionAssumption DEF ReleaseLocks, NoLocks
<1>6. CASE Resolve(w)
  BY <1>2, <1>3, <1>6 DEF Resolve
<1>7. CASE LookupAnswered(w)
  BY <1>2, <1>3, <1>7 DEF LookupAnswered
<1>8. CASE EnsureAccount(w)
  BY <1>2, <1>8 DEF EnsureAccount
<1>9. CASE LookupFails(w) \/ InsertConflicts(w)
  BY <1>0, <1>4, <1>5, <1>9 DEF LookupFails, InsertConflicts, Fail, Leave, Goto, TypeOK
<1>10. CASE Commit(w)
  BY <1>0, <1>4, <1>5, <1>10 DEF Commit, Goto, TypeOK
<1>11. CASE Settle(w)
  <2>1. NoLocks(w)'
    BY <1>0, <1>11, NothingLocked DEF Settle, locks, NoLocks
  <2>. QED BY <1>0, <1>4, <1>11, <2>1 DEF Settle, Leave, Goto, TypeOK
<1>. QED BY <1>1, <1>6, <1>7, <1>8, <1>9, <1>10, <1>11 DEF Deliver, Serve

\* The kind of a handler does not change while its job does not.
LEMMA SameJob ==
    ASSUME NEW w \in Workers, txn'[w].job = txn[w].job
    PROVE  /\ Op(w)' = Op(w) /\ Errand(w)' = Errand(w) /\ User(w)' = User(w)
           /\ Holds(w)' <=> Holds(w)
           /\ Accepts(w)' <=> Accepts(w)
           /\ Settles(w)' <=> Settles(w)
BY DEF Op, Errand, User, Holds, Accepts, Settles, Releases, Refunds

\* A decision that changes no lock.
LEMMA Decided ==
    ASSUME TransactionInv, NEW w \in Workers, NEW outcome, outcome # "APPLY", Decide(w, outcome),
           UNCHANGED <<ledger, locks>>, pc[w] \in {"first", "second"},
           pc[w] = "second" => Holds(w) \/ Accepts(w) \/ Settles(w)
    PROVE  WorkerOK(w)'
<1>0. TypeOK /\ WorkerOK(w)
  BY DEF TransactionInv
<1>1. /\ pc'[w] = "commit" /\ txn'[w].outcome = outcome
      /\ txn'[w].job = txn[w].job /\ txn'[w].row = txn[w].row
  BY <1>0 DEF Decide, Goto, TypeOK
<1>2. ControlOK(w)'
  BY <1>0, <1>1, SameJob DEF WorkerOK, ControlOK
<1>3. LocksOK(w)'
  BY <1>0, <1>1, SameJob DEF WorkerOK, LocksOK, locks, ledger
<1>. QED BY <1>1, <1>2, <1>3, AnswerOnly

\* The transaction of a hold: the requester's row, the hold that may exist, the insert.
LEMMA HoldSteps ==
    ASSUME TransactionInv, NEW w \in Workers, LockRequestor(w) \/ ReadHold(w) \/ InsertHold(w)
    PROVE  WorkerOK(w)'
<1>0. TypeOK /\ WorkerOK(w) /\ account \subseteq Users
  BY DEF TransactionInv, TypeOK, LedgerTypeOK
<1>1. CASE LockRequestor(w)
  <2>0. pc[w] = "first" /\ Holds(w) /\ NoLocks(w)
    BY <1>0, <1>1, NothingLocked DEF LockRequestor
  <2>1. CASE Decide(w, "REQUESTOR_NOT_FOUND") /\ UNCHANGED userLock
    BY <1>1, <2>0, <2>1, Decided DEF LockRequestor, locks
  <2>2. PICK r : r = User(w)
    OBVIOUS
  <2>3. CASE /\ r \in account /\ userLock' = [userLock EXCEPT ![r] = w]
             /\ txn' = [txn EXCEPT ![w].seen = balance[r]] /\ Goto(w, "second")
    <3>1. /\ pc'[w] = "second" /\ txn'[w].job = txn[w].job /\ txn'[w].seen = balance[r]
          /\ userLock'[r] = w /\ \A u \in Users : u # r => userLock'[u] # w
          /\ \A e \in Errands : holdLock'[e] # w
          /\ account' = account /\ balance' = balance
      BY <1>0, <1>1, <2>0, <2>3 DEF LockRequestor, Goto, TypeOK, ledger, NoLocks
    <3>2. ControlOK(w)'
      BY <1>0, <2>0, <3>1, SameJob DEF WorkerOK, ControlOK
    <3>3. LocksOK(w)'
      BY <2>0, <2>2, <3>1, SameJob DEF LocksOK
    <3>4. RequestorRead(w)'
      BY <2>2, <2>3, <3>1, SameJob DEF RequestorRead
    <3>. QED BY <2>0, <3>1, <3>2, <3>3, <3>4, SameJob
             DEF WorkerOK, KeyReserved, HoldRead, CourierRead, PayeeRead, Applies
  <2>. QED BY <1>1, <2>1, <2>2, <2>3 DEF LockRequestor
<1>2. CASE ReadHold(w)
  <2>0. pc[w] = "second" /\ Holds(w) /\ UNCHANGED <<ledger, locks>>
    BY <1>2 DEF ReadHold
  <2>1. ASSUME NEW outcome \in {"SILENT", "RECORD_NOT_MATCHING", "INSUFFICIENT_CREDITS",
                                "COURIER_NOT_FOUND"},
               Decide(w, outcome)
        PROVE  WorkerOK(w)'
    BY <2>0, <2>1, Decided
  <2>2. CASE ~TooPoor(w) /\ ~SupplierMissing(txn[w].job) /\ Goto(w, "insert") /\ UNCHANGED txn
    <3>1. /\ pc'[w] = "insert" /\ txn'[w] = txn[w] /\ account' = account /\ balance' = balance
          /\ hold' = hold /\ userLock' = userLock /\ holdLock' = holdLock
      BY <1>0, <2>0, <2>2 DEF Goto, TypeOK, ledger, locks
    <3>2. ControlOK(w)'
      BY <1>0, <2>0, <3>1, SameJob DEF WorkerOK, ControlOK
    <3>3. LocksOK(w)'
      BY <1>0, <2>0, <3>1, SameJob DEF WorkerOK, LocksOK
    <3>4. txn[w].job.supplier \in account \cup {NoUser}
      BY <1>0, <2>0, <2>2, JobTypes DEF WorkerOK, ControlOK, SupplierMissing, Holds, Op
    <3>5. RequestorRead(w)'
      BY <1>0, <2>0, <2>2, <3>1, <3>4, SameJob DEF WorkerOK, RequestorRead, TooPoor
    <3>. QED BY <2>0, <3>1, <3>2, <3>3, <3>5, SameJob
             DEF WorkerOK, KeyReserved, HoldRead, CourierRead, PayeeRead, Applies
  <2>. QED BY <1>2, <2>1, <2>2 DEF ReadHold, ExistingHoldOutcome
<1>3. CASE InsertHold(w)
  <2>0. pc[w] = "insert" /\ Holds(w) /\ Op(w) \in MoneyOps
    BY <1>0, <1>3 DEF InsertHold, WorkerOK, ControlOK
  <2>1. PICK e \in Errands : e = Errand(w)
    BY <1>0, <2>0, JobTypes DEF WorkerOK, ControlOK, Errand, Op
  <2>2. /\ pc'[w] = "commit" /\ txn'[w].job = txn[w].job /\ txn'[w].seen = txn[w].seen
        /\ txn'[w].outcome = "APPLY"
        /\ hold[e] = NoHold /\ holdLock'[e] = w
        /\ \A d \in Errands : d # e => holdLock'[d] = holdLock[d]
        /\ userLock' = userLock /\ hold' = hold /\ account' = account /\ balance' = balance
    BY <1>0, <1>3, <2>1 DEF InsertHold, Decide, Goto, TypeOK, ledger
  <2>3. ControlOK(w)'
    BY <1>0, <2>0, <2>2, SameJob DEF WorkerOK, ControlOK
  <2>4. LocksOK(w)'
    BY <1>0, <2>0, <2>1, <2>2, SameJob DEF WorkerOK, LocksOK
  <2>5. RequestorRead(w)'
    BY <1>0, <2>0, <2>2, SameJob DEF WorkerOK, RequestorRead, TooPoor
  <2>6. KeyReserved(w)'
    BY <2>1, <2>2, SameJob DEF KeyReserved
  <2>7. ~Accepts(w) /\ ~Settles(w)
    BY <2>0, Kinds
  <2>. QED BY <2>0, <2>2, <2>3, <2>4, <2>5, <2>6, <2>7, SameJob
           DEF WorkerOK, HoldRead, CourierRead, PayeeRead
<1>. QED BY <1>1, <1>2, <1>3

\* The transaction of an accept or a settlement: the hold's row, then the user's.
LEMMA SettleSteps ==
    ASSUME TransactionInv, NEW w \in Workers, LockHold(w) \/ ReadCourier(w) \/ LockPayee(w)
    PROVE  WorkerOK(w)'
<1>0. TypeOK /\ LedgerTypeOK /\ WorkerOK(w) /\ account \subseteq Users
  BY DEF TransactionInv, TypeOK, LedgerTypeOK
<1>1. pc[w] \in {"first", "second"} /\ Op(w) \in MoneyOps /\ ~Holds(w)
  <2>1. pc[w] \in {"first", "second"} /\ Op(w) \in MoneyOps
    BY <1>0 DEF LockHold, ReadCourier, LockPayee, WorkerOK, ControlOK
  <2>. QED BY <2>1, Kinds DEF LockHold, ReadCourier, LockPayee
<1>2. txn[w].job \in Deliveries \cup Requests
  BY <1>0, <1>1 DEF WorkerOK, ControlOK
<1>3. PICK e \in Errands : e = Errand(w)
  BY <1>1, <1>2, JobTypes DEF Errand, Op
<1>4. Accepts(w) \/ Settles(w)
  BY <1>1, Kinds
<1>5. CASE LockHold(w)
  <2>0. pc[w] = "first" /\ NoLocks(w) /\ UNCHANGED <<ledger, userLock>>
    BY <1>0, <1>5, NothingLocked DEF LockHold
  <2>1. CASE Decide(w, "ERRAND_NOT_FOUND") /\ UNCHANGED holdLock
    BY <2>0, <2>1, Decided DEF locks
  <2>2. PICK outcome : outcome = RowOutcome(txn[w].job, hold[e])
    OBVIOUS
  <2>3. outcome # "APPLY"
    BY <2>2 DEF RowOutcome, AcceptOutcome, SettleOutcome
  <2>4. CASE /\ hold[e] # NoHold
             /\ holdLock' = [holdLock EXCEPT ![e] = w]
             /\ txn' = [txn EXCEPT ![w].row = hold[e], ![w].outcome = outcome]
             /\ Goto(w, IF outcome = "NONE" THEN "second" ELSE "commit")
    <3>1. /\ pc'[w] = IF outcome = "NONE" THEN "second" ELSE "commit"
          /\ txn'[w].job = txn[w].job /\ txn'[w].row = hold[e] /\ txn'[w].outcome = outcome
          /\ holdLock'[e] = w /\ \A d \in Errands : d # e => holdLock'[d] # w
          /\ \A u \in Users : userLock'[u] # w
          /\ hold' = hold
      BY <1>0, <2>0, <2>4 DEF Goto, TypeOK, ledger, NoLocks
    <3>2. ControlOK(w)'
      BY <1>0, <1>1, <3>1, SameJob DEF WorkerOK, ControlOK
    <3>3. LocksOK(w)'
      BY <1>1, <1>3, <2>4, <3>1, SameJob DEF LocksOK
    <3>4. ~Applies(w)'
      BY <2>3, <3>1 DEF Applies
    <3>5. HoldRead(w)'
      BY <1>3, <2>2, <3>1, <3>4, SameJob DEF HoldRead
    <3>. QED BY <1>1, <3>1, <3>2, <3>3, <3>4, <3>5, SameJob
             DEF WorkerOK, RequestorRead, KeyReserved, CourierRead, PayeeRead
  <2>. QED BY <1>3, <1>5, <2>1, <2>2, <2>4 DEF LockHold
<1>6. ASSUME pc[w] = "second"
      PROVE  /\ holdLock[e] = w /\ txn[w].row = hold[e] /\ hold[e] # NoHold
             /\ RowOutcome(txn[w].job, hold[e]) = "NONE"
             /\ \A u \in Users : userLock[u] # w
  BY <1>0, <1>1, <1>3, <1>6 DEF WorkerOK, HoldRead, LocksOK
<1>7. CASE ReadCourier(w)
  <2>0. pc[w] = "second" /\ Accepts(w) /\ UNCHANGED <<ledger, locks>>
    BY <1>7 DEF ReadCourier
  <2>1. CASE User(w) \notin account
    BY <1>7, <2>0, <2>1, Decided DEF ReadCourier
  <2>2. CASE User(w) \in account
    <3>1. /\ pc'[w] = "commit" /\ txn'[w].job = txn[w].job /\ txn'[w].row = txn[w].row
          /\ hold' = hold /\ userLock' = userLock /\ holdLock' = holdLock /\ account' = account
      BY <1>0, <1>7, <2>0, <2>2 DEF ReadCourier, Decide, Goto, TypeOK, ledger, locks
    <3>2. ControlOK(w)'
      BY <1>0, <1>1, <3>1, SameJob DEF WorkerOK, ControlOK
    <3>3. LocksOK(w)'
      BY <1>0, <1>1, <2>0, <3>1, SameJob DEF WorkerOK, LocksOK
    <3>4. HoldRead(w)'
      BY <1>3, <1>6, <2>0, <3>1, SameJob DEF HoldRead
    <3>5. CourierRead(w)'
      BY <2>2, <3>1, SameJob DEF CourierRead
    <3>6. ~Settles(w)
      BY <1>1, <2>0, Kinds
    <3>. QED BY <1>1, <3>1, <3>2, <3>3, <3>4, <3>5, <3>6, SameJob
             DEF WorkerOK, RequestorRead, KeyReserved, PayeeRead
  <2>. QED BY <2>1, <2>2
<1>8. CASE LockPayee(w)
  <2>0. pc[w] = "second" /\ Settles(w) /\ ~Accepts(w)
    BY <1>1, <1>8, Kinds DEF LockPayee, Settles
  <2>1. PICK u : u = Payee(Op(w), txn[w].row)
    OBVIOUS
  <2>2. CASE u \notin account
    BY <1>8, <2>0, <2>1, <2>2, Decided DEF LockPayee, locks
  <2>3. CASE u \in account
    <3>1. /\ pc'[w] = "commit" /\ txn'[w].job = txn[w].job /\ txn'[w].row = txn[w].row
          /\ txn'[w].seen = balance[u]
          /\ userLock'[u] = w /\ \A v \in Users : v # u => userLock'[v] = userLock[v]
          /\ hold' = hold /\ holdLock' = holdLock /\ account' = account /\ balance' = balance
      BY <1>0, <1>8, <2>1, <2>3 DEF LockPayee, Goto, TypeOK, ledger
    <3>2. Payee(Op(w), txn[w].row)' = u
      BY <2>1, <3>1, SameJob DEF Payee
    <3>3. ControlOK(w)'
      BY <1>0, <1>1, <3>1, SameJob DEF WorkerOK, ControlOK
    <3>4. LocksOK(w)'
      BY <1>0, <1>1, <1>6, <2>0, <3>1, <3>2, SameJob DEF WorkerOK, LocksOK
    <3>5. HoldRead(w)'
      BY <1>3, <1>6, <2>0, <3>1, SameJob DEF HoldRead
    <3>6. PayeeRead(w)'
      BY <2>3, <3>1, <3>2 DEF PayeeRead
    <3>. QED BY <1>1, <2>0, <3>1, <3>3, <3>4, <3>5, <3>6, SameJob
             DEF WorkerOK, RequestorRead, KeyReserved, CourierRead
  <2>. QED BY <2>2, <2>3
<1>. QED BY <1>5, <1>7, <1>8

LEMMA WorkersKept ==
    ASSUME TransactionInv, [Next]_vars, NEW v \in Workers
    PROVE  WorkerOK(v)'
<1>0. TypeOK
  BY DEF TransactionInv
<1>1. CASE UNCHANGED vars
  BY <1>1, Undisturbed DEF vars, ledger, Same, LockedKept
<1>2. CASE \E j \in Deliveries : Arrive(j)
  BY <1>2, Undisturbed DEF Arrive, ledger, locks, Same, LockedKept
<1>3. CASE Crash
  <2>1. pc'[v] = "idle" /\ NoLocks(v)'
    BY <1>3, TransactionAssumption DEF Crash, NoLocks
  <2>. QED BY <2>1, OutsideTransaction DEF ControlOK
<1>4. ASSUME NEW w \in Workers, WorkerStep(w)
      PROVE  WorkerOK(v)'
  <2>1. CASE v # w
    BY <1>0, <1>4, <2>1, OthersSame, OthersKept, Undisturbed
  <2>2. CASE v = w
    BY <1>4, <2>2, OutsideSteps, HoldSteps, SettleSteps DEF WorkerStep, Work
  <2>. QED BY <2>1, <2>2
<1>. QED BY <1>1, <1>2, <1>3, <1>4 DEF Next, WorkerStep

-----------------------------------------------------------------------------
\* Part 3c.  The types are kept.

Labels == {"idle", "resolve", "ask", "ensure", "first", "second", "insert", "commit", "settle"}
Txn == [job: Deliveries \cup Requests \cup {NoJob}, lookups: Seq(Users \cup {NoUser}),
        row: HoldRow \cup {NoHold}, seen: Int, outcome: Outcomes]

ControlTypes == pc \in [Workers -> Labels] /\ txn \in [Workers -> Txn]
LockTypes == /\ userLock \in [Users -> Workers \cup {NoWorker}]
             /\ holdLock \in [Errands -> Workers \cup {NoWorker}]
OutboxTypes == announced \in [Accepting -> 0..MaxRows] /\ rejected \subseteq Rejecting
BrokerTypes == ready \subseteq Deliveries /\ crashes \in 0..MaxCrashes

LEMMA TypeParts ==
    TypeOK <=> LedgerTypeOK /\ ControlTypes /\ LockTypes /\ OutboxTypes /\ BrokerTypes
BY DEF TypeOK, ControlTypes, LockTypes, OutboxTypes, BrokerTypes, Labels, Txn

LEMMA NoTxnTyped == NoTxn \in Txn
BY DEF NoTxn, Txn, Outcomes

LEMMA LookupsTyped ==
    ASSUME LedgerTypeOK, NEW j \in Deliveries \cup Requests
    PROVE  Lookups(j) \in Seq(Users \cup {NoUser})
<1>0. j.user \in Users \cup {NoUser} /\ j.supplier \in Users \cup {NoUser}
  BY JobTypes
<1>1. ASSUME j.op \in {"order.completed", "order.cancelled", "POST released", "POST refunded"}
      PROVE  HoldLookup(j.op, hold[j.errand]) \in Seq(Users \cup {NoUser})
  <2>1. PICK row \in HoldRow \cup {NoHold} : row = hold[j.errand]
    <3>1. j.errand \in Errands
      BY <1>1, JobTypes DEF MoneyOps
    <3>. QED BY <3>1 DEF LedgerTypeOK
  <2>2. row.courier \in Users \cup {NoUser} /\ row.requestor \in Users \cup {NoUser}
    <3>1. CASE row \in HoldRow
      BY <3>1 DEF HoldRow
    <3>2. CASE row = NoHold
      BY <3>2 DEF NoHold
    <3>. QED BY <3>1, <3>2
  <2>3. PICK u : u = Payee(j.op, row)
    OBVIOUS
  <2>4. u \in Users \cup {NoUser}
    BY <2>2, <2>3 DEF Payee
  <2>5. <<u>> \in Seq(Users \cup {NoUser}) /\ <<>> \in Seq(Users \cup {NoUser})
    BY <2>4
  <2>6. HoldLookup(j.op, row) = IF row.status = "HELD" /\ u # NoUser THEN <<u>> ELSE <<>>
    BY <2>3 DEF HoldLookup
  <2>. QED BY <2>1, <2>5, <2>6
<1>2. <<j.user>> \in Seq(Users \cup {NoUser}) /\ <<j.user, j.supplier>> \in Seq(Users \cup {NoUser})
  BY <1>0
<1>. QED BY <1>1, <1>2 DEF Lookups

\* Writing one worker's local variables.
LEMMA TxnWritten ==
    ASSUME ControlTypes, NEW w \in Workers, NEW label \in Labels, NEW t \in Txn,
           pc' = [pc EXCEPT ![w] = label], txn' = [txn EXCEPT ![w] = t]
    PROVE  ControlTypes'
BY DEF ControlTypes

LEMMA ResolvedTyped ==
    ASSUME ControlTypes, NEW w \in Workers, Resolved(w), txn[w].lookups # <<>>
    PROVE  ControlTypes'
<1>1. txn[w] \in Txn
  BY DEF ControlTypes
<1>2. Tail(txn[w].lookups) \in Seq(Users \cup {NoUser})
  BY <1>1 DEF Txn
<1>3. [txn[w] EXCEPT !.lookups = Tail(@)] \in Txn
  BY <1>1, <1>2 DEF Txn
<1>4. AfterLookups(txn[w].job, Tail(txn[w].lookups)) \in Labels
  BY DEF AfterLookups, Labels
<1>. QED BY <1>3, <1>4, TxnWritten DEF Resolved, Goto

LEMMA DecideTyped ==
    ASSUME ControlTypes, NEW w \in Workers, NEW outcome \in Outcomes, Decide(w, outcome)
    PROVE  ControlTypes'
<1>1. [txn[w] EXCEPT !.outcome = outcome] \in Txn
  BY DEF ControlTypes, Txn
<1>. QED BY <1>1, TxnWritten DEF Decide, Goto, Labels

LEMMA ControlTyped ==
    ASSUME TransactionInv, NEW w \in Workers, WorkerStep(w)
    PROVE  ControlTypes'
<1>0. /\ ControlTypes /\ LedgerTypeOK /\ WorkerOK(w) /\ txn[w] \in Txn /\ account \subseteq Users
  BY TypeParts DEF TransactionInv, ControlTypes, LedgerTypeOK
<1>1. ASSUME NEW j \in Deliveries \cup Requests, Begin(w, j)
      PROVE  ControlTypes'
  <2>1. [NoTxn EXCEPT !.job = j, !.lookups = Lookups(j)] \in Txn
    BY <1>0, NoTxnTyped, LookupsTyped DEF Txn
  <2>2. (IF j.op = "user.registered" THEN "ensure" ELSE AfterLookups(j, Lookups(j))) \in Labels
    BY DEF AfterLookups, Labels
  <2>. QED BY <1>0, <1>1, <2>1, <2>2, TxnWritten DEF Begin, Goto
<1>2. ASSUME NEW label \in Labels, Goto(w, label), UNCHANGED txn
      PROVE  ControlTypes'
  BY <1>0, <1>2 DEF ControlTypes, Goto
<1>3. ASSUME Leave(w)
      PROVE  ControlTypes'
  BY <1>0, <1>3, NoTxnTyped, TxnWritten DEF Leave, Goto, Labels
<1>4. CASE Resolve(w) \/ LookupAnswered(w) \/ EnsureAccount(w)
  <2>1. txn[w].lookups # <<>>
    BY <1>0, <1>4 DEF Resolve, LookupAnswered, EnsureAccount, WorkerOK, ControlOK
  <2>2. Resolved(w) \/ (Goto(w, "ask") /\ UNCHANGED txn) \/ (Goto(w, "ensure") /\ UNCHANGED txn)
    BY <1>4 DEF Resolve, LookupAnswered, EnsureAccount
  <2>. QED BY <1>0, <1>2, <2>1, <2>2, ResolvedTyped DEF Labels
<1>5. CASE LookupFails(w) \/ InsertConflicts(w) \/ Settle(w)
  BY <1>3, <1>5 DEF LookupFails, InsertConflicts, Settle, Fail
<1>6. CASE Commit(w)
  BY <1>2, <1>6 DEF Commit, Labels
<1>7. ASSUME NEW outcome \in {"APPLY", "SILENT"} \cup Reasons, Decide(w, outcome)
      PROVE  ControlTypes'
  BY <1>0, <1>7, DecideTyped DEF Outcomes
<1>9. ASSUME NEW u \in account
      PROVE  [txn[w] EXCEPT !.seen = balance[u]] \in Txn
  BY <1>0, <1>9 DEF Txn, LedgerTypeOK
<1>10. CASE LockRequestor(w)
  <2>1. PICK r : r = User(w)
    OBVIOUS
  <2>2. CASE Decide(w, "REQUESTOR_NOT_FOUND")
    BY <1>7, <2>2 DEF Reasons
  <2>3. CASE r \in account /\ txn' = [txn EXCEPT ![w].seen = balance[r]] /\ Goto(w, "second")
    BY <1>0, <1>9, <2>3, TxnWritten DEF Goto, Labels
  <2>. QED BY <1>10, <2>1, <2>2, <2>3 DEF LockRequestor
<1>11. CASE ReadHold(w)
  <2>1. CASE \E outcome \in {"SILENT", "RECORD_NOT_MATCHING", "INSUFFICIENT_CREDITS",
                             "COURIER_NOT_FOUND"} : Decide(w, outcome)
    BY <1>7, <2>1 DEF Reasons
  <2>2. CASE Goto(w, "insert") /\ UNCHANGED txn
    BY <1>2, <2>2 DEF Labels
  <2>. QED BY <1>11, <2>1, <2>2 DEF ReadHold, ExistingHoldOutcome
<1>12. CASE InsertHold(w)
  BY <1>7, <1>12 DEF InsertHold
<1>13. CASE LockHold(w)
  <2>1. CASE Decide(w, "ERRAND_NOT_FOUND")
    BY <1>7, <2>1 DEF Reasons
  <2>2. CASE hold[Errand(w)] # NoHold
    <3>1. PICK outcome : outcome = RowOutcome(txn[w].job, hold[Errand(w)])
      OBVIOUS
    <3>2. outcome \in Outcomes
      BY <3>1 DEF RowOutcome, AcceptOutcome, SettleOutcome, Outcomes, Reasons
    <3>3. Errand(w) \in Errands
      BY <1>0, <1>13, JobTypes DEF LockHold, WorkerOK, ControlOK, Errand, Op
    <3>4. PICK row : row = hold[Errand(w)]
      OBVIOUS
    <3>5. row \in HoldRow \cup {NoHold}
      BY <1>0, <3>3, <3>4 DEF LedgerTypeOK
    <3>6. [txn[w] EXCEPT !.row = row, !.outcome = outcome] \in Txn
      BY <1>0, <3>2, <3>5 DEF Txn
    <3>7. txn' = [txn EXCEPT ![w] = [txn[w] EXCEPT !.row = row, !.outcome = outcome]]
          /\ Goto(w, IF outcome = "NONE" THEN "second" ELSE "commit")
      BY <1>0, <1>13, <2>2, <3>1, <3>4 DEF LockHold, ControlTypes
    <3>. QED BY <1>0, <3>6, <3>7, TxnWritten DEF Goto, Labels
  <2>. QED BY <1>13, <2>1, <2>2 DEF LockHold
<1>14. CASE ReadCourier(w)
  BY <1>7, <1>14 DEF ReadCourier, Reasons
<1>15. CASE LockPayee(w)
  <2>1. PICK u : u = Payee(Op(w), txn[w].row)
    OBVIOUS
  <2>2. CASE \E outcome \in {"COURIER_NOT_FOUND", "REQUESTOR_NOT_FOUND"} : Decide(w, outcome)
    BY <1>7, <2>2 DEF Reasons
  <2>3. CASE /\ u \in account /\ Goto(w, "commit")
             /\ txn' = [txn EXCEPT ![w].seen = balance[u], ![w].outcome = "APPLY"]
    <3>1. [txn[w] EXCEPT !.seen = balance[u], !.outcome = "APPLY"] \in Txn
      BY <1>0, <2>3 DEF Txn, LedgerTypeOK, Outcomes
    <3>2. txn' = [txn EXCEPT ![w] = [txn[w] EXCEPT !.seen = balance[u], !.outcome = "APPLY"]]
      BY <1>0, <2>3 DEF ControlTypes
    <3>. QED BY <1>0, <2>3, <3>1, <3>2, TxnWritten DEF Goto, Labels
  <2>. QED BY <1>15, <2>1, <2>2, <2>3 DEF LockPayee
<1>. QED BY <1>1, <1>4, <1>5, <1>6, <1>10, <1>11, <1>12, <1>13, <1>14, <1>15
         DEF WorkerStep, Work, Deliver, Serve

LEMMA LocksTyped ==
    ASSUME TransactionInv, NEW w \in Workers, WorkerStep(w)
    PROVE  LockTypes'
<1>0. LockTypes
  BY TypeParts DEF TransactionInv
<1>1. ASSUME UNCHANGED locks
      PROVE  LockTypes'
  BY <1>0, <1>1 DEF locks, LockTypes
<1>2. ASSUME ReleaseLocks(w)
      PROVE  LockTypes'
  BY <1>0, <1>2 DEF ReleaseLocks, LockTypes
<1>3. ASSUME NEW u, userLock' = [userLock EXCEPT ![u] = w], holdLock' = holdLock
      PROVE  LockTypes'
  BY <1>0, <1>3 DEF LockTypes
<1>4. ASSUME NEW e, holdLock' = [holdLock EXCEPT ![e] = w], userLock' = userLock
      PROVE  LockTypes'
  BY <1>0, <1>4 DEF LockTypes
<1>5. CASE \/ \E j \in Deliveries : Deliver(w, j)
           \/ \E j \in Requests : Serve(w, j)
           \/ Resolve(w) \/ LookupAnswered(w) \/ EnsureAccount(w)
  BY <1>1, <1>5 DEF Deliver, Serve, Begin, Resolve, LookupAnswered, EnsureAccount
<1>6. CASE LookupFails(w) \/ InsertConflicts(w) \/ Settle(w) \/ Commit(w)
  BY <1>1, <1>2, <1>6 DEF LookupFails, InsertConflicts, Settle, Commit, Fail
<1>7. CASE LockRequestor(w)
  BY <1>1, <1>3, <1>7 DEF LockRequestor, locks
<1>8. CASE ReadHold(w) \/ ReadCourier(w)
  BY <1>1, <1>8 DEF ReadHold, ReadCourier
<1>9. CASE InsertHold(w)
  BY <1>4, <1>9 DEF InsertHold
<1>10. CASE LockHold(w)
  BY <1>1, <1>4, <1>10 DEF LockHold, locks
<1>11. CASE LockPayee(w)
  BY <1>1, <1>3, <1>11 DEF LockPayee, locks
<1>. QED BY <1>5, <1>6, <1>7, <1>8, <1>9, <1>10, <1>11 DEF WorkerStep, Work

\* The outbox grows by the replies of a commit.
LEMMA OutboxEffects ==
    ASSUME NEW w \in Workers, WorkerStep(w)
    PROVE  UNCHANGED outbox \/ (Commit(w) /\ Enqueue(Replies(w)))
<1>1. CASE \/ \E j \in Deliveries : Deliver(w, j)
           \/ \E j \in Requests : Serve(w, j)
           \/ Resolve(w) \/ LookupAnswered(w) \/ EnsureAccount(w)
  BY <1>1 DEF Deliver, Serve, Begin, Resolve, LookupAnswered, EnsureAccount
<1>2. CASE LookupFails(w) \/ InsertConflicts(w) \/ Settle(w) \/ Commit(w)
  BY <1>2 DEF LookupFails, InsertConflicts, Settle, Fail, Commit
<1>3. CASE LockRequestor(w) \/ ReadHold(w) \/ InsertHold(w)
  BY <1>3 DEF LockRequestor, ReadHold, InsertHold
<1>4. CASE LockHold(w) \/ ReadCourier(w) \/ LockPayee(w)
  BY <1>4 DEF LockHold, ReadCourier, LockPayee
<1>. QED BY <1>1, <1>2, <1>3, <1>4 DEF WorkerStep, Work

LEMMA EnqueueTyped ==
    ASSUME OutboxTypes, NEW events, Enqueue(events)
    PROVE  OutboxTypes'
<1>0. MaxRows \in Nat
  BY TransactionAssumption
<1>1. ASSUME NEW ev \in Accepting
      PROVE  (IF ev \in events /\ announced[ev] < MaxRows THEN announced[ev] + 1
              ELSE announced[ev]) \in 0..MaxRows
  BY <1>0, <1>1 DEF OutboxTypes
<1>. QED BY <1>1 DEF OutboxTypes, Enqueue

LEMMA BrokerTyped ==
    ASSUME BrokerTypes, NEW w \in Workers, WorkerStep(w)
    PROVE  BrokerTypes'
<1>1. CASE \/ \E j \in Deliveries : Deliver(w, j)
           \/ \E j \in Requests : Serve(w, j)
           \/ Resolve(w) \/ LookupAnswered(w) \/ EnsureAccount(w)
  BY <1>1 DEF Deliver, Serve, Begin, Resolve, LookupAnswered, EnsureAccount, BrokerTypes
<1>2. CASE LookupFails(w) \/ InsertConflicts(w) \/ Settle(w) \/ Commit(w)
  BY <1>2 DEF LookupFails, InsertConflicts, Settle, Fail, Commit, FromQueue, BrokerTypes
<1>3. CASE LockRequestor(w) \/ ReadHold(w) \/ InsertHold(w)
  BY <1>3 DEF LockRequestor, ReadHold, InsertHold, BrokerTypes
<1>4. CASE LockHold(w) \/ ReadCourier(w) \/ LockPayee(w)
  BY <1>4 DEF LockHold, ReadCourier, LockPayee, BrokerTypes
<1>. QED BY <1>1, <1>2, <1>3, <1>4 DEF WorkerStep, Work

LEMMA TypesKept == TransactionInv /\ [Next]_vars => TypeOK'
<1>. SUFFICES ASSUME TransactionInv, [Next]_vars
              PROVE  TypeOK'
  OBVIOUS
<1>0. LedgerTypeOK' /\ ControlTypes /\ LockTypes /\ OutboxTypes /\ BrokerTypes
  BY TransactionLedger, LedgerSteps, LedgerStepInv, TypeParts DEF TransactionInv, LedgerInv
<1>. USE DEF Labels, Txn
<1>. SUFFICES ControlTypes' /\ LockTypes' /\ OutboxTypes' /\ BrokerTypes'
  BY <1>0 DEF TypeOK, ControlTypes, LockTypes, OutboxTypes, BrokerTypes
<1>. HIDE DEF Labels, Txn
<1>1. CASE UNCHANGED vars
  BY <1>0, <1>1 DEF vars, outbox, ControlTypes, LockTypes, OutboxTypes, BrokerTypes
<1>2. CASE \E j \in Deliveries : Arrive(j)
  BY <1>0, <1>2 DEF Arrive, outbox, locks, ControlTypes, LockTypes, OutboxTypes, BrokerTypes
<1>3. CASE Crash
  <2>1. ControlTypes'
    BY <1>3, NoTxnTyped DEF Crash, ControlTypes, Labels
  <2>2. LockTypes' /\ OutboxTypes'
    BY <1>0, <1>3 DEF Crash, LockTypes, OutboxTypes, outbox
  <2>3. crashes' \in 0..MaxCrashes
    <3>1. MaxCrashes \in Nat
      BY TransactionAssumption
    <3>. QED BY <1>0, <1>3, <3>1 DEF Crash, BrokerTypes
  <2>4. ready' \subseteq Deliveries
    BY <1>0, <1>3 DEF Crash, BrokerTypes, FromQueue
  <2>. QED BY <2>1, <2>2, <2>3, <2>4 DEF BrokerTypes
<1>4. ASSUME NEW w \in Workers, WorkerStep(w)
      PROVE  ControlTypes' /\ LockTypes' /\ OutboxTypes' /\ BrokerTypes'
  <2>1. ControlTypes' /\ LockTypes' /\ BrokerTypes'
    BY <1>0, <1>4, ControlTyped, LocksTyped, BrokerTyped
  <2>2. OutboxTypes'
    <3>1. CASE UNCHANGED outbox
      BY <1>0, <3>1 DEF outbox, OutboxTypes
    <3>2. CASE Enqueue(Replies(w))
      BY <1>0, <3>2, EnqueueTyped
    <3>. QED BY <1>4, <3>1, <3>2, OutboxEffects
  <2>. QED BY <2>1, <2>2
<1>. QED BY <1>1, <1>2, <1>3, <1>4 DEF Next, WorkerStep

-----------------------------------------------------------------------------
\* Part 3d.  The outbox says no more than what took place.

LEMMA RowTyped ==
    ASSUME OutboxTypes, NEW e \in Errands,
           NEW topic \in {"credits.held", "credits.accepted", "credits.released",
                          "credits.refunded"}
    PROVE  Row(topic, e) \in Nat /\ [topic |-> topic, errand |-> e] \in Accepting
<1>0. MaxRows \in Nat
  BY TransactionAssumption
<1>1. [topic |-> topic, errand |-> e] \in Accepting
  BY DEF Accepting
<1>. QED BY <1>0, <1>1 DEF Row, OutboxTypes

\* A row is added at most when the change it announces is made.
RowsFollow(e) ==
    /\ \/ Row("credits.held", e)' = Row("credits.held", e)
       \/ /\ Row("credits.held", e)' = Row("credits.held", e) + 1
          /\ hold[e] = NoHold /\ hold'[e] # NoHold
    /\ \/ Row("credits.accepted", e)' = Row("credits.accepted", e)
       \/ /\ Row("credits.accepted", e)' = Row("credits.accepted", e) + 1
          /\ hold[e].courier = NoUser /\ hold'[e].courier # NoUser
    /\ \/ Row("credits.released", e)' = Row("credits.released", e)
       \/ /\ Row("credits.released", e)' = Row("credits.released", e) + 1
          /\ hold[e].status = "HELD" /\ hold'[e].status = "RELEASED"
    /\ \/ Row("credits.refunded", e)' = Row("credits.refunded", e)
       \/ /\ Row("credits.refunded", e)' = Row("credits.refunded", e) + 1
          /\ hold[e].status = "HELD" /\ hold'[e].status = "REFUNDED"

LEMMA RepliesFollow ==
    ASSUME OutboxTypes, RepliesMatchLedger,
           \A e \in Errands : HoldHistory(hold[e], hold'[e]) /\ RowsFollow(e)
    PROVE  RepliesMatchLedger'
<1>. SUFFICES ASSUME NEW e \in Errands
              PROVE  /\ Row("credits.held", e)' <= (IF hold'[e] = NoHold THEN 0 ELSE 1)
                     /\ Row("credits.accepted", e)' <= (IF hold'[e].courier = NoUser THEN 0 ELSE 1)
                     /\ Row("credits.released", e)' <= (IF hold'[e].status = "RELEASED" THEN 1 ELSE 0)
                     /\ Row("credits.refunded", e)' <= (IF hold'[e].status = "REFUNDED" THEN 1 ELSE 0)
  BY DEF RepliesMatchLedger
<1>1. HoldHistory(hold[e], hold'[e]) /\ RowsFollow(e)
  OBVIOUS
<1>2. \A topic \in {"credits.held", "credits.accepted", "credits.released", "credits.refunded"} :
          Row(topic, e) \in Nat
  BY RowTyped
<1>3. /\ Row("credits.held", e) <= (IF hold[e] = NoHold THEN 0 ELSE 1)
      /\ Row("credits.accepted", e) <= (IF hold[e].courier = NoUser THEN 0 ELSE 1)
      /\ Row("credits.released", e) <= (IF hold[e].status = "RELEASED" THEN 1 ELSE 0)
      /\ Row("credits.refunded", e) <= (IF hold[e].status = "REFUNDED" THEN 1 ELSE 0)
  BY DEF RepliesMatchLedger
<1>4. Row("credits.held", e)' <= (IF hold'[e] = NoHold THEN 0 ELSE 1)
  BY <1>1, <1>2, <1>3 DEF RowsFollow, HoldHistory, NoHold
<1>5. Row("credits.accepted", e)' <= (IF hold'[e].courier = NoUser THEN 0 ELSE 1)
  BY <1>1, <1>2, <1>3 DEF RowsFollow, HoldHistory, NoHold
<1>6. Row("credits.released", e)' <= (IF hold'[e].status = "RELEASED" THEN 1 ELSE 0)
  BY <1>1, <1>2, <1>3 DEF RowsFollow, HoldHistory, NoHold
<1>7. Row("credits.refunded", e)' <= (IF hold'[e].status = "REFUNDED" THEN 1 ELSE 0)
  BY <1>1, <1>2, <1>3 DEF RowsFollow, HoldHistory, NoHold
<1>. QED BY <1>4, <1>5, <1>6, <1>7

\* A commit adds at most one row, of the topic that answers its message.
LEMMA RowAdded ==
    ASSUME OutboxTypes, NEW w \in Workers, Enqueue(Replies(w)),
           txn[w].job \in Deliveries \cup Requests, Op(w) \in MoneyOps,
           NEW e \in Errands,
           NEW topic \in {"credits.held", "credits.accepted", "credits.released",
                          "credits.refunded"}
    PROVE  \/ Row(topic, e)' = Row(topic, e)
           \/ /\ Row(topic, e)' = Row(topic, e) + 1
              /\ e = Errand(w) /\ txn[w].outcome = "APPLY"
              /\ Holds(w) => topic = "credits.held"
              /\ Accepts(w) => topic = "credits.accepted"
              /\ Releases(w) => topic = "credits.released"
              /\ Refunds(w) => topic = "credits.refunded"
<1>. PICK ev : ev = [topic |-> topic, errand |-> e]
  OBVIOUS
<1>0. ev \in Accepting /\ Row(topic, e) = announced[ev] /\ Row(topic, e)' = announced'[ev]
  BY RowTyped DEF Row
<1>1. announced'[ev] = IF ev \in Replies(w) /\ announced[ev] < MaxRows THEN announced[ev] + 1
                       ELSE announced[ev]
  BY <1>0 DEF Enqueue
<1>. SUFFICES ASSUME ev \in Replies(w)
              PROVE  /\ e = Errand(w) /\ txn[w].outcome = "APPLY"
                     /\ Holds(w) => topic = "credits.held"
                     /\ Accepts(w) => topic = "credits.accepted"
                     /\ Releases(w) => topic = "credits.released"
                     /\ Refunds(w) => topic = "credits.refunded"
  BY <1>0, <1>1
<1>2. FromQueue(w)
  BY DEF Replies
<1>3. Op(w) \in {"order.created", "order.accepted", "order.completed", "order.cancelled"}
  <2>1. Op(w) \in Topics
    BY <1>2, TransactionAssumption DEF FromQueue, Op
  <2>. QED BY <2>1 DEF Topics, MoneyOps
<1>4. txn[w].outcome = "APPLY" /\ ev = [topic |-> AcceptingTopic[Op(w)], errand |-> Errand(w)]
  <2>1. RejectingTopic[Op(w)] # topic
    BY <1>3 DEF RejectingTopic
  <2>. QED BY <2>1 DEF Replies
<1>5. topic = AcceptingTopic[Op(w)] /\ e = Errand(w)
  BY <1>4
<1>. QED BY <1>3, <1>4, <1>5 DEF AcceptingTopic, Holds, Accepts, Releases, Refunds

LEMMA CommitFollows ==
    ASSUME TransactionInv, NEW w \in Workers, Commit(w), NEW e \in Errands
    PROVE  RowsFollow(e)
<1>0. /\ OutboxTypes /\ LedgerTypeOK /\ Enqueue(Replies(w)) /\ WorkerOK(w) /\ pc[w] = "commit"
      /\ Op(w) \in MoneyOps /\ txn[w].job \in Deliveries \cup Requests
  BY TypeParts DEF TransactionInv, Commit, WorkerOK, ControlOK
<1>1. CASE \A topic \in {"credits.held", "credits.accepted", "credits.released",
                         "credits.refunded"} : Row(topic, e)' = Row(topic, e)
  BY <1>1 DEF RowsFollow
<1>2. ASSUME NEW topic \in {"credits.held", "credits.accepted", "credits.released",
                            "credits.refunded"},
             Row(topic, e)' # Row(topic, e)
      PROVE  RowsFollow(e)
  <2>1. e = Errand(w) /\ txn[w].outcome = "APPLY"
    BY <1>0, <1>2, RowAdded
  <2>2. \/ Holds(w) /\ PlaceHold(e, User(w), txn[w].job.supplier, txn[w].job.amount)
        \/ Accepts(w) /\ AssignCourier(e, User(w))
        \/ Releases(w) /\ Release(e)
        \/ Refunds(w) /\ Refund(e)
    BY <2>1, CommitIsStep
  <2>3. \A t \in {"credits.held", "credits.accepted", "credits.released", "credits.refunded"} :
            \/ Row(t, e)' = Row(t, e)
            \/ /\ Row(t, e)' = Row(t, e) + 1
               /\ Holds(w) => t = "credits.held"
               /\ Accepts(w) => t = "credits.accepted"
               /\ Releases(w) => t = "credits.released"
               /\ Refunds(w) => t = "credits.refunded"
    BY <1>0, RowAdded
  <2>4. CASE Holds(w) /\ PlaceHold(e, User(w), txn[w].job.supplier, txn[w].job.amount)
    <3>1. hold[e] = NoHold /\ hold'[e] # NoHold
      BY <1>0, <2>4 DEF PlaceHold, LedgerTypeOK, NewHold, NoHold
    <3>. QED BY <2>3, <2>4, <3>1 DEF RowsFollow
  <2>5. CASE Accepts(w) /\ AssignCourier(e, User(w))
    <3>1. hold[e] \in HoldRow
      BY <1>0, <2>5, HeldRow DEF AssignCourier
    <3>2. hold[e].courier = NoUser /\ hold'[e].courier # NoUser
      BY <1>0, <2>5, <3>1, LedgerAssumption DEF AssignCourier, LedgerTypeOK, HoldRow
    <3>. QED BY <2>3, <2>5, <3>2 DEF RowsFollow
  <2>6. CASE Releases(w) /\ Release(e)
    <3>1. hold[e] \in HoldRow
      BY <1>0, <2>6, HeldRow DEF Release
    <3>2. hold[e].status = "HELD" /\ hold'[e].status = "RELEASED"
      BY <1>0, <2>6, <3>1 DEF Release, LedgerTypeOK, HoldRow
    <3>. QED BY <2>3, <2>6, <3>2 DEF RowsFollow
  <2>7. CASE Refunds(w) /\ Refund(e)
    <3>1. hold[e] \in HoldRow
      BY <1>0, <2>7, HeldRow DEF Refund
    <3>2. hold[e].status = "HELD" /\ hold'[e].status = "REFUNDED"
      BY <1>0, <2>7, <3>1 DEF Refund, LedgerTypeOK, HoldRow
    <3>. QED BY <2>3, <2>7, <3>2 DEF RowsFollow
  <2>. QED BY <2>2, <2>4, <2>5, <2>6, <2>7
<1>. QED BY <1>1, <1>2

LEMMA RepliesKept == TransactionInv /\ [Next]_vars => RepliesMatchLedger'
<1>. SUFFICES ASSUME TransactionInv, [Next]_vars
              PROVE  RepliesMatchLedger'
  OBVIOUS
<1>0. OutboxTypes /\ RepliesMatchLedger /\ \A e \in Errands : HoldHistory(hold[e], hold'[e])
  BY TransactionLedger, LedgerSteps, HistorySteps, TypeParts DEF TransactionInv
<1>. SUFFICES \A e \in Errands : RowsFollow(e)
  BY <1>0, RepliesFollow
<1>1. CASE UNCHANGED outbox
  BY <1>1 DEF outbox, RowsFollow, Row
<1>2. ASSUME NEW w \in Workers, Commit(w)
      PROVE  \A e \in Errands : RowsFollow(e)
  BY <1>2, CommitFollows
<1>3. CASE UNCHANGED vars
  BY <1>1, <1>3 DEF vars, outbox
<1>4. CASE Crash \/ \E j \in Deliveries : Arrive(j)
  BY <1>1, <1>4 DEF Crash, Arrive
<1>5. ASSUME NEW w \in Workers, WorkerStep(w)
      PROVE  \A e \in Errands : RowsFollow(e)
  BY <1>1, <1>2, <1>5, OutboxEffects
<1>. QED BY <1>3, <1>4, <1>5 DEF Next, WorkerStep

-----------------------------------------------------------------------------
\* Part 3e.  The theorems.

LEMMA TransactionStepInv == TransactionInv /\ [Next]_vars => TransactionInv'
<1>. SUFFICES ASSUME TransactionInv, [Next]_vars
              PROVE  TransactionInv'
  OBVIOUS
<1>1. NoOverdraft' /\ PayeesHaveAccounts'
  BY TransactionLedger, LedgerSteps, LedgerStepInv DEF LedgerInv
<1>2. \A w \in Workers : WorkerOK(w)'
  BY WorkersKept
<1>. QED BY <1>1, <1>2, TypesKept, RepliesKept DEF TransactionInv

\* What a handler read under its locks is true until it commits, whatever runs beside it.
THEOREM TransactionInvariance == Spec => []TransactionInv
BY TransactionInitInv, TransactionStepInv, PTL DEF Spec

\* Every variable of the handlers and the tables they write keeps its type.
THEOREM TransactionTypes == Spec => []TypeOK
<1>1. TransactionInv => TypeOK
  BY DEF TransactionInv
<1>. QED BY <1>1, TransactionInvariance, PTL

\* The row locks make every handler one atomic change of the ledger (services/credits.ts).
THEOREM TransactionsImplementLedger == Spec => ImplementsLedger
<1>1. Init => LedgerInit
  BY DEF Init
<1>. QED BY <1>1, LedgerSteps, TransactionInvariance, PTL DEF Spec, ImplementsLedger, LedgerSpec

\* No interleaving of handlers overdraws an account (services/credits.ts:78, 93).
THEOREM HandlersNeverOverdraw == Spec => []NoOverdraft
<1>1. TransactionInv => NoOverdraft
  BY DEF TransactionInv
<1>. QED BY <1>1, TransactionInvariance, PTL

\* Whoever a hold may have to pay has an account, whichever handlers made the hold and the
\* account (services/credits.ts:204, 273).
THEOREM HandlersFindPayees == Spec => []PayeesHaveAccounts
<1>1. TransactionInv => PayeesHaveAccounts
  BY DEF TransactionInv
<1>. QED BY <1>1, TransactionInvariance, PTL

\* No interleaving of handlers makes or loses a credit (services/credits.ts:93, 215, 284).
THEOREM HandlersConserveCredits == Spec => []CreditsConserved
BY TransactionsImplementLedger, NoCreditMadeOrLost, PTL DEF ImplementsLedger

\* No interleaving of handlers settles a hold twice or changes its terms
\* (services/credits.ts:186, 255).
THEOREM HandlersSettleOnce == Spec => SettledOnce
BY TransactionsImplementLedger, NeverSettledTwice, PTL DEF ImplementsLedger

\* Each change of a hold is announced at most once, and only if it was made, however often
\* its message is delivered (services/credits.ts:97, 157, 221, 290).
THEOREM EachChangeAnnouncedOnce == Spec => []RepliesMatchLedger
<1>1. TransactionInv => RepliesMatchLedger
  BY DEF TransactionInv
<1>. QED BY <1>1, TransactionInvariance, PTL

\* Who waits: a handler about to take its first or second lock, or to insert.
LEMMA Waits ==
    ASSUME TypeOK, NEW w \in Workers, WorkerOK(w), BlockedOn(w) \in Workers
    PROVE  \/ /\ pc[w] \in {"first", "second"}
              /\ \E u \in Users : userLock[u] = BlockedOn(w)
              /\ pc[w] = "second" => Settles(w)
           \/ /\ pc[w] = "first"
              /\ \E e \in Errands : hold[e] # NoHold /\ holdLock[e] = BlockedOn(w)
           \/ /\ pc[w] = "insert"
              /\ \E e \in Errands : hold[e] = NoHold /\ holdLock[e] = BlockedOn(w)
<1>0. BlockedOn(w) # NoWorker /\ account \subseteq Users
  BY TransactionAssumption DEF TypeOK, LedgerTypeOK
<1>1. pc[w] \in {"first", "second", "insert"} => Errand(w) \in Errands
  BY JobTypes DEF WorkerOK, ControlOK, Op, Errand
<1>2. CASE pc[w] = "first" /\ Holds(w) /\ User(w) \in account
  <2>1. BlockedOn(w) = userLock[User(w)]
    BY <1>2 DEF BlockedOn
  <2>. QED BY <1>0, <1>2, <2>1
<1>3. CASE pc[w] = "first" /\ ~Holds(w) /\ hold[Errand(w)] # NoHold
  <2>1. BlockedOn(w) = holdLock[Errand(w)]
    BY <1>3 DEF BlockedOn
  <2>. QED BY <1>1, <1>3, <2>1
<1>4. PICK u : u = Payee(Op(w), txn[w].row)
  OBVIOUS
<1>5. CASE pc[w] = "second" /\ (Releases(w) \/ Refunds(w)) /\ u \in account
  <2>1. BlockedOn(w) = userLock[u]
    BY <1>4, <1>5 DEF BlockedOn
  <2>. QED BY <1>0, <1>5, <2>1 DEF Settles
<1>6. CASE pc[w] = "insert" /\ hold[Errand(w)] = NoHold
  <2>1. BlockedOn(w) = holdLock[Errand(w)]
    BY <1>6 DEF BlockedOn
  <2>. QED BY <1>1, <1>6, <2>1
<1>. QED BY <1>0, <1>2, <1>3, <1>4, <1>5, <1>6 DEF BlockedOn

LEMMA NoCircle == TransactionInv => NoLockCycle
<1>. SUFFICES ASSUME TransactionInv, NEW S \in SUBSET Workers, NEW w \in S,
                     \A v \in S : BlockedOn(v) \in S
              PROVE  FALSE
  BY DEF NoLockCycle
<1>0. TypeOK /\ \A v \in S : v \in Workers /\ WorkerOK(v) /\ BlockedOn(v) \in Workers
  BY DEF TransactionInv
<1>1. ASSUME NEW v \in S
      PROVE  pc[v] # "commit"
  BY <1>0, Waits
<1>2. ASSUME NEW v \in S, NEW e \in Errands, hold[e] = NoHold
      PROVE  holdLock[e] # v
  BY <1>0, <1>1, <1>2 DEF WorkerOK, LocksOK
<1>3. ASSUME NEW v \in S
      PROVE  pc[v] # "insert"
  BY <1>0, <1>2, Waits
<1>4. ASSUME NEW v \in S, pc[v] = "second"
      PROVE  ~Holds(v)
  <2>1. Settles(v)
    BY <1>0, <1>4, Waits
  <2>. QED BY <1>0, <1>4, <2>1, Kinds DEF WorkerOK, ControlOK
<1>5. ASSUME NEW v \in S, NEW u \in Users
      PROVE  userLock[u] # v
  BY <1>0, <1>1, <1>3, <1>4 DEF WorkerOK, LocksOK
<1>6. ASSUME NEW v \in S
      PROVE  pc[v] = "first"
  BY <1>0, <1>3, <1>5, Waits
<1>7. ASSUME NEW v \in S, NEW e \in Errands
      PROVE  holdLock[e] # v
  BY <1>0, <1>6 DEF WorkerOK, LocksOK
<1>. QED BY <1>0, <1>5, <1>7, Waits

\* Handlers that lock a user before a hold never wait in a circle with those that lock a
\* hold before a user (services/credits.ts:45, 122, 172, 201, 241, 270).
THEOREM LocksMakeNoCircle == Spec => []NoLockCycle
BY NoCircle, TransactionInvariance, PTL
=============================================================================
