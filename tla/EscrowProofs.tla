---------------------------- MODULE EscrowProofs ----------------------------
(***************************************************************************)
(* What the abstract ledger of module Escrow promises about sums of money.  *)
(*                                                                         *)
(* A sum over a set is a recursive function over the subsets of the set, so *)
(* the sum has to be given a meaning before it can be reasoned about. Here   *)
(* it is counted out: a payment of n is n units, the pairs <<payment, 1>> to *)
(* <<payment, n>>, and the sum of the payments of a finite set is the number *)
(* of their units.                                                          *)
(***************************************************************************)
EXTENDS Escrow, FiniteSetTheorems, WellFoundedInduction, TLAPS

-----------------------------------------------------------------------------
(* Induction over finite sets, without an operator for the property: a set of *)
(* subsets that is not empty has a member without a smaller one.              *)
LEMMA Minimal ==
    ASSUME NEW S, IsFiniteSet(S), NEW B, B \subseteq SUBSET S, B # {}
    PROVE  \E T \in B : \A U \in B : U \subseteq T => U = T
<1>1. IsWellFoundedOn(StrictSubsetOrdering(S), SUBSET S)
  BY FS_StrictSubsetOrderingWellFounded, FS_FiniteSubsetsOfFinite
<1>2. PICK T \in B : \A U \in B : ~(<<U, T>> \in StrictSubsetOrdering(S))
  BY <1>1, WFMin
<1> QED BY <1>2 DEF StrictSubsetOrdering

-----------------------------------------------------------------------------
(* Amounts counted out in units.                                              *)

Amounts(g, S) == \A x \in S : g[x].amount \in Nat

Units(g, S) == {p \in S \X Nat : 1 <= p[2] /\ p[2] <= g[p[1]].amount}

LEMMA OneToN ==
    ASSUME NEW n \in Nat
    PROVE  IsFiniteSet(1 .. n) /\ Cardinality(1 .. n) = n
<1>1. /\ IsFiniteSet(1 .. n)
      /\ Cardinality(1 .. n) = IF 1 > n THEN 0 ELSE n - 1 + 1
  BY FS_Interval
<1> QED BY <1>1

(* The units of one payment.                                                  *)
LEMMA OneUnits ==
    ASSUME NEW g, NEW x, g[x].amount \in Nat
    PROVE  /\ IsFiniteSet(Units(g, {x}))
           /\ Cardinality(Units(g, {x})) = g[x].amount
<1> DEFINE I == 1 .. g[x].amount
           f == [i \in I |-> <<x, i>>]
<1>1. IsFiniteSet(I) /\ Cardinality(I) = g[x].amount
  BY OneToN
<1>2. f \in Bijection(I, Units(g, {x}))
  <2>1. f \in [I -> Units(g, {x})]
    BY DEF Units
  <2>2. \A i, j \in I : f[i] = f[j] => i = j
    OBVIOUS
  <2>3. \A p \in Units(g, {x}) : \E i \in I : f[i] = p
    <3> SUFFICES ASSUME NEW p \in Units(g, {x}) PROVE p[2] \in I /\ f[p[2]] = p
      OBVIOUS
    <3> QED BY DEF Units
  <2> QED BY <2>1, <2>2, <2>3 DEF Bijection, Injection, Surjection, IsInjective
<1>3. ExistsBijection(I, Units(g, {x}))
  BY <1>2 DEF ExistsBijection
<1> HIDE DEF I
<1> QED BY <1>1, <1>3, FS_Bijection

(* The units of a finite set are finitely many.                               *)
LEMMA UnitsFinite ==
    ASSUME NEW g, NEW S, IsFiniteSet(S), Amounts(g, S)
    PROVE  IsFiniteSet(Units(g, S))
<1> DEFINE B == {T \in SUBSET S : ~IsFiniteSet(Units(g, T))}
<1> SUFFICES ASSUME B # {} PROVE FALSE
  OBVIOUS
<1>1. B \subseteq SUBSET S
  OBVIOUS
<1>2. \A T \in SUBSET S : ~IsFiniteSet(Units(g, T)) <=> T \in B
  OBVIOUS
<1> HIDE DEF B
<1>3. PICK T \in B : \A U \in B : U \subseteq T => U = T
  BY <1>1, Minimal
<1>4. T # {}
  <2>1. Units(g, {}) = {}
    BY DEF Units
  <2> QED BY <1>1, <1>2, <2>1, FS_EmptySet
<1>5. PICK x \in T : TRUE
  BY <1>4
<1>6. IsFiniteSet(Units(g, T \ {x}))
  BY <1>1, <1>2, <1>3, <1>5
<1>7. IsFiniteSet(Units(g, {x}))
  BY <1>1, <1>5, OneUnits DEF Amounts
<1>8. Units(g, T) = Units(g, T \ {x}) \cup Units(g, {x})
  BY <1>5 DEF Units
<1>9. IsFiniteSet(Units(g, T \ {x}) \cup Units(g, {x}))
  BY <1>6, <1>7, FS_Union
<1> QED BY <1>1, <1>2, <1>8, <1>9

(* One payment more has its amount in units more.                             *)
LEMMA UnitsAdd ==
    ASSUME NEW g, NEW S, IsFiniteSet(S), Amounts(g, S), NEW x \in S
    PROVE  /\ Cardinality(Units(g, S)) \in Nat
           /\ Cardinality(Units(g, S)) =
                g[x].amount + Cardinality(Units(g, S \ {x}))
<1>1. IsFiniteSet(S \ {x}) /\ Amounts(g, S \ {x})
  BY FS_Subset DEF Amounts
<1>2. IsFiniteSet(Units(g, S \ {x})) /\ IsFiniteSet(Units(g, S))
  BY <1>1, UnitsFinite
<1>3. IsFiniteSet(Units(g, {x})) /\ Cardinality(Units(g, {x})) = g[x].amount
  BY OneUnits DEF Amounts
<1>4. Units(g, S) = Units(g, S \ {x}) \cup Units(g, {x})
  BY DEF Units
<1>5. Units(g, S \ {x}) \cap Units(g, {x}) = {}
  BY DEF Units
<1>6. /\ Cardinality(Units(g, S \ {x})) \in Nat
      /\ Cardinality(Units(g, S)) \in Nat
      /\ Cardinality(Units(g, {x})) \in Nat
      /\ Cardinality({}) = 0
  BY <1>2, <1>3, FS_CardinalityType, FS_EmptySet
<1>7. Cardinality(Units(g, S)) =
        Cardinality(Units(g, S \ {x})) + Cardinality(Units(g, {x})) - Cardinality({})
  BY <1>2, <1>3, <1>4, <1>5, FS_Union
<1> QED BY <1>3, <1>6, <1>7

-----------------------------------------------------------------------------
(* The sum the ledger computes is the number of units.                        *)

Iterates(g, S, h) ==
    h = [s \in SUBSET S |->
           IF s = {} THEN 0
           ELSE g[CHOOSE x \in s : TRUE].amount + h[s \ {CHOOSE x \in s : TRUE}]]

Iter(g, S) == CHOOSE h : Iterates(g, S, h)

LEMMA Unfold == ASSUME NEW g, NEW S PROVE AmountSum(g, S) = Iter(g, S)[S]
  BY DEF AmountSum, MapThenSumSet, MapThenFoldSet, Iter, Iterates

(* A function that sums up a set one payment at a time counts its units.      *)
LEMMA IterCounts ==
    ASSUME NEW g, NEW S, IsFiniteSet(S), Amounts(g, S), NEW h, Iterates(g, S, h)
    PROVE  h[S] = Cardinality(Units(g, S))
<1> DEFINE B == {T \in SUBSET S : h[T] # Cardinality(Units(g, T))}
<1> SUFFICES ASSUME B # {} PROVE FALSE
  OBVIOUS
<1>1. B \subseteq SUBSET S
  OBVIOUS
<1>2. \A T \in SUBSET S : h[T] # Cardinality(Units(g, T)) <=> T \in B
  OBVIOUS
<1> HIDE DEF B
<1>3. PICK T \in B : \A U \in B : U \subseteq T => U = T
  BY <1>1, Minimal
<1>4. T \in SUBSET S
  BY <1>1
<1>5. CASE T = {}
  <2>1. Units(g, {}) = {}
    BY DEF Units
  <2>2. h[{}] = 0
    BY <1>4, <1>5 DEF Iterates
  <2> QED BY <1>2, <1>4, <1>5, <2>1, <2>2, FS_EmptySet
<1>6. CASE T # {}
  <2> DEFINE x == CHOOSE y \in T : TRUE
  <2>1. x \in T
    BY <1>6
  <2>2. h[T] = g[x].amount + h[T \ {x}]
    BY <1>4, <1>6 DEF Iterates
  <2>3. h[T \ {x}] = Cardinality(Units(g, T \ {x}))
    BY <1>2, <1>3, <1>4, <2>1
  <2>4. IsFiniteSet(T) /\ Amounts(g, T)
    BY <1>4, FS_Subset DEF Amounts
  <2>5. Cardinality(Units(g, T)) = g[x].amount + Cardinality(Units(g, T \ {x}))
    <3> HIDE DEF x
    <3> QED BY <2>1, <2>4, UnitsAdd
  <2> HIDE DEF x
  <2>6. h[T] = Cardinality(Units(g, T))
    BY <2>2, <2>3, <2>5
  <2> QED BY <1>2, <1>4, <2>6
<1> QED BY <1>5, <1>6

(* There is such a function.                                                  *)
LEMMA IterExists ==
    ASSUME NEW g, NEW S, IsFiniteSet(S), Amounts(g, S)
    PROVE  \E h : Iterates(g, S, h)
<1> DEFINE k == [s \in SUBSET S |-> Cardinality(Units(g, s))]
           Next1(s) == IF s = {} THEN 0
                       ELSE g[CHOOSE x \in s : TRUE].amount + k[s \ {CHOOSE x \in s : TRUE}]
<1>1. ASSUME NEW s \in SUBSET S PROVE Cardinality(Units(g, s)) = Next1(s)
  <2>1. CASE s = {}
    <3>1. Units(g, {}) = {}
      BY DEF Units
    <3> QED BY <2>1, <3>1, FS_EmptySet
  <2>2. CASE s # {}
    <3> DEFINE x == CHOOSE y \in s : TRUE
    <3>1. x \in s
      BY <2>2
    <3>2. IsFiniteSet(s) /\ Amounts(g, s)
      BY FS_Subset DEF Amounts
    <3>3. Cardinality(Units(g, s)) = g[x].amount + Cardinality(Units(g, s \ {x}))
      <4> HIDE DEF x, k, Next1
      <4> QED BY <3>1, <3>2, UnitsAdd
    <3>4. k[s \ {x}] = Cardinality(Units(g, s \ {x}))
      OBVIOUS
    <3>5. Next1(s) = g[x].amount + k[s \ {x}]
      BY <2>2
    <3> HIDE DEF x, k, Next1
    <3> QED BY <3>3, <3>4, <3>5
  <2> QED BY <2>1, <2>2
<1>2. k = [s \in SUBSET S |-> Next1(s)]
  BY <1>1
<1>3. Iterates(g, S, k)
  BY <1>2 DEF Iterates
<1> QED BY <1>3

(* The meaning of a sum: the number of units of the payments in it.           *)
LEMMA SumCounts ==
    ASSUME NEW g, NEW S, IsFiniteSet(S), Amounts(g, S)
    PROVE  AmountSum(g, S) = Cardinality(Units(g, S))
<1>1. Iterates(g, S, Iter(g, S))
  BY IterExists DEF Iter
<1> QED BY <1>1, IterCounts, Unfold

LEMMA SumEmpty == ASSUME NEW g PROVE AmountSum(g, {}) = 0
<1>1. Units(g, {}) = {}
  BY DEF Units
<1> QED BY <1>1, SumCounts, FS_EmptySet DEF Amounts

(* A payment that was not in the sum adds its amount.                         *)
LEMMA SumAdd ==
    ASSUME NEW g, NEW S, IsFiniteSet(S), NEW x, x \notin S, Amounts(g, S \cup {x})
    PROVE  /\ AmountSum(g, S) \in Nat
           /\ AmountSum(g, S \cup {x}) = AmountSum(g, S) + g[x].amount
<1>1. IsFiniteSet(S \cup {x}) /\ (S \cup {x}) \ {x} = S /\ Amounts(g, S)
  BY FS_AddElement DEF Amounts
<1>2. AmountSum(g, S) = Cardinality(Units(g, S))
  BY <1>1, SumCounts
<1>3. AmountSum(g, S \cup {x}) = Cardinality(Units(g, S \cup {x}))
  BY <1>1, SumCounts
<1>4. Cardinality(Units(g, S)) \in Nat
  BY <1>1, UnitsFinite, FS_CardinalityType
<1>5. g[x].amount \in Nat
  BY DEF Amounts
<1>6. Cardinality(Units(g, S \cup {x})) = g[x].amount + Cardinality(Units(g, S))
  BY <1>1, UnitsAdd
<1> QED BY <1>2, <1>3, <1>4, <1>5, <1>6

(* A sum depends on nothing but the amounts of its payments.                  *)
LEMMA SumSame ==
    ASSUME NEW g, NEW k, NEW S, IsFiniteSet(S), Amounts(g, S),
           \A x \in S : k[x] = g[x]
    PROVE  AmountSum(k, S) = AmountSum(g, S)
<1>1. Units(k, S) = Units(g, S)
  BY DEF Units
<1>2. Amounts(k, S)
  BY DEF Amounts
<1> QED BY <1>1, <1>2, SumCounts

(* A part of the payments adds up to no more than the whole.                  *)
LEMMA SumGrows ==
    \A g, T : \A S \in SUBSET T : IsFiniteSet(T) /\ Amounts(g, T) =>
        /\ AmountSum(g, S) \in Nat /\ AmountSum(g, T) \in Nat
        /\ AmountSum(g, S) <= AmountSum(g, T)
<1> SUFFICES ASSUME NEW g, NEW T, NEW S \in SUBSET T, IsFiniteSet(T), Amounts(g, T)
             PROVE  /\ AmountSum(g, S) \in Nat /\ AmountSum(g, T) \in Nat
                    /\ AmountSum(g, S) <= AmountSum(g, T)
  OBVIOUS
<1>1. IsFiniteSet(S) /\ Amounts(g, S)
  BY FS_Subset DEF Amounts
<1>2. IsFiniteSet(Units(g, T)) /\ Units(g, S) \in SUBSET Units(g, T)
  BY UnitsFinite DEF Units
<1>3. /\ Cardinality(Units(g, S)) <= Cardinality(Units(g, T))
      /\ Cardinality(Units(g, S)) \in Nat /\ Cardinality(Units(g, T)) \in Nat
  BY <1>2, FS_Subset, FS_CardinalityType
<1> QED BY <1>1, <1>3, SumCounts
-----------------------------------------------------------------------------
(* The ledger's sums.                                                         *)

(* Settled payments are finitely many and each of them is pledged.            *)
BooksInv ==
    /\ pledged \in [Payments -> Pledges \cup {NoPledge}]
    /\ settled \subseteq Payments
    /\ IsFiniteSet(settled)
    /\ \A t \in settled : pledged[t] # NoPledge
    /\ collected \in [Accounts -> Int]

(* What the lemmas about sums need of an account's settled payments.          *)
LEMMA AccountSums ==
    ASSUME BooksInv, NEW a \in Accounts
    PROVE  IsFiniteSet(SettledFor(a)) /\ Amounts(pledged, SettledFor(a))
<1>1. SettledFor(a) \in SUBSET settled
  BY DEF SettledFor
<1>2. IsFiniteSet(SettledFor(a))
  BY <1>1, FS_Subset DEF BooksInv
<1>3. ASSUME NEW t \in SettledFor(a) PROVE pledged[t].amount \in Nat
  BY <1>3 DEF SettledFor, BooksInv, Pledges
<1> QED BY <1>2, <1>3 DEF Amounts

LEMMA BooksStart == Init => BooksInv /\ Conserved
<1> SUFFICES ASSUME Init PROVE BooksInv /\ Conserved
  OBVIOUS
<1>1. \A a \in Accounts : SettledFor(a) = {}
  BY DEF Init, SettledFor
<1> QED BY <1>1, SumEmpty, FS_EmptySet DEF Init, BooksInv, Conserved, Balance

(* A pledge is no money yet: no settled payment is pledged again.             *)
LEMMA PledgeStep ==
    ASSUME BooksInv, NEW t \in Payments, Pledge(t)
    PROVE  /\ BooksInv' /\ collected' = collected
           /\ \A a \in Accounts : Balance(a)' = Balance(a)
<1>1. /\ pledged' = [pledged EXCEPT ![t] = pledged'[t]]
      /\ pledged'[t] \in Pledges /\ pledged[t] = NoPledge /\ t \notin settled
      /\ settled' = settled /\ collected' = collected
  BY DEF Pledge, BooksInv
<1>2. \A u \in settled : pledged'[u] = pledged[u]
  BY <1>1 DEF BooksInv
<1>3. BooksInv'
  BY <1>1, <1>2 DEF BooksInv
<1>4. ASSUME NEW a \in Accounts PROVE Balance(a)' = Balance(a)
  <2>1. SettledFor(a)' = SettledFor(a)
    BY <1>1, <1>2 DEF SettledFor
  <2>2. \A u \in SettledFor(a) : pledged'[u] = pledged[u]
    BY <1>2 DEF SettledFor
  <2>3. AmountSum(pledged', SettledFor(a)) = AmountSum(pledged, SettledFor(a))
    BY <2>2, AccountSums, SumSame
  <2> QED BY <2>1, <2>3 DEF Balance
<1> QED BY <1>1, <1>3, <1>4

(* A payment that settles is added to the balance of its account, and to no   *)
(* other.                                                                     *)
LEMMA SettleStep ==
    ASSUME BooksInv, NEW t \in Payments, pledged[t] # NoPledge, t \notin settled,
           settled' = settled \cup {t}, pledged' = pledged,
           collected' \in [Accounts -> Int]
    PROVE  /\ BooksInv'
           /\ pledged[t] \in Pledges
           /\ \A a \in Accounts :
                /\ Balance(a) \in Nat
                /\ Balance(a)' = IF a = pledged[t].account
                                 THEN Balance(a) + pledged[t].amount
                                 ELSE Balance(a)
<1>1. pledged[t] \in Pledges
  BY DEF BooksInv
<1>2. BooksInv'
  BY FS_AddElement DEF BooksInv
<1>3. ASSUME NEW a \in Accounts
      PROVE  /\ Balance(a) \in Nat
             /\ Balance(a)' = IF a = pledged[t].account
                              THEN Balance(a) + pledged[t].amount
                              ELSE Balance(a)
  <2>1. IsFiniteSet(SettledFor(a)) /\ Amounts(pledged, SettledFor(a))
    BY AccountSums
  <2>2. Amounts(pledged, SettledFor(a) \cup {t}) /\ t \notin SettledFor(a)
    BY <1>1, <2>1 DEF Amounts, Pledges, SettledFor
  <2>3. /\ AmountSum(pledged, SettledFor(a)) \in Nat
        /\ AmountSum(pledged, SettledFor(a) \cup {t})
             = AmountSum(pledged, SettledFor(a)) + pledged[t].amount
    BY <2>1, <2>2, SumAdd
  <2>4. SettledFor(a)' = IF a = pledged[t].account THEN SettledFor(a) \cup {t}
                         ELSE SettledFor(a)
    BY DEF SettledFor
  <2> QED BY <2>3, <2>4 DEF Balance
<1> QED BY <1>1, <1>2, <1>3

(* Conservation: whatever the order of pledges and settlements, an account    *)
(* has collected exactly what its settled payments add up to.                 *)
THEOREM MoneyConserved == Spec => []Conserved
<1>1. Init => BooksInv /\ Conserved
  BY BooksStart
<1>2. ASSUME BooksInv, Conserved, [Next]_money
      PROVE  BooksInv' /\ Conserved'
  <2>1. ASSUME NEW t \in Payments, Pledge(t) PROVE BooksInv' /\ Conserved'
    BY <1>2, <2>1, PledgeStep DEF Conserved
  <2>2. ASSUME NEW t \in Payments, Settle(t) PROVE BooksInv' /\ Conserved'
    <3>1. pledged[t] \in Pledges /\ collected \in [Accounts -> Int]
      BY <1>2, <2>2 DEF Settle, BooksInv
    <3>2. collected' \in [Accounts -> Int]
      BY <2>2, <3>1 DEF Settle, Pledges
    <3>3. BooksInv' /\ \A a \in Accounts :
            Balance(a)' = IF a = pledged[t].account
                          THEN Balance(a) + pledged[t].amount ELSE Balance(a)
      BY <1>2, <2>2, <3>2, SettleStep DEF Settle
    <3>4. ASSUME NEW a \in Accounts PROVE collected'[a] = Balance(a)'
      BY <1>2, <2>2, <3>1, <3>3 DEF Settle, Conserved
    <3> QED BY <3>3, <3>4 DEF Conserved
  <2>3. CASE UNCHANGED money
    <3>1. /\ pledged' = pledged /\ settled' = settled /\ collected' = collected
      BY <2>3 DEF money
    <3> QED BY <1>2, <3>1 DEF BooksInv, Conserved, Balance, SettledFor
  <2> QED BY <1>2, <2>1, <2>2, <2>3 DEF Next
<1> QED BY <1>1, <1>2, PTL DEF Spec

(* When settlements may lapse, the books still never show more than was       *)
(* settled.                                                                   *)
LEMMA LossyStep ==
    ASSUME BooksInv, NoneMade, [LossyNext]_money
    PROVE  BooksInv' /\ NoneMade'
<1>1. ASSUME NEW t \in Payments, Pledge(t) PROVE BooksInv' /\ NoneMade'
  BY <1>1, PledgeStep DEF NoneMade
<1>2. ASSUME NEW t \in Payments, Settle(t) \/ Lapse(t) PROVE BooksInv' /\ NoneMade'
  <2>1. /\ pledged[t] \in Pledges /\ pledged[t].amount \in Nat
        /\ collected \in [Accounts -> Int]
    BY <1>2 DEF Settle, Lapse, BooksInv, Pledges
  <2>2. collected' \in [Accounts -> Int]
    BY <1>2, <2>1 DEF Settle, Lapse
  <2>3. BooksInv' /\ \A a \in Accounts :
          /\ Balance(a) \in Nat
          /\ Balance(a)' = IF a = pledged[t].account
                           THEN Balance(a) + pledged[t].amount ELSE Balance(a)
    BY <1>2, <2>2, SettleStep DEF Settle, Lapse
  <2>4. ASSUME NEW a \in Accounts PROVE collected'[a] <= Balance(a)'
    <3>1. /\ collected[a] <= Balance(a) /\ collected[a] \in Int
          /\ Balance(a) \in Nat
      BY <2>1, <2>3 DEF NoneMade
    <3>2. collected'[a] \in {collected[a], IF a = pledged[t].account
              THEN collected[a] + pledged[t].amount ELSE collected[a]}
      BY <1>2, <2>1 DEF Settle, Lapse
    <3> QED BY <2>1, <2>3, <3>1, <3>2
  <2> QED BY <2>3, <2>4 DEF NoneMade
<1>3. CASE UNCHANGED money
  <2>1. /\ pledged' = pledged /\ settled' = settled /\ collected' = collected
    BY <1>3 DEF money
  <2> QED BY <2>1 DEF BooksInv, NoneMade, Balance, SettledFor
<1> QED BY <1>1, <1>2, <1>3 DEF LossyNext, Next

LEMMA LossyHolds == LossySpec => []BooksInv /\ []NoneMade
<1>1. Init => BooksInv /\ NoneMade
  BY BooksStart DEF BooksInv, Conserved, NoneMade
<1>2. BooksInv /\ NoneMade /\ [LossyNext]_money => BooksInv' /\ NoneMade'
  BY LossyStep
<1> QED BY <1>1, <1>2, PTL DEF LossySpec

(* No money is made: also when settlements may lapse, no account has          *)
(* collected more than its settled payments add up to.                        *)
THEOREM MoneyNotMade == LossySpec => []NoneMade
  BY LossyHolds, PTL

(* What settled payments add up to is a number.                               *)
Numbers == \A a \in Accounts : Balance(a) \in Nat

(* An account has a balance at any time, whatever its payments.               *)
THEOREM BalancesCount == LossySpec => []Numbers
<1>1. BooksInv => Numbers
  <2> SUFFICES ASSUME BooksInv, NEW a \in Accounts PROVE Balance(a) \in Nat
    BY DEF Numbers
  <2>1. IsFiniteSet(SettledFor(a)) /\ Amounts(pledged, SettledFor(a))
    BY AccountSums
  <2> QED BY <2>1, SumCounts, UnitsFinite, FS_CardinalityType DEF Balance
<1> QED BY <1>1, LossyHolds, PTL
=============================================================================
