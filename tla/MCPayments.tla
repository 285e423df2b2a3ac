----------------------------- MODULE MCPayments -----------------------------
(* Model values, deposits in paise, and the symmetry of users, workers and   *)
(* transaction ids.                                                         *)
EXTENDS TokenPayments, TLC

CONSTANTS u1, u2, p1, p2, s1, q1, t1, t2, t3, v1, a1, a2, h1, h2, m1

MCDeposit == p1 :> 4 @@ p2 :> 5

Sym == Permutations(Hooks) \cup Permutations(Payers) \cup Permutations(Users)
         \cup Permutations(TxIds \ FeeIds)
=============================================================================
