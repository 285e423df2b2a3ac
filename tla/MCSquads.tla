------------------------------ MODULE MCSquads ------------------------------
(* Model values, and the symmetry the specification has in them.            *)
EXTENDS Squads, TLC

CONSTANTS u1, u2, u3, p1, p2, w1, w2, v1, s1, s2, q1, q2

Sym == Permutations(Users) \cup Permutations(Properties)
         \cup Permutations(Inviters) \cup Permutations(ProposalIds)
=============================================================================
