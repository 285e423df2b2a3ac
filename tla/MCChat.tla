------------------------------- MODULE MCChat -------------------------------
(* Model values for TLC.                                                    *)
EXTENDS SquadChat, TLC

CONSTANTS u1, u2, s1, c1, c2, r1, m1, m2

\* Ids of messages and users are interchangeable.
Sym == Permutations({m1, m2}) \cup Permutations({u1, u2})
=============================================================================
