----------------------------- MODULE Membership -----------------------------
(***************************************************************************)
(* What the squads promise the parts that only ask who is a member (FR-4.2, *)
(* FR-4.5, BR-05): a squad begins with its creator as its one member; a     *)
(* user is invited once, when somebody has been an accepted member of the   *)
(* squad; and whoever has a row may answer, again and again, but never      *)
(* loses the answer.                                                        *)
(***************************************************************************)
CONSTANTS Users, SquadIds

VARIABLES
    members,    \* members[s][u]: status of u's row in s, or "none"
    joined      \* history: the users whose row in s has ever been "accepted"

seats == <<members, joined>>

Nobody == [u \in Users |-> "none"]

Observed ==
    joined' = [s \in SquadIds |->
                 joined[s] \cup {u \in Users : members'[s][u] = "accepted"}]

Init ==
    /\ members = [s \in SquadIds |-> Nobody]
    /\ joined  = [s \in SquadIds |-> {}]

Found(s, u) ==
    /\ members[s] = Nobody
    /\ members' = [members EXCEPT ![s][u] = "accepted"]
    /\ Observed

Ask(s, u) ==
    /\ members[s][u] = "none"
    /\ joined[s] # {}
    /\ members' = [members EXCEPT ![s][u] = "invited"]
    /\ UNCHANGED joined

Answer(s, u, answer) ==
    /\ members[s][u] # "none"
    /\ members' = [members EXCEPT ![s][u] = answer]
    /\ Observed

Next == \E s \in SquadIds, u \in Users :
          \/ Found(s, u)
          \/ Ask(s, u)
          \/ \E answer \in {"accepted", "rejected"} : Answer(s, u, answer)

Spec == Init /\ [][Next]_seats
=============================================================================
