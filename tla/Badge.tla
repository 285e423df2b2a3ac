------------------------------- MODULE Badge -------------------------------
(***************************************************************************)
(* What listings promise (BR-04, BR-07): a home is listed by a landlord an  *)
(* admin has cleared, once and for good, and is awarded the badge only      *)
(* after an approved photo check and an approved visit. Approvals are       *)
(* remembered; the badge may be taken away and awarded again.               *)
(***************************************************************************)
CONSTANTS Landlords, Homes, Checks, PhotoChecks, VisitChecks, Nobody

VARIABLES
    cleared,    \* landlords an admin has cleared
    listedBy,   \* listedBy[h]: the landlord who listed h, or Nobody
    passed,     \* passed[h]: the kinds of check h has passed
    badge       \* homes that show the badge

promise == <<cleared, listedBy, passed, badge>>

Init ==
    /\ cleared  = {}
    /\ listedBy = [h \in Homes |-> Nobody]
    /\ passed   = [h \in Homes |-> {}]
    /\ badge    = {}

Clear(u) ==
    /\ cleared' = cleared \cup {u}
    /\ UNCHANGED <<listedBy, passed, badge>>

List(h, u) ==
    /\ u \in cleared
    /\ listedBy[h] = Nobody
    /\ listedBy' = [listedBy EXCEPT ![h] = u]
    /\ UNCHANGED <<cleared, passed, badge>>

Pass(h, c) ==
    /\ listedBy[h] # Nobody
    /\ passed' = [passed EXCEPT ![h] = @ \cup {c}]
    /\ UNCHANGED <<cleared, listedBy, badge>>

Award(h) ==
    /\ passed[h] \cap PhotoChecks # {}
    /\ passed[h] \cap VisitChecks # {}
    /\ badge' = badge \cup {h}
    /\ UNCHANGED <<cleared, listedBy, passed>>

Withdraw(h) ==
    /\ badge' = badge \ {h}
    /\ UNCHANGED <<cleared, listedBy, passed>>

Next == \/ \E u \in Landlords : Clear(u)
        \/ \E h \in Homes, u \in Landlords : List(h, u)
        \/ \E h \in Homes, c \in Checks : Pass(h, c)
        \/ \E h \in Homes : Award(h) \/ Withdraw(h)

Spec == Init /\ [][Next]_promise
=============================================================================
