---------------------------- MODULE SquadsProofs ----------------------------
(***************************************************************************)
(* Proofs about module Squads, for any number of users, squads, proposals  *)
(* and concurrent requests, and any capacity.                              *)
(***************************************************************************)
EXTENDS Squads, FiniteSetTheorems, TLAPS

(* The foreign keys of the schema: a member's row, a request past its first
   call and a proposal name a squad that has a row. Needed for type
   correctness, since a statement on a missing row would write no row. And the
   history has everybody who is an accepted member now.                       *)
References ==
    /\ \A s \in SquadIds, u \in Users : members[s][u] # "none" => Exists(s)
    /\ \A w \in Inviters : inviting[w] # Idle => Exists(inviting[w].squad)
    /\ \A w \in Proposers : proposing[w] # Idle => Exists(proposing[w].squad)
    /\ \A q \in ProposalIds : proposals[q] # NoRow => Exists(proposals[q].squad)
    /\ \A s \in SquadIds : Accepted(s) \subseteq joined[s]

TypeInv == TypeOK /\ References

(* A row after the statements that change one of its fields is a row, with    *)
(* the other fields as they were.                                             *)
LEMMA RowTypes ==
    ASSUME NEW r \in Squad
    PROVE  /\ \A answer : /\ Seated(r, answer) \in Squad
                          /\ Seated(r, answer).status = r.status
                          /\ Seated(r, answer).property = r.property
                          /\ Seated(r, answer).count =
                               IF answer = "accepted" THEN r.count + 1 ELSE r.count
           /\ \A p \in Properties : /\ Targeted(r, p) \in Squad
                                    /\ Targeted(r, p).status = "forming"
                                    /\ Targeted(r, p).property = p
                                    /\ Targeted(r, p).count = r.count
<1>1. ASSUME NEW answer
      PROVE  /\ Seated(r, answer) \in Squad
             /\ Seated(r, answer).status = r.status
             /\ Seated(r, answer).property = r.property
             /\ Seated(r, answer).count =
                  IF answer = "accepted" THEN r.count + 1 ELSE r.count
  <2>1. CASE answer = "accepted"
    BY <2>1 DEF Squad, Seated
  <2>2. CASE answer # "accepted"
    BY <2>2 DEF Seated
  <2> QED BY <2>1, <2>2
<1>2. ASSUME NEW p \in Properties
      PROVE  /\ Targeted(r, p) \in Squad
             /\ Targeted(r, p).status = "forming"
             /\ Targeted(r, p).property = p
             /\ Targeted(r, p).count = r.count
  BY DEF Squad, SquadStatus, Targeted
<1> QED BY <1>1, <1>2

(* No statement removes a squad's row.                                        *)
LEMMA RowsStay ==
    ASSUME TypeInv, [Next]_vars, NEW s \in SquadIds, Exists(s)
    PROVE  Exists(s)'
<1> USE NoRowAssumption DEF TypeInv, TypeOK, References, Exists
<1>1. squads[s] \in Squad
  OBVIOUS
<1>2. ASSUME NEW t \in SquadIds, NEW u \in Users,
             NEW p \in Properties \cup {NoProperty}, NEW m \in PaymentModels,
             CreateSquad(t, u, p, m)
      PROVE  Exists(s)'
  BY <1>2 DEF CreateSquad, InsertSquad
<1>3. ASSUME NEW u \in Users, NEW t \in SquadIds, NEW accept \in BOOLEAN,
             RespondToInvite(u, t, accept)
      PROVE  Exists(s)'
  <2>1. Seated(squads[s], IF accept THEN "accepted" ELSE "rejected") \in Squad
    BY <1>1, RowTypes
  <2> QED BY <1>3, <2>1 DEF RespondToInvite, UpdateMemberStatus
<1>4. ASSUME NEW u \in Users, NEW q \in ProposalIds, NEW accept \in BOOLEAN,
             ResolveProposal(u, q, accept)
      PROVE  Exists(s)'
  <2>1. proposals[q].property \in Properties
    BY <1>4 DEF ResolveProposal, Proposal
  <2>2. Targeted(squads[s], proposals[q].property) \in Squad
    BY <1>1, <2>1, RowTypes
  <2> QED BY <1>4, <2>2 DEF ResolveProposal, AcceptProposal, RejectProposal
<1>5. CASE squads' = squads
  BY <1>5
<1> QED
  BY <1>2, <1>3, <1>4, <1>5
     DEF Next, Create, Invite, Respond, Propose, Resolve, Crash, vars, rows, seats,
         InviteRead, InviteCheck, InviteInsert, ProposeCheck, ProposeInsert,
         AbortInvite, AbortPropose

(* A statement on squad_members that is observed records who is accepted after  *)
(* it, and nobody is struck off the history.                                  *)
LEMMA HistoryKept ==
    ASSUME TypeInv, Observed
    PROVE  /\ joined' \in [SquadIds -> SUBSET Users]
           /\ \A s \in SquadIds : /\ Accepted(s)' \subseteq joined'[s]
                                 /\ joined[s] \subseteq joined'[s]
BY DEF TypeInv, TypeOK, Observed, Accepted

(* The step of the type invariant, one case per action.                       *)
LEMMA TypeStep == TypeInv /\ [Next]_vars => TypeInv'
<1> SUFFICES ASSUME TypeInv, [Next]_vars PROVE TypeInv'
  OBVIOUS
<1> USE PropertyAssumption, NoRowAssumption
    DEF TypeInv, TypeOK, References, Exists, Idle
<1>0. \A s \in SquadIds : squads[s] # NoRow => squads'[s] # NoRow
  BY RowsStay
<1>1. ASSUME NEW s \in SquadIds, NEW u \in Users,
             NEW p \in Properties \cup {NoProperty}, NEW m \in PaymentModels,
             CreateSquad(s, u, p, m)
      PROVE  TypeInv'
  <2>1. NewSquad(u, p, m) \in Squad
    BY DEF NewSquad, Squad, SquadStatus
  <2>2. TypeOK'
    BY <1>1, <2>1, HistoryKept
       DEF CreateSquad, InsertSquad, NewSquad, MemberStatus, requests
  <2>3. References'
    BY <1>0, <1>1, <2>1, HistoryKept DEF CreateSquad, InsertSquad, requests, Proposal,
       InviteRequest, ProposeRequest
  <2> QED BY <2>2, <2>3
<1>2. ASSUME NEW w \in Inviters, NEW u \in Users, NEW v \in Users,
             NEW s \in SquadIds, InviteRead(w, u, s, v)
      PROVE  TypeInv'
  <2>1. squads[s] \in Squad
    BY <1>2 DEF InviteRead
  <2> QED BY <1>2, <2>1 DEF InviteRead, InviteRequest, Squad, rows, Accepted
<1>3. ASSUME NEW w \in Inviters, InviteCheck(w) PROVE TypeInv'
  <2>1. inviting[w] \in InviteRequest
    BY <1>3 DEF InviteCheck
  <2>2. [inviting[w] EXCEPT !.stage = "insert"] \in InviteRequest
    BY <2>1 DEF InviteRequest
  <2>3. [inviting[w] EXCEPT !.stage = "insert"].squad = inviting[w].squad
    BY <2>1 DEF InviteRequest
  <2> QED BY <1>3, <2>1, <2>2, <2>3 DEF InviteCheck, InviteRequest, rows, Accepted
<1>4. ASSUME NEW w \in Inviters, InviteInsert(w) PROVE TypeInv'
  <2>1. inviting[w] \in InviteRequest
    BY <1>4 DEF InviteInsert
  <2>2. inviting[w].squad \in SquadIds /\ inviting[w].target \in Users
    BY <2>1 DEF InviteRequest
  <2>3. Exists(inviting[w].squad)
    BY <1>4 DEF InviteInsert, InviteRequest
  <2>4. CASE AddMember(inviting[w].squad, inviting[w].target)
    BY <1>4, <2>2, <2>3, <2>4 DEF InviteInsert, AddMember, MemberStatus, Accepted
  <2>5. CASE UNCHANGED members
    BY <1>4, <2>5 DEF InviteInsert, Accepted
  <2> QED BY <1>4, <2>4, <2>5 DEF InviteInsert
<1>5. ASSUME NEW u \in Users, NEW s \in SquadIds, NEW accept \in BOOLEAN,
             RespondToInvite(u, s, accept)
      PROVE  TypeInv'
  <2> DEFINE answer == IF accept THEN "accepted" ELSE "rejected"
  <2>1. Seated(squads[s], answer) \in Squad
    BY <1>5, RowTypes DEF RespondToInvite
  <2>2. Answered(members[s][u], answer) \in MemberStatus
    BY DEF Answered, MemberStatus
  <2>3. /\ squads' = [squads EXCEPT ![s] = Seated(squads[s], answer)]
        /\ members' = [members EXCEPT ![s][u] = Answered(members[s][u], answer)]
        /\ UNCHANGED <<proposals, inviting, proposing>>
        /\ Exists(s) /\ Observed
    BY <1>5 DEF RespondToInvite, UpdateMemberStatus, requests
  <2> HIDE DEF answer
  <2>4. TypeOK'
    BY <2>1, <2>2, <2>3, HistoryKept
  <2>5. References'
    BY <1>0, <2>1, <2>3, HistoryKept DEF Proposal, InviteRequest, ProposeRequest
  <2> QED BY <2>4, <2>5
<1>6. ASSUME NEW w \in Proposers, NEW u \in Users, NEW s \in SquadIds,
             NEW p \in Properties, ProposeCheck(w, u, s, p)
      PROVE  TypeInv'
  BY <1>6 DEF ProposeCheck, ProposeRequest, rows, Accepted
<1>7. ASSUME NEW w \in Proposers, NEW q \in ProposalIds, ProposeInsert(w, q)
      PROVE  TypeInv'
  <2>1. proposing[w] \in ProposeRequest
    BY <1>7 DEF ProposeInsert
  <2> QED BY <1>7, <2>1 DEF ProposeInsert, ProposeRequest, Proposal, ProposalStatus, seats, Accepted
<1>8. ASSUME NEW u \in Users, NEW q \in ProposalIds, NEW accept \in BOOLEAN,
             ResolveProposal(u, q, accept)
      PROVE  TypeInv'
  <2>1. proposals[q] \in Proposal /\ squads[proposals[q].squad] \in Squad
    BY <1>8 DEF ResolveProposal, Proposal
  <2>2. \A p \in ProposalIds, t \in {"accepted", "rejected"} :
           proposals[p] # NoRow =>
             /\ [proposals[p] EXCEPT !.status = t] \in Proposal
             /\ [proposals[p] EXCEPT !.status = t].squad = proposals[p].squad
    BY DEF Proposal, ProposalStatus
  <2>3. CASE accept
    <3>1. proposals' \in [ProposalIds -> Proposal \cup {NoRow}]
      <4> HIDE DEF References
      <4>1. \A p \in ProposalIds : RejectOthers(q)[p] \in Proposal \cup {NoRow}
        BY <2>1, <2>2 DEF RejectOthers
      <4> QED BY <1>8, <2>3, <4>1 DEF RejectOthers, ResolveProposal, AcceptProposal
    <3>2. \A p \in ProposalIds : proposals'[p] # NoRow =>
             proposals[p] # NoRow /\ proposals'[p].squad = proposals[p].squad
      <4> SUFFICES ASSUME NEW p \in ProposalIds, proposals'[p] # NoRow
                   PROVE  proposals[p] # NoRow /\ proposals'[p].squad = proposals[p].squad
        OBVIOUS
      <4>1. proposals'[p] = RejectOthers(q)[p]
        BY <1>8, <2>3 DEF ResolveProposal, AcceptProposal
      <4>2. \/ proposals'[p] = [proposals[p] EXCEPT !.status = "accepted"] /\ p = q
            \/ /\ proposals'[p] = [proposals[p] EXCEPT !.status = "rejected"]
               /\ proposals[p] # NoRow
            \/ proposals'[p] = proposals[p]
        BY <4>1 DEF RejectOthers
      <4> QED BY <1>8, <2>2, <4>2 DEF ResolveProposal
    <3>3. Targeted(squads[proposals[q].squad], proposals[q].property) \in Squad
      BY <2>1, RowTypes DEF Proposal
    <3>4. squads' \in [SquadIds -> Squad \cup {NoRow}]
      BY <1>8, <2>3, <3>3 DEF ResolveProposal, AcceptProposal
    <3>5. UNCHANGED <<members, joined, inviting, proposing>>
      BY <1>8 DEF ResolveProposal, seats, requests
    <3>6. TypeOK'
      BY <3>1, <3>4, <3>5
    <3>7. References'
      <4> HIDE DEF TypeOK
      <4>1. /\ \A w \in Inviters : inviting[w] # Idle => inviting[w].squad \in SquadIds
            /\ \A w \in Proposers : proposing[w] # Idle => proposing[w].squad \in SquadIds
            /\ \A p \in ProposalIds : proposals[p] # NoRow
                 => proposals[p].squad \in SquadIds
        BY DEF TypeOK, InviteRequest, ProposeRequest, Proposal
      <4> QED BY <1>0, <3>2, <3>5, <4>1 DEF Accepted
    <3> QED BY <3>6, <3>7
  <2>4. CASE ~accept
    BY <1>8, <2>1, <2>2, <2>4 DEF ResolveProposal, RejectProposal, seats, requests, Accepted
  <2> QED BY <2>3, <2>4
<1>9. ASSUME NEW w \in Inviters, AbortInvite(w) PROVE TypeInv'
  BY <1>9 DEF AbortInvite, rows, Accepted
<1>10. ASSUME NEW w \in Proposers, AbortPropose(w) PROVE TypeInv'
  BY <1>10 DEF AbortPropose, rows, Accepted
<1>11. CASE UNCHANGED vars
  BY <1>11 DEF vars, Accepted
<1> QED
  BY <1>1, <1>2, <1>3, <1>4, <1>5, <1>6, <1>7, <1>8, <1>9, <1>10, <1>11
     DEF Next, Create, Invite, Respond, Propose, Resolve, Crash

(* Type correctness: whatever the order of the requests' calls, rows and      *)
(* requests keep their fields and values, and refer to squads that exist.     *)
THEOREM TypeCorrect == Spec => [](TypeOK /\ References)
<1>1. Init => TypeInv
  BY DEF Init, TypeInv, TypeOK, References, MemberStatus, Exists, Accepted
<1>2. TypeInv /\ [Next]_vars => TypeInv'
  BY TypeStep
<1>3. TypeInv => TypeOK /\ References
  BY DEF TypeInv
<1> QED BY <1>1, <1>2, <1>3, PTL DEF Spec

-----------------------------------------------------------------------------
(* BR-08.                                                                     *)

(* One squad's row keeps BR-08 under the statements that change it.           *)
LEMMA PropertyStep ==
    TypeInv /\ PropertyUnlessBrowsing /\ [Next]_vars => PropertyUnlessBrowsing'
<1> SUFFICES ASSUME TypeInv, PropertyUnlessBrowsing, [Next]_vars,
                    NEW s \in SquadIds, Exists(s)'
             PROVE  (squads[s].status = "browsing" <=> squads[s].property = NoProperty)'
  BY DEF PropertyUnlessBrowsing
<1> USE PropertyAssumption DEF TypeInv, TypeOK, Exists, PropertyUnlessBrowsing
<1>1. ASSUME NEW t \in SquadIds, NEW u \in Users,
             NEW p \in Properties \cup {NoProperty}, NEW m \in PaymentModels,
             CreateSquad(t, u, p, m)
      PROVE  (squads[s].status = "browsing" <=> squads[s].property = NoProperty)'
  BY <1>1 DEF CreateSquad, InsertSquad, NewSquad
<1>2. ASSUME NEW u \in Users, NEW t \in SquadIds, NEW accept \in BOOLEAN,
             RespondToInvite(u, t, accept)
      PROVE  (squads[s].status = "browsing" <=> squads[s].property = NoProperty)'
  <2>1. squads[t] \in Squad /\ (squads[s] \in Squad \/ s # t)
    BY <1>2 DEF RespondToInvite
  <2>2. CASE s = t
    BY <1>2, <2>1, <2>2, RowTypes DEF RespondToInvite, UpdateMemberStatus
  <2>3. CASE s # t
    BY <1>2, <2>3 DEF RespondToInvite, UpdateMemberStatus
  <2> QED BY <2>2, <2>3
<1>3. ASSUME NEW u \in Users, NEW q \in ProposalIds, NEW accept \in BOOLEAN,
             ResolveProposal(u, q, accept)
      PROVE  (squads[s].status = "browsing" <=> squads[s].property = NoProperty)'
  <2>1. proposals[q].squad \in SquadIds /\ proposals[q].property \in Properties
    BY <1>3 DEF ResolveProposal, Proposal
  <2>2. squads[proposals[q].squad] \in Squad
    BY <1>3, <2>1 DEF ResolveProposal, References
  <2>3. CASE accept /\ s = proposals[q].squad
    <3>1. squads'[s] = Targeted(squads[s], proposals[q].property)
      BY <1>3, <2>1, <2>3 DEF ResolveProposal, AcceptProposal
    <3> QED BY <2>1, <2>2, <2>3, <3>1, RowTypes
  <2>4. CASE accept /\ s # proposals[q].squad
    BY <1>3, <2>1, <2>4 DEF ResolveProposal, AcceptProposal
  <2>5. CASE ~accept
    BY <1>3, <2>5 DEF ResolveProposal, RejectProposal
  <2> QED BY <2>3, <2>4, <2>5
<1>4. CASE squads' = squads
  BY <1>4
<1> QED
  BY <1>1, <1>2, <1>3, <1>4
     DEF Next, Create, Invite, Respond, Propose, Resolve, Crash, vars, rows, seats,
         InviteRead, InviteCheck, InviteInsert, ProposeCheck, ProposeInsert,
         AbortInvite, AbortPropose

(* BR-08: no order of creations, answers and decisions gives a squad past     *)
(* browsing no property, or a browsing squad one.                             *)
THEOREM PropertyCorrect == Spec => []PropertyUnlessBrowsing
<1>1. Init => PropertyUnlessBrowsing
  BY DEF Init, PropertyUnlessBrowsing, Exists
<1>2. Spec => []TypeInv
  BY TypeCorrect, PTL DEF TypeInv
<1>3. TypeInv /\ PropertyUnlessBrowsing /\ [Next]_vars => PropertyUnlessBrowsing'
  BY PropertyStep
<1> QED BY <1>1, <1>2, <1>3, PTL DEF Spec

-----------------------------------------------------------------------------
(* BR-05.                                                                     *)

(* One more element is at most one more in number.                            *)
LEMMA OneMore ==
    ASSUME NEW S, NEW T, NEW x, IsFiniteSet(S), T \subseteq S \cup {x}
    PROVE  /\ Cardinality(T) <= Cardinality(S) + 1
           /\ Cardinality(T) \in Nat
<1>1. IsFiniteSet(S \cup {x}) /\ Cardinality(S \cup {x}) <= Cardinality(S) + 1
  <2>1. Cardinality(S) \in Nat
    BY FS_CardinalityType
  <2>2. /\ IsFiniteSet(S \cup {x})
        /\ Cardinality(S \cup {x}) = IF x \in S THEN Cardinality(S) ELSE Cardinality(S) + 1
    BY FS_AddElement
  <2> QED BY <2>1, <2>2
<1>2. Cardinality(T) <= Cardinality(S \cup {x}) /\ Cardinality(T) \in Nat
  BY <1>1, FS_Subset, FS_CardinalityType
<1>3. Cardinality(S) \in Nat /\ Cardinality(S \cup {x}) \in Nat
  BY <1>1, FS_CardinalityType
<1> QED BY <1>1, <1>2, <1>3

(* The step of BR-05. Only an answer of "accepted" adds a member, and the     *)
(* same transaction adds one to the counter or fails as a whole.              *)
LEMMA SizeStep == TypeInv /\ SizeBound /\ [Next]_vars => SizeBound'
<1> SUFFICES ASSUME TypeInv, SizeBound, [Next]_vars, NEW s \in SquadIds, Exists(s)'
             PROVE  /\ Cardinality(Accepted(s))' <= squads'[s].count
                    /\ squads'[s].count <= MaxSize
  BY DEF SizeBound
<1> USE SizeAssumption DEF TypeInv, TypeOK, Exists
<1>0. IsFiniteSet(Accepted(s)) /\ Cardinality(Accepted(s)) \in Nat
  BY UsersAssumption, FS_Subset, FS_CardinalityType DEF Accepted
<1>a. Exists(s) => /\ squads[s].count \in Nat
                   /\ Cardinality(Accepted(s)) <= squads[s].count
                   /\ squads[s].count <= MaxSize
  BY DEF SizeBound, Squad
<1>1. ASSUME NEW t \in SquadIds, NEW u \in Users,
             NEW p \in Properties \cup {NoProperty}, NEW m \in PaymentModels,
             CreateSquad(t, u, p, m)
      PROVE  /\ Cardinality(Accepted(s))' <= squads'[s].count
             /\ squads'[s].count <= MaxSize
  <2>1. CASE s = t
    <3>1. Accepted(s)' = {u}
      BY <1>1, <2>1 DEF CreateSquad, InsertSquad, NewSquad, Accepted
    <3>2. squads'[s].count = 1
      BY <1>1, <2>1 DEF CreateSquad, InsertSquad, NewSquad
    <3>3. Cardinality({u}) = 1
      BY FS_Singleton
    <3> QED BY <3>1, <3>2, <3>3
  <2>2. CASE s # t
    <3>1. Accepted(s)' = Accepted(s) /\ squads'[s] = squads[s]
      BY <1>1, <2>2 DEF CreateSquad, InsertSquad, Accepted
    <3> QED BY <1>a, <3>1
  <2> QED BY <2>1, <2>2
<1>2. ASSUME NEW w \in Inviters, InviteInsert(w)
      PROVE  /\ Cardinality(Accepted(s))' <= squads'[s].count
             /\ squads'[s].count <= MaxSize
  <2>1. squads' = squads
    BY <1>2 DEF InviteInsert
  <2>2. Accepted(s)' \subseteq Accepted(s)
    <3>1. CASE UNCHANGED members
      BY <3>1 DEF Accepted
    <3>2. CASE AddMember(inviting[w].squad, inviting[w].target)
      BY <3>2 DEF AddMember, Accepted
    <3> QED BY <1>2, <3>1, <3>2 DEF InviteInsert
  <2>3. Cardinality(Accepted(s)') <= Cardinality(Accepted(s)) /\ Cardinality(Accepted(s)') \in Nat
    BY <1>0, <2>2, FS_Subset, FS_CardinalityType
  <2> QED BY <1>0, <1>a, <2>1, <2>3
<1>3. ASSUME NEW u \in Users, NEW t \in SquadIds, NEW accept \in BOOLEAN,
             RespondToInvite(u, t, accept)
      PROVE  /\ Cardinality(Accepted(s))' <= squads'[s].count
             /\ squads'[s].count <= MaxSize
  <2>1. CASE s # t
    <3>1. Accepted(s)' = Accepted(s) /\ squads'[s] = squads[s]
      BY <1>3, <2>1 DEF RespondToInvite, UpdateMemberStatus, Accepted
    <3> QED BY <1>a, <3>1
  <2>2. CASE s = t /\ accept
    <3>1. squads[s] \in Squad /\ Exists(s)
      BY <1>3, <2>2 DEF RespondToInvite
    <3>2. squads'[s] = [squads[s] EXCEPT !.count = squads[s].count + 1]
      BY <1>3, <2>2 DEF RespondToInvite, UpdateMemberStatus, Seated
    <3>3. squads'[s].count = squads[s].count + 1
      BY <3>1, <3>2 DEF Squad
    <3>4. squads'[s].count <= MaxSize
      BY <1>3, <2>2, <3>2 DEF RespondToInvite, UpdateMemberStatus, Seated, RowAllowed
    <3>5. Accepted(s)' \subseteq Accepted(s) \cup {u}
      BY <1>3, <2>2 DEF RespondToInvite, UpdateMemberStatus, Accepted
    <3>6. /\ Cardinality(Accepted(s)') <= Cardinality(Accepted(s)) + 1
          /\ Cardinality(Accepted(s)') \in Nat
      BY <1>0, <3>5, OneMore
    <3> QED BY <1>0, <1>a, <3>1, <3>3, <3>4, <3>6
  <2>3. CASE s = t /\ ~accept
    <3>1. squads'[s] = squads[s]
      BY <1>3, <2>3 DEF RespondToInvite, UpdateMemberStatus, Seated
    <3>2. Accepted(s)' \subseteq Accepted(s)
      BY <1>3, <2>3 DEF RespondToInvite, UpdateMemberStatus, Answered, Accepted
    <3>3. Cardinality(Accepted(s)') <= Cardinality(Accepted(s)) /\ Cardinality(Accepted(s)') \in Nat
      BY <1>0, <3>2, FS_Subset, FS_CardinalityType
    <3> QED BY <1>0, <1>a, <3>1, <3>3
  <2> QED BY <2>1, <2>2, <2>3
<1>4. ASSUME NEW u \in Users, NEW q \in ProposalIds, NEW accept \in BOOLEAN,
             ResolveProposal(u, q, accept)
      PROVE  /\ Cardinality(Accepted(s))' <= squads'[s].count
             /\ squads'[s].count <= MaxSize
  <2>1. Accepted(s)' = Accepted(s)
    BY <1>4 DEF ResolveProposal, seats, Accepted
  <2>2. Exists(s)
    BY <1>4 DEF ResolveProposal, AcceptProposal, RejectProposal, References
  <2>3. squads'[s].count = squads[s].count
    <3>1. proposals[q].property \in Properties /\ squads[s] \in Squad
      BY <1>4, <2>2 DEF ResolveProposal, Proposal
    <3>2. \/ squads'[s] = squads[s]
          \/ squads'[s] = Targeted(squads[s], proposals[q].property)
      BY <1>4, <2>2 DEF ResolveProposal, AcceptProposal, RejectProposal
    <3> QED BY <3>1, <3>2, RowTypes
  <2> QED BY <1>a, <2>1, <2>2, <2>3
<1>5. CASE UNCHANGED <<squads, members>>
  BY <1>a, <1>5 DEF Accepted
<1> QED
  BY <1>1, <1>2, <1>3, <1>4, <1>5
     DEF Next, Create, Invite, Respond, Propose, Resolve, Crash, vars, rows, seats,
         InviteRead, InviteCheck, ProposeCheck, ProposeInsert,
         AbortInvite, AbortPropose

(* BR-05: in any interleaving of invitations and answers, accepted members    *)
(* are never more than the counter, and the counter never passes the capacity.*)
THEOREM SizeCorrect == Spec => []SizeBound
<1>1. Init => SizeBound
  BY DEF Init, SizeBound, Exists
<1>2. Spec => []TypeInv
  BY TypeCorrect, PTL DEF TypeInv
<1>3. TypeInv /\ SizeBound /\ [Next]_vars => SizeBound'
  BY SizeStep
<1> QED BY <1>1, <1>2, <1>3, PTL DEF Spec

-----------------------------------------------------------------------------
(* Who acts on a squad, and what the actions may not undo.                    *)

(* Once a member's row holds an answer, every later step keeps an answer.     *)
LEMMA AnswerStep ==
    ASSUME TypeInv, [Next]_vars, NEW s \in SquadIds, NEW u \in Users,
           HasAnswered(s, u)
    PROVE  HasAnswered(s, u)'
<1> USE DEF TypeInv, TypeOK, HasAnswered
<1>1. ASSUME NEW t \in SquadIds, NEW v \in Users,
             NEW p \in Properties \cup {NoProperty}, NEW m \in PaymentModels,
             CreateSquad(t, v, p, m)
      PROVE  HasAnswered(s, u)'
  BY <1>1 DEF CreateSquad, InsertSquad, References
<1>2. ASSUME NEW w \in Inviters, InviteInsert(w) PROVE HasAnswered(s, u)'
  BY <1>2 DEF InviteInsert, AddMember
<1>3. ASSUME NEW v \in Users, NEW t \in SquadIds, NEW accept \in BOOLEAN,
             RespondToInvite(v, t, accept)
      PROVE  HasAnswered(s, u)'
  BY <1>3 DEF RespondToInvite, UpdateMemberStatus, Answered
<1>4. CASE members' = members
  BY <1>4
<1> QED
  BY <1>1, <1>2, <1>3, <1>4
     DEF Next, Create, Invite, Respond, Propose, Resolve, Crash, vars, rows, seats,
         InviteRead, InviteCheck, ProposeCheck, ProposeInsert, ResolveProposal,
         AbortInvite, AbortPropose

(* An answer is never turned back into an invitation: the check of an         *)
(* invitation may be stale when its insert runs, the row it meets is kept.    *)
THEOREM AnswersStand == Spec => AnswerStands
<1>1. ASSUME TypeInv, [Next]_vars
      PROVE  [\A s \in SquadIds, u \in Users :
                HasAnswered(s, u) => members'[s][u] \in {"accepted", "rejected"}]_vars
  BY <1>1, AnswerStep DEF HasAnswered
<1>2. Spec => []TypeInv
  BY TypeCorrect, PTL DEF TypeInv
<1> QED BY <1>1, <1>2, PTL DEF Spec, AnswerStands

(* Nobody who was an accepted member of a squad is struck off its history.    *)
LEMMA JoinedStays ==
    ASSUME TypeInv, [Next]_vars, NEW s \in SquadIds
    PROVE  joined[s] \subseteq joined'[s]
<1>1. CASE Observed
  BY <1>1, HistoryKept
<1>2. CASE joined' = joined
  BY <1>2
<1> QED
  BY <1>1, <1>2
     DEF Next, Create, Invite, Respond, Propose, Resolve, Crash, vars, rows, seats,
         CreateSquad, InsertSquad, InviteRead, InviteCheck, InviteInsert,
         RespondToInvite, UpdateMemberStatus, ProposeCheck, ProposeInsert,
         ResolveProposal, AbortInvite, AbortPropose

(* The step of OnlyMembersAct: a request passes its membership check in the   *)
(* step that reads an accepted row, which the history has, and keeps.         *)
LEMMA ActorStep == TypeInv /\ OnlyMembersAct /\ [Next]_vars => OnlyMembersAct'
<1> SUFFICES ASSUME TypeInv, OnlyMembersAct, [Next]_vars PROVE OnlyMembersAct'
  OBVIOUS
<1>0. \A s \in SquadIds : joined[s] \subseteq joined'[s]
  BY JoinedStays
<1>a. \A s \in SquadIds : Accepted(s) \subseteq joined[s]
  BY DEF TypeInv, References
<1>1. ASSUME NEW w \in Inviters, inviting'[w].stage = "insert"
      PROVE  inviting'[w].sender \in joined'[inviting'[w].squad]
  <2>1. CASE inviting'[w] = inviting[w]
    <3>1. inviting[w] \in InviteRequest
      BY <1>1, <2>1 DEF TypeInv, TypeOK, Idle
    <3>2. /\ inviting[w].squad \in SquadIds /\ inviting[w].sender \in Users
          /\ inviting[w].sender \in joined[inviting[w].squad]
      BY <1>1, <2>1, <3>1 DEF InviteRequest, OnlyMembersAct
    <3> QED BY <1>0, <2>1, <3>2
  <2>2. ASSUME NEW v \in Inviters, InviteCheck(v), inviting'[w] # inviting[w]
        PROVE  inviting'[w].sender \in joined'[inviting'[w].squad]
    <3>1. v = w /\ inviting[w] \in InviteRequest
      BY <2>2 DEF InviteCheck, TypeInv, TypeOK, Idle
    <3>2. /\ MayInvite(inviting[w])
          /\ inviting'[w] = [inviting[w] EXCEPT !.stage = "insert"]
          /\ joined' = joined
      BY <1>1, <2>2, <3>1 DEF InviteCheck, TypeInv, TypeOK, Idle, rows
    <3>3. /\ inviting'[w].squad = inviting[w].squad
          /\ inviting'[w].sender = inviting[w].sender
      BY <3>1, <3>2 DEF InviteRequest
    <3> QED
      <4>1. inviting[w].sender \in Accepted(inviting[w].squad)
        BY <3>1, <3>2 DEF MayInvite, Accepted, InviteRequest
      <4>2. inviting[w].squad \in SquadIds
        BY <3>1 DEF InviteRequest
      <4> QED BY <1>a, <3>2, <3>3, <4>1, <4>2
  <2> QED
    BY <1>1, <2>1, <2>2
       DEF Next, Create, Invite, Respond, Propose, Resolve, Crash, vars, rows, seats,
           requests, CreateSquad, InviteRead, InviteInsert, RespondToInvite,
           ProposeCheck, ProposeInsert, ResolveProposal, AbortInvite,
           AbortPropose, TypeInv, TypeOK, Idle
<1>2. ASSUME NEW w \in Proposers, proposing'[w].stage = "insert"
      PROVE  proposing'[w].user \in joined'[proposing'[w].squad]
  <2>1. CASE proposing'[w] = proposing[w]
    <3>1. proposing[w] \in ProposeRequest
      BY <1>2, <2>1 DEF TypeInv, TypeOK, Idle
    <3>2. /\ proposing[w].squad \in SquadIds /\ proposing[w].user \in Users
          /\ proposing[w].user \in joined[proposing[w].squad]
      BY <1>2, <2>1, <3>1 DEF ProposeRequest, OnlyMembersAct
    <3> QED BY <1>0, <2>1, <3>2
  <2>2. ASSUME NEW v \in Proposers, NEW u \in Users, NEW s \in SquadIds,
               NEW p \in Properties, ProposeCheck(v, u, s, p),
               proposing'[w] # proposing[w]
        PROVE  proposing'[w].user \in joined'[proposing'[w].squad]
    BY <1>a, <2>2 DEF ProposeCheck, TypeInv, TypeOK, Accepted, rows
  <2> QED
    BY <1>2, <2>1, <2>2
       DEF Next, Create, Invite, Respond, Propose, Resolve, Crash, vars, rows, seats,
           requests, CreateSquad, InviteRead, InviteCheck, InviteInsert,
           RespondToInvite, ProposeInsert, ResolveProposal, AbortInvite,
           AbortPropose, TypeInv, TypeOK, Idle
<1>3. ASSUME NEW q \in ProposalIds, proposals'[q] # NoRow
      PROVE  proposals'[q].proposer \in joined'[proposals'[q].squad]
  <2>1. CASE /\ proposals[q] # NoRow
             /\ proposals'[q].squad = proposals[q].squad
             /\ proposals'[q].proposer = proposals[q].proposer
    <3>1. /\ proposals[q].squad \in SquadIds /\ proposals[q].proposer \in Users
          /\ proposals[q].proposer \in joined[proposals[q].squad]
      BY <2>1 DEF TypeInv, TypeOK, Proposal, OnlyMembersAct
    <3> QED BY <1>0, <2>1, <3>1
  <2>2. ASSUME NEW w \in Proposers, NEW p \in ProposalIds, ProposeInsert(w, p)
        PROVE  proposals'[q].proposer \in joined'[proposals'[q].squad]
    <3>1. CASE q = p
      <4>1. /\ proposals'[q].squad = proposing[w].squad
            /\ proposals'[q].proposer = proposing[w].user
            /\ joined' = joined
        BY <2>2, <3>1 DEF ProposeInsert, seats, TypeInv, TypeOK
      <4> QED BY <2>2, <4>1 DEF ProposeInsert, OnlyMembersAct
    <3>2. CASE q # p
      BY <1>3, <2>1, <2>2, <3>2 DEF ProposeInsert, TypeInv, TypeOK
    <3> QED BY <3>1, <3>2
  <2>3. ASSUME NEW u \in Users, NEW p \in ProposalIds, NEW accept \in BOOLEAN,
               ResolveProposal(u, p, accept)
        PROVE  proposals'[q].proposer \in joined'[proposals'[q].squad]
    <3>1. \/ proposals'[q] = proposals[q]
          \/ proposals'[q] = [proposals[q] EXCEPT !.status = "accepted"] /\ q = p
          \/ /\ proposals'[q] = [proposals[q] EXCEPT !.status = "rejected"]
             /\ proposals[q] # NoRow
      BY <2>3 DEF ResolveProposal, AcceptProposal, RejectProposal, RejectOthers,
         TypeInv, TypeOK
    <3>2. proposals[q] # NoRow
      BY <1>3, <2>3, <3>1 DEF ResolveProposal
    <3>3. proposals[q] \in Proposal
      BY <3>2 DEF TypeInv, TypeOK
    <3> QED BY <2>1, <3>1, <3>2, <3>3 DEF Proposal
  <2>4. CASE proposals' = proposals
    BY <1>3, <2>1, <2>4
  <2> QED
    BY <2>2, <2>3, <2>4
       DEF Next, Create, Invite, Respond, Propose, Resolve, Crash, vars, rows, seats,
           CreateSquad, InviteRead, InviteCheck, InviteInsert, RespondToInvite,
           ProposeCheck, AbortInvite, AbortPropose
<1> QED BY <1>1, <1>2, <1>3 DEF OnlyMembersAct

(* Requests past their membership check and proposals on the table belong to  *)
(* someone who had been an accepted member of the squad by then, whatever has *)
(* happened since.                                                            *)
THEOREM ActorsCorrect == Spec => []OnlyMembersAct
<1>1. Init => OnlyMembersAct
  BY DEF Init, OnlyMembersAct, Idle
<1>2. Spec => []TypeInv
  BY TypeCorrect, PTL DEF TypeInv
<1>3. TypeInv /\ OnlyMembersAct /\ [Next]_vars => OnlyMembersAct'
  BY ActorStep
<1> QED BY <1>1, <1>2, <1>3, PTL DEF Spec

(* The step of ChosenFromProposals: of all statements on a squad's row only   *)
(* the acceptance of a proposal touches its property, and the same            *)
(* transaction closes what else is pending.                                   *)
LEMMA ChoiceStep ==
    ASSUME TypeInv, OnlyMembersAct, [Next]_vars, NEW s \in SquadIds, Exists(s),
           squads'[s].property # squads[s].property
    PROVE  \E q \in ProposalIds :
             /\ proposals[q] # NoRow
             /\ proposals[q].squad = s
             /\ proposals[q].property = squads'[s].property
             /\ proposals[q].proposer \in joined[s]
             /\ proposals'[q].status = "accepted"
             /\ \A p \in ProposalIds :
                  proposals[p] # NoRow /\ proposals[p].squad = s
                    => proposals'[p].status # "pending"
<1> USE DEF TypeInv, TypeOK, Exists
<1>1. ASSUME NEW t \in SquadIds, NEW u \in Users,
             NEW p \in Properties \cup {NoProperty}, NEW m \in PaymentModels,
             CreateSquad(t, u, p, m)
      PROVE  FALSE
  BY <1>1 DEF CreateSquad, InsertSquad
<1>2. ASSUME NEW u \in Users, NEW t \in SquadIds, NEW accept \in BOOLEAN,
             RespondToInvite(u, t, accept)
      PROVE  FALSE
  <2>1. \A answer : Seated(squads[s], answer).property = squads[s].property
    BY RowTypes
  <2> QED BY <1>2, <2>1 DEF RespondToInvite, UpdateMemberStatus
<1>3. ASSUME squads' = squads PROVE FALSE
  BY <1>3
<1>4. PICK u \in Users, q \in ProposalIds, accept \in BOOLEAN :
        ResolveProposal(u, q, accept)
  BY <1>1, <1>2, <1>3
     DEF Next, Create, Invite, Respond, Propose, Resolve, Crash, vars, rows, seats,
         InviteRead, InviteCheck, InviteInsert, ProposeCheck, ProposeInsert,
         AbortInvite, AbortPropose
<1>5. accept /\ proposals[q].squad = s
  BY <1>4 DEF ResolveProposal, AcceptProposal, RejectProposal
<1>6. /\ proposals[q] \in Proposal
      /\ squads'[s] = Targeted(squads[s], proposals[q].property)
      /\ proposals' = RejectOthers(q)
  BY <1>4, <1>5 DEF ResolveProposal, AcceptProposal
<1>7. proposals[q].property = squads'[s].property
  BY <1>6, RowTypes DEF Proposal
<1>8. proposals[q].proposer \in joined[s]
  BY <1>4, <1>5 DEF ResolveProposal, OnlyMembersAct
<1>9. ASSUME NEW p \in ProposalIds, proposals[p] # NoRow, proposals[p].squad = s
      PROVE  /\ p = q => proposals'[p].status = "accepted"
             /\ proposals'[p].status # "pending"
  <2>1. proposals[p] \in Proposal
    BY <1>9
  <2>2. \A t : [proposals[p] EXCEPT !.status = t].status = t
    BY <2>1 DEF Proposal
  <2>3. \/ p = q /\ proposals'[p] = [proposals[p] EXCEPT !.status = "accepted"]
        \/ p # q /\ proposals'[p] = [proposals[p] EXCEPT !.status = "rejected"]
        \/ /\ p # q
           /\ proposals'[p] = proposals[p]
           /\ proposals[p].status # "pending"
    BY <1>5, <1>6, <1>9 DEF RejectOthers
  <2> QED BY <2>2, <2>3
<1> QED BY <1>4, <1>5, <1>7, <1>8, <1>9 DEF ResolveProposal

(* FR-4.4: the property of a squad changes only to that of a member's         *)
(* proposal, and every other proposal on the table is closed with it.         *)
THEOREM ChoicesCorrect == Spec => ChosenFromProposals
<1>1. ASSUME TypeInv, OnlyMembersAct, [Next]_vars
      PROVE  [\A s \in SquadIds :
                Exists(s) /\ squads'[s].property # squads[s].property =>
                  \E q \in ProposalIds :
                    /\ proposals[q] # NoRow
                    /\ proposals[q].squad = s
                    /\ proposals[q].property = squads'[s].property
                    /\ proposals[q].proposer \in joined[s]
                    /\ proposals'[q].status = "accepted"
                    /\ \A p \in ProposalIds :
                         proposals[p] # NoRow /\ proposals[p].squad = s
                           => proposals'[p].status # "pending"]_vars
  BY <1>1, ChoiceStep
<1>2. Spec => []TypeInv
  BY TypeCorrect, PTL DEF TypeInv
<1> QED BY <1>1, <1>2, ActorsCorrect, PTL DEF Spec, ChosenFromProposals

(* The step of ImplementsMembership: founding a squad, the insert of an        *)
(* invitation and an answer are steps of module Membership, and nothing else  *)
(* touches the members.                                                       *)
LEMMA MembershipStep ==
    TypeInv /\ OnlyMembersAct /\ [Next]_vars => [Membership!Next]_(Membership!seats)
<1> SUFFICES ASSUME TypeInv, OnlyMembersAct, [Next]_vars
             PROVE  Membership!Next \/ UNCHANGED seats
  BY DEF seats, Membership!seats
<1> USE DEF TypeInv, TypeOK, seats, Membership!seats
<1>1. ASSUME NEW s \in SquadIds, NEW u \in Users, NEW p \in Properties \cup {NoProperty},
             NEW m \in PaymentModels, CreateSquad(s, u, p, m)
      PROVE  Membership!Next
  <2>1. /\ ~Exists(s)
        /\ members' = [members EXCEPT ![s] =
             [v \in Users |-> IF v = u THEN "accepted" ELSE "none"]]
        /\ Observed
    BY <1>1 DEF CreateSquad, InsertSquad, NewSquad
  <2>2. members[s] = Membership!Nobody
    BY <2>1 DEF References, Membership!Nobody
  <2>3. [v \in Users |-> IF v = u THEN "accepted" ELSE "none"]
          = [members[s] EXCEPT ![u] = "accepted"]
    BY <2>2 DEF Membership!Nobody
  <2>4. Membership!Found(s, u)
    BY <2>1, <2>2, <2>3 DEF Membership!Found, Membership!Observed, Observed
  <2> QED BY <2>4 DEF Membership!Next
<1>2. ASSUME NEW w \in Inviters, InviteInsert(w)
      PROVE  Membership!Next \/ UNCHANGED seats
  <2> DEFINE i == inviting[w]
  <2>1. /\ i.stage = "insert" /\ i \in InviteRequest
        /\ i.squad \in SquadIds /\ i.sender \in Users /\ i.target \in Users
    BY <1>2 DEF InviteInsert, InviteRequest, Idle
  <2>2. joined[i.squad] # {} /\ UNCHANGED joined
    BY <1>2, <2>1 DEF InviteInsert, OnlyMembersAct
  <2>3. CASE AddMember(i.squad, i.target)
    <3>1. Membership!Ask(i.squad, i.target)
      BY <2>1, <2>2, <2>3 DEF AddMember, Membership!Ask
    <3> QED BY <2>1, <3>1 DEF Membership!Next
  <2> QED BY <1>2, <2>2, <2>3 DEF InviteInsert
<1>3. ASSUME NEW u \in Users, NEW s \in SquadIds, NEW accept \in BOOLEAN,
             RespondToInvite(u, s, accept)
      PROVE  Membership!Next \/ UNCHANGED seats
  <2>1. PICK answer \in {"accepted", "rejected"} : UpdateMemberStatus(s, u, answer)
    BY <1>3 DEF RespondToInvite
  <2>2. CASE members[s][u] = "none"
    <3>1. members' = [members EXCEPT ![s][u] = "none"]
      BY <2>1, <2>2 DEF UpdateMemberStatus, Answered
    <3>2. \A t \in SquadIds : Accepted(t)' \subseteq joined[t]
      BY <2>2, <3>1 DEF Accepted, References
    <3>3. joined' = joined
      BY <2>1, <3>2 DEF UpdateMemberStatus, Observed, Accepted
    <3> QED BY <2>2, <3>1, <3>3
  <2>3. CASE members[s][u] # "none"
    <3>1. Membership!Answer(s, u, answer)
      BY <2>1, <2>3 DEF UpdateMemberStatus, Answered, Membership!Answer,
                         Membership!Observed, Observed
    <3> QED BY <3>1 DEF Membership!Next
  <2> QED BY <2>2, <2>3
<1> QED BY <1>1, <1>2, <1>3
        DEF Next, Create, Invite, Respond, Propose, Resolve, Crash, vars, rows, seats,
            InviteRead, InviteCheck, ProposeCheck, ProposeInsert,
            ResolveProposal, AbortInvite, AbortPropose

(* Squads keep the promise of module Membership: every step is one of its     *)
(* steps or leaves the members alone.                                         *)
THEOREM MembershipCorrect == Spec => ImplementsMembership
<1>1. Init => Membership!Init
  BY DEF Init, Membership!Init, Membership!Nobody
<1>2. TypeInv /\ OnlyMembersAct /\ [Next]_vars => [Membership!Next]_(Membership!seats)
  BY MembershipStep
<1>3. Spec => []TypeInv
  BY TypeCorrect, PTL DEF TypeInv
<1> QED BY <1>1, <1>2, <1>3, ActorsCorrect, PTL
        DEF Spec, ImplementsMembership, Membership!Spec

-----------------------------------------------------------------------------
(* What makes the counter more than the members it counts (BR-12).            *)

(* How far a squad's counter is ahead of its accepted rows.                   *)
Drift(s) == squads[s].count - Cardinality(Accepted(s))

(* An answer that UpdateMemberStatus counts wrong: an acceptance by someone   *)
(* who has no row, or whose row is accepted already, and the rejection of     *)
(* someone whose acceptance was counted.                                      *)
Miscounts(s) ==
    \/ \E u \in Users : /\ RespondToInvite(u, s, TRUE)
                        /\ members[s][u] \in {"none", "accepted"}
    \/ \E u \in Users : /\ RespondToInvite(u, s, FALSE)
                        /\ members[s][u] = "accepted"

(* A squad is created with its counter right; from then on the counter stays  *)
(* as far ahead as it is, or gets one further ahead by a miscounted answer.   *)
DriftsOnlySo ==
    [][\A s \in SquadIds :
         Exists(s)' =>
           \/ ~Exists(s) /\ Drift(s)' = 0
           \/ Exists(s) /\ Drift(s)' = Drift(s)
           \/ Exists(s) /\ Drift(s)' = Drift(s) + 1 /\ Miscounts(s)]_vars

(* The accepted members after a row gets another value.                       *)
LEMMA Recount ==
    ASSUME TypeInv, NEW s \in SquadIds, NEW u \in Users, NEW m \in MemberStatus,
           members' = [members EXCEPT ![s][u] = m]
    PROVE  /\ Cardinality(Accepted(s)) \in Nat /\ Cardinality(Accepted(s))' \in Nat
           /\ m = "accepted" /\ members[s][u] # "accepted"
                => Cardinality(Accepted(s))' = Cardinality(Accepted(s)) + 1
           /\ m # "accepted" /\ members[s][u] = "accepted"
                => Cardinality(Accepted(s))' = Cardinality(Accepted(s)) - 1
           /\ (m = "accepted" <=> members[s][u] = "accepted")
                => Cardinality(Accepted(s))' = Cardinality(Accepted(s))
<1> USE DEF TypeInv, TypeOK
<1>1. IsFiniteSet(Accepted(s)) /\ IsFiniteSet(Accepted(s)')
  BY UsersAssumption, FS_Subset DEF Accepted
<1>2. /\ Cardinality(Accepted(s)) \in Nat /\ Cardinality(Accepted(s)') \in Nat
  BY <1>1, FS_CardinalityType
<1>3. ASSUME m = "accepted", members[s][u] # "accepted"
      PROVE  Cardinality(Accepted(s)') = Cardinality(Accepted(s)) + 1
  <2>1. Accepted(s)' = Accepted(s) \cup {u} /\ u \notin Accepted(s)
    BY <1>3 DEF Accepted
  <2> QED BY <1>1, <2>1, FS_AddElement
<1>4. ASSUME m # "accepted", members[s][u] = "accepted"
      PROVE  Cardinality(Accepted(s)') = Cardinality(Accepted(s)) - 1
  <2>1. Accepted(s)' = Accepted(s) \ {u} /\ u \in Accepted(s)
    BY <1>4 DEF Accepted
  <2> QED BY <1>1, <2>1, FS_RemoveElement
<1>5. ASSUME m = "accepted" <=> members[s][u] = "accepted"
      PROVE  Cardinality(Accepted(s)') = Cardinality(Accepted(s))
  <2>1. Accepted(s)' = Accepted(s)
    BY <1>5 DEF Accepted
  <2> QED BY <2>1
<1> QED BY <1>2, <1>3, <1>4, <1>5

(* The step of DriftsOnlySo.                                                  *)
LEMMA DriftStep ==
    ASSUME TypeInv, [Next]_vars, NEW s \in SquadIds, Exists(s)'
    PROVE  \/ ~Exists(s) /\ Drift(s)' = 0
           \/ Exists(s) /\ Drift(s)' = Drift(s)
           \/ Exists(s) /\ Drift(s)' = Drift(s) + 1 /\ Miscounts(s)
<1> DEFINE Goal == \/ ~Exists(s) /\ Drift(s)' = 0
                   \/ Exists(s) /\ Drift(s)' = Drift(s)
                   \/ Exists(s) /\ Drift(s)' = Drift(s) + 1 /\ Miscounts(s)
<1>0. Exists(s) => squads[s] \in Squad /\ squads[s].count \in Nat
  BY DEF TypeInv, TypeOK, Exists, Squad
<1>1. ASSUME NEW t \in SquadIds, NEW u \in Users,
             NEW p \in Properties \cup {NoProperty}, NEW m \in PaymentModels,
             CreateSquad(t, u, p, m)
      PROVE  Goal
  <2>1. CASE s = t
    <3>1. Accepted(s)' = {u} /\ squads'[s].count = 1 /\ ~Exists(s)
      BY <1>1, <2>1
         DEF CreateSquad, InsertSquad, NewSquad, Accepted, TypeInv, TypeOK
    <3>2. Drift(s)' = 0
      BY <3>1, FS_Singleton DEF Drift
    <3> QED BY <3>1, <3>2
  <2>2. CASE s # t
    <3>1. Accepted(s)' = Accepted(s) /\ squads'[s] = squads[s]
      BY <1>1, <2>2 DEF CreateSquad, InsertSquad, Accepted, TypeInv, TypeOK
    <3> QED BY <3>1 DEF Exists, Drift
  <2> QED BY <2>1, <2>2
<1>2. ASSUME NEW w \in Inviters, InviteInsert(w) PROVE Goal
  <2>1. squads' = squads
    BY <1>2 DEF InviteInsert
  <2>2. Accepted(s)' = Accepted(s)
    BY <1>2 DEF InviteInsert, AddMember, Accepted, TypeInv, TypeOK
  <2> QED BY <2>1, <2>2 DEF Exists, Drift
<1>3. ASSUME NEW u \in Users, NEW t \in SquadIds, NEW accept \in BOOLEAN,
             RespondToInvite(u, t, accept)
      PROVE  Goal
  <2>1. CASE s # t
    <3>1. Accepted(s)' = Accepted(s) /\ squads'[s] = squads[s]
      BY <1>3, <2>1
         DEF RespondToInvite, UpdateMemberStatus, Accepted, TypeInv, TypeOK
    <3> QED BY <3>1 DEF Exists, Drift
  <2>2. CASE s = t
    <3> DEFINE answer == IF accept THEN "accepted" ELSE "rejected"
               m      == Answered(members[s][u], answer)
    <3>1. /\ Exists(s) /\ members[s][u] \in MemberStatus
          /\ squads'[s] = Seated(squads[s], answer)
          /\ members' = [members EXCEPT ![s][u] = m]
      BY <1>3, <2>2 DEF RespondToInvite, UpdateMemberStatus, TypeInv, TypeOK
    <3>2. m \in MemberStatus
      BY <3>1 DEF Answered, MemberStatus
    <3>3. /\ accept => squads'[s].count = squads[s].count + 1
          /\ ~accept => squads'[s].count = squads[s].count
      BY <1>0, <3>1 DEF Seated, Squad
    <3>4. /\ members[s][u] = "none" => m = "none"
          /\ members[s][u] # "none" => m = answer
      BY DEF Answered
    <3>5. members[s][u] \in {"none", "invited", "accepted", "rejected"}
      BY <3>1 DEF MemberStatus
    <3> HIDE DEF m
    <3>6. /\ Cardinality(Accepted(s)) \in Nat /\ Cardinality(Accepted(s))' \in Nat
          /\ m = "accepted" /\ members[s][u] # "accepted"
               => Cardinality(Accepted(s))' = Cardinality(Accepted(s)) + 1
          /\ m # "accepted" /\ members[s][u] = "accepted"
               => Cardinality(Accepted(s))' = Cardinality(Accepted(s)) - 1
          /\ (m = "accepted" <=> members[s][u] = "accepted")
               => Cardinality(Accepted(s))' = Cardinality(Accepted(s))
      BY <3>1, <3>2, Recount
    <3>7. CASE accept /\ members[s][u] \in {"none", "accepted"}
      <4>1. Drift(s)' = Drift(s) + 1
        BY <1>0, <3>1, <3>3, <3>4, <3>6, <3>7 DEF Drift
      <4> QED BY <1>3, <2>2, <3>1, <3>7, <4>1 DEF Miscounts
    <3>8. CASE ~accept /\ members[s][u] = "accepted"
      <4>1. Drift(s)' = Drift(s) + 1
        BY <1>0, <3>1, <3>3, <3>4, <3>6, <3>8 DEF Drift
      <4> QED BY <1>3, <2>2, <3>1, <3>8, <4>1 DEF Miscounts
    <3>9. CASE accept /\ members[s][u] \in {"invited", "rejected"}
      BY <1>0, <3>1, <3>3, <3>4, <3>6, <3>9 DEF Drift
    <3>10. CASE ~accept /\ members[s][u] # "accepted"
      BY <1>0, <3>1, <3>3, <3>4, <3>6, <3>10 DEF Drift
    <3> QED BY <3>5, <3>7, <3>8, <3>9, <3>10
  <2> QED BY <2>1, <2>2
<1>4. ASSUME NEW u \in Users, NEW q \in ProposalIds, NEW accept \in BOOLEAN,
             ResolveProposal(u, q, accept)
      PROVE  Goal
  <2>1. Accepted(s)' = Accepted(s)
    BY <1>4 DEF ResolveProposal, seats, Accepted
  <2>2. Exists(s)
    BY <1>4 DEF ResolveProposal, AcceptProposal, RejectProposal, References,
                Exists, TypeInv, TypeOK
  <2>3. squads'[s].count = squads[s].count
    <3>1. \/ squads'[s] = squads[s]
          \/ squads'[s] = Targeted(squads[s], proposals[q].property)
      BY <1>0, <1>4, <2>2
         DEF ResolveProposal, AcceptProposal, RejectProposal, TypeInv, TypeOK
    <3> QED BY <1>0, <2>2, <3>1 DEF Targeted, Squad
  <2> QED BY <2>1, <2>2, <2>3 DEF Drift
<1>5. CASE UNCHANGED <<squads, members>>
  BY <1>5 DEF Exists, Drift, Accepted
<1> QED
  BY <1>1, <1>2, <1>3, <1>4, <1>5
     DEF Next, Create, Invite, Respond, Propose, Resolve, Crash, vars, rows, seats,
         InviteRead, InviteCheck, ProposeCheck, ProposeInsert,
         AbortInvite, AbortPropose

(* Run member_count shows that the counter is not the number of accepted      *)
(* rows; miscounted answers are all that sets the two apart, by one each, and *)
(* nothing ever brings them together again.                                   *)
THEOREM DriftsCorrect == Spec => DriftsOnlySo
<1>1. TypeInv /\ [Next]_vars =>
        [\A s \in SquadIds :
           Exists(s)' =>
             \/ ~Exists(s) /\ Drift(s)' = 0
             \/ Exists(s) /\ Drift(s)' = Drift(s)
             \/ Exists(s) /\ Drift(s)' = Drift(s) + 1 /\ Miscounts(s)]_vars
  BY DriftStep
<1>2. Spec => []TypeInv
  BY TypeCorrect, PTL DEF TypeInv
<1> QED BY <1>1, <1>2, PTL DEF Spec, DriftsOnlySo

(* What the service would have to refuse for BR-12 to hold.                   *)
AnswersCounted == [][\A s \in SquadIds : ~Miscounts(s)]_vars

(* BR-12 as documented, where only open invitations and earlier refusals are  *)
(* answered: then the counter is the number of accepted rows, in any          *)
(* interleaving of everything else.                                           *)
THEOREM CountCorrect == Spec /\ AnswersCounted => []CountIsAccepted
<1>1. Init => CountIsAccepted
  BY DEF Init, CountIsAccepted, Exists
<1>2. ASSUME TypeInv, CountIsAccepted, [Next]_vars,
             [\A s \in SquadIds : ~Miscounts(s)]_vars
      PROVE  CountIsAccepted'
  <2> SUFFICES ASSUME NEW s \in SquadIds, Exists(s)'
               PROVE  squads'[s].count = Cardinality(Accepted(s))'
    BY DEF CountIsAccepted
  <2>1. CASE UNCHANGED vars
    BY <1>2, <2>1 DEF vars, rows, CountIsAccepted, Exists, Accepted
  <2>2. CASE ~Miscounts(s)
    <3>1. \/ ~Exists(s) /\ Drift(s)' = 0
          \/ Exists(s) /\ Drift(s)' = Drift(s)
      BY <1>2, <2>2, DriftStep
    <3>2. /\ Cardinality(Accepted(s)) \in Nat /\ Cardinality(Accepted(s)') \in Nat
          /\ squads'[s].count \in Nat
          /\ Exists(s) => squads[s].count \in Nat
      <4>1. IsFiniteSet(Accepted(s)) /\ IsFiniteSet(Accepted(s)')
        BY UsersAssumption, FS_Subset DEF Accepted
      <4>2. TypeInv'
        BY <1>2, TypeStep
      <4> QED BY <1>2, <4>1, <4>2, FS_CardinalityType
              DEF TypeInv, TypeOK, Exists, Squad
    <3>3. Drift(s)' = squads'[s].count - Cardinality(Accepted(s)')
      BY DEF Drift
    <3>4. Exists(s) => Drift(s) = 0
      BY <1>2, <3>2 DEF CountIsAccepted, Drift
    <3> QED BY <3>1, <3>2, <3>3, <3>4
  <2> QED BY <1>2, <2>1, <2>2
<1>3. Spec => []TypeInv
  BY TypeCorrect, PTL DEF TypeInv
<1> QED BY <1>1, <1>2, <1>3, PTL DEF Spec, AnswersCounted
=============================================================================
