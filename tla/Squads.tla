------------------------------- MODULE Squads -------------------------------
(***************************************************************************)
(* Squads, their members and their property proposals.                     *)
(*                                                                         *)
(* The rows of squads, squad_members and squad_property_proposals are the   *)
(* state; every repository call is one atomic step on them, and a request   *)
(* handler that makes several calls is a record in `inviting` or            *)
(* `proposing` that moves from one call to the next, so other requests run  *)
(* between any two of its calls.                                            *)
(***************************************************************************)
EXTENDS Integers, FiniteSets

CONSTANTS
    Users,          \* ids of registered users
    Properties,     \* ids of listed properties
    SquadIds,       \* ids a squad row can get (bounds the number of squads)
    ProposalIds,    \* ids a proposal row can get (bounds their number)
    Inviters,       \* goroutines serving POST /squads/{id}/invite
    Proposers,      \* goroutines serving POST /squads/{id}/proposals
    PaymentModels,  \* the payment models clients ask for
    MaxSize,        \* squads.max_size of every row CreateSquad writes
    NoProperty,     \* NULL in squads.property_id
    NoRow,          \* the id has no row yet
    Fragile         \* workers that may die between two calls of a request

ASSUME UsersAssumption    == IsFiniteSet(Users)
ASSUME PropertyAssumption == NoProperty \notin Properties
ASSUME SizeAssumption     == MaxSize \in Nat /\ MaxSize >= 2
ASSUME ModelAssumption    == PaymentModels \subseteq {"leader_pays_all", "split_evenly"}

SquadStatus    == {"browsing", "forming", "locked", "moved_in"}
MemberStatus   == {"none", "invited", "accepted", "rejected"}
ProposalStatus == {"pending", "accepted", "rejected"}

Squad == [status: SquadStatus, property: Properties \cup {NoProperty},
          model: PaymentModels, count: Nat, creator: Users, total: Nat]
Proposal == [squad: SquadIds, proposer: Users, property: Properties,
             status: ProposalStatus]

\* A handler's local variables, and which call it makes next.
Idle == [stage |-> "idle"]
InviteRequest == [stage: {"read", "insert"}, sender: Users, squad: SquadIds,
                  target: Users, count: Nat]
ProposeRequest == [stage: {"insert"}, user: Users, squad: SquadIds,
                   property: Properties]

ASSUME NoRowAssumption == NoRow \notin Squad /\ NoRow \notin Proposal

VARIABLES
    squads,     \* squads[s]: the row of s, or NoRow
    members,    \* members[s][u]: status of u's squad_members row, or "none"
    proposals,  \* proposals[q]: the row of q, or NoRow
    inviting,   \* inviting[w]: the InviteMember call worker w is in, or Idle
    proposing,  \* proposing[w]: the ProposeProperty call worker w is in, or Idle
    joined      \* history: the users whose row in s has ever been "accepted";
                \* it observes `members` and no guard reads it

seats == <<members, joined>>
rows == <<squads, members, joined, proposals>>
requests == <<inviting, proposing>>
vars == <<squads, members, joined, proposals, inviting, proposing>>

Exists(s)   == squads[s] # NoRow
Accepted(s) == {u \in Users : members[s][u] = "accepted"}

\* What a statement on squad_members adds to the history.
Observed ==
    joined' = [s \in SquadIds |->
                 joined[s] \cup {u \in Users : members'[s][u] = "accepted"}]

Init ==
    /\ squads    = [s \in SquadIds |-> NoRow]
    /\ members   = [s \in SquadIds |-> [u \in Users |-> "none"]]
    /\ proposals = [q \in ProposalIds |-> NoRow]
    /\ inviting  = [w \in Inviters |-> Idle]
    /\ proposing = [w \in Proposers |-> Idle]
    /\ joined    = [s \in SquadIds |-> {}]

-----------------------------------------------------------------------------
(* The SQL statements of squad_repo.go and the constraints of the schema.   *)

\* Mutant: the schema without member_count_within_max.
RowAllowedNoCapacity(r) == r.status = "browsing" \/ r.property # NoProperty

\* CHECK constraints on a squads row; a statement that breaks one fails.
RowAllowed(r) ==
    /\ r.count <= MaxSize
    /\ r.status = "browsing" \/ r.property # NoProperty

\* The two INSERTs of CreateSquad, in one database transaction.
InsertSquad(s, r) ==
    /\ ~Exists(s)
    /\ RowAllowed(r)
    /\ squads'  = [squads EXCEPT ![s] = r]
    /\ members' = [members EXCEPT ![s] =
                     [u \in Users |-> IF u = r.creator THEN "accepted" ELSE "none"]]
    /\ Observed

\* Mutant: INSERT ... ON CONFLICT DO UPDATE.
UpsertMember(s, u) == members' = [members EXCEPT ![s][u] = "invited"]

\* INSERT into squad_members; UNIQUE (squad_id, user_id) admits one row a user.
AddMember(s, u) ==
    /\ members[s][u] = "none"
    /\ members' = [members EXCEPT ![s][u] = "invited"]

\* What UpdateMemberStatus makes of a user's row: no row, nothing to update.
Answered(old, answer) == IF old = "none" THEN "none" ELSE answer

\* The count after an answer, whether or not a row was updated.
Seated(r, answer) == IF answer = "accepted" THEN [r EXCEPT !.count = @ + 1] ELSE r

\* UpdateMemberStatus: the member's row and the counter, in one database
\* transaction that the CHECK on the counter rolls back as a whole.
UpdateMemberStatus(s, u, answer) ==
    LET row == Seated(squads[s], answer) IN
    /\ RowAllowed(row)
    /\ squads'  = [squads EXCEPT ![s] = row]
    /\ members' = [members EXCEPT ![s][u] = Answered(@, answer)]
    /\ Observed

\* Mutant: only the proposal's own row is updated.
AcceptOnly(q) == [proposals EXCEPT ![q].status = "accepted"]

\* The proposals table after proposal q is accepted: q, and every other
\* pending proposal of its squad (FR-4.4).
RejectOthers(q) ==
    [p \in ProposalIds |->
       IF p = q THEN [proposals[p] EXCEPT !.status = "accepted"]
       ELSE IF /\ proposals[p] # NoRow
               /\ proposals[p].squad = proposals[q].squad
               /\ proposals[p].status = "pending"
            THEN [proposals[p] EXCEPT !.status = "rejected"]
            ELSE proposals[p]]

\* Mutant: the proposal's status is bound where the squad's belongs.
TargetedByProposal(r, property) == [r EXCEPT !.status = "accepted", !.property = property]

\* The squad's row after proposal q is accepted.
Targeted(r, property) == [r EXCEPT !.status = "forming", !.property = property]

AcceptProposal(q) ==
    LET s == proposals[q].squad IN
    /\ proposals' = RejectOthers(q)
    /\ squads' = [squads EXCEPT ![s] = Targeted(@, proposals[q].property)]

\* Mutant: a rejection sends the squad back to browsing.
RejectAndReopen(q) ==
    /\ proposals' = [proposals EXCEPT ![q].status = "rejected"]
    /\ squads' = [squads EXCEPT ![proposals[q].squad].status = "browsing",
                                ![proposals[q].squad].property = NoProperty]

RejectProposal(q) ==
    /\ proposals' = [proposals EXCEPT ![q].status = "rejected"]
    /\ UNCHANGED squads

-----------------------------------------------------------------------------
(* The requests.                                                            *)

\* Mutant: the status is not raised when a property is given.
NewSquadBrowsing(u, p, m) ==
    [status |-> "browsing", property |-> p, model |-> m, count |-> 1,
     creator |-> u, total |-> 0]

\* The row CreateSquad writes.
NewSquad(u, p, m) ==
    [status |-> IF p = NoProperty THEN "browsing" ELSE "forming",
     property |-> p, model |-> m, count |-> 1, creator |-> u, total |-> 0]

\* POST /squads
CreateSquad(s, u, p, m) ==
    /\ InsertSquad(s, NewSquad(u, p, m))
    /\ UNCHANGED <<proposals, requests>>

\* POST /squads/{id}/invite, first call: GetSquadByID.
InviteRead(w, u, s, v) ==
    /\ inviting[w] = Idle
    /\ Exists(s)
    /\ inviting' = [inviting EXCEPT ![w] =
         [stage |-> "read", sender |-> u, squad |-> s, target |-> v,
          count |-> squads[s].count]]
    /\ UNCHANGED <<rows, proposing>>

\* Mutant: any row of the sender will do.
MayInviteIfListed(i) ==
    /\ members[i.squad][i.sender] # "none"
    /\ members[i.squad][i.target] \notin {"invited", "accepted"}
    /\ i.count < MaxSize

\* What InviteMember asks of the members it reads and of the row it read before.
MayInvite(i) ==
    /\ members[i.squad][i.sender] = "accepted"
    /\ members[i.squad][i.target] \notin {"invited", "accepted"}
    /\ i.count < MaxSize

\* Second call: GetMembers, then the checks on what both calls returned.
InviteCheck(w) ==
    /\ inviting[w].stage = "read"
    /\ inviting' = [inviting EXCEPT ![w] =
         IF MayInvite(@) THEN [@ EXCEPT !.stage = "insert"] ELSE Idle]
    /\ UNCHANGED <<rows, proposing>>

\* Third call: AddMember; a second row for the same user is refused.
InviteInsert(w) ==
    LET i == inviting[w] IN
    /\ i.stage = "insert"
    /\ inviting' = [inviting EXCEPT ![w] = Idle]
    /\ \/ AddMember(i.squad, i.target)
       \/ members[i.squad][i.target] # "none" /\ UNCHANGED members
    /\ UNCHANGED <<squads, joined, proposals, proposing>>

\* POST /squads/{id}/respond: one transaction, no check of the member's row.
RespondToInvite(u, s, accept) ==
    /\ Exists(s)
    /\ UpdateMemberStatus(s, u, IF accept THEN "accepted" ELSE "rejected")
    /\ UNCHANGED <<proposals, requests>>

\* POST /squads/{id}/proposals, first call: GetMembers and the check on it.
ProposeCheck(w, u, s, p) ==
    /\ proposing[w] = Idle
    /\ members[s][u] = "accepted"
    /\ proposing' = [proposing EXCEPT ![w] =
         [stage |-> "insert", user |-> u, squad |-> s, property |-> p]]
    /\ UNCHANGED <<rows, inviting>>

\* Second call: CreateProposal.
ProposeInsert(w, q) ==
    LET r == proposing[w] IN
    /\ r.stage = "insert"
    /\ proposals[q] = NoRow
    /\ proposals' = [proposals EXCEPT ![q] =
         [squad |-> r.squad, proposer |-> r.user, property |-> r.property,
          status |-> "pending"]]
    /\ proposing' = [proposing EXCEPT ![w] = Idle]
    /\ UNCHANGED <<squads, seats, inviting>>

\* POST /squads/proposals/{id}/resolve by user u: one transaction that asks
\* neither who u is nor whether q is still pending.
ResolveProposal(u, q, accept) ==
    /\ proposals[q] # NoRow
    /\ IF accept THEN AcceptProposal(q) ELSE RejectProposal(q)
    /\ UNCHANGED <<seats, requests>>

\* The client goes away, or the process dies: the calls left are never made.
AbortInvite(w) ==
    /\ w \in Fragile
    /\ inviting[w] # Idle
    /\ inviting' = [inviting EXCEPT ![w] = Idle]
    /\ UNCHANGED <<rows, proposing>>

AbortPropose(w) ==
    /\ w \in Fragile
    /\ proposing[w] # Idle
    /\ proposing' = [proposing EXCEPT ![w] = Idle]
    /\ UNCHANGED <<rows, inviting>>

Create  == \E s \in SquadIds, u \in Users, p \in Properties \cup {NoProperty},
              m \in PaymentModels : CreateSquad(s, u, p, m)
Invite  == \E w \in Inviters : \/ \E u, v \in Users, s \in SquadIds : InviteRead(w, u, s, v)
                              \/ InviteCheck(w)
                              \/ InviteInsert(w)
Respond == \E u \in Users, s \in SquadIds, accept \in BOOLEAN :
              RespondToInvite(u, s, accept)
Propose == \E w \in Proposers :
              \/ \E u \in Users, s \in SquadIds, p \in Properties : ProposeCheck(w, u, s, p)
              \/ \E q \in ProposalIds : ProposeInsert(w, q)
Resolve == \E u \in Users, q \in ProposalIds, accept \in BOOLEAN :
              ResolveProposal(u, q, accept)
Crash   == \/ \E w \in Inviters : AbortInvite(w)
           \/ \E w \in Proposers : AbortPropose(w)

Next == Create \/ Invite \/ Respond \/ Propose \/ Resolve \/ Crash

Spec == Init /\ [][Next]_vars

-----------------------------------------------------------------------------
(* Properties.                                                              *)

\* Rows and requests have the fields and the values the code gives them.
TypeOK ==
    /\ squads \in [SquadIds -> Squad \cup {NoRow}]
    /\ members \in [SquadIds -> [Users -> MemberStatus]]
    /\ proposals \in [ProposalIds -> Proposal \cup {NoRow}]
    /\ inviting \in [Inviters -> InviteRequest \cup {Idle}]
    /\ proposing \in [Proposers -> ProposeRequest \cup {Idle}]
    /\ joined \in [SquadIds -> SUBSET Users]

\* BR-05: however many invitations are read, checked, inserted and answered at
\* once (and answered twice), a squad never has more accepted members than the
\* counter the capacity checks read, nor more than its capacity.
SizeBound ==
    \A s \in SquadIds : Exists(s) =>
        /\ Cardinality(Accepted(s)) <= squads[s].count
        /\ squads[s].count <= MaxSize

\* BR-08: a squad has no property exactly while it is browsing.
PropertyUnlessBrowsing ==
    \A s \in SquadIds : Exists(s) =>
        (squads[s].status = "browsing" <=> squads[s].property = NoProperty)

\* Whoever has a request past its membership check, or a proposal on the table,
\* was once an accepted member of that squad. Whether they still are is not
\* asked again: the check and the insert are two calls, and a member may reject
\* in between.
OnlyMembersAct ==
    /\ \A w \in Inviters : inviting[w].stage = "insert"
         => inviting[w].sender \in joined[inviting[w].squad]
    /\ \A w \in Proposers : proposing[w].stage = "insert"
         => proposing[w].user \in joined[proposing[w].squad]
    /\ \A q \in ProposalIds : proposals[q] # NoRow
         => proposals[q].proposer \in joined[proposals[q].squad]

\* An answer, "accepted" or "rejected", is never turned back into an
\* invitation, not by an invitation whose check ran before the answer and whose
\* insert runs after it.
HasAnswered(s, u) == members[s][u] \in {"accepted", "rejected"}

AnswerStands ==
    [][\A s \in SquadIds, u \in Users :
         HasAnswered(s, u) => members'[s][u] \in {"accepted", "rejected"}]_vars

\* FR-4.4: the property of an existing squad changes only to the property of a
\* proposal that is accepted in the same step, made in that squad by someone
\* who was once its accepted member, and no proposal of the squad stays pending.
ChosenFromProposals ==
    [][\A s \in SquadIds :
         Exists(s) /\ squads'[s].property # squads[s].property =>
           \E q \in ProposalIds :
             /\ proposals[q] # NoRow
             /\ proposals[q].squad = s
             /\ proposals[q].property = squads'[s].property
             /\ proposals[q].proposer \in joined[s]
             /\ proposals'[q].status = "accepted"
             /\ \A p \in ProposalIds :
                  proposals[p] # NoRow /\ proposals[p].squad = s
                    => proposals'[p].status # "pending"]_vars

\* Squads keep the promise of module Membership: the members change only by
\* founding a squad, being invited once when somebody has been an accepted
\* member of it, and answering.
Membership == INSTANCE Membership

ImplementsMembership == Membership!Spec

\* BR-12 as documented: the counter is the number of accepted rows.
CountIsAccepted ==
    \A s \in SquadIds : Exists(s) =>
        squads[s].count = Cardinality(Accepted(s))

\* BR-13 as documented: only the squad's leader resolves a proposal.
LeaderDecides ==
    [][\A u \in Users, q \in ProposalIds, accept \in BOOLEAN :
         ResolveProposal(u, q, accept)
           => u = squads[proposals[q].squad].creator]_vars
=============================================================================
