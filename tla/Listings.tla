------------------------------ MODULE Listings ------------------------------
(***************************************************************************)
(* Landlord KYC, property listings and their verifications.                 *)
(*                                                                         *)
(* The rows of landlord_kyc, properties and verifications are the state;    *)
(* every repository call is one atomic statement on them. A handler that    *)
(* makes several calls is a record in `request` that moves from one call to *)
(* the next, so other requests run between any two of its calls. What a     *)
(* request read and no statement ever changes (the role of a user, the      *)
(* property and the kind of a verification) is no step of its own.          *)
(***************************************************************************)
EXTENDS Naturals

CONSTANTS
    Users,          \* ids of registered users
    Landlords,      \* those whose role is landlord
    Properties,     \* ids a properties row can get (bounds their number)
    Checks,         \* ids a verifications row can get (bounds their number)
    Kinds,          \* the kinds of verification admins open
    Workers,        \* goroutines serving these routes
    NoRow,          \* the id has no row yet
    CutOff          \* the calls before which a request may be cut off

ASSUME LandlordAssumption == Landlords \subseteq Users
ASSUME KindAssumption ==
    Kinds \subseteq {"ai_photo", "manual", "virtual_tour", "physical"}

\* `stamped`: verified_at is set, and for a KYC row both document flags are.
KYC == [status: {"pending", "verified", "rejected"}, stamped: BOOLEAN]
Property == [owner: Users, status: {"draft", "pending_verification", "verified"}]
Verification == [property: Properties, kind: Kinds,
                 status: {"pending", "approved", "rejected"}, stamped: BOOLEAN]

\* What a request still has to do, and what it remembers for it.
Idle == [stage |-> "idle"]
SubmitRequest   == [stage: {"submit"}, user: Users]
DecideRequest   == [stage: {"decide"}, user: Users, answer: {"verified", "rejected"}]
CreateRequest   == [stage: {"create"}, user: Users]
InitiateRequest == [stage: {"move", "open"}, property: Properties, kind: Kinds]
ReviewRequest   == [stage: {"gather", "promote"}, property: Properties]
Request == SubmitRequest \cup DecideRequest \cup CreateRequest
             \cup InitiateRequest \cup ReviewRequest

ASSUME NoListingRowAssumption ==
    /\ NoRow \notin KYC
    /\ NoRow \notin Property
    /\ NoRow \notin Verification
    /\ NoRow \notin Users

VARIABLES
    kyc,            \* kyc[u]: the landlord_kyc row of user u, or NoRow
    properties,     \* properties[p]: the row of p, or NoRow
    verifications,  \* verifications[v]: the row of v, or NoRow
    request         \* request[w]: the request goroutine w is serving, or Idle

vars == <<kyc, properties, verifications, request>>

Init ==
    /\ kyc           = [u \in Users |-> NoRow]
    /\ properties    = [p \in Properties |-> NoRow]
    /\ verifications = [v \in Checks |-> NoRow]
    /\ request       = [w \in Workers |-> Idle]

\* Worker w goes on to what r says.
Goes(w, r) == request' = [request EXCEPT ![w] = r]

Vetted(u) == kyc[u] # NoRow /\ kyc[u].stamped

-----------------------------------------------------------------------------
(* POST /kyc and PUT /admin/kyc/{id}/review                                 *)

MaySubmit(u) == u \in Landlords /\ kyc[u] = NoRow

\* SubmitKYC up to the check on what GetKYCByUserID returned.
SubmitCheck(w, u) ==
    /\ request[w] = Idle
    /\ MaySubmit(u)
    /\ Goes(w, [stage |-> "submit", user |-> u])
    /\ UNCHANGED <<kyc, properties, verifications>>

NewKYC == [status |-> "pending", stamped |-> FALSE]

\* Mutant: INSERT ... ON CONFLICT DO UPDATE.
UpsertKYC(u) == kyc' = [kyc EXCEPT ![u] = NewKYC]

\* CreateKYC; UNIQUE (user_id) refuses a second row.
InsertKYC(u) ==
    \/ kyc[u] = NoRow /\ kyc' = [kyc EXCEPT ![u] = NewKYC]
    \/ kyc[u] # NoRow /\ UNCHANGED kyc

SubmitInsert(w) ==
    /\ request[w].stage = "submit"
    /\ InsertKYC(request[w].user)
    /\ Goes(w, Idle)
    /\ UNCHANGED <<properties, verifications>>

\* ReviewKYC up to the check on what GetKYCByID returned.
DecideCheck(w, u, answer) ==
    /\ request[w] = Idle
    /\ kyc[u] # NoRow
    /\ kyc[u].status = "pending"
    /\ Goes(w, [stage |-> "decide", user |-> u, answer |-> answer])
    /\ UNCHANGED <<kyc, properties, verifications>>

\* Mutant: the status of an approved verification is written.
DecidedAsCheck(r, answer) ==
    [status |-> IF answer = "verified" THEN "approved" ELSE answer,
     stamped |-> r.stamped \/ answer = "verified"]

\* A KYC row after UpdateStatus: only an approval touches date and flags.
Decided(r, answer) ==
    [status |-> answer, stamped |-> r.stamped \/ answer = "verified"]

\* UpdateStatus does not ask whether the row is still pending.
DecideWrite(w) ==
    LET d == request[w] IN
    /\ d.stage = "decide"
    /\ kyc' = [kyc EXCEPT ![d.user] = Decided(@, d.answer)]
    /\ Goes(w, Idle)
    /\ UNCHANGED <<properties, verifications>>

-----------------------------------------------------------------------------
(* POST /properties                                                         *)

\* Mutant: any submission will do.
MayListOnceSubmitted(u) == kyc[u] # NoRow

MayList(u) == kyc[u] # NoRow /\ kyc[u].status = "verified"

\* CreateProperty up to the check on what GetKYCByUserID returned.
CreateCheck(w, u) ==
    /\ request[w] = Idle
    /\ MayList(u)
    /\ Goes(w, [stage |-> "create", user |-> u])
    /\ UNCHANGED <<kyc, properties, verifications>>

CreateInsert(w, p) ==
    /\ request[w].stage = "create"
    /\ properties[p] = NoRow
    /\ properties' = [properties EXCEPT ![p] =
         [owner |-> request[w].user, status |-> "draft"]]
    /\ Goes(w, Idle)
    /\ UNCHANGED <<kyc, verifications>>

\* PropertyRepo.UpdateStatus: whatever the status was.
SetStatus(p, status) == properties' = [properties EXCEPT ![p].status = status]

-----------------------------------------------------------------------------
(* POST /admin/properties/{id}/verifications                                *)

\* Mutant: the property's status is left as it is.
FirstCallOpen(status) == "open"

\* A draft is moved on before its verification is opened.
FirstCall(status) == IF status = "draft" THEN "move" ELSE "open"

\* InitiateVerification up to the checks on what GetPropertyByID returned.
InitiateRead(w, p, kind) ==
    /\ request[w] = Idle
    /\ properties[p] # NoRow
    /\ properties[p].status # "verified"
    /\ Goes(w, [stage |-> FirstCall(properties[p].status), property |-> p,
                kind |-> kind])
    /\ UNCHANGED <<kyc, properties, verifications>>

InitiateMove(w) ==
    /\ request[w].stage = "move"
    /\ SetStatus(request[w].property, "pending_verification")
    /\ Goes(w, [request[w] EXCEPT !.stage = "open"])
    /\ UNCHANGED <<kyc, verifications>>

\* CreateVerification.
InitiateOpen(w, v) ==
    LET i == request[w] IN
    /\ i.stage = "open"
    /\ verifications[v] = NoRow
    /\ verifications' = [verifications EXCEPT ![v] =
         [property |-> i.property, kind |-> i.kind, status |-> "pending",
          stamped |-> FALSE]]
    /\ Goes(w, Idle)
    /\ UNCHANGED <<kyc, properties>>

-----------------------------------------------------------------------------
(* PUT /admin/verifications/{id}                                            *)

\* A verifications row after UpdateVerification.
Reviewed(r, answer) ==
    [r EXCEPT !.status = answer, !.stamped = @ \/ answer = "approved"]

\* ReviewVerification up to UpdateVerification, whatever the status was.
ReviewWrite(w, v, answer) ==
    /\ request[w] = Idle
    /\ verifications[v] # NoRow
    /\ verifications' = [verifications EXCEPT ![v] = Reviewed(@, answer)]
    /\ Goes(w, IF answer = "approved"
               THEN [stage |-> "gather", property |-> verifications[v].property]
               ELSE Idle)
    /\ UNCHANGED <<kyc, properties>>

Photo == {"ai_photo"}
Visit == {"manual", "virtual_tour"}

Approved(p, kinds) ==
    \E v \in Checks : /\ verifications[v] # NoRow
                      /\ verifications[v].property = p
                      /\ verifications[v].kind \in kinds
                      /\ verifications[v].status = "approved"

\* Mutant: one approval of either kind is enough.
EitherApproved(p) == Approved(p, Photo) \/ Approved(p, Visit)

\* Mutant: only a manual visit counts.
BothManual(p) == Approved(p, Photo) /\ Approved(p, {"manual"})

BothApproved(p) == Approved(p, Photo) /\ Approved(p, Visit)

\* checkAndPromoteProperty, first call: GetVerificationsByProperty.
ReviewGather(w) ==
    LET p == request[w].property IN
    /\ request[w].stage = "gather"
    /\ Goes(w, IF BothApproved(p) THEN [stage |-> "promote", property |-> p] ELSE Idle)
    /\ UNCHANGED <<kyc, properties, verifications>>

\* Second call: UpdateStatus(verified).
ReviewPromote(w) ==
    /\ request[w].stage = "promote"
    /\ SetStatus(request[w].property, "verified")
    /\ Goes(w, Idle)
    /\ UNCHANGED <<kyc, verifications>>

-----------------------------------------------------------------------------
\* The client goes away, a call fails or the process dies: the calls left are
\* never made.
Abort(w) ==
    /\ request[w].stage \in CutOff
    /\ Goes(w, Idle)
    /\ UNCHANGED <<kyc, properties, verifications>>

SubmitKYC(w) == (\E u \in Users : SubmitCheck(w, u)) \/ SubmitInsert(w)
ReviewKYC(w) ==
    \/ \E u \in Users, answer \in {"verified", "rejected"} : DecideCheck(w, u, answer)
    \/ DecideWrite(w)
CreateProperty(w) ==
    \/ \E u \in Users : CreateCheck(w, u)
    \/ \E p \in Properties : CreateInsert(w, p)
InitiateVerification(w) ==
    \/ \E p \in Properties, kind \in Kinds : InitiateRead(w, p, kind)
    \/ InitiateMove(w)
    \/ \E v \in Checks : InitiateOpen(w, v)
ReviewVerification(w) ==
    \/ \E v \in Checks, answer \in {"approved", "rejected"} : ReviewWrite(w, v, answer)
    \/ ReviewGather(w)
    \/ ReviewPromote(w)

Next == \E w \in Workers : \/ SubmitKYC(w)
                           \/ ReviewKYC(w)
                           \/ CreateProperty(w)
                           \/ InitiateVerification(w)
                           \/ ReviewVerification(w)
                           \/ Abort(w)

Spec == Init /\ [][Next]_vars

\* A review that has written its answer makes its next call.
FairSpec ==
    /\ Spec
    /\ \A w \in Workers : WF_vars(ReviewGather(w)) /\ WF_vars(ReviewPromote(w))

-----------------------------------------------------------------------------
(* Properties.                                                              *)

\* Rows and requests have the fields and the values the code gives them.
TypeOK ==
    /\ kyc \in [Users -> KYC \cup {NoRow}]
    /\ properties \in [Properties -> Property \cup {NoRow}]
    /\ verifications \in [Checks -> Verification \cup {NoRow}]
    /\ request \in [Workers -> Request \cup {Idle}]

\* A verification of one of the kinds was approved at some time; a later
\* rejection leaves its date.
Passed(p, kinds) ==
    \E v \in Checks : /\ verifications[v] # NoRow
                      /\ verifications[v].property = p
                      /\ verifications[v].kind \in kinds
                      /\ verifications[v].stamped

Verified(p) == properties[p] # NoRow /\ properties[p].status = "verified"

\* BR-04: whatever reviews and initiations run side by side and are cut off, a
\* property is verified, or about to be written so, only after a photo check
\* and a visit of it were both approved.
VerifiedBacked ==
    /\ \A p \in Properties : Verified(p) => Passed(p, Photo) /\ Passed(p, Visit)
    /\ \A w \in Workers : request[w].stage = "promote" =>
         /\ Passed(request[w].property, Photo)
         /\ Passed(request[w].property, Visit)

\* BR-07: the owner of a property is a landlord whose KYC was approved before
\* the listing was inserted, though the check and the insert are two calls and
\* a second review may reject the landlord in between.
ListedVetted ==
    /\ \A p \in Properties : properties[p] # NoRow =>
         properties[p].owner \in Landlords /\ Vetted(properties[p].owner)
    /\ \A w \in Workers : request[w].stage = "create" =>
         request[w].user \in Landlords /\ Vetted(request[w].user)

\* A property with a verification is no draft any more: initiations that race
\* each other and the reviews never open a check on a draft or fall back to one.
ChecksBegun ==
    \A v \in Checks : verifications[v] # NoRow =>
        /\ properties[verifications[v].property] # NoRow
        /\ properties[verifications[v].property].status # "draft"

\* A decided submission never waits for a decision again, not by a second
\* submission that passed its check before the first was inserted, and the date
\* of an approval stays when another admin's rejection overwrites it.
DecisionStands ==
    [][\A u \in Users : kyc[u] # NoRow =>
         /\ kyc'[u] # NoRow
         /\ kyc[u].status # "pending" => kyc'[u].status # "pending"
         /\ kyc[u].stamped => kyc'[u].stamped]_vars

\* A property that has both approvals is promoted at some time unless one of
\* its verifications is rejected: of two approvals that run side by side, the
\* one that lists the verifications last sees both.
PromotedInTheEnd ==
    \A p \in Properties :
        <>(Approved(p, Photo) /\ Approved(p, Visit)) =>
          <>(Verified(p) \/ \E v \in Checks : /\ verifications[v] # NoRow
                                              /\ verifications[v].property = p
                                              /\ verifications[v].status = "rejected")

\* BR-03 as documented: a property's status only moves forward.
Rank(status) == CASE status = "draft" -> 0
                  [] status = "pending_verification" -> 1
                  [] status = "verified" -> 2

ForwardOnly ==
    [][\A p \in Properties : properties[p] # NoRow =>
         Rank(properties'[p].status) >= Rank(properties[p].status)]_vars

\* Listings keep the promise of module Badge: landlords whose KYC has a date
\* are cleared, kinds of which a verification has a date are passed, and the
\* badge is the status verified.
ClearedLandlords == {u \in Landlords : Vetted(u)}
ListedBy == [p \in Properties |->
               IF properties[p] = NoRow THEN NoRow ELSE properties[p].owner]
PassedKinds == [p \in Properties |-> {k \in Kinds : Passed(p, {k})}]
Badges == {p \in Properties : Verified(p)}

Promise == INSTANCE Badge WITH
    Homes <- Properties, Checks <- Kinds, PhotoChecks <- Photo,
    VisitChecks <- Visit, Nobody <- NoRow, cleared <- ClearedLandlords,
    listedBy <- ListedBy, passed <- PassedKinds, badge <- Badges

ImplementsBadge == Promise!Spec
=============================================================================
