---------------------------- MODULE ReviewsProofs ----------------------------
(***************************************************************************)
(* More proofs about module Listings: what takes the badge of a property    *)
(* back, what makes an approved property go without, and what would have to *)
(* be kept apart for neither to happen. The properties are stated here,     *)
(* next to their theorems.                                                  *)
(***************************************************************************)
EXTENDS ListingsProofs

(* An initiation that writes pending_verification over verified: the property *)
(* was a draft when the request read it.                                      *)
StaleMove(p) ==
    \E w \in Workers : InitiateMove(w) /\ request[w].property = p /\ Verified(p)

(* The two statements that write a property's status.                         *)
LEMMA StatusWrites ==
    ASSUME TypeInv, [Next]_vars, NEW p \in Properties, properties[p] # NoRow,
           properties'[p].status # properties[p].status
    PROVE  \/ /\ properties'[p].status = "pending_verification"
              /\ \E w \in Workers : InitiateMove(w) /\ request[w].property = p
           \/ /\ properties'[p].status = "verified"
              /\ \E w \in Workers : /\ request[w].stage = "promote"
                                    /\ request[w].property = p
<1> USE DEF TypeInv
<1>1. ASSUME NEW w \in Workers, NEW q \in Properties, CreateInsert(w, q) PROVE FALSE
  BY <1>1 DEF CreateInsert, TypeOK
<1>2. ASSUME NEW w \in Workers, InitiateMove(w)
      PROVE  /\ properties'[p].status = "pending_verification"
             /\ request[w].property = p
  <2>1. /\ request[w].property \in Properties
        /\ properties[request[w].property] # NoRow
        /\ SetStatus(request[w].property, "pending_verification")
    BY <1>2, Stages DEF InitiateMove, InitiateRequest, Linked
  <2> QED BY <2>1, SettingStatus
<1>3. ASSUME NEW w \in Workers, ReviewPromote(w)
      PROVE  /\ properties'[p].status = "verified"
             /\ request[w].stage = "promote" /\ request[w].property = p
  <2>1. /\ request[w].property \in Properties
        /\ properties[request[w].property] # NoRow
        /\ SetStatus(request[w].property, "verified")
        /\ request[w].stage = "promote"
    BY <1>3, Stages DEF ReviewPromote, ReviewRequest, Linked
  <2> QED BY <2>1, SettingStatus
<1> QED
  BY <1>1, <1>2, <1>3
     DEF Next, vars, SubmitKYC, ReviewKYC, CreateProperty, InitiateVerification,
         ReviewVerification, SubmitCheck, SubmitInsert, DecideCheck, DecideWrite,
         CreateCheck, InitiateRead, InitiateOpen, ReviewWrite, ReviewGather, Abort

LEMMA Ranks ==
    Rank("draft") = 0 /\ Rank("pending_verification") = 1 /\ Rank("verified") = 2
  BY DEF Rank

-----------------------------------------------------------------------------
(* What takes a status back (BR-03).                                          *)

(* BR-03 says a property's status only moves forward. It moves back in one    *)
(* way: an initiation that read a draft moves the property after it was       *)
(* verified, back to pending and never back to a draft.                       *)
FallsOnlyByMove ==
    [][\A p \in Properties :
         properties[p] # NoRow /\ Rank(properties'[p].status) < Rank(properties[p].status)
           => StaleMove(p) /\ properties'[p].status = "pending_verification"]_vars

LEMMA FallStep ==
    ASSUME TypeInv, [Next]_vars, NEW p \in Properties, properties[p] # NoRow,
           Rank(properties'[p].status) < Rank(properties[p].status)
    PROVE  StaleMove(p) /\ properties'[p].status = "pending_verification"
<1>1. properties[p].status \in {"draft", "pending_verification", "verified"}
  BY DEF TypeInv, TypeOK, Property
<1>2. properties'[p].status # properties[p].status
  BY <1>1, Ranks
<1>3. properties'[p].status # "verified"
  BY <1>1, Ranks
<1>4. properties'[p].status = "pending_verification" => properties[p].status = "verified"
  BY <1>1, Ranks
<1> QED BY <1>2, <1>3, <1>4, StatusWrites DEF StaleMove, Verified

(* Run forward_only shows that the status falls; this is all that makes it    *)
(* fall, whatever else runs and is cut off.                                   *)
THEOREM FallsCorrect == Spec => FallsOnlyByMove
<1>1. TypeInv /\ [Next]_vars =>
        [\A p \in Properties :
           properties[p] # NoRow /\ Rank(properties'[p].status) < Rank(properties[p].status)
             => StaleMove(p) /\ properties'[p].status = "pending_verification"]_vars
  BY FallStep
<1> QED BY <1>1, TypeCorrect, PTL DEF Spec, FallsOnlyByMove

-----------------------------------------------------------------------------
(* What keeps the status from falling.                                        *)

(* Of one property no two initiations are between their read of a draft and   *)
(* the write of its status, as a lock on the row would have it. Reviews,      *)
(* submissions and openings of verifications still run as they like.          *)
OneMove ==
    \A w, x \in Workers :
        /\ request[w].stage = "move" /\ request[x].stage = "move"
        /\ request[w].property = request[x].property
        => w = x

(* Then a request about to move a property still finds it a draft.            *)
MovesDraft ==
    \A w \in Workers : request[w].stage = "move" =>
        properties[request[w].property].status = "draft"

(* No verification of a draft has passed: none was ever opened.               *)
LEMMA DraftUnpromoted ==
    ASSUME TypeInv, ChecksBegun, VerifiedBacked, NEW w \in Workers,
           request[w].stage = "promote"
    PROVE  properties[request[w].property].status # "draft"
<1>1. Passed(request[w].property, Photo)
  BY DEF VerifiedBacked
<1>2. PICK v \in Checks : /\ verifications[v] # NoRow
                          /\ verifications[v].property = request[w].property
  BY <1>1 DEF Passed
<1> QED BY <1>2 DEF ChecksBegun

(* A request comes to the move only by the read of a draft.                   *)
LEMMA MoveReads ==
    ASSUME TypeInv, [Next]_vars, NEW w \in Workers, request'[w].stage = "move",
           request'[w] # request[w]
    PROVE  /\ properties[request'[w].property].status = "draft"
           /\ properties' = properties
<1> USE DEF TypeInv, TypeOK, Goes
<1>1. ASSUME NEW x \in Workers, NEW p \in Properties, NEW kind \in Kinds,
             InitiateRead(x, p, kind)
      PROVE  /\ properties[request'[w].property].status = "draft"
             /\ properties' = properties
  BY <1>1 DEF InitiateRead, FirstCall
<1>2. ASSUME NEW x \in Workers, InitiateMove(x) PROVE FALSE
  <2>1. request[x] \in InitiateRequest
    BY <1>2, Stages DEF InitiateMove
  <2>2. [request[x] EXCEPT !.stage = "open"].stage = "open"
    BY <2>1 DEF InitiateRequest
  <2> QED BY <1>2, <2>2 DEF InitiateMove
<1>3. ASSUME NEW x \in Workers, Goes(x, Idle) PROVE FALSE
  BY <1>3 DEF Idle
<1>4. ASSUME NEW x \in Workers, NEW v \in Checks, NEW answer, ReviewWrite(x, v, answer)
      PROVE  FALSE
  BY <1>4 DEF ReviewWrite, Idle
<1>5. ASSUME NEW x \in Workers, ReviewGather(x) PROVE FALSE
  BY <1>5 DEF ReviewGather, Idle
<1> QED
  BY <1>1, <1>2, <1>3, <1>4, <1>5
     DEF Next, vars, SubmitKYC, ReviewKYC, CreateProperty, InitiateVerification,
         ReviewVerification, SubmitCheck, SubmitInsert, DecideCheck, DecideWrite,
         CreateCheck, CreateInsert, InitiateOpen, ReviewPromote, Abort

(* The step of MovesDraft.                                                    *)
LEMMA DraftStep ==
    ASSUME TypeInv, ChecksBegun, VerifiedBacked, OneMove, MovesDraft, [Next]_vars
    PROVE  MovesDraft'
<1> SUFFICES ASSUME NEW w \in Workers, request'[w].stage = "move"
             PROVE  properties'[request'[w].property].status = "draft"
  BY DEF MovesDraft
<1>1. CASE request'[w] # request[w]
  BY <1>1, MoveReads
<1>2. CASE request'[w] = request[w]
  <2>1. PICK p \in Properties : p = request[w].property
    BY <1>2, Stages DEF TypeInv, InitiateRequest
  <2>2. properties[p] # NoRow /\ properties[p].status = "draft"
    BY <1>2, <2>1 DEF MovesDraft, TypeInv, Linked
  <2>3. ASSUME NEW x \in Workers, InitiateMove(x), request[x].property = p PROVE FALSE
    <3>1. x = w
      BY <1>2, <2>1, <2>3 DEF OneMove, InitiateMove
    <3>2. /\ request[w] \in InitiateRequest
          /\ request' = [request EXCEPT ![w] = [request[w] EXCEPT !.stage = "open"]]
      BY <2>3, <3>1, Stages DEF InitiateMove, Goes, TypeInv
    <3>3. request'[w].stage = "open"
      BY <3>2 DEF TypeInv, TypeOK, InitiateRequest
    <3> QED BY <3>3
  <2>4. ASSUME NEW x \in Workers, request[x].stage = "promote", request[x].property = p
        PROVE  FALSE
    BY <2>2, <2>4, DraftUnpromoted
  <2> QED BY <1>2, <2>1, <2>2, <2>3, <2>4, StatusWrites
<1> QED BY <1>1, <1>2

LEMMA DraftHolds == Spec /\ []OneMove => []MovesDraft
<1>1. Init => MovesDraft
  BY DEF Init, MovesDraft, Idle
<1>2. TypeInv /\ ChecksBegun /\ VerifiedBacked /\ OneMove /\ MovesDraft /\ [Next]_vars
        => MovesDraft'
  BY DraftStep
<1> QED BY <1>1, <1>2, TypeCorrect, BegunCorrect, BackedCorrect, PTL DEF Spec

LEMMA NoStaleMove ==
    ASSUME TypeInv, MovesDraft, NEW p \in Properties
    PROVE  ~StaleMove(p)
  BY DEF StaleMove, Verified, MovesDraft, InitiateMove

(* BR-03 as documented, where no two initiations of one property overlap: its *)
(* status then only moves forward, with any reviews running beside them.      *)
THEOREM ForwardCorrect == Spec /\ []OneMove => ForwardOnly
<1>1. TypeInv /\ MovesDraft /\ [Next]_vars =>
        [\A p \in Properties : properties[p] # NoRow =>
           Rank(properties'[p].status) >= Rank(properties[p].status)]_vars
  <2> SUFFICES ASSUME TypeInv, MovesDraft, [Next]_vars, NEW p \in Properties,
                      properties[p] # NoRow
               PROVE  Rank(properties'[p].status) >= Rank(properties[p].status)
    OBVIOUS
  <2>1. ~(Rank(properties'[p].status) < Rank(properties[p].status))
    BY FallStep, NoStaleMove
  <2>2. /\ properties[p].status \in {"draft", "pending_verification", "verified"}
        /\ properties'[p].status \in {"draft", "pending_verification", "verified"}
    BY StatusWrites DEF TypeInv, TypeOK, Property
  <2> QED BY <2>1, <2>2, Ranks
<1> QED BY <1>1, DraftHolds, TypeCorrect, PTL DEF Spec, ForwardOnly

-----------------------------------------------------------------------------
(* What makes a property with both approvals go without its badge (BR-04).    *)

(* A review of the property has yet to list its verifications or to write.    *)
Underway(p) ==
    \E w \in Workers : /\ request[w].stage \in {"gather", "promote"}
                       /\ request[w].property = p

(* A property both of whose approvals are in force is verified, or a review   *)
(* is on its way to make it so.                                               *)
Promised(p) == BothApproved(p) => Verified(p) \/ Underway(p)

(* A review of the property is cut off between its approval and the badge.    *)
CutShort(p) ==
    \E w \in Workers : /\ Abort(w)
                       /\ request[w].stage \in {"gather", "promote"}
                       /\ request[w].property = p

(* Only a review that is cut off, and an initiation that writes over the      *)
(* badge, break the promise: two reviews that approve side by side and list   *)
(* the verifications in either order do not.                                  *)
BrokenOnlySo ==
    [][\A p \in Properties :
         Promised(p) /\ ~Promised(p)' => StaleMove(p) \/ CutShort(p)]_vars

(* A kind of verification becomes approved by a review, which goes on to list.*)
LEMMA ApprovalReviewed ==
    ASSUME TypeInv, [Next]_vars, NEW p \in Properties, NEW kinds,
           ~Approved(p, kinds), Approved(p, kinds)'
    PROVE  Underway(p)'
<1> USE DEF TypeInv, TypeOK
<1>1. PICK v \in Checks : /\ verifications'[v] # NoRow
                          /\ verifications'[v].property = p
                          /\ verifications'[v].kind \in kinds
                          /\ verifications'[v].status = "approved"
  BY DEF Approved
<1>2. verifications'[v] # verifications[v]
  BY <1>1 DEF Approved
<1>3. ASSUME NEW w \in Workers, NEW x \in Checks, InitiateOpen(w, x) PROVE FALSE
  BY <1>1, <1>2, <1>3 DEF InitiateOpen
<1>4. ASSUME NEW w \in Workers, NEW x \in Checks, NEW answer \in {"approved", "rejected"},
             ReviewWrite(w, x, answer)
      PROVE  Underway(p)'
  <2>1. x = v /\ verifications[v] \in Verification
    BY <1>2, <1>4 DEF ReviewWrite
  <2>2. verifications'[v] = Reviewed(verifications[v], answer)
    BY <1>4, <2>1 DEF ReviewWrite
  <2>3. answer = "approved" /\ verifications[v].property = p
    BY <1>1, <2>1, <2>2, RowTypes
  <2>4. request'[w] = [stage |-> "gather", property |-> p]
    BY <1>4, <2>1, <2>3 DEF ReviewWrite, Goes
  <2> QED BY <2>4 DEF Underway
<1> QED
  BY <1>2, <1>3, <1>4
     DEF Next, vars, SubmitKYC, ReviewKYC, CreateProperty, InitiateVerification,
         ReviewVerification, SubmitCheck, SubmitInsert, DecideCheck, DecideWrite,
         CreateCheck, CreateInsert, InitiateRead, InitiateMove, ReviewGather,
         ReviewPromote, Abort

(* A review at one of its last two calls goes on while both approvals are in  *)
(* force, writes the badge, or is cut off.                                    *)
LEMMA ReviewGoesOn ==
    ASSUME TypeInv, [Next]_vars, NEW p \in Properties, BothApproved(p),
           NEW w \in Workers, request[w].stage \in {"gather", "promote"},
           request[w].property = p
    PROVE  Underway(p)' \/ Verified(p)' \/ CutShort(p)
<1> USE DEF TypeInv, TypeOK
<1>1. CASE request'[w] = request[w]
  BY <1>1 DEF Underway
<1>2. ASSUME NEW x \in Workers, NEW r, Goes(x, r), request'[w] # request[w]
      PROVE  x = w
  BY <1>2 DEF Goes
<1>3. CASE ReviewGather(w)
  <2>1. request'[w] = [stage |-> "promote", property |-> p]
    BY <1>3 DEF ReviewGather, Goes
  <2> QED BY <2>1 DEF Underway
<1>4. CASE ReviewPromote(w)
  <2>1. properties[p] # NoRow /\ SetStatus(p, "verified")
    BY <1>4 DEF ReviewPromote, Linked
  <2> QED BY <2>1, SettingStatus DEF Verified
<1>5. CASE Abort(w)
  BY <1>5 DEF CutShort
<1>6. ASSUME request'[w] # request[w]
      PROVE  ReviewGather(w) \/ ReviewPromote(w) \/ Abort(w)
  <2>1. request[w] # Idle
    BY DEF Idle
  <2>2. PICK x \in Workers : \/ SubmitKYC(x)
                             \/ ReviewKYC(x)
                             \/ CreateProperty(x)
                             \/ InitiateVerification(x)
                             \/ ReviewVerification(x)
                             \/ Abort(x)
    BY <1>6 DEF Next, vars
  <2>3. \E r : Goes(x, r)
    BY <2>2
       DEF SubmitKYC, ReviewKYC, CreateProperty, InitiateVerification,
           ReviewVerification, SubmitCheck, SubmitInsert, DecideCheck, DecideWrite,
           CreateCheck, CreateInsert, InitiateRead, InitiateMove, InitiateOpen,
           ReviewWrite, ReviewGather, ReviewPromote, Abort
  <2>4. x = w
    BY <1>2, <1>6, <2>3
  <2> QED
    BY <2>1, <2>2, <2>4
       DEF SubmitKYC, ReviewKYC, CreateProperty, InitiateVerification,
           ReviewVerification, SubmitCheck, SubmitInsert, DecideCheck, DecideWrite,
           CreateCheck, CreateInsert, InitiateRead, InitiateMove, InitiateOpen,
           ReviewWrite
<1> QED BY <1>1, <1>3, <1>4, <1>5, <1>6

LEMMA BreakStep ==
    ASSUME TypeInv, [Next]_vars, NEW p \in Properties, Promised(p), ~Promised(p)'
    PROVE  StaleMove(p) \/ CutShort(p)
<1>1. BothApproved(p)' /\ ~Verified(p)' /\ ~Underway(p)'
  BY DEF Promised
<1>2. Approved(p, Photo) /\ Approved(p, Visit)
  BY <1>1, ApprovalReviewed DEF BothApproved
<1>3. CASE Verified(p)
  <2>1. properties'[p].status # properties[p].status
    BY <1>1, <1>3, PropertyMoves, NoListingRowAssumption DEF Verified
  <2> QED
    BY <1>1, <1>3, <2>1, StatusWrites, PropertyMoves DEF Verified, StaleMove
<1>4. CASE Underway(p)
  BY <1>1, <1>2, <1>4, ReviewGoesOn DEF Underway, BothApproved
<1> QED BY <1>2, <1>3, <1>4 DEF Promised, BothApproved

(* Whatever runs side by side, a property with both approvals is left behind  *)
(* in these two ways only.                                                    *)
THEOREM BrokenCorrect == Spec => BrokenOnlySo
<1>1. TypeInv /\ [Next]_vars =>
        [\A p \in Properties :
           Promised(p) /\ ~Promised(p)' => StaleMove(p) \/ CutShort(p)]_vars
  BY BreakStep
<1> QED BY <1>1, TypeCorrect, PTL DEF Spec, BrokenOnlySo

PromiseKept == \A p \in Properties : Promised(p)

(* The safety core of PromotedInTheEnd: where no review is cut off after its  *)
(* approval and no two initiations of one property overlap, a property with   *)
(* both approvals is verified or a review is on its way to make it so.        *)
THEOREM PromiseKeptCorrect ==
    ASSUME CutOff \cap {"gather", "promote"} = {}
    PROVE  Spec /\ []OneMove => []PromiseKept
<1>1. Init => PromiseKept
  BY DEF Init, PromiseKept, Promised, BothApproved, Approved
<1>2. ASSUME TypeInv, MovesDraft, PromiseKept, [Next]_vars PROVE PromiseKept'
  <2> SUFFICES ASSUME NEW p \in Properties, ~Promised(p)' PROVE FALSE
    BY DEF PromiseKept
  <2>1. ~CutShort(p)
    BY DEF CutShort, Abort
  <2> QED BY <1>2, <2>1, BreakStep, NoStaleMove DEF PromiseKept
<1> QED BY <1>1, <1>2, DraftHolds, TypeCorrect, PTL DEF Spec
=============================================================================
