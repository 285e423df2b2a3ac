--------------------------- MODULE ListingsProofs ---------------------------
(***************************************************************************)
(* Proofs about module Listings, for any users, properties, verifications,  *)
(* kinds of verification and concurrent requests, whatever calls are cut    *)
(* off.                                                                     *)
(***************************************************************************)
EXTENDS Listings, TLAPS

(* The foreign keys: what a verification and a request refer to has a row.    *)
Linked ==
    /\ \A v \in Checks : verifications[v] # NoRow =>
         properties[verifications[v].property] # NoRow
    /\ \A w \in Workers : request[w].stage \in {"move", "open", "gather", "promote"} =>
         properties[request[w].property] # NoRow
    /\ \A w \in Workers : request[w].stage = "decide" => kyc[request[w].user] # NoRow

TypeInv == TypeOK /\ Linked

(* A request is of the kind its stage says.                                   *)
LEMMA Stages ==
    ASSUME TypeOK, NEW w \in Workers
    PROVE  /\ request[w].stage = "submit" => request[w] \in SubmitRequest
           /\ request[w].stage = "decide" => request[w] \in DecideRequest
           /\ request[w].stage = "create" => request[w] \in CreateRequest
           /\ request[w].stage \in {"move", "open"} => request[w] \in InitiateRequest
           /\ request[w].stage \in {"gather", "promote"} => request[w] \in ReviewRequest
<1>1. request[w] \in Request \cup {Idle}
  BY DEF TypeOK
<1> QED
  BY <1>1 DEF Request, Idle, SubmitRequest, DecideRequest, CreateRequest,
     InitiateRequest, ReviewRequest

(* What worker w goes on to is all that changes of the requests.              *)
LEMMA Going ==
    ASSUME TypeOK, NEW w \in Workers, NEW r \in Request \cup {Idle}, Goes(w, r)
    PROVE  /\ request' \in [Workers -> Request \cup {Idle}]
           /\ request'[w] = r
           /\ \A x \in Workers : x # w => request'[x] = request[x]
BY DEF TypeOK, Goes

(* A row after the statements that change it is a row.                        *)
LEMMA RowTypes ==
    /\ NewKYC \in KYC
    /\ \A r \in KYC, answer \in {"verified", "rejected"} :
         /\ Decided(r, answer) \in KYC
         /\ Decided(r, answer).status = answer
         /\ Decided(r, answer).stamped = (r.stamped \/ answer = "verified")
    /\ \A r \in Verification, answer \in {"approved", "rejected"} :
         /\ Reviewed(r, answer) \in Verification
         /\ Reviewed(r, answer).status = answer
         /\ Reviewed(r, answer).property = r.property
         /\ Reviewed(r, answer).kind = r.kind
         /\ Reviewed(r, answer).stamped = (r.stamped \/ answer = "approved")
<1>1. NewKYC \in KYC
  BY DEF NewKYC, KYC
<1>2. ASSUME NEW r \in KYC, NEW answer \in {"verified", "rejected"}
      PROVE  /\ Decided(r, answer) \in KYC
             /\ Decided(r, answer).status = answer
             /\ Decided(r, answer).stamped = (r.stamped \/ answer = "verified")
  BY DEF Decided, KYC
<1>3. ASSUME NEW r \in Verification, NEW answer \in {"approved", "rejected"}
      PROVE  /\ Reviewed(r, answer) \in Verification
             /\ Reviewed(r, answer).status = answer
             /\ Reviewed(r, answer).property = r.property
             /\ Reviewed(r, answer).kind = r.kind
             /\ Reviewed(r, answer).stamped = (r.stamped \/ answer = "approved")
  BY DEF Reviewed, Verification
<1> QED BY <1>1, <1>2, <1>3

(* UpdateStatus of a property changes one row, and of it the status.          *)
LEMMA SettingStatus ==
    ASSUME TypeOK, NEW p \in Properties, properties[p] # NoRow,
           NEW status \in {"draft", "pending_verification", "verified"},
           SetStatus(p, status)
    PROVE  /\ properties' \in [Properties -> Property \cup {NoRow}]
           /\ properties'[p] \in Property
           /\ properties'[p] # NoRow
           /\ properties'[p].status = status
           /\ properties'[p].owner = properties[p].owner
           /\ \A q \in Properties : q # p => properties'[q] = properties[q]
<1>1. properties[p] \in Property
  BY DEF TypeOK
<1> DEFINE row == [properties[p] EXCEPT !.status = status]
<1>2. /\ row \in Property
      /\ row # NoRow
      /\ row.status = status
      /\ row.owner = properties[p].owner
  BY <1>1, NoListingRowAssumption DEF Property
<1>3. properties' = [properties EXCEPT ![p] = row]
  BY DEF SetStatus
<1> HIDE DEF row
<1> QED BY <1>2, <1>3 DEF TypeOK

(* The step of the type invariant, one case per action.                       *)
LEMMA TypeStep == TypeInv /\ [Next]_vars => TypeInv'
<1> SUFFICES ASSUME TypeInv, [Next]_vars PROVE TypeInv'
  OBVIOUS
<1> USE NoListingRowAssumption, LandlordAssumption DEF TypeInv
<1>1. ASSUME NEW w \in Workers, NEW u \in Users, SubmitCheck(w, u) PROVE TypeInv'
  <2>1. [stage |-> "submit", user |-> u] \in SubmitRequest
    BY DEF SubmitRequest
  <2> QED BY <1>1, <2>1, Going DEF SubmitCheck, Request, TypeOK, Linked
<1>2. ASSUME NEW w \in Workers, SubmitInsert(w) PROVE TypeInv'
  <2>1. /\ request[w].user \in Users
        /\ UNCHANGED <<properties, verifications>>
        /\ \/ kyc' = [kyc EXCEPT ![request[w].user] = NewKYC]
           \/ UNCHANGED kyc
    BY <1>2, Stages DEF SubmitInsert, InsertKYC, SubmitRequest
  <2>2. /\ kyc' \in [Users -> KYC \cup {NoRow}]
        /\ \A u \in Users : kyc[u] # NoRow => kyc'[u] # NoRow
    BY <2>1, RowTypes DEF TypeOK
  <2>3. /\ request' \in [Workers -> Request \cup {Idle}]
        /\ request'[w] = Idle
        /\ \A x \in Workers : x # w => request'[x] = request[x]
    BY <1>2, Going DEF SubmitInsert
  <2> QED BY <2>1, <2>2, <2>3, Stages DEF TypeOK, Linked, Idle, DecideRequest
<1>3. ASSUME NEW w \in Workers, NEW u \in Users, NEW answer \in {"verified", "rejected"},
             DecideCheck(w, u, answer)
      PROVE  TypeInv'
  <2>1. [stage |-> "decide", user |-> u, answer |-> answer] \in DecideRequest
    BY DEF DecideRequest
  <2> QED BY <1>3, <2>1, Going DEF DecideCheck, Request, TypeOK, Linked
<1>4. ASSUME NEW w \in Workers, DecideWrite(w) PROVE TypeInv'
  <2>1. /\ request[w].user \in Users
        /\ request[w].answer \in {"verified", "rejected"}
        /\ kyc[request[w].user] \in KYC
    BY <1>4, Stages DEF DecideWrite, DecideRequest, Linked, TypeOK
  <2>2. /\ kyc' \in [Users -> KYC \cup {NoRow}]
        /\ \A u \in Users : kyc[u] # NoRow => kyc'[u] # NoRow
    BY <1>4, <2>1, RowTypes DEF DecideWrite, TypeOK
  <2>3. /\ request' \in [Workers -> Request \cup {Idle}]
        /\ request'[w] = Idle
        /\ \A x \in Workers : x # w => request'[x] = request[x]
    BY <1>4, Going DEF DecideWrite
  <2> QED
    BY <1>4, <2>2, <2>3, Stages DEF DecideWrite, TypeOK, Linked, Idle, DecideRequest
<1>5. ASSUME NEW w \in Workers, NEW u \in Users, CreateCheck(w, u) PROVE TypeInv'
  <2>1. [stage |-> "create", user |-> u] \in CreateRequest
    BY DEF CreateRequest
  <2> QED BY <1>5, <2>1, Going DEF CreateCheck, Request, TypeOK, Linked
<1>6. ASSUME NEW w \in Workers, NEW p \in Properties, CreateInsert(w, p)
      PROVE  TypeInv'
  <2>1. [owner |-> request[w].user, status |-> "draft"] \in Property
    BY <1>6, Stages DEF CreateInsert, CreateRequest, Property
  <2>2. /\ properties' \in [Properties -> Property \cup {NoRow}]
        /\ \A q \in Properties : properties[q] # NoRow => properties'[q] # NoRow
    BY <1>6, <2>1 DEF CreateInsert, TypeOK
  <2>3. /\ request' \in [Workers -> Request \cup {Idle}]
        /\ request'[w] = Idle
        /\ \A x \in Workers : x # w => request'[x] = request[x]
    BY <1>6, Going DEF CreateInsert
  <2>4. TypeOK'
    BY <1>6, <2>2, <2>3 DEF CreateInsert, TypeOK
  <2>5. Linked'
    BY <1>6, <2>2, <2>3, Stages
       DEF CreateInsert, TypeOK, Linked, Idle, Verification, InitiateRequest,
           ReviewRequest
  <2> QED BY <2>4, <2>5
<1>7. ASSUME NEW w \in Workers, NEW p \in Properties, NEW kind \in Kinds,
             InitiateRead(w, p, kind)
      PROVE  TypeInv'
  <2>1. [stage |-> FirstCall(properties[p].status), property |-> p, kind |-> kind]
          \in InitiateRequest
    BY DEF FirstCall, InitiateRequest
  <2> QED
    BY <1>7, <2>1, Going DEF InitiateRead, Request, TypeOK, Linked, InitiateRequest
<1>8. ASSUME NEW w \in Workers, InitiateMove(w) PROVE TypeInv'
  <2>1. /\ request[w] \in InitiateRequest
        /\ properties[request[w].property] \in Property
        /\ request[w].property \in Properties
    BY <1>8, Stages DEF InitiateMove, InitiateRequest, Linked, TypeOK
  <2>2. /\ properties' \in [Properties -> Property \cup {NoRow}]
        /\ \A q \in Properties : properties[q] # NoRow => properties'[q] # NoRow
    BY <1>8, <2>1, SettingStatus, NoListingRowAssumption DEF InitiateMove
  <2>3. /\ [request[w] EXCEPT !.stage = "open"] \in InitiateRequest
        /\ [request[w] EXCEPT !.stage = "open"].property = request[w].property
        /\ [request[w] EXCEPT !.stage = "open"].stage = "open"
    BY <2>1 DEF InitiateRequest
  <2>4. /\ request' \in [Workers -> Request \cup {Idle}]
        /\ request'[w] = [request[w] EXCEPT !.stage = "open"]
        /\ \A x \in Workers : x # w => request'[x] = request[x]
    BY <1>8, <2>3, Going DEF InitiateMove, Request
  <2>5. TypeOK'
    BY <1>8, <2>2, <2>4 DEF InitiateMove, TypeOK
  <2>6. Linked'
    BY <1>8, <2>1, <2>2, <2>3, <2>4, Stages
       DEF InitiateMove, TypeOK, Linked, Verification, InitiateRequest, ReviewRequest
  <2> QED BY <2>5, <2>6
<1>9. ASSUME NEW w \in Workers, NEW v \in Checks, InitiateOpen(w, v) PROVE TypeInv'
  <2> DEFINE row == [property |-> request[w].property, kind |-> request[w].kind,
                     status |-> "pending", stamped |-> FALSE]
  <2>1. /\ row \in Verification
        /\ properties[request[w].property] # NoRow
    BY <1>9, Stages DEF InitiateOpen, InitiateRequest, Verification, Linked
  <2>2. verifications' = [verifications EXCEPT ![v] = row]
    BY <1>9 DEF InitiateOpen
  <2>3. row.property = request[w].property
    OBVIOUS
  <2> HIDE DEF row
  <2>4. TypeOK'
    <3>1. verifications' \in [Checks -> Verification \cup {NoRow}]
      BY <2>1, <2>2 DEF TypeOK
    <3>2. request' \in [Workers -> Request \cup {Idle}]
      BY <1>9, Going DEF InitiateOpen
    <3> QED BY <1>9, <3>1, <3>2 DEF InitiateOpen, TypeOK
  <2>5. Linked'
    BY <1>9, <2>1, <2>2, <2>3, Going DEF InitiateOpen, TypeOK, Linked, Idle
  <2> QED BY <2>4, <2>5
<1>10. ASSUME NEW w \in Workers, NEW v \in Checks, NEW answer \in {"approved", "rejected"},
              ReviewWrite(w, v, answer)
       PROVE  TypeInv'
  <2>1. /\ verifications[v] \in Verification
        /\ properties[verifications[v].property] # NoRow
        /\ verifications[v].property \in Properties
    BY <1>10 DEF ReviewWrite, TypeOK, Linked, Verification
  <2> DEFINE next == IF answer = "approved"
                     THEN [stage |-> "gather", property |-> verifications[v].property]
                     ELSE Idle
  <2>2. /\ next \in Request \cup {Idle}
        /\ next.stage \in {"gather", "idle"}
        /\ next.stage = "gather" => next.property = verifications[v].property
    BY <2>1 DEF Request, ReviewRequest, Idle
  <2>3. Goes(w, next)
    BY <1>10 DEF ReviewWrite
  <2> HIDE DEF next
  <2>4. /\ request' \in [Workers -> Request \cup {Idle}]
        /\ request'[w] = next
        /\ \A x \in Workers : x # w => request'[x] = request[x]
    BY <2>2, <2>3, Going
  <2>5. /\ Reviewed(verifications[v], answer) \in Verification
        /\ Reviewed(verifications[v], answer).property = verifications[v].property
        /\ verifications' = [verifications EXCEPT ![v] = Reviewed(verifications[v], answer)]
        /\ UNCHANGED <<kyc, properties>>
    BY <1>10, <2>1, RowTypes DEF ReviewWrite
  <2>6. TypeOK'
    BY <2>4, <2>5 DEF TypeOK
  <2>7. Linked'
    BY <2>1, <2>2, <2>4, <2>5 DEF TypeOK, Linked
  <2> QED BY <2>6, <2>7
<1>11. ASSUME NEW w \in Workers, ReviewGather(w) PROVE TypeInv'
  <2> DEFINE next == IF BothApproved(request[w].property)
                     THEN [stage |-> "promote", property |-> request[w].property]
                     ELSE Idle
  <2>1. /\ request[w] \in ReviewRequest
        /\ properties[request[w].property] # NoRow
    BY <1>11, Stages DEF ReviewGather, Linked
  <2>2. /\ next \in Request \cup {Idle}
        /\ next.stage \in {"promote", "idle"}
        /\ next.stage = "promote" => next.property = request[w].property
    BY <2>1 DEF Request, ReviewRequest, Idle
  <2>3. Goes(w, next)
    BY <1>11 DEF ReviewGather
  <2> HIDE DEF next
  <2>4. /\ request' \in [Workers -> Request \cup {Idle}]
        /\ request'[w] = next
        /\ \A x \in Workers : x # w => request'[x] = request[x]
    BY <2>2, <2>3, Going
  <2> QED BY <1>11, <2>1, <2>2, <2>4 DEF ReviewGather, TypeOK, Linked
<1>12. ASSUME NEW w \in Workers, ReviewPromote(w) PROVE TypeInv'
  <2>1. /\ properties[request[w].property] \in Property
        /\ request[w].property \in Properties
    BY <1>12, Stages DEF ReviewPromote, ReviewRequest, Linked, TypeOK
  <2>2. /\ properties' \in [Properties -> Property \cup {NoRow}]
        /\ \A q \in Properties : properties[q] # NoRow => properties'[q] # NoRow
    BY <1>12, <2>1, SettingStatus, NoListingRowAssumption DEF ReviewPromote
  <2>3. /\ request' \in [Workers -> Request \cup {Idle}]
        /\ request'[w] = Idle
        /\ \A x \in Workers : x # w => request'[x] = request[x]
    BY <1>12, Going DEF ReviewPromote
  <2>4. TypeOK'
    BY <1>12, <2>2, <2>3 DEF ReviewPromote, TypeOK
  <2>5. Linked'
    BY <1>12, <2>2, <2>3, Stages
       DEF ReviewPromote, TypeOK, Linked, Idle, Verification, InitiateRequest,
           ReviewRequest
  <2> QED BY <2>4, <2>5
<1>13. ASSUME NEW w \in Workers, Abort(w) PROVE TypeInv'
  BY <1>13, Going DEF Abort, TypeOK, Linked, Idle
<1>14. CASE UNCHANGED vars
  BY <1>14 DEF vars, TypeOK, Linked
<1> QED
  BY <1>1, <1>2, <1>3, <1>4, <1>5, <1>6, <1>7, <1>8, <1>9, <1>10, <1>11, <1>12,
     <1>13, <1>14
     DEF Next, SubmitKYC, ReviewKYC, CreateProperty, InitiateVerification,
         ReviewVerification

(* What a step may do to one KYC row: submit it, or decide it.                *)
LEMMA KycMoves ==
    ASSUME TypeInv, [Next]_vars, NEW u \in Users
    PROVE  \/ kyc'[u] = kyc[u]
           \/ kyc[u] = NoRow /\ kyc'[u] = NewKYC
           \/ /\ kyc[u] \in KYC
              /\ \E answer \in {"verified", "rejected"} : kyc'[u] = Decided(kyc[u], answer)
<1> USE DEF TypeInv
<1>1. ASSUME NEW w \in Workers, SubmitInsert(w)
      PROVE  kyc'[u] = kyc[u] \/ (kyc[u] = NoRow /\ kyc'[u] = NewKYC)
  BY <1>1 DEF SubmitInsert, InsertKYC, TypeOK
<1>2. ASSUME NEW w \in Workers, DecideWrite(w)
      PROVE  \/ kyc'[u] = kyc[u]
             \/ /\ kyc[u] \in KYC
                /\ \E answer \in {"verified", "rejected"} :
                     kyc'[u] = Decided(kyc[u], answer)
  <2>1. /\ request[w].user \in Users
        /\ request[w].answer \in {"verified", "rejected"}
        /\ kyc[request[w].user] \in KYC
    BY <1>2, Stages DEF DecideWrite, DecideRequest, Linked, TypeOK
  <2> QED BY <1>2, <2>1 DEF DecideWrite, TypeOK
<1>3. CASE UNCHANGED kyc
  BY <1>3
<1> QED
  BY <1>1, <1>2, <1>3
     DEF Next, vars, SubmitKYC, ReviewKYC, CreateProperty, InitiateVerification,
         ReviewVerification, SubmitCheck, DecideCheck, CreateCheck, CreateInsert,
         InitiateRead, InitiateMove, InitiateOpen, ReviewWrite, ReviewGather,
         ReviewPromote, Abort

(* What a step may do to one property: list it, or change its status on       *)
(* behalf of the request that is at that call.                                *)
LEMMA PropertyMoves ==
    ASSUME TypeInv, [Next]_vars, NEW p \in Properties
    PROVE  \/ properties'[p] = properties[p]
           \/ /\ properties[p] = NoRow
              /\ \E w \in Workers :
                   /\ request[w].stage = "create"
                   /\ properties'[p] = [owner |-> request[w].user, status |-> "draft"]
           \/ /\ properties[p] # NoRow
              /\ properties'[p] \in Property
              /\ properties'[p].owner = properties[p].owner
              /\ \/ properties'[p].status = "pending_verification"
                 \/ /\ properties'[p].status = "verified"
                    /\ \E w \in Workers : /\ request[w].stage = "promote"
                                          /\ request[w].property = p
<1> USE DEF TypeInv
<1>1. ASSUME NEW w \in Workers, NEW q \in Properties, CreateInsert(w, q)
      PROVE  \/ properties'[p] = properties[p]
             \/ /\ properties[p] = NoRow
                /\ request[w].stage = "create"
                /\ properties'[p] = [owner |-> request[w].user, status |-> "draft"]
  BY <1>1 DEF CreateInsert, TypeOK
<1>2. ASSUME NEW w \in Workers, InitiateMove(w)
      PROVE  \/ properties'[p] = properties[p]
             \/ /\ properties[p] # NoRow
                /\ properties'[p] \in Property
                /\ properties'[p].owner = properties[p].owner
                /\ properties'[p].status = "pending_verification"
  <2>1. /\ request[w].property \in Properties
        /\ properties[request[w].property] # NoRow
        /\ SetStatus(request[w].property, "pending_verification")
    BY <1>2, Stages DEF InitiateMove, InitiateRequest, Linked
  <2> QED BY <2>1, SettingStatus
<1>3. ASSUME NEW w \in Workers, ReviewPromote(w)
      PROVE  \/ properties'[p] = properties[p]
             \/ /\ properties[p] # NoRow
                /\ properties'[p] \in Property
                /\ properties'[p].owner = properties[p].owner
                /\ properties'[p].status = "verified"
                /\ request[w].stage = "promote"
                /\ request[w].property = p
  <2>1. /\ request[w].property \in Properties
        /\ properties[request[w].property] # NoRow
        /\ SetStatus(request[w].property, "verified")
        /\ request[w].stage = "promote"
    BY <1>3, Stages DEF ReviewPromote, ReviewRequest, Linked
  <2> QED BY <2>1, SettingStatus
<1>4. CASE UNCHANGED properties
  BY <1>4
<1> QED
  BY <1>1, <1>2, <1>3, <1>4
     DEF Next, vars, SubmitKYC, ReviewKYC, CreateProperty, InitiateVerification,
         ReviewVerification, SubmitCheck, SubmitInsert, DecideCheck, DecideWrite,
         CreateCheck, InitiateRead, InitiateOpen, ReviewWrite, ReviewGather, Abort

(* What a step may do to one verification: open it for a request that is at   *)
(* that call, or answer it.                                                   *)
LEMMA CheckMoves ==
    ASSUME TypeInv, [Next]_vars, NEW v \in Checks
    PROVE  \/ verifications'[v] = verifications[v]
           \/ /\ verifications[v] = NoRow
              /\ \E w \in Workers :
                   /\ request[w].stage = "open"
                   /\ verifications'[v] =
                        [property |-> request[w].property, kind |-> request[w].kind,
                         status |-> "pending", stamped |-> FALSE]
           \/ /\ verifications[v] \in Verification
              /\ \E answer \in {"approved", "rejected"} :
                   verifications'[v] = Reviewed(verifications[v], answer)
<1> USE DEF TypeInv
<1>1. ASSUME NEW w \in Workers, NEW x \in Checks, InitiateOpen(w, x)
      PROVE  \/ verifications'[v] = verifications[v]
             \/ /\ verifications[v] = NoRow
                /\ request[w].stage = "open"
                /\ verifications'[v] =
                     [property |-> request[w].property, kind |-> request[w].kind,
                      status |-> "pending", stamped |-> FALSE]
  BY <1>1 DEF InitiateOpen, TypeOK
<1>2. ASSUME NEW w \in Workers, NEW x \in Checks, NEW answer \in {"approved", "rejected"},
             ReviewWrite(w, x, answer)
      PROVE  \/ verifications'[v] = verifications[v]
             \/ /\ verifications[v] \in Verification
                /\ verifications'[v] = Reviewed(verifications[v], answer)
  BY <1>2 DEF ReviewWrite, TypeOK
<1>3. CASE UNCHANGED verifications
  BY <1>3
<1> QED
  BY <1>1, <1>2, <1>3
     DEF Next, vars, SubmitKYC, ReviewKYC, CreateProperty, InitiateVerification,
         ReviewVerification, SubmitCheck, SubmitInsert, DecideCheck, DecideWrite,
         CreateCheck, CreateInsert, InitiateRead, InitiateMove, ReviewGather,
         ReviewPromote, Abort

(* What a step may do to one request: end it, take it on to its next call, or *)
(* start it with a check that holds.                                          *)
LEMMA RequestMoves ==
    ASSUME TypeInv, [Next]_vars, NEW w \in Workers
    PROVE  \/ request'[w] = request[w]
           \/ request'[w].stage \in {"idle", "submit", "decide", "gather"}
           \/ /\ request'[w].stage = "create"
              /\ \E u \in Users : MayList(u) /\ request'[w].user = u
           \/ /\ request'[w].stage \in {"move", "open"}
              /\ \E p \in Properties :
                   /\ request'[w].property = p
                   /\ properties[p] # NoRow
                   /\ \/ request'[w].stage = "move"
                      \/ /\ request[w].stage = "move"
                         /\ properties'[p].status = "pending_verification"
                      \/ properties[p].status # "draft"
           \/ /\ request'[w].stage = "promote"
              /\ \E p \in Properties : request'[w].property = p /\ BothApproved(p)
<1> USE DEF TypeInv
<1>0. ASSUME NEW x \in Workers, NEW r, Goes(x, r)
      PROVE  request'[w] = IF x = w THEN r ELSE request[w]
  BY <1>0 DEF Goes, TypeOK
<1>1. ASSUME NEW x \in Workers, Goes(x, Idle)
      PROVE  request'[w] = request[w] \/ request'[w].stage = "idle"
  BY <1>0, <1>1 DEF Idle
<1>2. ASSUME NEW x \in Workers, NEW u \in Users, SubmitCheck(x, u)
      PROVE  request'[w] = request[w] \/ request'[w].stage = "submit"
  BY <1>0, <1>2 DEF SubmitCheck
<1>3. ASSUME NEW x \in Workers, NEW u \in Users, NEW answer, DecideCheck(x, u, answer)
      PROVE  request'[w] = request[w] \/ request'[w].stage = "decide"
  BY <1>0, <1>3 DEF DecideCheck
<1>4. ASSUME NEW x \in Workers, NEW u \in Users, CreateCheck(x, u)
      PROVE  \/ request'[w] = request[w]
             \/ /\ request'[w].stage = "create"
                /\ MayList(u) /\ request'[w].user = u
  BY <1>0, <1>4 DEF CreateCheck
<1>5. ASSUME NEW x \in Workers, NEW p \in Properties, NEW kind \in Kinds,
             InitiateRead(x, p, kind)
      PROVE  \/ request'[w] = request[w]
             \/ /\ request'[w].stage \in {"move", "open"}
                /\ request'[w].property = p
                /\ properties[p] # NoRow
                /\ request'[w].stage = "move" \/ properties[p].status # "draft"
  BY <1>0, <1>5 DEF InitiateRead, FirstCall
<1>6. ASSUME NEW x \in Workers, InitiateMove(x)
      PROVE  \/ request'[w] = request[w]
             \/ /\ request'[w].stage = "open"
                /\ request'[w].property \in Properties
                /\ properties[request'[w].property] # NoRow
                /\ request[w].stage = "move"
                /\ properties'[request'[w].property].status = "pending_verification"
  <2>1. /\ request[x] \in InitiateRequest
        /\ request[x].property \in Properties
        /\ properties[request[x].property] # NoRow
        /\ SetStatus(request[x].property, "pending_verification")
        /\ request[x].stage = "move"
    BY <1>6, Stages DEF InitiateMove, InitiateRequest, Linked
  <2>2. properties'[request[x].property].status = "pending_verification"
    BY <2>1, SettingStatus
  <2>3. request'[w] = IF x = w THEN [request[x] EXCEPT !.stage = "open"] ELSE request[w]
    BY <1>0, <1>6 DEF InitiateMove
  <2>4. /\ [request[x] EXCEPT !.stage = "open"].stage = "open"
        /\ [request[x] EXCEPT !.stage = "open"].property = request[x].property
    BY <2>1 DEF InitiateRequest
  <2> QED BY <2>1, <2>2, <2>3, <2>4
<1>7. ASSUME NEW x \in Workers, NEW v \in Checks, NEW answer, ReviewWrite(x, v, answer)
      PROVE  request'[w] = request[w] \/ request'[w].stage \in {"idle", "gather"}
  BY <1>0, <1>7 DEF ReviewWrite, Idle
<1>8. ASSUME NEW x \in Workers, ReviewGather(x)
      PROVE  \/ request'[w] = request[w]
             \/ request'[w].stage = "idle"
             \/ /\ request'[w].stage = "promote"
                /\ \E p \in Properties : request'[w].property = p /\ BothApproved(p)
  <2>1. request[x].property \in Properties
    BY <1>8, Stages DEF ReviewGather, ReviewRequest
  <2> QED BY <1>0, <1>8, <2>1 DEF ReviewGather, Idle
<1>9. CASE UNCHANGED request
  BY <1>9
<1> QED
  BY <1>1, <1>2, <1>3, <1>4, <1>5, <1>6, <1>7, <1>8, <1>9
     DEF Next, vars, SubmitKYC, ReviewKYC, CreateProperty, InitiateVerification,
         ReviewVerification, SubmitInsert, DecideWrite, CreateInsert, InitiateOpen,
         ReviewPromote, Abort

(* Submissions come from landlords and become their rows.                     *)
OnlyLandlords ==
    /\ \A u \in Users : kyc[u] # NoRow => u \in Landlords
    /\ \A w \in Workers : request[w].stage = "submit" => request[w].user \in Landlords

LEMMA LandlordStep == TypeInv /\ OnlyLandlords /\ [Next]_vars => OnlyLandlords'
<1> SUFFICES ASSUME TypeInv, OnlyLandlords, [Next]_vars PROVE OnlyLandlords'
  OBVIOUS
<1> USE DEF TypeInv
<1>1. ASSUME NEW x \in Workers, NEW r \in Request \cup {Idle}, Goes(x, r),
             r.stage # "submit" \/ r.user \in Landlords, UNCHANGED kyc
      PROVE  OnlyLandlords'
  BY <1>1, Going DEF OnlyLandlords
<1>2. ASSUME NEW x \in Workers, Goes(x, Idle), UNCHANGED kyc PROVE OnlyLandlords'
  BY <1>1, <1>2 DEF Idle
<1>3. ASSUME NEW x \in Workers, NEW u \in Users, SubmitCheck(x, u) PROVE OnlyLandlords'
  <2>1. [stage |-> "submit", user |-> u] \in Request
    BY DEF Request, SubmitRequest
  <2> QED BY <1>1, <1>3, <2>1 DEF SubmitCheck, MaySubmit
<1>4. ASSUME NEW x \in Workers, SubmitInsert(x) PROVE OnlyLandlords'
  <2>1. request[x].user \in Users /\ request[x].user \in Landlords
    BY <1>4, Stages DEF SubmitInsert, SubmitRequest, OnlyLandlords
  <2>2. \A u \in Users : kyc'[u] # NoRow => u \in Landlords
    BY <1>4, <2>1 DEF SubmitInsert, InsertKYC, OnlyLandlords, TypeOK
  <2>3. \A w \in Workers : request'[w] = request[w] \/ request'[w] = Idle
    BY <1>4, Going DEF SubmitInsert
  <2> QED BY <2>2, <2>3 DEF OnlyLandlords, Idle
<1>5. ASSUME NEW x \in Workers, NEW u \in Users, NEW answer \in {"verified", "rejected"},
             DecideCheck(x, u, answer)
      PROVE  OnlyLandlords'
  <2>1. [stage |-> "decide", user |-> u, answer |-> answer] \in Request
    BY DEF Request, DecideRequest
  <2> QED BY <1>1, <1>5, <2>1 DEF DecideCheck
<1>6. ASSUME NEW x \in Workers, DecideWrite(x) PROVE OnlyLandlords'
  <2>1. request[x].user \in Users /\ kyc[request[x].user] # NoRow
    BY <1>6, Stages DEF DecideWrite, DecideRequest, Linked
  <2>2. \A u \in Users : kyc'[u] # NoRow => u \in Landlords
    BY <1>6, <2>1 DEF DecideWrite, OnlyLandlords, TypeOK
  <2>3. \A w \in Workers : request'[w] = request[w] \/ request'[w] = Idle
    BY <1>6, Going DEF DecideWrite
  <2> QED BY <2>2, <2>3 DEF OnlyLandlords, Idle
<1>7. ASSUME NEW x \in Workers, NEW u \in Users, CreateCheck(x, u) PROVE OnlyLandlords'
  <2>1. [stage |-> "create", user |-> u] \in Request
    BY DEF Request, CreateRequest
  <2> QED BY <1>1, <1>7, <2>1 DEF CreateCheck
<1>8. ASSUME UNCHANGED kyc,
             \A w \in Workers : \/ request'[w] = request[w]
                                \/ request'[w].stage # "submit"
      PROVE  OnlyLandlords'
  BY <1>8 DEF OnlyLandlords
<1>9. ASSUME NEW x \in Workers, NEW p \in Properties, NEW kind \in Kinds,
             InitiateRead(x, p, kind)
      PROVE  OnlyLandlords'
  BY <1>8, <1>9 DEF InitiateRead, Goes, FirstCall, TypeOK
<1>10. ASSUME NEW x \in Workers, InitiateMove(x) PROVE OnlyLandlords'
  <2>1. request[x] \in InitiateRequest
    BY <1>10, Stages DEF InitiateMove
  <2>2. [request[x] EXCEPT !.stage = "open"].stage = "open"
    BY <2>1 DEF InitiateRequest
  <2> QED BY <1>8, <1>10, <2>2 DEF InitiateMove, Goes, TypeOK
<1>11. ASSUME NEW x \in Workers, NEW v \in Checks, NEW answer, ReviewWrite(x, v, answer)
       PROVE  OnlyLandlords'
  BY <1>8, <1>11 DEF ReviewWrite, Goes, Idle, TypeOK
<1>12. ASSUME NEW x \in Workers, ReviewGather(x) PROVE OnlyLandlords'
  BY <1>8, <1>12 DEF ReviewGather, Goes, Idle, TypeOK
<1>13. CASE UNCHANGED vars
  BY <1>8, <1>13 DEF vars
<1> QED
  BY <1>2, <1>3, <1>4, <1>5, <1>6, <1>7, <1>9, <1>10, <1>11, <1>12, <1>13
     DEF Next, SubmitKYC, ReviewKYC, CreateProperty, InitiateVerification,
         ReviewVerification, CreateInsert, InitiateOpen, ReviewPromote, Abort

LEMMA TypeCorrect == Spec => []TypeInv
<1>1. Init => TypeInv
  BY DEF Init, TypeInv, TypeOK, Linked, Idle
<1> QED BY <1>1, TypeStep, PTL DEF Spec

(* TypeOK: rows and requests have the fields and the values the code gives    *)
(* them.                                                                      *)
THEOREM ListingTypes == Spec => []TypeOK
<1>1. TypeInv => TypeOK
  BY DEF TypeInv
<1> QED BY <1>1, TypeCorrect, PTL

(* An approval in force has its date.                                         *)
Dated ==
    /\ \A u \in Users : kyc[u] # NoRow /\ kyc[u].status = "verified" => kyc[u].stamped
    /\ \A v \in Checks : verifications[v] # NoRow /\ verifications[v].status = "approved"
                           => verifications[v].stamped

LEMMA DatedStep == TypeInv /\ Dated /\ [Next]_vars => Dated'
<1> SUFFICES ASSUME TypeInv, Dated, [Next]_vars PROVE Dated'
  OBVIOUS
<1>1. ASSUME NEW u \in Users, kyc'[u] # NoRow, kyc'[u].status = "verified"
      PROVE  kyc'[u].stamped
  <2>1. CASE kyc'[u] = kyc[u]
    BY <1>1, <2>1 DEF Dated
  <2>2. CASE kyc'[u] = NewKYC
    BY <1>1, <2>2 DEF NewKYC
  <2>3. ASSUME kyc[u] \in KYC, NEW answer \in {"verified", "rejected"},
               kyc'[u] = Decided(kyc[u], answer)
        PROVE  kyc'[u].stamped
    <3>1. answer = "verified"
      BY <1>1, <2>3 DEF Decided
    <3>2. kyc'[u] = [status |-> answer, stamped |-> TRUE]
      BY <2>3, <3>1 DEF Decided
    <3> QED BY <3>2
  <2> QED BY <2>1, <2>2, <2>3, KycMoves
<1>2. ASSUME NEW v \in Checks, verifications'[v] # NoRow,
             verifications'[v].status = "approved"
      PROVE  verifications'[v].stamped
  <2>1. CASE verifications'[v] = verifications[v]
    BY <1>2, <2>1 DEF Dated
  <2>2. ASSUME NEW answer \in {"approved", "rejected"},
               verifications[v] \in Verification,
               verifications'[v] = Reviewed(verifications[v], answer)
        PROVE  verifications'[v].stamped
    BY <1>2, <2>2 DEF Reviewed, Verification
  <2>3. ASSUME NEW w \in Workers,
               verifications'[v] =
                 [property |-> request[w].property, kind |-> request[w].kind,
                  status |-> "pending", stamped |-> FALSE]
        PROVE  FALSE
    <3>1. verifications'[v].status = "pending"
      BY <2>3
    <3> QED BY <1>2, <3>1
  <2> QED BY <1>2, <2>1, <2>2, <2>3, CheckMoves
<1> QED BY <1>1, <1>2 DEF Dated

(* Dates stay: a KYC row and a verification keep the date of their approval.  *)
LEMMA DatesStay ==
    ASSUME TypeInv, [Next]_vars
    PROVE  /\ \A u \in Users : Vetted(u) => Vetted(u)'
           /\ \A p \in Properties : \A kinds : Passed(p, kinds) => Passed(p, kinds)'
<1> USE NoListingRowAssumption DEF TypeInv
<1>1. ASSUME NEW u \in Users, Vetted(u) PROVE Vetted(u)'
  <2>1. CASE kyc'[u] = kyc[u]
    BY <1>1, <2>1 DEF Vetted
  <2>2. ASSUME NEW answer \in {"verified", "rejected"}, kyc[u] \in KYC,
               kyc'[u] = Decided(kyc[u], answer)
        PROVE  Vetted(u)'
    <3>1. kyc'[u] \in KYC /\ kyc'[u].stamped
      BY <1>1, <2>2 DEF Vetted, Decided, KYC
    <3> QED BY <3>1 DEF Vetted
  <2> QED BY <1>1, <2>1, <2>2, KycMoves DEF Vetted
<1>2. ASSUME NEW p \in Properties, NEW kinds, Passed(p, kinds) PROVE Passed(p, kinds)'
  <2>1. PICK v \in Checks : /\ verifications[v] # NoRow
                            /\ verifications[v].property = p
                            /\ verifications[v].kind \in kinds
                            /\ verifications[v].stamped
    BY <1>2 DEF Passed
  <2>2. CASE verifications'[v] = verifications[v]
    BY <2>1, <2>2 DEF Passed
  <2>3. ASSUME NEW answer \in {"approved", "rejected"},
               verifications[v] \in Verification,
               verifications'[v] = Reviewed(verifications[v], answer)
        PROVE  Passed(p, kinds)'
    <3>1. /\ verifications'[v] \in Verification
          /\ verifications'[v].property = p
          /\ verifications'[v].kind \in kinds
          /\ verifications'[v].stamped
      BY <2>1, <2>3 DEF Reviewed, Verification
    <3> QED BY <3>1 DEF Passed
  <2> QED BY <2>1, <2>2, <2>3, CheckMoves
<1> QED BY <1>1, <1>2

(* What is approved was approved, and kinds are passed one by one.            *)
LEMMA ApprovedPassed ==
    ASSUME Dated, NEW p, NEW kinds, Approved(p, kinds)
    PROVE  Passed(p, kinds)
BY DEF Dated, Approved, Passed

BackedInv == Dated /\ VerifiedBacked

(* BR-04: a property is verified only after a photo check and a visit of it   *)
(* were both approved, though reviews list, decide and write in three calls.  *)
THEOREM BackedCorrect == Spec => []VerifiedBacked
<1>1. Init => BackedInv
  BY DEF Init, BackedInv, Dated, VerifiedBacked, Verified, Idle
<1>2. TypeInv /\ BackedInv /\ [Next]_vars => BackedInv'
  <2> SUFFICES ASSUME TypeInv, BackedInv, [Next]_vars PROVE BackedInv'
    OBVIOUS
  <2>1. Dated'
    BY DatedStep DEF BackedInv
  <2>2. ASSUME NEW p \in Properties, Verified(p)'
        PROVE  Passed(p, Photo)' /\ Passed(p, Visit)'
    <3>1. CASE Verified(p)
      BY <3>1, DatesStay DEF BackedInv, VerifiedBacked
    <3>2. CASE ~Verified(p)
      <4>1. \E w \in Workers : request[w].stage = "promote" /\ request[w].property = p
        <5>1. properties'[p] # NoRow /\ properties'[p].status = "verified"
          BY <2>2 DEF Verified
        <5>2. properties'[p] # properties[p]
          BY <3>2, <5>1 DEF Verified
        <5>3. ASSUME NEW w \in Workers,
                     properties'[p] = [owner |-> request[w].user, status |-> "draft"]
              PROVE  FALSE
          BY <5>1, <5>3
        <5> QED BY <5>1, <5>2, <5>3, PropertyMoves
      <4> QED BY <4>1, DatesStay DEF BackedInv, VerifiedBacked
    <3> QED BY <3>1, <3>2
  <2>3. ASSUME NEW w \in Workers, request'[w].stage = "promote"
        PROVE  \E p \in Properties : /\ request'[w].property = p
                                     /\ Passed(p, Photo)' /\ Passed(p, Visit)'
    <3>1. CASE request'[w] = request[w]
      <4>1. /\ request[w].stage = "promote"
            /\ request[w].property \in Properties
        BY <2>3, <3>1, Stages DEF TypeInv, ReviewRequest
      <4> QED BY <3>1, <4>1, DatesStay DEF BackedInv, VerifiedBacked
    <3>2. ASSUME NEW p \in Properties, request'[w].property = p, BothApproved(p)
          PROVE  Passed(p, Photo)' /\ Passed(p, Visit)'
      <4>1. Passed(p, Photo) /\ Passed(p, Visit)
        BY <3>2, ApprovedPassed DEF BackedInv, BothApproved
      <4> QED BY <4>1, DatesStay
    <3> QED BY <2>3, <3>1, <3>2, RequestMoves
  <2>4. VerifiedBacked'
    <3>1. ASSUME NEW w \in Workers, request'[w].stage = "promote"
          PROVE  /\ Passed(request[w].property, Photo)'
                 /\ Passed(request[w].property, Visit)'
      BY <2>3, <3>1 DEF Passed
    <3> QED BY <2>2, <3>1 DEF VerifiedBacked
  <2> QED BY <2>1, <2>4 DEF BackedInv
<1>3. BackedInv => VerifiedBacked
  BY DEF BackedInv
<1> QED BY <1>1, <1>2, <1>3, TypeCorrect, PTL DEF Spec

VettedInv == Dated /\ OnlyLandlords /\ ListedVetted

(* BR-07: the owner of a property is a landlord whose KYC was approved        *)
(* before, whatever reviews run between the check and the insert.             *)
THEOREM VettedCorrect == Spec => []ListedVetted
<1> USE NoListingRowAssumption
<1>1. Init => VettedInv
  BY DEF Init, VettedInv, Dated, OnlyLandlords, ListedVetted, Idle
<1>2. TypeInv /\ VettedInv /\ [Next]_vars => VettedInv'
  <2> SUFFICES ASSUME TypeInv, VettedInv, [Next]_vars PROVE VettedInv'
    OBVIOUS
  <2>1. Dated'
    BY DatedStep DEF VettedInv
  <2>2. OnlyLandlords'
    BY LandlordStep DEF VettedInv
  <2>3. \A u \in Users : u \in Landlords /\ Vetted(u) => u \in Landlords /\ Vetted(u)'
    BY DatesStay
  <2>4. ASSUME NEW p \in Properties, properties'[p] # NoRow
        PROVE  \E u \in Users : /\ properties'[p].owner = u
                                /\ u \in Landlords /\ Vetted(u)
    <3>1. ASSUME properties[p] # NoRow, properties'[p].owner = properties[p].owner
          PROVE  \E u \in Users : /\ properties'[p].owner = u
                                  /\ u \in Landlords /\ Vetted(u)
      BY <3>1, LandlordAssumption DEF VettedInv, ListedVetted
    <3>2. ASSUME NEW w \in Workers, request[w].stage = "create",
                 properties'[p] = [owner |-> request[w].user, status |-> "draft"]
          PROVE  \E u \in Users : /\ properties'[p].owner = u
                                  /\ u \in Landlords /\ Vetted(u)
      BY <3>2, LandlordAssumption DEF VettedInv, ListedVetted
    <3> QED BY <2>4, <3>1, <3>2, PropertyMoves
  <2>5. ASSUME NEW w \in Workers, request'[w].stage = "create"
        PROVE  \E u \in Users : /\ request'[w].user = u
                                /\ u \in Landlords /\ Vetted(u)
    <3>1. CASE request'[w] = request[w]
      BY <2>5, <3>1, LandlordAssumption DEF VettedInv, ListedVetted
    <3>2. ASSUME NEW u \in Users, MayList(u), request'[w].user = u
          PROVE  u \in Landlords /\ Vetted(u)
      BY <3>2 DEF VettedInv, OnlyLandlords, MayList, Dated, Vetted
    <3> QED BY <2>5, <3>1, <3>2, RequestMoves
  <2>6. ListedVetted'
    <3>1. ASSUME NEW p \in Properties, properties'[p] # NoRow
          PROVE  properties'[p].owner \in Landlords /\ Vetted(properties[p].owner)'
      BY <2>3, <2>4, <3>1 DEF Vetted
    <3>2. ASSUME NEW w \in Workers, request'[w].stage = "create"
          PROVE  request'[w].user \in Landlords /\ Vetted(request[w].user)'
      BY <2>3, <2>5, <3>2 DEF Vetted
    <3> QED BY <3>1, <3>2 DEF ListedVetted
  <2> QED BY <2>1, <2>2, <2>6 DEF VettedInv
<1>3. VettedInv => ListedVetted
  BY DEF VettedInv
<1> QED BY <1>1, <1>2, <1>3, TypeCorrect, PTL DEF Spec

(* A request at the insert of a verification is past the draft.               *)
OpenBegun ==
    \A w \in Workers : request[w].stage = "open" =>
        properties[request[w].property].status # "draft"

BegunInv == OpenBegun /\ ChecksBegun

(* No verification is opened on a draft, and a property with one never falls  *)
(* back to being a draft.                                                     *)
THEOREM BegunCorrect == Spec => []ChecksBegun
<1> USE NoListingRowAssumption
<1>1. Init => BegunInv
  BY DEF Init, BegunInv, OpenBegun, ChecksBegun, Idle
<1>2. TypeInv /\ BegunInv /\ [Next]_vars => BegunInv'
  <2> SUFFICES ASSUME TypeInv, BegunInv, [Next]_vars PROVE BegunInv'
    OBVIOUS
  <2>1. ASSUME NEW p \in Properties, properties[p] # NoRow, properties[p].status # "draft"
        PROVE  properties'[p] # NoRow /\ properties'[p].status # "draft"
    BY <2>1, PropertyMoves
  <2>2. ASSUME NEW w \in Workers, request'[w].stage = "open"
        PROVE  properties'[request'[w].property].status # "draft"
    <3>1. CASE request'[w] = request[w]
      <4>1. /\ request[w].property \in Properties
            /\ properties[request[w].property] # NoRow
            /\ properties[request[w].property].status # "draft"
        BY <2>2, <3>1, Stages DEF TypeInv, Linked, InitiateRequest, BegunInv, OpenBegun
      <4> QED BY <2>1, <3>1, <4>1
    <3>2. CASE request'[w] # request[w]
      <4>1. PICK p \in Properties :
              /\ request'[w].property = p
              /\ properties[p] # NoRow
              /\ \/ properties'[p].status = "pending_verification"
                 \/ properties[p].status # "draft"
        BY <2>2, <3>2, RequestMoves
      <4> QED BY <2>1, <4>1
    <3> QED BY <3>1, <3>2
  <2>3. ASSUME NEW v \in Checks, verifications'[v] # NoRow
        PROVE  /\ properties'[verifications'[v].property] # NoRow
               /\ properties'[verifications'[v].property].status # "draft"
    <3>1. ASSUME verifications[v] # NoRow,
                 verifications'[v].property = verifications[v].property
          PROVE  /\ properties'[verifications'[v].property] # NoRow
                 /\ properties'[verifications'[v].property].status # "draft"
      <4>1. verifications[v].property \in Properties
        BY <3>1 DEF TypeInv, TypeOK, Verification
      <4> QED BY <2>1, <3>1, <4>1 DEF BegunInv, ChecksBegun
    <3>2. ASSUME NEW w \in Workers, request[w].stage = "open",
                 verifications'[v].property = request[w].property
          PROVE  /\ properties'[verifications'[v].property] # NoRow
                 /\ properties'[verifications'[v].property].status # "draft"
      <4>1. /\ request[w].property \in Properties
            /\ properties[request[w].property] # NoRow
            /\ properties[request[w].property].status # "draft"
        BY <3>2, Stages DEF TypeInv, Linked, InitiateRequest, BegunInv, OpenBegun
      <4> QED BY <2>1, <3>2, <4>1
    <3>3. ASSUME NEW answer \in {"approved", "rejected"}, verifications[v] \in Verification,
                 verifications'[v] = Reviewed(verifications[v], answer)
          PROVE  verifications'[v].property = verifications[v].property
      BY <3>3 DEF Reviewed, Verification
    <3>4. ASSUME NEW w \in Workers,
                 verifications'[v] =
                   [property |-> request[w].property, kind |-> request[w].kind,
                    status |-> "pending", stamped |-> FALSE]
          PROVE  verifications'[v].property = request[w].property
      BY <3>4
    <3>5. CASE verifications'[v] = verifications[v]
      BY <2>3, <3>1, <3>5
    <3>6. ASSUME NEW w \in Workers, request[w].stage = "open",
                 verifications'[v] =
                   [property |-> request[w].property, kind |-> request[w].kind,
                    status |-> "pending", stamped |-> FALSE]
          PROVE  /\ properties'[verifications'[v].property] # NoRow
                 /\ properties'[verifications'[v].property].status # "draft"
      BY <3>2, <3>4, <3>6
    <3>7. ASSUME NEW answer \in {"approved", "rejected"}, verifications[v] \in Verification,
                 verifications'[v] = Reviewed(verifications[v], answer)
          PROVE  /\ properties'[verifications'[v].property] # NoRow
                 /\ properties'[verifications'[v].property].status # "draft"
      BY <3>1, <3>3, <3>7, NoListingRowAssumption
    <3> QED BY <3>5, <3>6, <3>7, CheckMoves
  <2> QED BY <2>2, <2>3 DEF BegunInv, OpenBegun, ChecksBegun
<1>3. BegunInv => ChecksBegun
  BY DEF BegunInv
<1> QED BY <1>1, <1>2, <1>3, TypeCorrect, PTL DEF Spec

(* A decision is never made undecided and its date never taken away.          *)
THEOREM DecisionsStand == Spec => DecisionStands
<1> DEFINE Stands == \A u \in Users : kyc[u] # NoRow =>
              /\ kyc'[u] # NoRow
              /\ kyc[u].status # "pending" => kyc'[u].status # "pending"
              /\ kyc[u].stamped => kyc'[u].stamped
<1>1. TypeInv /\ [Next]_vars => Stands
  <2> SUFFICES ASSUME TypeInv, [Next]_vars, NEW u \in Users, kyc[u] # NoRow
               PROVE  /\ kyc'[u] # NoRow
                      /\ kyc[u].status # "pending" => kyc'[u].status # "pending"
                      /\ kyc[u].stamped => kyc'[u].stamped
    OBVIOUS
  <2>1. CASE kyc'[u] = kyc[u]
    BY <2>1
  <2>2. ASSUME NEW answer \in {"verified", "rejected"}, kyc[u] \in KYC,
               kyc'[u] = Decided(kyc[u], answer)
        PROVE  /\ kyc'[u] # NoRow
               /\ kyc'[u].status # "pending"
               /\ kyc[u].stamped => kyc'[u].stamped
    <3>1. kyc'[u] \in KYC
      BY <2>2, RowTypes
    <3>2. kyc'[u] # NoRow
      BY <3>1, NoListingRowAssumption
    <3>3. kyc'[u].status = answer
      BY <2>2 DEF Decided
    <3>4. ASSUME kyc[u].stamped PROVE kyc'[u].stamped
      BY <2>2, <3>4 DEF Decided, KYC
    <3> QED BY <3>2, <3>3, <3>4
  <2> QED BY <2>1, <2>2, KycMoves
<1>2. TypeInv /\ [Next]_vars => [Stands]_vars
  BY <1>1
<1> QED BY <1>2, TypeCorrect, PTL DEF Spec, DecisionStands

(* What the promise sees of a step that leaves a table alone.                 *)
LEMMA MappingUnchanged ==
    /\ UNCHANGED kyc => UNCHANGED ClearedLandlords
    /\ UNCHANGED properties => UNCHANGED <<ListedBy, Badges>>
    /\ UNCHANGED verifications => UNCHANGED PassedKinds
BY DEF ClearedLandlords, Vetted, ListedBy, Badges, Verified, PassedKinds, Passed

(* Writing a status leaves the owner and changes the badge of one property.   *)
LEMMA MappingStatus ==
    ASSUME TypeOK, NEW p \in Properties, properties[p] # NoRow,
           NEW status \in {"draft", "pending_verification", "verified"},
           SetStatus(p, status)
    PROVE  /\ UNCHANGED ListedBy
           /\ Badges' = IF status = "verified" THEN Badges \cup {p} ELSE Badges \ {p}
<1>1. /\ properties'[p] # NoRow
      /\ properties'[p].status = status
      /\ properties'[p].owner = properties[p].owner
      /\ \A q \in Properties : q # p => properties'[q] = properties[q]
  BY SettingStatus DEF SetStatus, TypeOK
<1>2. UNCHANGED ListedBy
  <2>1. \A q \in Properties :
          (IF properties'[q] = NoRow THEN NoRow ELSE properties'[q].owner)
            = (IF properties[q] = NoRow THEN NoRow ELSE properties[q].owner)
    BY <1>1
  <2> QED BY <2>1 DEF ListedBy
<1>3. \A q \in Properties : Verified(q)' <=> IF q = p THEN status = "verified" ELSE Verified(q)
  BY <1>1 DEF Verified
<1> QED BY <1>2, <1>3 DEF Badges

(* Listings keep the promise of module Badge: every call is one of its steps  *)
(* or no step of it.                                                          *)
THEOREM PromiseCorrect == Spec => ImplementsBadge
<1> USE NoListingRowAssumption
<1>1. Init => Promise!Init
  <2> SUFFICES ASSUME Init PROVE Promise!Init
    OBVIOUS
  <2>1. ClearedLandlords = {}
    BY LandlordAssumption DEF Init, ClearedLandlords, Vetted
  <2>2. ListedBy = [p \in Properties |-> NoRow]
    BY DEF Init, ListedBy
  <2>3. PassedKinds = [p \in Properties |-> {}]
    BY DEF Init, PassedKinds, Passed
  <2>4. Badges = {}
    BY DEF Init, Badges, Verified
  <2> QED BY <2>1, <2>2, <2>3, <2>4 DEF Promise!Init
<1>2. TypeInv /\ VerifiedBacked /\ ListedVetted /\ [Next]_vars
        => [Promise!Next]_(Promise!promise)
  <2> SUFFICES ASSUME TypeInv, VerifiedBacked, ListedVetted, [Next]_vars
               PROVE  Promise!Next \/ UNCHANGED Promise!promise
    BY DEF Promise!promise
  <2> USE DEF TypeInv
  <2>1. ASSUME UNCHANGED <<kyc, properties, verifications>>
        PROVE  UNCHANGED Promise!promise
    BY <2>1, MappingUnchanged DEF Promise!promise
  <2>2. ASSUME NEW w \in Workers, SubmitInsert(w) PROVE UNCHANGED Promise!promise
    <3>1. \A u \in Landlords : Vetted(u)' = Vetted(u)
      <4> TAKE u \in Landlords
      <4>1. request[w].user \in Users /\ kyc \in [Users -> KYC \cup {NoRow}] /\ u \in Users
        BY <2>2, Stages, LandlordAssumption DEF SubmitInsert, SubmitRequest, TypeOK
      <4>2. CASE UNCHANGED kyc
        BY <4>2 DEF Vetted
      <4>3. CASE kyc[request[w].user] = NoRow /\ kyc' = [kyc EXCEPT ![request[w].user] = NewKYC]
        BY <4>1, <4>3 DEF Vetted, NewKYC
      <4> QED BY <2>2, <4>2, <4>3 DEF SubmitInsert, InsertKYC
    <3>2. UNCHANGED ClearedLandlords
      BY <3>1 DEF ClearedLandlords
    <3> QED BY <2>2, <3>2, MappingUnchanged DEF SubmitInsert, Promise!promise
  <2>3. ASSUME NEW w \in Workers, DecideWrite(w)
        PROVE  Promise!Next \/ UNCHANGED Promise!promise
    <3>1. PICK u \in Users, answer \in {"verified", "rejected"} :
            /\ kyc[u] \in KYC
            /\ kyc' = [kyc EXCEPT ![u] = Decided(kyc[u], answer)]
            /\ kyc \in [Users -> KYC \cup {NoRow}]
      BY <2>3, Stages DEF DecideWrite, DecideRequest, TypeOK, Linked
    <3>2. UNCHANGED <<ListedBy, PassedKinds, Badges>>
      BY <2>3, MappingUnchanged DEF DecideWrite
    <3>3. kyc'[u] = Decided(kyc[u], answer) /\ kyc'[u] \in KYC
      BY <3>1, RowTypes
    <3>4. kyc'[u].stamped = (kyc[u].stamped \/ answer = "verified")
      BY <3>1, <3>3, RowTypes
    <3>5. Vetted(u)' <=> Vetted(u) \/ answer = "verified"
      BY <3>1, <3>3, <3>4 DEF Vetted
    <3>6. \A x \in Users : x # u => (Vetted(x)' <=> Vetted(x))
      BY <3>1 DEF Vetted
    <3>7. CASE u \in Landlords /\ answer = "verified"
      <4>1. ClearedLandlords' = ClearedLandlords \cup {u}
        BY <3>5, <3>6, <3>7, LandlordAssumption DEF ClearedLandlords
      <4> QED BY <3>2, <3>7, <4>1 DEF Promise!Next, Promise!Clear
    <3>8. CASE ~(u \in Landlords /\ answer = "verified")
      <4>1. ClearedLandlords' = ClearedLandlords
        BY <3>5, <3>6, <3>8, LandlordAssumption DEF ClearedLandlords
      <4> QED BY <3>2, <4>1 DEF Promise!promise
    <3> QED BY <3>7, <3>8
  <2>4. ASSUME NEW w \in Workers, NEW p \in Properties, CreateInsert(w, p)
        PROVE  Promise!Next
    <3> DEFINE u == request[w].user
    <3>1. u \in Landlords /\ u \in ClearedLandlords /\ u # NoRow
      BY <2>4, LandlordAssumption DEF CreateInsert, ListedVetted, ClearedLandlords
    <3>2. properties'[p] = [owner |-> u, status |-> "draft"] /\ properties'[p] # NoRow
      <4>1. u \in Users
        BY <3>1, LandlordAssumption
      <4>2. [owner |-> u, status |-> "draft"] \in Property
        BY <4>1 DEF Property
      <4> QED BY <2>4, <4>2 DEF CreateInsert, TypeOK
    <3>3. \A q \in Properties : q # p => properties'[q] = properties[q]
      BY <2>4 DEF CreateInsert, TypeOK
    <3>4. ListedBy[p] = NoRow
      BY <2>4 DEF CreateInsert, ListedBy
    <3>5. ListedBy' = [ListedBy EXCEPT ![p] = u]
      <4>1. \A q \in Properties :
              (IF properties'[q] = NoRow THEN NoRow ELSE properties'[q].owner)
                = IF q = p THEN u
                  ELSE IF properties[q] = NoRow THEN NoRow ELSE properties[q].owner
        BY <3>2, <3>3
      <4> QED BY <4>1 DEF ListedBy
    <3>6. Badges' = Badges
      BY <2>4, <3>2, <3>3 DEF CreateInsert, Badges, Verified
    <3>7. UNCHANGED <<ClearedLandlords, PassedKinds>>
      BY <2>4, MappingUnchanged DEF CreateInsert
    <3> QED BY <3>1, <3>4, <3>5, <3>6, <3>7 DEF Promise!Next, Promise!List
  <2>5. ASSUME NEW w \in Workers, InitiateMove(w) PROVE Promise!Next
    <3> DEFINE p == request[w].property
    <3>1. p \in Properties /\ properties[p] # NoRow /\ SetStatus(p, "pending_verification")
      BY <2>5, Stages DEF InitiateMove, InitiateRequest, TypeOK, Linked
    <3>2. UNCHANGED ListedBy /\ Badges' = Badges \ {p}
      BY <3>1, MappingStatus
    <3>3. UNCHANGED <<ClearedLandlords, PassedKinds>>
      BY <2>5, MappingUnchanged DEF InitiateMove
    <3> QED BY <3>1, <3>2, <3>3 DEF Promise!Next, Promise!Withdraw
  <2>6. ASSUME NEW w \in Workers, NEW v \in Checks, InitiateOpen(w, v)
        PROVE  UNCHANGED Promise!promise
    <3>1. verifications'[v].stamped = FALSE
      <4>1. verifications'[v] =
              [property |-> request[w].property, kind |-> request[w].kind,
               status |-> "pending", stamped |-> FALSE]
        BY <2>6 DEF InitiateOpen, TypeOK
      <4> QED BY <4>1
    <3>2. /\ verifications[v] = NoRow
          /\ \A x \in Checks : x # v => verifications'[x] = verifications[x]
      BY <2>6 DEF InitiateOpen, TypeOK
    <3>3. \A p \in Properties, k \in Kinds : Passed(p, {k})' <=> Passed(p, {k})
      BY <3>1, <3>2 DEF Passed
    <3>4. UNCHANGED PassedKinds
      BY <3>3 DEF PassedKinds
    <3> QED BY <2>6, <3>4, MappingUnchanged DEF InitiateOpen, Promise!promise
  <2>7. ASSUME NEW w \in Workers, NEW v \in Checks,
               NEW answer \in {"approved", "rejected"}, ReviewWrite(w, v, answer)
        PROVE  Promise!Next \/ UNCHANGED Promise!promise
    <3> DEFINE r == verifications[v]
               p == r.property
               k == r.kind
    <3>1. /\ r \in Verification /\ r # NoRow
          /\ verifications' = [verifications EXCEPT ![v] = Reviewed(r, answer)]
          /\ verifications \in [Checks -> Verification \cup {NoRow}]
      BY <2>7 DEF ReviewWrite, TypeOK
    <3>2. /\ p \in Properties /\ k \in Kinds /\ properties[p] # NoRow
      BY <3>1 DEF Verification, Linked
    <3>3. /\ verifications'[v] = Reviewed(r, answer) /\ verifications'[v] # NoRow
          /\ \A x \in Checks : x # v => verifications'[x] = verifications[x]
      BY <3>1, RowTypes
    <3>4. /\ verifications'[v].property = p /\ verifications'[v].kind = k
          /\ verifications'[v].stamped = (r.stamped \/ answer = "approved")
      BY <3>1, <3>3 DEF Reviewed, Verification
    <3>5. ListedBy[p] # NoRow
      <4>1. properties[p] \in Property
        BY <3>2 DEF TypeOK
      <4>2. properties[p].owner # NoRow
        BY <4>1 DEF Property
      <4> QED BY <3>2, <4>2 DEF ListedBy
    <3>6. UNCHANGED <<ClearedLandlords, ListedBy, Badges>>
      BY <2>7, MappingUnchanged DEF ReviewWrite
    <3>7. CASE answer = "approved"
      <4>1. \A q \in Properties, j \in Kinds :
              Passed(q, {j})' <=> Passed(q, {j}) \/ (q = p /\ j = k)
        BY <3>1, <3>3, <3>4, <3>7 DEF Passed
      <4>2. PassedKinds' = [PassedKinds EXCEPT ![p] = @ \cup {k}]
        <5>1. \A q \in Properties :
                {j \in Kinds : Passed(q, {j})'}
                  = IF q = p THEN {j \in Kinds : Passed(q, {j})} \cup {k}
                    ELSE {j \in Kinds : Passed(q, {j})}
          BY <3>2, <4>1
        <5> HIDE DEF p, k
        <5> QED BY <3>2, <5>1 DEF PassedKinds
      <4>3. Promise!Pass(p, k)
        BY <3>5, <3>6, <4>2 DEF Promise!Pass
      <4> QED BY <3>2, <4>3 DEF Promise!Next
    <3>8. CASE answer = "rejected"
      <4>1. verifications'[v].stamped = r.stamped
        BY <3>1, <3>4, <3>8 DEF Verification
      <4>2. \A q \in Properties, j \in Kinds : Passed(q, {j})' <=> Passed(q, {j})
        BY <3>1, <3>3, <3>4, <4>1 DEF Passed
      <4>3. UNCHANGED PassedKinds
        BY <4>2 DEF PassedKinds
      <4> QED BY <3>6, <4>3 DEF Promise!promise
    <3> QED BY <3>7, <3>8
  <2>8. ASSUME NEW w \in Workers, ReviewPromote(w) PROVE Promise!Next
    <3> DEFINE p == request[w].property
    <3>1. p \in Properties /\ properties[p] # NoRow /\ SetStatus(p, "verified")
      BY <2>8, Stages DEF ReviewPromote, ReviewRequest, TypeOK, Linked
    <3>2. UNCHANGED ListedBy /\ Badges' = Badges \cup {p}
      BY <3>1, MappingStatus
    <3>3. UNCHANGED <<ClearedLandlords, PassedKinds>>
      BY <2>8, MappingUnchanged DEF ReviewPromote
    <3>4. ASSUME NEW kinds, Passed(p, kinds) PROVE PassedKinds[p] \cap kinds # {}
      <4>1. PICK v \in Checks : /\ verifications[v] # NoRow
                                /\ verifications[v].property = p
                                /\ verifications[v].kind \in kinds
                                /\ verifications[v].stamped
        BY <3>4 DEF Passed
      <4>2. verifications[v].kind \in Kinds
        BY <4>1 DEF TypeOK, Verification
      <4>3. Passed(p, {verifications[v].kind})
        BY <4>1 DEF Passed
      <4> QED BY <3>1, <4>1, <4>2, <4>3 DEF PassedKinds
    <3>5. PassedKinds[p] \cap Photo # {} /\ PassedKinds[p] \cap Visit # {}
      BY <2>8, <3>4 DEF ReviewPromote, VerifiedBacked
    <3> QED BY <3>1, <3>2, <3>3, <3>5 DEF Promise!Next, Promise!Award
  <2>9. ASSUME Next PROVE Promise!Next \/ UNCHANGED Promise!promise
    BY <2>1, <2>2, <2>3, <2>4, <2>5, <2>6, <2>7, <2>8, <2>9
       DEF Next, SubmitKYC, ReviewKYC, CreateProperty, InitiateVerification,
           ReviewVerification, Abort, SubmitCheck, DecideCheck, CreateCheck,
           InitiateRead, ReviewGather
  <2> QED BY <2>1, <2>9 DEF vars
<1> QED BY <1>1, <1>2, TypeCorrect, BackedCorrect, VettedCorrect, PTL
        DEF Spec, ImplementsBadge, Promise!Spec
=============================================================================
