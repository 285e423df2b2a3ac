------------------------ MODULE TokenPaymentsProofs ------------------------
(***************************************************************************)
(* Proofs about module TokenPayments, for any number of squads, payments,  *)
(* concurrent requests and webhooks, and any deposits.                     *)
(***************************************************************************)
EXTENDS TokenPayments, SquadsProofs

(* A squad that has a row and a property.                                     *)
Funded(s) == Exists(s) /\ squads[s].property \in Properties

(* The foreign keys of transactions, and what a request under way relies on:  *)
(* its squad has a row and a property, its transaction has a row.             *)
Linked ==
    /\ \A t \in TxIds : txs[t] # NoRow => Funded(txs[t].squad)
    /\ \A w \in Payers : /\ paying[w].stage = "create" => Funded(paying[w].squad)
                         /\ paying[w].stage \in {"order", "ref"}
                              => txs[paying[w].tx] # NoRow
    /\ \A h \in Hooks : hook[h] # Idle => txs[hook[h].tx] # NoRow
    /\ \A m \in Movers : moving[m] # Idle => Funded(moving[m].squad)

(* The counter a share is divided by is never 0.                              *)
Counted == \A s \in SquadIds : Exists(s) => squads[s].count >= 1

PayTypeInv == PayTypeOK /\ References /\ Linked /\ Counted

-----------------------------------------------------------------------------
(* Rows after the statements on them.                                         *)

(* The rows the payment statements write to squads keep every other field.    *)
LEMMA PaidRows ==
    ASSUME NEW r \in Squad
    PROVE  /\ \A n \in Nat : /\ Credited(r, n) \in Squad
                             /\ Credited(r, n).status = r.status
                             /\ Credited(r, n).property = r.property
                             /\ Credited(r, n).count = r.count
                             /\ Credited(r, n).total = r.total + n
                             /\ Credited(r, n).total >= r.total
           /\ \A t \in SquadStatus : /\ [r EXCEPT !.status = t] \in Squad
                                     /\ [r EXCEPT !.status = t].status = t
                                     /\ [r EXCEPT !.status = t].property = r.property
                                     /\ [r EXCEPT !.status = t].count = r.count
                                     /\ [r EXCEPT !.status = t].total = r.total
                                     /\ [r EXCEPT !.status = t].total >= r.total
  BY DEF Squad, Credited

(* The rows the payment statements write to transactions, likewise.           *)
LEMMA TxRows ==
    ASSUME NEW r \in Transaction
    PROVE  /\ /\ [r EXCEPT !.ref = TRUE] \in Transaction
              /\ [r EXCEPT !.ref = TRUE].squad = r.squad
              /\ [r EXCEPT !.ref = TRUE].property = r.property
              /\ [r EXCEPT !.ref = TRUE].type = r.type
              /\ [r EXCEPT !.ref = TRUE].amount = r.amount
              /\ [r EXCEPT !.ref = TRUE].status = r.status
              /\ [r EXCEPT !.ref = TRUE].ref = TRUE
           /\ /\ [r EXCEPT !.status = "success"] \in Transaction
              /\ [r EXCEPT !.status = "success"].squad = r.squad
              /\ [r EXCEPT !.status = "success"].property = r.property
              /\ [r EXCEPT !.status = "success"].type = r.type
              /\ [r EXCEPT !.status = "success"].amount = r.amount
              /\ [r EXCEPT !.status = "success"].ref = r.ref
              /\ [r EXCEPT !.status = "success"].status = "success"
  BY DEF Transaction

(* A share of a deposit is an amount, since somebody shares it.               *)
LEMMA ShareType ==
    ASSUME NEW d \in Nat, NEW n \in Nat, n >= 1
    PROVE  Share(d, n) \in Nat
  BY DEF Share

(* What a payment asks for is an amount.                                      *)
LEMMA AmountType ==
    ASSUME NEW r \in Squad, r.property \in Properties, r.count >= 1
    PROVE  AmountDue(r) \in Nat
<1>1. Deposit[r.property] \in Nat /\ r.count \in Nat
  BY DepositAssumption DEF Squad
<1>2. Share(Deposit[r.property], r.count) \in Nat
  BY <1>1, ShareType
<1> QED BY <1>1, <1>2 DEF AmountDue

-----------------------------------------------------------------------------
(* What no step takes away.                                                   *)

(* What the squad requests write to a squad's row: an answer moves its        *)
(* counter, the acceptance of a proposal its property and status.             *)
LEMMA SquadWrites ==
    ASSUME TypeInv, [Next]_vars, NEW s \in SquadIds, Exists(s)
    PROVE  /\ squads[s] \in Squad
           /\ \/ squads'[s] = squads[s]
              \/ \E answer : squads'[s] = Seated(squads[s], answer)
              \/ \E u \in Users, q \in ProposalIds :
                   /\ ResolveProposal(u, q, TRUE) /\ proposals[q].squad = s
                   /\ proposals[q].property \in Properties
                   /\ squads'[s] = Targeted(squads[s], proposals[q].property)
<1> USE NoRowAssumption DEF TypeInv, TypeOK, References, Exists
<1>1. squads[s] \in Squad
  OBVIOUS
<1>2. ASSUME NEW t \in SquadIds, NEW u \in Users,
             NEW p \in Properties \cup {NoProperty}, NEW m \in PaymentModels,
             CreateSquad(t, u, p, m)
      PROVE  squads'[s] = squads[s]
  BY <1>2 DEF CreateSquad, InsertSquad
<1>3. ASSUME NEW u \in Users, NEW t \in SquadIds, NEW accept \in BOOLEAN,
             RespondToInvite(u, t, accept)
      PROVE  \/ squads'[s] = squads[s]
             \/ \E answer : squads'[s] = Seated(squads[s], answer)
  BY <1>3 DEF RespondToInvite, UpdateMemberStatus
<1>4. ASSUME NEW u \in Users, NEW q \in ProposalIds, NEW accept \in BOOLEAN,
             ResolveProposal(u, q, accept)
      PROVE  \/ squads'[s] = squads[s]
             \/ /\ ResolveProposal(u, q, TRUE) /\ proposals[q].squad = s
                /\ proposals[q].property \in Properties
                /\ squads'[s] = Targeted(squads[s], proposals[q].property)
  <2>1. proposals[q].property \in Properties
    BY <1>4 DEF ResolveProposal, Proposal
  <2>2. CASE ~accept
    BY <1>4, <2>2 DEF ResolveProposal, RejectProposal
  <2>3. CASE accept
    <3>1. ResolveProposal(u, q, TRUE)
      BY <1>4, <2>3
    <3> QED BY <1>4, <2>1, <2>3, <3>1 DEF ResolveProposal, AcceptProposal
  <2> QED BY <2>2, <2>3
<1>5. CASE UNCHANGED squads
  BY <1>1, <1>5
<1>6. \/ UNCHANGED squads
      \/ \E t \in SquadIds, u \in Users, p \in Properties \cup {NoProperty},
           m \in PaymentModels : CreateSquad(t, u, p, m)
      \/ \E u \in Users, t \in SquadIds, accept \in BOOLEAN :
           RespondToInvite(u, t, accept)
      \/ \E u \in Users, q \in ProposalIds, accept \in BOOLEAN :
           ResolveProposal(u, q, accept)
  BY DEF Next, Create, Invite, Respond, Propose, Resolve, Crash, vars, rows,
         InviteRead, InviteCheck, InviteInsert, ProposeCheck, ProposeInsert,
         AbortInvite, AbortPropose
<1>7. CASE \E u \in Users, q \in ProposalIds, accept \in BOOLEAN :
             ResolveProposal(u, q, accept)
  BY <1>1, <1>4, <1>7
<1> QED
  <2> HIDE DEF Exists, TypeOK, References
  <2> QED BY <1>1, <1>2, <1>3, <1>5, <1>6, <1>7

(* A squad keeps its row, a property and a positive counter under the squad   *)
(* requests.                                                                  *)
LEMMA SquadFunded ==
    ASSUME TypeInv, [Next]_vars, NEW s \in SquadIds, Exists(s)
    PROVE  /\ Exists(s)'
           /\ squads[s].property \in Properties => squads'[s].property \in Properties
           /\ squads'[s].count >= squads[s].count
           /\ squads'[s].total = squads[s].total
<1>1. squads[s] \in Squad /\ squads[s].count \in Nat
  BY SquadWrites DEF Squad
<1>2. Exists(s)'
  BY RowsStay
<1>3. /\ \A answer : /\ Seated(squads[s], answer).property = squads[s].property
                     /\ Seated(squads[s], answer).count >= squads[s].count
                     /\ Seated(squads[s], answer).total = squads[s].total
      /\ \A p \in Properties : /\ Targeted(squads[s], p).property = p
                               /\ Targeted(squads[s], p).count >= squads[s].count
                               /\ Targeted(squads[s], p).total = squads[s].total
  <2>1. /\ \A answer : Seated(squads[s], answer).total = squads[s].total
        /\ \A p \in Properties : Targeted(squads[s], p).total = squads[s].total
    BY <1>1 DEF Seated, Targeted, Squad
  <2> QED BY <1>1, <2>1, RowTypes
<1>4. CASE squads'[s] = squads[s]
  BY <1>1, <1>2, <1>4
<1>5. CASE \E answer : squads'[s] = Seated(squads[s], answer)
  BY <1>2, <1>3, <1>5
<1>6. CASE \E p \in Properties : squads'[s] = Targeted(squads[s], p)
  BY <1>2, <1>3, <1>6
<1> QED BY <1>4, <1>5, <1>6, SquadWrites

(* A squad gets its row from CreateSquad, with its creator as only member.    *)
LEMMA NewRow ==
    ASSUME TypeInv, [Next]_vars, NEW s \in SquadIds, ~Exists(s), Exists(s)'
    PROVE  squads'[s].count = 1 /\ squads'[s].total = 0
<1>1. squads' # squads
  BY DEF Exists
<1>2. /\ squads \in [SquadIds -> Squad \cup {NoRow}]
      /\ \A q \in ProposalIds : proposals[q] # NoRow =>
           Exists(proposals[q].squad) /\ proposals[q] \in Proposal
  BY DEF TypeInv, TypeOK, References
<1>3. ASSUME NEW u \in Users, NEW t \in SquadIds, NEW accept \in BOOLEAN,
             RespondToInvite(u, t, accept)
      PROVE  FALSE
  BY <1>2, <1>3 DEF RespondToInvite, UpdateMemberStatus, Exists
<1>4. ASSUME NEW u \in Users, NEW q \in ProposalIds, NEW accept \in BOOLEAN,
             ResolveProposal(u, q, accept)
      PROVE  FALSE
  BY <1>2, <1>4 DEF ResolveProposal, AcceptProposal, RejectProposal, Exists
<1>5. PICK t \in SquadIds, u \in Users, p \in Properties \cup {NoProperty},
           m \in PaymentModels : CreateSquad(t, u, p, m)
  BY <1>1, <1>3, <1>4
     DEF Next, Create, Invite, Respond, Propose, Resolve, Crash, vars, rows,
         InviteRead, InviteCheck, InviteInsert, ProposeCheck, ProposeInsert,
         AbortInvite, AbortPropose
<1> QED BY <1>2, <1>5 DEF CreateSquad, InsertSquad, NewSquad, Exists

(* A statement that writes row r of squad t, a squad with a property, and      *)
(* changes in it nothing but total and status.                                *)
PaymentWrites(t, r) ==
    /\ Funded(t) /\ squads[t] \in Squad
    /\ squads' = [squads EXCEPT ![t] = r]
    /\ r.property = squads[t].property
    /\ r.count = squads[t].count
    /\ r.total >= squads[t].total
    /\ r.status \in {squads[t].status, "locked", "moved_in"}

(* Of the payment steps only the credit, the lock and the move-in write to    *)
(* squads, and such a row.                                                    *)
LEMMA PaymentRows ==
    ASSUME PayTypeInv, [PayNext]_allVars, ~SquadStep
    PROVE  /\ UNCHANGED <<members, joined, proposals, requests>>
           /\ \/ UNCHANGED squads
              \/ \E t \in SquadIds, r \in Squad : PaymentWrites(t, r)
<1> USE NoTxAssumption DEF PayTypeInv, PayTypeOK, TypeOK, Funded, Exists
<1>1. ASSUME NEW h \in Hooks, HookCredit(h) \/ HookLock(h)
      PROVE  /\ txs[hook[h].tx].squad \in SquadIds
             /\ txs[hook[h].tx].amount \in Nat
             /\ Funded(txs[hook[h].tx].squad)
             /\ squads[txs[hook[h].tx].squad] \in Squad
  <2>1. hook[h] # Idle /\ hook[h].tx \in TxIds
    BY <1>1 DEF HookCredit, HookLock, At, Idle, HookRequest
  <2>2. txs[hook[h].tx] # NoRow /\ txs[hook[h].tx] \in Transaction
    BY <2>1 DEF Linked
  <2> QED BY <2>1, <2>2 DEF Linked, Transaction
<1>2. ASSUME NEW h \in Hooks, HookCredit(h)
      PROVE  /\ UNCHANGED <<members, joined, proposals, requests>>
             /\ \E t \in SquadIds, r \in Squad : PaymentWrites(t, r)
  <2> DEFINE s == txs[hook[h].tx].squad
             r == Credited(squads[s], txs[hook[h].tx].amount)
  <2>1. PaymentWrites(s, r) /\ r \in Squad
    BY <1>1, <1>2, PaidRows DEF HookCredit, PaymentWrites
  <2> QED BY <1>1, <1>2, <2>1 DEF HookCredit, seats
<1>3. ASSUME NEW h \in Hooks, HookLock(h)
      PROVE  /\ UNCHANGED <<members, joined, proposals, requests>>
             /\ \E t \in SquadIds, r \in Squad : PaymentWrites(t, r)
  <2> DEFINE s == txs[hook[h].tx].squad
             r == [squads[s] EXCEPT !.status = "locked"]
  <2>1. PaymentWrites(s, r) /\ r \in Squad
    BY <1>1, <1>3, PaidRows DEF HookLock, PaymentWrites, SquadStatus
  <2> QED BY <1>1, <1>3, <2>1 DEF HookLock, seats
<1>4. ASSUME NEW m \in Movers, MoveStatus(m)
      PROVE  /\ UNCHANGED <<members, joined, proposals, requests>>
             /\ \E t \in SquadIds, r \in Squad : PaymentWrites(t, r)
  <2> DEFINE s == moving[m].squad
             r == [squads[s] EXCEPT !.status = "moved_in"]
  <2>1. moving[m] # Idle /\ s \in SquadIds
    BY <1>4 DEF MoveStatus, Idle, MoveRequest
  <2>2. Funded(s) /\ squads[s] \in Squad
    BY <2>1 DEF Linked
  <2>3. PaymentWrites(s, r) /\ r \in Squad
    BY <1>4, <2>2, PaidRows DEF MoveStatus, PaymentWrites, SquadStatus
  <2> QED BY <1>4, <2>1, <2>3 DEF MoveStatus, seats
<1> QED
  BY <1>2, <1>3, <1>4
     DEF PayNext, PayStep, HookStep, HookRuns, MoveStep, MoveRuns, ClientStep,
         allVars, vars, requests, PayRead, PayCreate, PayOrder, PayRef, AbortPay,
         HookRead, HookMark, HookCheck, AbortHook, MoveRead, MoveFee, MoveOccupy,
         AbortMove, ClientPays

(* No step takes a squad's row, its property or a seat of its counter away.   *)
LEMMA FundedStays ==
    ASSUME PayTypeInv, [PayNext]_allVars, NEW s \in SquadIds, Exists(s)
    PROVE  /\ Exists(s)'
           /\ Funded(s) => Funded(s)'
           /\ squads'[s].count >= squads[s].count
<1> USE NoRowAssumption DEF PayTypeInv, PayTypeOK, Exists, Funded
<1>1. TypeInv /\ squads[s] \in Squad /\ squads[s].count \in Nat
  BY DEF TypeInv, TypeOK, Squad
<1>2. CASE SquadStep
  BY <1>1, <1>2, SquadFunded DEF SquadStep
<1>3. CASE ~SquadStep
  BY <1>1, <1>3, PaymentRows DEF PaymentWrites, TypeOK
<1> QED BY <1>2, <1>3

(* A transaction keeps its row and what the row says of squad, property, type *)
(* and amount; it gets its reference once and settles once.                   *)
LEMMA TxStays ==
    ASSUME PayTypeInv, [PayNext]_allVars, NEW t \in TxIds, txs[t] # NoRow
    PROVE  /\ txs'[t] # NoRow
           /\ txs'[t].squad = txs[t].squad
           /\ txs'[t].property = txs[t].property
           /\ txs'[t].type = txs[t].type
           /\ txs'[t].amount = txs[t].amount
           /\ txs[t].ref => txs'[t].ref
           /\ txs[t].status = "success" => txs'[t].status = "success"
<1> USE NoTxAssumption DEF PayTypeInv, PayTypeOK
<1>1. txs[t] \in Transaction
  OBVIOUS
<1>2. ASSUME NEW w \in Payers, NEW u \in TxIds, PayCreate(w, u)
      PROVE  txs'[t] = txs[t]
  BY <1>2 DEF PayCreate
<1>3. ASSUME NEW w \in Payers, PayRef(w)
      PROVE  txs'[t] \in {txs[t], [txs[t] EXCEPT !.ref = TRUE]}
  BY <1>3 DEF PayRef
<1>4. ASSUME NEW h \in Hooks, HookMark(h)
      PROVE  txs'[t] \in {txs[t], [txs[t] EXCEPT !.status = "success"]}
  BY <1>4 DEF HookMark
<1>5. ASSUME NEW m \in Movers, NEW u \in TxIds, MoveFee(m, u)
      PROVE  txs'[t] = txs[t]
  BY <1>5 DEF MoveFee
<1>6. \/ txs'[t] = txs[t]
      \/ txs'[t] = [txs[t] EXCEPT !.ref = TRUE]
      \/ txs'[t] = [txs[t] EXCEPT !.status = "success"]
  BY <1>2, <1>3, <1>4, <1>5
     DEF PayNext, SquadStep, PayStep, HookStep, HookRuns, MoveStep, MoveRuns,
         ClientStep, payVars, allVars, PayRead, PayOrder, AbortPay, HookRead,
         HookCredit, HookCheck, HookLock, AbortHook, MoveRead, MoveStatus,
         MoveOccupy, AbortMove, ClientPays
<1>7. CASE txs'[t] = txs[t]
  BY <1>7
<1>8. CASE txs'[t] = [txs[t] EXCEPT !.ref = TRUE]
  BY <1>1, <1>8, TxRows
<1>9. CASE txs'[t] = [txs[t] EXCEPT !.status = "success"]
  BY <1>1, <1>9, TxRows
<1> QED BY <1>6, <1>7, <1>8, <1>9

-----------------------------------------------------------------------------
(* Type correctness.                                                          *)

(* The rows of squads keep their types and links under payment steps too.     *)
LEMMA SquadTypesStay ==
    ASSUME PayTypeInv, [PayNext]_allVars
    PROVE  TypeInv' /\ Counted'
<1> USE NoRowAssumption DEF PayTypeInv, PayTypeOK, Exists
<1>1. TypeInv
  BY DEF TypeInv
<1>2. CASE SquadStep
  <2>1. TypeInv'
    BY <1>1, <1>2, TypeStep DEF SquadStep
  <2>2. ASSUME NEW s \in SquadIds, Exists(s)' PROVE squads'[s].count >= 1
    <3>1. CASE Exists(s)
      <4>1. squads[s].count \in Nat /\ squads'[s].count \in Nat
        BY <2>1, <2>2, <3>1 DEF TypeInv, TypeOK, Squad
      <4>2. squads'[s].count >= squads[s].count /\ squads[s].count >= 1
        BY <1>1, <1>2, <3>1, SquadFunded DEF SquadStep, Counted
      <4> QED BY <4>1, <4>2
    <3>2. CASE ~Exists(s)
      BY <1>1, <1>2, <2>2, <3>2, NewRow DEF SquadStep
    <3> QED BY <3>1, <3>2
  <2> QED BY <2>1, <2>2 DEF Counted
<1>3. CASE ~SquadStep
  <2>1. TypeOK'
    BY <1>3, PaymentRows DEF PaymentWrites, TypeOK, requests
  <2>2. \A t \in SquadIds : Exists(t) => Exists(t)'
    BY FundedStays
  <2>3. References'
    BY <1>3, <2>2, PaymentRows DEF References, requests, TypeOK, InviteRequest,
       ProposeRequest, Proposal, Accepted
  <2>4. Counted'
    BY <1>3, PaymentRows DEF PaymentWrites, Counted, TypeOK, Funded
  <2> QED BY <2>1, <2>3, <2>4 DEF TypeInv
<1> QED BY <1>2, <1>3

(* The step of the type invariant. Linked follows a squad or a transaction    *)
(* from the step that looked it up; what was found then is never taken away.  *)
LEMMA PayTypeStep == PayTypeInv /\ [PayNext]_allVars => PayTypeInv'
<1> SUFFICES ASSUME PayTypeInv, [PayNext]_allVars PROVE PayTypeOK' /\ Linked'
  BY SquadTypesStay DEF PayTypeInv, TypeInv
<1> DEFINE Kept ==
      /\ TypeOK'
      /\ \A s \in SquadIds : Funded(s) => Funded(s)'
      /\ \A t \in TxIds : txs[t] # NoRow =>
           txs'[t] # NoRow /\ txs'[t].squad = txs[t].squad
<1>1. Kept
  BY SquadTypesStay, FundedStays, TxStays DEF TypeInv, Funded
<1>2. /\ TypeOK /\ PayTypeOK /\ Linked
      /\ \A t \in TxIds : txs[t] # NoRow => txs[t] \in Transaction
      /\ \A s \in SquadIds : Exists(s) => squads[s] \in Squad /\ squads[s].count >= 1
  BY DEF PayTypeInv, PayTypeOK, TypeOK, Exists, Counted
<1>3. /\ \A t \in TxIds : txs[t] # NoRow => txs[t].squad \in SquadIds
      /\ \A w \in Payers : /\ paying[w].stage = "create" => paying[w].squad \in SquadIds
                           /\ paying[w].stage \in {"order", "ref"}
                                => paying[w].tx \in TxIds
      /\ \A h \in Hooks : hook[h] # Idle => hook[h].tx \in TxIds
      /\ \A m \in Movers : moving[m] # Idle => moving[m].squad \in SquadIds
  BY <1>2 DEF PayTypeOK, Transaction, PayRequest, OrderRequest, HookRequest,
     MoveRequest, Idle
<1> HIDE DEF Kept
<1> USE NoTxAssumption DEF Kept, PayTypeOK, Linked, Idle
<1>4. ASSUME NEW w \in Payers, NEW u \in Users, NEW s \in SquadIds, PayRead(w, u, s)
      PROVE  PayTypeOK' /\ Linked'
  <2>1. squads[s] \in Squad /\ squads[s].property \in Properties
    BY <1>2, <1>4 DEF PayRead, MayPay, Squad
  <2>2. AmountDue(squads[s]) \in Nat
    BY <1>2, <1>4, <2>1, AmountType DEF PayRead
  <2>3. PayTypeOK'
    BY <1>1, <1>2, <1>4, <2>1, <2>2 DEF PayRead, PayRequest, gateway
  <2>4. Linked'
    BY <1>1, <1>2, <1>3, <1>4, <2>1 DEF PayRead, gateway, Funded, vars
  <2> QED BY <2>3, <2>4
<1>5. ASSUME NEW w \in Payers, NEW t \in TxIds, PayCreate(w, t)
      PROVE  PayTypeOK' /\ Linked'
  <2> DEFINE row == NewTransaction(paying[w], "token_payment", paying[w].amount)
  <2>1. /\ paying[w] \in PayRequest
        /\ paying[w].squad \in SquadIds /\ Funded(paying[w].squad)
    BY <1>2, <1>3, <1>5 DEF PayCreate, OrderRequest
  <2>2. row \in Transaction /\ row.squad = paying[w].squad
    BY <2>1 DEF PayRequest, NewTransaction, Transaction
  <2>3. /\ UNCHANGED <<orders, sent, hook, moving, occupied>>
        /\ \/ /\ txs[t] = NoRow
              /\ txs' = [txs EXCEPT ![t] = row]
              /\ paying' = [paying EXCEPT ![w] = [stage |-> "order", tx |-> t]]
           \/ UNCHANGED txs /\ paying' = [paying EXCEPT ![w] = Idle]
    BY <1>5 DEF PayCreate, gateway
  <2> HIDE DEF row
  <2>4. PayTypeOK'
    BY <1>1, <1>2, <2>2, <2>3 DEF OrderRequest
  <2>5. Linked'
    BY <1>1, <1>2, <1>3, <2>1, <2>2, <2>3
  <2> QED BY <2>4, <2>5
<1>6. ASSUME NEW w \in Payers, PayOrder(w) PROVE PayTypeOK' /\ Linked'
  <2>1. paying[w] \in OrderRequest
    BY <1>2, <1>6 DEF PayOrder, PayRequest
  <2>2. [paying[w] EXCEPT !.stage = "ref"] \in OrderRequest
        /\ [paying[w] EXCEPT !.stage = "ref"].tx = paying[w].tx
        /\ [paying[w] EXCEPT !.stage = "ref"].stage = "ref"
    BY <2>1 DEF OrderRequest
  <2>3. PayTypeOK'
    BY <1>1, <1>2, <1>6, <2>1, <2>2 DEF PayOrder, OrderStatus
  <2>4. Linked'
    BY <1>1, <1>2, <1>3, <1>6, <2>1, <2>2 DEF PayOrder
  <2> QED BY <2>3, <2>4
<1>7. ASSUME NEW w \in Payers, PayRef(w) PROVE PayTypeOK' /\ Linked'
  <2>1. paying[w].tx \in TxIds /\ txs[paying[w].tx] \in Transaction
    BY <1>2, <1>3, <1>7 DEF PayRef
  <2>2. PayTypeOK'
    BY <1>1, <1>2, <1>7, <2>1, TxRows DEF PayRef, OrderStatus
  <2>3. Linked'
    BY <1>1, <1>2, <1>3, <1>7, <2>1, TxRows DEF PayRef
  <2> QED BY <2>2, <2>3
<1>8. ASSUME NEW w \in Payers, AbortPay(w) PROVE PayTypeOK' /\ Linked'
  BY <1>1, <1>2, <1>3, <1>8 DEF AbortPay, gateway
<1>9. ASSUME NEW t \in TxIds, ClientPays(t) PROVE PayTypeOK' /\ Linked'
  <2>1. UNCHANGED <<txs, sent, paying, hook, moving, occupied>>
    BY <1>9 DEF ClientPays, payStarted
  <2>2. PayTypeOK'
    BY <1>1, <1>2, <1>9, <2>1 DEF ClientPays, OrderStatus
  <2> QED BY <1>1, <1>2, <1>3, <2>1, <2>2
<1>10. ASSUME NEW h \in Hooks, NEW t \in TxIds, HookRead(h, t)
       PROVE  PayTypeOK' /\ Linked'
  <2>1. sent[t] + 1 \in 0..MaxDeliveries
    BY <1>2, <1>10, DeliveryAssumption DEF HookRead, Sends
  <2>2. PayTypeOK'
    BY <1>1, <1>2, <1>10, <2>1 DEF HookRead, HookRequest
  <2>3. Linked'
    BY <1>1, <1>2, <1>3, <1>10 DEF HookRead, Unsettled
  <2> QED BY <2>2, <2>3
<1>11. ASSUME NEW h \in Hooks,
              HookRuns(h) \/ AbortHook(h)
       PROVE  hook' \in [Hooks -> HookRequest \cup {Idle}]
              /\ \A g \in Hooks : hook'[g] # Idle =>
                   hook[g] # Idle /\ hook'[g].tx = hook[g].tx
  <2>1. hook[h] \in HookRequest
    BY <1>2, <1>11 DEF HookRuns, HookMark, HookCredit, HookCheck, HookLock,
       AbortHook, At
  <2>2. \A st \in {"credit", "read", "lock"} :
           /\ [hook[h] EXCEPT !.stage = st] \in HookRequest
           /\ [hook[h] EXCEPT !.stage = st].tx = hook[h].tx
    BY <2>1 DEF HookRequest
  <2>3. \/ \E st \in {"credit", "read", "lock"} :
             hook' = [hook EXCEPT ![h] = [hook[h] EXCEPT !.stage = st]]
        \/ hook' = [hook EXCEPT ![h] = Idle]
    BY <1>11 DEF HookRuns, HookMark, HookCredit, HookCheck, HookLock,
       AbortHook, GoTo, Done
  <2>4. hook[h] # Idle
    BY <2>1 DEF HookRequest
  <2> QED BY <1>2, <2>2, <2>3, <2>4
<1>12. ASSUME NEW h \in Hooks, HookMark(h) PROVE PayTypeOK' /\ Linked'
  <2>1. hook[h].tx \in TxIds /\ txs[hook[h].tx] \in Transaction
    BY <1>2, <1>3, <1>12 DEF HookMark, At
  <2>2. PayTypeOK'
    BY <1>1, <1>2, <1>11, <1>12, <2>1, TxRows DEF HookMark, HookRuns, gateway
  <2>3. Linked'
    BY <1>1, <1>2, <1>3, <1>11, <1>12, <2>1, TxRows DEF HookMark, HookRuns, gateway
  <2> QED BY <2>2, <2>3
<1>13. ASSUME NEW h \in Hooks,
              HookCredit(h) \/ HookCheck(h) \/ HookLock(h) \/ AbortHook(h)
       PROVE  PayTypeOK' /\ Linked'
  <2>1. UNCHANGED <<txs, orders, sent, paying, moving, occupied>>
    BY <1>13 DEF HookCredit, HookCheck, HookLock, AbortHook, gateway
  <2> QED BY <1>1, <1>2, <1>3, <1>11, <1>13, <2>1 DEF HookRuns
<1>14. ASSUME NEW m \in Movers, NEW u \in Users, NEW s \in SquadIds, MoveRead(m, u, s)
       PROVE  PayTypeOK' /\ Linked'
  <2>1. squads[s] \in Squad /\ squads[s].property \in Properties
    BY <1>2, <1>14 DEF MoveRead, MayMoveIn, Squad
  <2>2. PayTypeOK'
    BY <1>1, <1>2, <1>14, <2>1 DEF MoveRead, MoveRequest, gateway
  <2>3. Linked'
    BY <1>1, <1>2, <1>3, <1>14, <2>1 DEF MoveRead, gateway, Funded, vars
  <2> QED BY <2>2, <2>3
<1>15. ASSUME NEW m \in Movers, NEW t \in TxIds, MoveFee(m, t)
       PROVE  PayTypeOK' /\ Linked'
  <2> DEFINE row == NewTransaction(moving[m], "success_fee", 0)
  <2>1. /\ moving[m] \in MoveRequest
        /\ moving[m].squad \in SquadIds /\ Funded(moving[m].squad)
    BY <1>2, <1>3, <1>15 DEF MoveFee
  <2>2. row \in Transaction /\ row.squad = moving[m].squad
    BY <2>1 DEF MoveRequest, NewTransaction, Transaction
  <2>3. /\ [moving[m] EXCEPT !.stage = "status"] \in MoveRequest
        /\ [moving[m] EXCEPT !.stage = "status"].squad = moving[m].squad
    BY <2>1 DEF MoveRequest
  <2>4. /\ UNCHANGED <<orders, sent, paying, hook, occupied>>
        /\ \/ /\ txs[t] = NoRow
              /\ txs' = [txs EXCEPT ![t] = row]
              /\ moving' = [moving EXCEPT ![m] = [moving[m] EXCEPT !.stage = "status"]]
           \/ UNCHANGED txs /\ moving' = [moving EXCEPT ![m] = Idle]
    BY <1>15 DEF MoveFee, gateway
  <2> HIDE DEF row
  <2>5. PayTypeOK'
    BY <1>1, <1>2, <2>2, <2>3, <2>4
  <2>6. Linked'
    BY <1>1, <1>2, <1>3, <2>1, <2>2, <2>3, <2>4
  <2> QED BY <2>5, <2>6
<1>16. ASSUME NEW m \in Movers, MoveStatus(m) PROVE PayTypeOK' /\ Linked'
  <2>1. /\ moving[m] \in MoveRequest
        /\ moving[m].squad \in SquadIds /\ Funded(moving[m].squad)
    BY <1>2, <1>3, <1>16 DEF MoveStatus
  <2>2. /\ [moving[m] EXCEPT !.stage = "occupy"] \in MoveRequest
        /\ [moving[m] EXCEPT !.stage = "occupy"].squad = moving[m].squad
    BY <2>1 DEF MoveRequest
  <2>3. /\ UNCHANGED <<txs, orders, sent, paying, hook, occupied>>
        /\ moving' = [moving EXCEPT ![m] = [moving[m] EXCEPT !.stage = "occupy"]]
    BY <1>16 DEF MoveStatus, gateway
  <2> QED BY <1>1, <1>2, <1>3, <2>1, <2>2, <2>3
<1>17. ASSUME NEW m \in Movers, MoveOccupy(m) \/ AbortMove(m)
       PROVE  PayTypeOK' /\ Linked'
  <2>1. MoveOccupy(m) => moving[m].property \in Properties
    BY <1>2 DEF MoveOccupy, MoveRequest
  <2>2. /\ UNCHANGED <<txs, orders, sent, paying, hook>>
        /\ moving' = [moving EXCEPT ![m] = Idle]
        /\ occupied' \subseteq Properties
    BY <1>2, <1>17, <2>1 DEF MoveOccupy, AbortMove, gateway
  <2> QED BY <1>1, <1>2, <1>3, <2>2
<1>18. CASE UNCHANGED payVars
  BY <1>1, <1>2, <1>3, <1>18 DEF payVars
<1> QED
  BY <1>4, <1>5, <1>6, <1>7, <1>8, <1>9, <1>10, <1>12, <1>13, <1>14, <1>15,
     <1>16, <1>17, <1>18
     DEF PayNext, SquadStep, PayStep, HookStep, HookRuns, MoveStep, MoveRuns,
         ClientStep, allVars, payVars

(* The type invariant holds throughout.                                       *)
LEMMA PayTypeHolds == PaySpec => []PayTypeInv
<1>1. PayInit => PayTypeInv
  BY DeliveryAssumption
     DEF PayInit, Init, PayTypeInv, PayTypeOK, TypeOK, References, Linked, Counted, Accepted,
         MemberStatus, Exists, Idle, OrderStatus
<1>2. PayTypeInv /\ [PayNext]_allVars => PayTypeInv'
  BY PayTypeStep
<1> QED BY <1>1, <1>2, PTL DEF PaySpec

(* Type correctness with payments: whatever the order of the calls of all     *)
(* requests, deaths and deliveries, rows keep their fields and values.        *)
THEOREM PayTypeCorrect == PaySpec => []PayTypeOK
BY PayTypeHolds, PTL DEF PayTypeInv

(* A webhook finds a property id in its squad's row however late it runs: a   *)
(* payment starts on a squad with a property, and no later decision of a      *)
(* proposal takes the property away.                                          *)
THEOREM KnownCorrect == PaySpec => []PropertyKnown
<1>1. PayTypeInv => PropertyKnown
  BY DEF PayTypeInv, Linked, Funded, PropertyKnown
<1> QED BY <1>1, PayTypeHolds, PTL

-----------------------------------------------------------------------------
(* BR-05 and BR-08 with payments.                                             *)

(* BR-05 holds while payments lock the squad, decisions reopen it and members *)
(* keep answering: no payment statement touches members or counter.           *)
THEOREM PaySizeCorrect == PaySpec => []SizeBound
<1>1. PayInit => SizeBound
  BY DEF PayInit, Init, SizeBound, Exists
<1>2. ASSUME PayTypeInv, SizeBound, [PayNext]_allVars PROVE SizeBound'
  <2>1. TypeInv
    BY <1>2 DEF PayTypeInv, PayTypeOK, TypeInv
  <2>2. CASE SquadStep
    BY <1>2, <2>1, <2>2, SizeStep DEF SquadStep
  <2>3. CASE ~SquadStep
    <3>1. \A s \in SquadIds : Accepted(s)' = Accepted(s)
      BY <1>2, <2>3, PaymentRows DEF Accepted
    <3>2. \A s \in SquadIds : Exists(s)' => Exists(s) /\ squads'[s].count = squads[s].count
      BY <1>2, <2>1, <2>3, PaymentRows
         DEF PaymentWrites, Funded, Exists, TypeInv, TypeOK
    <3> QED BY <1>2, <3>1, <3>2 DEF SizeBound
  <2> QED BY <2>2, <2>3
<1> QED BY <1>1, <1>2, PayTypeHolds, PTL DEF PaySpec

(* BR-08 holds with payments: a squad that is locked or moves in has a        *)
(* property, although neither statement asks for one.                         *)
THEOREM PayPropertyCorrect == PaySpec => []PropertyUnlessBrowsing
<1>1. PayInit => PropertyUnlessBrowsing
  BY DEF PayInit, Init, PropertyUnlessBrowsing, Exists
<1>2. ASSUME PayTypeInv, PropertyUnlessBrowsing, [PayNext]_allVars
      PROVE  PropertyUnlessBrowsing'
  <2>1. TypeInv
    BY <1>2 DEF PayTypeInv, PayTypeOK, TypeInv
  <2>2. CASE SquadStep
    BY <1>2, <2>1, <2>2, PropertyStep DEF SquadStep
  <2>3. CASE ~SquadStep
    BY <1>2, <2>1, <2>3, PaymentRows, PropertyAssumption
       DEF PaymentWrites, Funded, Exists, TypeInv, TypeOK, PropertyUnlessBrowsing
  <2> QED BY <2>2, <2>3
<1> QED BY <1>1, <1>2, PayTypeHolds, PTL DEF PaySpec

-----------------------------------------------------------------------------
(* Orders and settlements.                                                    *)

(* A transaction between its insert and its reference belongs to one request, *)
(* the one that inserted it, and its order is what that request has made it.  *)
Owned ==
    \A w \in Payers :
        /\ paying[w].stage = "order" => /\ orders[paying[w].tx] = "none"
                                        /\ txs[paying[w].tx].type = "token_payment"
        /\ paying[w].stage = "ref" => orders[paying[w].tx] = "created"
        /\ \A v \in Payers :
             /\ paying[w].stage \in {"order", "ref"}
             /\ paying[v].stage \in {"order", "ref"}
             /\ paying[w].tx = paying[v].tx
             => w = v

OrderInv == OrderBacked /\ Owned

(* The step of BR-09: the row is inserted before its order exists, and the    *)
(* order is shown in the step that stores its reference.                      *)
LEMMA OrderStep == PayTypeInv /\ OrderInv /\ [PayNext]_allVars => OrderInv'
<1> SUFFICES ASSUME PayTypeInv, OrderInv, [PayNext]_allVars PROVE OrderInv'
  OBVIOUS
<1>1. /\ \A t \in TxIds : txs[t] # NoRow =>
           /\ txs'[t] # NoRow
           /\ txs'[t].type = txs[t].type
           /\ txs[t].ref => txs'[t].ref
      /\ \A t \in TxIds : orders[t] # "none" => txs[t] # NoRow
  BY TxStays DEF OrderInv, OrderBacked
<1>2. /\ orders \in [TxIds -> OrderStatus]
      /\ paying \in [Payers -> PayRequest \cup OrderRequest \cup {Idle}]
      /\ \A w \in Payers : paying[w].stage \in {"order", "ref"}
           => paying[w].tx \in TxIds /\ txs[paying[w].tx] # NoRow
  BY DEF PayTypeInv, PayTypeOK, Linked, PayRequest, OrderRequest, Idle
<1> USE DEF OrderInv, OrderBacked, Owned
<1>3. ASSUME NEW w \in Payers, NEW u \in Users, NEW s \in SquadIds, PayRead(w, u, s)
      PROVE  OrderInv'
  BY <1>1, <1>2, <1>3 DEF PayRead, gateway
<1>4. ASSUME NEW w \in Payers, NEW t \in TxIds, PayCreate(w, t) PROVE OrderInv'
  <2> DEFINE row == NewTransaction(paying[w], "token_payment", paying[w].amount)
  <2>1. orders' = orders
    BY <1>4 DEF PayCreate, gateway
  <2>2. row.type = "token_payment"
    BY DEF NewTransaction
  <2>3. \/ /\ txs[t] = NoRow
           /\ txs' = [txs EXCEPT ![t] = row]
           /\ paying' = [paying EXCEPT ![w] = [stage |-> "order", tx |-> t]]
        \/ paying' = [paying EXCEPT ![w] = Idle]
    BY <1>4 DEF PayCreate
  <2> HIDE DEF row
  <2>4. CASE /\ txs[t] = NoRow
             /\ txs' = [txs EXCEPT ![t] = row]
             /\ paying' = [paying EXCEPT ![w] = [stage |-> "order", tx |-> t]]
    <3>0. orders[t] = "none"
      BY <1>1, <2>4
    <3>1. OrderBacked'
      BY <1>1, <2>1
    <3>2. txs'[t].type = "token_payment"
      BY <2>2, <2>4 DEF PayTypeInv, PayTypeOK
    <3>3. \A v \in Payers : v # w /\ paying[v].stage \in {"order", "ref"}
             => paying[v].tx # t
      BY <1>2, <2>4
    <3>4. Owned'
      BY <1>1, <1>2, <2>1, <2>4, <3>0, <3>2, <3>3
    <3> QED BY <3>1, <3>4
  <2>5. CASE paying' = [paying EXCEPT ![w] = Idle]
    BY <1>1, <1>2, <2>1, <2>5 DEF Idle
  <2> QED BY <2>3, <2>4, <2>5
<1>5. ASSUME NEW w \in Payers, PayOrder(w) PROVE OrderInv'
  <2>1. /\ [paying[w] EXCEPT !.stage = "ref"].tx = paying[w].tx
        /\ [paying[w] EXCEPT !.stage = "ref"].stage = "ref"
    BY <1>2, <1>5 DEF PayOrder, PayRequest, OrderRequest, Idle
  <2> QED BY <1>1, <1>2, <1>5, <2>1 DEF PayOrder
<1>6. ASSUME NEW w \in Payers, PayRef(w) PROVE OrderInv'
  <2>1. [txs[paying[w].tx] EXCEPT !.ref = TRUE].ref = TRUE
    BY <1>2, <1>6, TxRows DEF PayRef, PayTypeInv, PayTypeOK
  <2> QED BY <1>1, <1>2, <1>6, <2>1 DEF PayRef, Idle, PayTypeInv, PayTypeOK
<1>7. ASSUME NEW t \in TxIds, ClientPays(t) PROVE OrderInv'
  BY <1>1, <1>2, <1>7 DEF ClientPays, payStarted
<1>8. ASSUME UNCHANGED orders,
             \A w \in Payers : paying'[w] = paying[w] \/ paying'[w] = Idle
      PROVE  OrderInv'
  BY <1>1, <1>2, <1>8 DEF Idle
<1> QED
  BY <1>2, <1>3, <1>4, <1>5, <1>6, <1>7, <1>8
     DEF PayNext, SquadStep, PayStep, HookStep, HookRuns, MoveStep, MoveRuns,
         ClientStep, allVars, payVars, gateway, AbortPay, HookRead, HookMark,
         HookCredit, HookCheck, HookLock, AbortHook, MoveRead, MoveFee, MoveStatus,
         MoveOccupy, AbortMove

LEMMA OrderHolds == PaySpec => []OrderInv
<1>1. PayInit => OrderInv
  BY DEF PayInit, OrderInv, OrderBacked, Owned, Idle
<1> QED BY <1>1, OrderStep, PayTypeHolds, PTL DEF PaySpec

(* BR-09: wherever payments are cut off, an order has its transaction, and an *)
(* order a client may pay can be found by its reference.                      *)
THEOREM OrdersCorrect == PaySpec => []OrderBacked
BY OrderHolds, PTL DEF OrderInv

(* How one step moves webhooks.                                               *)
LEMMA HookMoves ==
    ASSUME PayTypeInv, [PayNext]_allVars
    PROVE  \/ hook' = hook
           \/ \E h \in Hooks, t \in TxIds :
                /\ HookRead(h, t) /\ hook[h] = Idle
                /\ \/ hook' = [hook EXCEPT ![h] = Idle]
                   \/ /\ hook' = [hook EXCEPT ![h] = [stage |-> "mark", tx |-> t]]
                      /\ Unsettled(t)
           \/ \E h \in Hooks :
                /\ hook[h] # Idle /\ hook[h] \in HookRequest
                /\ HookRuns(h) \/ AbortHook(h)
                /\ \/ hook' = [hook EXCEPT ![h] = Idle]
                   \/ \E st \in {"credit", "read", "lock"} :
                        /\ hook' = [hook EXCEPT ![h] = [stage |-> st, tx |-> hook[h].tx]]
                        /\ st = "credit" => HookMark(h)
<1>1. hook \in [Hooks -> HookRequest \cup {Idle}]
  BY DEF PayTypeInv, PayTypeOK
<1>2. ASSUME NEW h \in Hooks, NEW t \in TxIds, HookRead(h, t)
      PROVE  /\ hook[h] = Idle
             /\ \/ hook' = [hook EXCEPT ![h] = Idle]
                \/ /\ hook' = [hook EXCEPT ![h] = [stage |-> "mark", tx |-> t]]
                   /\ Unsettled(t)
  BY <1>2 DEF HookRead
<1>3. ASSUME NEW h \in Hooks, HookRuns(h) \/ AbortHook(h)
      PROVE  /\ hook[h] # Idle /\ hook[h] \in HookRequest
             /\ \/ hook' = [hook EXCEPT ![h] = Idle]
                \/ \E st \in {"credit", "read", "lock"} :
                     /\ hook' = [hook EXCEPT ![h] = [stage |-> st, tx |-> hook[h].tx]]
                     /\ st = "credit" => HookMark(h)
  <2>1. hook[h] # Idle /\ hook[h] \in HookRequest
    BY <1>1, <1>3 DEF HookRuns, HookMark, HookCredit, HookCheck, HookLock,
       AbortHook, At, Idle
  <2>2. \A st : [hook[h] EXCEPT !.stage = st] = [stage |-> st, tx |-> hook[h].tx]
    BY <2>1 DEF HookRequest
  <2>3. \/ hook' = [hook EXCEPT ![h] = Idle]
        \/ \E st \in {"credit", "read", "lock"} :
             /\ hook' = [hook EXCEPT ![h] = [hook[h] EXCEPT !.stage = st]]
             /\ st = "credit" => HookMark(h)
    BY <1>3 DEF HookRuns, HookMark, HookCredit, HookCheck, HookLock, AbortHook,
       GoTo, Done
  <2> QED BY <2>1, <2>2, <2>3
<1> QED
  BY <1>2, <1>3
     DEF PayNext, SquadStep, PayStep, HookStep, MoveStep, MoveRuns, ClientStep,
         allVars, payVars, payStarted, PayRead, PayCreate, PayOrder, PayRef,
         AbortPay, MoveRead, MoveFee, MoveStatus, MoveOccupy, AbortMove, ClientPays

(* Which step settles a row.                                                  *)
LEMMA SettledByMark ==
    ASSUME PayTypeInv, [PayNext]_allVars, NEW t \in TxIds,
           txs'[t] # NoRow, txs'[t].status = "success"
    PROVE  \/ txs[t] # NoRow /\ txs[t].status = "success"
           \/ \E h \in Hooks : HookMark(h) /\ hook[h].tx = t
<1>1. /\ \A u \in TxIds : txs[u] # NoRow => txs[u] \in Transaction
      /\ txs \in [TxIds -> Transaction \cup {NoRow}]
  BY DEF PayTypeInv, PayTypeOK
<1>2. ASSUME NEW h \in Hooks, HookMark(h)
      PROVE  txs'[t] = txs[t] \/ hook[h].tx = t
  BY <1>1, <1>2 DEF HookMark
<1>3. ASSUME NEW w \in Payers, PayRef(w)
      PROVE  txs[t] # NoRow /\ txs[t].status = "success"
  <2>1. txs[paying[w].tx] \in Transaction
    BY <1>1, <1>3 DEF PayRef, PayTypeInv, PayTypeOK, Linked, PayRequest,
       OrderRequest, Idle
  <2> QED BY <1>1, <1>3, <2>1, TxRows, NoTxAssumption DEF PayRef
<1>4. ASSUME NEW u \in TxIds,
             \/ \E w \in Payers : PayCreate(w, u)
             \/ \E m \in Movers : MoveFee(m, u)
      PROVE  txs'[t] = txs[t]
  BY <1>1, <1>4 DEF PayCreate, MoveFee, NewTransaction
<1>5. \/ \E h \in Hooks : HookMark(h)
      \/ \E w \in Payers : PayRef(w)
      \/ \E u \in TxIds : \/ \E w \in Payers : PayCreate(w, u)
                          \/ \E m \in Movers : MoveFee(m, u)
      \/ txs' = txs
  BY DEF PayNext, SquadStep, PayStep, HookStep, HookRuns, MoveStep, MoveRuns,
         ClientStep, allVars, payVars, PayRead, PayOrder, AbortPay, HookRead,
         HookCredit, HookCheck, HookLock, AbortHook, MoveRead, MoveStatus,
         MoveOccupy, AbortMove, ClientPays
<1> QED BY <1>2, <1>3, <1>4, <1>5

(* The step of SettledWasReported. Only MarkSuccess settles a row, and its     *)
(* webhook was sent for an order that was shown by then; a shown order stays   *)
(* shown or is paid, since the request that writes to an order still owns it   *)
(* and has not shown it yet.                                                   *)
LEMMA SettledStep ==
    ASSUME PayTypeInv, OrderInv, SettledWasReported, [PayNext]_allVars
    PROVE  SettledWasReported'
<1> DEFINE Reported(t) == sent[t] > 0 /\ orders[t] \in {"shown", "paid"}
<1>1. /\ \A t \in TxIds : txs[t] # NoRow => txs[t] \in Transaction
      /\ txs \in [TxIds -> Transaction \cup {NoRow}]
      /\ orders \in [TxIds -> OrderStatus] /\ sent \in [TxIds -> Nat]
      /\ hook \in [Hooks -> HookRequest \cup {Idle}]
      /\ \A w \in Payers : paying[w].stage \in {"order", "ref"} => paying[w].tx \in TxIds
  BY DeliveryAssumption DEF PayTypeInv, PayTypeOK, PayRequest, OrderRequest, Idle
<1>2. \A t \in TxIds : Reported(t) => Reported(t)'
  <2>1. ASSUME NEW w \in Payers, PayOrder(w) \/ PayRef(w)
        PROVE  /\ orders[paying[w].tx] \in {"none", "created"} /\ sent' = sent
               /\ \A t \in TxIds : t # paying[w].tx => orders'[t] = orders[t]
    BY <1>1, <2>1 DEF PayOrder, PayRef, OrderInv, Owned
  <2>2. ASSUME NEW u \in TxIds, ClientPays(u)
        PROVE  \A t \in TxIds : Reported(t) => Reported(t)'
    BY <1>1, <2>2 DEF ClientPays
  <2>3. ASSUME NEW h \in Hooks, NEW u \in TxIds, HookRead(h, u)
        PROVE  \A t \in TxIds : Reported(t) => Reported(t)'
    BY <1>1, <2>3 DEF HookRead
  <2> QED
    BY <2>1, <2>2, <2>3
       DEF PayNext, SquadStep, PayStep, HookStep, HookRuns, MoveStep, MoveRuns,
           ClientStep, allVars, payVars, gateway, PayRead, PayCreate, AbortPay,
           HookMark, HookCredit, HookCheck, HookLock, AbortHook,
           MoveRead, MoveFee, MoveStatus, MoveOccupy, AbortMove
<1>3. ASSUME NEW h \in Hooks, hook'[h] # Idle
      PROVE  sent'[hook'[h].tx] > 0 /\ orders'[hook'[h].tx] \in {"shown", "paid"}
  <2>1. CASE hook[h] # Idle /\ hook'[h].tx = hook[h].tx
    <3>1. hook[h].tx \in TxIds /\ Reported(hook[h].tx)
      BY <1>1, <2>1 DEF SettledWasReported, HookRequest
    <3> QED BY <1>2, <2>1, <3>1
  <2>2. ASSUME NEW g \in Hooks, NEW t \in TxIds, HookRead(g, t), hook'[h] # hook[h]
        PROVE  sent'[hook'[h].tx] > 0 /\ orders'[hook'[h].tx] \in {"shown", "paid"}
    <3>1. hook'[h].tx = t
      BY <1>1, <1>3, <2>2 DEF HookRead
    <3>2. sent'[t] = sent[t] + 1 /\ orders' = orders /\ orders[t] \in {"shown", "paid"}
      BY <1>1, <2>2 DEF HookRead, Sends
    <3> QED BY <1>1, <3>1, <3>2
  <2>3. \/ hook'[h] = hook[h]
        \/ hook[h] # Idle /\ hook'[h].tx = hook[h].tx
        \/ \E g \in Hooks, t \in TxIds : HookRead(g, t)
    BY <1>1, <1>3, HookMoves
  <2> QED BY <1>3, <2>1, <2>2, <2>3
<1>4. ASSUME NEW t \in TxIds, txs'[t] # NoRow, txs'[t].status = "success"
      PROVE  sent'[t] > 0 /\ orders'[t] \in {"shown", "paid"}
  <2>1. CASE txs[t] # NoRow /\ txs[t].status = "success"
    BY <1>2, <2>1 DEF SettledWasReported
  <2>2. ASSUME NEW h \in Hooks, HookMark(h), hook[h].tx = t PROVE Reported(t)
    BY <2>2 DEF HookMark, At, Idle, SettledWasReported
  <2> QED BY <1>2, <1>4, <2>1, <2>2, SettledByMark
<1> QED BY <1>3, <1>4 DEF SettledWasReported

(* Nothing settles on its own: whatever the gateway reports, in any number of  *)
(* deliveries at once and with webhooks cut off anywhere, a transaction counts *)
(* as settled only after an event for an order its client was shown.           *)
THEOREM SettledCorrect == PaySpec => []SettledWasReported
<1>1. PayInit => SettledWasReported
  BY DEF PayInit, SettledWasReported
<1>2. PayTypeInv /\ OrderInv /\ SettledWasReported /\ [PayNext]_allVars
        => SettledWasReported'
  BY SettledStep
<1> QED BY <1>1, <1>2, PayTypeHolds, OrderHolds, PTL DEF PaySpec

-----------------------------------------------------------------------------
(* What a locked squad rests on.                                              *)

(* What a webhook and a move-in have established by the call they are at.     *)
Underway ==
    /\ \A h \in Hooks : hook[h] # Idle =>
         /\ txs[hook[h].tx].type = "token_payment"
         /\ hook[h].stage # "mark" => txs[hook[h].tx].status = "success"
    /\ \A m \in Movers : moving[m] # Idle => TokenPaid(moving[m].squad)

LockInv == Underway /\ LockedBacked

(* Payments on record stay on record.                                         *)
LEMMA RecordsStay ==
    ASSUME PayTypeInv, [PayNext]_allVars
    PROVE  \A s : TokenPaid(s) => TokenPaid(s)'
<1>1. \A t \in TxIds : txs[t] # NoRow =>
        /\ txs'[t] # NoRow
        /\ txs'[t].squad = txs[t].squad
        /\ txs'[t].type = txs[t].type
        /\ txs[t].status = "success" => txs'[t].status = "success"
  BY TxStays
<1> QED BY <1>1 DEF TokenPaid

(* No squad request locks a squad or moves it in.                             *)
LEMMA SquadsUnlocked ==
    ASSUME TypeInv, [Next]_vars, NEW s \in SquadIds, Locked(s)'
    PROVE  Locked(s)
<1> USE NoRowAssumption DEF TypeInv, TypeOK, References, Exists, Locked
<1>1. ASSUME NEW t \in SquadIds, NEW u \in Users,
             NEW p \in Properties \cup {NoProperty}, NEW m \in PaymentModels,
             CreateSquad(t, u, p, m)
      PROVE  Locked(s)
  BY <1>1 DEF CreateSquad, InsertSquad, NewSquad
<1>2. ASSUME NEW u \in Users, NEW t \in SquadIds, NEW accept \in BOOLEAN,
             RespondToInvite(u, t, accept)
      PROVE  Locked(s)
  <2>1. squads[t] \in Squad
    BY <1>2 DEF RespondToInvite
  <2>2. \A answer : Seated(squads[t], answer).status = squads[t].status
    BY <2>1, RowTypes
  <2> QED BY <1>2, <2>1, <2>2 DEF RespondToInvite, UpdateMemberStatus
<1>3. ASSUME NEW u \in Users, NEW q \in ProposalIds, NEW accept \in BOOLEAN,
             ResolveProposal(u, q, accept)
      PROVE  Locked(s)
  <2>1. /\ proposals[q].property \in Properties
        /\ squads[proposals[q].squad] \in Squad
    BY <1>3 DEF ResolveProposal, Proposal
  <2>2. Targeted(squads[proposals[q].squad], proposals[q].property).status = "forming"
    BY <2>1, RowTypes
  <2> QED BY <1>3, <2>2 DEF ResolveProposal, AcceptProposal, RejectProposal
<1>4. CASE squads' = squads
  BY <1>4
<1> QED
  BY <1>1, <1>2, <1>3, <1>4
     DEF Next, Create, Invite, Respond, Propose, Resolve, Crash, vars, rows,
         InviteRead, InviteCheck, InviteInsert, ProposeCheck, ProposeInsert,
         AbortInvite, AbortPropose

(* A move-in under way stays with its squad.                                  *)
LEMMA MoveKeeps ==
    ASSUME moving \in [Movers -> MoveRequest \cup {Idle}], NEW m \in Movers,
           moving'[m] # Idle, NEW n \in Movers, MoveRuns(n) \/ AbortMove(n)
    PROVE  moving[m] # Idle /\ moving'[m].squad = moving[m].squad
<1>1. moving[n] \in MoveRequest
  BY DEF MoveRuns, MoveFee, MoveStatus, MoveOccupy, AbortMove, Idle
<1>2. \A st : [moving[n] EXCEPT !.stage = st].squad = moving[n].squad
  BY <1>1 DEF MoveRequest
<1>3. \/ moving' = [moving EXCEPT ![n] = Idle]
      \/ \E st : moving' = [moving EXCEPT ![n] = [moving[n] EXCEPT !.stage = st]]
  BY DEF MoveRuns, MoveFee, MoveStatus, MoveOccupy, AbortMove
<1>4. moving[n] # Idle
  BY <1>1 DEF MoveRequest, Idle
<1> QED BY <1>2, <1>3, <1>4

(* The step of Underway.                                                      *)
LEMMA UnderwayStep ==
    ASSUME PayTypeInv, OrderInv, LockInv, [PayNext]_allVars
    PROVE  Underway'
<1>1. /\ txs \in [TxIds -> Transaction \cup {NoRow}]
      /\ hook \in [Hooks -> HookRequest \cup {Idle}]
      /\ moving \in [Movers -> MoveRequest \cup {Idle}]
      /\ \A h \in Hooks : hook[h] # Idle =>
           hook[h].tx \in TxIds /\ txs[hook[h].tx] \in Transaction
  BY DEF PayTypeInv, PayTypeOK, Linked, HookRequest, Idle
<1>2. \A t \in TxIds : txs[t] # NoRow =>
        /\ txs'[t].type = txs[t].type
        /\ txs[t].status = "success" => txs'[t].status = "success"
  BY TxStays
<1>3. ASSUME NEW h \in Hooks, hook'[h] # Idle
      PROVE  /\ txs'[hook'[h].tx].type = "token_payment"
             /\ hook'[h].stage # "mark" => txs'[hook'[h].tx].status = "success"
  <2>1. CASE /\ hook[h] # Idle /\ hook'[h].tx = hook[h].tx
             /\ hook'[h].stage # "mark" => hook[h].stage # "mark"
    <3>1. hook[h].tx \in TxIds /\ txs[hook[h].tx] # NoRow
      BY <1>1, <2>1, NoTxAssumption
    <3>2. /\ txs[hook[h].tx].type = "token_payment"
          /\ hook[h].stage # "mark" => txs[hook[h].tx].status = "success"
      BY <2>1 DEF LockInv, Underway
    <3> QED BY <1>2, <2>1, <3>1, <3>2
  <2>2. CASE hook'[h] = hook[h]
    BY <1>3, <2>1, <2>2
  <2>3. ASSUME NEW g \in Hooks, NEW t \in TxIds, HookRead(g, t), hook'[h] # hook[h]
        PROVE  /\ txs'[hook'[h].tx].type = "token_payment"
               /\ hook'[h].stage # "mark" => txs'[hook'[h].tx].status = "success"
    <3>1. hook'[h] = [stage |-> "mark", tx |-> t] /\ Unsettled(t) /\ Sends(t)
      BY <1>1, <1>3, <2>3 DEF HookRead
    <3>2. txs[t] # NoRow /\ txs[t].type = "token_payment"
      BY <3>1 DEF Sends, OrderInv, OrderBacked, Unsettled
    <3> QED BY <1>2, <3>1, <3>2
  <2>4. ASSUME NEW g \in Hooks, HookMark(g), hook'[h] # hook[h]
        PROVE  /\ txs'[hook'[h].tx].type = "token_payment"
               /\ hook'[h].stage # "mark" => txs'[hook'[h].tx].status = "success"
    <3>0. g = h
      BY <1>1, <2>4 DEF HookMark, GoTo
    <3>1. /\ hook[h] \in HookRequest
          /\ hook'[h] = [hook[h] EXCEPT !.stage = "credit"]
          /\ txs' = [txs EXCEPT ![hook[h].tx] =
                       [txs[hook[h].tx] EXCEPT !.status = "success"]]
      BY <1>1, <2>4, <3>0 DEF HookMark, GoTo, At, Idle
    <3>2. /\ hook[h] # Idle /\ hook'[h].tx = hook[h].tx
          /\ hook[h].tx \in TxIds /\ txs[hook[h].tx] \in Transaction
      BY <1>1, <3>1 DEF HookRequest, Idle
    <3>3. txs[hook[h].tx].type = "token_payment"
      BY <3>2 DEF LockInv, Underway
    <3> QED BY <1>1, <3>1, <3>2, <3>3, TxRows
  <2>5. ASSUME NEW g \in Hooks,
               HookCredit(g) \/ HookCheck(g) \/ HookLock(g) \/ AbortHook(g),
               hook'[h] # hook[h]
        PROVE  /\ hook[h] # Idle /\ hook'[h].tx = hook[h].tx
               /\ hook[h].stage # "mark"
    <3>1. g = h /\ ~AbortHook(g)
      BY <1>1, <1>3, <2>5 DEF HookCredit, HookCheck, HookLock, AbortHook, GoTo, Done
    <3>2. /\ hook[h] \in HookRequest /\ hook[h].stage # "mark"
          /\ \E st \in {"read", "lock"} : hook'[h] = [hook[h] EXCEPT !.stage = st]
      BY <1>1, <1>3, <2>5, <3>1 DEF HookCredit, HookCheck, HookLock, GoTo, Done, At, Idle
    <3> QED BY <3>1, <3>2 DEF HookRequest, Idle
  <2>6. \/ \E g \in Hooks, t \in TxIds : HookRead(g, t)
        \/ \E g \in Hooks : HookMark(g)
        \/ \E g \in Hooks : HookCredit(g) \/ HookCheck(g) \/ HookLock(g) \/ AbortHook(g)
        \/ hook' = hook
    BY DEF PayNext, SquadStep, PayStep, HookStep, HookRuns, MoveStep, MoveRuns,
           ClientStep, allVars, payVars, payStarted, PayRead, PayCreate, PayOrder,
           PayRef, AbortPay, MoveRead, MoveFee, MoveStatus, MoveOccupy,
           AbortMove, ClientPays
  <2> QED BY <2>1, <2>2, <2>3, <2>4, <2>5, <2>6
<1>4. ASSUME NEW m \in Movers, moving'[m] # Idle
      PROVE  TokenPaid(moving[m].squad)'
  <2>1. CASE moving[m] # Idle /\ moving'[m].squad = moving[m].squad
    <3>1. TokenPaid(moving'[m].squad)
      BY <2>1 DEF LockInv, Underway
    <3> QED BY <3>1, RecordsStay DEF TokenPaid
  <2>2. ASSUME NEW n \in Movers, NEW u \in Users, NEW s \in SquadIds,
               MoveRead(n, u, s), moving'[m] # moving[m]
        PROVE  TokenPaid(moving[m].squad)'
    <3>1. moving'[m].squad = s /\ Locked(s)
      BY <1>1, <2>2 DEF MoveRead, MayMoveIn, Locked
    <3>2. TokenPaid(s)
      BY <3>1 DEF LockInv, LockedBacked
    <3> QED BY <3>1, <3>2, RecordsStay DEF TokenPaid
  <2>3. ASSUME NEW n \in Movers, MoveRuns(n) \/ AbortMove(n)
        PROVE  moving[m] # Idle /\ moving'[m].squad = moving[m].squad
    BY <1>1, <1>4, <2>3, MoveKeeps
  <2>4. \/ \E n \in Movers, u \in Users, s \in SquadIds : MoveRead(n, u, s)
        \/ \E n \in Movers : MoveRuns(n) \/ AbortMove(n)
        \/ moving' = moving
    BY DEF PayNext, SquadStep, PayStep, HookStep, HookRuns, MoveStep,
           ClientStep, allVars, payVars, payStarted, PayRead, PayCreate, PayOrder,
           PayRef, AbortPay, HookRead, HookMark, HookCredit, HookCheck, HookLock,
           AbortHook, ClientPays
  <2> QED BY <1>4, <2>1, <2>2, <2>3, <2>4
<1> QED BY <1>3, <1>4 DEF Underway

(* The step of LockedBacked: the lock runs after the payment that caused it    *)
(* settled, the move-in after the lock.                                        *)
LEMMA LockedStep ==
    ASSUME PayTypeInv, LockInv, [PayNext]_allVars
    PROVE  LockedBacked'
<1> USE NoTxAssumption DEF PayTypeInv, PayTypeOK, TypeOK, Linked
<1> SUFFICES ASSUME NEW s \in SquadIds, Locked(s)'
             PROVE  TokenPaid(s)'
  BY DEF LockedBacked, Locked
<1>1. CASE Locked(s)
  BY <1>1, RecordsStay DEF LockInv, LockedBacked
<1>2. CASE SquadStep
  <2>1. TypeInv /\ [Next]_vars
    BY <1>2 DEF TypeInv, SquadStep
  <2> QED BY <1>1, <2>1, SquadsUnlocked
<1>3. ASSUME NEW h \in Hooks, HookCredit(h)
      PROVE  Locked(s)
  <2> DEFINE t == txs[hook[h].tx].squad
             r == Credited(squads[t], txs[hook[h].tx].amount)
  <2>1. hook[h] # Idle /\ hook[h].tx \in TxIds
    BY <1>3 DEF HookCredit, At, Idle, HookRequest
  <2>2. txs[hook[h].tx] # NoRow /\ txs[hook[h].tx] \in Transaction
    BY <2>1
  <2>3. /\ t \in SquadIds /\ txs[hook[h].tx].amount \in Nat
        /\ squads[t] # NoRow /\ squads[t] \in Squad
    BY <2>1, <2>2 DEF Transaction, Funded, Exists
  <2>4. r.status = squads[t].status
    BY <2>3, PaidRows
  <2>5. squads' = [squads EXCEPT ![t] = r]
    BY <1>3 DEF HookCredit
  <2> HIDE DEF t, r
  <2> QED BY <2>3, <2>4, <2>5 DEF Locked, Exists
<1>4. ASSUME NEW h \in Hooks, HookLock(h)
      PROVE  TokenPaid(s)'
  <2> DEFINE t == txs[hook[h].tx].squad
  <2>1. hook[h] # Idle /\ hook[h].tx \in TxIds /\ hook[h].stage # "mark"
    BY <1>4 DEF HookLock, At, Idle, HookRequest
  <2>2. /\ txs[hook[h].tx] # NoRow /\ txs[hook[h].tx] \in Transaction
        /\ txs[hook[h].tx].type = "token_payment"
        /\ txs[hook[h].tx].status = "success"
    BY <2>1 DEF LockInv, Underway
  <2>3. TokenPaid(t)
    BY <2>1, <2>2 DEF TokenPaid
  <2>4. t \in SquadIds /\ squads[t] \in Squad
    BY <2>1, <2>2 DEF Transaction, Funded, Exists
  <2>5. squads' = [squads EXCEPT ![t] = [squads[t] EXCEPT !.status = "locked"]]
    BY <1>4 DEF HookLock
  <2>6. [squads[t] EXCEPT !.status = "locked"].status = "locked"
    BY <2>4, PaidRows DEF SquadStatus
  <2> HIDE DEF t
  <2>7. CASE s = t
    BY <2>3, <2>7, RecordsStay
  <2>8. CASE s # t
    <3>1. squads'[s] = squads[s]
      BY <2>5, <2>8
    <3> QED BY <1>1, <3>1 DEF Locked, Exists
  <2> QED BY <2>7, <2>8
<1>5. ASSUME NEW m \in Movers, MoveStatus(m)
      PROVE  TokenPaid(s)'
  <2> DEFINE t == moving[m].squad
  <2>1. moving[m] # Idle
    BY <1>5 DEF MoveStatus, Idle
  <2>2. TokenPaid(t)
    BY <2>1 DEF LockInv, Underway
  <2>3. squads' = [squads EXCEPT ![t] = [squads[t] EXCEPT !.status = "moved_in"]]
    BY <1>5 DEF MoveStatus
  <2> HIDE DEF t
  <2>4. CASE s = t
    BY <2>2, <2>4, RecordsStay
  <2>5. CASE s # t
    <3>1. squads'[s] = squads[s]
      BY <2>3, <2>5
    <3> QED BY <1>1, <3>1 DEF Locked, Exists
  <2> QED BY <2>4, <2>5
<1>6. CASE squads' = squads
  BY <1>1, <1>6 DEF Locked, Exists
<1> QED
  BY <1>1, <1>2, <1>3, <1>4, <1>5, <1>6
     DEF PayNext, PayStep, HookStep, HookRuns, MoveStep, MoveRuns, ClientStep,
         allVars, vars, PayRead, PayCreate, PayOrder, PayRef, AbortPay, HookRead,
         HookMark, HookCheck, AbortHook, MoveRead, MoveFee, MoveOccupy, AbortMove,
         ClientPays

LEMMA LockHolds == PaySpec => []LockInv
<1>1. PayInit => LockInv
  BY DEF PayInit, Init, LockInv, Underway, LockedBacked, Locked, Exists
<1>2. ASSUME PayTypeInv, OrderInv, LockInv, [PayNext]_allVars PROVE LockInv'
  BY <1>2, UnderwayStep, LockedStep DEF LockInv
<1> QED BY <1>1, <1>2, PayTypeHolds, OrderHolds, PTL DEF PaySpec

(* A squad is locked only with a settled token payment of its own, whichever  *)
(* requests were cut off or run twice.                                        *)
THEOREM LockedCorrect == PaySpec => []LockedBacked
BY LockHolds, PTL DEF LockInv

(* Payments leave members, proposals and squad requests alone: who may invite *)
(* and propose is as it is in Squads.                                         *)
THEOREM PayActorsCorrect == PaySpec => []OnlyMembersAct
<1>1. PayInit => OnlyMembersAct
  BY DEF PayInit, Init, OnlyMembersAct, Idle
<1>2. ASSUME PayTypeInv, OnlyMembersAct, [PayNext]_allVars PROVE OnlyMembersAct'
  <2>1. CASE SquadStep
    BY <1>2, <2>1, ActorStep DEF PayTypeInv, PayTypeOK, TypeInv, SquadStep
  <2>2. CASE ~SquadStep
    BY <1>2, <2>2, PaymentRows DEF OnlyMembersAct, requests
  <2> QED BY <2>1, <2>2
<1> QED BY <1>1, <1>2, PayTypeHolds, PTL DEF PaySpec

(* FR-4.4 with payments running: neither a lock nor a move-in nor a credit    *)
(* writes a property it read before; only an accepted proposal changes it.    *)
THEOREM PayChoicesCorrect == PaySpec => ChosenFromProposals
<1>1. ASSUME PayTypeInv, OnlyMembersAct, [PayNext]_allVars
      PROVE  [\A s \in SquadIds :
                Exists(s) /\ squads'[s].property # squads[s].property =>
                  \E q \in ProposalIds :
                    /\ proposals[q] # NoRow
                    /\ proposals[q].squad = s
                    /\ proposals[q].property = squads'[s].property
                    /\ proposals[q].proposer \in joined[s]
                    /\ proposals'[q].status = "accepted"
                    /\ \A p \in ProposalIds :
                         proposals[p] # NoRow /\ proposals[p].squad = s
                           => proposals'[p].status # "pending"]_vars
  <2>1. CASE SquadStep
    <3>1. TypeInv /\ [Next]_vars
      BY <1>1, <2>1 DEF PayTypeInv, PayTypeOK, TypeInv, SquadStep
    <3> QED BY <1>1, <3>1, ChoiceStep
  <2>2. CASE ~SquadStep
    <3>1. \A s \in SquadIds : squads'[s].property = squads[s].property
      BY <1>1, <2>2, PaymentRows DEF PaymentWrites, PayTypeInv, PayTypeOK, TypeOK
    <3> QED BY <3>1
  <2> QED BY <2>1, <2>2
<1> QED
  BY <1>1, PayTypeHolds, PayActorsCorrect, PTL DEF PaySpec, ChosenFromProposals

(* The one statement that gives a squad another property leaves it forming.   *)
LEMMA PropertyWrites ==
    ASSUME PayTypeInv, [PayNext]_allVars, NEW s \in SquadIds, Exists(s),
           squads'[s].property # squads[s].property
    PROVE  /\ ~Locked(s)'
           /\ \E u \in Users, q \in ProposalIds :
                ResolveProposal(u, q, TRUE) /\ proposals[q].squad = s
<1>1. CASE SquadStep
  <2>1. TypeInv /\ [Next]_vars
    BY <1>1 DEF PayTypeInv, PayTypeOK, TypeInv, SquadStep
  <2>2. /\ squads[s] \in Squad
        /\ \A answer : Seated(squads[s], answer).property = squads[s].property
        /\ \A p \in Properties : Targeted(squads[s], p).status = "forming"
    BY <2>1, SquadWrites, RowTypes
  <2>3. ~(\E answer : squads'[s] = Seated(squads[s], answer)) /\ squads'[s] # squads[s]
    BY <2>2
  <2>4. PICK u \in Users, q \in ProposalIds :
          /\ ResolveProposal(u, q, TRUE) /\ proposals[q].squad = s
          /\ proposals[q].property \in Properties
          /\ squads'[s] = Targeted(squads[s], proposals[q].property)
    BY <2>1, <2>3, SquadWrites, Zenon
  <2>5. ~Locked(s)'
    BY <2>2, <2>4 DEF Locked
  <2> QED BY <2>4, <2>5, Zenon
<1>2. ASSUME ~SquadStep PROVE FALSE
  <2>1. ASSUME NEW t \in SquadIds, NEW r \in Squad, PaymentWrites(t, r) PROVE FALSE
    BY <2>1 DEF PaymentWrites, PayTypeInv, PayTypeOK, TypeOK
  <2>2. squads' # squads
    OBVIOUS
  <2> QED BY <1>2, <2>1, <2>2, PaymentRows
<1> QED BY <1>1, <1>2

(* Somebody relies on the deposit that squad s has collected: a webhook that  *)
(* has compared it and not locked the squad yet, or a move-in under way.      *)
ReliedOn(s) ==
    \/ \E h \in Hooks : hook[h].stage = "lock" /\ txs[hook[h].tx].squad = s
    \/ \E m \in Movers : moving[m] # Idle /\ moving[m].squad = s

(* No proposal of a squad is accepted while somebody relies on its deposit.   *)
NeverOvertaken ==
    [][\A s \in SquadIds, u \in Users, q \in ProposalIds :
         ReliedOn(s) /\ proposals[q].squad = s => ~ResolveProposal(u, q, TRUE)]_allVars

(* What a webhook at the lock, and a move-in, know of the collected deposit.  *)
CoverInv ==
    /\ LockedCovered
    /\ \A h \in Hooks : hook[h].stage = "lock" => Collected(squads[txs[hook[h].tx].squad])
    /\ \A m \in Movers : moving[m] # Idle => Collected(squads[moving[m].squad])

(* While a squad keeps its property, it keeps what it has collected of the    *)
(* deposit.                                                                   *)
LEMMA CollectedStays ==
    ASSUME PayTypeInv, [PayNext]_allVars, NEW s \in SquadIds, Funded(s),
           Collected(squads[s]), squads'[s].property = squads[s].property
    PROVE  Collected(squads'[s])
<1>1. /\ squads[s] \in Squad /\ squads[s].total \in Nat
      /\ Deposit[squads[s].property] \in Nat
  BY NoRowAssumption, DepositAssumption
     DEF PayTypeInv, PayTypeOK, TypeOK, Funded, Exists, Squad
<1>2. squads'[s].total \in Nat /\ squads'[s].total >= squads[s].total
  <2>1. CASE SquadStep
    <3>1. TypeInv /\ [Next]_vars
      BY <2>1 DEF PayTypeInv, PayTypeOK, TypeInv, SquadStep
    <3> QED BY <1>1, <3>1, SquadFunded DEF Funded
  <2>2. CASE ~SquadStep /\ squads' # squads
    <3>1. PICK t \in SquadIds, r \in Squad : PaymentWrites(t, r)
      BY <2>2, PaymentRows
    <3>2. r.total \in Nat
      BY DEF Squad
    <3> QED BY <1>1, <3>1, <3>2 DEF PaymentWrites, PayTypeInv, PayTypeOK, TypeOK
  <2> QED BY <1>1, <2>1, <2>2
<1> QED BY <1>1, <1>2 DEF Collected

(* The step of CoverInv: nothing is taken off a squad between the comparison  *)
(* with its deposit and the lock that relies on it, nor later.                *)
LEMMA CoverStep ==
    ASSUME PayTypeInv, LockInv, CoverInv, [PayNext]_allVars,
           \/ \A s \in SquadIds, u \in Users, q \in ProposalIds :
                ReliedOn(s) /\ proposals[q].squad = s => ~ResolveProposal(u, q, TRUE)
           \/ UNCHANGED allVars
    PROVE  CoverInv'
<1>1. ASSUME NEW s \in SquadIds, Locked(s)
      PROVE  Funded(s) /\ Collected(squads[s])
  BY <1>1 DEF CoverInv, LockedCovered, Collected, LockInv, LockedBacked, TokenPaid,
     PayTypeInv, Linked
<1>2. ASSUME NEW h \in Hooks, hook[h] # Idle
      PROVE  /\ hook[h].tx \in TxIds /\ txs[hook[h].tx] # NoRow
             /\ txs[hook[h].tx].squad \in SquadIds
             /\ Funded(txs[hook[h].tx].squad)
  BY <1>2 DEF PayTypeInv, PayTypeOK, Linked, HookRequest, Transaction
<1>3. ASSUME NEW m \in Movers, moving[m] # Idle
      PROVE  moving[m].squad \in SquadIds /\ Funded(moving[m].squad)
  BY <1>3 DEF PayTypeInv, PayTypeOK, Linked, MoveRequest
<1>a. ASSUME NEW s \in SquadIds, Funded(s), Collected(squads[s]), ReliedOn(s)
      PROVE  Collected(squads'[s])
  <2>1. squads'[s].property = squads[s].property
    BY <1>a, PropertyWrites DEF Funded, allVars
  <2> QED BY <1>a, <2>1, CollectedStays
<1>4. ASSUME NEW s \in SquadIds, Locked(s)' PROVE Collected(squads'[s])
  <2>1. CASE Locked(s)
    BY <1>1, <1>4, <2>1, CollectedStays, PropertyWrites DEF Locked
  <2>2. ASSUME NEW t \in SquadIds, NEW r \in Squad, PaymentWrites(t, r),
               r.status = squads[t].status
        PROVE  Locked(s)
    BY <1>4, <2>2, NoRowAssumption
       DEF PaymentWrites, Funded, Exists, Locked, PayTypeInv, PayTypeOK, TypeOK
  <2>3. ASSUME NEW h \in Hooks, HookLock(h) PROVE Collected(squads'[s])
    <3>1. hook[h] # Idle /\ Collected(squads[txs[hook[h].tx].squad])
      BY <2>3 DEF HookLock, At, Idle, CoverInv
    <3>2. s = txs[hook[h].tx].squad \/ squads'[s] = squads[s]
      BY <1>2, <2>3, <3>1 DEF HookLock
    <3>3. CASE s = txs[hook[h].tx].squad
      BY <1>2, <1>a, <2>3, <3>1, <3>3 DEF ReliedOn, HookLock, At
    <3> QED BY <1>4, <2>1, <3>2, <3>3 DEF Locked, Exists
  <2>4. ASSUME NEW m \in Movers, MoveStatus(m) PROVE Collected(squads'[s])
    <3>1. moving[m] # Idle /\ Collected(squads[moving[m].squad])
      BY <2>4 DEF MoveStatus, Idle, CoverInv
    <3>2. s = moving[m].squad \/ squads'[s] = squads[s]
      BY <1>3, <2>4, <3>1 DEF MoveStatus
    <3>3. CASE s = moving[m].squad
      BY <1>3, <1>a, <3>1, <3>3 DEF ReliedOn
    <3> QED BY <1>4, <2>1, <3>2, <3>3 DEF Locked, Exists
  <2>5. CASE SquadStep
    BY <1>4, <2>1, <2>5, SquadsUnlocked
       DEF PayTypeInv, PayTypeOK, TypeInv, SquadStep
  <2>6. ASSUME NEW h \in Hooks, HookCredit(h) PROVE Locked(s)
    <3>1. hook[h] # Idle
      BY <2>6 DEF HookCredit, At, Idle
    <3> DEFINE t == txs[hook[h].tx].squad
               r == Credited(squads[t], txs[hook[h].tx].amount)
    <3>2. r.status = squads[t].status /\ t \in SquadIds /\ Exists(t)
      BY <1>2, <3>1, PaidRows
         DEF PayTypeInv, PayTypeOK, TypeOK, Funded, Exists, Transaction
    <3>3. squads' = [squads EXCEPT ![t] = r]
      BY <2>6 DEF HookCredit
    <3> HIDE DEF t, r
    <3> QED BY <1>4, <3>2, <3>3 DEF Locked, Exists
  <2>7. CASE squads' = squads
    BY <1>4, <2>1, <2>7 DEF Locked, Exists
  <2> QED
    BY <2>1, <2>3, <2>4, <2>5, <2>6, <2>7
       DEF PayNext, PayStep, HookStep, HookRuns, MoveStep, MoveRuns, ClientStep,
           allVars, vars, PayRead, PayCreate, PayOrder, PayRef, AbortPay, HookRead,
           HookMark, HookCheck, AbortHook, MoveRead, MoveFee, MoveOccupy, AbortMove,
           ClientPays
<1>5. ASSUME NEW h \in Hooks, hook'[h].stage = "lock"
      PROVE  Collected(squads'[txs'[hook'[h].tx].squad])
  <2>1. /\ hook[h] # Idle /\ hook'[h].tx = hook[h].tx
        /\ Collected(squads[txs[hook[h].tx].squad])
        /\ hook[h].stage = "lock" \/ squads' = squads
    <3>1. CASE hook'[h] = hook[h]
      BY <1>5, <3>1 DEF CoverInv, Idle
    <3>2. ASSUME NEW g \in Hooks, HookCheck(g), hook'[h] # hook[h]
          PROVE  /\ hook[h] # Idle /\ hook'[h].tx = hook[h].tx
                 /\ Collected(squads[txs[hook[h].tx].squad])
                 /\ squads' = squads
      <4>1. hook[g] \in HookRequest /\ g = h /\ hook[h] # Idle
        BY <3>2 DEF PayTypeInv, PayTypeOK, HookCheck, At, GoTo, Done, Idle
      <4>2. [hook[h] EXCEPT !.stage = "lock"].tx = hook[h].tx
        BY <4>1 DEF HookRequest
      <4>3. hook \in [Hooks -> HookRequest \cup {Idle}]
        BY DEF PayTypeInv, PayTypeOK
      <4>4. Collected(squads[txs[hook[h].tx].squad])
        <5>1. hook' # [hook EXCEPT ![h] = Idle]
          BY <1>5, <4>3 DEF Idle
        <5> QED BY <3>2, <4>1, <5>1 DEF HookCheck, Done
      <4>5. hook' = [hook EXCEPT ![h] = [hook[h] EXCEPT !.stage = "lock"]]
        BY <3>2, <4>1, <4>4 DEF HookCheck, GoTo
      <4>6. squads' = squads
        BY <3>2 DEF HookCheck, vars
      <4> QED BY <4>1, <4>2, <4>3, <4>4, <4>5, <4>6
    <3>3. hook'[h] = hook[h] \/ \E g \in Hooks : HookCheck(g)
      <4>1. hook \in [Hooks -> HookRequest \cup {Idle}]
        BY DEF PayTypeInv, PayTypeOK
      <4>2. ASSUME NEW g \in Hooks, HookMark(g) \/ HookCredit(g)
            PROVE  hook'[h] = hook[h]
        <5>1. hook[g] \in HookRequest
          BY <4>1, <4>2 DEF HookMark, HookCredit, At, Idle
        <5>2. /\ [hook[g] EXCEPT !.stage = "credit"].stage = "credit"
              /\ [hook[g] EXCEPT !.stage = "read"].stage = "read"
          BY <5>1 DEF HookRequest
        <5> QED BY <1>5, <4>1, <4>2, <5>2 DEF HookMark, HookCredit, GoTo
      <4>3. ASSUME NEW g \in Hooks,
                   HookLock(g) \/ AbortHook(g) \/ \E t \in TxIds : HookRead(g, t)
            PROVE  hook'[h] = hook[h]
        BY <1>5, <4>1, <4>3 DEF HookLock, AbortHook, HookRead, Done, Idle
      <4> QED
        BY <4>2, <4>3
           DEF PayNext, SquadStep, PayStep, HookStep, HookRuns, MoveStep, MoveRuns,
               ClientStep, allVars, payVars, payStarted, PayRead, PayCreate,
               PayOrder, PayRef, AbortPay, MoveRead, MoveFee, MoveStatus,
               MoveOccupy, AbortMove, ClientPays
    <3> QED BY <1>5, <3>1, <3>2, <3>3
  <2>2. txs'[hook'[h].tx].squad = txs[hook[h].tx].squad
    BY <1>2, <2>1, TxStays
  <2>3. CASE hook[h].stage = "lock"
    BY <1>2, <1>a, <2>1, <2>2, <2>3 DEF ReliedOn
  <2> QED BY <2>1, <2>2, <2>3
<1>6. ASSUME NEW m \in Movers, moving'[m] # Idle
      PROVE  Collected(squads'[moving'[m].squad])
  <2>1. /\ moving'[m].squad \in SquadIds /\ Funded(moving'[m].squad)
        /\ Collected(squads[moving'[m].squad])
        /\ ReliedOn(moving'[m].squad) \/ squads' = squads
    <3>1. CASE moving[m] # Idle /\ moving'[m].squad = moving[m].squad
      BY <1>3, <3>1 DEF CoverInv, ReliedOn
    <3>2. ASSUME NEW n \in Movers, NEW u \in Users, NEW s \in SquadIds,
                 MoveRead(n, u, s), moving'[m] # moving[m]
          PROVE  moving'[m].squad = s /\ Locked(s) /\ squads' = squads
      BY <3>2 DEF MoveRead, MayMoveIn, Locked, PayTypeInv, PayTypeOK, vars
    <3>3. moving \in [Movers -> MoveRequest \cup {Idle}]
      BY DEF PayTypeInv, PayTypeOK
    <3>4. ASSUME NEW n \in Movers, MoveRuns(n) \/ AbortMove(n)
          PROVE  moving[m] # Idle /\ moving'[m].squad = moving[m].squad
      BY <1>6, <3>3, <3>4, MoveKeeps
    <3>5. \/ \E n \in Movers, u \in Users, s \in SquadIds : MoveRead(n, u, s)
          \/ \E n \in Movers : MoveRuns(n) \/ AbortMove(n)
          \/ moving' = moving
      BY DEF PayNext, SquadStep, PayStep, HookStep, HookRuns, MoveStep,
             ClientStep, allVars, payVars, payStarted, PayRead, PayCreate,
             PayOrder, PayRef, AbortPay, HookRead, HookMark, HookCredit,
             HookCheck, HookLock, AbortHook, ClientPays
    <3> QED BY <1>1, <1>6, <3>1, <3>2, <3>4, <3>5
  <2> QED BY <1>a, <2>1
<1> QED BY <1>4, <1>5, <1>6 DEF CoverInv, LockedCovered, Collected

(* A locked squad has collected the deposit of its property, to the paisa the *)
(* code tolerates, however payments, webhooks (twice, cut off) and move-ins   *)
(* interleave and whatever proposals are made, accepted and rejected, unless  *)
(* a proposal is accepted between a comparison and the statement that relies  *)
(* on it: those gaps, from GetSquadByID to SetStatusLocked and to             *)
(* SetStatusMovedIn, are the only way to a locked squad without its deposit.  *)
THEOREM CoveredCorrect == PaySpec /\ NeverOvertaken => []LockedCovered
<1>1. PayInit => CoverInv
  BY DEF PayInit, Init, CoverInv, LockedCovered, Locked, Exists, Idle
<1>2. ASSUME PayTypeInv, LockInv, CoverInv, [PayNext]_allVars,
             [\A s \in SquadIds, u \in Users, q \in ProposalIds :
                ReliedOn(s) /\ proposals[q].squad = s
                  => ~ResolveProposal(u, q, TRUE)]_allVars
      PROVE  CoverInv'
  BY <1>2, CoverStep
<1>3. PaySpec => []PayTypeInv /\ []LockInv
  BY PayTypeHolds, LockHolds
<1>4. CoverInv => LockedCovered
  BY DEF CoverInv
<1> QED BY <1>1, <1>2, <1>3, <1>4, PTL DEF PaySpec, NeverOvertaken

-----------------------------------------------------------------------------
(* The ledger.                                                                *)

(* Without overlapping deliveries a payment is in the hands of one webhook,   *)
(* and what that webhook read of its status is still so when it marks it.     *)
OneHook ==
    /\ \A g, h \in Hooks :
         hook[g] # Idle /\ hook[h] # Idle /\ hook[g].tx = hook[h].tx => g = h
    /\ \A h \in Hooks :
         /\ hook[h].stage = "mark" => txs[hook[h].tx].status # "success"
         /\ hook[h].stage = "credit" => txs[hook[h].tx].status = "success"

(* The step of OneHook: the gateway delivers an event again only when no       *)
(* webhook has the last one in hand.                                           *)
LEMMA OneHookStep ==
    ASSUME ~Overlap, PayTypeInv, OneHook, [PayNext]_allVars
    PROVE  OneHook'
<1>1. /\ hook \in [Hooks -> HookRequest \cup {Idle}]
      /\ \A h \in Hooks : hook[h].stage \in {"mark", "credit"} =>
           hook[h] # Idle /\ hook[h].tx \in TxIds /\ txs[hook[h].tx] # NoRow
  BY DEF PayTypeInv, PayTypeOK, Linked, HookRequest, Idle
<1>2. ASSUME NEW h \in Hooks, hook'[h] = hook[h]
      PROVE  /\ hook'[h].stage = "mark" => txs'[hook'[h].tx].status # "success"
             /\ hook'[h].stage = "credit" => txs'[hook'[h].tx].status = "success"
  <2>1. CASE hook[h].stage = "mark"
    <3>1. txs[hook[h].tx].status # "success" /\ txs'[hook[h].tx] # NoRow
      BY <1>1, <2>1, TxStays DEF OneHook
    <3>2. ASSUME NEW g \in Hooks, HookMark(g), hook[g].tx = hook[h].tx PROVE FALSE
      <4>1. g = h
        BY <1>1, <2>1, <3>2 DEF OneHook, HookMark, At
      <4>2. hook[h] \in HookRequest
        BY <1>1, <2>1
      <4>3. [hook[h] EXCEPT !.stage = "credit"].stage = "credit"
        BY <4>2 DEF HookRequest
      <4> QED BY <1>1, <1>2, <2>1, <3>2, <4>1, <4>3 DEF HookMark, GoTo
    <3> QED BY <1>1, <1>2, <2>1, <3>1, <3>2, SettledByMark
  <2>2. CASE hook[h].stage = "credit"
    BY <1>1, <1>2, <2>2, TxStays DEF OneHook
  <2> QED BY <1>2, <2>1, <2>2
<1>3. CASE hook' = hook
  BY <1>2, <1>3 DEF OneHook
<1>4. ASSUME NEW h \in Hooks, NEW t \in TxIds, HookRead(h, t), hook[h] = Idle,
             \/ hook' = [hook EXCEPT ![h] = Idle]
             \/ /\ hook' = [hook EXCEPT ![h] = [stage |-> "mark", tx |-> t]]
                /\ Unsettled(t)
      PROVE  OneHook'
  <2>1. \A g \in Hooks : hook[g] # Idle => hook[g].tx # t
    BY <1>4 DEF HookRead, Sends, Handling
  <2>2. \A g \in Hooks : g # h => hook'[g] = hook[g]
    BY <1>1, <1>4
  <2>3. \/ hook'[h] = Idle
        \/ hook'[h] = [stage |-> "mark", tx |-> t] /\ txs'[t].status # "success"
    BY <1>1, <1>4 DEF HookRead, Unsettled
  <2>4. Idle.stage = "idle"
    BY DEF Idle
  <2>5. \A g, k \in Hooks :
          hook'[g] # Idle /\ hook'[k] # Idle /\ hook'[g].tx = hook'[k].tx => g = k
    BY <2>1, <2>2, <2>3 DEF OneHook
  <2> QED BY <1>2, <2>2, <2>3, <2>4, <2>5 DEF OneHook
<1>5. ASSUME NEW h \in Hooks, hook[h] # Idle, hook[h] \in HookRequest,
             \/ hook' = [hook EXCEPT ![h] = Idle]
             \/ \E st \in {"credit", "read", "lock"} :
                  /\ hook' = [hook EXCEPT ![h] = [stage |-> st, tx |-> hook[h].tx]]
                  /\ st = "credit" => HookMark(h)
      PROVE  OneHook'
  <2>1. \A g \in Hooks : g # h => hook'[g] = hook[g]
    BY <1>1, <1>5
  <2>2. \/ hook'[h] = Idle
        \/ \E st \in {"credit", "read", "lock"} :
             /\ hook'[h] = [stage |-> st, tx |-> hook[h].tx]
             /\ st = "credit" => HookMark(h)
    BY <1>1, <1>5
  <2>3. HookMark(h) => txs'[hook[h].tx].status = "success"
    <3>1. HookMark(h) => txs[hook[h].tx] \in Transaction /\ hook[h].tx \in TxIds
      BY <1>1 DEF HookMark, At, PayTypeInv, PayTypeOK
    <3> QED BY <3>1, TxRows DEF HookMark, PayTypeInv, PayTypeOK
  <2>4. Idle.stage = "idle"
    BY DEF Idle
  <2>5. \A g, k \in Hooks :
          hook'[g] # Idle /\ hook'[k] # Idle /\ hook'[g].tx = hook'[k].tx => g = k
    BY <1>5, <2>1, <2>2 DEF OneHook
  <2> QED BY <1>2, <2>1, <2>2, <2>3, <2>4, <2>5 DEF OneHook
<1> QED BY <1>3, <1>4, <1>5, HookMoves

LEMMA OneHookHolds == ASSUME ~Overlap PROVE PaySpec => []OneHook
<1>1. PayInit => OneHook
  BY DEF PayInit, OneHook, Idle
<1>2. ASSUME PayTypeInv, OneHook, [PayNext]_allVars PROVE OneHook'
  BY <1>2, OneHookStep
<1> QED BY <1>1, <1>2, PayTypeHolds, PTL DEF PaySpec

-----------------------------------------------------------------------------
(* The refinement of module Escrow.                                           *)

(* A step on the rows of transactions that keeps what they are pledged for,   *)
(* and a step that neither settles a row nor brings one to its credit or past *)
(* it, do not touch the ledger.                                               *)
LEMMA PledgesStay ==
    ASSUME \A t \in TxIds :
             \/ txs'[t] = NoRow /\ txs[t] = NoRow
             \/ /\ txs[t] # NoRow /\ txs'[t] # NoRow
                /\ txs'[t].squad = txs[t].squad
                /\ txs'[t].type = txs[t].type
                /\ txs'[t].amount = txs[t].amount
    PROVE  Pledges' = Pledges
  BY DEF Pledges

LEMMA SettledStay ==
    ASSUME \A t \in TxIds : (t \in InLedger)' <=> t \in InLedger
    PROVE  InLedger' = InLedger
  BY DEF InLedger

(* Writing a squad's status does not change what it has collected.            *)
LEMMA TotalsStay ==
    ASSUME PayTypeInv, NEW s \in SquadIds, Exists(s), NEW st \in SquadStatus,
           squads' = [squads EXCEPT ![s].status = st]
    PROVE  Totals' = Totals
<1>1. squads[s] \in Squad /\ squads \in [SquadIds -> Squad \cup {NoRow}]
  BY DEF PayTypeInv, PayTypeOK, TypeOK, Exists
<1>2. /\ [squads[s] EXCEPT !.status = st].total = squads[s].total
      /\ [squads[s] EXCEPT !.status = st] # NoRow
  BY <1>1, PaidRows, NoRowAssumption
<1>3. \A a \in SquadIds : Totals'[a] = Totals[a]
  BY <1>1, <1>2 DEF Totals, Exists
<1> QED BY <1>3 DEF Totals

(* The initial states map to the initial state.                               *)
LEMMA LedgerInit == PayInit => Ledger!Init
  BY DEF PayInit, Init, Ledger!Init, Pledges, InLedger, Totals, Exists

(* The squad requests never touch the ledger.                                 *)
LEMMA LedgerSquad ==
    ASSUME PayTypeInv, SquadStep
    PROVE  UNCHANGED Ledger!money
<1>1. TypeInv /\ [Next]_vars /\ txs' = txs /\ hook' = hook
  BY DEF PayTypeInv, PayTypeOK, TypeInv, SquadStep, payVars
<1>2. Pledges' = Pledges /\ InLedger' = InLedger
  BY <1>1 DEF Pledges, InLedger, Crediting
<1>3. \A a \in SquadIds : Totals'[a] = Totals[a]
  BY <1>1, SquadFunded, NewRow DEF Totals
<1>4. Totals' = Totals
  BY <1>3 DEF Totals
<1> QED BY <1>2, <1>4 DEF Ledger!money

(* A payment request pledges its amount to its squad in one step.             *)
LEMMA LedgerCreate ==
    ASSUME PayTypeInv, NEW w \in Payers, NEW t \in TxIds, PayCreate(w, t)
    PROVE  Ledger!Pledge(t) \/ UNCHANGED Ledger!money
<1>1. /\ txs \in [TxIds -> Transaction \cup {NoRow}]
      /\ squads' = squads /\ hook' = hook
  BY DEF PayTypeInv, PayTypeOK, PayCreate, vars
<1>2. paying[w] \in PayRequest
  BY DEF PayTypeInv, PayTypeOK, PayCreate, PayRequest, OrderRequest, Idle
<1>3. Totals' = Totals
  BY <1>1 DEF Totals, Exists
<1>4. CASE txs' = txs
  BY <1>1, <1>3, <1>4 DEF Ledger!money, Pledges, InLedger, Crediting
<1>5. CASE /\ txs[t] = NoRow
           /\ txs' = [txs EXCEPT ![t] =
                        NewTransaction(paying[w], "token_payment", paying[w].amount)]
  <2> DEFINE r == NewTransaction(paying[w], "token_payment", paying[w].amount)
  <2>1. /\ r \in Transaction /\ r.type = "token_payment" /\ r.status # "success"
        /\ r.squad \in SquadIds /\ r.amount \in Nat
    BY <1>2 DEF PayRequest, NewTransaction, Transaction
  <2>2. txs'[t] = r /\ \A u \in TxIds : u # t => txs'[u] = txs[u]
    BY <1>1, <1>5
  <2> HIDE DEF r
  <2>3. InLedger' = InLedger
    <3>1. \A u \in TxIds : (u \in InLedger)' <=> u \in InLedger
      BY <1>1, <1>5, <2>1, <2>2 DEF InLedger, Crediting
    <3> QED BY <3>1, SettledStay
  <2>4. /\ Pledges[t] = NoRow
        /\ Pledges'[t] = [account |-> r.squad, amount |-> r.amount]
        /\ \A u \in TxIds : u # t => Pledges'[u] = Pledges[u]
    BY <1>1, <1>5, <2>1, <2>2, NoTxAssumption DEF Pledges
  <2>5. Pledges' = [Pledges EXCEPT ![t] = Pledges'[t]]
    BY <2>4 DEF Pledges
  <2>6. Pledges'[t] \in Ledger!Pledges
    BY <2>1, <2>4 DEF Ledger!Pledges
  <2> QED BY <1>3, <2>3, <2>4, <2>5, <2>6 DEF Ledger!Pledge
<1> QED BY <1>4, <1>5 DEF PayCreate

(* The row of a success fee is no pledge.                                     *)
LEMMA LedgerFee ==
    ASSUME PayTypeInv, NEW m \in Movers, NEW t \in TxIds, MoveFee(m, t)
    PROVE  UNCHANGED Ledger!money
<1>1. /\ txs \in [TxIds -> Transaction \cup {NoRow}]
      /\ squads' = squads /\ hook' = hook
  BY DEF PayTypeInv, PayTypeOK, MoveFee, vars
<1>2. \/ txs' = txs
      \/ /\ txs[t] = NoRow
         /\ txs' = [txs EXCEPT ![t] = NewTransaction(moving[m], "success_fee", 0)]
  BY DEF MoveFee
<1>3. NewTransaction(moving[m], "success_fee", 0).type = "success_fee"
      /\ NewTransaction(moving[m], "success_fee", 0).status = "initiated"
  BY DEF NewTransaction
<1>4. Totals' = Totals
  BY <1>1 DEF Totals, Exists
<1>5. \A u \in TxIds : \/ txs'[u] = txs[u]
                        \/ /\ txs[u] = NoRow
                           /\ txs'[u].type = "success_fee"
                           /\ txs'[u].status = "initiated"
  BY <1>1, <1>2, <1>3
<1>6. \A u \in TxIds : Pledges'[u] = Pledges[u]
  BY <1>5 DEF Pledges
<1>7. \A u \in TxIds : (u \in InLedger)' <=> u \in InLedger
  BY <1>1, <1>5 DEF InLedger, Crediting
<1>8. Pledges' = Pledges /\ InLedger' = InLedger
  BY <1>6, <1>7, SettledStay DEF Pledges
<1> QED BY <1>4, <1>8 DEF Ledger!money

(* Storing the gateway's reference does not touch the ledger.                 *)
LEMMA LedgerRef ==
    ASSUME PayTypeInv, NEW w \in Payers, PayRef(w)
    PROVE  UNCHANGED Ledger!money
<1> DEFINE t == paying[w].tx
           r == [txs[t] EXCEPT !.ref = TRUE]
<1>1. /\ txs \in [TxIds -> Transaction \cup {NoRow}]
      /\ t \in TxIds /\ txs[t] # NoRow /\ txs[t] \in Transaction
      /\ squads' = squads /\ hook' = hook
      /\ txs' = [txs EXCEPT ![t] = r]
  BY DEF PayTypeInv, PayTypeOK, Linked, PayRef, vars, PayRequest, OrderRequest, Idle
<1>2. /\ r # NoRow /\ r.squad = txs[t].squad /\ r.type = txs[t].type
      /\ r.amount = txs[t].amount /\ r.status = txs[t].status
  BY <1>1, TxRows, NoTxAssumption
<1> HIDE DEF t, r
<1>3. Totals' = Totals
  BY <1>1 DEF Totals, Exists
<1>4. Pledges' = Pledges
  BY <1>1, <1>2, PledgesStay
<1>5. \A u \in TxIds : (u \in InLedger)' <=> u \in InLedger
  BY <1>1, <1>2 DEF InLedger, Crediting
<1> QED BY <1>3, <1>4, <1>5, SettledStay DEF Ledger!money

(* MarkSuccess does not touch the ledger: the row it settles was not settled, *)
(* and its amount is still to be added.                                       *)
LEMMA LedgerMark ==
    ASSUME PayTypeInv, OneHook, NEW h \in Hooks, HookMark(h),
           NEW t \in TxIds, t = hook[h].tx
    PROVE  UNCHANGED Ledger!money
<1> DEFINE r == [txs[t] EXCEPT !.status = "success"]
<1>1. /\ txs \in [TxIds -> Transaction \cup {NoRow}]
      /\ txs[t] # NoRow /\ txs[t] \in Transaction
      /\ squads' = squads /\ txs' = [txs EXCEPT ![t] = r]
  BY DEF PayTypeInv, PayTypeOK, Linked, HookMark, vars, At, HookRequest, Idle
<1>2. /\ r # NoRow /\ r.squad = txs[t].squad /\ r.type = txs[t].type
      /\ r.amount = txs[t].amount
  BY <1>1, TxRows, NoTxAssumption
<1>3. /\ hook \in [Hooks -> HookRequest \cup {Idle}] /\ hook[h] \in HookRequest
      /\ hook' = [hook EXCEPT ![h] = [hook[h] EXCEPT !.stage = "credit"]]
      /\ hook[h].stage = "mark"
  BY DEF PayTypeInv, PayTypeOK, HookMark, At, GoTo, Idle
<1>4. [hook[h] EXCEPT !.stage = "credit"] = [stage |-> "credit", tx |-> t]
  BY <1>3 DEF HookRequest
<1>5. txs[t].status # "success"
  BY <1>3 DEF OneHook
<1> HIDE DEF r
<1>6. Totals' = Totals
  BY <1>1 DEF Totals, Exists
<1>7. Pledges' = Pledges
  BY <1>1, <1>2, PledgesStay
<1>8. t \notin InLedger /\ ~(t \in InLedger)'
  <2>1. hook'[h] = [stage |-> "credit", tx |-> t]
    BY <1>3, <1>4
  <2> QED BY <1>5, <2>1 DEF InLedger, Crediting
<1>9. \A u \in TxIds \ {t} : (u \in InLedger)' <=> u \in InLedger
  <2>1. \A u \in TxIds \ {t} : txs'[u] = txs[u]
    BY <1>1
  <2>2. \A u \in TxIds \ {t} : Crediting(u)' <=> Crediting(u)
    BY <1>3, <1>4 DEF Crediting
  <2> QED BY <2>1, <2>2 DEF InLedger
<1>10. InLedger' = InLedger
  <2>1. \A u \in TxIds : (u \in InLedger)' <=> u \in InLedger
    BY <1>8, <1>9
  <2> QED BY <2>1, SettledStay
<1> QED BY <1>6, <1>7, <1>10 DEF Ledger!money

(* A webhook that finds its row, compares the deposit or locks the squad does  *)
(* not touch the ledger.                                                       *)
LEMMA LedgerHook ==
    ASSUME PayTypeInv, NEW h \in Hooks,
           (\E t \in TxIds : HookRead(h, t)) \/ HookCheck(h) \/ HookLock(h)
    PROVE  UNCHANGED Ledger!money
<1>1. /\ txs' = txs /\ hook \in [Hooks -> HookRequest \cup {Idle}]
      /\ hook[h].stage # "credit"
  BY DEF PayTypeInv, PayTypeOK, HookRead, HookCheck, HookLock, At, Idle
<1>2. /\ hook'[h].stage # "credit"
      /\ \A g \in Hooks : g # h => hook'[g] = hook[g]
  <2>1. CASE \E t \in TxIds : HookRead(h, t)
    BY <1>1, <2>1 DEF HookRead, Idle
  <2>2. CASE HookCheck(h) \/ HookLock(h)
    <3>1. hook[h] \in HookRequest
      BY <1>1, <2>2 DEF HookCheck, HookLock, At, Idle
    <3>2. [hook[h] EXCEPT !.stage = "lock"].stage = "lock" /\ Idle.stage = "idle"
      BY <3>1 DEF HookRequest, Idle
    <3> QED BY <1>1, <2>2, <3>2 DEF HookCheck, HookLock, GoTo, Done
  <2> QED BY <2>1, <2>2
<1>3. \A u \in TxIds : (u \in InLedger)' <=> u \in InLedger
  BY <1>1, <1>2 DEF InLedger, Crediting
<1>4. Pledges' = Pledges
  BY <1>1 DEF Pledges
<1>5. Totals' = Totals
  <2>1. CASE squads' = squads
    BY <2>1 DEF Totals, Exists
  <2>2. CASE HookLock(h)
    <3>1. hook[h] # Idle /\ hook[h].tx \in TxIds
      BY <1>1, <2>2 DEF HookLock, At, Idle, HookRequest
    <3>2. txs[hook[h].tx] \in Transaction /\ Funded(txs[hook[h].tx].squad)
      BY <3>1 DEF PayTypeInv, PayTypeOK, Linked
    <3> QED
      BY <2>2, <3>2, TotalsStay DEF HookLock, Funded, Transaction, SquadStatus
  <2> QED BY <2>1, <2>2 DEF HookRead, HookCheck, vars
<1> QED BY <1>3, <1>4, <1>5, SettledStay DEF Ledger!money

(* UpdateTotalDeposit settles the payment in the ledger: the row it was read   *)
(* from is settled and no other webhook has it, so it counts from this step    *)
(* on, with the amount that was pledged, for the squad it was pledged to.      *)
LEMMA LedgerCredit ==
    ASSUME PayTypeInv, LockInv, OneHook, NEW h \in Hooks, HookCredit(h),
           NEW t \in TxIds, t = hook[h].tx
    PROVE  Ledger!Settle(t)
<1> DEFINE s == txs[t].squad
           r == Credited(squads[s], txs[t].amount)
<1>1. /\ hook \in [Hooks -> HookRequest \cup {Idle}]
      /\ hook[h] \in HookRequest /\ hook[h] # Idle
      /\ hook[h].stage = "credit" /\ txs' = txs
      /\ hook' = [hook EXCEPT ![h] = [hook[h] EXCEPT !.stage = "read"]]
      /\ squads' = [squads EXCEPT ![s] = r]
  BY DEF PayTypeInv, PayTypeOK, HookCredit, At, GoTo, Idle, HookRequest
<1>2. /\ txs[t] # NoRow /\ txs[t] \in Transaction
      /\ txs[t].status = "success" /\ txs[t].type = "token_payment"
  BY <1>1 DEF PayTypeInv, PayTypeOK, Linked, OneHook, LockInv, Underway
<1>3. /\ s \in SquadIds /\ txs[t].amount \in Nat
      /\ Exists(s) /\ squads[s] \in Squad
      /\ squads \in [SquadIds -> Squad \cup {NoRow}]
  BY <1>1, <1>2 DEF PayTypeInv, PayTypeOK, TypeOK, Linked, Funded, Exists, Transaction
<1>4. r.total = squads[s].total + txs[t].amount /\ r # NoRow
  BY <1>3, PaidRows, NoRowAssumption
<1>5. [hook[h] EXCEPT !.stage = "read"].stage = "read"
  BY <1>1 DEF HookRequest
<1>6. \A g \in Hooks : g # h /\ hook[g].stage = "credit" => hook[g].tx # t
  BY <1>1 DEF OneHook, Idle
<1> HIDE DEF s, r
<1>7. Pledges' = Pledges
  BY <1>1 DEF Pledges
<1>8. Pledges[t] = [account |-> s, amount |-> txs[t].amount] /\ Pledges[t] # NoRow
  BY <1>1, <1>2, <1>3, NoPledgeAssumption DEF Pledges, s
<1>9. InLedger' = InLedger \cup {t} /\ t \notin InLedger
  <2>1. \A g \in Hooks : g # h => hook'[g] = hook[g]
    BY <1>1
  <2>2. hook'[h].stage = "read"
    BY <1>1, <1>5
  <2>3. Crediting(t) /\ ~Crediting(t)'
    BY <1>1, <1>6, <2>1, <2>2 DEF Crediting
  <2>4. \A u \in TxIds \ {t} : Crediting(u)' <=> Crediting(u)
    BY <1>1, <2>1, <2>2 DEF Crediting
  <2>5. t \notin InLedger /\ (t \in InLedger)'
    BY <1>1, <1>2, <2>3 DEF InLedger
  <2>6. \A u \in TxIds \ {t} : (u \in InLedger)' <=> u \in InLedger
    BY <1>1, <2>4 DEF InLedger
  <2>7. InLedger \subseteq TxIds /\ InLedger' \subseteq TxIds
    BY DEF InLedger
  <2> QED BY <2>5, <2>6, <2>7
<1>10. Totals' = [Totals EXCEPT ![s] = Totals[s] + txs[t].amount]
  <2>1. \A a \in SquadIds : squads'[a] = IF a = s THEN r ELSE squads[a]
    BY <1>1, <1>3
  <2> QED BY <1>3, <1>4, <2>1 DEF Totals, Exists
<1> QED
  BY <1>1, <1>7, <1>8, <1>9, <1>10 DEF Ledger!Settle

(* Neither do the move-in and the steps that only move a request on.          *)
LEMMA LedgerStill ==
    ASSUME PayTypeInv,
           \/ txs' = txs /\ hook' = hook /\ squads' = squads
           \/ \E m \in Movers : MoveStatus(m)
    PROVE  UNCHANGED Ledger!money
<1>1. txs' = txs /\ hook' = hook
  BY DEF MoveStatus
<1>2. Pledges' = Pledges /\ InLedger' = InLedger
  BY <1>1 DEF Pledges, InLedger, Crediting
<1>3. CASE squads' = squads
  BY <1>2, <1>3 DEF Totals, Exists, Ledger!money
<1>4. ASSUME NEW m \in Movers, MoveStatus(m) PROVE Totals' = Totals
  <2>1. moving[m] # Idle /\ moving[m].squad \in SquadIds
    BY <1>4 DEF PayTypeInv, PayTypeOK, MoveStatus, Idle, MoveRequest
  <2>2. Exists(moving[m].squad)
    BY <2>1 DEF PayTypeInv, Linked, Funded
  <2> QED BY <1>4, <2>1, <2>2, TotalsStay DEF MoveStatus, SquadStatus
<1> QED BY <1>2, <1>3, <1>4 DEF Ledger!money

(* Every step but the end of a webhook that is cut off maps to a step of the  *)
(* ledger or leaves it as it is.                                              *)
LEMMA LedgerStep ==
    ASSUME PayTypeInv, LockInv, OneHook, [PayNext]_allVars,
           \A h \in Hooks : ~AbortHook(h)
    PROVE  [Ledger!Next]_(Ledger!money)
<1>1. ASSUME NEW w \in Payers, NEW t \in TxIds, PayCreate(w, t)
      PROVE  [Ledger!Next]_(Ledger!money)
  BY <1>1, LedgerCreate DEF Ledger!Next
<1>2. ASSUME NEW h \in Hooks, HookMark(h) \/ HookCredit(h)
      PROVE  [Ledger!Next]_(Ledger!money)
  <2>1. hook[h].tx \in TxIds
    BY <1>2 DEF PayTypeInv, PayTypeOK, HookMark, HookCredit, At, Idle, HookRequest
  <2> QED BY <1>2, <2>1, LedgerMark, LedgerCredit DEF Ledger!Next
<1>3. \/ SquadStep
      \/ \E w \in Payers : (\E t \in TxIds : PayCreate(w, t)) \/ PayRef(w)
      \/ \E h \in Hooks : \/ HookMark(h) \/ HookCredit(h)
                          \/ \E t \in TxIds : HookRead(h, t)
                          \/ HookCheck(h) \/ HookLock(h)
      \/ \E m \in Movers : (\E t \in TxIds : MoveFee(m, t)) \/ MoveStatus(m)
      \/ txs' = txs /\ hook' = hook /\ squads' = squads
  BY DEF PayNext, PayStep, HookStep, HookRuns, MoveStep, MoveRuns, ClientStep,
         allVars, vars, payStarted, PayRead, PayOrder, AbortPay,
         MoveRead, MoveOccupy, AbortMove, ClientPays
<1> QED
  BY <1>1, <1>2, <1>3, LedgerSquad, LedgerRef, LedgerHook, LedgerFee, LedgerStill

(* Exactly once, for money: if the gateway awaits its answer before it sends  *)
(* an event again and no webhook is cut off half-way, then the payments are a *)
(* ledger: whatever else runs between the statement that settles a row and    *)
(* the one that adds its amount to the squad, every payment that settles is   *)
(* added once, in full, to the squad it was made for. Run duplicate_webhook   *)
(* shows what happens without the first assumption; without the second, a     *)
(* webhook cut off between the two statements leaves its payment settled and  *)
(* never added.                                                               *)
THEOREM LedgerCorrect ==
    ASSUME ~Overlap, Fragile \cap Hooks = {}
    PROVE  PaySpec => ImplementsEscrow
<1>1. PayInit => Ledger!Init
  BY LedgerInit
<1>2. ASSUME PayTypeInv, LockInv, OneHook, [PayNext]_allVars
      PROVE  [Ledger!Next]_(Ledger!money)
  BY <1>2, LedgerStep DEF AbortHook
<1>3. PaySpec => []PayTypeInv /\ []LockInv /\ []OneHook
  BY PayTypeHolds, LockHolds, OneHookHolds
<1> QED BY <1>1, <1>2, <1>3, PTL DEF PaySpec, ImplementsEscrow, Ledger!Spec

-----------------------------------------------------------------------------
(* n shares of a deposit are at most one paisa short of it for up to four     *)
(* members.                                                                   *)
LEMMA SharesSuffice ==
    ASSUME NEW d \in Nat, NEW n \in 1..4
    PROVE  n * Share(d, n) >= d - 1
<1>1. CASE n = 1
  BY <1>1 DEF Share
<1>2. CASE n = 2
  BY <1>2 DEF Share
<1>3. CASE n = 3
  BY <1>3 DEF Share
<1>4. CASE n = 4
  BY <1>4 DEF Share
<1> QED BY <1>1, <1>2, <1>3, <1>4

(* A squad of up to four members that have all paid their share, rounded to   *)
(* the paisa, has collected the deposit whatever it is: the tolerance of one  *)
(* paisa in ProcessWebhook is enough for them.                                *)
THEOREM SharesCollect ==
    \A p \in Properties, n \in 1..4 :
        Collected([property |-> p, total |-> n * Share(Deposit[p], n)])
<1> TAKE p \in Properties, n \in 1..4
<1>1. Deposit[p] \in Nat
  BY DepositAssumption
<1>2. n * Share(Deposit[p], n) >= Deposit[p] - 1
  BY <1>1, SharesSuffice
<1> QED BY <1>2 DEF Collected

(* For the five members a squad may have it is not: there is a deposit that   *)
(* five shares leave two paise short, so that the squad never locks.          *)
THEOREM FiveSharesFallShort ==
    \E d \in Nat : 5 * Share(d, 5) < d - 1
<1>1. 5 * Share(10002, 5) < 10002 - 1
  BY DEF Share
<1> QED BY <1>1
=============================================================================
