-------------------------- MODULE SettlementProofs --------------------------
(***************************************************************************)
(* More proofs about module TokenPayments: what is left of its promises     *)
(* when webhooks are cut off, what keeps a payment and a collected deposit  *)
(* from being forgotten, and which statements take back what a squad has    *)
(* reached. The first properties are stated here, next to their theorems.   *)
(***************************************************************************)
EXTENDS TokenPaymentsProofs

(* Every worker holds no request, or one of a stage its handler has.          *)
LEMMA HookInHand ==
    ASSUME PayTypeInv, NEW h \in Hooks, hook[h] # Idle
    PROVE  /\ hook[h] \in HookRequest /\ hook[h].tx \in TxIds
           /\ txs[hook[h].tx] # NoRow /\ txs[hook[h].tx] \in Transaction
           /\ txs[hook[h].tx].squad \in SquadIds
           /\ Funded(txs[hook[h].tx].squad)
  BY DEF PayTypeInv, PayTypeOK, Linked, HookRequest, Transaction

-----------------------------------------------------------------------------
(* Payments are added at most once, also when webhooks are cut off.           *)

(* A webhook that is cut off between MarkSuccess and UpdateTotalDeposit       *)
(* leaves a payment that counts as settled and is never collected; cut off    *)
(* anywhere else, it leaves the ledger as it is.                              *)
LEMMA LedgerAbort ==
    ASSUME PayTypeInv, LockInv, OneHook, NEW h \in Hooks, AbortHook(h),
           NEW t \in TxIds, t = hook[h].tx
    PROVE  [Ledger!LossyNext]_(Ledger!money)
<1>1. /\ hook \in [Hooks -> HookRequest \cup {Idle}]
      /\ hook[h] # Idle /\ hook[h] \in HookRequest
      /\ txs' = txs /\ squads' = squads
      /\ hook' = [hook EXCEPT ![h] = Idle]
  BY HookInHand DEF PayTypeInv, PayTypeOK, AbortHook, Done, vars
<1>2. /\ t \in TxIds /\ txs[t] # NoRow /\ txs[t] \in Transaction
      /\ txs[t].squad \in SquadIds
  BY <1>1, HookInHand
<1>3. /\ Idle.stage = "idle" /\ hook'[h] = Idle
      /\ \A g \in Hooks : g # h => hook'[g] = hook[g]
  BY <1>1 DEF Idle
<1>4. Pledges' = Pledges /\ Totals' = Totals
  BY <1>1 DEF Pledges, Totals, Exists
<1>5. CASE hook[h].stage # "credit"
  <2>1. \A u \in TxIds : Crediting(u)' <=> Crediting(u)
    BY <1>3, <1>5 DEF Crediting
  <2>2. InLedger' = InLedger
    BY <1>1, <2>1, SettledStay DEF InLedger
  <2> QED BY <1>4, <2>2 DEF Ledger!money
<1>6. CASE hook[h].stage = "credit"
  <2>1. txs[t].status = "success" /\ txs[t].type = "token_payment"
    BY <1>1, <1>6 DEF OneHook, LockInv, Underway
  <2>2. \A g \in Hooks : g # h /\ hook[g].stage = "credit" => hook[g].tx # t
    BY <1>1, <1>3 DEF OneHook
  <2>3. Crediting(t) /\ ~Crediting(t)'
    BY <1>1, <1>3, <1>6, <2>2 DEF Crediting
  <2>4. \A u \in TxIds \ {t} : Crediting(u)' <=> Crediting(u)
    BY <1>1, <1>3 DEF Crediting
  <2>5. t \notin InLedger /\ (t \in InLedger)'
    BY <1>1, <1>2, <2>1, <2>3 DEF InLedger
  <2>6. \A u \in TxIds \ {t} : (u \in InLedger)' <=> u \in InLedger
    BY <1>1, <2>4 DEF InLedger
  <2>7. InLedger \subseteq TxIds /\ InLedger' \subseteq TxIds
    BY DEF InLedger
  <2>8. InLedger' = InLedger \cup {t}
    BY <2>5, <2>6, <2>7
  <2>9. Pledges[t] # NoRow
    <3>1. txs[t].amount \in Nat
      BY <1>2 DEF Transaction
    <3>2. Pledges[t] = [account |-> txs[t].squad, amount |-> txs[t].amount]
      BY <1>2, <2>1 DEF Pledges
    <3> QED BY <1>2, <3>1, <3>2, NoPledgeAssumption
  <2> QED BY <1>2, <1>4, <2>5, <2>8, <2>9 DEF Ledger!LossyNext, Ledger!Lapse
<1> QED BY <1>5, <1>6

(* At most once, for money, without the assumption of LedgerCorrect that no   *)
(* webhook is cut off: wherever webhooks die or lose their client, and        *)
(* however often the gateway sends an event again once the last delivery is   *)
(* answered, a payment is added to its squad once or not at all, in full and  *)
(* to no other squad, and what was added is never added again.                *)
THEOREM AtMostOnceCorrect ==
    ASSUME ~Overlap
    PROVE  PaySpec => Ledger!LossySpec
<1>1. PayInit => Ledger!Init
  BY LedgerInit
<1>2. ASSUME PayTypeInv, LockInv, OneHook, [PayNext]_allVars
      PROVE  [Ledger!LossyNext]_(Ledger!money)
  <2>1. ASSUME NEW h \in Hooks, AbortHook(h) PROVE [Ledger!LossyNext]_(Ledger!money)
    BY <1>2, <2>1, HookInHand, LedgerAbort DEF AbortHook
  <2>2. CASE \A h \in Hooks : ~AbortHook(h)
    BY <1>2, <2>2, LedgerStep DEF Ledger!LossyNext
  <2> QED BY <2>1, <2>2
<1>3. PaySpec => []PayTypeInv /\ []LockInv /\ []OneHook
  BY PayTypeHolds, LockHolds, OneHookHolds
<1> QED BY <1>1, <1>2, <1>3, PTL DEF PaySpec, Ledger!LossySpec

-----------------------------------------------------------------------------
(* What a squad's total is worth: the sums of module EscrowProofs.            *)

Books == INSTANCE EscrowProofs WITH Payments <- TxIds, Accounts <- SquadIds,
    NoPledge <- NoRow, pledged <- Pledges, settled <- InLedger,
    collected <- Totals

LEMMA SameBooks ==
    /\ Ledger!Init => Books!Init
    /\ [Ledger!Next]_(Ledger!money) => [Books!Next]_(Books!money)
    /\ [Ledger!LossyNext]_(Ledger!money) => [Books!LossyNext]_(Books!money)
<1>1. Ledger!Init => Books!Init
  BY DEF Ledger!Init, Books!Init
<1>2. Ledger!money = Books!money
  BY DEF Ledger!money, Books!money
<1>3. Ledger!Next => Books!Next
  BY DEF Ledger!Next, Ledger!Pledge, Ledger!Settle, Ledger!Pledges,
         Books!Next, Books!Pledge, Books!Settle, Books!Pledges
<1>4. Ledger!LossyNext => Books!LossyNext
  BY <1>3 DEF Ledger!LossyNext, Ledger!Lapse, Books!LossyNext, Books!Lapse
<1> QED BY <1>1, <1>2, <1>3, <1>4 DEF Ledger!money, Books!money

LEMMA SameSum ==
    ASSUME NEW g, NEW S PROVE Ledger!AmountSum(g, S) = Books!AmountSum(g, S)
  BY DEF Ledger!AmountSum, Books!AmountSum, Ledger!MapThenSumSet, Books!MapThenSumSet,
         Ledger!MapThenFoldSet, Books!MapThenFoldSet

LEMMA SameBalance == ASSUME NEW s PROVE Ledger!Balance(s) = Books!Balance(s)
<1>1. Ledger!SettledFor(s) = Books!SettledFor(s)
  BY DEF Ledger!SettledFor, Books!SettledFor
<1> QED BY <1>1, SameSum DEF Ledger!Balance, Books!Balance

(* The total of a squad is the sum of its settled payments but those a        *)
(* running webhook is about to add.                                           *)
TotalExact ==
    \A s \in SquadIds : Exists(s) => squads[s].total = Ledger!Balance(s)

(* The column total_deposit_collected means what it says: while the gateway   *)
(* awaits its answers and no webhook is cut off, the number stored with a     *)
(* squad is the sum of the payments made for it, not a paisa more or less,    *)
(* whatever the payments and the order their webhooks run in.                 *)
THEOREM TotalCorrect ==
    ASSUME ~Overlap, Fragile \cap Hooks = {}
    PROVE  PaySpec => []TotalExact
<1>1. Books!Conserved => TotalExact
  BY SameBalance DEF Books!Conserved, TotalExact, Totals
<1> QED BY <1>1, SameBooks, LedgerCorrect, Books!MoneyConserved, PTL
        DEF ImplementsEscrow, Ledger!Spec, Books!Spec

LEMMA BooksLossy ==
    ASSUME ~Overlap
    PROVE  PaySpec => []Books!NoneMade /\ []Books!Numbers
  BY SameBooks, AtMostOnceCorrect, Books!MoneyNotMade, Books!BalancesCount, PTL
     DEF Ledger!LossySpec, Books!LossySpec

IsSettled(t) == txs[t] # NoRow /\ txs[t].status = "success"

(* At any time only finitely many transactions count as settled: one more by  *)
(* each MarkSuccess.                                                          *)
FewSettled == IsFiniteSet({t \in TxIds : IsSettled(t)})

LEMMA FewSettledHolds == PaySpec => []FewSettled
<1> DEFINE All == {t \in TxIds : IsSettled(t)}
<1>1. PayInit => FewSettled
  <2> SUFFICES ASSUME PayInit PROVE All = {}
    BY FS_EmptySet DEF FewSettled
  <2> QED BY DEF PayInit, IsSettled
<1>2. ASSUME PayTypeInv, FewSettled, [PayNext]_allVars PROVE FewSettled'
  <2>1. CASE \E h \in Hooks : HookMark(h)
    <3>1. PICK h \in Hooks : HookMark(h)
      BY <2>1
    <3>2. \A t \in TxIds : t # hook[h].tx => txs'[t] = txs[t]
      BY <1>2, <3>1 DEF HookMark, PayTypeInv, PayTypeOK
    <3>3. All' \subseteq All \cup {hook[h].tx}
      BY <3>2 DEF IsSettled
    <3>4. IsFiniteSet(All \cup {hook[h].tx})
      BY <1>2, FS_AddElement DEF FewSettled
    <3> QED BY <3>3, <3>4, FS_Subset DEF FewSettled
  <2>2. CASE ~\E h \in Hooks : HookMark(h)
    <3>1. All' \subseteq All
      BY <1>2, <2>2, SettledByMark DEF IsSettled
    <3> QED BY <1>2, <3>1, FS_Subset DEF FewSettled
  <2> QED BY <2>1, <2>2
<1> QED BY <1>1, <1>2, PayTypeHolds, PTL DEF PaySpec

(* As documented of duplicate webhooks: a webhook delivered again adds        *)
(* nothing. While the gateway sends no event of a payment before the last one *)
(* is answered, a squad's total never exceeds what its settled payments add   *)
(* up to, in any number of payments of any amounts, however often a delivery  *)
(* is repeated and wherever webhooks are cut off. With overlapping deliveries *)
(* it does (run duplicate_webhook): the overlap alone is to blame.            *)
THEOREM NothingTwiceCorrect ==
    ASSUME ~Overlap
    PROVE  PaySpec => []NothingTwice
<1>1. ASSUME PayTypeInv, FewSettled, Books!NoneMade, NEW s \in SquadIds, Exists(s)
      PROVE  squads[s].total <= Ledger!AmountSum(Pledges, Settled(s))
  <2>1. squads[s].total <= Ledger!Balance(s) /\ squads[s].total \in Nat
    BY <1>1, SameBalance
       DEF Books!NoneMade, Totals, PayTypeInv, PayTypeOK, TypeOK, Exists, Squad
  <2>2. Settled(s) \subseteq {t \in TxIds : IsSettled(t)}
    BY DEF Settled, IsSettled, Pledges
  <2>3. Books!IsFiniteSet(Settled(s))
    <3>1. IsFiniteSet(Settled(s))
      BY <1>1, <2>2, FS_Subset DEF FewSettled
    <3> QED BY <3>1 DEF Books!IsFiniteSet, IsFiniteSet
  <2>4. Books!Amounts(Pledges, Settled(s))
    BY <1>1 DEF Books!Amounts, Settled, Pledges, PayTypeInv, PayTypeOK, Transaction
  <2>5. Ledger!SettledFor(s) \in SUBSET Settled(s)
    BY DEF Ledger!SettledFor, Settled, InLedger
  <2>6. /\ Books!AmountSum(Pledges, Ledger!SettledFor(s)) \in Nat
        /\ Books!AmountSum(Pledges, Settled(s)) \in Nat
        /\ Books!AmountSum(Pledges, Ledger!SettledFor(s))
             <= Books!AmountSum(Pledges, Settled(s))
    BY <2>3, <2>4, <2>5, Books!SumGrows
  <2> QED BY <2>1, <2>6, SameSum DEF Ledger!Balance
<1>2. PayTypeInv /\ FewSettled /\ Books!NoneMade => NothingTwice
  BY <1>1 DEF NothingTwice
<1> QED BY <1>2, BooksLossy, PayTypeHolds, FewSettledHolds, PTL

(* A locked squad has been paid for: its settled payments, and not only the   *)
(* total stored with it, add up to the deposit of its property, to the paisa  *)
(* the code tolerates.                                                        *)
LockedPaid ==
    \A s \in SquadIds :
        Locked(s) => Ledger!Balance(s) >= Deposit[squads[s].property] - 1

(* What the lock is for: while the gateway awaits its answers, no duplicate,  *)
(* cut-off or interleaved webhook locks a squad whose members have not paid,  *)
(* and no proposal leaves it locked on a property not paid for, unless one is *)
(* accepted between a comparison and the statement that relies on it.         *)
THEOREM LockedPaidCorrect ==
    ASSUME ~Overlap
    PROVE  PaySpec /\ NeverOvertaken => []LockedPaid
<1>1. PayTypeInv /\ PropertyUnlessBrowsing /\ LockedCovered /\ Books!NoneMade
        /\ Books!Numbers => LockedPaid
  <2> SUFFICES ASSUME PayTypeInv, PropertyUnlessBrowsing, LockedCovered,
                      Books!NoneMade, Books!Numbers,
                      NEW s \in SquadIds, Locked(s)
               PROVE  Ledger!Balance(s) >= Deposit[squads[s].property] - 1
    BY DEF LockedPaid
  <2>1. Exists(s) /\ squads[s] \in Squad /\ squads[s].total \in Nat
    BY DEF PayTypeInv, PayTypeOK, TypeOK, Locked, Exists, Squad
  <2>2. Deposit[squads[s].property] \in Nat
    BY <2>1, DepositAssumption DEF PropertyUnlessBrowsing, Locked, Squad
  <2>3. Ledger!Balance(s) \in Nat /\ squads[s].total <= Ledger!Balance(s)
    BY <2>1, SameBalance DEF Books!NoneMade, Totals, Books!Numbers
  <2>4. squads[s].total >= Deposit[squads[s].property] - 1
    BY DEF LockedCovered
  <2> QED BY <2>1, <2>2, <2>3, <2>4
<1>2. PaySpec => []PayTypeInv /\ []PropertyUnlessBrowsing
  BY PayTypeHolds, PayPropertyCorrect
<1> QED BY <1>1, <1>2, BooksLossy, CoveredCorrect, PTL

-----------------------------------------------------------------------------
(* No payment the gateway has reported is forgotten.                          *)

(* Of a payment the gateway has reported at least once, the row is settled or *)
(* a webhook is about to settle it: no delivery is answered and dropped, not  *)
(* one that overtakes the others.                                             *)
DeliveredKept ==
    \A t \in TxIds : sent[t] > 0 =>
        IsSettled(t) \/ \E h \in Hooks : hook[h].stage = "mark" /\ hook[h].tx = t

(* The safety core of PaidSettles, for webhooks that are not cut off: the     *)
(* gateway's report is in the row or in a running webhook. It holds with      *)
(* overlapping deliveries, whose status check and MarkSuccess interleave, and *)
(* with events of failed payments.                                            *)
THEOREM DeliveredCorrect ==
    ASSUME Fragile \cap Hooks = {}
    PROVE  PaySpec => []DeliveredKept
<1>1. PayInit => DeliveredKept
  BY DEF PayInit, DeliveredKept
<1>2. ASSUME PayTypeInv, OrderInv, DeliveredKept, [PayNext]_allVars,
             NEW t \in TxIds, sent'[t] > 0
      PROVE  IsSettled(t)' \/ \E h \in Hooks : hook'[h].stage = "mark" /\ hook'[h].tx = t
  <2>1. /\ hook \in [Hooks -> HookRequest \cup {Idle}]
        /\ sent \in [TxIds -> 0..MaxDeliveries]
    BY <1>2 DEF PayTypeInv, PayTypeOK
  <2>2. CASE IsSettled(t)
    BY <1>2, <2>2, TxStays DEF IsSettled
  <2>3. ASSUME NEW h \in Hooks, hook[h].stage = "mark", hook[h].tx = t, ~IsSettled(t)
        PROVE  IsSettled(t)' \/ hook'[h] = hook[h]
    <3>1. hook[h] # Idle
      BY <2>3 DEF Idle
    <3>2. ASSUME NEW g \in Hooks, HookRuns(g)
          PROVE  IsSettled(t)' \/ hook'[h] = hook[h]
      <4>1. CASE g = h
        <5>1. HookMark(h)
          BY <2>3, <3>2, <4>1 DEF HookRuns, HookCredit, HookCheck, HookLock, At
        <5>2. txs[t] \in Transaction /\ txs \in [TxIds -> Transaction \cup {NoRow}]
          BY <1>2, <2>3, <3>1, HookInHand DEF PayTypeInv, PayTypeOK
        <5>3. txs'[t] = [txs[t] EXCEPT !.status = "success"]
          BY <2>3, <5>1, <5>2 DEF HookMark
        <5>4. /\ [txs[t] EXCEPT !.status = "success"] \in Transaction
              /\ [txs[t] EXCEPT !.status = "success"].status = "success"
          BY <5>2, TxRows
        <5> QED BY <5>3, <5>4, NoTxAssumption DEF IsSettled
      <4>2. CASE g # h
        BY <2>1, <3>2, <4>2
           DEF HookRuns, HookMark, HookCredit, HookCheck, HookLock, GoTo, Done
      <4> QED BY <4>1, <4>2
    <3>3. ASSUME NEW g \in Hooks, NEW u \in TxIds, HookRead(g, u)
          PROVE  hook'[h] = hook[h]
      BY <2>1, <3>1, <3>3 DEF HookRead
    <3>4. \A g \in Hooks : ~AbortHook(g)
      BY DEF AbortHook
    <3> QED BY <1>2, <3>2, <3>3, <3>4, HookMoves
  <2>4. CASE sent[t] > 0
    BY <1>2, <2>2, <2>3, <2>4 DEF DeliveredKept
  <2>5. CASE ~(sent[t] > 0)
    <3>1. PICK h \in Hooks, u \in TxIds : HookRead(h, u)
      BY <1>2, <2>5
         DEF PayNext, SquadStep, PayStep, HookStep, HookRuns, MoveStep, MoveRuns,
             ClientStep, allVars, payVars, payStarted, gateway, PayRead, PayCreate,
             PayOrder, PayRef, AbortPay, HookMark, HookCredit, HookCheck, HookLock,
             AbortHook, MoveRead, MoveFee, MoveStatus, MoveOccupy, AbortMove,
             ClientPays
    <3>2. u = t
      BY <1>2, <2>1, <2>5, <3>1 DEF HookRead
    <3>3. txs[t] # NoRow /\ txs[t].ref
      BY <1>2, <3>1, <3>2 DEF HookRead, Sends, OrderInv, OrderBacked
    <3>4. CASE Unsettled(t)
      BY <2>1, <3>1, <3>2, <3>4 DEF HookRead
    <3>5. CASE ~Unsettled(t)
      BY <1>2, <2>2, <3>3, <3>5 DEF Unsettled, IsSettled
    <3> QED BY <3>4, <3>5
  <2> QED BY <2>4, <2>5
<1>3. ASSUME PayTypeInv, OrderInv, DeliveredKept, [PayNext]_allVars
      PROVE  DeliveredKept'
  BY <1>2, <1>3 DEF DeliveredKept
<1> QED BY <1>1, <1>3, PayTypeHolds, OrderHolds, PTL DEF PaySpec

-----------------------------------------------------------------------------
(* What takes back a status a squad has reached (FR-4.3).                     *)

(* Of the squad requests only the acceptance of a proposal writes a status.   *)
LEMMA SquadStatuses ==
    ASSUME TypeInv, [Next]_vars, NEW s \in SquadIds, Exists(s),
           squads'[s].status # squads[s].status
    PROVE  \E u \in Users, q \in ProposalIds :
             ResolveProposal(u, q, TRUE) /\ proposals[q].squad = s
<1> USE DEF TypeInv, TypeOK, References, Exists
<1>1. squads[s] \in Squad
  OBVIOUS
<1>2. ASSUME NEW t \in SquadIds, NEW u \in Users,
             NEW p \in Properties \cup {NoProperty}, NEW m \in PaymentModels,
             CreateSquad(t, u, p, m)
      PROVE  FALSE
  BY <1>2 DEF CreateSquad, InsertSquad
<1>3. ASSUME NEW u \in Users, NEW t \in SquadIds, NEW accept \in BOOLEAN,
             RespondToInvite(u, t, accept)
      PROVE  FALSE
  <2>1. \A answer : Seated(squads[s], answer).status = squads[s].status
    BY <1>1, RowTypes
  <2> QED BY <1>3, <2>1 DEF RespondToInvite, UpdateMemberStatus
<1>4. ASSUME NEW u \in Users, NEW q \in ProposalIds, NEW accept \in BOOLEAN,
             ResolveProposal(u, q, accept)
      PROVE  accept = TRUE /\ proposals[q].squad = s
  BY <1>4 DEF ResolveProposal, AcceptProposal, RejectProposal
<1> QED
  BY <1>2, <1>3, <1>4
     DEF Next, Create, Invite, Respond, Propose, Resolve, Crash, vars, rows,
         InviteRead, InviteCheck, InviteInsert, ProposeCheck, ProposeInsert,
         AbortInvite, AbortPropose

(* The statements that write a squad's status: the acceptance of a proposal,  *)
(* the lock by a webhook, the move-in.                                        *)
LEMMA StatusWrites ==
    ASSUME PayTypeInv, [PayNext]_allVars, NEW s \in SquadIds, Exists(s),
           squads'[s].status # squads[s].status
    PROVE  \/ \E u \in Users, q \in ProposalIds :
                ResolveProposal(u, q, TRUE) /\ proposals[q].squad = s
           \/ \E h \in Hooks : /\ HookLock(h) /\ txs[hook[h].tx].squad = s
                               /\ squads'[s].status = "locked"
           \/ \E m \in Movers : /\ MoveStatus(m) /\ moving[m].squad = s
                                /\ squads'[s].status = "moved_in"
<1>1. squads \in [SquadIds -> Squad \cup {NoRow}] /\ squads[s] \in Squad
  BY DEF PayTypeInv, PayTypeOK, TypeOK, Exists
<1>2. CASE SquadStep
  BY <1>2, SquadStatuses DEF SquadStep, PayTypeInv, PayTypeOK, TypeInv
<1>3. ASSUME NEW h \in Hooks, HookCredit(h) PROVE FALSE
  <2>1. hook[h] # Idle
    BY <1>3 DEF HookCredit, At, Idle
  <2>2. \A n \in Nat : Credited(squads[s], n).status = squads[s].status
    BY <1>1, PaidRows
  <2>3. txs[hook[h].tx].amount \in Nat /\ txs[hook[h].tx].squad \in SquadIds
    BY <2>1, HookInHand DEF Transaction
  <2>4. \/ squads'[s] = squads[s]
        \/ squads'[s] = Credited(squads[s], txs[hook[h].tx].amount)
    BY <1>1, <1>3, <2>3 DEF HookCredit
  <2> QED BY <2>2, <2>3, <2>4
<1>4. ASSUME NEW h \in Hooks, HookLock(h)
      PROVE  txs[hook[h].tx].squad = s /\ squads'[s].status = "locked"
  BY <1>1, <1>4 DEF HookLock, Squad
<1>5. ASSUME NEW m \in Movers, MoveStatus(m)
      PROVE  moving[m].squad = s /\ squads'[s].status = "moved_in"
  BY <1>1, <1>5 DEF MoveStatus, Squad
<1>6. squads' # squads
  OBVIOUS
<1> QED
  BY <1>2, <1>3, <1>4, <1>5, <1>6
     DEF PayNext, PayStep, HookStep, HookRuns, MoveStep, MoveRuns, ClientStep,
         allVars, vars, PayRead, PayCreate, PayOrder, PayRef, AbortPay, HookRead,
         HookMark, HookCheck, AbortHook, MoveRead, MoveFee, MoveOccupy, AbortMove,
         ClientPays

LEMMA Ranks ==
    /\ Rank("browsing") = 0 /\ Rank("forming") = 1
    /\ Rank("locked") = 2   /\ Rank("moved_in") = 3
  BY DEF Rank

(* FR-4.3 says a squad's status only moves on. It moves back in two ways and  *)
(* no other: somebody accepts a proposal of a squad that is past forming, or  *)
(* a webhook that compared the deposit before the squad moved in locks it     *)
(* afterwards.                                                                *)
FallsOnlySo ==
    [][\A s \in SquadIds :
         Exists(s) /\ Rank(squads'[s].status) < Rank(squads[s].status) =>
           \/ \E u \in Users, q \in ProposalIds :
                ResolveProposal(u, q, TRUE) /\ proposals[q].squad = s
           \/ /\ squads[s].status = "moved_in"
              /\ squads'[s].status = "locked"
              /\ \E h \in Hooks : HookLock(h) /\ txs[hook[h].tx].squad = s]_allVars

LEMMA FallStep ==
    ASSUME PayTypeInv, [PayNext]_allVars, NEW s \in SquadIds, Exists(s),
           Rank(squads'[s].status) < Rank(squads[s].status)
    PROVE  \/ \E u \in Users, q \in ProposalIds :
                ResolveProposal(u, q, TRUE) /\ proposals[q].squad = s
           \/ /\ squads[s].status = "moved_in"
              /\ squads'[s].status = "locked"
              /\ \E h \in Hooks : HookLock(h) /\ txs[hook[h].tx].squad = s
<1>1. squads[s].status \in {"browsing", "forming", "locked", "moved_in"}
  BY DEF PayTypeInv, PayTypeOK, TypeOK, Exists, Squad, SquadStatus
<1>2. squads'[s].status # squads[s].status
  BY <1>1, Ranks
<1>3. squads'[s].status # "moved_in"
  BY <1>1, Ranks
<1>4. squads'[s].status = "locked" => squads[s].status = "moved_in"
  BY <1>1, Ranks
<1> QED BY <1>2, <1>3, <1>4, StatusWrites

(* Run status_flow shows that the status falls; this is all that makes it     *)
(* fall, whatever else runs.                                                  *)
THEOREM FallsCorrect == PaySpec => FallsOnlySo
<1>1. PayTypeInv /\ [PayNext]_allVars =>
        [\A s \in SquadIds :
           Exists(s) /\ Rank(squads'[s].status) < Rank(squads[s].status) =>
             \/ \E u \in Users, q \in ProposalIds :
                  ResolveProposal(u, q, TRUE) /\ proposals[q].squad = s
             \/ /\ squads[s].status = "moved_in"
                /\ squads'[s].status = "locked"
                /\ \E h \in Hooks : HookLock(h) /\ txs[hook[h].tx].squad = s]_allVars
  BY FallStep
<1> QED BY <1>1, PayTypeHolds, PTL DEF PaySpec, FallsOnlySo

-----------------------------------------------------------------------------
(* The move-in with the amount the code writes and the schema refuses.        *)

NobodyMovesIn == occupied = {} /\ \A s \in SquadIds : ~MovedIn(s)

(* A confirmation never gets past its success fee.                            *)
AtFee == \A m \in Movers : moving[m] # Idle => moving[m].stage = "fee"

(* ConfirmMoveIn writes a success fee of 0, and CHECK (amount > 0) admits no  *)
(* such row: no squad ever moves in and no property is ever occupied, for any *)
(* positive least amount, deposits and requests.                              *)
THEOREM MoveInNeverHappens ==
    ASSUME MinAmount > 0
    PROVE  PaySpec => []NobodyMovesIn
<1>1. PayInit => AtFee /\ NobodyMovesIn
  BY DEF PayInit, Init, AtFee, NobodyMovesIn, MovedIn, Exists
<1>2. ASSUME PayTypeInv, AtFee, NobodyMovesIn, [PayNext]_allVars
      PROVE  AtFee' /\ NobodyMovesIn'
  <2>1. ~AmountAllowed(0)
    BY AmountAssumption DEF AmountAllowed
  <2>2. \A m \in Movers : ~MoveStatus(m) /\ ~MoveOccupy(m)
    BY <1>2 DEF AtFee, MoveStatus, MoveOccupy, Idle
  <2>3. moving \in [Movers -> MoveRequest \cup {Idle}]
    BY <1>2 DEF PayTypeInv, PayTypeOK
  <2>4. AtFee'
    <3>1. ASSUME NEW m \in Movers, NEW u \in Users, NEW s \in SquadIds,
                 MoveRead(m, u, s)
          PROVE  AtFee'
      BY <1>2, <2>3, <3>1 DEF MoveRead, AtFee
    <3>2. ASSUME NEW m \in Movers, (\E t \in TxIds : MoveFee(m, t)) \/ AbortMove(m)
          PROVE  AtFee'
      BY <1>2, <2>1, <2>3, <3>2 DEF MoveFee, AbortMove, AtFee
    <3>3. CASE moving' = moving
      BY <1>2, <3>3 DEF AtFee
    <3> QED
      BY <1>2, <2>2, <3>1, <3>2, <3>3
         DEF PayNext, SquadStep, PayStep, HookStep, HookRuns, MoveStep, MoveRuns,
             ClientStep, allVars, payVars, payStarted, PayRead, PayCreate, PayOrder,
             PayRef, AbortPay, HookRead, HookMark, HookCredit, HookCheck, HookLock,
             AbortHook, ClientPays
  <2>5. occupied' = {}
    BY <1>2, <2>2
       DEF NobodyMovesIn, PayNext, SquadStep, PayStep, HookStep, HookRuns, MoveStep,
           MoveRuns, ClientStep, allVars, payVars, payStarted, PayRead, PayCreate,
           PayOrder, PayRef, AbortPay, HookRead, HookMark, HookCredit, HookCheck,
           HookLock, AbortHook, MoveRead, MoveFee, AbortMove, ClientPays
  <2>6. ASSUME NEW s \in SquadIds, MovedIn(s)' PROVE FALSE
    <3>1. CASE Exists(s)
      <4>1. squads[s].status # "moved_in"
        BY <1>2, <3>1 DEF NobodyMovesIn, MovedIn
      <4>2. /\ squads[s] \in Squad
            /\ \A p \in Properties : Targeted(squads[s], p).status = "forming"
        BY <1>2, <3>1, RowTypes DEF PayTypeInv, PayTypeOK, TypeOK, Exists
      <4>3. PICK u \in Users, q \in ProposalIds :
              ResolveProposal(u, q, TRUE) /\ proposals[q].squad = s
        BY <1>2, <2>2, <2>6, <3>1, <4>1, StatusWrites DEF MovedIn
      <4>4. /\ proposals[q].property \in Properties
            /\ squads'[s] = Targeted(squads[s], proposals[q].property)
        BY <1>2, <3>1, <4>3
           DEF PayTypeInv, PayTypeOK, TypeOK, ResolveProposal, AcceptProposal, Proposal
      <4> QED BY <2>6, <4>2, <4>4 DEF MovedIn
    <3>2. CASE ~Exists(s)
      <4>1. CASE SquadStep
        BY <1>2, <2>6, <3>2, <4>1, SquadsUnlocked
           DEF SquadStep, PayTypeInv, PayTypeOK, TypeInv, MovedIn, Locked
      <4>2. CASE ~SquadStep
        BY <1>2, <2>6, <3>2, <4>2, PaymentRows
           DEF PaymentWrites, Funded, Exists, MovedIn, PayTypeInv, PayTypeOK, TypeOK
      <4> QED BY <4>1, <4>2
    <3> QED BY <3>1, <3>2
  <2> QED BY <2>4, <2>5, <2>6 DEF NobodyMovesIn
<1> QED BY <1>1, <1>2, PayTypeHolds, PTL DEF PaySpec

-----------------------------------------------------------------------------
(* A collected deposit is not forgotten.                                      *)

Deciding(s) ==
    \E h \in Hooks : /\ hook[h].stage \in {"read", "lock"}
                     /\ txs[hook[h].tx].squad = s

(* A squad that has collected its deposit is locked, or a webhook of one of   *)
(* its payments is still about to compare the deposit or to lock it.          *)
CollectedKept ==
    \A s \in SquadIds :
        Exists(s) /\ squads[s].total > 0 /\ Collected(squads[s])
          => Locked(s) \/ Deciding(s)

(* No proposal of a squad is accepted once the squad has collected money.     *)
NeverReopened ==
    [][\A s \in SquadIds, u \in Users, q \in ProposalIds :
         Exists(s) /\ squads[s].total > 0 /\ proposals[q].squad = s
           => ~ResolveProposal(u, q, TRUE)]_allVars

Reopened(s) ==
    \E u \in Users, q \in ProposalIds :
      ResolveProposal(u, q, TRUE) /\ proposals[q].squad = s

(* Only an accepted proposal unlocks a squad.                                 *)
LEMMA LockStays ==
    ASSUME PayTypeInv, [PayNext]_allVars,
           NEW s \in SquadIds, Locked(s), ~Reopened(s)
    PROVE  Locked(s)'
<1>1. Exists(s) /\ Exists(s)'
  BY FundedStays DEF Locked
<1>2. CASE squads'[s].status = squads[s].status
  BY <1>1, <1>2 DEF Locked
<1>3. CASE squads'[s].status # squads[s].status
  BY <1>1, <1>3, StatusWrites DEF Locked, Reopened
<1> QED BY <1>2, <1>3

(* Between the comparison of a covered deposit and the lock a webhook holds   *)
(* on to its squad.                                                           *)
LEMMA DecidingStays ==
    ASSUME Fragile \cap Hooks = {}, PayTypeInv, [PayNext]_allVars,
           NEW s \in SquadIds, Collected(squads[s]), Exists(s), Deciding(s)
    PROVE  Locked(s)' \/ Deciding(s)'
<1>1. PICK h \in Hooks : hook[h].stage \in {"read", "lock"} /\ txs[hook[h].tx].squad = s
  BY DEF Deciding
<1>2. hook[h] # Idle
  BY <1>1 DEF Idle
<1>3. /\ hook[h] \in HookRequest /\ hook[h].tx \in TxIds
      /\ txs[hook[h].tx] # NoRow /\ txs'[hook[h].tx].squad = s
      /\ hook \in [Hooks -> HookRequest \cup {Idle}]
  BY <1>1, <1>2, HookInHand, TxStays DEF PayTypeInv, PayTypeOK
<1>4. CASE hook'[h] = hook[h]
  BY <1>1, <1>3, <1>4 DEF Deciding
<1>5. CASE HookCheck(h)
  <2>1. hook' = [hook EXCEPT ![h] = [hook[h] EXCEPT !.stage = "lock"]]
    BY <1>1, <1>5 DEF HookCheck, GoTo
  <2>2. hook'[h].stage = "lock" /\ hook'[h].tx = hook[h].tx
    BY <1>3, <2>1 DEF HookRequest
  <2> QED BY <1>3, <2>2 DEF Deciding
<1>6. CASE HookLock(h)
  <2>1. squads[s] \in Squad /\ squads \in [SquadIds -> Squad \cup {NoRow}]
    BY DEF PayTypeInv, PayTypeOK, TypeOK, Exists
  <2>2. squads'[s] = [squads[s] EXCEPT !.status = "locked"]
    BY <1>1, <1>6, <2>1 DEF HookLock
  <2>3. squads'[s].status = "locked"
    BY <2>1, <2>2, PaidRows DEF SquadStatus
  <2>4. Exists(s)'
    BY FundedStays
  <2> QED BY <2>3, <2>4 DEF Locked
<1>7. ASSUME NEW g \in Hooks, HookRuns(g)
      PROVE  hook'[h] = hook[h] \/ HookCheck(h) \/ HookLock(h)
  BY <1>1, <1>3, <1>7
     DEF HookRuns, HookMark, HookCredit, HookCheck, HookLock, GoTo, Done, At
<1>8. ASSUME NEW g \in Hooks, NEW u \in TxIds, HookRead(g, u)
      PROVE  hook'[h] = hook[h]
  BY <1>2, <1>3, <1>8 DEF HookRead
<1>9. \A g \in Hooks : ~AbortHook(g)
  BY DEF AbortHook
<1> QED BY <1>4, <1>5, <1>6, <1>7, <1>8, <1>9, HookMoves

(* Which step adds to what a squad has collected.                             *)
LEMMA TotalWrites ==
    ASSUME PayTypeInv, [PayNext]_allVars, NEW s \in SquadIds, Exists(s),
           \A h \in Hooks : HookCredit(h) => txs[hook[h].tx].squad # s
    PROVE  squads'[s].total = squads[s].total
<1>1. squads \in [SquadIds -> Squad \cup {NoRow}] /\ squads[s] \in Squad
  BY DEF PayTypeInv, PayTypeOK, TypeOK, Exists
<1>2. CASE SquadStep
  <2>1. TypeInv /\ [Next]_vars
    BY <1>2 DEF PayTypeInv, PayTypeOK, TypeInv, SquadStep
  <2> QED BY <2>1, SquadFunded
<1>3. \A st \in SquadStatus : [squads[s] EXCEPT !.status = st].total = squads[s].total
  BY <1>1, PaidRows
<1>4. ASSUME NEW h \in Hooks, HookCredit(h) PROVE squads'[s] = squads[s]
  BY <1>1, <1>4 DEF HookCredit
<1>5. ASSUME NEW h \in Hooks, HookLock(h)
      PROVE  squads'[s] \in {squads[s], [squads[s] EXCEPT !.status = "locked"]}
  BY <1>1, <1>5 DEF HookLock
<1>6. ASSUME NEW m \in Movers, MoveStatus(m)
      PROVE  squads'[s] \in {squads[s], [squads[s] EXCEPT !.status = "moved_in"]}
  BY <1>1, <1>6 DEF MoveStatus
<1>7. \/ SquadStep
      \/ squads'[s] = squads[s]
      \/ \E st \in SquadStatus : squads'[s] = [squads[s] EXCEPT !.status = st]
  BY <1>4, <1>5, <1>6
     DEF PayNext, PayStep, HookStep, HookRuns, MoveStep, MoveRuns, ClientStep,
         allVars, vars, PayRead, PayCreate, PayOrder, PayRef, AbortPay, HookRead,
         HookMark, HookCheck, AbortHook, MoveRead, MoveFee, MoveOccupy, AbortMove,
         ClientPays, SquadStatus
<1> QED BY <1>2, <1>3, <1>7

(* The safety core of CollectedLocks, for webhooks that are not cut off and    *)
(* squads whose property is decided before they collect money: there is always *)
(* somebody left to lock a squad that has collected its deposit. Two webhooks  *)
(* whose credits both run before either comparison do not each leave the lock  *)
(* to the other.                                                               *)
THEOREM CollectedCorrect ==
    ASSUME Fragile \cap Hooks = {}
    PROVE  PaySpec /\ NeverReopened => []CollectedKept
<1>1. PayInit => CollectedKept
  BY DEF PayInit, Init, CollectedKept, Exists
<1>2. ASSUME PayTypeInv, CollectedKept, [PayNext]_allVars,
             NEW s \in SquadIds, Exists(s)', squads'[s].total > 0, Collected(squads'[s]),
             Exists(s) /\ squads[s].total > 0 => ~Reopened(s)
      PROVE  Locked(s)' \/ Deciding(s)'
  <2>1. Exists(s)
    <3>1. CASE SquadStep
      BY <1>2, <3>1, NewRow DEF SquadStep, PayTypeInv, PayTypeOK, TypeInv
    <3>2. CASE ~SquadStep
      BY <1>2, <3>2, PaymentRows
         DEF PaymentWrites, Funded, Exists, PayTypeInv, PayTypeOK, TypeOK
    <3> QED BY <3>1, <3>2
  <2>2. CASE \A h \in Hooks : HookCredit(h) => txs[hook[h].tx].squad # s
    <3>1. squads'[s].total = squads[s].total
      BY <1>2, <2>1, <2>2, TotalWrites
    <3>2. ~Reopened(s)
      BY <1>2, <2>1, <3>1
    <3>3. squads'[s].property = squads[s].property
      BY <1>2, <2>1, <3>2, PropertyWrites DEF Reopened
    <3>4. squads[s].total > 0 /\ Collected(squads[s])
      BY <1>2, <3>1, <3>3 DEF Collected
    <3> QED BY <1>2, <2>1, <3>2, <3>4, LockStays, DecidingStays DEF CollectedKept
  <2>3. ASSUME NEW h \in Hooks, HookCredit(h), txs[hook[h].tx].squad = s
        PROVE  Deciding(s)'
    <3>1. hook[h] # Idle
      BY <2>3 DEF HookCredit, At, Idle
    <3>2. /\ hook[h] \in HookRequest /\ hook \in [Hooks -> HookRequest \cup {Idle}]
          /\ txs' = txs
      BY <1>2, <2>3, <3>1, HookInHand DEF PayTypeInv, PayTypeOK, HookCredit
    <3>3. hook'[h] = [hook[h] EXCEPT !.stage = "read"]
      BY <2>3, <3>2 DEF HookCredit, GoTo
    <3>4. hook'[h].stage = "read" /\ hook'[h].tx = hook[h].tx
      BY <3>2, <3>3 DEF HookRequest
    <3> QED BY <2>3, <3>2, <3>4 DEF Deciding
  <2> QED BY <2>2, <2>3
<1>3. ASSUME PayTypeInv, CollectedKept, [PayNext]_allVars,
             [\A s \in SquadIds, u \in Users, q \in ProposalIds :
                Exists(s) /\ squads[s].total > 0 /\ proposals[q].squad = s
                  => ~ResolveProposal(u, q, TRUE)]_allVars
      PROVE  CollectedKept'
  <2>1. CASE UNCHANGED allVars
    BY <1>3, <2>1 DEF allVars, CollectedKept, Exists, Collected, Locked, Deciding
  <2>2. CASE ~UNCHANGED allVars
    <3>1. \A s \in SquadIds : Exists(s) /\ squads[s].total > 0 => ~Reopened(s)
      BY <1>3, <2>2 DEF Reopened
    <3> QED BY <1>2, <1>3, <3>1 DEF CollectedKept
  <2> QED BY <2>1, <2>2
<1> QED BY <1>1, <1>3, PayTypeHolds, PTL DEF PaySpec, NeverReopened

-----------------------------------------------------------------------------
(* The members of a squad while payments run.                                 *)

(* The refinement of Squads survives the composition: with payments, webhooks *)
(* and move-ins writing the same rows, squads still keep the promise of       *)
(* module Membership to the parts that only ask who is a member.              *)
THEOREM PayMembershipCorrect == PaySpec => ImplementsMembership
<1>1. PayInit => Membership!Init
  BY DEF PayInit, Init, Membership!Init, Membership!Nobody
<1>2. ASSUME PayTypeInv, OnlyMembersAct, [PayNext]_allVars
      PROVE  [Membership!Next]_(Membership!seats)
  <2>1. CASE SquadStep
    BY <1>2, <2>1, MembershipStep
       DEF PayTypeInv, PayTypeOK, TypeInv, SquadStep
  <2>2. CASE ~SquadStep
    BY <1>2, <2>2, PaymentRows DEF Membership!seats
  <2> QED BY <2>1, <2>2
<1> QED BY <1>1, <1>2, PayTypeHolds, PayActorsCorrect, PTL
        DEF PaySpec, ImplementsMembership, Membership!Spec

(* A member who has answered, and may have paid since, is never turned back   *)
(* into someone with an open invitation.                                      *)
THEOREM PayAnswersStand == PaySpec => AnswerStands
<1>1. ASSUME PayTypeInv, [PayNext]_allVars
      PROVE  [\A s \in SquadIds, u \in Users :
                HasAnswered(s, u) => members'[s][u] \in {"accepted", "rejected"}]_vars
  <2>1. CASE SquadStep
    BY <1>1, <2>1, AnswerStep
       DEF PayTypeInv, PayTypeOK, TypeInv, SquadStep, HasAnswered
  <2>2. CASE ~SquadStep
    BY <1>1, <2>2, PaymentRows DEF HasAnswered
  <2> QED BY <2>1, <2>2
<1> QED BY <1>1, PayTypeHolds, PTL DEF PaySpec, AnswerStands

(* The counter a share is divided by is ahead of the members who share by the *)
(* miscounted answers and by nothing a payment does.                          *)
THEOREM PayDriftsCorrect == PaySpec => DriftsOnlySo
<1>1. ASSUME PayTypeInv, [PayNext]_allVars
      PROVE  [\A s \in SquadIds :
                Exists(s)' =>
                  \/ ~Exists(s) /\ Drift(s)' = 0
                  \/ Exists(s) /\ Drift(s)' = Drift(s)
                  \/ Exists(s) /\ Drift(s)' = Drift(s) + 1 /\ Miscounts(s)]_vars
  <2>1. CASE SquadStep
    BY <1>1, <2>1, DriftStep DEF PayTypeInv, PayTypeOK, TypeInv, SquadStep
  <2>2. CASE ~SquadStep
    <3>1. \A s \in SquadIds : Accepted(s)' = Accepted(s)
      BY <1>1, <2>2, PaymentRows DEF Accepted
    <3>2. \A s \in SquadIds : Exists(s)' => Exists(s) /\ squads'[s].count = squads[s].count
      BY <1>1, <2>2, PaymentRows
         DEF PaymentWrites, PayTypeInv, PayTypeOK, TypeOK, Exists, Funded
    <3> QED BY <3>1, <3>2 DEF Drift
  <2> QED BY <2>1, <2>2
<1> QED BY <1>1, PayTypeHolds, PTL DEF PaySpec, DriftsOnlySo
=============================================================================
