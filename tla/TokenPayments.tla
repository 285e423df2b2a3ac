--------------------------- MODULE TokenPayments ---------------------------
(***************************************************************************)
(* Token payments of squads: transaction rows, gateway orders, webhooks,    *)
(* the squad's collected deposit, its locking and its move-in.              *)
(*                                                                         *)
(* A request is a record that moves from one repository or gateway call to  *)
(* the next; squad requests (module Squads) and other payment requests run  *)
(* between any two. Amounts are in paise, the unit of NUMERIC(12,2). The    *)
(* deposit of a property is written once, so reading it is no step of its   *)
(* own.                                                                     *)
(***************************************************************************)
EXTENDS Squads

CONSTANTS
    TxIds,          \* ids a transaction row can get (bounds their number)
    FeeIds,         \* ids of TxIds that no token payment uses up: a bound, so
                    \* that one is left for a success fee
    Deposit,        \* Deposit[p]: properties.deposit_amount, in paise
    MinAmount,      \* least amount the schema admits in a transaction row
    Payers,         \* goroutines serving POST /payments/squads/{id}/pay-token
    Hooks,          \* goroutines serving POST /payments/webhook
    Movers,         \* goroutines serving POST /payments/squads/{id}/move-in
    MaxDeliveries,  \* bound on the webhooks the gateway sends for one order
    Overlap         \* does the gateway send an event again while it awaits an answer?

ASSUME DepositAssumption  == Deposit \in [Properties -> Nat]
ASSUME AmountAssumption   == MinAmount \in Nat
ASSUME DeliveryAssumption == MaxDeliveries \in Nat
ASSUME OverlapAssumption  == Overlap \in BOOLEAN

Transaction == [squad: SquadIds, user: Users, property: Properties,
                type: {"token_payment", "success_fee"}, amount: Nat,
                ref: BOOLEAN, status: {"initiated", "success"}]
OrderStatus == {"none", "created", "shown", "paid"}

PayRequest  == [stage: {"create"}, user: Users, squad: SquadIds,
                property: Properties, amount: Nat]
OrderRequest == [stage: {"order", "ref"}, tx: TxIds]
HookRequest == [stage: {"mark", "credit", "read", "lock"}, tx: TxIds]
MoveRequest == [stage: {"fee", "status", "occupy"}, user: Users,
                squad: SquadIds, property: Properties]

ASSUME NoTxAssumption == NoRow \notin Transaction
ASSUME NoPledgeAssumption == NoRow \notin [account: SquadIds, amount: Nat]

VARIABLES
    txs,        \* txs[t]: the row of transaction t, or NoRow
    orders,     \* orders[t]: the gateway's order whose receipt is t
    sent,       \* sent[t]: webhooks the gateway has sent for that order
    paying,     \* paying[w]: the InitiateTokenPayment call worker w is in
    hook,       \* hook[h]: the ProcessWebhook call worker h is in
    moving,     \* moving[m]: the ConfirmMoveIn call worker m is in
    occupied    \* properties whose status is 'occupied'

gateway    == <<orders, sent>>
payStarted == <<paying, hook, moving>>
payVars    == <<txs, orders, sent, paying, hook, moving, occupied>>
allVars    == <<squads, members, joined, proposals, inviting, proposing,
                txs, orders, sent, paying, hook, moving, occupied>>

PayInit ==
    /\ Init
    /\ txs      = [t \in TxIds |-> NoRow]
    /\ orders   = [t \in TxIds |-> "none"]
    /\ sent     = [t \in TxIds |-> 0]
    /\ paying   = [w \in Payers |-> Idle]
    /\ hook     = [h \in Hooks |-> Idle]
    /\ moving   = [m \in Movers |-> Idle]
    /\ occupied = {}

-----------------------------------------------------------------------------
(* POST /payments/squads/{id}/pay-token                                     *)

\* deposit / n as DECIMAL(12,2): to the nearest paisa, halves up.
Share(deposit, n) == (2 * deposit + n) \div (2 * n)

\* What user u is asked to pay for a squad with row r.
AmountDue(r) ==
    IF r.model = "leader_pays_all" THEN Deposit[r.property]
    ELSE Share(Deposit[r.property], r.count)

\* Only the leader pays all; anyone pays a share.
MayPay(u, r) ==
    /\ r.property # NoProperty
    /\ r.model = "leader_pays_all" => u = r.creator

\* GetSquadByID, and the amount computed from that row.
PayRead(w, u, s) ==
    /\ paying[w] = Idle
    /\ Exists(s)
    /\ MayPay(u, squads[s])
    /\ paying' = [paying EXCEPT ![w] =
         [stage |-> "create", user |-> u, squad |-> s,
          property |-> squads[s].property, amount |-> AmountDue(squads[s])]]
    /\ UNCHANGED <<vars, txs, gateway, hook, moving, occupied>>

\* CHECK (amount > 0) on transactions: MinAmount is 1 under the schema.
AmountAllowed(amount) == amount >= MinAmount

\* Mutant: a status the transaction_status enum does not have.
NewTransactionPending(r, type, amount) ==
    [squad |-> r.squad, user |-> r.user, property |-> r.property,
     type |-> type, amount |-> amount, ref |-> FALSE, status |-> "pending"]

\* The row Create writes for a request, with no gateway reference yet.
NewTransaction(r, type, amount) ==
    [squad |-> r.squad, user |-> r.user, property |-> r.property,
     type |-> type, amount |-> amount, ref |-> FALSE, status |-> "initiated"]

\* BR-09: the row is inserted before the gateway is called. An amount the
\* schema refuses ends the request.
PayCreate(w, t) ==
    LET r == paying[w] IN
    /\ r.stage = "create"
    /\ IF AmountAllowed(r.amount)
       THEN /\ txs[t] = NoRow /\ t \notin FeeIds
            /\ txs' = [txs EXCEPT ![t] = NewTransaction(r, "token_payment", r.amount)]
            /\ paying' = [paying EXCEPT ![w] = [stage |-> "order", tx |-> t]]
       ELSE /\ paying' = [paying EXCEPT ![w] = Idle]
            /\ UNCHANGED txs
    /\ UNCHANGED <<vars, gateway, hook, moving, occupied>>

\* gateway.CreateOrder, with the transaction's id as the receipt.
PayOrder(w) ==
    LET r == paying[w] IN
    /\ r.stage = "order"
    /\ orders' = [orders EXCEPT ![r.tx] = "created"]
    /\ paying' = [paying EXCEPT ![w] = [r EXCEPT !.stage = "ref"]]
    /\ UNCHANGED <<vars, txs, sent, hook, moving, occupied>>

\* Mutant: the order is returned without its reference being stored.
PayRefForgotten(w) ==
    LET r == paying[w] IN
    /\ r.stage = "ref"
    /\ orders' = [orders EXCEPT ![r.tx] = "shown"]
    /\ paying' = [paying EXCEPT ![w] = Idle]
    /\ UNCHANGED <<vars, txs, sent, hook, moving, occupied>>

\* Mutant: the statement that stores the reference also settles the row.
PayRefSettles(w) ==
    LET r == paying[w] IN
    /\ r.stage = "ref"
    /\ txs' = [txs EXCEPT ![r.tx].ref = TRUE, ![r.tx].status = "success"]
    /\ orders' = [orders EXCEPT ![r.tx] = "shown"]
    /\ paying' = [paying EXCEPT ![w] = Idle]
    /\ UNCHANGED <<vars, sent, hook, moving, occupied>>

\* UpdateGatewayInfo; only then does the client get the order to pay.
PayRef(w) ==
    LET r == paying[w] IN
    /\ r.stage = "ref"
    /\ txs' = [txs EXCEPT ![r.tx].ref = TRUE]
    /\ orders' = [orders EXCEPT ![r.tx] = "shown"]
    /\ paying' = [paying EXCEPT ![w] = Idle]
    /\ UNCHANGED <<vars, sent, hook, moving, occupied>>

\* The user completes the checkout of an order the API showed.
ClientPays(t) ==
    /\ orders[t] = "shown"
    /\ orders' = [orders EXCEPT ![t] = "paid"]
    /\ UNCHANGED <<vars, txs, sent, payStarted, occupied>>

-----------------------------------------------------------------------------
(* POST /payments/webhook                                                   *)

\* A delivery for order t is being handled.
Handling(t) == \E h \in Hooks : hook[h] # Idle /\ hook[h].tx = t

\* The gateway sends an event for an order: captured when it is paid, failed
\* while it is not. ProcessWebhook does not read which.
Sends(t) ==
    /\ sent[t] < MaxDeliveries
    /\ Overlap \/ ~Handling(t)
    /\ orders[t] \in {"shown", "paid"}

\* Mutant: a settled row is not told apart.
UnsettledOrNot(t) == txs[t] # NoRow /\ txs[t].ref

\* A webhook acts on a row it finds by its gateway reference and that is not
\* settled yet.
Unsettled(t) == txs[t] # NoRow /\ txs[t].ref /\ txs[t].status # "success"

\* Delivery, and GetByGatewayRef with the check on the status it returns.
HookRead(h, t) ==
    /\ hook[h] = Idle
    /\ Sends(t)
    /\ sent' = [sent EXCEPT ![t] = @ + 1]
    /\ hook' = [hook EXCEPT ![h] =
         IF Unsettled(t) THEN [stage |-> "mark", tx |-> t] ELSE Idle]
    /\ UNCHANGED <<vars, txs, orders, paying, moving, occupied>>

At(h, stage)   == hook[h].stage = stage
GoTo(h, stage) == hook' = [hook EXCEPT ![h].stage = stage]
Done(h)        == hook' = [hook EXCEPT ![h] = Idle]

\* Mutant: the gateway's status is stored, and the row's own is left.
HookMarkGatewayOnly(h) ==
    /\ At(h, "mark")
    /\ GoTo(h, "credit")
    /\ UNCHANGED <<vars, txs, gateway, paying, moving, occupied>>

\* MarkSuccess: WHERE id = $2, whatever the status is by now.
HookMark(h) ==
    /\ At(h, "mark")
    /\ txs' = [txs EXCEPT ![hook[h].tx].status = "success"]
    /\ GoTo(h, "credit")
    /\ UNCHANGED <<vars, gateway, paying, moving, occupied>>

\* The squad's row after UpdateTotalDeposit.
Credited(r, amount) == [r EXCEPT !.total = @ + amount]

HookCredit(h) ==
    LET tx == txs[hook[h].tx] IN
    /\ At(h, "credit")
    /\ squads' = [squads EXCEPT ![tx.squad] = Credited(@, tx.amount)]
    /\ GoTo(h, "read")
    /\ UNCHANGED <<seats, proposals, requests, txs, gateway, paying, moving,
                   occupied>>

\* Mutants: any payment will do; the deposit must be exceeded.
CollectedSome(r) == r.total > 0
CollectedMore(r) == r.total > Deposit[r.property]

\* total >= deposit - 0.01
Collected(r) == r.total >= Deposit[r.property] - 1

\* GetSquadByID and the comparison with the deposit of its property.
HookCheck(h) ==
    /\ At(h, "read")
    /\ IF Collected(squads[txs[hook[h].tx].squad]) THEN GoTo(h, "lock") ELSE Done(h)
    /\ UNCHANGED <<vars, txs, gateway, paying, moving, occupied>>

\* SetStatusLocked: WHERE id = $1, whatever the row holds by now.
HookLock(h) ==
    LET s == txs[hook[h].tx].squad IN
    /\ At(h, "lock")
    /\ squads' = [squads EXCEPT ![s].status = "locked"]
    /\ Done(h)
    /\ UNCHANGED <<seats, proposals, requests, txs, gateway, paying, moving,
                   occupied>>

-----------------------------------------------------------------------------
(* POST /payments/squads/{id}/move-in                                       *)

\* Who may confirm the move-in of a squad with row r.
MayMoveIn(u, r) ==
    /\ u = r.creator
    /\ r.status = "locked"
    /\ r.property # NoProperty

MoveRead(m, u, s) ==
    /\ moving[m] = Idle
    /\ Exists(s)
    /\ MayMoveIn(u, squads[s])
    /\ moving' = [moving EXCEPT ![m] =
         [stage |-> "fee", user |-> u, squad |-> s, property |-> squads[s].property]]
    /\ UNCHANGED <<vars, txs, gateway, paying, hook, occupied>>

\* Create of the success fee, with amount 0 until the payout. An amount the
\* schema refuses ends the request.
MoveFee(m, t) ==
    LET r == moving[m] IN
    /\ r.stage = "fee"
    /\ IF AmountAllowed(0)
       THEN /\ txs[t] = NoRow
            /\ txs' = [txs EXCEPT ![t] = NewTransaction(r, "success_fee", 0)]
            /\ moving' = [moving EXCEPT ![m].stage = "status"]
       ELSE /\ moving' = [moving EXCEPT ![m] = Idle]
            /\ UNCHANGED txs
    /\ UNCHANGED <<vars, gateway, paying, hook, occupied>>

\* SetStatusMovedIn: WHERE id = $1.
MoveStatus(m) ==
    LET r == moving[m] IN
    /\ r.stage = "status"
    /\ squads' = [squads EXCEPT ![r.squad].status = "moved_in"]
    /\ moving' = [moving EXCEPT ![m].stage = "occupy"]
    /\ UNCHANGED <<seats, proposals, requests, txs, gateway, paying, hook,
                   occupied>>

\* SetPropertyOccupied, of the property the first call returned.
MoveOccupy(m) ==
    LET r == moving[m] IN
    /\ r.stage = "occupy"
    /\ occupied' = occupied \cup {r.property}
    /\ moving' = [moving EXCEPT ![m] = Idle]
    /\ UNCHANGED <<vars, txs, gateway, paying, hook>>

-----------------------------------------------------------------------------
(* The client goes away, a call fails, or the process dies: the calls left   *)
(* are never made, and the webhook is answered 200 or not at all.            *)

AbortPay(w) ==
    /\ w \in Fragile
    /\ paying[w] # Idle
    /\ paying' = [paying EXCEPT ![w] = Idle]
    /\ UNCHANGED <<vars, txs, gateway, hook, moving, occupied>>

AbortHook(h) ==
    /\ h \in Fragile
    /\ hook[h] # Idle
    /\ Done(h)
    /\ UNCHANGED <<vars, txs, gateway, paying, moving, occupied>>

AbortMove(m) ==
    /\ m \in Fragile
    /\ moving[m] # Idle
    /\ moving' = [moving EXCEPT ![m] = Idle]
    /\ UNCHANGED <<vars, txs, gateway, paying, hook, occupied>>

SquadStep == Next /\ UNCHANGED payVars

PayStep == \E w \in Payers :
    \/ \E u \in Users, s \in SquadIds : PayRead(w, u, s)
    \/ \E t \in TxIds : PayCreate(w, t)
    \/ PayOrder(w)
    \/ PayRef(w)
    \/ AbortPay(w)

HookRuns(h) == HookMark(h) \/ HookCredit(h) \/ HookCheck(h) \/ HookLock(h)

HookStep == \E h \in Hooks :
    \/ \E t \in TxIds : HookRead(h, t)
    \/ HookRuns(h)
    \/ AbortHook(h)

MoveRuns(m) == (\E t \in TxIds : MoveFee(m, t)) \/ MoveStatus(m) \/ MoveOccupy(m)

MoveStep == \E m \in Movers :
    \/ \E u \in Users, s \in SquadIds : MoveRead(m, u, s)
    \/ MoveRuns(m)
    \/ AbortMove(m)

ClientStep == \E t \in TxIds : ClientPays(t)

PayNext == SquadStep \/ PayStep \/ HookStep \/ MoveStep \/ ClientStep

PaySpec == PayInit /\ [][PayNext]_allVars

\* A handler that has started runs on (a goroutine is never descheduled for
\* good), and the gateway sends at least one event for an order that is paid.
\* Nothing forces a client to send a request or to pay.
Delivered(t) ==
    /\ orders[t] = "paid"
    /\ sent[t] = 0
    /\ \E h \in Hooks : HookRead(h, t)

FairPaySpec ==
    /\ PaySpec
    /\ \A h \in Hooks : WF_allVars(HookRuns(h))
    /\ \A m \in Movers : WF_allVars(MoveRuns(m))
    /\ \A t \in TxIds : WF_allVars(Delivered(t))
-----------------------------------------------------------------------------
(* Properties.                                                              *)

\* Rows, orders and requests have the fields and the values the code gives them.
PayTypeOK ==
    /\ TypeOK
    /\ txs \in [TxIds -> Transaction \cup {NoRow}]
    /\ orders \in [TxIds -> OrderStatus]
    /\ sent \in [TxIds -> 0..MaxDeliveries]
    /\ paying \in [Payers -> PayRequest \cup OrderRequest \cup {Idle}]
    /\ hook \in [Hooks -> HookRequest \cup {Idle}]
    /\ moving \in [Movers -> MoveRequest \cup {Idle}]
    /\ occupied \subseteq Properties

\* BR-09: the gateway has no order without a transaction row, and the client
\* no order a webhook could not be matched to, wherever a payment was cut off.
OrderBacked ==
    \A t \in TxIds :
        /\ orders[t] # "none" => txs[t] # NoRow /\ txs[t].type = "token_payment"
        /\ orders[t] \in {"shown", "paid"} => txs[t].ref

\* A transaction counts as settled, and a webhook works on one, only after the
\* gateway sent an event for an order the client was shown; that the client
\* paid it is not implied, since an event of a failed payment will do.
SettledWasReported ==
    /\ \A t \in TxIds : txs[t] # NoRow /\ txs[t].status = "success"
                           => sent[t] > 0 /\ orders[t] \in {"shown", "paid"}
    /\ \A h \in Hooks : hook[h] # Idle
                           => sent[hook[h].tx] > 0 /\ orders[hook[h].tx] \in {"shown", "paid"}

\* A squad with a transaction has a property for good, so the webhook never
\* meets a nil property id when it compares the deposit.
PropertyKnown ==
    \A t \in TxIds : txs[t] # NoRow =>
        squads[txs[t].squad].property \in Properties

\* A squad is locked only with a settled token payment of its own, and what
\* locks it may have been overtaken by any number of other requests.
TokenPaid(s) ==
    \E t \in TxIds : /\ txs[t] # NoRow
                     /\ txs[t].squad = s
                     /\ txs[t].type = "token_payment"
                     /\ txs[t].status = "success"

MovedIn(s) == Exists(s) /\ squads[s].status = "moved_in"
Locked(s)  == Exists(s) /\ squads[s].status \in {"locked", "moved_in"}

LockedBacked == \A s \in SquadIds : Locked(s) => TokenPaid(s)

\* A locked squad has collected the deposit of its property, to the paisa the
\* code tolerates. Checked where no proposal moves the squad to another property:
\* one accepted between the comparison and the lock breaks it.
LockedCovered ==
    \A s \in SquadIds : Locked(s) => squads[s].total >= Deposit[squads[s].property] - 1

\* A captured payment is settled in the end.
PaidSettles ==
    \A t \in TxIds : orders[t] = "paid"
        ~> txs[t] # NoRow /\ txs[t].status = "success"

\* A squad that has collected the deposit of its property is locked in the end.
CollectedLocks ==
    \A s \in SquadIds :
        /\ Exists(s)
        /\ squads[s].total > 0
        /\ squads[s].total >= Deposit[squads[s].property]
      ~> Locked(s)

\* As documented of ConfirmMoveIn: a confirmation of a locked squad's leader
\* that passed its checks moves the squad in.
ConfirmedMovesIn ==
    \A m \in Movers, s \in SquadIds :
        moving[m].stage = "fee" /\ moving[m].squad = s
          ~> MovedIn(s)

\* FR-4.3 as documented: a squad's status only moves on.
Rank(status) == CASE status = "browsing" -> 0 [] status = "forming"  -> 1
                  [] status = "locked"   -> 2 [] status = "moved_in" -> 3

StatusForward ==
    [][\A s \in SquadIds : Exists(s) =>
         Rank(squads'[s].status) >= Rank(squads[s].status)]_allVars

-----------------------------------------------------------------------------
(* The ledger of module Escrow, as this module implements it.                *)

Pledges == [t \in TxIds |->
    IF txs[t] # NoRow /\ txs[t].type = "token_payment"
    THEN [account |-> txs[t].squad, amount |-> txs[t].amount] ELSE NoRow]

\* Between MarkSuccess and UpdateTotalDeposit a payment is not yet in the ledger.
Crediting(t) == \E h \in Hooks : hook[h].stage = "credit" /\ hook[h].tx = t
InLedger ==
    {t \in TxIds : txs[t] # NoRow /\ txs[t].status = "success" /\ ~Crediting(t)}

Totals == [s \in SquadIds |-> IF Exists(s) THEN squads[s].total ELSE 0]

Ledger == INSTANCE Escrow WITH Payments <- TxIds, Accounts <- SquadIds,
    NoPledge <- NoRow, pledged <- Pledges, settled <- InLedger,
    collected <- Totals

\* Every payment that settles is added to its squad's total once, at one step.
ImplementsEscrow == Ledger!Spec

\* The token payments of squad s that count as settled, credited yet or not.
Settled(s) ==
    {t \in TxIds : /\ Pledges[t] # NoRow
                   /\ Pledges[t].account = s
                   /\ txs[t].status = "success"}

\* As documented of duplicate webhooks: no payment is added twice, so a total
\* never exceeds what the settled payments add up to.
NothingTwice ==
    \A s \in SquadIds : Exists(s) =>
        squads[s].total <= Ledger!AmountSum(Pledges, Settled(s))
=============================================================================
