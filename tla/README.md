# BachelorPad backend: specifications, model checking and proofs

TLA+ modules of the BachelorPad backend (Go, chi, pgx, PostgreSQL): what a
request may do to the database, in which order its calls run, and what holds
between the calls of several requests. TLC checks the modules on small
instances; TLAPS proves the theorems for every value of the constants.

## 1. The system

Every HTTP request is a goroutine (`net/http`) with the request's context, so
requests run concurrently and a client that goes away cancels what its handler
has not done yet. Handlers call a domain service, the service calls
repositories. A repository call is one autocommitted SQL statement, except
`CreateSquad`, `UpdateMemberStatus` and `ResolveProposal`, which are one database
transaction each. Nothing locks rows across calls: a service that reads a row,
checks it and writes is interleaved with every other request between the two
statements. That is the source of most of what is hard here.

| Component | State | Operations that change it | Talks to | Hard part | Correct when |
|---|---|---|---|---|---|
| Squads (`domain/squad`, `repository/squad_repo.go`) | `squads`, `squad_members`, `squad_property_proposals` | create, invite, respond, propose, resolve | notifications | capacity and membership checked on rows read before; counter beside the rows it counts | capacity is kept, answers stand, the property comes from an accepted proposal, a squad has a property unless it browses |
| Lookups and matching | `squad_lookups` | register | embeddings | check then insert; a failed check counts as none | one active lookup a user |
| Token payments (`domain/transaction`) | `transactions`, `squads.total_deposit_collected`, `squads.status`, `properties.status` | pay-token, webhook, move-in | gateway, squads, properties | three to five calls without a transaction; duplicated and concurrent webhooks; deaths between calls | an order has its row, a settled row was reported, totals are the settled payments, a locked squad has paid |
| Gateway (`pkg/payment`) | orders (external) | create order, verify webhook | payments | at-least-once delivery | external |
| Landlord KYC (`domain/kyc`) | `landlord_kyc` | submit, review | properties | check then update | a decided submission never waits again, an approval leaves its date |
| Properties (`domain/property`) | `properties` | create, search | KYC | KYC read before the insert | only landlords who were approved list |
| Verifications (`domain/verification`) | `verifications`, `properties.status` | initiate, review, promote | properties | status written from a stale read; two approvals at once | verified only after both kinds were approved |
| Embedding worker (`pkg/embedding/worker.go`) | `users.pending_embeddings` and vectors | tick | users, HTTP provider | flag cleared after a profile changed; batch without order; calls without a timeout | everybody the provider serves has a vector in the end where no call hangs and the queue fits a batch; never an older vector |
| Squad chat (`message_repo.go`, `message_handler.go`) | `messages` | send, page, mark read | squads | gate and call apart; cursor, page length, commits out of order | the chat is the members', no message skipped or repeated |
| Notifications, email | `notifications` | insert, mark read | all | best effort | not relied on |
| Users, auth | `users`, stateless tokens | register, login, refresh, profile | all | a refresh trusts the old token | tokens have the role of their row, unique e-mail, one admin |
| Query builder | none | `Build` | search | mutates its arguments | parameters numbered as used |
| Config, crypto, responses, middleware, router | none | | | | |

The hazards of the code, each at its line, are in `PROJECT.json`.

## 2. Modules

| Module | What it is |
|---|---|
| `Squads` | rows of squads, members and proposals; every squad request, call by call |
| `SquadsProofs` | theorems about `Squads` |
| `TokenPayments` | extends `Squads` by transactions, gateway, webhooks, lock and move-in; squad requests interleave with payment requests |
| `Escrow` | the abstract ledger `TokenPayments` implements: a payment is pledged once and settles once |
| `EscrowProofs` | what the ledger's sums of money are, and that it conserves money |
| `TokenPaymentsProofs` | theorems about `TokenPayments`, the refinement of `Escrow` among them |
| `SettlementProofs` | more about `TokenPayments`: totals and payments, webhooks that are cut off, nothing forgotten, what takes a status back |
| `Membership` | what other parts rely on of the members: found, ask, answer. `Squads` implements it, `SquadChat` takes its steps as its environment |
| `Listings` | KYC submissions and reviews, property creation, verifications and promotion, call by call |
| `Badge` | the abstract promise `Listings` implements: clear, list, pass, award, withdraw |
| `ListingsProofs` | theorems about `Listings`, the refinement of `Badge` among them |
| `ReviewsProofs` | more about `Listings`: what takes a status back, what breaks the promise of the badge |
| `SquadChat` | sending, marking and paging of messages behind the membership gate |
| `SquadChatProofs` | theorems about `SquadChat` |
| `Accounts` | registration, login, refresh, expiry, profiles, squad lookups |
| `EmbeddingWorker` | extends `Accounts` by the background worker, its failures and deaths of the process |
| `AccountsProofs` | theorems about the two composed |
| `MCSquads`, `MCPayments`, `MCListings`, `MCChat`, `MCAccounts` | model values, deposits and symmetry for TLC |

### How state and actions correspond to the code

* A table is a function from the ids it may hand out to rows; `NoRow` is an id not
  yet used. A member's row is its status, `"none"` is no row; the schema's
  `UNIQUE (squad_id, user_id)` makes that a function. `max_size` is the constant
  `MaxSize`: `CreateSquad` writes one row shape and nothing changes it.
* The local variables of a handler that makes several calls are a record in
  `inviting`, `proposing`, `paying`, `hook` or `moving`, with the call it makes
  next in `stage`; the set a variable ranges over is the set of goroutines that
  may serve that route at once. One action is one call with the code that runs up
  to the next one. A handler that makes one call, or one database transaction, is
  one action without a record (`CreateSquad`, `RespondToInvite`,
  `ResolveProposal`).
* CHECK and UNIQUE constraints are guards of the statements they belong to
  (`RowAllowed`, `AddMember`, `AmountAllowed`). A statement that fails ends the
  request; where it leaves no trace the step is left out.
* The outcomes of `squad_repo.go` that look odd are kept: `UpdateMemberStatus`
  raises the counter whether or not its UPDATE found a row, `ResolveProposal` asks
  neither who decides nor what the squad's status is, `SetStatusLocked` and
  `SetStatusMovedIn` have no condition on the row.
* `Abort...` is a cancelled request context, a failed call or a dead process: the
  calls left are never made. Only the workers in `Fragile` die, so a run can ask a
  question with and without deaths. A row survives, being in the database.
* Money is in paise. A share is `NUMERIC(12,2)`: `Share` rounds halves up. The
  tolerance of 0.01 in `ProcessWebhook` is one paisa.
* `joined` is a history variable of `Squads`, `Membership` and `SquadChat`: the users
  whose row in a squad has ever been `accepted`. It watches `members`, and no guard
  reads it. The code asks for `status = 'accepted'` (`IsMember`) in one call and acts in
  a later one, and a member can reject in between, so what can hold of a writer,
  an inviter or a proposer is that he was an accepted member once (`OnlyMembersAct`,
  `ChatOfMembers`). Somebody who was only invited, or only refused, does not pass.
* `MinAmount` is the least amount the schema admits in `transactions.amount`: 1
  paisa (`CHECK (amount > 0)`). Run `ledger` alone sets it to 0, so that the calls of
  `ConfirmMoveIn` behind its first insert, which with the schema as it is are never
  reached (finding 5), run beside its webhooks; its properties do not speak of
  move-ins, and a refused confirmation only returns the request to idle, so the
  behaviours under the schema are among those it checks. No theorem but
  `MoveInNeverHappens` depends on the constant.
* `FeeIds` is a bound: transaction ids that no token payment uses up. It is empty
  except in run `move_in`, where a success fee shall not fail for want of an id. An
  insert the schema refuses needs no id.
* The gateway is external: an order becomes payable when the API returns it, the
  client may pay it, and the gateway sends up to `MaxDeliveries` webhooks for it, of a
  captured payment or, while the order is not paid, of a failed one. `ProcessWebhook`
  parses the event's name (`webhook.go:11`) and never reads it, so the two are
  handled alike. `Overlap` says whether the gateway sends an event again while an
  earlier delivery of it is still being handled.
* A deposit is written once, with the property, so reading it again is no step.
* In `Listings`, `stamped` is `verified_at IS NOT NULL` (for KYC also the two document
  flags): the statements set it on approval and never clear it, so it remembers an
  approval that a later rejection overwrote. Who is a landlord is the constant
  `Landlords`: a role never changes (`RolesHold` of `Accounts`). The status `occupied`
  is not in this module: it is written by a move-in only, which never gets that far
  (finding 5); `TokenPayments` has it.
* A chat message gets its time (`NOW()`) when its INSERT begins and is visible when it
  commits: `SendBegin`, `SendCommit`. `ORDER BY sent_at DESC LIMIT n` is `NewestPage`,
  which leaves the choice among equal times open. A `walk` is a client that follows
  `next_cursor`; `seen` and `begun` are what the properties compare and no step reads
  `begun`. `MarkRead` appends a user at most once to each message, so `readBy` is a set.
* Tokens are claims under a signature nobody else can make; the server keeps none, so
  `tokens` is the set of claims signed and not expired. Passwords are whether one
  knows them, which is left open. No statement of the code clears `is_active`.
* A profile text is its number among those its user saved; saving the same text again
  (`SaveProfile` of the last one) puts its user back into the queue. The query of the worker
  returns rows as they are when it starts (`Snapshot`); `UpdateOK` clears the flag
  whatever has been saved since. `Crash` ends the pass and all requests; tokens and rows
  survive. One process is modelled: with two, each runs a worker of its own.

## 3. Runs

| Run | Bounds | What it shows |
|---|---|---|
| `squads` | 3 users, 1 squad of capacity 2, 1 property, 2 proposals, 2 concurrent invitations, 1 proposal request; every request may die | types; BR-05 (`SizeBound`), BR-08 (`PropertyUnlessBrowsing`), `OnlyMembersAct`, `AnswerStands`, FR-4.4 (`ChosenFromProposals`); `Squads` implements `Membership` |
| `payments` | 2 users, 1 squad, 2 properties with deposits 4 and 5, 2 transactions, 2 concurrent webhooks, 2 overlapping deliveries an order, 1 move-in, 1 proposal; every request may die | under the schema's amounts and with events of failed payments: `OrderBacked`, `SettledWasReported`, `PropertyKnown`, `LockedBacked` |
| `ledger` | both payment models, 2 transactions, 2 webhook workers that do not die, redelivery only after an answer, no proposals, least amount 0, fairness | `TokenPayments` implements `Escrow`; `LockedCovered`; `PaidSettles`, `CollectedLocks` |
| `listings` | 1 landlord, 1 tenant, 1 property, 2 verifications of three kinds, 3 workers; every request may be cut off but a review past its first write; fairness | BR-04 (`VerifiedBacked`), BR-07 (`ListedVetted`), `ChecksBegun`, `DecisionStands`, `PromotedInTheEnd`; `Listings` implements `Badge` |
| `chat` | 2 users, 1 squad, 2 messages, 2 writers, 1 reader, limits 0 to 3 with default 1 and maximum 2, 2 instants | FR-4.5 (`ChatOfMembers`), `WalkComplete`, `PagesDescend` |
| `accounts` | the admin and 1 other user, 2 addresses, 2 lookups, 2 concurrent registrations of lookups, 2 profile texts each, saved any number of times, batches of 2; deaths at any time; fairness | BR-02 (`RolesHold`), FR-4.1 (`OneActiveLookup`), `ClearedHasVector`, `VectorForward`, `EmbeddedInTheEnd` |
| `forward_only` | as `listings` | finding 6 |
| `member_count` | as `squads` | finding 1: a creator rejects, the count stays 1 |
| `leader_decides` | as `squads` | finding 2 |
| `duplicate_webhook` | 1 transaction, 2 webhooks | finding 3: both read `initiated`, both credit |
| `status_flow` | 1 transaction, 1 proposal | finding 4 |
| `move_in` | fairness, one webhook worker, an id kept free for the fee | finding 5; with `MinAmount = 0` instead of 1 the run has no counterexample |

Why these bounds are enough to be interesting: capacity 2 with three users is the
smallest squad that two accepted invitations can overfill; two invitations of the
same person can race; two proposals are the least that FR-4.4 tells apart. Two
deliveries and two webhooks are the least at which a status check and its update
can be separated by another delivery, and two transactions the least at which one
squad is credited from two sides. With two properties a proposal can move a
squad to another property between any two calls of a payment. One squad row
is enough for the racing runs because no statement reads two squads' rows; that
proposals of other squads are left alone is a theorem (`ChoicesCorrect`,
`ActorsCorrect`) and not seen by a run. Counters need no bound: the capacity bounds the
member counter, the number of transactions and `MaxDeliveries` bound the totals.
Two verifications are the least that can be approved side by side, one of each
kind, and three workers let two reviews race an initiation; the kind `physical` is
there because `checkAndPromoteProperty` must not count it. Two messages and two
instants are the least at which commits cross or times are equal, and limits 0, 1,
2, 3 with a maximum of 2 are the panic, pages that are followed by others, the
maximum and a clamped limit; the theorems are for every number of messages. A batch
of two lets one user fail beside another, and two texts let a profile change while it
is embedded; the queue always fits the batch there, which is the premise of
`EmbeddedInTheEnd`; the safety theorems are for every batch size. `LastText` and
`LastInstant` are the only bounds on counters in these modules.
`CHECK_DEADLOCK FALSE` is set throughout: when the ids are used up and all requests
are answered the instance has nothing left to do, which says nothing of the code.
Symmetry is used in runs without liveness only; where it is used, the properties do not
name an element of the symmetric set. `Escrow` is checked as a PROPERTY, by the
refinement mapping at the end of `TokenPayments`: a payment is in the ledger once its
webhook has passed `UpdateTotalDeposit`.

### Fairness

`FairPaySpec` assumes three things and no more. A webhook handler or a move-in that
has started takes its next call: goroutines are scheduled preemptively, and no
call waits for another request. The gateway delivers the event of a captured
payment at least once, which it promises and the code relies on; further deliveries
may or may not come. Users owe nothing: nobody has to request, propose or pay, and a
payment request (`paying`) may stop at any call. `PaidSettles` and `CollectedLocks`
also need webhook workers that do not die, see the last part of section 5.

`FairSpec` of `Listings`: a review that has written its answer makes its next call.
Its requests are not cut off there (`CutOff` lacks `gather` and `promote`): with
them, a review that dies between the approval and the promotion leaves the property
unpromoted until a further approval, and `PromotedInTheEnd` fails.

`FairEmbedSpec`: the ticker ticks (weak fairness of `Find`), and an update that is tried
for a user again and again succeeds at some time (strong fairness for each user,
because failures and deaths of the process disable it in between). Nothing is assumed
of the provider, and the code justifies nothing: its calls go through
`http.DefaultClient`, which has no timeout (`ollama.go:40`, `openai.go:46`), under a
context without a deadline (`cmd/api/main.go:67`), so one that hangs stops the only
worker for good. `EmbeddedInTheEnd` therefore has its premises in the formula:

* `NoCallHangs`: a call that is made returns, with a result or an error;
* `Serves(u)`, for the user concerned only: the calls for `u`, tried again and again,
  succeed at some time; those for others may fail for ever;
* from some time on the queue fits a batch. The query takes `LIMIT 5` of the pending
  users without an order (`worker.go:49`), so with a longer queue users whose text is
  always refused, or who keep saving, can be taken again and again in place of
  another.

It fails without any one of the three: drop the first or the second from the
formula, or set `BatchSize = 1` in run `accounts` and drop the third.

## 4. Theorems

`SquadsProofs` proves of `Squads`, for any users, squads, proposals, concurrent
requests, capacity of at least two and set of workers that die:

| Theorem | Statement |
|---|---|
| `TypeCorrect` | `TypeOK`, and that every request and proposal refers to a squad that exists |
| `SizeCorrect` | accepted members <= counter <= capacity |
| `PropertyCorrect` | a squad has no property exactly while it browses |
| `ActorsCorrect` | an invitation past its check, and a proposal, come from somebody whose row was `accepted` before, not from one only invited or refused |
| `AnswersStand` | no stale invitation overwrites an answer |
| `ChoicesCorrect` | a squad's property changes only with an accepted proposal of one of its members, and none of its proposals stays pending |
| `MembershipCorrect` | `Squads` implements `Membership` |
| `DriftsCorrect` | the counter gets ahead of the accepted rows by miscounted answers, by one each, and never back |
| `CountCorrect` | BR-12 as documented, where no answer is miscounted |

`TypeOK` is not inductive: `InviteCheck` and `ResolveProposal` follow a squad id
into the table, so the invariant is `TypeInv == TypeOK /\ References`, where
`References` says that a request under way and a proposal refer to rows that exist
and that a squad without a row has no members (`RowsStay`: rows are never
deleted). `PropertyCorrect` and `ActorsCorrect` are
inductive relative to it; the latter because `joined` only grows (`JoinedStays`) and holds
whoever is a member (`HistoryKept`). `SizeCorrect` rests on `OneMore`: an answer adds at most one
accepted member, while `Seated` adds one to the counter whenever the answer is an
acceptance and the CHECK refuses the statement at the capacity; so the counter may
run ahead of the members (finding 1) and never behind. The action properties follow
from the invariants and one step lemma each (`AnswerStep`, `ChoiceStep`).
`DriftsCorrect` and `CountCorrect` are the exact extent of finding 1: `Miscounts` names
the answers `UpdateMemberStatus` counts wrong, an acceptance without a row or repeated and
a rejection after an acceptance. The
assumptions are those of `Squads`: finitely many users, `NULL` is no property, a
capacity of at least 2, the two payment models, `NoRow` is no row. Every one is
evaluated by TLC on every run.

`TokenPaymentsProofs` proves of `TokenPayments`, that is with squad and payment
requests interleaved, for any number of squads, payments, concurrent requests and
deliveries, any deposits and any set of requests that are cut off:

| Theorem | Statement | Further assumption |
|---|---|---|
| `PayTypeCorrect`, `KnownCorrect` | `PayTypeOK`; a squad with a transaction has a property | |
| `PaySizeCorrect`, `PayPropertyCorrect`, `PayActorsCorrect`, `PayChoicesCorrect` | the promises of `Squads` still hold | |
| `OrdersCorrect` | an order has its row, a shown order its reference | |
| `SettledCorrect` | a settled transaction was reported by the gateway, for an order its client was shown | |
| `LockedCorrect` | a locked squad has a settled payment of its own | |
| `CoveredCorrect` | a locked squad has collected its deposit | `NeverOvertaken` |
| `LedgerCorrect` | `TokenPayments` implements `Escrow` | deliveries of one event do not overlap; no webhook is cut off |

The inductive invariants, each relative to the ones before it:

* `PayTypeInv == PayTypeOK /\ References /\ Linked /\ Counted`. A webhook follows its
  transaction into `txs` and from there a squad into `squads`, so the types need
  `Linked`: those rows exist, and the squad has a property, from the call that looked
  them up on (`FundedStays`, `TxStays`: nothing takes them away). `Counted` keeps the
  divisor of `Share` positive.
* `OrderInv == OrderBacked /\ Owned`. `Owned` says that no two payment requests hold
  the same transaction, so the order a request creates is not there yet.
* `SettledWasReported` itself, which speaks of webhooks under way as well as of rows.
* `LockInv == Underway /\ LockedBacked`. `Underway` is what a webhook
  and a move-in have established by the call they are at. It is needed because
  `HookLock`, `MoveStatus` and `MoveOccupy` write without looking at the row again.
* `CoverInv`: what a webhook at its lock and a move-in know of the collected deposit. It
  survives because totals only grow (`SquadWrites`, `PropertyWrites` say what else a step
  may do to a squad). An accepted proposal changes the deposit that was compared with:
  `NeverOvertaken` says that none of a squad is accepted while a webhook at its lock, or
  a move-in, relies on what it compared (`ReliedOn`). Proposals accepted at any other time are
  in the theorem, since they unlock the squad. The code does not enforce it; the theorem
  says that this gap is the only way to an uncovered lock.
* `OneHook`, for the refinement: one payment is in the hands of one webhook, and what
  that webhook read of its status is still so when it marks it. This is the statement
  the code does not enforce. The theorem assumes a gateway that awaits an answer; run
  `duplicate_webhook` shows the other case.

`LedgerCorrect` has a lemma for each kind of step: `HookCredit` is the ledger's
`Settle`, `PayCreate` its `Pledge`, everything else leaves the ledger alone. The
assumptions on constants are those of `Squads` and: deposits are naturals, `NoRow` is
neither a transaction nor a pledge.

`SharesCollect` is arithmetic about `Share` and `Collected`: if one to four members pay
their shares, the comparison in `ProcessWebhook` holds for every deposit.
`FiveSharesFallShort` gives a deposit for which five shares do not suffice.

`EscrowProofs` proves of the ledger, for any accounts and any number of payments of any
amounts: `MoneyConserved`, every account has collected what its settled payments add up
to, and `MoneyNotMade`, it has collected no more when settlements may lapse
(`LossySpec`, the promise that is left when a webhook can die between two statements).
A sum over a set is a fold, a recursive function that TLAPS knows nothing of. It is
given a meaning first: `SumCounts` says that it counts the units of its payments, the
pairs of a payment and a number up to its amount. That takes an induction over the
subsets of a finite set, which is done with `Minimal` (a set of subsets has a least one)
because the library's induction rules have an operator parameter. `SumAdd` and `SumSame`
are what the ledger's steps need. No constant is assumed finite: the settled payments of
a behaviour are (`BooksInv`).

`SettlementProofs` proves of `TokenPayments`, with the invariants above:

| Theorem | Statement | Further assumption |
|---|---|---|
| `AtMostOnceCorrect` | `TokenPayments` implements the ledger with lapses: a payment is added once or never, in full, wherever a webhook is cut off | deliveries of one event do not overlap |
| `TotalCorrect` | `total_deposit_collected` is the sum of the settled payments | the same; no webhook is cut off |
| `NothingTwiceCorrect` | `NothingTwice`: it never exceeds that sum | deliveries of one event do not overlap |
| `LockedPaidCorrect` | the settled payments of a locked squad add up to its deposit | the same; `NeverOvertaken` |
| `DeliveredCorrect` | a payment the gateway has reported is settled or about to be | no webhook is cut off or fails |
| `CollectedCorrect` | a squad that has collected its deposit is locked, or a webhook has yet to look | the same; `NeverReopened` |
| `FallsCorrect` | a status falls only by an accepted proposal, or by a lock after the move-in | |
| `MoveInNeverHappens` | no squad moves in, no property is occupied | `amount > 0` |
| `PayMembershipCorrect`, `PayAnswersStand`, `PayDriftsCorrect` | `Squads` keeps its refinement, its answers and its count while payments run | |

The first four rest on each other: the refinement of the ledger by the steps of webhooks
(`LedgerStep`, and `LedgerAbort` for the one that dies), the sums of `EscrowProofs`
through the mapping (`SameBooks`, `SameBalance`), and `CoveredCorrect`; `NothingTwice`, which
counts settled payments whether credited or not, follows from the ledger's sum because a
sum grows with its set (`SumGrows`). So finding 3 has
exactly one cause, deliveries of one event that overlap: cut-off webhooks and any number
of repeated deliveries do not make a total too large, they make it too small at worst.
`DeliveredCorrect` and `CollectedCorrect` are the safety cores of `PaidSettles` and
`CollectedLocks`: as long as they hold there is always somebody left to do the rest, and
what remains for fairness is that this somebody takes the next call. Both exclude a
webhook that dies or fails, which the code answers 200 and nobody repeats: that case
loses the payment, see section 5. `NeverReopened` says that no proposal is accepted once its
squad has collected money; the code allows it, and a squad that moves to a cheaper
property after a partial payment has collected its deposit with nobody to lock it.
Note that two webhooks
whose credits both run before either comparison do not each leave the lock to the other.

`ListingsProofs` proves of `Listings`, for any users, properties, verifications,
kinds and workers, whatever is cut off: `ListingTypes`, `BackedCorrect` (BR-04),
`VettedCorrect` (BR-07), `BegunCorrect`, `DecisionsStand` and `PromiseCorrect`, that
`Listings` implements `Badge`. `TypeOK` is strengthened by `Linked`: what a request and a
verification refer to has a row. `VerifiedBacked`, `ListedVetted` and `ChecksBegun` speak
of requests under way or of rows in a way that makes them inductive relative to it:
a promotion under way has seen both approvals, and `stamped` never goes away.

`ReviewsProofs` goes on to what does not hold always:

| Theorem | Statement | Further assumption |
|---|---|---|
| `FallsCorrect` | a status falls only when an initiation that read a draft writes after the promotion | |
| `ForwardCorrect` | `ForwardOnly` | no two initiations of one property are between read and write (`OneMove`) |
| `BrokenCorrect` | a property with both approvals is left neither verified nor under review only by such an initiation or a review cut off | |
| `PromiseKeptCorrect` | it never is | `OneMove`; reviews past their first write are not cut off |

`OneMove` is a restriction of behaviours, what `SELECT ... FOR UPDATE` would give; reviews,
submissions and openings run freely beside. `PromiseKeptCorrect` is the safety core of
`PromotedInTheEnd`: two reviews that approve side by side do not each leave the promotion
to the other, because an approval is written before the list is read.

`SquadChatProofs` proves of `SquadChat`, for any squads, users, messages, limits,
writers and readers: `ChatTypes`, `MembersChat` (FR-4.5), `PagesOrdered` and
`WalksComplete`, and `OnePageCorrect` about the limits `WalksComplete` leaves out: a client
that asks for 0 or more than the maximum gets at most one page and is never told that
there is more. `MembersChat` is about `joined`; FR-4.5 asks for a member of the moment,
and one who rejects between the gate and the call behind it still writes, reads or
marks. `WalksComplete` needs an invariant about a walk that is not at its end: a
message visible at its beginning with a time of its own was sent already or is older
than the cursor. What the gate established survives the next call because
`joined` never shrinks, in any step of `Membership`, and holds whoever is accepted
(`PastGate`).

`AccountsProofs` proves of `Accounts` and `EmbeddingWorker` composed, for any users,
addresses, lookups, batch size and number of saves: `AccountTypes`, `RolesCorrect`
(BR-02), `LookupsCorrect` (FR-4.1), `QueueCorrect` and `VectorsForward`. The types need
`PendingSaved` (whoever waits has a profile). `VectorsForward` rests on `Ordered`: a row
the worker holds lies between the stored and the saved text of its user and is the
only one it holds of that user, which is where a second pass beside the first would
break it. `LostCorrect` describes the worker's lost update: a profile drops out of the
queue without its vector only by the update for a row read before it was saved, and only
another save brings it back. `NoneLostCorrect`: it takes a save while a pass holds the
user's row (`SavesApart`), failures and restarts do not do it.

The assumptions are those the modules state: `NoRow` is no row, the seeded admin is a
user, limits and bounds are naturals. TLC evaluates them on every run.

Some theorems have a hypothesis about behaviours (`AnswersCounted`, `OneMove`, `SavesApart`,
`NeverOvertaken`, `NeverReopened`) or constants (`~Overlap`, nobody cut off). Those are not
claims about the code, which grants none of the first kind and leaves the rest to its
environment: they mark
where the documented behaviour begins to hold, and a run or a theorem beside each shows
that it does not hold without. TLC finds on the instances of the runs that behaviours
under each of them still reach the states the conclusion is about.

Liveness stays with TLC, on the instances of `ledger`, `listings` and `accounts`; so do
the facts that hold only because of fairness. `WF_`, `SF_` and `ENABLED` are out of the
prover's reach; the theorems above prove the safety part of each liveness property.

## 5. Where the code and its documents disagree

1. `CountIsAccepted` (BR-12, `docs/AI_AGENT_CONTEXT.md:197`): `UpdateMemberStatus`
   raises `current_member_count` on every acceptance, repeated or without an
   invitation, and a rejection after an acceptance takes nothing off (the run's trace: a
   creator rejects). What holds instead is `SizeBound`, and `DriftsCorrect` says how far
   the two can be apart.
2. `LeaderDecides` (BR-13, `docs/BACKEND_DEVELOPMENT_PLAN.md:356`): the service never
   reads `leaderID`; any user can decide a proposal.
3. `NothingTwice` (`docs/BACKEND_DEVELOPMENT_PLAN.md:406`): the status check and
   `MarkSuccess` are two statements, so two deliveries of one event that run side
   by side add the amount twice. Settled payments count here whether they have been
   credited or not, so the total of the trace is really twice the amount. Deliveries of
   one event that do not overlap are ignored as documented, with those of other payments
   in between: that is `ImplementsEscrow` in run `ledger`, and theorem
   `NothingTwiceCorrect` for `NothingTwice` itself.
4. `StatusForward` (FR-4.3, `docs/PROJECT_SRS.md:183`): accepting a proposal sets
   `forming` on a squad that is locked. `FallsCorrect` of `SettlementProofs` has the one
   other way back.
5. `ConfirmedMovesIn` (`domain/transaction/service.go:183`): the success fee has amount
   0 and the schema demands more, so every confirmation fails at its first insert
   (theorem `MoveInNeverHappens`).
6. `ForwardOnly` (`docs/AI_AGENT_CONTEXT.md:188`): `InitiateVerification` writes
   `pending_verification` on what it read before; a property verified in between goes
   back. What holds instead is `VerifiedBacked`, and that the way back never leads to
   a draft (`ChecksBegun`); overlapping initiations are the only cause (`ForwardCorrect`).

Seen while modelling and reported without a run of their own:

* A webhook cut off between `MarkSuccess` and `UpdateTotalDeposit` loses the deposit for
  good: every retry meets a settled row and stops. Put the webhook workers into
  `Fragile` in run `ledger` and `ImplementsEscrow` and `PaidSettles` hold no more. What is
  left is `AtMostOnceCorrect`.
* `SetStatusLocked` runs on what `GetSquadByID` returned earlier. A proposal accepted in
  between leaves the squad locked on a property whose deposit nobody compared:
  `LockedCovered` fails in run `ledger` once it has a proposal, and holds under
  `NeverOvertaken` (theorem `CoveredCorrect`).
* A deposit split among five members can round to shares that add up to less than the
  deposit minus one paisa, and the squad never locks: 100.02 in five shares of 20.00
  is two paise short (`FiveSharesFallShort`), and the tolerance is one paisa for all.
* An event of a failed payment settles its transaction like one of a captured payment:
  `ProcessWebhook` does not read the event name. `SettledWasReported` is what is left:
  the gateway sent something about an order its client was shown.
* One call of the embedding provider that hangs ends all embedding until a restart: no
  timeout, no deadline, one worker (section 3, fairness).
* A member who rejects between `IsMember` and the insert still writes to the chat, and
  likewise still invites or proposes (FR-4.5 asks for accepted members).
* A property keeps its status when one of its approvals, or its landlord's KYC, is
  rejected afterwards (`verification/service.go:79`, FR-3.2 in `docs/PROJECT_SRS.md`): the
  approvals in `VerifiedBacked` and `ListedVetted` are past ones.
* The kind `physical` counts for nothing in `checkAndPromoteProperty`; the plan
  (`docs/BACKEND_DEVELOPMENT_PLAN.md:294`) has it among the visits.
* Chat: a limit above 50 is clamped to 30 in the repository and compared with itself in
  the handler, so the client gets one page and no `next_cursor`; limit 0 in a chat
  without older messages indexes the last row of none and panics (`WalkPanic`, answered
  500 by the recoverer). `WalkComplete` is about accepted limits, and messages with
  equal times may fall between two pages. `MarkRead`'s comment
  (`message_repo.go:88`) speaks of a cursor that neither it nor its route has: messages
  the reader never saw are marked.
* A profile saved between the worker's query and its update is not embedded until it is
  saved again: the update clears the flag for it (`worker.go:92`, theorem `LostCorrect`).
* Active lookups neither expire nor can be cancelled: the schema
  (`db/schema_initializer.sql:398`) leaves expiry to a job and the plan has a DELETE route,
  neither exists. The "worker pool" of the documents is one goroutine.
* Notifications for KYC decisions, invitations, proposals and verified properties have
  functions (`domain/notification/service.go`) which nothing calls.

## 6. Not modelled, and the plan

Left out for good: HTTP, JSON and signature handling, token formats, encryption,
e-mail and logging, configuration and wiring; the read-only queries (search, matches,
history, a landlord's contact), `RemoveMember`, `DeleteLookup` and `GetTotalPaidForSquad`,
which nothing calls; row locks inside one database transaction (two acceptances of one
squad can make PostgreSQL abort one of them, which leaves the other alone); the pool
of database connections; the query builder, which puts a string together.

Only model-checked: the three liveness groups (`PaidSettles`, `CollectedLocks`;
`PromotedInTheEnd`; `EmbeddedInTheEnd`). Every invariant, action property and refinement a
passing run checks is also a theorem, with the assumptions named in section 4. Of the
properties the code violates, `CountIsAccepted`, `NothingTwice` and `ForwardOnly` are
theorems under the restriction named there; of `StatusForward` the theorem `FallsCorrect`
says what alone breaks it, and of `ConfirmedMovesIn` `MoveInNeverHappens` why.

What could come next, in order:

1. Notifications: the insert and the mail behind a payment, and the feed, whose
   offset paging runs over an order that reading changes (unread first).
2. `Listings` beside `TokenPayments`, once a move-in can succeed: a status written by a
   verification on an occupied property.
3. The embedding worker of two processes, whose passes over one user may store the
   older text last.
