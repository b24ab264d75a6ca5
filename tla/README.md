# Verification of the YUK BOR backend

TLA+ models of the Go services in `src/`, checked with TLC on small instances
and proved with TLAPS for every instance. This file is the inventory of the
system, the plan of the models, and what the checks and proofs show.

## 1. The system

Six HTTP services over one Postgres, one schema each, talking REST with a shared
token. Handlers run concurrently; there are almost no transactions, so **the
atomic step is one SQL statement** and everything between two statements is
open to other requests, to a cancelled context and to a stop of the process.

| Component | State | Operations that change it | Talks to |
|---|---|---|---|
| **orders** (`internal/orders`) | `orders.orders`, `orders.order_legs` (status, executor, price per leg), `orders.tariffs` | create, accept, status, cancel, confirm-completion, estimate (reads) | wallet (escrow, refund, release: synchronous, 5 s), auth (licence: synchronous), notifications (fire and forget) |
| **wallet** (`internal/wallet`) | `wallet.transactions` (one row per order and payee), `wallet.settings`; the payment provider outside | create, release, refund | provider |
| **auth** (`internal/auth`) | users, OTP codes, MyID tokens, refresh tokens | otp request/verify, MyID verify, register, login, refresh, logout, verification, rating | simulated MyID and licence registry |
| **notifications** (`internal/notifications`) | notification rows; in-memory hub of WebSocket channels | emit event, mark read, subscribe, publish | clients |
| **reviews** (`internal/reviews`) | review rows, one per (order, reviewer, reviewee) | create, push aggregate rating | orders (is it completed?), auth (rating), notifications |
| gateway, dashboard, `pkg/*`, scripts, migrations | none of their own, or set up once | | |

Hard behaviours, by component (`PROJECT.json`, "hazards", gives each its line):

- **orders**: every handler loads the order, judges its guards on that
  snapshot and writes later without re-checking. Accept is a small saga (claim,
  open escrow, roll back) whose compensation uses the request's own context.
  Cancel and confirm combine a write here with money moves there, and only log
  the failures of the latter.
- **wallet**: look up, charge, insert are three steps with the card charged in
  the middle; callers time out and retry. Create and release are open to every
  signed-in user as well, and look neither at the order nor at who asks.
- **pricing**: integer division, a remainder to place, degenerate weights, int64.
- **auth**: check-then-act on OTP counts, on registration and on refresh tokens.
- **notifications**: unordered, droppable events and a non-blocking fan-out.
- **reviews**: read-aggregate-then-push races.

What makes each correct: a leg has one executor and money behind it; money moves
only for delivered or cancelled orders, once; a leg goes forward only; the parts
of a price add up to it; a code or token is used once; nobody misses what they
cannot learn again; a rating ends up the aggregate of its reviews.

## 2. The modules

| Module | Models | Notes |
|---|---|---|
| `LegStatus` | `legs.go`, `cancellable` | pure operators |
| `Wallet` | `internal/wallet`, the provider, the HTTP connection of `pkg/svc` | one record of `call` per request in flight |
| `Ledger` | what the wallet promises of a pair's money: charged, opened once, closed once | abstract specification, implemented by `Wallet` and by `Escrow` |
| `Contract` | what orders and wallet promise together: a leg is taken by one executor, money moves at a leg's price and for a reason; EXTENDS `Ledger` | abstract specification, implemented by `Escrow` |
| `Escrow` | `internal/orders/handler.go`, `store.go`; EXTENDS `Wallet`, `LegStatus` | composition of the orders service with its wallet |
| `Pricing` | `pricing.go`, handlers `estimate` and `create` | sequential |
| `Accounts` | `internal/auth`: codes, passes, registration, sessions; tokens of `pkg/jwtx` | stands alone |
| `Carriers` | the two licence gates: registration, `licenceGate`; EXTENDS `Accounts` | composition of auth with the claim of a leg; of the orders service only that |
| `Ratings` | `internal/reviews` with the rating in `auth.users`; EXTENDS `LegStatus` | orders only as the legs that are completed |
| `Feed` | `internal/notifications` (hub, emit, connections, rows) and `svc.Client.Fire` | fed by any service |
| `News` | which events the requests on an order fire, about what and for whom; EXTENDS `Feed`, `LegStatus` | composition of the orders service with notifications |
| `MCMoney` | instance of `Wallet` and of `Pricing` | two scenes |
| `MCEscrow` | instances of `Escrow` | also states `EscrowCoversLegs`, about a sum over a set of legs |
| `MCPeople` | instance of `Accounts`, `Carriers`, `Ratings` and `News` | seven scenes |
| `MCFeed` | instance of `Feed` | |
| `WalletProofs`, `EscrowProofs`, `PricingProofs`, `AccountsProofs`, `CarriersProofs`, `RatingsProofs`, `FeedProofs`, `NewsProofs` | theorems about the module of that name | `EscrowProofs` rests on `WalletProofs`, `CarriersProofs` on `AccountsProofs`, `NewsProofs` on `FeedProofs` |

### How state and actions correspond to the code

**Wallet.** `tx[<<order, payee>>]` is the row with that unique key, "absent"
before the insert; `charges` counts what the provider did (it is not in the
database: it is what the database must agree with); `pct` is the setting, any
integer, since neither `wallet.settings` nor `CommissionPct` limits it: with a
negative one the table's CHECK refuses the insert after the charge. A
request is a record in `call` whose `pc` is the next statement of its handler:
`Lookup`, `Charge`, `CommissionPct`, `Create` are the statements of
`Handler.create`; `Release` and `RefundOrder` are single updates. `Fail` is any
statement returning an error, executed or not, or the process stopping: the
answer is 500 and nothing is undone. The caller's end of the connection is
`Arrive`, `Receive` and `Hangup`; a handler whose caller hung up goes on, or
fails on its cancelled context.

**Escrow.** `leg[<<order, leg>>]` is `order_legs`. `req[slot]` is one request:
its `pc`, and the part of its snapshot it still uses (the payees of confirm).
Each `...Load` action is `load` plus all guards of the handler, evaluated on
what it read; each later action is one write of `Store` or one call of the
wallet. Thus `AcceptLoad`, `ClaimLeg`, then `AcceptPaid` or `AcceptUnpaid` and
`ReleaseLegClaim`; `StatusLoad`, `UpdateLegStatus`; `CancelLoad`, `Cancel`,
`CancelEnd`; `ConfirmLoad`, `CompleteAllLegs`, `PayNext`, `PayEnd`,
`ConfirmEnd`. `ClaimLegError`, `ReleaseLegClaimError`, `WriteError` are the
error paths, `Crash` a stop of the orders process. The four history variables
(`orphaned`, `delivered`, `cancelled`, `byUser`) are written and never read by
actions.

The wallet's requests are of two kinds. `OrderCalls` are named after the slot that
sent them. `UserCalls` are sent by users on the two public endpoints
(`AuthedOrInternal`, `internal/wallet/handler.go:78-81`): `UserCall` opens or releases
the escrow of any pair at any amount, at any time. `WalletServes` is the wallet at work on
either kind, and notes in `byUser` what a user's request has done to the money of a
pair. A property about money says what the orders service answers for and exempts
exactly what is on record there; a row is exempt only if that very move was a
user's.

The constants `Faults` and `Overlap` say under which assumptions a run is made:
`Faults` chooses among cancelled contexts and timeouts, failing statements,
stops, and an unreachable auth service; `Overlap = FALSE` lets requests on one
order run only one after another (calls they gave up on may still be alive).
So for each documented promise the runs show the weakest assumptions under which
it holds, and a run with a stronger adversary under which it does not.

**Ledger.** `escrow` is the table `wallet.transactions` and `charged` the pairs
the provider has charged; requests, statements and failures are gone. `KeepsLedger`
in `Wallet` maps `escrow` to `tx` and `charged` to the pairs with a charge.
`ChargePayer` may repeat: how often is what `bug_charged_twice` is about.

**Contract.** The orders of a client as the tables show them, with neither requests
nor failures. `board` gives each leg a phase, an executor and a price: a leg is open
when its row has no executor; claimed while the accept that took it is at work
(`Holds`); cut off when that accept ended half way (`orphaned`); settled otherwise.
`own` is what users did to the money past the orders, `byUser` in `Escrow`.
Cancellation and completion do not touch a claim, so a called off or delivered leg
keeps its phase, as its row keeps its executor. `asked` are the create requests the
wallet has in hand, which may lapse at any time; `done` and `off` are the histories
`delivered` and `cancelled`. In `Escrow`, `Phase`, `Posting`, `Board` and `Asked` are
this mapping. `ClaimLeg` is a `Take`, and `TakeUnheard` when its statement took effect
but its answer was lost; `AcceptPaid` is `Settle`, the rollback `GiveUp`, a rollback
that fails or a stop of the process `CutOff`; every write of a delivered status is a
`Deliver`. Only `ChargeClaim`, `OpenAsked`, `PayDone` and `ReturnOff` move the contract's
money, each with its reason; `OwnMoney` is a user's request that charged, opened or
released a pair, which keeps the rules of `Ledger` and gives nothing back.

**Accounts.** `otp`, `pass`, `users` and `tokens` are the tables of the schema
`auth`; a row of `users` is named by its phone, which is unique and never
changes. `job[slot]` is a request: `pc` is its next statement and the rest what
it read. `RequestCode` is the count of `Store.CreateOTP` and `InsertCode` its
insert; `VerifyOTP` reads and judges, `CountAttempt` or `MarkVerified` write.
Registration is `ConsumeMyIDToken`, `CheckApplicant` (the phone of the pass, then
the licence registry), `LookupApplicant`, then `InsertUser` or `UpdateUser`;
`Login`, `RotateRefreshToken` and `AdminLogin` lead to `SaveRefreshToken`. A
submitted code is right or wrong: the hash, the master code and the test numbers
of `OTPPolicy` all come to that. A pass says whether its person is fit for a
role with a licence check, which the registry decides from the identity alone.
A code ages through the four intervals that its limits separate, in order and
at any speed. A refresh token is the triple it is signed over: two of the same
second are one. `made` and `spent` are histories that no action reads.

**Carriers.** `licence` is the column `license_categories`, written with the row of
the user (`Register` is `InsertUser` or `UpdateUser` of `Accounts` with it);
`Overrule` is `SetVerification`. `bid[b]` is an accept between `licenceGate` (`Bid`)
and `ClaimLeg` (`Claim`, or `BidFail`), `carrier` the executor column of each
transport leg. A load of a tractor-trailer is let through when auth says CE, or
when it does not answer; any other load is let through unasked. `held`,
`overruled` and `unjudged` are histories: which categories a row has carried,
whose status is the back office's, and which carriers no gate has judged.

**Ratings.** `stored` is `reviews.reviews`, `rated` the columns `rating` and
`ratings_count` of each user, `done` what the orders service says of an order.
`clerk[k]` is a review request: `ReviewLoad` is the validation and
`completed`, `ReviewInsert` the insert with its UNIQUE key, `Propagate` the read
of the aggregate and the start of the post; `post[k]` is that post on its way,
which `SetRating` stores or `PostLost` loses, and `ReviewEnd` is the end of the
request, with or without an answer to it. Averages are in hundredths, rounded as
`ROUND(AVG(rating), 2)` rounds. `finished`, `was` and `troubled` are histories.
A request's last post must be over before the model serves another request in
its place; more requests stand for more overlap.

**Feed.** `subs` and `chan` are the hub, `conn` the life of each WebSocket
connection, `row` counts the notifications stored per event and user and `read`
those marked. `event[e]` is an event from `Fire` to the end of its handler. The
hub's lock is in the guards: `Emit` and `Push` begin a publication under the
read lock, `Send` is one non-blocking send, `PublishEnd` gives the lock back;
`Subscribe` and `Unsubscribe` need that nobody publishes. A connection that comes
asks for the write lock (`Join`), one that leaves its loop (`Leave`) does too
(`AskLock`). From then on no reader begins and no other writer asks (`NoWriter`): a waiting
writer of Go's `RWMutex` keeps new readers out, and its inner mutex other writers.
Then the channel is listed, or it is taken off the list and closed. A restart forgets the hub and the handlers.
A channel holds each event as what the handler made it of, its state or its
notification.

**News.** `legs` is the order, `edition` counts its writes. `desk[d]` is a
request as its events show it: what it wrote (`mine`), what it read back
(`seen`), the participants of its snapshot. `To` is `emitTo`, `NewsFor` the
audience of each handler; `dedupe` and `payees` keep the first place of each id
(`Firsts`, `Kept`), which is what their loops over a `seen` map do. Each request is
served once; wallet calls are reduced to their outcome, since what the wallet does
is in `Escrow`.

**Pricing.** `form` is the request body, `tariffs` the table, `quote` and
`order` the last answers of the two handlers. Integers wrap at `IntBound`. The
split multiplies a leg's weight by the total before it divides, so a product can
overflow when neither factor does: `PartsAddUp` says what is true regardless (the
parts add up in the machine's arithmetic, since the largest leg takes whatever
the others leave) and when it is true of the numbers too.

## 3. The runs

| Run | Question | Bounds | Result |
|---|---|---|---|
| `money` | Can any callers make the wallet lose track of money? Is a price split exactly, fairly and as shown? | wallet: 1 pair, 3 requests, 3 charges, 3 amounts (refused, ordinary, declined), 3 percentages (an ordinary one, one above 100, a negative one); pricing: every combination of 5 weights, 3 durations, 4 amounts of work, 5 types, 3 tables, 4 client prices | holds, 617 000 states |
| `escrow_overlap` | Who has a leg, and when does money move, when anything overlaps? Is it the contract? | 1 order of 2 legs, 2 executors (one unlicensed for transport), 2 slots, both legs at the same price, timeouts and cancelled contexts with the failing statements they cause, 1 wallet request of a user at a time, 1 charge per pair | holds, 344 000 states |
| `escrow_serial` | What is the life of a leg if requests do not overlap? | 1 order of 1 or 2 legs, all faults, 1 charge per pair | holds, 235 000 states |
| `escrow_calm` | Are the documented promises kept when nothing fails or overlaps? | same shapes, no fault, a commission that the back office changes | holds, 2 900 states |
| `escrow_live` | Does every accept settle? | 1 leg, 1 executor, 2 slots, all faults, fair handlers | holds, 45 000 states |
| `people` | Is a pass, a code or a token ever good for more than it should be? Is a rating true? Who is told of what? Who may carry a load? | accounts: 2 phones, 2 codes, 2 passes, 2 requests, limit 1, 2 attempts, 2 seconds; carriers: 1 phone registering, 1 load at a time of either kind, 1 accept; ratings: 1 order of 2 legs, 3 users, 3 ratings (one refused), 2 requests; news: 1 order in 5 shapes, 2 executors of whom one is its client, 2 requests, 8 events | holds, 461 000 states |
| `feed` | Does the hub stay alive, safe and behind the feed? | 2 events (for everybody, or without notification), 2 connections of one user, a user without any, channels of 1 | holds, 120 000 states |
| `bug_...` (5) | A sentence of a document or comment against the code | as above | each violated, see below |

Bounds. A charge is counted up to `MaxCharges`, enough for a first charge and its
repetitions. In `escrow_overlap` and `escrow_serial`, whose questions are who has a
leg and when its money moves, it is 1: a repeated charge of a pair is left to
`money` and `bug_charged_twice`. Two slots suffice for every
race in the handlers, which are between two requests; three wallet requests allow a retry to meet two earlier attempts.
One order is enough because no statement touches two. Two legs exercise
everything that iterates over legs; the third only adds a copy. In
`escrow_overlap` the fault kinds are reduced to keep the run short; the others
are in `escrow_serial` and `escrow_live`, and the proofs of its properties are
for all of them. Its behaviours (`MCOverlapSpec`) are of two sorts: either no user sends
the wallet anything and requests overlap and are abandoned freely, or a user does
and the orders service serves one request at a time, to one executor, whose
answers it waits for (`Apart`). And only one executor's accepts are ever abandoned or cut
off, on either leg and repeatedly; the other, who has no licence for the
transport leg, waits for every answer (`Patient`). The proofs are about `Spec`, without these
bounds. The other runs of `Escrow` have no `UserCalls`. Executors and slots are symmetric
where nothing distinguishes them; the liveness run uses no symmetry.

`money` and `people` play scenes: their components share no variable, so that a
behaviour exploring one of them with the others at rest shows as much as one
that mixes them. The whole of `Accounts` is too wide to enumerate and has three
scenes of its own: confirming phones, registering on phones that are confirmed,
signing in as a user who is registered. Each starts in a state that `Spec`
reaches and takes a part of its actions, among which all that write the tables
its properties are about; the scenes share no race, and the proofs are about the
whole `Spec`. Two requests suffice for each race again; two phones, codes and
passes let one request meet another's; a limit of 1 is reached and then
overrun by two overlapping requests; two seconds give tokens that coincide and
tokens that do not.

In the two scenes of `Carriers` a phone with a confirmed code registers with the
pass of a person who holds CE and with that of one who holds C or neither, in
any role and repeatedly; the back office approves and rejects and may accept for
others. Loads share nothing and an accept depends on its own load alone, so one
load and one accept at a time suffice: racing claims are the business of `Escrow`.

In the ratings scene two requests review one user, from two reviewers or twice
from one, with the ratings 2 and 5, whose averages differ, and with one that is
refused; the order is completed by its parts, taken back and completed again.
In the news scene the order starts new, partly or wholly accepted by one
executor, on its way with the client as executor, or delivered by both; the
requests move legs to the two statuses that differ in what they allow later.
Nobody is connected, so handlers of events share nothing: the requests end
first, and then events are handled one at a time. What connections do to
handlers is the run `feed`: two events of one user's two connections over
channels of capacity 1 make channels overflow, publications overlap, and
connections come and go during either. Marking a row read is in `people`; it
touches nothing else.

Fairness. `FairSpec` has weak fairness of the handler of each slot only: a
handler's waits are bounded by the 5 s of `svc.Client` or end with the request's
context, and a statement returns or fails. Nothing is assumed of the wallet, of
clients or of the back office. `FeedFairness`, in the run `feed`, is weak fairness of
a handler in hand (not of the arrival of a request) and of a connection that is closing: a
send never waits, an insert returns or fails, and Go's lock is given to those
who wait for it. Nothing is assumed of clients, who may never read. If the
orders process stops, its claims are in
`orphaned`, which `ClaimSettles` exempts and which `bug_claim_without_money`
and `EscrowBehindClaim` account for.

### What the violated runs show

1. `bug_claim_without_money`: a client that leaves while the escrow is being
   opened cancels both the escrow request and the rollback; the leg stays
   assigned with no money (README: "a leg never sits assigned...").
2. `bug_backwards`: two status requests allowed on the same snapshot are written
   in the other order; a delivered leg goes back to in transit.
3. `bug_cancel_keeps_money`: cancel refunds before a concurrent accept's row is
   inserted; the row stays held.
4. `bug_charged_twice`: an accept is retried while, or after, the first
   attempt died between charge and insert; the card is charged twice.
5. `bug_two_legs_one_paid`: one executor with two legs gets one row.

Two more of the properties hold only under the assumptions of their run, and
changing its configuration shows why. `LegLifecycle` fails once `Overlap` is
TRUE, because a cancellation judged on an old snapshot cancels a leg that work
has started on. `EscrowIsLegPrice` fails once `Faults` has `"context"`: an accept
that timed out leaves its row, and with the next executor's row more is held
than the order costs. Overlap alone does it no harm, as its theorem says.

What is limited to "no overlap" or "no fault" is limited to **no direct wallet caller**
as well: in `escrow_serial`, `escrow_calm` and `escrow_live` only the orders service calls the
wallet. `EscrowIsLegPrice`, `CancelRefunds` and `ConfirmPays` need that: with `UserCalls = {u1}` in
`escrow_calm` each is violated, since a user may open a row of any amount, for an
executor who has no leg or after a cancellation. `ClaimHasMoney` holds there as well
(550 000 states, with one charge per pair), but its proof makes the assumption.
`CancelledOrPaid` and `LegLifecycle` do without: their theorems admit users' own wallet
requests, the former with the exemption on record in `byUser`.

Observations that have no run of their own:

- `docs/API_CONTRACT.md:291-292` has money go to the executor only after
  `confirm-completion`, and lines 313-328 list both escrow endpoints for any
  signed-in user. `Handler.create` and `Handler.release` look at neither the caller
  nor the order, so a release by a user pays before delivery: without its
  exemption for `byUser`, `PaidOnlyAfterDelivery` fails in `escrow_overlap`. With it the
  property says what the orders service answers for, also among such requests.
- Nothing checks the commission percentage. Above 100 it makes
  `payoutAmount = amount - platformCommission` negative; below 0 the insert is refused
  by `CHECK (platform_commission >= 0)` once the card has been charged.
  `CommissionIsShare` says what is true of every setting.
- `Store.CreateUser` says "An approved account still returns ErrPhoneTaken". A
  registration that looked the phone up while its row was rejected overwrites
  it after somebody has approved it: `TakenPhoneKept` needs its condition that
  no such registration is on its way.
- A refresh in the very second of the sign-in signs the same claims, so its
  answer is the token it has just revoked, and `ON CONFLICT DO NOTHING` leaves
  it so: the client has to sign in again. `TokenSpentOnce` is safe only because
  the conflict does nothing (its mutant revives the row).
- "The actor should not be told about their own action" (`emitTo`). A client who
  cancels an order nobody has accepted has no counterparties, the empty
  `notifyUserIds` is read as "everybody", and the client is notified
  (`internal/orders/handler.go:461`). `ActorToldOnlyAlone` is what holds.
- `docs/BACKEND_NOTES.md:49-51` has every participant updated. After an accept or
  a change of status only the client and the actor get `order.updated`; the
  executors of the other legs do not, and a claim that is rolled back is told to
  nobody. `ChangesAreTold` is therefore about the client.
- "Every event is also persisted as a notification row" (`hub.go:12`). Events
  without a notify part have no row: `order.created`, the `transaction.updated`
  of an accept, the `order.updated` of a confirmation. A client that misses
  those has to fetch the order. `NoticeIsStored` is about notifications.
- A review's own event carries the review under the name of a notification, and
  when the aggregate cannot be read nobody is notified at all. That reviewer and
  reviewee took part in the order is not checked. An older aggregate that
  overtakes a newer one stays until the next review (`RatingCatchesUp` says when
  it does not).
- `licenceGate` lets a load that needs category C through because "registration
  already proved C". It has for drivers whom registration approved; clients and
  labour providers, who have no licence check, and rejected applicants, who can
  sign in, accept such loads too. `CarriersLicensed` therefore leaves out carriers
  whom no gate has judged; without that condition it fails, as it does when it
  asks for the licence of now: a rejected driver who registers again as a client
  loses the categories and keeps the load.

### What the passing properties say

- **Claims**: `ClaimExclusive`, `KeepsContract`, `EscrowBehindClaim`,
  `ClaimHasMoney`, `ClaimSettles`, `CarriersLicensed`.
- **Money**: `RowsAreCharged`, `CommissionIsShare`, `RowsSettleOnce`,
  `RetriesNeverCharge`, `KeepsLedger`, `KeepsContract`, `PaidOnlyAfterDelivery`, `RefundOnlyAfterCancel`,
  `CancelledOrPaid`, `CancelRefunds`, `ConfirmPays`, `EscrowIsLegPrice`.
- **Legs**: `LegLifecycle`.
- **Accounts**: `PassMadeOnce`, `IdentityOfPhone`, `TokenSpentOnce`,
  `FullWindowHolds`, `DeadCodesStay`, `TakenPhoneKept`. The limits on codes are
  stated as the code keeps them under overlap: once full, a window takes in only
  codes of requests already counted; an expired or used-up code dies except for
  answers already judged.
- **Ratings**: `ReviewedWorkWasDone`, `RatingWasTrue`, `RatingCatchesUp`.
- **News**: `ChangesAreTold`, `ToldOnce`, `ActorToldOnlyAlone`; of the hub
  `NeverSendOnClosed`, `NoticeIsStored`, `HubSettles`.
- **Prices**: `PartsAddUp`, `SplitIsFair`, `NobodyUnpaid`, `QuoteIsPaid`.

Each is broken by at least one plausible change of the code, kept in the modules
as an operator marked "Mutant".

## 4. The proofs

`tlapm` checks the eight proof modules to the last leaf, for every set of orders,
executors, slots, shapes and requests, every amount, every percentage and every
choice of `Faults` and `Overlap`, for every set of phones, codes and passes and
every limit, of users, reviews and review requests, of events, connections and
capacities, of tariffs, orders and prices. They rest on nothing but
`WalletAssumption`, `EscrowAssumption`, `PricingAssumption`, `AccountsAssumption`,
`RatingsAssumption`, `FeedAssumption` and `NewsAssumption`, the
assumptions on the constants, which TLC evaluates in the runs. Six theorems of
`EscrowProofs` have a hypothesis besides: two on `Overlap`, four on `Faults` and
`UserCalls`, three of these on `Overlap` too. With requests that overlap, or with a
cancelled context, in the configuration of `escrow_calm` TLC finds a counterexample to
the property, except where the theorem does not make that hypothesis; for
`UserCalls` see section 3.

**`WalletProofs`** proves the six properties of `Wallet` in the run `money`, under any
callers. The invariant is `WalletOK` (types, and every request that names a
pair names one that exists: `WalletTypeOK` alone says nothing of a request's
payee) with `MoneyInv`: how far a create request has got tells what has been
charged for it and that its fee is the share of its amount at some percentage that
was set, which, with the CHECK of the insert, is what makes `RowsAreCharged` and
`CommissionIsShare` survive the insert. Nothing is assumed of the percentages but that
they are integers. The action
properties need no more than `WalletOK`; for `RetriesNeverCharge` the argument
is that a request comes to be past its lookup only by a lookup that found no
row. `WalletKeepsLedger` is the refinement: by `MoneyInv` an insert is an `Open`
of a charged pair, each update a `PayOut` or `GiveBack`, and every other step
stutters.

**`EscrowProofs`** is about the composition, with requests overlapping freely,
every fault allowed and any number of users calling the wallet themselves.

- `TypeCorrect` from the invariant `EscrowOK`: types, what a request holds at
  each statement (`ReqShape`), and that a request about a leg is about one that
  exists, so that no write of `Store` creates a row.
- `OrdersUseWallet`: `Spec => WalletSpec`. Every step of the system is a step of
  the wallet with some caller, a user's own request among them, or leaves it alone
  (`WalletSteps`). So all
  theorems of `WalletProofs` hold of the system; `EscrowIsCharged` and
  `OrdersKeepLedger` are two of them carried over.
- `ClaimsAlwaysExclusive` and `ClaimsNeverStolen`: a claim succeeds only on a
  leg without executor, which nobody who holds a claim could have left so;
  hence the rollback, which names the leg only, finds its own claim. No run checks
  `ClaimNeverStolen` by itself: `KeepsContract` implies it.
- `MoneyBehindClaims`: `EscrowBehindClaim` becomes inductive with three facts:
  claims are exclusive; an accept that waits is connected to a request for its
  own order and executor (`CallLinks`); and the answer "ok" to such a request
  means that the row is there (`OkMeansRow`).
- `PaidOnlyDelivered`: what confirm read stays true however old the snapshot
  gets, since legs are not added to an order and a delivery is not undone in
  `delivered`. `DeliveryInv` follows that knowledge from the rows through the
  requests and the wallet's calls to the rows paid. Only a release by a user can
  come without it, and that one is noted in `byUser`.
- `RefundOnlyCancelled`: likewise from `cancelled` through the refund requests. It needs
  no such exemption, as users cannot ask for a refund.
- `OrdersKeepContract`: `Spec => KeepsContract`, the refinement of `Contract`. One lemma
  for each kind of step gives the action of the contract it is (`TakeStep`,
  `EndStep`, `MoneyStep`, `OwnStep` for the wallet at work on a user's request, `CrashStep`,
  `PostStep`; `QuietStep` for the steps that no table shows), and `ContractStep` puts them together. The invariant,
  `ContractInv`, joins those above with `OrphansKept`: a leg that was cut off has an
  executor and no accept at work on it. Without it a later accept could hold a leg in
  `orphaned`, and its phase would not tell what has become of it. The others
  are each needed where the contract gives a reason: claims and the money behind
  them for `Settle`, `DeliveryInv` for `PayDone`, `RefundInv` for `ReturnOff`, and
  `MoneyInv` because a row is of an amount that is still asked for. `UsersAsk`, that no
  user's request is a refund, makes every money step of a user an `OwnMoney`.
- `MoneyAtLegPrice` and `SettledIsForGood` are what the contract shows of the system.
  For the first, what is asked for is the price of a leg of the order
  (`AskedAgreed`), prices never change, and a row is opened for what is asked, or
  by a user, which `own` records. It
  holds under every fault, where `EscrowIsLegPrice` does not: a row left by an accept that
  timed out is of a leg's price, but its executor need not have the leg. The
  second adds to `EscrowBehindClaim`, an invariant, that a settled leg never
  changes hands and that its row never disappears.

With `Overlap = FALSE`, whatever fails:

- `NeverCancelledAndPaid` and `LegsLiveOnce`, from `SerialInv`. Its core is
  `OneAtATime`: at most one request is at work on an order, so that what a handler
  judged on its snapshot is still true when it writes (`Judged`, one clause for each
  statement a request can be about to make). The wallet is what makes it hard: a
  request that was given up leaves its call running, and a stop leaves no
  request at all. Hence `CancelledStay` (no leg of a cancelled order is left
  uncancelled), `CallsCompleted` and `RowsCompleted` (a payment asked for or made
  is for a completed order), which no longer depend on the request that began
  them.

With `Overlap = FALSE`, `Faults = {}` and `UserCalls = {}`:

- `ClaimsHaveMoney`, `CancelGivesBack` and `ConfirmPaysAll`, from `AllInv`: `SerialInv`,
  the invariants of claims and of refunds above, and `CalmInv`. That says that
  every call of the wallet has its caller waiting (`Connected`); that money still
  held for a cancelled order has its refund on the way (`RefundUnderway`); that
  held money belongs to an executor of the order (`HeldIsClaimed`); that while an
  accept has no money for its leg, what is held for its executor belongs to
  another leg (`UnpaidClaims`), so the rollback strands nothing; and that whoever
  money of a confirmed order is held for is still among the payees the
  confirmation has left (`Listed`).
  `ConfirmPaysAll` is the end of that list.

With `Faults = {}` and `UserCalls = {}`, however requests overlap:

- `EscrowByLeg`, from `PriceInv`: an accept asks for the price of the leg it has
  claimed (`AskedPrice`), and the leg whose claim opened a row keeps the row's
  executor and price, since the only statement that takes an executor away is the
  rollback of an accept that got no money (`RowsCovered`). That needs claims to be
  exclusive and callers to wait, both of which hold under overlap. As a leg has
  one executor and one row each, the rows of an order never exceed its price;
  the theorem is stated by leg, so that it needs no sum over a set.

**`PricingProofs`** proves the four properties of `Pricing` in the run `money`.
`PricingInv` says only that an answer is what `SplitTotal` makes of the table and the
total it was asked with; the rest is arithmetic about `SplitTotal`, for every width
of the integers above 25.

- `PartsAlwaysAddUp`: wrapping is addition modulo `2 * IntBound`, so the largest
  leg's correction cancels whatever the other shares came to (`WrapAdd` and its
  companions). In an even split, and when no product overflows, the sum is
  in range and equals its wrap.
- `SplitAlwaysFair`: each share is a quotient rounded down; one to three remainders
  of less than one sum each go to the largest leg.
- `NobodyEverUnpaid`, `QuoteAlwaysPaid`.

`PricingAssumption` says that tariffs and the client's price fit an int64, because
the columns are cast to `bigint` and the body is parsed into one, that a ton has
a unit, and that the defaults compiled into the service fit (`25 < IntBound`, in
the model's scale).

**`AccountsProofs`** proves the types and the six properties of `Accounts` in the run
`people` of the whole `Spec`.

- `PassesMakeOne` from `PassInv`: a consumed pass is held by at most one request,
  and then no row has been written with it. `HoldsKept` is the key: a request
  comes to hold a pass by nothing but consuming it, and consuming is one
  statement that succeeds on a live pass only.
- `IdentitiesMatch` from `IdentityInv`: past its check a registration's phone is
  that of its pass, and it stays so because a consumed pass and a confirmed code
  no longer change (`StepsKeep`).
- `TokensSpentOnce` from `TokenInv`: a token that has been exchanged is revoked,
  and no statement revives it.
- `FullWindowsHold`, `DeadCodesStayDead`, `TakenPhonesKept`: action properties
  from `Arrivals` (a request is about to insert, confirm or overwrite by one
  statement only, each with a guard that the property's condition refutes) and
  `CodeMoves` (codes grow older and lose attempts, never the reverse).

**`CarriersProofs`** proves `CarriersAreLicensed`. Every step is one of auth or leaves
auth alone (`CarriersSteps`), so the invariants of `AccountsProofs` hold.
`VettedInv` says that an applicant who is about to be written as an approved
driver is fit, and stays so because a consumed pass does not change (`StepsKeep`).
From it `LicenceInv`: an approved driver whom the back office has not touched has
C, and an accept that a gate has judged is by somebody who has held the category.

**`RatingsProofs`** proves the properties of `Ratings`.

- `ReviewsAfterWork` from `DoneInv`: a review that is about to be inserted is of
  an order in `finished`, since `completed` means all its legs, and `finished`
  never shrinks.
- `RatingsWereTrue` from `TrueInv`: what is in a post is an aggregate that its
  user's reviews have had, and so is what auth has stored.
- `RatingsCatchUp` from `QuietInv`: if a user is not troubled, at most one
  request or post is about them, and its aggregate is, or will be read as, that
  of all their reviews; if none is, auth holds it.

**`FeedProofs`** proves the safety properties of `Feed`.

- `SendsAreSafe` from `HubInv`: the hub lists exactly the connections that are
  not over, each under its user, and whoever publishes holds channels of the
  list. The lock does the rest: a connection is taken off only while nobody
  publishes.
- `NoticesAreStored` from `HandlerInv`: a handler that publishes a notification
  has stored its row, and sends to that user's connections only.

**`NewsProofs`** is about orders and notifications together. Its first part is
lemmas about the audiences for every sequence: what `Nth` and `Kept` return,
that `dedupe` names each user once and loses nobody, that `payees` and
`counterparties` name users. The invariant is `NewsInv`: the types and `FeedOK` of
`FeedProofs` with five facts.

- `Stored`: how far the handler of an event has got determines for whom it can
  have stored a row; whoever it still has to serve is in its list, once, and has
  none. With `dedupe` this is `AlwaysToldOnce`.
- `DesksOK`: what a request knows at each statement: after its write `mine` is an
  edition of the order, what it read back is at least that, and it has not
  fired more events than there are executors to pay and an end to tell.
- `EventsOK`: the events of a request are those it has counted, so the next one is
  new and `Fire` finds it unused; and if one may notify the actor, the request
  is of the kind that `ActorToldOnlyAlone` allows (`ActorsToldAlone`).
- `ToldInv` and `TxInv`: what is told goes to the client too, and an accept tells of
  its transaction only after it has told of the order. With them
  `ChangesAreTold` is inductive (`ChangesAlwaysTold`).

`NewsUsesFeed` is the composition: `NewsSpec => FeedSpec`, so that `SendsAreSafe` and
`NoticesAreStored` hold of the events of the orders service.

Only model-checked: `ClaimSettles` and `HubSettles` (liveness, out of the
prover's reach, like ENABLED), and `PeopleTypeOK`, which joins the type invariants
of the scenes of `MCPeople`; each of those has its theorem (`AccountsTypeCorrect`,
`CarriersTypeCorrect`, `RatingsTypeCorrect`, `NewsTypeCorrect`).

## 5. Not modelled

- The names of a user (`updateMe`), on which nothing decides; what the simulated
  registries derive from a personal number beyond passing and fitness.
- Reads that change nothing (lists, backhaul, statistics, admin pages), event
  contents, titles, wording, names and addresses.
- `order.created`, which goes to the client alone and is not stored, and the
  event of a review: to `Feed` it is one of those that anybody fires.
- gateway, dashboard, scripts, migrations, configuration: no state of their own
  while the system runs.
- `cancelled_at` of an order is written by `Store.Cancel` and read by nothing.
- Amounts in `Wallet` are unbounded; the overflow of `amount * pct` lies beyond
  what the `NUMERIC(14,0)` price column of an order can hold.
- What a user's own wallet request does to fields the model abstracts (payer, title,
  payment method), and refunds by anybody but the orders service, which the route
  rules out.

## 6. Plan

1. *(done)* `LegStatus`, `Wallet`, `Ledger`, `Escrow`, `Pricing`; proofs for
   `Wallet` and the safety core of `Escrow`.
2. *(done)* `Accounts` (auth) with its proofs: one-time codes, MyID passes and
   registration, refresh tokens.
3. *(done)* `Ratings` with its proofs; `Feed` with its proofs; `News`; `Carriers`.
4. *(done)* Proofs: with `Overlap` false, `CancelledOrPaid` and `LegLifecycle`;
   without faults, `CancelRefunds`, `ClaimHasMoney`, `ConfirmPays` and
   `EscrowIsLegPrice`; the arithmetic of `SplitTotal`; the audiences of `News`.
5. *(done)* `Contract`, an abstract order whose legs are open, taken or settled and
   whose money has a reason, implemented by `Escrow` under `INSTANCE ... WITH`.
