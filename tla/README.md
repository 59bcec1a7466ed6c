# A TLA+ model of Spaca

Spaca is a marketplace for creator work: a buyer books a creator (directly, by
hiring after a request, from a campaign pool, or by winning an auction), pays
into escrow by card, bank or on a chain, receives a delivery, accepts it or
disputes it, and the platform releases the money or gives it back. The program
is a Next.js application over PostgreSQL with one escrow contract. Commands are
HTTP requests that run one database transaction each; jobs are run by cron;
payment providers and chains answer later, by webhook or when asked. What makes
it hard is that buyer, creator, operators, cron and the provider all change the
same rows, and that the provider's answers may be missing, late, repeated or out
of order.

This directory models that program in TLA+. TLC checks it on small instances and
TLAPS proves nearly every safety property the runs check - orders, payments, the
chain, auctions, the market and the platform - for every value of the constants.

Paths below are relative to the repository root.

## 1. Inventory

### Components, their state and their operations

| Component | State | Operations | Module |
|---|---|---|---|
| Order lifecycle (`src/modules/orders/`) | `orders`: status, version, deadlines, revision count, status before dispute; deliveries; review holds; cancellation requests; amendments; disputes | brief, start, deliver, revision, approve, dispute, cancel, request/withdraw/reject/accept cancellation, propose/withdraw/reject/accept a deadline, view a delivery | `OrderLifecycle` |
| Order page (`src/components/order-workspace/`) | none | which forms each party is shown | `OrderPage` |
| Order jobs (`src/modules/jobs/index.ts`) | none of their own | auto-accept after the review window, expiry of checkout holds | `OrderLifecycle`, `Payments` |
| Card and bank rail (`src/modules/payments/`) | `provider_operations` journal, ledger, payment and settlement columns, payment disputes | fund, switch method, cancel, refund, release, apply funding / refund / release / dispute events | `Payments` |
| Late costs, refunds after release | cost facts and shares; recovery rows | share a changed cost; reverse, cover, refund | `LateCosts`, `AfterRelease` |
| Card provider (`payments/providers.ts`) | charges, transfers, operation memory | the calls the rail makes, settled later | `CardProvider` |
| Webhook inbox | `webhook_inbox` | verify, store, apply once, reprocess, fetch | `Webhooks` |
| Reconciliation jobs | the journal | look up unresolved operations, retry under the same key, fetch a status | `Payments` |
| Auctions (`src/modules/auctions/`) | `auctions`, `bids`, `auction_purchase_intents` | create, bid, Buy Now, close, cancel, invalidate a bid, scheduled start | `Auctions` |
| Creator workload (`src/modules/capacity/`, `drizzle/0012`, `0017`) | `workload_claims`, `creator_workloads` counters | claim, move, release, pause | `Auctions`, `OrderLifecycle` |
| Triggers (`drizzle/`) | none of their own | order matrix, claim guard, counters, workload release, amendment expiry, auction guard and sync, entitlements | `OrderMatrix`, and the module of each table |
| Escrow contract (`contracts/src/SpacaEscrow.sol`) | buckets, spent references and nonces, freezes, pause, signer | deposit, release, refund, allocate, freeze, reclaim, batch | `SpacaEscrow` |
| Chain payouts (`src/modules/crypto/payouts.ts`) | payout operations | queue, prepare, sign, submit, record, give up | `ChainPayouts` |
| Chain deposits (`src/modules/crypto/deposits.ts`) | intents, deposits, checkpoint | hint, scan, recheck, credit | `ChainDeposits` |
| Requests and hire offers (`src/modules/requests/`) | requests, applications, offers, budget reservations | apply, revise, offer, accept, decline, withdraw, expire | `HireRequests` |
| Campaign pools (`src/modules/pools/`) | per-asset buckets, templates, allocations | deposit, allocate, settle, retry, return, refund, close | `Pools` |
| Item auctions (`src/modules/items/`) | listing, collateral, sale, deadlines | list, bid, Buy Now, pay, deliver, confirm, dispute, default | `ItemAuctions` |
| Publishing and bonuses (`src/modules/publish/`) | post, measurement, hold | publish, measure, verify, hold, decide, settle | `Performance` |
| Digital products (`src/modules/digital/`) | product versions, entitlements, downloads | release, hold, deliver, download, refund, revoke | `Digital` |
| Catalogue and its moderation (`src/modules/catalog/`) | drafts, versions, samples, channels | edit, publish, pause, remove, book | `Listings` |
| Discovery (`src/modules/discovery/`) | none | sorted lists walked by cursor | `Discovery` |
| Command envelope (`src/app/api/commands/route.ts`) | idempotency rows | authorise, run once, replay | `CommandGate` |
| Outbox (`src/modules/notifications/`) | queue rows, leases, notifications | enqueue, claim, deliver, retry, die | `Outbox` |
| Files (`src/modules/storage/`) | asset rows, stored objects | intend, upload, finalise, attach, quarantine, clean up | `Storage` |
| Sign-in and profiles (`src/modules/x/`, Google, wallets) | identities, OAuth states, saved X profile | connect, sign in, disconnect, refresh, prove a wallet | `Identity` |
| Environment rules (`scripts/lib/env-rules.ts`) | variables of a deployment | edit, check, start | `Environment` |
| Waiting list (`waitlist/`) | sign-ups, rate-limit rows | sign up, welcome, add a handle | `Waitlist` |
| Operators (`src/modules/admin/`) | cases, audit | resolve, refund, retry, cover, invalidate, quarantine | the module of what they decide |
| Read models, templates, scripts | - | reads, wording, tooling | not modelled (section 8) |

`PROJECT.json` lists every component with its files and the reason for each one
left out or modelled only in part.

### How they interact

* Every order command locks the order row and keeps the lock to the end of its
  transaction; auction, item, request and pool commands lock theirs. Two
  commands on one row are therefore never interleaved, but any order of them is
  possible, and a job that selected its candidates before locking works from a
  stale list.
* Triggers run inside the transaction that fires them. A status change of an
  order releases or completes the creator's claim, expires proposals, moves the
  counters of the workload and of the request, and keeps the auction of a sale
  and the entitlement of a licence in step.
* The payment rail calls the provider inside the transaction. A call that times
  out may or may not have been applied. The rail writes `UNKNOWN`, and the
  reconcile job looks the operation up later.
* Provider facts come back as signed events. They pass an inbox that applies
  each event id once (`Webhooks`). A status fetched by the reconcile job passes
  through the same inbox under an event id of its own.
* Business transactions of the crypto rail only queue payouts. Workers carry
  them to the contract in several transactions with the chain in between.
* Storage, X, Google and email are called outside transactions, so everything
  else may commit between the question and the use of the answer.
* The order's money columns (`payment_status`, `settlement_status`,
  `cancellation_refund_minor`) are the interface between the commands and either
  rail. `OrderMoney` states it, and three modules implement it.

### What is hard, and what makes each part correct

* **Orders.** Long legal sequences (revision, dispute, resume, cancel, extend) and
  jobs that race commands. Correct when the row and everything that hangs on it
  agree in every reachable state, when no command is stopped by a database guard
  it should have respected, and when a closed review window is always decided.
* **Payments.** Timeouts, retries, lost and reordered events, and two operations on
  one capture. Correct when the row claims only what the provider did, the books
  agree with the row, at most one intent is open, captured money is booked and a
  checkout hold ends.
* **The chain.** A worker that dies, two workers on one row, authorisations signed
  twice, transactions mined late, blocks that disappear. Correct when a reference
  is paid at most once, what is recorded is what happened, and both queues drain.
* **Auctions and workload.** First bid, Buy Now, cancellation and close race for a row
  and time passes meanwhile; counters are kept by deltas. Correct when the sale
  goes to the highest valid bid, and counters never drift.
* **Budgets, pools, collateral, bonuses, licences.** Each holds something limited
  while several parties and timers decide its fate. Correct when what is held
  adds up in every state and ends with the party the outcome names, once.
* **Platform services.** Work done by overlapping runs that may stop anywhere.
  Correct when repetition has the effect of one execution, and nothing attached
  or promised is lost.

`PROJECT.json` lists 40 hazards at the line where each one bites, each with the
properties that would catch it.

## 2. Modules

```
          OrderMatrix                     OrderMoney
       (database guards)             (moves of the money)
              ^                        ^      ^      ^
              | refines        refines |      |      | refines
              +---- OrderLifecycle ----+   Payments  +---- ChainPayouts   ChainDeposits
                      ^    ^    ^             ^               |    ^           ^
                 OrderPage |    |             |         SpacaEscrow|           |
                      |    |    |             |                    +- MCChain -+
         MCOrderLifecycle  |    |         MCPayments
              OrderLifecycleProofs                     Auctions <- AuctionsProofs, MCChain
   PaymentsProofs: Payments            ChainProofs: SpacaEscrow  ChainPayouts  ChainDeposits

   Charges (promise of a payment provider)  <- refined by Payments and by CardProvider

   MCMarket:   HireRequests  Pools  ItemAuctions  Performance  AfterRelease  LateCosts
               Digital  Listings  Discovery
   MCCard:     CardProvider
   MCServices: MCMarket  MCCard  Outbox  Identity  Storage  Webhooks  CommandGate
               Environment  Waitlist

   HiringProofs:   HireRequests  AfterRelease  Pools
   MarketProofs:   Digital  Listings  LateCosts  ItemAuctions  Performance  Discovery
   PlatformProofs: CommandGate  Webhooks  Storage  Environment  Waitlist  Outbox  CardProvider
                   Identity
   Totals <- TotalsTheorems <- every proof about money
```

**OrderMatrix** is what the database promises of any order: the transition matrix
of `app.order_transition_guard` (`drizzle/0004`), versions that never fall, and the
claim state machine (`drizzle/0012`). In the deployed system these are triggers
that abort a transaction. They are deliberately *not* guards of `OrderLifecycle`,
which makes "the guard never fires" a fact to establish.

**OrderMoney** is the abstract specification of an order's money: which moves
of stage, payment, settlement and agreed refund exist. Three detailed modules
implement it. `OrderLifecycle` treats provider facts as arriving whenever the row
allows them and details the work; `Payments` details the card and bank provider and
`ChainPayouts` the contract, and both collapse work into one stage. What one
leaves out, the others may not contradict. `Recorded` says what none of its steps takes back.

**Charges** is the abstract specification of a payment provider: what may become of a charge
and of what is paid out of it, without operation ids, journals and events. `CardProvider`
(the ledger of `payments/providers.ts`) and `Payments` (the provider as the rail of one
order sees it) both implement it, so the provider whose lost, late and repeated answers
`Payments` lives with is one that the provider's own code is shown to be.

**OrderLifecycle** is one order. Its variables are the columns of the row and the
rows hanging on it, each commented with the column it stands for. One action per
command, operator decision and job: `SubmitBrief`, `Start`, `Deliver`, `Revision`,
`Approve`, `OpenDispute`, `Cancel`, `Refund`, the four cancellation-request actions, the deadline
proposals, `MarkDeliveryViewed`, `AutoAcceptDeliveries`, `ResolveResume`, `ResolveApprove`,
`ResolveRefund`, `RefundLateFunding`, `ResolveCase`, `QuarantineFile`, and, under
"Payment facts", what each provider fact does to the row. Shared helpers carry what
the code shares: `ToStatus` is a status update with the triggers that follow it, and
`CloseReview` is the closing of holds and requests. The review window is open or closed
instead of an instant; `ReviewWindowCloses` is the passing of time. `refundReason` is what
the request hash of a refund remembers of who asked for it first: the buyer's `Refund` repeats
that request and is refused under another reason. An order starts in
checkout, the state `book`, `accept offer` and a sale all create.

**OrderPage** adds operators over the same variables: what the panels of the order
page offer to buyer and creator. It changes nothing. The run compares it with the actions:
`OffersMatchCommands` asks whether the command is `ENABLED`. For the proof, where `ENABLED` is out
of reach, `OffersMatchGuards` says the same of `Accepts`, the conditions the handler tests, written
out per command. Both leave out four forms that the page shows although the server refuses or may
refuse them (`ShownTooLong`, section 7).

**Payments** is the card and bank rail of one order. The platform's state is the row,
the journal (`fund`, `ops`), the unwritten lookup answer (`lookup`) and the books; the
provider's is `pfund`, `pcancel`, `ptr`, `pdispute`. `sent` and `seen` are the events. A
provider call chooses among four answers (`Answers`): applied, timed out before or after
being applied, or refused as unavailable; `MaxFaults` bounds the last three. Request
hashes are kept as the request itself (`req`), so an idempotency conflict is two
requests that differ. `LookupFunding` and `ResolveFunding` are two actions because the
job's lookup answers outside the transaction that writes it back. A repeated event
finds its inbox row processed and changes nothing; it is therefore a stuttering step.
`Webhooks` details that inbox, and `CardProvider` the provider.

**Auctions** is one auction, the order of its sale, any set of orders booked
directly with the same creator, and the creator's workload. Time is `BEFORE`, `DURING`
or `AFTER` the auction; a bid whose transaction began in time may still be applied
after the end, because `now()` is the start of the transaction.

**SpacaEscrow** is the contract and the transactions under way to it. An authorisation
is the n-th one signed for its payout, which is its single-use nonce; a transaction
takes effect as a whole or reverts; expiry is the possibility that it is never mined.
**ChainPayouts** extends it with the order that queues payouts and the workers that
carry them: `Prepare`, `Sign`, `Submit`, `Receipt`, `Unconfirmed` and the batch are
separate steps because the code commits between them. **ChainDeposits** is crypto
checkout and the indexer over a chain that grows and reorganises; a block is its
number and the fork it was made on.

**HireRequests** keeps the request's counters by the deltas of its triggers, and
versions of an application apart from what the buyer saw. **Pools** keeps a bucket
per asset and one record per hire and reward; payout outcomes come later, one by one. A template
has a `CASH` item and at most one `TOKEN` item, of different assets, and says which of the two are required, as
each item is by default: a hire gets every required reward or none, the pool's target counts
`TargetHires` times each required one, and a hire is complete when all required ones are paid. Several items of
one asset, which the code adds up, are left out.
**ItemAuctions** has the two holding accounts of the sandbox escrow beside listing and
sale. **Performance** is the order with its hold and the two provider operations that
split it. **AfterRelease** is recovery, cover and refund of money already paid out;
**LateCosts** is the arithmetic of `cost-policy.ts` (caps in basis points, integer
division as in the code) with the release it races. **Digital** is product, licences and
downloads; **Listings** a service, the page a person has open, and the booking of
one exact version; **Discovery** the keyset cursors of three lists with repeating keys
and millisecond instants.

**Outbox** is the queue with leases and per-run dispatchers; **Identity** the accounts,
provider identities, OAuth attempts in three steps and the refresh of the saved profile
in three; **Storage** rows and objects with finalisers that may stop halfway;
**Webhooks** signing, inbox and reprocessing; **CommandGate** authorisation and replay of
a command; **CardProvider** charges, transfers and the memory of operation ids;
**Environment** the rules of `env:check` against the switches of the application;
**Waitlist** the sign-up route, statement by statement.

**Totals** defines the sum of amounts over a set, which every module with a balance, a
budget or a book uses; **TotalsTheorems** says how such a sum moves. Proofs are in modules
of their own that extend what they are about (section 6).

Definitions marked *mutant* are not part of any specification. Each is a plausible
bug in the definition that follows it, kept so that every property can be shown to
fail when the code is wrong in that way.

## 3. Runs

| Run | Instance | Distinct states | What it shows |
|---|---|---|---|
| `order_lifecycle` | amount 2, one revision sold, 2 disputes, 2 deadline instants | 338,040 | `OffersMatchCommands`, `SideRecordsAgree`, `MoneyFollowsOutcome`, the refinements `MatrixRespected` and `MoneyMovesRespected`, `ReviewIsDecided` (liveness) |
| `payments_checkout` | two attempts, one fault, two events under way, nothing after checkout | 192,377 | `OneOpenIntent`, `HoldEndsUnlessOverwritten`, `CaptureIsBooked` |
| `payments_settlement` | amount 2, one attempt, one fault, refunds, work, bank returns and card disputes | 1,877,014 | `OutcomeIsProviderFact`, `BooksMatchRow`, `MoneyMovesRespected` (refinement) |
| `chain` | eight scenarios: a dispute, two workers with a batch, an incident, four of deposits, and an auction with two bidders, three bids, four prices and one directly booked order | 489,365 | `PaidAtMostOnce`, `ConfirmedIsPaid`, `CreditedIsFinal`, `MoneySpec` (refinement), `PayoutsEnd`, `PendingDecided`; `CountersMatchClaims`, `SaleFollowsOrder`, `SoldToHighest`, `AuctionCloses` |
| `services` | eighteen scenarios: one per module of `MCMarket` and `MCServices`, two of `Identity` | 553,253 | `BudgetHeld`, `PoolConserved`, `EscrowSettled`, `BonusSplit`, `RefundBackedOnce`, `LicenceHonoured`, `SoldAsSeen`, `EachRowOnce`, `CostSharesKept`; `SentIsDelivered`, `OneWayIn`, `AttachedKept`, `AppliedOnce`, `OnceExecuted`, `ChargeConserved`, `DeployedAsChecked`, `WelcomedOnce` |
| `refund_retries`, `frozen`, `principal`, `returned` | small instances of `Payments` | - | four statements of the repository the code contradicts (section 5) |
| `unfrozen`, `failed_paid` | scenarios of `MCChain` | - | two more |
| `refunded` | one charge of `MCCard` | - | one more |

**Scenarios.** The modules of `MCMarket` and of `MCServices` share no variable, so the
states of one say nothing about another and their product would only multiply them. The
variable `focus` is chosen in `Init` and never changes; a behaviour follows one
module and the others stay in one initial state. In `MCChain` the scenarios keep apart
what a single instance could not enumerate together, and the auctions are one more of them.

**Why the bounds are enough.** Amount 2 is the least that tells no refund, a partial
refund and a full refund apart. One revision sold reaches both "a revision is left"
and "none is left"; two disputes reach a dispute after a resumed one. Two deadline
instants let a proposal be overtaken. In `OrderLifecycle` a failed payment is retried
only below version `MaxRetries`, since otherwise the version grows without end and
nothing else changes. In checkout two attempts are a method switch or a retry, which is
all the journal tells apart: only the last attempt and the unresolved ones are read.
One fault with two events under way reaches each race listed as a hazard of this rail; the
instances differ because both parts together exceed what can be enumerated. In `Auctions`
three bids reach a leader invalidated between two others. Safety does
not depend on these choices where section 6 proves it for every value of the constants.

On the chain two attempts reach a payout signed again while its first transaction may
still be mined, and the attempt limit; finality 2 with three blocks and one
reorganisation lets a deposit be pending, final, dropped and mined again. In `services`
two applicants, bidders or buyers compete for one place; a budget of 3 for fees of 1 and 2
has room for one combination and not another; a pool starts with two required rewards, cash and
token, and the token becomes optional and is then dropped, so that one is paid and the other fails or is missing; late costs use a principal of 20 with a cap of 10 %, the
least at which the cap rounds and binds; the sort keys contain ties and two instants in one
millisecond. Two runs, flows, finalisers or requests overlap, one
may stop, and a charge of 3 takes up to five of seven operations, so that refund,
release and reversal meet on it.

The operators of the MC modules between a component's `Next` and its scenario (`Hiring`, `Pooling`, `Selling`, `Walking`,
`Charging`, `Notifying`, `Profiling`, `Posting`, `Delivering`, `Joining`) cut what is alike or read by nobody: which of
two equal hires, buyers, events or forms comes first, a second spelling of the same choice, a sort that orders
rows as another one does, a column the walk does not read. Where they cut more, they keep one of two
actors to fewer moves: only one hire's payouts fail, only its perk is followed and only it is cancelled with its
rewards, and a refund of token does not fail; only one creator edits or withdraws an application or answers too late, and a performance request is not
edited; one of three rows stays as it is; one of two requests always sends the same values and one of two forms
comes from a known network; at most two notifications, deliveries or inbox rows exist; a saved X profile meets one
attempt, of one X account that may be renamed. The configuration is edited in at most two variables, from a local,
a staging, a production and a live one: env:check and the switches read at most three variables together, and the four
starting points differ in the ones that choose the target.

**Deadlock.** The runs allow stopping, because a completed, refunded or cancelled order, a closed
auction, a delivered message or a finished walk is final. What must not stop halfway is said by the
liveness properties.

### Fairness

* `ReviewWindowCloses`, `Tick`: time passes.
* `AutoAcceptDeliveries`, `CloseAuction`, `ExpireHold`, the lookup, its write-back and the status
  fetch: cron keeps running the jobs, and each of them selects every candidate again.
* `Delivery`: an event under way is delivered or lost; nothing says it is delivered.
* A payment the provider is processing settles, one way or the other. A buyer who never
  acts on `REQUIRES_ACTION` is not assumed to.
* `PayoutFairness`: the payout job runs again and takes what is due, a worker that has begun
  takes its next step or dies, and what was submitted is mined or expires. That
  payouts *succeed* is not assumed.
* The chain grows, and the deposit job runs again (`AddBlock({})`, `JobStep`). Reorganisations
  are bounded by `MaxReorgs`; a chain that reorganises for ever decides nothing.

All are weak fairness. No fairness is assumed of buyers, creators or operators. The
scenarios of `services` check safety only.

## 4. Properties in words

*Orders.* `SideRecordsAgree`: the creator's claim, dispute, cancellation request, review hold,
deadline proposal and deliveries each agree with the order, through every interleaving; its parts
`ClaimFollowsOrder`, `DisputeMatchesStatus`, `RequestOnlyWhileWorking`, `HoldIsForReview`, `ProposalMatchesDeadline` and
`DeliveriesAnswerRevisions` are proved one by one. `MoneyFollowsOutcome`: the money columns agree
with how the order ended. `ReviewIsDecided`: a delivered order is decided, or held for an operator, or
waits for the answer to a cancellation request. `OffersMatchCommands`: a party's page shows every form whose
command the server would take, and no other but the four listed in section 7.

*Payments.* `OutcomeIsProviderFact`: paid, refunded and released are never shown unless the
provider did them, in the amount agreed. `BooksMatchRow`: a refund or release is booked exactly
when the row shows it, both together never exceed what was booked as captured, and an order that
ended on a single capture nobody took back holds no principal. `OneOpenIntent`: at most one intent is open
at the provider, and none for an order cancelled unpaid. `CaptureIsBooked`: captured money
reaches the books even if every webhook is lost. `HoldEndsUnlessOverwritten`: a checkout hold
ends, unless a `funding.processing` applied after `funding.failed` overwrote the failure in the
journal (section 7). `CostSharesKept`: every change of a provider cost is
borne by somebody once, within the cap, and never taken back from a sent payout. `RefundBackedOnce`: a
refund after release is backed by money that came back, once. `ChargeConserved`: no more is taken out of
a charge's principal than it holds and no more back from a creator than it got, whatever is lost and repeated; refunds of
both balances together are the subject of `RefundedWithinCapture`, which fails (section 5). The exclusions each one makes are in
its comment, and each is a hazard of its own.

*Chain.* `PaidAtMostOnce`, `ConfirmedIsPaid`, `CreditedIsFinal`: paid once, recorded only if paid,
credited only by a final deposit. `PayoutsEnd`, `PendingDecided`: both queues drain. `MoneySpec`: the
crypto rail moves the order's money only as `OrderMoney` allows.

*Auctions.* `CountersMatchClaims`: the counters are the sum of the claims. `SaleFollowsOrder`: auction,
order and claim tell one story. `SoldToHighest`: the sale goes to the highest valid bid, or by Buy Now
only if nobody ever bid. `AuctionCloses`.

*Market.* `BudgetHeld`: the request's counters are the sum of live holds and nothing is
oversold. `PoolConserved`: the buckets add up to the deposits, a hire holds all the rewards its template requires and is
settled only when all are paid, and the pool is `ACTIVE` exactly while every required asset is covered.
`EscrowSettled`: collateral and price end with whom the outcome names. `BonusSplit`: the hold is
split as the post was judged. `LicenceHonoured`: an exclusive licence is the only live one, and what
was bought is what is served. `SoldAsSeen`: an order is for the terms the buyer saw. `EachRowOnce`: a
walk through a list shows every unchanged row exactly once.

*Platform.* `SentIsDelivered`, `OneWayIn`, `AppliedOnce`, `OnceExecuted`, `WelcomedOnce`: what
must happen once does, under overlap and interruption. `AttachedKept` is about steps: a file in use is never deleted, and
no step of the cleanup job, nor of a finaliser whose commit was refused, takes the stored object of a `READY` file. It does
not say that an attached file always has its object; section 7 names the two ways it is lost. `DeployedAsChecked`: what
passed `env:check` turns its payment switches together, simulates no payment, file store or persona in
staging and production, and in production runs no stand-in at all. What staging keeps is in section 7.

## 5. Where the code and the repository's own statements disagree

Each is one violated property; TLC's trace is the scenario.

1. **`RefundRetriesAgree`** (`src/modules/jobs/index.ts:154`). The job retries an agreed or an operator
   refund with the reason of a buyer's cancellation, so the request hash differs.
   `funding.ts:809` says every caller must derive it the same way.
2. **`FrozenWhileDisputed`** (`src/modules/jobs/index.ts:156`). The retry of an unresolved release does
   not look at payment disputes; `funding.ts:737` says a pending release is frozen.
3. **`PrincipalNotOverdrawn`** (`src/modules/payments/funding.ts:490`). A bank return booked while an
   accepted release is still unrecorded takes the same principal twice;
   `scripts/lib/restore-obligations.ts:42` counts that among the hard invariants.
4. **`ReturnedNeverFunds`** (`src/modules/payments/funding.ts:468`). A `funding.returned` applied before
   the `funding.succeeded` it undoes journals the return, opens a case and leaves the order unpaid; the
   success applied next overwrites the journal, funds the order and activates the creator's units
   although the money is gone. `tests/integration/bank.db.test.ts:158` says a returned transfer
   cancels an order not yet started, and sends the two events in order only.
5. **`UnfrozenAfterResolution`** (`src/modules/payments/funding.ts:1084`). The worker takes operations
   that are due: a `FREEZE` that failed once waits for its next attempt while the later
   `UNFREEZE` is already due, is applied after it, and the escrow stays frozen under the payout.
   `funding.ts:1081` says the worker dispatches in queue order.
6. **`FailedNeverPaid`** (`src/modules/crypto/payouts.ts:111`). A payout whose last attempt has an unknown
   outcome is marked `FAILED` without another look at the contract, which may have paid it; the
   allocation of a pool is then queued again under a reference the contract has not seen.
   `src/modules/pools/service.ts:214` says a failed attempt never paid.
7. **`RefundedWithinCapture`** (`src/modules/payments/providers.ts:999`). A refund from the platform's balance is
   checked against all refunds, one from the principal only against the principal, on which the
   first does not draw: of a charge of 3, a platform refund of 2 and then the whole principal are both
   accepted. `providers.ts:998` says a charge can never be refunded beyond what was captured, whichever
   balance pays. The platform uses its own balance only after a release, where `RefundBackedOnce` holds.

## 6. Proofs

**`OrderLifecycleProofs`** proves, from the assumptions on `Amount`, `RevisionLimit` and the bounds
alone, that the invariants of the run `order_lifecycle` and both refinements hold. The inductive invariant is `IInv == TypeOK /\ RowInv /\ SideInv`. The parts are proved
together because they lean on each other: resuming a dispute restores
`status_before_dispute`, so `ClaimFollowsOrder` survives it only because `DisputeMatchesStatus`
says that status was a working one, and `DeliveriesAnswerRevisions` only because it counts the
status behind the dispute; and both refinements use `MoneyFollowsOutcome` for what the guard of
a command leaves unsaid about the money columns. `StepInv` has one step per action.
`MatrixStep` and `MoneyStep` map every step to a step or a stutter of the abstract
specification, using `IInv` before and after it. `TypeOK` is split into `Flags` and `Columns` because
the arithmetic prover is weak on Boolean columns. `SideRecordsAlwaysAgree` collects the side
records.

`PageMatchesGuards` proves `OffersMatchGuards`, the four forms of `ShownTooLong` apart. It is not a comparison of equal conditions: the
page decides on the status and on which rows are pending, the handlers on versions,
numbers of deliveries, revisions left and deadlines, so the two agree only in states where `IInv`
ties these to each other (a pending request or proposal belongs to an order in work, and a proposal is
for the deadline that counts now). `OfferedWhen` lists when each form shows, `WorkFormsMatch`,
`CancellationFormsMatch` and `DeadlineFormsMatch` compare them panel by panel, and `SendsPassesGuards`
closes the circle with the model: an action of the specification is taken only where `Accepts` holds.

**`AuctionsProofs`** proves the safety properties of auctions in the run `chain` for any bidders, orders, units,
prices and number of bids. `IInv == Flags /\ BidInv /\ SaleInv /\ CountersMatchClaims`. Two parts carry
the weight. `CountersMatchClaims` counts units as a set of pairs (order, unit), so that a claim's
move adds or removes a set of known size (`OwnUnits`, `UnitsMove`, `CountersMove`); the lemma then
covers every action that moves a claim. `LeaderIsHighest` rests on the fact that amounts rise
along the sequence of bids (`BidInv`), so the highest valid bid is the last valid one
(`HighestIsLast`) and a bid or an invalidation keeps the cached leader right
(`BidKeepsLeader`, `InvalidateKeepsLeader`). `AlwaysSoldToHighest` adds `SaleIsFair`. `GuardNeverTrips`
says that the auction guard of the database never aborts a command.

**`TotalsTheorems`** is the arithmetic the other proofs need. `Total(f, S)` is the number of units
`{x} \X 1..f[x]` for `x` in `S`: a sum is a cardinality, and the library's facts about finite
sets say how it moves when an entry is added, removed or changed (`TotalAdd`, `TotalRemove`,
`TotalMoves`), that a part is no more than the whole (`TotalPart`) and which sums agree
(`TotalSame`). A fold over the set would have the same value and no provable property, because the
provers cannot instantiate the library's induction theorems. Where a proof must go along numbers all the same,
`LeastOf` (every nonempty set of naturals has a least element) takes the place of induction: the least number at which a
claim fails cannot exist. It gives `Greatest`, the rows of a lookup and the ranks of a list (below).

**`PaymentsProofs`** proves the safety properties of both `payments` runs and the refinement of
`OrderMoney`, for any amount and any number of attempts, faults and events. `PaymentsInv` joins five
stories that only hold together. `RowInv`: which status, payment, settlement and agreed refund go
together. `EventsInv`: an event under way says of the provider only what it has done. `AttemptsInv`: attempts
begin one after the other, and one that is over was closed at the provider or given up. `TransfersInv`:
refund and release together draw no more than the capture, and a release is asked for what
the refund leaves. `BooksInv`: the set of bookings is a function of the
journal and the row. `OutcomeIsProviderFact` is then inductive. `OneOpenIntent` follows from
`AttemptsInv`, since only the last attempt or an unresolved one may be open.

`PaymentsKeepCharges` is the refinement of `Charges`. A step either moves attempts and leaves the transfers alone
(`AttemptsMove`, `AttemptCharges`), or asks for or settles one transfer (`TransferCharges`): the
request draws on what is `Available`, which is what `Charges` calls left because a transfer is
`PENDING` or `SUCCEEDED` for the same attempt or not counted in either. `AttemptsInv` supplies that an attempt not yet begun has no
object at the provider, so that a switched method starts a new charge, and `TransfersInv` that a transfer not applied
has moved nothing (`NoneOut`). In `PlatformProofs`, `CardKeepsCharges` shows the same of the provider's ledger, where what is
pending, paid and taken back of a charge are totals over operation ids (`Drawing` and the lemmas
on what each call draws).

**Nothing recorded is taken back.** `RecordsNeverTakenBack`, `PaymentsKeepRecords` and `ChainKeepsRecords` state one action
property, `OrderMoney!RecordedStays`, of the three modules that implement `OrderMoney`: a release, a
refund, an agreed refund and the end of an order stay. `OrderMoney` alone does not give it, because
`Approve`, `Agree` and `Decide` write those columns; each module's invariant says that an order still in
work has nothing recorded yet.

**`ChainProofs`** proves `PaidAtMostOnce` of the contract from `EscrowInv`: what was paid out follows
the spent references, and no bucket is overdrawn, whichever transactions are mined, reverted or
batched. Over it, `WorkerInv` relates the workers to the contract: a mined transaction has spent its
references (`MinedIsUsed`), a row recorded as confirmed was paid (`RowsArePaid`) and a worker in the
middle of its work holds what it believes (`HoldingOK`). `OrderInv` adds the order (`StageInv`,
`RowsFitOrder`) and gives `ConfirmedIsPaid` and the refinement of `OrderMoney`, step by step. For deposits,
`DepositInv` says that a credited deposit lies deeper than any reorganisation can reach
(`CreditedDeep`), that an intent has one credit (`OneCredit`) and that orders and pools are funded by
credits alone (`FundedByDeposit`, `PooledIsCredited`); `ForksGrow` and `ChecksOK` say that a block is named by its
fork, so while the block a receipt was read from is still canonical it holds the transaction. That reorganisations are shallower than the finality depth is part of the
model of the chain, as it is of the code.

**`HiringProofs`** is about money several claims draw on. `HireInv`: each hold agrees with its offer,
application and hire (`HoldFits`), the page a person has open is of a version that existed (`PageFits`), the
counters are totals over the live holds and fit the budget. `BackedInv` ties a refund after release, its
reversal and its payment, attempt by attempt, to the account in between. `PoolInv`: rewards agree with the
hire they are for and every required one is there (`RewardsFit`, `ClosedFits`), each bucket is the total of what is in its state
(`AssetFits`), and, what makes the induction go through, the reference of the next movement is never in
the ledger already (`RewardRefs`, `AssetRefs`), so a movement is never mistaken for a repetition and dropped.

**`MarketProofs`**: `DigitalInv` (licence, order and downloads agree; an exclusive licence is alone);
`ListingInv` (a snapshot is the current terms, versions are never rewritten, and a booked buyer's version
is one the page showed); `LateCostInv == SentInv /\ BillInv` with the integer division of the cap;
`ItemInv`, in which every account balance is a function of listing and sale (`Balance`), so that "settled"
is a fact about two rows, while `KeysFit` says that no movement still to be made has its key spent;
`PerfInv`, whose parts `SplitFits`, `WorkFits`, `RefundFits` and `ReleaseFits` say that a release that was
ever asked for is the one the order would ask for now;
`DiscoveryInv`, by which (`RowFits`) an untouched row is shown once at most and, until the walk is over, rows behind
the cursor were shown and rows after it were not. It needs that a page is the first rows of a total
order: `Ranking` says that a finite set under a strict total order is numbered without gaps by how many rows stand
before each, and `CursorFits` that cutting a cursor to the millisecond matters only where a walk is by publication time.

**`PlatformProofs`**: `GateInv` and `WebhookInv` (a row in progress belongs to one request or worker; effects are counted);
`StorageInv` (a finaliser that is halfway knows a file that may have changed meanwhile; what it or the cleanup job still
has to remove belongs to a row that is not `READY`: `RemovalsInv`, `UndoInv`), from which `AttachedFilesKept` follows as an
action property;
`CheckedInv`; `WaitlistInv` (statement by statement, what a request has read against what the table holds);
`OutboxInv` (a run's remaining channels against the notifications written);
`CardInv == CardTypes /\ JournalFits /\ MoneyFits`, where the transfers drawn from a charge, taken back,
released and paid from the platform's balance are totals over the operation ids;
`IdentityInv`, in which an attempt that is halfway knows a subject and a member that may have changed hands
meanwhile (`FlowFits`), so that finishing it has to look again. `LookupKeeps` says that a refresh, whichever profiles
it found and in whichever order it writes them, changes no X account of a saved profile.

**Assumptions.** The theorems use only the named `ASSUME`s of the modules, which TLC evaluates on
every run. Most only type the instance: sets of actors and hires are finite, amounts are natural numbers,
defaults such as `NoSignup` or `NotMade` are not values of the kind they stand in for. The others repeat what
the program enforces: an exclusive product has a stock of one (`DigitalAssumption`, a constraint of
`drizzle/0016`), bidders are not the seller (`ItemAssumption`, `items/commands.ts:241`), the collateral has its
floor, a payout moves money unless it freezes (`EscrowAssumption`), and an order's payouts of
one kind are told apart by their amount (`PayoutsAssumption`); a page shows at least one row
(`DiscoveryAssumption`, `discovery/params.ts:44`).

**What the proofs found.** `BooksMatchRow` used to say that every finished order without a booked return
holds no principal. That is true on the instances TLC reaches and false with three attempts
(section 7), so the property now says which orders it means. Otherwise the invariants held as stated
and were only strengthened. Writing `Accepts` for `PageMatchesGuards` made every exception of the
page explicit; they are the ones of section 7.

**Only model-checked.** The liveness properties (`ReviewIsDecided`, `HoldEndsUnlessOverwritten`,
`CaptureIsBooked`, `AuctionCloses`, `PayoutsEnd`, `PendingDecided`) are beyond this prover, and so is
`OffersMatchCommands`, which is about when an action is `ENABLED`; its counterpart `OffersMatchGuards` is proved.
Conversely `OffersMatchGuards`, `ChargesKept`, `RecordedStays`, the type invariants, the parts of `SideRecordsAgree` and `GuardRespected` of the
auctions are theorems and no run of their own.

## 7. Known behaviour without a property of its own

Modelling met the following. The model has most of them, as a guard or a named exclusion of a
property; no run states them, because nothing in the repository promises otherwise or because
another property already covers the part that can go wrong.

*Orders and payments.*
* The order page shows four forms too long (`ShownTooLong`): a revision after the review window closed;
  the answers to a cancellation request made before an accepted deadline extension; the refund of an order
  whose refund an operator decided, or that was funded late, because its retry has another reason and `journal()` refuses
  another request hash (`orders/commands.ts:316`, `next-step-panel.tsx:116`); and a cancellation before payment
  (`next-step-panel.tsx:86`), which `cancelOpenFunding` refuses while an attempt is unresolved, a deposit awaits
  finality, a bank transfer is on its way or the charge is captured (`funding.ts:220-250`; `Payments` has those refusals,
  `OrderLifecycle` leaves the payment open). It also offers checkout while the hold is reconciling.
* A `funding.processing` applied after `funding.failed` overwrites the failure in the journal
  (`funding.ts:868`). The hold's expiry then tries to cancel an attempt the provider refuses to
  cancel, and the fetched failure may already have an inbox row, so the creator's units stay held;
  `HoldEndsUnlessOverwritten` excludes exactly this.
* A dispute decision before the dispute's opening opens an operator case and is not applied later.
  Accepting a cancellation of an order whose payment was `RETURNED` moves `payment_status` on.
* A bank attempt that was captured and returned before its success was ever booked makes the order
  `RETURNED` although a later attempt funded it (`funding.ts:468` reads the order and not the
  attempt); a refund agreed afterwards then finds no booked principal of its own. It takes three attempts, and
  is why the last part of `BooksMatchRow` speaks of a single capture.
* `deliverPendingMockWebhooks` (`funding.ts:362`) loses the rest of its batch on an error.
* A release journalled before a late cost changes its amount is refused on every retry as an
  idempotency conflict. A creator may be credited for several decreases up to what was borne, after
  the payout; cost facts apply in the order they arrive.
* After release: a lost reversal leaves `RECOVERING`, from which there is no retry; a lost refund
  call is not repeated by the job (`jobs/index.ts:150`).
* The reconciliation dry run reports a cancelled order with a pending refund as drift.

*Chain, pools, items, bonuses.*
* A second deposit for a credited intent stays `PENDING_FINALITY`; one first included below the
  checkpoint after a reorganisation is never scanned (`deposits.ts:230`).
* A deposit of an unsupported asset under a pool's reference is rejected and leaves the pool's intent
  open, where an order's becomes an exception (`deposits.ts:78`).
* An optional pool reward whose payout fails after completion stays active and blocks closing the
  pool. A pool hire cancelled with a partial refund keeps its full rewards.
* An item paid after its delivery deadline costs the seller the collateral; a bid at or above the
  Buy Now price is refused after Buy Now ended.
* A dispute refund of a performance order after its unused hold was returned is refused by the
  provider; a timed-out performance refund is not retried.

*Platform.*
* The cursor of `newest` has milliseconds and the database microseconds: rows of one
  millisecond may be skipped (`search.ts:15`).
* A download link stays usable for its five minutes after a revocation.
* A staging build with a non-production `NODE_ENV` passes the check and keeps the chain simulator, the sandbox release
  signer and, with `X_PROVIDER` or `GOOGLE_PROVIDER` unset, the X and Google stand-ins, although `env-rules.ts:115` and `:123` call
  each stand-in local-only: the rules refuse the value `mock` there, and the application defaults to it (`x/provider.ts:237`,
  `google/provider.ts:146`). `DeployedAsChecked` claims nothing of these four in staging.
* `APP_ENV` may be unset in production, and then fixture accounts are listed, which `search.ts:23` says never
  happens there; the model leaves the listing out.
* An outbox run that outlives its lease may overwrite `SENT` with `FAILED`; a crash at the last
  attempt leaves `PROCESSING`.
* An attached `READY` file can lose its object. A finaliser that measured the object before another finished (or
  before it stopped short of its commit and the person uploaded again) still removes or moves what is stored now
  (`storage/service.ts:130-139`), and a quarantine whose transaction fails after its move leaves the row `READY` and the object in
  quarantine (`service.ts:260`). A new upload under the same key is then possible, so that the row names unverified content, although
  `storage/provider.ts:5` says a finalised object cannot be swapped with the same upload URL. `AttachedKept` names these two hands
  and shows that there is no third.
* Objects uploaded again after a rejection are not cleaned up.
* A reconnect after an X rename leaves the old handle verified; the monthly cap of X reads is soft.
* Two administrators may revoke each other; a command runs with the status of the actor read
  before its transaction.
* The waiting list's rate limit counts and then inserts; a crash leaves a sent welcome `PENDING`.

## 8. What is left out

* A process that dies between the provider call and the commit loses the journal row
  (`funding.ts:168`). `Payments` has the timed-out call, which keeps it.
* Actions are whole transactions, so the lock order of funding, sale and expiry
  (`funding.ts:870`) and lock waits are not visible.
* Signatures, ABI encoding, hashes and addresses are records compared for equality.
* In `Payments` provider fees are zero; `LateCosts` has them.
* Validation of input, wording, templates' text, messages, reviews and role assignment insert or
  edit single rows that no modelled step reads.
* Pages and read models other than the order page and the discovery lists only read.
  Scripts and reward imports are operator tooling run by hand.
* In `OrderLifecycle` payment facts are over-approximated: they may happen in orders no
  provider would produce. What is proved there holds for the real, smaller, set.

## 9. State of the project

12 runs (5 that pass, 7 that show a disagreement), 39 properties of passing runs and 52 listed
theorems in 8 proof modules. Every component is modelled, or listed in `PROJECT.json` with the
reason it is not. Every safety property of a passing run is proved for every value of the constants,
except `OffersMatchCommands` in its `ENABLED` form, and so are the six refinements (of `OrderMatrix`
once, of `OrderMoney` three times, of `Charges` twice). What is left is what this prover does not do: liveness under
fairness, and `ENABLED`.
