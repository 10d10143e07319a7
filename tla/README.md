# t2000, in TLA+

t2000 is a marketplace of agents on Sui: Move packages escrow the money of jobs,
keep the reputation of sellers and run the board of open jobs, and TypeScript
packages let an agent hire, sell, pay and be paid over HTTP (x402). This
directory holds a TLA+ model of the contracts and of the clients around them, TLC
configurations that check it on small instances, and TLAPS proofs of what matters
most about the money.

Paths below are relative to the repository; `escrow.move`, `reputation.move`,
`opening.move` and `batch.move` live in `contracts/a2a_escrow/sources/`,
`registry.move` in `contracts/agent_id/sources/`, the other files in
`packages/`. `PROJECT.json` maps every definition to the lines it stands for, and
lists the hazards, each at its line with the properties aimed at it.

## 1. The system

| Component | State it keeps | Operations | Interacts through |
|---|---|---|---|
| escrow (`escrow.move`) | shared `FeeConfig` (version, fee, amount bounds, seat caps); shared `Job` objects with their coins and markers | create, deliver, release, reject, decline, refund; AdminCap setters; migrate | package-visible bodies called by the three modules below; anyone may send a transaction |
| agent registry (`registry.move`) | one table: address to numbered record, active flag | register, update, set_active, migrate | read by reject doors (is the buyer registered?) and by claims (is the claimer active?) |
| reputation (`reputation.move`) | one `AgentScore` per agent at a derived address | create score, review, the `*_v2` settlement doors, deliver, reconcile | settles the Job and writes the score in one transaction |
| opening (`opening.move`) | `Opening` objects holding the poster's money | post, claim, cancel, refund crank | a claim consumes the Opening and mints a Job |
| batch (`batch.move`) | `BatchOpening` waves with slots and per-agent rows | post, claim a slot, settle, deliver, cancel, refund crank | mints Jobs that name the wave; its doors give the hold back |
| job doors of the SDK (`sdk/src/wallet/{job,opening,batch,reputation}.ts`) | none | reads, what a caller is offered, builders, preflights | mirror the contracts' guards; read by the CLI |
| transaction guard (`cli/src/lib/tx-guard.ts`) | a process-wide flag | allow or refuse a transaction a server built | every sponsored signature |
| CLI job desk (`cli/src/commands/{job,open,review}.ts`) | what the watch loop announced | every `t2 job` verb, bulk verbs, inboxes, watch loops | content store, index, node, prepare and submit services, spend limits |
| x402 seller rail (`serve`, `x402`) | replay store of challenges and digests, chain information cache | the paid request: verify, check challenge, run handler, settle, record, answer | the chain, a store service, the buyer's HTTP requests |
| x402 buyer leg (`sdk/src/wallet/pay.ts`, `cli/src/commands/pay.ts`) | none of its own | probe, estimate, sign, retry with payment | the seller rail, the spend limits, the wallet's balances |
| spend limits (`sdk/src/limits`, `cli/src/lib/spend-gate.ts`) | part of `config.json`: caps, spent today | assert before a write, record after it; set, reset | every paying call of every process of the user |
| send and swap (`sdk/src/wallet/send.ts`, `protocols/cetus-swap.ts`, `t2000.ts`) | none; a quote is in the caller's hands | resolve decimals, quote, execute, report | an aggregator, the chain |
| transaction composer (`sdk/src/composeTx.ts`, `wallet/coinSelection.ts`) | per transaction: the merged coins of each type | append step by step, validate, derive the sponsor's allow-list | the wallet's coins, a gas sponsor |
| service catalog (`sdk/src/commerce`, `cli/src/commands/service.ts` ...) | none; the server's rows | create, retire, package, profile, register, sell | challenge, sign, post - against the same rows as other commands |
| execution helpers, envelopes, discovery, wallet reads and keys, CLI shell | none that outlives a call | see `PROJECT.json` | - |

### What is hard

* **One Job, many doors.** Release, reject, decline, the two cranks, their
  registered-buyer variants, their wave variants and the bare `escrow::deliver`
  all reach the same object, in an order callers choose, at deadlines that meet
  in one millisecond.
* **One fact in several objects.** A seat is in the seller's counter, in the
  Job's markers, and for a wave in the wave's row. Each door keeps them in step
  behind other guards; a decline burns the wave's hold and frees the seat.
* **Checks far from their use.** What a post accepts is minted later and must
  still be mintable.
* **Everything is checked twice.** The SDK computes again which verb is open,
  which door takes it and whether a claim would pass, from reads and defaults; the
  host builds the transaction, and the guard decides whether to sign it.
* **Reads before awaits.** A verb reads a Job, prompts, and signs some awaits
  later; a payment takes its address balance from two reads; a listing is
  replaced by a row merged into an older read; an inbox shows what a lagging
  index says.
* **x402: await, crash and replay.** Copies of a payment meet at several
  processes between `has` and `set`; submissions are retried after lost answers;
  processes restart; a payment stays valid for two epochs.
* **Money that left without an answer.** The ledger of the day must count what
  left and nothing else.

### What makes each component correct

* escrow: an amount is locked once and paid out once, whole, by agreed terms; no
  timeout is unreachable.
* registry: numbers are unique, dense and for life.
* reputation: counters and stars are exactly what the Jobs show; the seat count
  is the number of seats held.
* opening, batch: posted money goes to one Job (per slot) or back, and what
  passed the gates always mints.
* all together: a diligent party is never stuck with a silent one.
* job doors: what is offered runs, what is not offered does not, and the guard
  signs it; a preflight is the chain's verdict.
* job desk: what is pinned can be read, what is spent is counted, the inbox tells
  the truth and the loop announces it.
* seller rail: nothing served unpaid or twice, no charge without a result.
* spend limits: no rewrite loses anything, and only overlap passes a cap.
* composer: outputs, merged coins and the sponsor's gas are each used as promised.
* send, swap, catalog: a quote binds, a report is what arrived, an update changes
  what it names.

## 2. The modules

```
Money ── Escrow ─┬─ EscrowProofs          JobPromise   (abstract specification,
                 │                                      refined by Escrow)
Registry ────────┴─ Reputation ── Board ─┬─ Opening ─┐
                                         └─ Batch ───┴─ Marketplace ─┐
TxGuard ─────────────────────────────────────────────────────────────┴─ JobDoors ── JobDesk
Marketplace, EscrowProofs ── MarketProofs ── ReceiptProofs
JobDoors, ReceiptProofs ── DoorProofs        JobDesk, DoorProofs ── DeskProofs

SpendLimits ─┐
X402Buyer ───┴─ AgentWallet ── WalletProofs        X402Serve ── ServeProofs
CoinSelection ── ComposeTx ─┐
TokenMoves ─────────────────┼─ SdkProofs
ServiceCatalog ─────────────┘
```

* `Money` - basis points and the shares a settlement pays, after `mul_bps` and
  the settle bodies of `escrow.move`. Rounding is kept: shares are integers and
  the remainder goes where the code sends it.
* `Escrow` - `FeeConfig` is `cfg`, the Jobs are `jobs`, the clock is `now`. One
  Sui transaction is one step. The package-visible bodies (`create_claimed`,
  `release_settle_pkg` and its siblings, `mark_*_pkg`) are actions that the other
  modules conjoin with their own effects, as the Move functions call them.
  Dynamic-field markers are a set in the record; `paid` is what the settlement
  transferred and `settled_by` the event it emitted.
* `JobPromise` - the abstract specification: under each name an amount is locked
  once and paid out once, whole. It does not say who may do what when.
* `Registry` - the agent table. Profile fields are one value.
* `Reputation` - scores, levels, seats, reviews, the `*_v2` doors, the bare
  `escrow::deliver` as callers may still use it, and the reconcile door.
* `Board` - what `opening.move` and `batch.move` assert alike.
* `Opening`, `Batch` - posts, claims, cancellation, cranks; for a wave also its
  settlement doors. Objects the contract consumes stay as tombstones that record
  where the money went; guards read of them only that they are gone.
* `Marketplace` - all transactions interleaved, what holds only of the whole, and
  liveness.
* `TxGuard` - a transaction as the sequence of its Move calls: the packages and
  functions allowed per verb, the coin prelude, the remainder's return, the host.
* `JobDoors` - the SDK's reads, `jobActionsFor`, the builders (each gives the call
  it makes), the preflights, and `DoorStep`, which runs a call on the chain model.
* `JobDesk` - one wallet at `t2 job`: an invocation `cmd` goes from step to step,
  one per service call, while everybody else moves the market between them. The
  content store, the index, the prepare and submit services are modelled from the
  client's side. The index may say of a Job any state it was in.
* `X402Serve` - the paid route of `serve/src/route.ts` over `x402`: every `await`
  ends a step. `SetIfAbsent` and `Volatile` tell the Upstash store from the
  in-memory one.
* `X402Buyer` - how a 402 is read: by the probe, the payment and `--estimate`.
* `SpendLimits` - the limit fields of `config.json`: sanitizing, gate, record,
  set and clear, as operators on the file.
* `AgentWallet` - send, swap, pay and job verbs of a process: gate, awaits, money,
  record; the file is truncated before it is filled (`writeFileSync`), and a
  payment reads its combined balance and its coin objects an await apart.
* `CoinSelection`, `ComposeTx` - multi-step transactions: which command consumes
  which output and which merged coin, and what a sponsor is told.
* `TokenMoves` - send and swap: decimals, quotes, slippage, what
  moved and what is reported.
* `ServiceCatalog` - a seller's commands as read, merge, challenge, sign and post
  against the server's rows.
* `EscrowProofs`, `MarketProofs`, `ReceiptProofs` (seats, the registry, waves,
  outcomes, reviews), `DoorProofs` (what runs, what is offered), `DeskProofs`,
  `ServeProofs`, `WalletProofs` (with the buyer leg), `SdkProofs` (composer, token
  moves, catalog) - theorems.
* `MC*` - instances for TLC. `MCAgentSdk` puts four independent parts of the SDK
  into one state space: a behaviour is one of them while the others rest.

### How state and actions correspond to the code

| Code | Model |
|---|---|
| an aborting assert, a thrown error | a conjunct of the action's guard, or the step that ends the call |
| `transfer::share_object(job)` | the domain of `jobs` grows |
| a coin split off `job.escrow` and transferred | `escrow` shrinks, `paid` grows |
| `dynamic_field::add(marker)`, which aborts if present | `Stamp` |
| `derived_object::claim`, once per agent | `claim_score` |
| `clock.timestamp_ms()`, `Date.now()` | `now`, which only `Tick` moves |
| code between two awaits | one action on the call's record (`req[r]`, `call[c]`, `cmd`, `op`, `run[c]`) |
| a call that fails with or without its effect | a disjunction (`submit_unanswered`, `Landed`, `Submit`) |
| a read that may fail | a set of the values it may give (`resolveCoinDecimals`, `getOpening`) |
| `readFileSync`, `writeFileSync` | `BeginWrite`, `Truncate`, `Fill` |

Definitions preceded by "Plausible bug" are not part of the specification: each
is a mutated form of the definition after it, and a property that claims to watch
that definition must fail when the mutated form takes its place.

## 3. What TLC checks

Distinct states and times are for two workers.

| Run | Module, configuration | Distinct states | Question |
|---|---|---|---|
| `escrow` | `MCEscrow`, `MCEscrow` | 216k, 1 min | One Job, any terms, three accounts, all setters, both cutovers |
| `board` | `MCMarketplace`, `MCBoard` | 336k, 2 min | An open job and a wave of two slots between two registered agents; the clients' offers and preflights in every state |
| `market` | `MCMarketplace`, `MCMarket` | 612k, 2 min | Two hires with reviews, beside posts that older packages left; reconcile, cutover |
| `live` | `MCMarketplace`, `MCLive` | 306k, 2 min | A silent party against a diligent one |
| `serve_upstash` | `MCX402Serve`, `MCServeUpstash` | 2.4M, 1 min | Two processes, one durable store, faults and restarts |
| `sdk` | `MCAgentSdk`, `MCSdk` | 1.77M, 2 min | The spending gate, the composer, token moves, the catalog |
| `desk` | `MCJobDesk`, `MCDesk` | 315k, 1.5 min | One wallet at the job verbs over the moving market |
| `bare_deliver`, `serve_in_memory`, `releasable_surfaced`, `silent_decimals`, `listing_category` | | violations | section 5 |

What they show:

* **escrow.** Money is backed through every settlement (`EscrowBacked`) and the
  fee never exceeds its basis points (`FeeWithinTerms`); no window or deadline can
  overflow a `u64` (`TimeoutsReachable`); terms and settled Jobs never move
  (`TermsNeverMove`); and the escrow implements `JobPromise` (`KeepsPromise`).
* **board.** The money of an Opening is in one place at a time
  (`OpeningFundsGoOnce`); once the gates of a claim pass, no assert of the mint
  can fail (`OpeningMintable`). `active_seller_jobs` is the number of live board
  Jobs whose seat was not freed, whichever door and marker freed it
  (`SeatsMatch`); a claim never exceeds the cap of the level at that moment
  (`CapRespected`). A wave's payment is accounted for slot by slot
  (`WaveFundsAccountedFor`), and its rows are exactly the holds not given back
  (`WaveHoldsMatch`). On the client's side: every verb the SDK offers runs on the
  chain through the door it picks and passes the guard, and no verb it does not
  offer would run, but for the two left out on purpose (`OffersAreExact`); while
  its defaults are the live values, the claim preflight is the chain's verdict
  (`ClaimPreflightIsExact`; a wave's slot declined by the claimer is the one
  exception, which only the chain counts); a Job a seller verified is
  not taken from it up to the last millisecond of the runway it asked for
  (`VerifiedJobIsSafe`).
* **market.** Counters count outcomes (a buyer's rejects are bounded only: the chain
  counts those of buyers registered at that moment) and aggregates are those of the per-Job
  stars, each of delivered and settled work (`OutcomesAreReceipts`,
  `ReviewsAreReceipts`); the version gate has no gap over all modules
  (`StaleConfigFreezesMarket`); `Marketplace` implements `Escrow`
  (`EscrowAllows`).
* **live.** Section 4.
* **serve_upstash.** However copies of a payment interleave over two processes,
  one is served at most (`ServedOnce`), none unpaid or underpaid
  (`ServedOnlyIfPaid`); money is taken only for a result (`ChargedOnlyForResults`);
  and a charged buyer without an answer can send the payment again, unless the
  process died or the store's reply was lost after the handler had returned
  (`ChargedStaysServable`). That window exists in the code: between the recorded
  digest and the answer nothing allows a second try.
* **sdk, gate.** No record, limit change or reset of one process loses what the
  others put into `config.json` (`NoRewriteLosesAnything`); the only way past the
  daily cap is overlap, and each overlapping call is within the cap of the moment
  it passed the gate (`OverlapIsTheOnlyOvershoot`); a payment no other spending
  overtook is signed over an address balance that covers it, although deposits
  land between its two reads (`UndisturbedPaymentIsFunded`).
* **sdk, composer.** A swap's output goes into one command of each step that
  names it and nowhere else, and home to the sender exactly when no step names it
  (`OutputsGoWhereNamed`); a type's coin objects are merged once and not used after a
  leg that took them whole, although the wallet changes between legs
  (`MergedCoinIsLinear`); a sponsored transaction never touches the sponsor's gas
  coin, and the sponsor is told every address it pays to and no other
  (`SponsorIsNotSurprised`); the migration takes as few coin objects as any choice
  would, against a reference definition (`MigrationIsLeast`).
* **sdk, token moves.** A swap given a quote takes the quoted input of the quoted
  pair and brings at least the quoted output less the largest slippage
  (`QuoteIsBinding`); what it reports, in the
  output's true decimals, is what arrived as soon as one of the report's two reads
  answered, and the estimate otherwise (`ReportIsWhatArrived`, which excepts
  guessed decimals of the output, a failed first balance read and foreign transfers
  of that coin: the difference of two balances cannot tell them).
* **sdk, catalog.** An update that nothing overtook keeps what it did not name,
  whatever fails on the way, and a package replaces no live listing
  (`ListingsChangeAsAsked`).
* **desk.** What was uploaded and pinned can be read under its hash
  (`PinnedIsReadable`); a release that could read the Job pays undelivered work
  only when asked to (`GoodwillIsAsked`); the day's ledger is the money that left,
  but for transactions whose answer never came (`EscrowedIsCounted`, which counts
  the units of what the hires, posts and waves cost); a row read
  again from the chain lands in the bucket whose doors are open
  (`InboxTellsTheTruth`); section 4 for `LapseIsAnnounced`.

### Bounds, and why they are enough

* Jobs: every guard of the escrow reads one Job, so one Job carries its
  properties. Seats and reviews relate Jobs of one seller: two Jobs and a cap of
  one at Level 1 make the cap, its release and its re-use happen. Two reviews
  reach every level (thresholds of 1 and 2 instead of the code's).
  Posts: one Opening and one wave of two slots; posts do not read each other.
* Accounts: buyer and seller, and a stranger in `escrow`. In `board` both accounts are registered, so that the
  registered-buyer doors are among the offers; in `market` the buyer may register
  between hire and reject. Symmetry is used on Job and post ids, and on accounts
  in `MCEscrow` only.
* `board` moves neither fee nor bounds: the mint reads neither from `FeeConfig`
  (`escrow.move:635-680` takes them from the post), and the setters are exercised
  in `escrow`. With one seat at Level 1 the buyer's ceiling of a wave binds only
  for sellers of higher levels; with no third Job left, a seller put back to
  Level 1 after having earned a higher one is not offered another claim.
* Time: a few ticks. Durations of 0, 1 and 2 give every order of "now",
  deadline and window end, equality included. `MaxNow` is where the clock stops;
  safety does not depend on it, and liveness excludes what it cuts off.
* Amounts: 41 with 250 and 2500 basis points, so that both `mul_bps` calls round;
  bounds of 39 to 41 so that setters reject as well as accept.
* Values marked "bound" in the modules (`Amount`, `Duration`, `Split`, `FeeBps`,
  `AmountBound`, `TierCap`, `Floor`, `SlotMax`, `NextVersion`, `Stars`,
  `SeatValue`, `Poster`, `OpenWindow`, `MinLevel`, `Payment`, `SlotsTotal`,
  `MaxClaims`, `ReviewWindow`, `TrustKnob`) are what callers try, not limits of
  the contract.
* `U64_MAX` is scaled down to just above what the caps allow, so that one missing
  cap overflows.
* x402: half days as ticks, two ticks an epoch, a key kept for six (three days,
  as the Upstash store does) over seven ticks, so that keys expire inside the run.
  Two requests, each with any of three payments: copies of one, a short one, one
  the chain refuses.
* Gate: two calls of one process, limits of 2 a transaction and 3 a day (in the
  field of an older version), over midnight, one deposit, a wallet of two coin objects; the endpoint answers with
  every kind of 402. A third call adds no new pair of steps.
* Composer: every plan of up to three steps over eight step shapes, those that
  name an output twice included; one change of the wallet between legs.
* Token moves: one quote, one move of market or wallet, a coin of a registered and
  one of an unregistered type whose guessed decimals are wrong. Amounts are near
  each other below a fifth of a coin (a thousandth in the code), so that reports one
  base unit from the estimate are near it for one coin and not for the other.
  Displayed amounts are fractions; the rounding of floating point is left out.
* Catalog: two commands at once over three slugs.
* Desk: one Job, one Opening, a wave of one slot, one of them in a
  behaviour (`MaxSales`); one body to upload (`Draft`) and one of somebody else's
  already in the store, which it may answer with. The daily cap never refuses here;
  that is the gate's subject in `sdk`. Bulk lists are of one Job; the proofs of
  section 6 take lists of any length.
* Deadlock is not checked: all these systems may legitimately stop (every Job
  settled, the clock at its bound, every call over).

## 4. Fairness

**The market.** Nothing on the chain calls a door by itself, so `LiveSpec` assumes
only that the clock moves (`ClockTicks`). Everything else is the antecedent of the
property it serves, and always one party's own diligence with doors that party can
call alone, for the cranks are permissionless (`escrow.move:13-24`):

* `DiligentBuyer`: weak fairness of creating the missing score of its seller,
  of the refund cranks on what it hired or posted, and of the cranks on its
  posts. Under it `BuyerIsNeverStuck`: a Job past its deadline is delivered or
  settled, and the money of posts and slots nobody takes moves on.
* `DiligentSeller`: weak fairness of creating its own score and of the release
  crank. Under it `DeliveredIsSettled`.

The other party may do anything, and the administrator may write a wrong seat
counter: settlements saturate. Score creation is in both because every door
takes the score object: were it reserved to registered agents, a hire of an
unregistered seller would be stuck (the mutant of `DeliveredIsSettled`).
Deadlines at or after `MaxNow` are excluded: the bounded clock never passes them.
The cutover to a successor package is not part of this run; under it the old
doors close by design.

**The watch loop.** `WatchFairness` assumes that the clock moves, that the loop
goes on after each poll (weak fairness of `Paint`, `Remember`, `Announce`: plain
code after a timer), and that again and again a poll is up to date (strong
fairness of `Load` with `UpToDate` rows): the index lags and the node fails, but
not forever. The polls in between may show any stale state. Under it
`LapseIsAnnounced`: a Job that becomes releasable by the clock alone while the
loop runs is announced. Stopping the watch discharges it.

## 5. Disagreements between code and documentation

1. **Bare deliver keeps the seat** (`bare_deliver`). `escrow.move:712` is still
   callable on a board Job and writes no score: the seat is freed at settlement,
   not "at DELIVER" as `reputation.move:179-181` says of the counter.
   `SeatsMatch` holds all the same, for the Job carries no freed marker.
2. **The in-memory store forgets too early** (`serve_in_memory`).
   `packages/x402/src/store.ts:21` keeps keys for 24 hours, a payment is valid for
   its epoch and the next, and resubmitting it succeeds: a payment is served again
   on its second day by the same process. `packages/serve/src/store.ts:11-15`
   names that very hazard as the reason for the longer life of its own keys, and
   `packages/serve/README.md:56` calls the in-memory store "fine for one
   long-lived process".
3. **A review window of zero is never surfaced** (`releasable_surfaced`).
   `reviewClosesMs` (`cli/src/commands/job.ts:369`) takes 0 for a missing window,
   so a delivered Job anyone may release stays in `awaitingBuyer`, although the
   watch promises to surface what is releasable "by clock alone" (`job.ts:1748`).
4. **Guessed decimals** (`silent_decimals`). When the metadata read of an
   unregistered coin fails, `send` uses the registry's guess
   (`token-registry.ts:124-127`), against "never a silent 9-default guess"
   (`wallet/send.ts:132-133`).
5. **The listing's category is dropped** (`listing_category`).
   `serviceUpsertPayload` (`sdk/src/commerce/service.ts:27`) has no category, so
   `--category` of `service create` changes nothing, against `service.ts:279-281`
   of the command.

## 6. What is proved

**Escrow.** `EscrowProofs` proves, for all accounts, ids, amounts, package limits
and launch configurations:

| Theorem | Establishes |
|---|---|
| `Inductive` | the inductive invariant `IInv` |
| `TypeCorrect` | `EscrowTypeOK` |
| `MoneyIsBacked` | `EscrowBacked` |
| `FeeIsWithinTerms` | `FeeWithinTerms` |
| `TimeoutsAreReachable` | `TimeoutsReachable` |
| `ConfigStaysLegal` | `ConfigWithinRails` |
| `TermsAreFixed` | `TermsNeverMove` |
| `PromiseIsKept` | `KeepsPromise`, the refinement of `JobPromise` |

Assumptions: `BpsAssumption` (the denominator is positive), `EscrowAssumption`
(the package's constants are naturals, the fee cap is at most the denominator, the
launch configuration is legal) and `ClockAssumption` (block time leaves room for
the package's caps below 2^64). None of the invariants is inductive alone. That a
settlement pays exactly the amount needs the shares to be naturals that add up,
which needs `fee_bps` and `reject_split_bps` to be at most the denominator in every
Job, which holds because `create` asserts the split and reads a fee the setters
keep legal, while `create_claimed` asserts both. That no window overflows needs
every Job's deadline and window bounded by `MaxNow` plus the package's caps, also
an assert of the mint. `IInv` is the conjunction: types, legal configuration, and
for each Job the bounds on its terms, backed money, legal fee. Its parts are proved
per action: `MintStep` for the two ways a Job appears, `SettleKeeps` for the five
ways it changes, `AdminStep` for the setters. Beneath them `MulBps` bounds the
rounding division and `ReleaseShares`, `RejectShares` and `RefundShares` the
shares. For the refinement, `MintLocks` maps a mint to `Lock`, `SettlePays` a
settlement to `Pay`, and `SameMoney` everything else, deliveries included, to a
stutter.

**Marketplace.** Two modules prove, of every interleaving of the transactions of
all contract modules, for all accounts, ids, bounds and constants:

| Module | Theorem | Establishes |
|---|---|---|
| `MarketProofs` | `MarketInductive` | the inductive invariant `MarketInv` |
| | `MarketMoneyIsBacked` | `EscrowBacked` |
| | `MarketTermsAreFixed` | `TermsNeverMove` |
| | `MarketPromiseIsKept` | `KeepsPromise`: the marketplace implements `JobPromise` |
| | `PostsStayMintable` | `OpeningMintable` |
| | `OpeningFundsPlaced` | `OpeningFundsGoOnce` |
| | `StaleConfigFreezes` | `StaleConfigFreezesMarket` |
| | `MarketImplementsEscrow` | `EscrowAllows`, if `BoundsFit` |
| `ReceiptProofs` | `SeatsMoveWithTheMoney` | `SeatsMatch`, if `SeatValue = {}` |
| | `ClaimsRespectTheCap` | `CapRespected`, if `SeatValue = {}` |
| | `WaveHoldsAreKept` | `WaveHoldsMatch` |
| | `WaveFundsArePlaced` | `WaveFundsAccountedFor` |
| | `OutcomesAreKept` | `OutcomesAreReceipts` |
| | `ReviewsAreKept` | `ReviewsAreReceipts` |

They assume what the modules assume and start from `MarketInit`, a market without
Jobs, posts and scores. `MarketInv` is `IInv`, the legal bounds of every post and wave
(amount, window, fee, split, policy), and where each Opening's money is. The bounds
are why a claim at the end of the open window still mints a legal Job: the mint
reads the post's terms and not the settings of the day. `MarketImplementsEscrow`
carries also that what a post holds is among what `Escrow`'s callers try
(`PostsTried`); `BoundsFit` asks that of the bounds: the launch fee, a slot's share
of a payment, the whole amount as reject split. Each further property gets what
makes it inductive.

For the seats (`SeatInv`): the Jobs are finitely many and every claimed Job's seller
has a score, so that a new score may start at 0. `FreeStep` is the argument: a door
takes a Job out of the occupied set, by settling or by its stamp, in the step in
which it decrements the counter, and the counter is above 0 when that Job was in the
set, so the saturation at 0 never hides a loss. `SeatValue = {}` says that the
reconcile door is not used: its value comes from outside.

For the holds (`WaveInv`): every Job of a wave names a posted wave, so a fresh wave
counts no Job; `HoldFreed` is the same argument for the doors of `batch.move`, and
`HoldsStay` shows that a decline and the doors of `reputation.move` leave the holds
alone.

For the outcomes (`ReceiptInv`): no Job ended badly whose seller has no score,
because every door that ends one so takes the seller's score; `OutcomeStep` relates
the Job's end to what the door writes, on one score or, for a registered buyer's
reject, on two.

For the money of a wave: the Jobs its claims minted are as many as the slots taken,
each with the amount and fee of the post (`MintedFrom`), so a claim moves one slot's
share from one side to the other, and a settlement moves none.

For the reviews (`ReviewInv`): the stars of a score are counted as pairs of a Job and
a unit, one for each star (`StarsOf`), so that their sum is the size of a set, and
a review adds the units of one Job that had none. Nothing is summed by a fold, which
the provers cannot unfold.

**What runs, what is offered.** `DoorProofs` proves, of the same marketplace and the
client's view of it:

| Theorem | Establishes |
|---|---|
| `VerifiedStaysSafe` | `VerifiedJobIsSafe` |
| `StampsKeepOrder` | the one-shot stamps of a Job come in order (`StampsInv`) |
| `CallsAskThenWrite` | a call behind a verb is its gate and its writes |
| `ClaimsAskThenWrite` | a claim is its gate, a fresh id and its writes |
| `OffersMeetTheDoors` | `OffersAreExact`, "runs" read as "meets its gate" |
| `OnlyWhatIsOfferedRuns` | no step is the call of a verb that is not offered |
| `PreflightsMeetTheGates` | `ClaimPreflightIsExact`, likewise, if `SeatValue = {}` and `AVG_SCALE = 10` |

The runs say with ENABLED that a call would run, and the provers do not reason about
ENABLED. So the content of that word is proved instead: a step of a door is equivalent
to a predicate of the state (`Gate`, `ClaimGate`, `may_claim_slot`) together with
equations that give each variable's next value once (`Writes`, `ClaimWrites`,
`SlotWrites`). Most of a door says so already; what could fail after the gate is what
takes an invariant. A settlement door puts up to two stamps on the Job, each of which
aborts if it is there: `StampsInv` - none before the delivery, and the seat's only with
the hold's while the Job lives - makes a stamp that the door puts a new one.
A claim asserts the fee, split, amount and books again at the mint, which the bounds of
posts in `MarketInv` and `WaveFundsAccountedFor` grant. The offers are then compared
with the gates, verb by verb (`OffersPass`), over the builders' choice of door by origin
and by the buyer's registration.

For the preflight of a wave's slot the two sides look at different limits: the chain
keeps the claimer's holds of the wave under the buyer's ceiling and under the cap of
its level, the client only under the ceiling. They agree because the holds of a claimer
that declined none never outnumber its seats (`HoldsAreSeats`), which both sides keep
under that cap; this needs what the two counters count (`SeatInv`, `WaveInv`) and the
stamps' order. `AVG_SCALE = 10` is the package's constant, which the client writes as a
literal.

**The desk.** `DeskProofs` proves, of one wallet and everybody else on the market, for
all bodies, caps, trust settings, lists of any length and an index that shows any
earlier state:

| Theorem | Establishes |
|---|---|
| `DeskInductive` | the inductive invariant `DeskInv` |
| `BulkMoneyIsBacked` | `EscrowBacked` where one transaction settles many Jobs |
| `BulkTermsAreFixed` | `TermsNeverMove`, likewise |
| `PinnedStaysReadable` | `PinnedIsReadable` |
| `GoodwillStaysAsked` | `GoodwillIsAsked` |
| `SpendIsCounted` | `EscrowedIsCounted` |
| `InboxIsTrue` | `InboxTellsTheTruth`, if `LaunchCfg.version = VERSION` |
| `VerifiedSafeBesideBulk` | `VerifiedJobIsSafe`, where one transaction refunds many Jobs |
| `OffersMeetTheDoorsAtTheDesk` | what `OffersMeetTheDoors` says, beside such a wallet |

A bulk transaction is the sequence of its doors in one step, so the market's
invariant has to be carried through it first: `ChainInv` is `IInv`, the bounds of
the posts, the stamps of deliveries, finitely many objects and an unmoved
configuration. Every step of the market is then one of a few *moves* - it leaves
the Jobs alone, settles or delivers (one or many), claims, returns a post, hires,
or posts - and `MovesKeep` says that each keeps `ChainInv`, the terms of every Job,
and that no Job goes back to where nothing was delivered (`Kept`). `OthersMove` says
that of everybody else's steps and `ExecuteMoves` of the wallet's own transaction,
whichever door it is (`DeskMoves` puts the two together). `CmdInv` follows an invocation: what it names exists, and the
transaction it holds at the signature is one its verb may propose (`TxFits`), by the
guard and the cross-checks of the rail. With it:

* `PinnedIsReadable` needs that a body still under way has been read back
  (`BodyKept`), `GoodwillIsAsked` that a release knew (`ReleaseKnows`), which the
  moves cannot undo, since undelivered is where a Job starts.
* `EscrowedIsCounted` compares the ledger with three tables of costs (hires, open
  jobs, waves), each counted in units like the stars: a verb that lands adds one row
  of its price (`OneMoreCost`), and no move of anybody else adds or changes a row.
* `InboxTellsTheTruth` is arithmetic on a row read again (`FreshTellsTruth`); the
  stamps give that a delivered Job has a time, the bounds that no window overflows.
  Its hypothesis says that the contract is at the version the client calls; against
  another, every door is closed and the inbox still names some.

**Seller rail.** `ServeProofs` proves, for any number of requests, processes, stores
and payments, through every fault and restart:

| Theorem | Establishes |
|---|---|
| `ServeInductive` | the inductive invariant `ServeInv` |
| `NothingServedUnpaid` | `ServedOnlyIfPaid` |
| `NothingChargedForNothing` | `ChargedOnlyForResults` |
| `OnceInductive`, `PaymentServedOnce` | `OnceInv` and `ServedOnce`, if `RemembersLongEnough` |
| `ReplayIsRefused` | `ReplayNeverServed`, if `RemembersLongEnough` |
| `KeysInductive`, `ChargeCanBeAnswered` | `KeysInv`; `ChargedStaysServable`, if `ChallengesPaidOnce` |

The first two hold with any store. `RemembersLongEnough` is what serving once needs:
the processes share a store that sets if absent and survives them, and a key lives
as long as the two epochs of a payment - less one tick, since a key written within
the window is at least that far from its end. The Upstash store meets it (the run
`serve_upstash` has six ticks for two epochs of two), the in-memory store does not
(`serve_in_memory`). `OnceInv` says that whatever follows a submission happens in the
payment's window, that a recorded digest is still remembered while the chain would
confirm it again (`Remembered`), and that it was recorded for one request only.
`ChargedStaysServable` needs only that every key has its request (`KeysInv`), and
`ChallengesPaidOnce`: two payments in full for one challenge may block each other,
and a buyer signs one per challenge; both runs of the rail meet it.

**Spending gate.** `WalletProofs` proves, for every set of calls, verbs, limits,
endpoints, starting files and wallets:

| Theorem | Establishes |
|---|---|
| `WalletInductive` | the inductive invariant: `TypeInv`, `FileInv`, `GateInv`, `FundsInv` |
| `NothingIsLost` | `NoRewriteLosesAnything` |
| `OnlyOverlapOvershoots` | `OverlapIsTheOnlyOvershoot` |
| `PaymentIsFunded` | `UndisturbedPaymentIsFunded` |

They assume one process (`Host = {Operator}`), and `NothingIsLost` needs it: with
two, a rewrite may start from a file the other has truncated. `FileInv` says what
will be on disk once the write under way is over - before the truncation it is in
the write's value, afterwards in its text - and that no ledger is dated after
today, which midnight would bring back. `GateInv` carries what a call's gate
decided along its steps; `FundsInv` says what its two balance reads are worth:
while nobody else spends, deposits only add to either part, so the difference of
the reads never exceeds the address balance. Each is preserved step by step
(`TypeStep`, `FileStep`, `GateStep`, `FundsStep`), over lemmas about the file's
operators (`RoundTrip`: what is written reads back as it was given).

**Registry.** `NumbersAreDense`: the numbers of n agents are 1..n, each once, after
any sequence of registrations, updates and deactivations.

**Composer, token moves, catalog.** `SdkProofs` proves:

| Theorem | Establishes |
|---|---|
| `ComposeInductive` | `ComposeInv`, for every plan, wallet and change of it |
| `MergedCoinsAreLinear` | `MergedCoinIsLinear` |
| `SponsorKnows` | `SponsorIsNotSurprised` |
| `OutputsGo` | `OutputsGoWhereNamed`, for every plan |
| `MigrationsAreLeast` | `MigrationIsLeast`, for every wallet and amount |
| `SwapInductive` | `SwapInv`, for every rate, amount and slippage |
| `QuotesBind` | `QuoteIsBinding` |
| `ReportsAreTrue` | `ReportIsWhatArrived` |
| `ListingsAreKept` | `ListingsChangeAsAsked`, for any number of commands, slugs and tiers |

`ComposeInv` relates the commands appended so far to the composer's cache: a type not
in it has been drawn on by no command, and nothing is left of one taken whole; and the
addresses paid to are those of the steps behind `at`. `OutputInv`, a part of it, says
that of the steps that are to take an output - those that name it, or the swap itself
if no step does (`Feeds`) - each behind `at` has, in one command, and no other. `MigrationsAreLeast` is the argument for greed: choices that
are no fewer, each as large as any coin left out for it, are worth no less
(`LargerIsWorthMore`); the largest coins stand so to every choice (`LargestFirst`), and
one step back they were not enough. Coins are counted by their units, so that this
needs no induction over the list; that the least number of coins exists is the pigeon
hole principle (`LeastMember`).
`SwapInv` follows a swap from its quote over the minimum it signs to the two reads of
its report, which it says is exact for what was heard and for the decimals resolved; the arithmetic is in lemmas about rounding and slippage. `CatalogInv`
keeps, for each command, what its write may be, given the row its read saw.

**Buyer.** `ProbeMirrorsPay`: the probe never promises what the payment refuses,
for any answer of any endpoint, payments to oneself and ceilings excepted;
`EstimateMissesNothing`: what the payment would sign for, `--estimate` exits 0 on.

TLC evaluates the assumptions on every run of a module that extends theirs. The
hypotheses `BoundsFit`, `SeatValue = {}`, `AVG_SCALE = 10`, `RemembersLongEnough`, `ChallengesPaidOnce`,
`Host = {Operator}` and `LaunchCfg.version = VERSION` are in the theorems
that need them, and each is met by the run that checks the property.

**Only model-checked.** Liveness under fairness (`BuyerIsNeverStuck`,
`DeliveredIsSettled`, `LapseIsAnnounced`). `OffersAreExact` and `ClaimPreflightIsExact`
as they are stated: they say ENABLED, which is out of the provers' reach. What is
proved is that a door's step is its gate with writes that always exist, and the two
properties with the gates in the place of ENABLED; the last inference, that such a
step is then enabled, is TLC's.
The run of old posts with a policy (`LegacySpec`) starts elsewhere than the proofs.
No module declares a RECURSIVE operator.

## 7. What is not modelled, and why

* Hashes, URIs, metadata and events beyond the settlement's kind: no guard reads
  them.
* The dead entries (`create_open`, `claim`, `claim_proven`, the v1 settlement
  doors, the registry's ownership entries) abort unconditionally.
* Gas, object versions and consensus: a transaction is atomic, as Sui gives it.
* Free routes, CORS, discovery documents and activity reports of the seller
  rail: they touch neither the store nor the money.
* A collision of the 32-bit nonce of two challenges: payments are distinct names.
* Two copies of a payment inside one process with the in-memory store: whether
  another request runs between its `has` and `set` depends on the scheduling of
  promise callbacks; no run asserts `ServedOnce` for that store. Its restart
  empties it while payments are still valid; it calls itself a dev and test store.
* The aggregator's choice of a route, overlay fees, price-impact warnings, fee legs
  and simulation of a composed transaction, backoff timing.
* Building a signature, rendering, parsing of raw object fields, read-only
  listings, argument parsing, files of other programs: no protocol state. These
  are the components marked `not_modelled`, and the rest of those marked `partly`.

Behaviours of the code that the model shows or the reading found, that no document
contradicts, and that no run asserts:

* Two processes on one `config.json` can lose a record or read it truncated:
  nothing takes a lock. `NoRewriteLosesAnything` fails with two hosts.
* A payment that settled although its answer was lost, or came without a receipt,
  is not counted against the limits; likewise a job verb whose submission was not
  answered (`unheard`).
* `executeTx` (`sdk/src/wallet/executeTx.ts:53`) returns the digest of a transaction
  that failed on chain: a send or swap is then recorded, and a migration that
  failed is followed by the payment.
* `--estimate` picks an entry of its own (`cli/src/commands/pay.ts:232`) and exits 0
  for a testnet, foreign, escrow or incomplete one the payment would refuse.
* `composeTx` does not refuse two steps that name one output (`composeTx.ts:621-647`);
  both commands take it then, as `OutputsGoWhereNamed` has it, and the transaction
  fails later.
* A swap whose first balance read failed reports the whole balance as received;
  the difference of balances overrides an exact parse of the changes when that
  is within 0.001 of the estimate; one that failed on the chain reports the estimate.
  When the metadata read of the output coin fails, the report is off by a power of
  ten (`t2000.ts:342` and 382: the fault of finding 4, here in what is told and
  not in what is sent). A quote by output amount practically never matches its swap.
* A score that cannot be read is taken for an empty one (`cli/src/commands/open.ts:355`),
  so a claim the chain would allow may be refused, or the reverse; a slot the
  claimer declined counts against its seats on the chain only.
* A decline has no deadline: a seller who is late may still decline before the
  refund crank and so keep its record of missed deadlines clean.
* `createPackage` stopped halfway cannot be run again: its first tiers are live.
  `agent create` that dies between saving the key and the limits leaves no limits
  (`cli/src/commands/agent/create.ts:84`). Two consoles that update one listing
  at once: the later write wins.
* The reconcile door (`reputation.move:735`) writes a number computed off chain; one
  below the seats in use lets a seller claim past its cap. `SeatsMatch` and
  `CapRespected` are asserted where the door is not used.

One behaviour does contradict a comment and is asserted by no run: a sell command
with a category writes it over a profile it failed to read
(`cli/src/lib/agent-category.ts:34`), where `cli/src/commands/service.ts:281-282` says
the profile "is only written when it has none yet". `ServiceCatalog` has the failed
read and the write that follows it.

## 8. What is left

* `X402Buyer` and `AgentWallet` composed with `X402Serve` over one chain.
* `JobDesk` with lists of several Jobs, and a third Job in `board`.
* The in-process scheduling of the in-memory store.
