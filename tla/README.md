# RoundFinancial in TLA+

RoundFinancial runs rotating savings pools (ROSCAs) on Solana: a fixed group of
members pays one installment per cycle, and in every cycle one of them, the
contemplated member, receives the credit. This directory holds TLA+ models of
its programs, services and clients, TLC configurations that check them on small
instances, and TLAPS proofs for instances of every size.

## 1. Inventory

| Component | State | Operations | Interacts with |
|---|---|---|---|
| **roundfi-core** (`programs/roundfi-core`, 40 instructions) | `ProtocolConfig`, `Pool`, `Member`, `DrawResult`, `Bid`, `Listing` accounts; the vaults | see the groups below | calls reputation and a yield adapter by CPI |
| - pool lifecycle | `Pool`, `Member`, `DrawResult`, vaults | `join_pool`, `finalize_draw`, `contribute`, `claim_payout`, `crank_payout`, `skip_defaulted_payout`, `settle_default`, `release_escrow`, `close_pool`, `close_member`, `close_pool_vaults`, `pause` | attests every payment, payout and default |
| - pool creation, TVL caps | `committed_protocol_tvl_usdc` | `create_pool`, `init_pool_vaults` (and `close_pool`) | several pools share one counter |
| - contemplation bids | `Bid`, `current_bid_depth`, the drawn order | `place_embedded_bid`, `place_bid_commit`, `place_bid_reveal` | swap entries of the order that payouts follow |
| - escape valve | `Listing`, `Member`, position NFT | list, list-commit, list-reveal, cancel, buy | races contributions and settlements |
| - yield cascade | `yield_principal_deposited`, Guarantee Fund and LP earmarks | `deposit_idle_to_yield`, `harvest_yield` | an adapter that is not trusted |
| - governance | treasury, authority, fee, locks, timelocks | propose / commit / cancel / lock | the fee is read by harvest |
| **roundfi-math** (`crates/math`) | none (pure) | split, D/C guard, seizure cascade, vesting, seed draw, waterfall, slot draw | called by the handlers |
| **roundfi-reputation** | `Attestation`, profile score and level, identity | attest, revoke, promote, link / refresh / unlink identity, gate | called by core with one PDA per (issuer, subject, schema, nonce) |
| **yield adapters** (kamino, mock) | adapter vault, principal | deposit, harvest | called by core |
| **crank service** (`services/crank`) | lease row, outage window in memory | polls Active pools, sends `settle_default` | reads and writes the chain |
| **indexer** (`services/indexer`) | event rows, the projected table, reconciler lease | webhook, backfills, reconciler, projector | several RPC providers |
| - mail notifier | `EmailSentLog` | scans pools, claims a row, sends | reads the chain, a mail provider |
| **Stress Lab** (`sdk/src/stressLab.ts`) | the scenario matrix | toggle cells, resize, simulate | none |
| **SDK**, **web app** (`sdk`, `app`) | the pool store, dialogs, calls under way | sync, offer, simulate, sign, confirm | every program; races other members |
| **orchestrator** | none of its own | devnet demo script | core |

Every instruction is one Solana transaction: atomic, and without effect when a
`require!` or a transfer fails. What is concurrent on chain is the *order* in
which members, cranks and authorities get their transactions in, against one
clock. The services and the app are asynchronous: between two awaits everything
else may move.

### What is hard in this code

* **Competing handlers for one turn.** A member's claim, anybody's
  `crank_payout`, `skip_defaulted_payout` and `settle_default` race each other
  and the clock. A seat must be served exactly once and in its turn, while bids
  exchange turns under it.
* **Deadlines that move.** `next_cycle_at` is re-anchored on the clock at every
  advance (SEV-053), while the deadline of a past or future installment is
  *derived* from it (`Pool::installment_deadline`).
* **One vault, two names.** The stake lies in the escrow vault and is counted in
  both `stake_deposited` and `escrow_balance`; counters kept beside the vaults
  are lowered with `saturating_sub`.
* **Derived history.** `release_escrow` has no counter of what it released; it
  derives it from balances that contributions also change (SEV-016/029/034). The
  score of a wallet is the sum of attestations whose weight depends on what its
  identity was at the time.
* **A settlement that can revert.** The D/C check runs after the seizure; if it
  failed, a due default could not be settled (SEV-054).
* **Attestation PDAs as locks.** An attestation that exists already makes the
  payment itself fail.
* **Stale reads.** The crank settles from a view that is two reads old, the app
  offers from one, a listing is bought after its seller fell behind.
* **Delivery.** Webhooks are lost, repeated and reordered, forks drop what was
  seen, a mail or a confirmation is lost, a replica outlives its lease.
* **Rules told twice.** The app and the crank repeat the program's conditions in
  TypeScript; where they differ a member signs what will revert.
* **Progress.** Nobody is obliged to act; the pool must end all the same.

`PROJECT.json` lists every component with its status, and every hazard at its
line with the properties that would catch it going wrong.

## 2. The modules

| Module | What it models |
|---|---|
| `RoundfiMath` | the functions of `crates/math` that the handlers call |
| `MathContracts` | these functions called with bounded arguments, compared with independent definitions |
| `SlotDraw` | the Fisher-Yates loop of `draw_slot_order`, one action per turn; the random stream is a free choice |
| `RoscaPool` | one pool of roundfi-core from the first join to the closing of its vaults |
| `RoscaHistory` | `RoscaPool` with history variables: when the cycle opened, which deadline was announced |
| `RoscaProgress` | `RoscaHistory` under fairness: clock, cranks, payers |
| `RotatingCredit` | the abstract promise: one turn per seat, each ending in a payout or a forfeit |
| `PoolTimeline` | the pool without its money: clock, cycles, and per seat what was paid, paid out, defaulted |
| `RoscaRefinement` | the refinement mappings from `RoscaPool` to `RotatingCredit` and to `PoolTimeline` |
| `ContemplationBids`, `EscapeValve` | `RoscaPool` with the bids, and with the secondary market |
| `Lance` | what the app tells a member about bids, over the state of `ContemplationBids` |
| `YieldCascade` | the float of a pool in an adapter, mock or Kamino |
| `Reputation` | profile, identity and attestations of one wallet |
| `Governance` | proposals, timelocks and locks of core and reputation |
| `ProtocolTvl` | the value several pools commit, against the caps |
| `CrankService`, `EmailNotify`, `WebClient` | the crank, the mail notifier and the app of one member, each composed with `PoolTimeline` (they EXTEND it) |
| `Indexer` | webhook, backfills, reconciler and projector beside a chain with forks |
| `StressLab` | the matrix editor, and the simulation as an operator of the matrix |
| `*_proofs` | theorems (section 4) |
| `MC*` | instances for TLC: wallets, orders, and which parts one behaviour runs |

How they fit together: `RoscaPool` is the centre. Bids, the market and the
history extend it, so every one of their actions interleaves with every handler
of the pool. The services read clock, cycle and seats only; composing them with
the whole pool would multiply states that they cannot see, so they are composed
with `PoolTimeline`, and `ImplementsTimeline` (checked, and proved as
`PoolKeepsTimeline`, `BidsKeepTimeline` and `SalesKeepTimeline`) says that
whatever the pool does is something the timeline does. What stands beside a pool without sharing its state (`YieldCascade`,
`Reputation`, `Governance`, `ProtocolTvl`) is checked in one run with it
(`MCPrograms`), one subject per behaviour; the arithmetic, the draw, the Stress
Lab, the crank and the mails share a run in the same way (`MCStandalone`).

### How `RoscaPool` corresponds to the code

Each action is one handler with every state change it makes; its guards are the
Anchor constraints of the accounts struct and the `require!`s of the handler.

| Variable | In the code |
|---|---|
| `config` | `ProtocolConfig.paused`, `committed_protocol_tvl_usdc` |
| `pool` | the `Pool` account; `slots` is `slots_bitmap`; status `Gone` stands for the closed PDA |
| `member`, `memberPdas` | the `Member` accounts by `slot_index`, and which of them exist. A Member PDA is closed by `close_member` only in a Closed pool, so the record can be kept |
| `order` | `DrawResult.order` for a sorteio pool (`Undrawn` until it is created), the identity for arrival order (`contemplated_cycle_for_seat`) |
| `vault`, `wallet`, `treasury` | token balances |
| `attestations` | the Attestation PDAs issued by the pool |
| `now` | `Clock::unix_timestamp` |

Left out because nothing modelled reads it: NFT minting, rent, logs,
`joined_at`, `started_at`, the reporting counters `total_contributed` and
`total_received` of a member. Amounts stay far below 2^64, so the overflow
errors of the checked arithmetic are out of reach. Nobody sends tokens to a
vault outside the handlers (it could only add money). The reputation program is
configured (`config.reputation_program` is not the default key), so every
attestation call is made. `create_pool` is represented by `PoolAssumption`, and
the pool starts with its vaults initialised and its credit committed.
`pool.guarantee_fund_balance` and `pool.lp_distribution_balance` are fields of
the state, and payouts subtract them as the code does, but only `harvest_yield`
raises them, and that is `YieldCascade`.

### How the other modules correspond to the code

| Module | State | Actions |
|---|---|---|
| `ContemplationBids` | `bids`, the Bid PDAs; the hash of an envelope stands for the installments it seals | `PlaceEmbeddedBid`, `PlaceBidCommit`, `PlaceBidReveal`, the first and the last swapping two entries of `order`; a reveal also pays the installments it named |
| `Lance` | none of its own | `LanceStatus` and `FreeBidStatus` are `lanceView` and `freeBidView` of `app/src/lib/lance.ts`; the fields they read are those of the accounts |
| `EscapeValve` | `owner` of each seat, `outside` (USDC of wallets without a seat), `listings` | list, list-commit, list-reveal, cancel, buy; the sale closes one Member account and opens another with the same record |
| `YieldCascade` | `ypool` (the Pool fields it concerns and the vault), `adapter` (principal, vault, what is lent) | installments, payouts, `deposit_idle_to_yield`, interest, `harvest_yield`; `adapter.lends` (`Lends`) says that the adapter is Kamino |
| `Reputation` | `profile`, `identity`, the gate, the bag of standing attestations, `credited` (history) | `attest` by a pool or the admin, with or without the optional identity account, `revoke`, `promote_level`, link / refresh / unlink, `set_identity_gate` |
| `Governance` | current and pending value and date per field, the locks, the adapter | `Propose`, `Cancel`, `Commit`, `lock_treasury`, `update_protocol_config` (the adapter), `lock_approved_yield_adapter` |
| `ProtocolTvl` | status and vaults of each pool, both caps, the committed counter | `create_pool`, `init_pool_vaults`, the life of a pool in one step, `close_pool`, the caps set |
| `CrankService` | RPC node, lease row, and each replica's program counter and memory | lease, probe, the two reads, each settlement landing or failing, crash, shutdown, expiry; every await ends a step |
| `Indexer` | chain, rows, table `events`, lease, each reconciler's and the projector's memory, which rows failed calls alone made out missing (history) | webhook, both backfills, a tick of the reconciler question by question, the rebuild row by row |
| `EmailNotify` | `EmailSentLog`, ticks under way, what was accepted and what was left behind (history) | start of a tick, read, claim, an insertion that fails, send, deletion after a failure, crash |
| `WebClient` | the store's view and sync, the open dialog, calls adrift | sync steps, reload, offer, simulation, signature, landing, rejection, expiry, lost confirmation |
| `StressLab` | the matrix | `toggleCell`, `toggleCellEscape`, `resizeMatrix` |

What each leaves out is said at the top of its module.

## 3. The runs

The instances are the smallest in which the interesting cases happen.

| Run | Instance | Shows |
|---|---|---|
| `pool_arrival` | `MCRoscaPool.cfg`: 3 members in order of arrival, installment 100, credit 200, escrow share 25 %, window 2, grace 1, two members short of money, emergency stop | `TypeOK`, `TalliesMatchVaults`, `StakeNeverOverReleased`, `AttestationsTellTheStory`; the pool implements the abstract rotation (`ImplementsRotation`) and the timeline (`ImplementsTimeline`) |
| `programs` | `MCPrograms.cfg`: a sorteio pool of 3 with stakes of levels 1 and 3, window and grace 1; one subject per behaviour: draw, settling, auction, sale, yield, reputation, governance, tvl | `ServedInOrder`, `SettlementNeverBlocked`, `StandingDepthIsReal`, `LanceAdviceIsSound`, `TurnsOnlyExchanged`, `NobodyAnswersAReveal`, `ListingsAreTheOwners`, `USDCConserved`, `EarmarksAreSound`, `LevelsAreEarnedSlowly`, `ScoreCoversTheRecord`, `LockedTreasuryIsSettled`, `ChangesAreAnnounced`, `CommittedIsReserved` |
| `pool_progress` | `MCRoscaProgress.cfg`: sorteio pool of 2, one of them pays, credit 70, window 2, grace 1 | `NoWrongfulLate`, `DefaultNeedsAFullWindow`, and the liveness property `NoIndefiniteLocks` |
| `standalone` | `MCStandalone.cfg`: one subject per behaviour: arithmetic, draw of 5 seats, Stress Lab of 2 and 3 members, notifier with 2 ticks and 1 fault, crank of a pool of 2 (with or without bids) with one replica, one outage, one crash or shutdown | `CascadeIsBest`, `ViablePoolIsFunded`, `DrawIsPermutation`, `NobodyIsOverpaid`, `HealthyGroupEndsEven`, `NeverMailedTwice`, `ClaimsAreLeases`, `InfraMissIsDeferred`; and the liveness property `DelinquencyEnds` |
| `indexer` | `MCIndexer.cfg`: one transaction, 2 providers of which 1 may lie and both may fail at any time, 2 reconcilers, forks, 3 slots | `EventsAreGenuine`, `OnlyErrorsCensor`; `FinalizedIsProjected` |
| `web_client` | `MCWebClient.cfg`: pool of 2 in a drawn order, one call adrift | `SuccessIsReal`, `PaidAsConfirmed`, `OffersMatchChain`; `ViewCatchesUp` |

Six more runs are expected to end in a counterexample (below).

**Why these bounds.** Three members are the least with a first, a middle and a
last turn, so a default can fall before, in and after the defaulter's own turn,
and two defaults can meet a third member's payout. With a stake of 50 % of the
credit (level 1), an escrow share of 25 % and a solidarity share of 1 % a
settlement reaches all three tiers of the cascade; with a stake of 10 % (level 3)
it is stopped by the rounded D/C floor. Window and grace are one or two units of
time: what the handlers compare is before, at and after each deadline, and
`MaxLag >= GracePeriod` lets the clock pass all of them; `MaxLag` is the only
bound on the clock of a pool.

In `programs` the subjects `settling`, `auction` and `sale` take the drawn order
to be the identity (the seats are alike until they are drawn) while `draw` has
every order; purses hold the stake and one, three and two installments, so one
member falls behind, one can prepay to the last, one in between. Bids and sales
never run in one behaviour, the sale is of seat 0, at most two envelopes are
sealed, and both end when the last cycle begins: from then on no turn is left to
bid for. The yield subject has 5 installments, 3 payouts and 2 interests, on
either adapter, enough for a harvest on the mock to fill the Guarantee Fund's
cap and for a payout to meet earmarks; Kamino's deposits revert (below). Reputation has 3
attestations of a payment, a completion and a default, with thresholds 20 / 60 /
100 and completions 1 / 2 / 2 scaled to that and a cooldown of 2 in a clock from
3 to 5. Governance has the treasury (timelock 2) and the fee (timelock 1) over
times 0 to 4, `ProtocolTvl` three pools of flow 2, 2 and 3 under caps 0 (none),
3 and 5.

In the services `MaxOutages`, `MaxCrashes`, `MaxFaults` (overlapping ticks,
crashes, failed insertions and deletions), `MaxFailures` (wrong answers, throws
and crashes of the indexer) and `MaxAdrift` count the faults: one of each is
enough for a fault to come between any two steps. `MaxFaulty` bounds the
providers that *lie* in one question; calls that *fail* are not bounded, of all
providers at once and again and again. The run of the crank has one replica; two
at once, under a lease that runs out, are covered by the theorem
`InfraMissesAreDeferred`, and for liveness not at all. With the two seats of
`web_client` the first installment is the only one that is not the last, so no
installment is wrongly dated there (three seats were checked apart, the theorem
`OffersAreHonest` has any number, and `client_schema` shows one). `MaxAhead` is how many installments a member pays before
they are due; with one of them a bid can be opened. The cascade is checked for amounts 0 to 4 and viability
for installments up to 3000, rates at their edges.

No state is cut off by a constraint, and no symmetry set is declared: a seat is
a number that fixes its turn. Deadlock checking is off since a pool that is
`Gone` stops for good, so does an Active pool whose members have no money left,
and so do the bounded clocks.

**Fairness.** Liveness is claimed only under what the code's scheduling gives:

* `RoscaProgress`: the clock advances; a settlement, a crank or a draw that
  stays possible is done by somebody (`services/crank` polls and sends
  `settle_default`; the others are permissionless and waited for by members);
  members in `Payers` pay what stays payable. Weak fairness on the disjunctions
  is enough because each can succeed a bounded number of times. Nothing is
  assumed of claims, releases, the pause, the closing or the other members.
* `CrankSpec`: weak fairness of the clock, of each replica's next step (a daemon
  loop with a timer), of the lease's expiry and of the node coming back.
* `IndexerFairness`: weak fairness of the chain's progress, of lease expiry and
  of a tick's database steps and of the rebuild; strong fairness of a tick's start,
  since it competes for the lease, and of a check that all providers answer truly
  (a backfill likewise): what is asked again and again is answered in the end.
* `EmailSpec`: weak fairness of a tick's steps, strong fairness of successful
  reads and of successful sends: a provider that fails for ever tells nobody.
  Under it `mail_drawn` finds its counterexample, in which nothing fails. In
  `standalone` only the crank has fairness.
* `WebSpec`: strong fairness of the store's sync steps and of their success;
  `ViewCatchesUp` is about a page that is not reloaded for ever.

### Disagreements with the documentation

Six runs are expected to end in a counterexample; each checks one sentence of
the repository:

* `lock_after_payout` - `docs/architecture.md:456` ("No indefinite locks"). A
  member who was paid early and omits its *last* installment is never behind
  (`contributions_paid = current_cycle`), so nobody can settle it; when the last
  payout then is not funded the pool stays Active for ever.
* `escrow_backed` - `settle_default.rs:15-16` ("remaining members never foot the
  bill"). The stake is counted in two fields, both capped by the shared vault:
  a settlement can take more than the defaulter has there.
* `crank_skips_paid_out` - `settleDefaults.ts:27` against `:167`. The crank leaves
  out members that were paid out, who are therefore never settled by it.
* `client_schema` - `contribute.ts:97` against `:123`. The app derives LATE by
  another rule than the program, and the payment reverts.
* `indexer_outage` - `reconciler.ts:50-51` ("the tx was either dropped or reorged
  out") and `rpcQuorum.ts:115-118` (errors are "no signal", not "vote for null")
  against `reconciler.ts:156` and `:162`. A call that fails is counted as the
  answer "missing". When the only provider (the default, `:111`), or a majority,
  fails between `getSlot` and the check of a row past grace, the row is orphaned
  although its transaction is final, and nothing in the code undoes it, neither
  the backfill's upsert nor the sequence that `docs/operations/
  indexer-reorg-recovery.md:140-167` ends with "genuinely orphaned".
  `OnlyErrorsCensor` says that this is the only way: `blinded` records the rows
  that were called missing without a majority that said so, and
  `FinalizedIsProjected` promises nothing of a row that is orphaned.
* `mail_drawn` - `notify.ts:405-408` ("the contemplated slot for the CURRENT
  cycle", "stalls the whole group") against `:410`. The notifier takes the seat
  numbered as the cycle, also where the order was drawn: the winner is not told
  and another member is. That, and not a failure of delivery, is why no liveness
  of the mails is claimed; what is claimed of retries is `ClaimsAreLeases`.

Smaller remarks met on the way, without a run:

* `contribute.rs:238` ("errs late, never early"): after a stall longer than a
  window, paying for a future cycle is stamped late.
* `crank_payout.rs:151-152` ("the full cycle window + grace to self-claim"): the
  window is measured from the schedule (`:160`), so a payout that becomes
  fundable only after it is cranked at once, with `CLAIM_NEGLECT`.
* `close_pool_vaults.rs:19-21`: `release_escrow` does not look at the status and
  pays out of a Closed pool.
* `claim_payout.rs:206-208` describes an older order of the tail;
  `seed_draw.rs:6-7` speaks of collected installments while the floor is compared
  with a sum that contains the stakes; `docs/architecture.md:718` puts the
  Guarantee Fund first while `waterfall.rs:40` takes the protocol fee first.
* `escape_valve_list.rs:88-89` forbids listing an overdue position, but the sale
  does not look again; an Active listing cannot be cancelled.
* No instruction of core withdraws principal from an adapter, so idle float
  deposited by anyone does not come back for later payouts
  (`docs/architecture.md:322`).
* `deposit_idle_to_yield.rs:175` speaks of a tolerance of one lamport; the check
  has none.
* `unlink_identity.rs:9-13` ("UNCONDITIONAL"): the profile account is optional, so
  a wallet that leaves it out keeps its level. Linking an Expired or Revoked
  passport does not demote either.
* `revoke.rs:64-67` ("exactly zero-sum"): not when a penalty met a score of zero.
* `docs/operations/key-rotation.md:108-109`: after `lock_treasury` a proposal that
  is already pending can still be committed.
* `docs/observability/pagerduty-runbook.md:102` sets `max_pool_tvl_usdc = 0` to stop
  new pools, although 0 disables the cap (`init_pool_vaults.rs:129-149`).
* `lance.ts:89` ("Installments still to prepay"): a member that is behind is told
  the difference in depth, which leaves out what is due; `LanceAdviceIsSound`
  therefore counts beyond what is due. `useGroupChainState.ts:203-204` ("never
  promises a bid that will revert") does not look at the emergency stop.
* `notify.ts:121-123` ("lease, not tombstone"): a crash between claim and send,
  or a failed deletion, strands a mail; the digest's baseline swallows the errors
  of single rows (`:207-220`).
* `ingest.ts:175-190` ("Monotonic: never moves backwards") reads the cursor and
  writes it later; only the lag gauge of the health report reads it, and the next
  delivery sets it right.
* `roundfi-yield-kamino/src/lib.rs:3-8` ("Drop-in replacement for
  `roundfi-yield-mock`"): the adapter lends on what it receives in the same call,
  so no deposit passes core's check of the balances
  (`deposit_idle_to_yield.rs:178`); proved as `KaminoIsNeverUsed`.
* `poolStore.ts:164` joins a sync that was begun before the write it is to show
  (`:195`).
* The dialogs offer two calls the program turns down, and `OffersMatchChain` says
  that these are all: an installment of another cycle dated LATE in its own
  window (`client_schema`), and a settlement in a pool that is over, since the
  settlement dialog (like the radar) does not ask for an Active pool
  (`SettleDefaultCrankModal.tsx:132-166`, `usePoolRadar.ts:114-117`).
* `stressLab.ts:548`: the later installments of a member that left are still
  collected, against the comment at `:654-660`.

## 4. The proofs

The assumptions are the named `ASSUME`s of the modules: what `create_pool`
validates (`PoolAssumption`: 1 to 64 members, positive amounts, a viable pool),
positive durations (`ClockAssumption`), distinct founders among finitely many
wallets (`ValveAssumption`), finitely many pools (`TvlAssumption`),
shares of at most the whole (`YieldAssumption`), thresholds of completions that
do not fall with the level (`ReputationAssumption`, `constants.rs:299-300`), and
`NAssumption` for the draw; bounded arguments (`ContractAssumption`), which may
be all naturals; and for the indexer that at most half of the providers lie at
a time, while any number of calls may fail (`IndexerAssumption`: the quorum is a
strict majority, `rpcQuorum.ts:76-104`); and for the Stress Lab percentages whose upfront and
escrow shares add up to the credit, and a credit that the number of members
divides (`StressLabAssumption`; the Lab computes with fractions, and the unit is
one in which the installment is whole). `CONSTANT`s are otherwise arbitrary, and every bound
of the runs (`MaxLag`, `MaxEnvelopes`, ...) is any number.

* `RoundfiMath_proofs`: rounding lemmas; the split conserves the installment;
  the D/C guard and the cascade never exceed their caps; `c_min` is the least
  collateral the ratio allows, so each source gives the least of its three
  limits; the viability guard covers the rounding of every share. And what the
  sums of the community modules add up to (`SumIsOver`, `SumChange`, `SumMore`,
  ...): a fold is a recursive function over the subsets of a set, and what is
  claimed of it is proved by taking a smallest subset on which it fails
  (`MinimalSubset`, from the well-foundedness of strict inclusion on a finite
  set), so that no induction theorem with an operator parameter is needed. The
  same argument over the sets `0 .. k` gives induction up to a bound
  (`CountingUp`), where the statement is a set and no operator.
* `RoscaSafety_proofs`, by induction over all handlers:
  * `TypeCorrect`. `TypeOK` is inductive by itself. The hard steps are the three
    subtractions: the float at a payout (from the spendable guard), the escrow
    vault at a settlement (`SeizureBounds`: the stake cap is what the escrow cap
    leaves in the vault) and at a release. The others rest on it.
  * `TalliesAreExact` (`TalliesMatchVaults` is inductive): a settlement takes no
    more than a vault holds, so no `saturating_sub` saturates.
  * `DefaultStays`: with `SeatsTaken` (only a taken seat has a PDA or has
    defaulted), since `join_pool` writes a whole Member account.
  * `ReleasesVest` (`StakeNeverOverReleased` is inductive): a contribution moves
    both sides of the derived counter by the same amount, and a release stays
    under what has vested even where the derivation saturates.
  * `TurnsAreServed`: with `OrderDrawn` (the order is a bijection once it is
    drawn, and no turn is over before that). Without it two seats might own one
    turn.
  * `SettlementsGoThrough`: a live member still has its whole stake
    (`StakeKept`), what it was released is at most the stake, and the stake also
    counts in its escrow balance, so it still has at least what it posted
    (`CollateralCovers`); the rounded-up floor `c_min` is at most what it posted
    (`CeilingFloor`), and the two guarded seizures together leave it
    (`CascadeKeepsFloor`).
  * `LateWasAnnounced` and `DefaultHadAWindow`, on the history variables of
    `RoscaHistory`. The history invariant `DeadlinesKept` says that the current
    window is whole (`next_cycle_at` is at least a cycle after it opened) and
    that the deadline announced for a cycle is at most the one derived for it
    now; the lemma `DeadlineMoves` covers the three ways in which the derived
    deadlines move (activation, advance, and a cycle that stays).
* `RoscaRefinement_proofs`: `PoolIsRotation`, every handler is a step of
  `RotatingCredit` or a stutter, with `RotationInv` (the joined counter is the
  number of seats while the pool fills; every seat is taken afterwards; a
  sorteio pool is not drawn while Forming); `OrderIsDrawnOnce`;
  `DrawLeavesAWindow`, the first deadline after a draw is a whole cycle away;
  and `PoolKeepsTimeline`, every handler is a step of `PoolTimeline` or a
  stutter, one lemma per handler. It needs to know that a seat nobody took has
  paid nothing (`EmptySeats`). And `AttestationsAreFaithful`: seat by seat
  (`SeatStory`), what a handler issues is what it does to the Member account. It
  rests on an attestation being created once (a set that is finite and grows by
  elements that were not in it), on a payout happening in its own turn, on
  nobody being paid when the order is drawn, and on a member that is behind not
  having paid the last installment.
* `RoscaMarket_proofs`:
  * with bids, `DepthIsReal`, `BidTurnsAreServed`, `TurnsAreExchanged` and
    `RevealsAreFinal`. `BidInv` adds to `RotationInv` that the depth is zero
    where no cycle is open for bids (`DepthAtRest`), and that an envelope is of a
    cycle that has begun and, once opened, of one whose deadline is over
    (`EnvelopesInTime`), which is what keeps bids from answering it.
  * with the market, `NobodySellsForAnother`: owners are the founders while the
    pool forms, and nobody joins afterwards (`NoNewMembers`).
  * `NoUSDCIsMade`: every handler of the pool moves one seat's wallet against the
    vaults and the treasury (`PoolConserves`), and a sale moves a seat's wallet
    against the balances of two owners (`SaleConserves`), who are two since the
    buyer has no seat. `BidsMakeNoUSDC` says the same of the pool with bids.
  * `AdviceIsSound`: what the panels say of a bid (`lanceView`, `freeBidView`) is
    compared, status by status, with the guards of the three bid handlers
    (`MayPlaceBid`, `MayCommit`, `MayReveal`: named, so that a theorem can speak
    of them without ENABLED). Besides `BidInv` it needs that a cycle and a bidder
    have one envelope and no envelope is empty (`EnvelopesAreUnique`): the app
    tries numbers of parcels until one has the hash, from 1 to what it takes to
    be the most (`MaxParcels`), and both must include the sealed one.
  * `BidsKeepAccounts` and `BidsLeaveDefaults`: the accounts of a pool keep their
    promises (`AccountsInv`: tallies, seats, stakes, vesting) when a bid prepays
    many installments in one transaction, since it raises each tally with its
    vault and both sides of the derived release by the same amount.
  * `SalesKeepAccounts`, `SalesKeepRotation` and `SalesKeepTimeline`: a sale and
    every step towards one leave the whole pool as it was but for wallets
    (`TradeKeeps`), so the pool with the market keeps the same promises, tells the
    same story in its attestations and implements the same two abstractions.
  * `BidsKeepTimeline`: a turn that is handed over does not show in the timeline,
    and a reveal is a step of its own there (`PrepayInBid`), with which the crank
    service is composed. The mails and the app know who has which turn, so they
    are composed with pools in which nobody bids.
  * Three promises are those of a pool without bids: a reveal pays several
    installments and issues one attestation (`place_bid_reveal.rs:427`), so
    `AttestationsTellTheStory`, one per installment, ends with the first of more
    than one; and since turns are exchanged, `TurnsOnlyExchanged` stands in for
    `ImplementsRotation` and `DrawnOnce`. Bids and sales in one pool are neither
    run nor proved.
* `Programs_proofs`:
  * `LockedTreasurySettles` and `EveryChangeIsAnnounced`, with `EtaIsDue`: the
    account keeps only the date on which a proposal may be committed, and it is
    its timelock after the proposal.
  * `EarmarksStay` and `KaminoIsNeverUsed`, with `AdapterIsBacked`: nothing is
    ever lent on (core refuses each such deposit), so an adapter that would lend
    holds nothing, and the mock holds the principal at least. Both are about the
    repository's two adapters, not about one that moves other than it reports. The waterfall gives away
    no more than the yield (`WaterfallDivides`), and the cap of the Guarantee
    Fund grows with the fees (`CapGrows`).
  * `LevelsTakeTime`, with `CreditIsDated`: the cooldown is measured from the
    last completion credited, and the counter of completions, which revocations
    lower, is never ahead of them. A level is resolved only from completions the
    profile has (`ResolvedIsEarned`); identity and defaults only take it down.
  * `RevocationsAreZeroSum`: an attestation and its revocation are the same step
    in opposite directions, one copy more or less of one record (`OneMore`), and
    both weigh it as the record says (`CreditOneMore`, `CountOneMore`). The score
    may stay above the sum, since it stops at zero, and never falls below it.
  * `NoHeadroomIsLost`, with `TvlInv`: a pool that ran had its vaults, so none
    that is closed is given them again, and the one that closes is in the sum.
  * `DrawnOrderIsPermutation` and `PassedSlotsStay`, for every number of seats:
    the order is a permutation at every turn of the loop, since a transposition
    of a bijection is one.
  * `CascadeIsOptimal` and `ViablePoolsPay`, for every argument: an allowed
    seizure takes no more than lies above `c_min` (`RatioIsAFloor`), and the
    cascade takes from each source in its order all that this and the caps leave.
* `Indexer_proofs`: `NoLieCensors` and `DerivedIsGenuine`. The invariant
  `IndexerInv` says of every row what its marks mean on the chain (`RowIsSound`),
  and of every tick that the verdict it is about to write is true *for good*
  (`VerdictHolds`): that is what makes the sleep between the reads and the write
  harmless. A verdict is true because those that lie lose every vote for which
  failed calls do not count (`WrongAnswersLose`), and it stays true because
  a final transaction stays final and one whose blockhash has expired never
  lands again (`Dead`). The verdict "missing" is the one for which failed calls
  count: it is true unless the transaction is `blinded`, and for those nothing is
  claimed. `DerivedIsGenuine` has no such exception, since no failed call votes
  for a transaction or for its finality.
* `TimelineClients_proofs`, for any timeline the pool may keep:
  * `MailsAreSentOnce`: a mail that is being sent or was accepted has its row in the
    log (`RowsAreHeld`), which turns down every second claim; a row goes only with
    the tick that holds it, when its send fails.
  * `RowsAreLeases`: a tick lets go of a mail only by the end of its sending or by
    a crash, since one that reads or meets a failed insertion is sending nothing
    (`SendsFromItsMails`).
  * `DoneMeansDone`, `NoInstallmentTwice` and `OffersAreHonest`: `WebInv` relates
    the timeline (each seat has one turn, those served are paid or settled,
    `SeatsServed`), what the member confirmed (`PaidAsConfirmed`), and the calls
    in flight, which are its own (`CallsAreMine`). That the accepted offers are
    exactly the others rests on the schema: the app's and the program's differ
    just where an installment of another cycle is called LATE in its own window
    (`SchemaIsDerived`).
  * `InfraMissesAreDeferred`: a replica of the crank acts on a view as old as its
    tick. `CrankInv` says what such a view is still good for: its cycle is not ahead
    of the pool's, and while it is the pool's, past the first, its window is the
    one on chain, as only a late draw, in cycle 0, moves the window of a cycle
    (`WindowsAreSettled`, `ViewIsOfItsCycle`); a sweep that sends anything has
    waited for that window and for what the outage took from it
    (`SweepIsAllowed`). The chain turns down the calls of any other cycle. That
    no lease is assumed shows that this safety does not rest on it.

* `StressLab_proofs`, for a group of any size and every matrix the editor reaches
  (`EditingKeepsMatrix`): `NobodyOverpaid`, `HealthyEndsEven`, and
  `EveryFrameBalances`, which no run states. The loop of `runSimulation` is a
  recursive function of the frames; that there is one is proved by counting up
  (`FramesExist`), and then each frame is computed from the one before
  (`SimulationUnfolds`). The invariant of the loop, `FrameOK`, bounds what a member
  has had by cycle c (`CreditSoFar`, `RefundSoFar`, which never pass the credit and
  the stake: `SoFarWithinCredit`), and says that the totals of the frame are the
  sums over the ledger, and that the books and the yield balance. Monthly shares
  are rounded down, and what rounding keeps back is in what is still owed, which
  is why a healthy group comes out even. In two CASEs of the model the arms
  overlapped, where TLC takes the first and a proof may not; they are disjoint now.

Left to TLC: the liveness properties of `RoscaProgress`, of the crank, the
indexer and the web client, since fairness and ENABLED are out of the prover's
reach; that the runs of section 3 which expect a violation find one; and
the compositions of `MCPrograms`, whose parts are proved each for itself.
Every invariant and every action property of a passing run is stated by a
theorem.

## 5. Not modelled

* The orchestrator is a sequential demo, the scripts and the SDK's builders and
  readers encode accounts; the app's pages, dictionary, charts and API routes
  keep no state that outlives a render; the demo session keeps its own in-memory
  copy and never reaches the programs. They are most of the repository's lines.
* Of the app: the calls of the dialogs for bids, market, pool creation and
  release (what the panels of bids *say* is `Lance`). Of the indexer: the cursor,
  the cross-validation report, the read API, the digest of new groups. Of the
  crank: the identity sweep.
* Of the programs: fields that are only checked against a bound and written,
  migrations, `lock_reputation_program`; the payloads of attestations; account
  lists and bumps; overflow of the checked arithmetic, which reverts.
* An adapter that misreports what it moved, and two crank replicas in a liveness
  run. That a seat is sold after its seller fell behind is modelled, and no
  property speaks against it: nothing in the repository does.
* Cycle by cycle the pool is modelled whole, but nothing says what the program
  should do for members who still owe their last installment when the last claim
  completes the pool (`claim_payout.rs:201`).
