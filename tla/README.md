# filter.fun: specifications and proofs

filter.fun runs a weekly token tournament on Base. Creators reserve launch
slots, the tokens trade, the weaker ones are *filtered* (their liquidity becomes
WETH), one wins, and the WETH is split among holders, creators, the treasury and
the protocol's own liquidity. Solidity contracts hold the money; TypeScript
services (indexer, scheduler, oracle) watch them and drive them.

This directory specifies the parts of that system where a mistake costs money, a
title or the truth of what users are shown: the contracts' season, settlement,
tournament and creator logic; the indexer that mirrors them, with the answers its
API gives; and the concurrent services of the indexer, its live event stream, its
table of HP snapshots with the scheduler that triggers rankings, and the username
endpoint. The specifications are checked with TLC on small instances and the most important
invariants are proved with TLAPS for all values of the constants.
`PROJECT.json` has the machine-readable tables: the source lines behind every
definition, the runs, the hazards and which properties cover them, and the
theorems.

## The system

| Component | State | Operations | Talks to |
|---|---|---|---|
| `FilterLauncher.sol` | current season, phase, window, tokens, tickers (per season, won, blocked), queue, activated/aborted, launch count | `startSeason`, `reserve` (with `_activate`, `_deployToken`), `abortSeason`, `launchProtocolToken`, `advancePhase`, `setFinalists`, `setWinnerTicker`, settings | escrow, stake admin, factory; called by creators, oracle, owner and the season vaults |
| `LaunchEscrow.sol` | one reservation per season and creator, refund credits, season outcome | `reserve`, `releaseToDeploy`, `refundAll`, `claimPendingRefund` | called by the launcher; pushes ether to creators |
| `LauncherStakeAdmin.sol` | slot, cost and stake of each token | `recordLaunch`, `applySoftFilter` | launcher, oracle, creators |
| `SeasonVault.sol`, `SeasonPOLReserve.sol` | phase, reserves, totals, settlement, claims; the season's POL | `processFilterEvent`, `submitWinner`, `claimRollover`; `deposit`, `withdrawAll` | lockers, bonus distributor, registry, POL manager, launcher |
| `FilterLpLocker.sol` | the LP position, liquidated, `winnerSettledAt` | `liquidate`, `collectFees`, `buyTokenWithWETH`, `addPolPosition`, `markWinnerSettled` | Uniswap V4, vault, creator fees; `collectFees` is open to anyone |
| `POLManager.sol`, `POLVault.sol` | which seasons' POL is deployed, total deployed | `deployPOL`, `recordDeployment` | vault, winner's locker |
| `BonusDistributor.sol` | per season reserve, root, claimed total; one pot | `fundBonus`, `postRoot`, `claim` | vaults, oracle, holders |
| `CreatorFeeDistributor.sol` | accrued and claimed per token, `lastSeenBalance` | `notifyFee`, `claim`, `disableCreatorFee` | lockers, creators, treasury |
| `TournamentRegistry.sol` | status of each token, weekly winners, finalists, champions | `markFiltered`, `recordWeeklyWinner`, `record{Quarterly,Annual}{Finalists,Champion}` | season vaults, tournament vault, oracle |
| `TournamentVault.sol` | a pot per quarter and per year; one WETH balance | `fund*`, `submit*Winner`, `claim*Rollover`, `claim*Bonus` | registry, oracle, holders |
| `CreatorRegistry`, `CreatorCommitments`, `FilterToken` | creators, admins, pending admins, recipients; bag locks; balances | nominate, accept, cancel, set recipient; commit; transfer | creators, creator fee distributor |
| `packages/oracle` | none | builds rollover and bonus trees, settlement and filter payloads | scheduler |
| `packages/scheduler` | boundaries already fired | weekly sequence of transactions; HP triggers at phase boundaries | contracts, indexer webhook |
| `packages/indexer`, chain handlers | one row per on-chain fact | an upsert per event | Ponder |
| `packages/indexer`, HP snapshots | snapshot rows and their finality | recompute on swap, balance change, block tick, phase boundary; finality advance | Ponder, scheduler |
| `packages/indexer`, event stream | previous snapshot, re-entry guard, dedupe and throttle maps; a queue, a resolver and a slot per connection | tick, detect, filter, broadcast, evict; connect, wait, write, heartbeat, abort | indexer tables, HTTP clients |
| `packages/indexer`, HTTP API | response cache, token buckets, usernames, nonces | read queries; set a username | web |
| `packages/scoring`, `packages/cadence` | none | HP score; phase arithmetic | indexer, scheduler |
| `packages/web` | browser state | user interface | HTTP API |

What is hard about it:

* **Several contracts remember the same fact.** Launcher, escrow and stake admin
  each know a season's outcome and a slot's money; vault, POL reserve, POL
  manager and POLVault each know what POL was deployed; registry and vaults both
  know who lost. They change in one transaction, by calls that may partly fail
  (a wallet that rejects ether).
* **Anyone may act at any moment.** `collectFees`, `claim*` and `fund*` are
  open; the window closes by itself; the owner may pause or change prices
  between a reservation and its deployment.
* **Seasons overlap.** Nothing makes `startSeason` wait for the previous season.
* **Pots are shared.** All seasons' bonuses lie in one balance, all quarters'
  and years' prizes in another, all creators' fees in a third.
* **Off-chain data is trusted.** Trees, totals, finalists and loser lists come
  from the oracle; a root can be posted again.
* **Integer division.** Every split and every claim rounds.
* **Callbacks in one thread.** In the event stream, timers, broadcasts, aborts
  and slow writes come between any two awaits; ticks overlap, queries fail, and
  four queries of one tick read four states of the tables. Two requests of the
  username endpoint interleave at every query.
* **A mirror built from logs.** The indexer sees only logs, in order. Rows are
  inserted under keys that the chain has to keep unique (an insert that meets its
  key stops the indexer), overwritten by whatever log comes, and added up without
  ever being compared with the contracts.
* **Clocks that do not agree.** Finality passes, periodic snapshots, coalescing,
  the scheduler's phase ticks and their webhook run at intervals of their own.

## Modules

```
Wei ── LaunchEscrow ── LauncherStakeAdmin ── FilterLauncher ── MCFilterLauncher
 │                                              │  └─ Fates == INSTANCE DepositFates
 │                                              └─ LaunchIndex ── LaunchApi ── MCLaunchIndex
 └─ SeasonDomain ─┬─ BonusDistributor ──────┐
                  ├─ CreatorFeeDistributor ─┼─ SeasonVault ── SettlementIndex ── MCSeasonVault
                  │   └─ CreatorRights ── MCCreatorRights
                  └─ TournamentRegistry ────┤
                                            └─ TournamentVault ── TournamentIndex ── ProfileApi ── MCTournamentVault
EventPipeline ── TickEngine ── MCTickEngine          EventHub ── MCEventHub
HpSnapshots ── MCHpSnapshots                         UserProfiles ── MCUserProfiles
WeiProofs ── FilterLauncherProofs ── LaunchIndexProofs
 └─ SeasonVaultProofs, TournamentVaultProofs, EventStreamProofs
CreatorRightsProofs      IndexerTablesProofs (HpSnapshots and UserProfiles)
```

**Conventions.** In the contracts' modules one action is one transaction; a transaction
that would revert is a step that does not exist, so every `require`, early revert and
failing token transfer is a conjunct of the guard. A contract that others call inside
their own transactions keeps its storage in one record variable (`escrow`, `stake`,
`bonus`, `fees`, `registry`, `vault`), and each of its external functions is a guard
`Can…(storage, args)` and a next-storage operator; the calling action composes them. A
Merkle root stands for the tree it commits to. Block times are reduced to the comparisons
that the code makes with them (`windowClosed`, `unlocked`, `bonusUnlocked`). `Wei` defines
the sum of a ledger as the number of its coins, which needs no recursion and so can be
proved about. An operator under the word *Slip* is a variant of the definition after it
with a plausible bug. Nothing refers to it; the properties were tried against each slip
and notice it (`PROJECT.json`, `mutants`).

**FilterLauncher** with **LaunchEscrow** and **LauncherStakeAdmin.** `Reserve` is the
whole of `reserve()`: the checks in order, the escrow call, and one of queue,
activate-and-deploy-all, or deploy-on-entry. `AbortSeason(s, rejecting)` lets any set of
wallets reject the push and be credited. `ClaimPendingRefund`, `ApplySoftFilter` and
`SetWinnerTicker` are the remaining calls that touch this state. The constructor blocks
tickers of its own (`SeededTickers`), without a log. The factory is external: a deployment
is a token named by its season, ticker and creator. `SetWinnerTicker` stands for the
season's vault calling in once. `settled` and `winnersAtStart` are history variables.
`BooksAgree` gathers what launcher, escrow and stake admin must agree on: `OneOutcome`,
`Lockstep` and `SlotLedgersAgree`.

**LaunchIndex** runs FilterLauncher with the indexer behind it. Every transaction appends
its logs to `log` in the order the contracts emit them; `Handle` takes the oldest one
through the handler of `FilterLauncher.ts`, `LaunchEscrow.ts` or `LauncherStakeAdmin.ts`.
An insert under a key that exists sets `halted`, as Ponder stops. A finalist list is read
from calldata, or by a call per token when the oracle is a Safe; a call that fails is
passed over and the token stays unmarked (`db.unread`, history). Which calls will fail is
chosen with the log and known to nobody before the handler runs. **LaunchApi** adds what
`GET /season`, `/season/:id/launch-status`, `/season/:id/tickers/check` and
`/wallet/:address/pending-refunds` make of the tables; `LaunchIsServed` says that tables
and answers are the contracts', with the exceptions it names (tickers of the constructor,
of protocol launches and of aborted seasons are answered "available"; a finalist may be
unread), and that the slot grid and the counters next to it add up even between two logs
of one transaction.

**DepositFates** is the abstract promise to a creator: a season is decided once
and as a whole; a deposit is held, then deployed (and later settled) or owed and
returned. `FilterLauncher!KeepsDepositPromise` states that the three contracts
implement it, under the refinement mapping `Outcome` and `PlaceOf`, which reads
the fate of a deposit off escrow flags, credits and stakes.

**SeasonVault** with **BonusDistributor**, **CreatorFeeDistributor** and the
weekly half of **TournamentRegistry.** `ProcessFilterEvent`, `SubmitWinner` and
`ClaimRollover` are the vault's three functions with all calls they make: the
registry's marks, the POL reserve's deposit, the bounty, the bonus funding, the
rollover purchase, the POL deployment and the residue sweep. `CollectFees` is the
locker's, in any state, before and after `markWinnerSettled`. `PostRoot`,
`ClaimBonus`, `DisableCreatorFee` and `ClaimFees` are the distributors'. Uniswap
is external: yields, purchases and accrued fees come from constant sets.
`WethBooks` gathers `ReservesHeld`, `WethAccounted` and `PolIsAllOrNothing`.

**SettlementIndex** runs SeasonVault with the handlers of `SeasonVault.ts`,
`BonusDistributor.ts` and `FilterLpLocker.ts`. They read nothing but rows and their
log, so a transaction and its handlers are one step: the logs of the transaction are
folded through the handlers in order. `TablesMirrorSettlement` compares the season's row,
liquidations, claims, funding and fees with the contracts, and the holder snapshots
with the survivors of the first cut (`firstLosers`, history).

**TournamentVault** with the quarterly and annual half of the registry. The
contract repeats its code for the two key shapes; the module names a tournament
by year and quarter, with quarter 0 for the year, and has both sets of actions.
Weekly hooks appear as environment actions that keep to what a season vault
does (losers and winners are tokens of the season; no filter event after the
winner): SeasonVault has the transactions they belong to.

**TournamentIndex** runs TournamentVault with the handlers of
`TournamentRegistry.ts`, and the two columns of other handlers that a profile reads.
**ProfileApi** is what `GET /profile/:address` makes of these tables: the status shown
for each created token, the count of weekly wins, the badges. A wallet is the tokens
that it created and held. `TitlesServed` says that rows and profiles tell what the
registry recorded, through every promotion.

**CreatorRights** is `CreatorRegistry.sol`, `CreatorCommitments.sol`, the transfer
hook of `FilterToken.sol` and the creator's side of the fee distributor, with the
indexer's rows for fees, locks and balances and the API's `claimable` and `isLocked`.
A lock belongs to the wallet that committed it, fees to the recipient of the moment,
the nomination to the admin. `promised`, `nominator` and `toTreasury` are history.

**EventHub** is `hub.ts` with both SSE routes of `events/index.ts` and the cap of
`ratelimit.ts` on the streams of one address. The process has one thread, so an
action is what runs between two awaits. `Refuse`, `OpenFails` and `Connect` are
the three ways a request may go; `Read`, `Beat`, `BeatDone`, `WriteDone` and
`Close` are the loop, which waits for a write, for an event or for its timeout;
`TimerFires`, `HeartbeatDue` and `Abort` are the callbacks; `Broadcast` is the hub's,
with ids drawn just before. A call of `next()` is known by a number that its
resolver and its timeout share, so that an old timeout and a new resolver can
meet. A stream of `/events` wants every topic, a launch stream its own season.
`sent`, `shed` and `written` are history.

**TickEngine** with **EventPipeline** is `tick.ts`, `detectors.ts`, `pipeline.ts`
and the queries of `events/index.ts`. The timer starts a tick in every period
(`Begin`, or `Lapped` if one is under way); `ReadSeason`, `ReadTokens`,
`ReadScores` and `ReadFees` are its awaits, with the chain handlers' writes in
between; `Publish` is all that follows the last await: diff, pipeline, broadcast,
snapshot. `Fail` is a query that throws. `RunPipeline` has the three stages in the
code's order and works on a batch event by event. The broadcast itself is
EventHub's subject: here an emitted event goes to the history `log`. A season row
exists from the start; before one does, a tick returns at its first query. The
three fee queries of a tick are one step, since a baseline decides only whether
a volume spikes, and `SpikeSets` lets any of its sets spike.

**HpSnapshots** is the table `hpSnapshot` and everything that writes it. Ponder runs
the logs of a block, then the block handlers that are due (`NextBlock`, `InLogs`,
`due`): `Trade` is a swap or balance change with coalescing, `BlockTick` the periodic
snapshot, `AdvanceFinality` the two SQL passes. The scheduler's tick (`BeginTick`) asks
for a ranking at a boundary; the webhook may land at any later block, its answer may be
lost (`WebhookFails`), and the boundary is marked as fired only with the answer. What a
score is does not matter here, only which trades a row has seen (`missed`, history).

**UserProfiles** is `POST /profile/:address/username`: the token bucket, and
`setUsernameHandler` with one action per awaited query, while other requests run,
operators edit the blocklist, buckets are pruned and time passes. The last statement
(`UpsertUsername`) repeats the checks in its WHERE clauses and rests on the unique
index; what the properties say is that this is enough. `SetBack` sets the clock back;
the bucket then refills nothing and takes the earlier time for its stamp. Cooldown and
admissions are measured in `elapsed` (history), how far the clock has gone forward in all.

## Runs

| Run | Instance | Shows |
|---|---|---|
| `launcher_season` | 1 season, 3 creators, 3 tickers and one the constructor blocks, 3 slots, threshold 2, prices 0 and 3, both stake modes; 152k states | custody of escrow and stakes, the books of the three contracts agree, the refinement of DepositFates |
| `launch_index` | 2 seasons, 2 creators, 2 tickers and one the constructor blocks, 2 slots, one ticker of either kind blocked, one protocol launch, a stray finalist list, calls that fail, 2 log positions; 922k | tickers keep one claimant, past winners' tickers stay reserved, tables and API answers are the chain's but for the named exceptions, what stops the indexer |
| `launcher_liveness` | 2 seasons, 2 creators, with pauses; 84k | no ether stays in escrow for ever |
| `season_vault` | 1 season, 3 tokens (one the owner's), 2 holders, yields 0, 12, 40, two fee collections; 892k | WETH accounting and POL, ladder, claims covered, settlement final, the indexed settlement |
| `season_two` | 2 seasons with 2 tokens each, roots posted twice, one fee collection; 467k | shared bonus pot and creator fees stay backed |
| `tournament` | 1 year of 2 quarters, 2 weeks, 3 tokens, pots of 20 or 40, three kinds of oracle; 299k | pots segregated, status equals best title, titles earned, ladder only climbs, settled pots final, titles as indexed and as shown |
| `creators` | 1 token, 2 wallets and the pool, supply 2, fees up to 2, time 0–2; 246k | nominations are the admin's, locks hold, rows and answers match the contracts |
| `event_hub` | 2 streams of 1 address with 1 slot, queue of 1, 3 events in broadcasts of 1 or 2, four kinds, 2 timeouts outstanding; 132k | no lost wake-up, no lost, doubled or overtaken event, shedding order, slots, HIGH events arrive, aborted streams end |
| `event_ticks` | 2 seasons (2 + 1 tokens), 2 overlapping ticks, time 0–3, 2 chain writes, 1 failing query; 1.46M | eliminations announced once, emissions spaced, snapshots only advance |
| `hp_week` | 2 seasons, 2 tokens, 6 blocks, snapshots every 3, passes every 2, one boundary, 2 ticks; 1.25M | coalescing hides no trade past the next snapshot, finality is a function of depth, rows only advance, one ranking per boundary |
| `profiles` | 2 wallets, 3 handles (one reserved), 2 casings, 3 requests, cooldown 2, burst 2, time 0–2, a clock that may be set back; 2.5M | handles unique, cooldown and blocklist cannot be raced, admissions within burst and refill |
| `hp_collision` | as `hp_week` | refutes a comment, see *Findings* |

### Bounds, and why they are enough

* *Launcher.* Slots 12 → 2 or 3 and threshold 4 → 2. The code compares
  counts only with these two numbers, so what matters is a season below, at and
  past the threshold and a season that is full; all occur. A price of 3 makes the
  slot cost round and grow with the slot; a price of 0 makes free slots, whose
  refund credit is zero. Three creators let one abort push, one credit and one
  later claim coexist.
* `BeforeFinals` (constraint) stops a season's phase at Filter. No modelled
  function tells Filter from a later phase except `advancePhase` itself and
  `setFinalists`; `launch_index` goes on to Finals. `OwnerActsOnce` lets the owner
  block one more ticker, launch a token or have a finalist list, one of them, of all
  tickers: `launch_index` has all of them together. `Unpaused`: a pause only removes
  steps, so that safety without it is safety with it; `launcher_liveness` has it.
* *Launch index.* Two positions in a block are enough for two logs to share one or
  not. `BeforeSettlement` lets the first season take two phase advances (the number
  it needs to reuse a position) and stops there; a stopped indexer stays stopped.
  `OneBlocked` has the multisig block one ticker, a new one or the constructor's, once or
  again; `LaunchStaysServed` covers any number. The
  second season is there for what the first one leaves behind: tickers won and
  credits still owed. Stakes stay on in this run; `launcher_season` has both modes,
  and `LaunchStaysServed` covers them here.
* *Vault.* Yields 0, 12 and 40: no proceeds, proceeds so small that slices round
  to zero, and proceeds whose slices all have dust. `MaxCollects` and `MaxPosts`
  cap fee collections and roots; two of each give before-and-after-settlement and
  replace-after-claim. `season_two` has one yield and one tree, since the
  arithmetic is `season_vault`'s subject.
* *Tournament.* `LastQuarter` is 2 for 4: the registry only loops over the
  quarters. Pots take 20 once or twice (`MaxFunded` 40). The oracles are an
  honest one, one whose totals are less than its trees and one that promises more
  than the bonus slice. `ProfilesTellTitles` looks at every set of tokens in every
  state.
* *Creators.* Two wallets can be admin, nominee, stranger and earlier admin in turn;
  a supply of 2 lets a bag be moved in part. Time 0–2 with locks up to 3 has locks
  that run out, are extended and outlast the run.
* *Hub.* The queue cap 200 → 1: a broadcast of two then fills a queue and sheds in
  the same step, and a queue of one HIGH event grows past the cap. Four kinds are
  the three priorities and an event of another season. Two timeouts per stream:
  an old one and that of the current call, which is what the identity check in
  `next()` is about; a third would be another old one. One slot and two requests
  give a refusal, a slot given back and taken again.
* *Ticks.* One unit of time is a timer period; windows of 2 periods let an event
  fall inside, at the edge of and outside each. `CutLine` 1 of 2 tokens, so that
  one swap of ranks crosses it for both. Two writes of the chain are a change and
  a second one between two queries of the same tick; longer histories repeat
  this. The second season has a token of its own, for a snapshot that spans two
  seasons.
* *Snapshots.* Six blocks of two seconds hold two periodic snapshots and three
  finality passes; depths 2 and 4 for 6 and 12 keep their order and let a row pass
  through all three classes. The boundary's window of one block on each side holds
  a periodic snapshot. `FewTrades` allows two trade rows: one to coalesce
  against another. Two ticks overlap, follow each other or lose an answer.
* *Usernames.* Two wallets race for one handle, and three requests let one wallet
  race itself while the other interferes. `AnswersAside` is a VIEW that leaves the
  text of an answer out: no property and no guard looks at it. `OneBlocked` has one
  handle on the blocklist at a time. `RaceOrSetBack` has requests race on a clock that
  only goes forward, or come one after the other on one that is set back; the theorems
  cover both at once. `MaxTime` bounds how far the clock goes forward, of which setting it
  back gives nothing back.
* *Symmetry* is used over creators, tickers (the constructor's aside), tokens, wallets,
  handles, requests and ticks that the instance treats alike, never in a run with a liveness property.
* Deadlock is checked for the vault, where somebody can always call
  `disableCreatorFee`; launcher and tournament may rightly come to rest, and the
  other runs end when their bounds (time, blocks, events) are used up.

### Fairness

`FilterLauncher!FairSpec` assumes that a season's window closes (time passes) and
that somebody with the oracle key aborts a season that may be aborted: the
scheduler does, and the operator's runbook (`docs/runbook-operator.md`) has the
operator do it when the scheduler is down. Nothing is assumed of creators, of the
owner or of the pause switch. `EscrowEmptiesEventually` needs no more: a season
that activates deploys its queue in the activating transaction.

`EventHub!Fairness` is weak fairness of what Node's event loop runs by itself: a
loop that is at its head goes on, a timeout that was set runs out, and a write
returns if the client reads (`Attentive`) or is gone, since Hono's write then
returns at once. Nobody need connect, broadcast, leave or read. Without the
timeouts `AbortedStreamsEnd` fails: a quiet stream would never look at its flag.

The other modules assume no fairness. That a boundary is ranked *eventually* is not
stated: a tick outside the tolerance passes it by, and nothing in the code makes up
for it.

## What is proved

TLAPS proves these for any finite sets of seasons, creators, tickers, tokens and
wallets, any threshold and slot count, any prices, yields, fees and trees, from
the `ASSUME`s beside the constants alone.

| Theorem | Says |
|---|---|
| `FilterLauncherProofs!EscrowSafe` | the escrow on its own, called in any order, covers its debts exactly and never mixes outcomes in a season (its natspec: "defensible standalone") |
| `FilterLauncherProofs!LauncherTypes`, `LauncherCustody`, `LauncherStakes`, `LauncherOutcome` | `TypeOK`, `Custody`, `StakeCustody`, `OneOutcome` hold in every state |
| `FilterLauncherProofs!LauncherBooks` | `BooksAgree`: outcomes, counters, slots, queue, tokens and stake records are one set of books |
| `FilterLauncherProofs!DepositsKeepTheirFates` | `KeepsDepositPromise`: the contracts implement DepositFates |
| `FilterLauncherProofs!TickersAreExclusive`, `PastWinnersKeepTickers` | `TickerHasOneClaimant` and `WinnerTickersStayReserved` |
| `LaunchIndexProofs!LaunchStaysServed` | `LaunchIsServed`: tables, running totals and API answers are the contracts', but for tickers that the constructor blocked, protocol launches, aborted seasons and finalists that could not be read; the launch page adds up after every single log, and only a repeated block or phase position stops the indexer; for any seasons, creators, tickers and log positions, and with stakes switched on and off |
| `LaunchIndexProofs!IndexedLauncher` | `IndexSpec => Spec`: what is proved of the launcher holds of the specification with the indexer that `launch_index` checks |
| `SeasonVaultProofs!SettlementTypes` | `TypeOK`: no balance of the settlement goes below zero |
| `SeasonVaultProofs!RolloverIsCovered`, `BonusStaysInReserve`, `CreatorFeesAreBacked` | `RolloverClaimsCovered`, `BonusWithinReserve`, `CreatorFeesBacked` |
| `SeasonVaultProofs!SettledVaultsCloseClean` | `ClosesCleanIfAllFiltered` |
| `SeasonVaultProofs!VaultKeepsItsBooks` | `WethBooks`: reserves held, WETH accounted for, POL deployed once and whole |
| `SeasonVaultProofs!SettledVaultsAreFinal` | `SettlementIsFinal` |
| `SeasonVaultProofs!LadderIsTruthful` | `LadderMatchesVault` |
| `SeasonVaultProofs!SettlementStaysServed` | `TablesMirrorSettlement`: no log of a settlement stops the indexer, and its tables tell what the contracts hold |
| `SeasonVaultProofs!IndexerOnlyWatches` | `IndexSpec => Spec`: what is proved of the settlement holds of the specification with the indexer that the runs check |
| `TournamentVaultProofs!PotsStaySegregated`, `PotsStaySettled` | `PotsAreSegregated` and `SettledPotsAreFinal`, for any deposits, trees and totals |
| `TournamentVaultProofs!TitlesAlwaysHold`, `StatusOnlyClimbs` | `TitlesHold` and `LadderOnlyClimbs`, for any number of years and quarters |
| `TournamentVaultProofs!TitlesStayServed` | `TitlesServed`: what the handlers fold out of each transaction's logs and what a profile makes of it is what the registry recorded, for any years, quarters, weeks and tokens |
| `CreatorRightsProofs!NominationsBindTheAdmin`, `CommittedBagsStay` | `NominationsAreTheAdmins` and `BagsStayLocked`, for any wallets, tokens, supplies and locks |
| `CreatorRightsProofs!RowsAreTheContracts` | `RowsMatchContracts`: the rows for fees, locks and balances, and `claimable` and `isLocked`, are the contracts' |
| `EventStreamProofs!NoWaiterIsLost`, `NoSlotLeaks` | `WaiterIsRegistered` and `SlotsMatchStreams` hold in every state, for any streams, addresses, caps and broadcasts |
| `EventStreamProofs!StreamsShedInOrder` | `ShedsOnlyWhatItMay`: a stream carries what was broadcast to it, once and in order, less what a full queue shed, lowest priority first and never HIGH |
| `EventStreamProofs!SnapshotsAdvance` | `SnapshotsOnlyAdvance`, for any tables, windows and number of ticks |
| `EventStreamProofs!EmissionsStaySpaced` | `EmissionsSpaced`: deduplication, quotas and filter moments hold over ticks and within a batch, for any tables, spikes, windows and quota |
| `EventStreamProofs!FiltersStayAnnouncedOnce` | `FiltersAnnouncedOnce`: each elimination and each cut is announced once, whatever the chain writes between two queries and whichever ticks fail, for any seasons, tokens, windows and number of ticks |
| `IndexerTablesProofs!SnapshotTypes`, `FinalityIsByDepth`, `RowsAdvance` | `TypeOK`, `FinalityFollowsDepth` and `RowsOnlyAdvance`, for any cohort, depths and intervals |
| `IndexerTablesProofs!TradesAreSeen`, `AnchorsStaySingle` | `ScoresKeepUp` and `AnchorsAreSingle`, for any boundaries, tolerance, ticks and a coalescing window shorter than a block |
| `IndexerTablesProofs!HandlesAreUnique`, `CooldownsArePaid`, `BlocklistHolds`, `BucketsBindAdmissions` | `UsernamesAreUnique`, `HandlesCostTime`, `BlocklistBinds`, `AdmissionsAreBounded`, for any wallets, handles, requests, burst and rate, and a clock that may be set back at any moment |

*Sums* (`WeiProofs`). The total of a ledger is the cardinality of its set of
coins; the lemmas (adding to one owner, merging, monotonicity, renaming) come
from the library's cardinality theorems. `TotalScale` counts the coins of a scaled
ledger in blocks; from it `ProRata` concludes that the floors of pro-rata shares sum
to at most the whole, on which every claim of a rollover rests.

*Folds* (`WeiProofs`). Handlers and queues are folds over sequences. The library's
induction theorems cannot be instantiated, but they are not needed: a fold of one named
operator is a recursive function (`IsFold`), a set of natural numbers that is not empty
has a least element (`LeastNumber`, from the well-foundedness of `<`), and so a property
that the empty sequence has and every further element keeps cannot fail for a first
time (`StepByStep`). Each operator that is folded gets a lemma of this shape, which says
what the whole sequence does.

*Escrow.* `EscrowOK` (types, custody, all-or-nothing) is inductive by itself. One
lemma per external function shows that it keeps `EscrowOK`; they are about
storage values, so the launcher's proof reuses them inside larger transactions.

*Launcher.* Custody is not inductive: a deployment overwrites a stake record, and
if that record still held a stake its ether would be lost from the books.
`SafeInv` adds `StakesFit`: only the token of a *released* reservation has a
stake. Since a deployment needs live reservations, what it overwrites is empty.
`SafeInv` also carries `OneOutcome`, since `StakesFit` relies on releases and
refunds excluding each other, and that queues are finite, without which a
batch's sum would mean nothing.

*Books.* `TickerInv` says pointwise who claims a ticker; it needs that winners are
permanent and that a season that has not opened has neither tokens nor a queue.
`BooksInv` says that the slots of a season are numbered from 0 without a gap
(`SlotsNumbered`), that queue entries and reservations of seasons not activated are
one to one (`QueueFits`), that community tokens and released slots are one to one
(`TokensFit`), that a stake record is that of its token's slot (`RecordsFit`), and that
the counters count them; none of the five is inductive without the others. With it, one
lemma per transaction shows that deposits move as in DepositFates: `Deposit`, `Launch`,
`Join`, `Cancel`, `Collect`, `Settle`, or not at all.

*Launch as served.* A transaction of the launcher emits many logs and the handlers take
them one at a time, so the tables are behind the chain most of the time. `IndexInv` says
by how much: `Behind(db, W)` relates each table to the chain *and the set W of logs that
wait*. A token is in its table or its `TokenLaunched` waits; the row of a deposit has the
status that the chain says (`Says`), or the one that its waiting log finds (`Finds`) and
will turn into what the chain says (`Leaves`, `MoveFits`); a deposit whose `SlotReserved`
waits has no row. The order of the logs matters in one place only: the slot comes first
(`LogFits`), and no deposit has two other logs that move it, so that handling the oldest
log makes the tables behind by one log less (`HandleBehind`, one lemma per table), and a
transaction makes them behind by the logs it emits (one lemma per transaction, with
`AbortLogsFit`, `FilterLogsFit` and `ReserveLogsFit` for what the sequences contain,
whatever order the slots have). No insert clashes because of what `W` and the chain say
together (`NoClash`). `TablesFit` is about the tables alone and holds between any two
logs: the totals of a season are sums over its rows by status (`AddsUp`). While
`SeasonActivated` waits no deposit of the season is refunded, which is why a `REFUNDED`
row counts as released in an activated season and as refunded in another. Two tables never
catch up whole: `BlocksBehind` leaves out the constructor's tickers that no log has named,
and `FinalistsBehind` lets a finalist be in `unread` instead of marked. Of the chain the
invariant needs `SafeInv`, `BooksInv`, `TickerInv` and `ChainFits`: only a settled season
has a winner, only one past its launch phase finalists, an empty slot holds nothing, and
while stakes cannot be switched off an unresolved stake is the whole cost.

*Vault.* `VaultInv` adds `UnsettledWhileActive` to the three properties: counters
that `submitWinner` writes must be zero before. The arithmetic lemmas `PotSplits`
and `FeeSplits` show that slices are natural numbers that add up to the amount;
with them each accounting equation is linear. `LadderInv` adds that losers are
tokens of their own season, and that the weekly hooks give no title above
`WEEKLY_WINNER`. `SettleInv` joins these with four parts that the claims need.
`ClaimsInv`: the shares claimed are those of the claimers, within the total, so that
`ProRata` bounds what is still owed by what was bought. `BonusInv`: what each season's
claims add up to while its first root stands, and that a pot is funded before it has a
root. `FeesOK`: the distributor's own books, kept by each of its functions. `CloseInv`:
after settlement only a loser that was never filtered brings WETH.

*Settlement as served.* `IndexInv` adds to `SettleInv` that the indexer runs and that its
tables are `Mirrored`, table by table; one lemma per transaction folds the transaction's
logs through the handlers (`EmitsOne`, `EmitsTwo`, `EmitsThree`, and `EmitsLosers` for a
filter event, whatever order the list gives the losers). Each key is inserted once because
of something that the contracts hold: a loser has not been liquidated, a wallet has not
claimed, a season is funded once, only its first filter event takes the snapshot of the
cut, and a vault that is active has no winner to take the last one of. `totalPot` needs
`ReservesHeld`: what the vault had left over when it settled is its prize fees, and it
has kept none of them. The rows of a season add up to what was paid by `RowJoins`.

*Tournament.* `BooksOK` says of every pot that nobody has claimed from it before it is
settled and that claims stay within the posted shares and bonus total; `Held` is then a
natural number by `ProRata`, and the balance is the sum of it over the pots. `OnePotOK`
reduces each transaction to the one pot it touches. `LadderOK` needs all of the titles
at once: that a token plays in one quarter only makes the champions of a year distinct,
which makes a year's finalists as many as its quarters, and tells that a token has not
climbed past the rung it is given. That a settled pot is final needs types alone; its
champion is written by `submit*Winner` only, which wants an open pot.

*Titles as served.* `IndexInv` adds to `TournamentInv` that the tables are `Mirrored`:
each row is its token's title, each entrant a finalist. The logs of a filter event are a
fold over the losers, in whatever order the list names them: `LoserLogs` gives one
loser's, and the fold of the handlers over them changes the rows of the losers and no
other. That an entrant is inserted once follows from the ladder: whom a tournament admits
has not climbed to its rung before. A profile looks up the winner of a token's season;
that there is one season and no other is in the assumptions about the constants.

*Creators.* `RightsInv` has a part for the registry, one for locks and balances and one
for the fees, and each action disturbs one of them. A promise is never longer than the
lock that the contract has, and the hook stops every transfer that a lock covers. A row
cannot fall behind since the handlers write what their logs say and every write of the
contract has its log.

*Hub.* `HubInv` has the two properties of waiters and slots and the shape of each
subscriber record; slots are counted with the cardinality theorems. `StreamsInv` adds the
flow of events: what a stream holds (written, in a write, in the resolver, queued) is in
the order of ids and is, as a set, what it wants of what was sent less what was
shed. `Pushed` says what one enqueue does to a queue, `PushRun` what a batch does:
what is dropped is of a lower class than what is kept, or older in the same class. `Event`
must not contain `NoEvent`, the empty hands of a loop.

*Ticks.* `SnapshotsOnlyAdvance` rests on the re-entry guard. `TickInv` says that at
most one tick is under way, that `inFlight` is up if one is, and that its `prev` is
still `prevSnapshot`; and that a snapshot under construction is not younger than
the clock nor older than `prev`. `EventsInv` adds the pipeline, for `EmissionsSpaced`:
it `Remembers` the log, that is, its stamps are as late as the last emission of each
token and type that is still within the dedupe window, and for every time still within
the throttle window it holds as many stamps of a token as the log has events from then on
that count; and it `Silences` until a window after the last `FILTER_FIRED` of the log.
Of each the part about the past may be forgotten as the windows move (`PruneRemembers`,
`ThoseRemembers`); a stage is a fold of one step, and for the last stage the step keeps
log and memory together (`EmitKeeps`). That a `FILTER_FIRED` within a batch silences only
what follows it is in `Calm`, with the batch's positions. What the detectors make of two
snapshots and any spikes is a sequence of events of the tokens read (`DiffIsBatch`).

`AnnounceInv` adds the snapshots, for `FiltersAnnouncedOnce`. The announcements alone are
not inductive: a tick in the middle of its queries holds a season read before a write of
the chain and tokens read after it. So the invariant says what a snapshot, a finished or
a half read one, has of the tables that they cannot take back (`SnapshotOK`), that it
`Follows` the one before it and, once its tokens are read, `HasGrown` in the same season.
Two snapshots then differ in an elimination only once (`TokenMoves`), also across seasons
and after failed ticks, and a cut that was announced is near or past in all later
snapshots of its season (`CutsMove`). That the batch which comes out of the pipeline
announces each elimination that went in, and once, is counted through the three folds:
what is kept of a batch is a `Sieve` of it, a `FILTER_FIRED` is HIGH and so passes the
first two stages, and the third drops it only if its stamp is there; `Stamps` says that a
token with a stamp was announced before. The one assumption that this adds is that no
snapshot is `NoSnapshot`.

*Snapshots.* `SnapshotInv` says what finality a row of any depth has: `final` for an
anchor, and otherwise what its depth was worth at the last pass. That is not inductive
without `Behind`, that no row is newer than the head: only then is a new row still a
tip for the last pass. The two passes are shown to do to each row what `nextFinality`
says, from which `RowsOnlyAdvance` follows as well. `KeepUpInv` says where an unscored
trade is covered: by a row of its own block, until the periodic snapshot of its block or
of a later one has run. That the row is of its own block is the assumption
`CoalesceWindow < BlockSeconds` (one second and two, as Base has it). `AnchorInv` says
that one tick at a time asks for a boundary that is not excused, and none once the
scheduler knows that it has fired; so the rows of a ranking are all of the one block of
their boundary, and there are no more blocks than boundaries.

*Usernames.* What the requests have read may be stale, so the invariant says of them
only what the handler may rely on (`Good`); uniqueness and the cooldown follow from the
last statement alone. `Paid` ties the number of changes of a handle to the stamp of its
row. For the bucket the invariant is a balance: what the bucket holds, with the tokens
spent since any admission, is at most the burst and the refill since then. Since the clock
may be set back, all of it is in terms of `elapsed`: the stamp stands for the moment
`Since(bucket)` before now, and setting the clock back only moves that moment forward.

Only model-checked: liveness (`EscrowEmptiesEventually`, `HighEventsReachClients`,
`AbortedStreamsEnd`), which is out of the prover's reach. Every other property of a
passing run is a theorem.

## Findings

A place where the repository says one thing and the code does another; the run named
reaches it.

1. `hp_collision`: the comment of `buildHpSnapshotInsert`
   (`hpRecompute.ts:164-166`) says of two triggers in one block second that "the latest
   write wins". The writer inserts without a conflict clause, and the periodic trigger
   is not coalesced: a swap and a periodic snapshot of one token in one block make
   the second insert throw, which undoes the handler and stops the indexer.

Noticed while reading, with no run of their own. In the contracts:

* `setWinnerTicker` calls two winners with one ticker "structurally impossible"
  (`FilterLauncher.sol:411-414`). The reservation looks only at tickers that have won
  already, and seasons may overlap: season 2 can launch a ticker that season 1 then
  wins with, after which no `submitWinner` of season 2 on that token succeeds.
* The invariant test says that a finalized vault holds no WETH. If a loser was never
  filtered, its fees still flow into the vault. `ClosesCleanIfAllFiltered` is what does
  hold.
* The invariant test says `claimedTotal <= reserve` at all times. After a second bonus
  root, claims from both exceed it and are paid from other seasons' money.
  `BonusWithinReserve` is what does hold.
* `scheduler/src/phase.ts` says `setFinalists` "Reverts on unknown token". It does
  not look the token up. The runbook has the operator abort a sparse season so
  that the next `startSeason` "is unblocked"; it never was blocked. Both show at
  once in FilterLauncher: `SetFinalists` has no such guard, nor has `StartSeason`.
* `BonusDistributor.sol:128` says the oracle is rotated by the launcher; the
  launcher has no call to `setOracle` there.
* `POLVault` is said to hold no tokens; after settlement the winner's prize fees
  are sent to it, and it has no withdrawal. The POL slice of a tournament pot
  has no way out of `TournamentVault` either.
* A season POL reserve of exactly one wei makes `submitWinner` revert, since the
  locker swaps half of it (`CanDeployPOL`).
* If every token of a season is filtered, its vault stays Active for ever.
* `addTickerToBlocklist` has no guard against a ticker that is blocked already; it logs
  `TickerBlocked` again.
* An accepted admin transfer leaves the fee recipient that the previous admin chose.

In the indexer's tables and answers:

* Two logs can stop the indexer (`StopsOnlyOnRepeats`): a second `TickerBlocked` of one
  ticker, and a second `PhaseAdvanced` of a season at the same log index, since the id
  is `${seasonId}:${logIndex}` without the block.
* `launchProtocolToken` logs no `SlotReserved`, so the mirror of taken tickers misses
  it and `/tickers/check` answers "available" for a ticker that `reserve` refuses.
  `AnswersAreTheChains` has the exception.
* The constructor blocks FILTER, WETH, ETH, USDC, USDT and DAI
  (`contracts/src/FilterLauncher.sol:314-321`) and logs nothing, so the table
  `tickerBlocklist` does not have them although `ponder.schema.ts:460-463` says that it
  mirrors the launcher's and is "Seeded with FILTER/WETH/ETH/USDC/USDT/DAI", and
  `/tickers/check` answers "available" for FILTER where `api/index.ts:472` gives
  `blocklisted` as the answer; `reserve` refuses it. `AnswersAreTheChains` has this
  exception too, until the multisig blocks such a ticker again (`UntoldTickers`).
* The handler of `FinalistsSet` passes over a token whose `entryOf` call failed
  (`indexer/src/FilterLauncher.ts:199-204`) and never asks again: such a finalist stays
  unmarked unless a later list of its season is read.
* A comment says that abort zeroed `seasonTickers`; the contract leaves them. The
  calldata path of `FinalistsSet` marks tokens of any season.
* The CUT rows of the holder snapshots are of survivors only, written at
  `FilterEventProcessed` (`SeasonVault.ts:77`). `holdings.ts:36-40` and the schema speak of
  the first `Liquidated`, `holdings.ts:168-190` projects a filtered token's rollover from
  that token's own CUT rows, and the graveyard counts them as `holdersAtFilter`: under one
  cut per season there are none. The rows include the pool and the vault as holders.
* `createdTokenStatus` strips `ANNUAL_*` and falls through, so a quarterly champion
  that enters the annual tournament is shown as WEEKLY_WINNER, although
  `profile.ts:219-220` says that the promoted tier is returned.
* `updateDisplayCase` finds its row by address alone: a rename between its read and its
  write leaves the old handle's casing as the display name of the new one.

In HP snapshots and the scheduler:

* CUT and FINALIZE rows are `final` when they are inserted, and nothing waits for the 12
  blocks that the word means elsewhere. A recompute ranks the latest season, whichever one
  the webhook names; a webhook that lands late is stamped outside the tolerance; a boundary
  without a tick in its window is never ranked. `/internal/recompute`, which
  `compute-pathway.md:100` draws, is not there yet (line 223 says so).
* A boundary is marked as fired only after the awaited webhook
  (`hpPhaseRecompute.ts:126-127`), so two ticks that overlap, and a retry after a lost
  answer, rank it twice. `AnchorsAreSingle` excuses these; what it pins is that one tick
  after another asks again after a refusal and not after an answer.
* A retry of `runSettlement` with the same pending list reverts on the first loser that
  was filtered already.

In the event stream:

* The indexer's README (line 239) says that a LOW event suppressed by a busier batch
  reaches the client "cleanly on the next tick once things calm down". The next tick
  reads only the fees since the newer snapshot; the trade is never announced.
* `pipeline.ts:93` says that HIGH events are never silently discarded; the dedupe
  of stage 3 has no exception for them, so a second crossing of the cut line
  within 30 s is dropped. `PHASE_ADVANCED` is MEDIUM and edge-triggered: one that
  falls into a filter moment, where it is likely, is never announced.
* A queue of HIGH events grows past `perConnQueueMax` without a limit, by design;
  `ShedsLowestFirst` says exactly that.
* `recentFees` selects by block time: a row that is indexed after the tick that
  covered its second has passed is never seen, and a row of the boundary second
  is seen twice (the dedupe window hides that). It does not look at `asset` either,
  so fees collected in the launched token count as WETH, although `types.ts:64`
  says "in WETH wei".
* Once the next season has started, the last liquidations of the old one are not
  announced: a tick reads the newest season only.
* `Hub.closeAll` is "used at process shutdown"; nothing calls it.

In the web application, which is not modelled:

* A restart of the server starts event ids from 1 again, while the client drops ids it
  has seen and keeps the id of the filter moment it acknowledged: an open tab then drops
  new events, although `useFilterMoment` says that the overlay is gone "until a *newer*
  FILTER_FIRED arrives". A FILTER_FIRED evicted from the buffer of 100 events in the
  middle of the ceremony empties the list of filtered tokens. `useHpUpdates` lays an older
  stream value over a newer poll.

## Not modelled

* Role management and one-shot wiring: privileged calls are made by who may make
  them. Plain ERC-20 transfers of WETH to the contracts from outside, and calls
  of `fundBonus` by third parties. A protocol launch for an owner who also has a
  reservation in the season.
* Uniswap's pools, prices and the hook; slippage floors, which only make a call
  revert; the fees of the POL position, which no function collects.
* Factory, address mining, ticker normalisation, the lens, deploy scripts: wiring
  done once, or byte-wise computation without state.
* HP scoring: floating-point formulas, out of TLC's reach. The amounts behind HP
  spikes, volume spikes and trade sizes; message texts and payloads. `cadence` is
  arithmetic on one timestamp; its result is a constant here.
* The scheduler's `runner.ts`: it sends SeasonVault's transactions one after the
  other, which is one interleaving of those the model has. What its caller does after
  a failure is not in the repository.
* Chain reorganisations: Ponder undoes and replays rows itself, below the handlers.
* `setMetadataURI`; the amounts in holder snapshots; the pool rows of the factory.
* Format and signature checks of a username request, its availability query, requests
  from several addresses; the response cache; the operator console (signed reads of
  aggregates and alerts).
* The remaining read-only views (leaderboard, history, holdings, graveyard, winners):
  pure functions over these tables and scores, sorted and formatted. Of a request that
  asks for several rows, the API modules see one state of the tables, where the code
  awaits several queries.
* The web application: React components and hooks over the API. The ABI files are
  generated. These are most of the repository's lines, which is why the map covers a
  small share of them: the contracts, handlers and stateful services are mapped,
  rendering and generated code are not.

## Plan

Done: the launcher with its escrow and stakes, the weekly settlement, the
tournament, the creators' rights; the indexer that mirrors them with the answers made
from its tables; the event stream, the HP snapshots with the scheduler's triggers, the
username endpoint; their runs; the theorems above. Left, in order of importance:

1. The holdings and graveyard views, once it is settled which event their snapshot rows
   are meant to be taken at (see *Findings*).
2. An abstract promise for the settlement (a season is active, then settled with shares
   fixed once) that SeasonVault implements and `runSettlement` relies on.
