# TLA+ models of tradesimr

tradesimr is an R package with a C++ core that simulates an exchange: a
backtest kernel for one asset, a portfolio kernel for several, a target-weight
pipeline that turns decisions into orders, typed accounts for cash instruments
and derivatives, and a live service around them. This directory holds TLA+
modules for the parts whose state changes are hard to test, the TLC
configurations that check them on small instances, and proofs that TLAPS
checks for every instance.

Paths below are relative to the repository. `PROJECT.json` gives, for every
definition, the lines it stands for.

## Inventory

| component | source | state | operations | what makes it correct |
|---|---|---|---|---|
| trade kernel | `src/eng_tradestate.h`, `src/eng_exchange.h` | cash, direction, quantity, average price, mark | planning a target, trading, funding, marking, liquidation tests | exact cash and position accounting; entries covered by margin; planned exits executable |
| backtest loop and recorder | `src/ker_backtest.h`, `src/eng_recorder.h` | trade state, pending plan, recorder | one bar: orders, funding, mark, plan, same-close fills | every decision executed once and in order; the recorder explains the account; liquidation is final |
| portfolio kernel | `src/rcpp_backtest.cpp` (500-900) | one state per asset, shared cash | orders of a boundary, clipping by covariance margin, funding, marks, liquidation, variation margin | fills and charges explain the equity; every fill is covered; an account is covered or gone |
| mixed account kernel | `src/rcpp_backtest.cpp` (1089-1925), `R/sim_heterogeneous_*.R` | cash per currency, inventory, margin rows, schedules, pending settlements | normalization, atomic groups, bond actions, marks, commit | a group commits as a whole or not at all; holdings, cash and interest are explained by what is recorded |
| step engine | `R/sim_step.R` | one account | one bar | agrees with the backtest |
| exchange | `R/sim_exchange.R` | order table, agent states, margin tables, boundaries | place, cancel, step, translate, mark orders from events | one outcome per order, one fill per filled order |
| target pipeline | `R/sim_portfolio_replay.R` | targets, rebalances, orders, fills, universes | market step, submission, supersession, rejection | one pending chain per agent and asset; ledgers close together; no look-ahead |
| profile accounting | `R/sim_profile_accounting.R`, `R/sim_bond_schedules.R` | cash ledger, settlement ledger, accrual cursors, corporate actions | carry, settlement, dividends, coupons, expiry, roll | interest earned by holding and paid once; settlement once; nothing waits on an expired contract |
| command log | `R/sim_commands.R` | append-only requests | enqueue, process | each request processed once |
| feed and service | `R/sim_feed.R`, `R/sim_service.R` | a feed with a cursor per asset, the market model's cursor, the log of bars | configure, start, step, warmup, status, save, load | no stretch of time processed twice or skipped, whatever fails or is reloaded; no asset left behind |
| agents | `R/sim_agents.R` | registry, decision log | decide, rank | agents see the live bars, each once |
| calendars | `R/sim_calendars.R` | exceptions | classify bars | closed bars only carry valuations |
| bulk replay | `R/sim_portfolio_bulk_replay.R` | accumulators | replay | equals the sequential replay |
| reports, schemas, dashboard | the rest | none of their own | projections, files, pages | |

Interactions. Everything is called synchronously in one R process; the hard
orders are orders of *calls*. A market step (`sim_portfolio_market_step`)
settles expiries, executes the orders that are eligible, marks them from the
kernel's events and records the boundary; a submission
(`sim_portfolio_target_submit`) must name recorded boundaries, replaces pending
orders and appends new ones; explicit orders and cancellations come in between;
several agents share assets, boundaries, identifiers and one order table. The
dashboard's timer polls the feed (`inst/dashboard/shared/dashboard.js:473`), which
shows each completed bar to the agents, processes their commands and steps the
exchange. Nothing runs concurrently within a process, but a call may stop with an
error half-way, a save is some thirty files written one after the other, and the
process may die between two of them.

Hard behaviours: a bar is a sequence of stages that may each end the account; a
plan may be partly executed, left over and overwritten; several decisions may be
made at the same boundary, over different subsets of the universe; assets print
bars at different times, so that the orders of one rebalance are executed at
different boundaries; a plan may stop with an error after part of the state has
been changed; contracts expire between a decision and its execution.
`PROJECT.json` lists the hazards line by line with the properties that cover
them.

## Modules

| module | what it is |
|---|---|
| `TradeKernel` | the pure arithmetic of one account: valuation, sizing, planner, answers to trades and funding |
| `Backtest` | the bar loop as actions over `TradeKernel`, with the recorder |
| `FoldTheorems` | what sums over sets, folds over sequences and a binary search compute: lemmas for the proofs |
| `BacktestProofs` | theorems about `Backtest` and the kernel it is built on |
| `BacktestLedgerProofs` | theorems about its recorder and its solvency, built on those |
| `PendingChains` | abstract specification: at most one pending decision per agent and asset |
| `TargetOrders` | the order, target, rebalance and fill ledgers of the target pipeline |
| `TargetOrdersProofs` | theorems about the orders and targets of `TargetOrders` |
| `TargetLedgerProofs` | theorems about its fills, rebalances and agents, built on those |
| `PortfolioKernel` | a boundary of the derivatives route: planning, execution on shared cash, funding, liquidation, settlement |
| `PortfolioProofs` | theorems about `PortfolioKernel` |
| `AtomicGroups` | abstract specification: a group is executed once and as a whole, and holdings move with it only |
| `HeteroAccount` | a boundary of the mixed route: order groups over shares, a bond and futures in several currencies |
| `HeteroAccountProofs` | theorems about `HeteroAccount` |
| `FeedClock` | the live feeds: registry, cursors, polls, market model, saves that may be torn, loads |
| `FeedClockProofs` | theorems about `FeedClock` |
| `MCBacktest`, `MCTargetOrders`, `MCPortfolioKernel`, `MCHeteroAccount`, `MCFeedClock` | the inputs and constants of the instances TLC checks |

### TradeKernel and Backtest

A trade state is `[cash, dir, qty, avg, last]`, the fields of `TradeState`.
Quantities are in contract steps, prices in ticks, and money is an integer
number of `1/Den`, so fees, funding, margin and cash are exact; only the
weighted average price is truncated (the code uses doubles). `Trade`, `Funding`
and `IsLiquidated` are the three answers of `Exchange`; `Plan` is
`plan_action_mkt_ord`, `Executable` the clipping in `process_trade`.

`Backtest` cuts a bar where the code can leave it: `UpdateBar`, one
`ExecuteNext` or `KeepUnfilled` per order of the plan, `EndOrders`,
`ChargeFunding`, `MarkToClose`, `PlanTarget`, and `SkipBar` once liquidated. The
same-close fill model sends the fresh plan through the same order loop at the
close. `log` is the recorder. Prices and targets are inputs: `Bars` and
`Intents` are arbitrary sets of bars and intents.

### TargetOrders and PendingChains

`orders`, `targets`, `rebalances` and `fills` are the ledgers of the exchange
environment; the columns kept are those that say who, when, what became of it
and what replaced it. Quantities, prices and margins are abstracted: a plan asks
of an asset none, one or two orders (`.portfolio_asset_actions`), and what the
kernel answers to an eligible order is an input of `MarketStep`. A target order
is a market order of positive quantity, so it is always filled or rejected at
the first boundary it meets; explicit orders may also be no-ops or, being limit
orders, stay.

`MarketStep` is the whole `sim_portfolio_market_step` for a batch with at least
one executable bar: expiries (`ExpiredBy` - every due contract, whatever the
asset of the bar, because the filter at `sim_profile_accounting.R:751` compares a
column with itself), rejection of orders outside the agent's universe, execution
and the boundary. `ValuationStep` is a batch of closed or incomplete bars.
Submissions are `NoDecision`, `RejectTargets`, `SubmitTargets` and `FailPlan`,
one per way `.portfolio_submit_target` can end; all persist the universe first,
as the code does, so a failed plan has changed it.

Two details are simplified. The code stamps the rejection of a forbidden order
with the wall clock (`sim_exchange.R:1560`); the model uses the time of the
boundary. `.portfolio_set_agent_universe` refuses to drop an asset with an open
position; positions are not modelled, so any universe of active assets may be
named.

`PendingChains` says what all this is for: an agent's decision replaces what was
pending on the assets it names, becomes pending where its plan has orders, and
what is settled stays settled. `Chains` in `TargetOrders` maps the live decision
of an agent and asset to the rebalance of its accepted target orders.

### PortfolioKernel

One account of `typed_derivative_step_kernel` and what the exchange does around it.
Between boundaries `PlaceOrder` adds contract orders (buy, sell or flat) and target
orders (which carry the action the target planner asks for at the present
position). `NewBoundary` brings the bars, and `PlanOrder` takes the open orders one by
one, asset by asset, as the loop of `.exchange_orders_for_bar` does: it advances a
*predicted* position (`at`, `Predicted`) and ends an order that would change nothing.
The plan is finished before the kernel is called (`EndPlan`). `ExecuteOrder` takes the decisions one by one: the single-asset answer of `TradeKernel` with all of
the shared cash, then the margin of the whole portfolio (`Commits`), then the
largest clipped quantity found that passes both (`Clipped`), which is tested once
more when it is committed (`Fitting` in `Outcome`). `LeavePending` is a limit
order the bar does not reach. `ChargeFunding` charges and marks one asset after the
other, `Liquidate` or `Survive` is the verdict on the whole account, and
`SettleVariation` turns open profit into cash where futures settle daily.

The margin `max(sigma * sqrt(variance), floor * gross)` is compared by squaring, in
integers: `Risk` is the covariance matrix times `(sigma * Den)` squared (in
`HeteroAccount`, times `sigma` squared in `1/RiskDen`).
`flow`, `filled`, `booked`, `rounded` and `lost` are what the recorded events add up to;
the kernel does not keep them, and no guard reads them (`filled` only gives a fill
record its sign). `rounded` grows with every increase by the contracts then held: the
code averages prices in doubles, the model truncates, and a position of `n` contracts
can then be off by less than `n` units of money.

### HeteroAccount and AtomicGroups

A boundary of the mixed route steps one agent after the other. `BeginCall` copies
the agent's rows and its normalized orders into a kernel call and books what comes
before the orders: seeded marks, an explicit bond action (`WithNotice`), the bond's
schedule (`WithSchedule`). `OpenGroup`, `SkipGroup`, `ExecuteLeg` and `RollBack` are
the order loop, one leg at a time, so that a refusal meets what the earlier legs
left. `FinishCall` marks the account, commits it, holds back what a sale does not
settle yet, writes fates and ledger, and applies `.enforce_cross_margin` (`Judged`). The
margin is asked for twice with different exposures: the kernel's check before a fill takes
units at the mark (`CanCarry`), the verdict takes the snapshot, in which inventory also
counts with the interest it has accrued (`Survives`).
`NewBoundary` settles what is due, `EndBoundary` advances the durable cursors of the
schedule. `cursor` is the accrual cursor in the table all agents of a boundary
share, which the kernel advances in place.

Abstracted: contracts have size one, steps are one unit, there is one bond and one
rate of interest per unit of time, maker and taker fees are equal, and average
costs and realized profits, which no guard reads, are left out. `fate` is the order
table, `ledger` the sum of the cash ledger per currency.

`AtomicGroups` is the promise to the owner of a group: `Submit` adds an open group,
`Resolve` executes some open groups of one agent and refuses others, and a holding
changes only with an executed group that names the asset, or when the bond is paid
back. `GroupView` maps a group and its fates to it.

### FeedClock

A call that walks the feeds is cut where the code can leave it or where it stores
something: `call` holds what is running - the operation, the feeds still to walk
(`todo`), and, of the feed being walked, the bars it produced and the row it will
store. `Fail` is the error that ends a call at a removed asset, `ProcessBar` shows
one bar to the agents and steps the exchange, or is refused; `EndFeed` stores the
cursor. `PlanBatches`, `ProcessBatch` and `EndBatches` are the same for a market
model, which stores the cursors of the feeds with every batch and its own at the
end. `BeginFiles` and `WriteFile` save the tables the feeds depend on, in the
order of the code; `feed_status` holds `exchange$feed` as it was before the save listed the
feeds (`call.last`). `Crash` may come between any two files of any save, the first one
included, as soon as there is a file to load; `Load` configures
every saved feed, in the order of the rows, and then patches `exchange$feed` from
`feed_status`. A start ends in a status (`ListStarted`), which selects the paused feeds
too and may fail at one of them.

`torn` is a history variable no guard reads: the process has died within a save and left
on disk some asset's bars without the cursor that drives it, or not all the files
(`~Clocked`). `NoGaps` and `SavedClockTrailsBars` are about what comes before
that (see Observations).

`configure` gives a list that names only timeframe and mode, `reset` a whole
`sim_feed_config()`; both are in use (the HTTP route and R scripts). Prices are
abstracted to the asset whose series they continue; what agents do is left out, so
`decided` holds the bars that were shown to them. Assets are registered in one
order, auto-registration is off, a warmup asks for at least one bar (asked for none it
returns early and leaves the feed as it is, `sim_feed.R:542-544`), the market model is given no timeframe of its own,
and the `running` flag is left out because nothing reads it. An installation and the
calls made of it are a `setting`, chosen in `Init` and constant: one run looks at
several of them.

## Runs

| run | what it asks |
|---|---|
| `backtest_loop` | all properties of the loop, under both fill models and with execution costs |
| `target_orders_one_asset` | two agents on one contract that expires, flips, failed plans and an explicit order: ledger agreement, final outcomes, isolation |
| `target_orders_two_assets` | full and partial universes, bars of one or both assets, carried valuations: chains, ledgers closing together, no look-ahead, refinement |
| `feed_settings` | ten installations: feeds whose timeframes change, a market model with and without refused batches, two mixtures of everything (one with late external feeds, one with a model that is switched), one that dies within any save, and all calls that set no clock anew |
| `portfolio` | two correlated assets on one balance, contract and target orders, a crash, with and without variation margin |
| `hetero` | two agents, three assets, two currencies: groups that fill, wait, fail and are clipped, late settlement, coupons and redemptions |
| `backtest_clip_refused`, `target_orders_closed_fill`, `feed_removed`, `feed_inherited`, `hetero_interest`, `hetero_resized` | statements of the documentation the code does not keep (see Findings) |

Bounds. `MaxBars` is 4: enough to open, add to, flip
and be liquidated on the way, with a plan left over from each stage. The four
bars of `MCBacktest` rise, crash, drift and gap by up to half the price, so that
clipping, refusal and all three liquidations occur; the targets ask for nothing,
flat, 2x, a short of 1.5x and 1.5x by a limit order, so that positions are opened,
increased, reduced, closed and flipped. In `TargetOrders` the
times bound the number of boundaries, `MaxRebalances` the decisions (two: the
replaced and the replacing one) and `MaxExplicit` the explicit orders. Interleavings
of a third decision add no new kind of step: the invariants relate two orders or
an order and its rebalance, and the proofs cover every number. `OrderCounts` and
`Universes` bound the inputs; the run with one asset has flips, the run with two
has partial universes. In `FeedClock` the
clock ends at `MaxTime` 3, so a feed of timeframe 1 is up to three bars behind and
one of timeframe 2 meets a boundary it is not aligned with; polls ask for one bar
or for all. `maxCalls` bounds the administrative calls - every setting has room for the
sequence that would break it (register, poll, save, poll, tear, load), and they
differ in which calls they mix, because all of them together are too many
(`AnyTorn` and `AnyWhole` mix all that the properties are about); `maxLog`
bounds what repeated bars can add to the log. In `MCPortfolioKernel` an account of 15
that carries three contracts of price 10 at twice its value meets targets of 5 and 6
contracts, so that they are clipped by the account's leverage or by what another asset has used, and bars that
rise by 40 % or fall to half; three orders over three boundaries open, reduce,
increase, close and flip positions, and end accounts by the verdict and by funding.
`MaxOpen` is 2: two orders of an asset are planned at one boundary, so that the
position predicted for the second may be one the first does not leave (see
Observations). In `MCHeteroAccount` two
groups of nine kinds meet three boundaries five units of time apart: the coupon
period is 4, so a boundary passes one or two coupon dates, and maturity falls inside
the run or after it; cash pays for a few units, so that targets are clipped, scaled
and refused, and one leg of a group fails after another has been executed. `CHECK_DEADLOCK` is off because a backtest ends after its
last bar and a bounded pipeline runs out of times.

Fairness. `Backtest!FairSpec` asks for weak fairness of `Next`: the loop is a
`for` over the bars in one thread, which only stops by ending.
`FeedClock!FairSpec` asks for weak fairness of the running call (an R call runs to
its end) and of polls (the dashboard's timer polls for ever), of nothing
administrative and not of the clock. `KeptFeedsCatchUp` is about the settings in
which no asset is removed and nothing dies; `feed_removed` shows the same property
fail where one is. Nothing else
assumes fairness; the pipeline is driven by its callers, who may always stop.

## Properties

Backtest: `CashReconciles` and `PositionReconciles` rebuild cash and position
from the recorder alone; `DecisionsExecuteOnce` says identifiers of executed
decisions only increase; `OnlyIncreasesFail` that a planned exit or opening is
never refused; `EntriesAreClipped` that the position an entry leaves is covered
at the fill price, and that of what was decided no larger entry would be; `SolventBetweenBars` that an account which is not liquidated has no
negative equity when a target is planned, nor at the end of a bar if fills wait for the
next open (a same-close fill pays its fee after the last mark, and nothing tests the account
again before the next bar); `LiquidationIsFinal`, `Terminates`.

Pipeline: `OneChain`, `PendingIsOpen` and `RebalanceOutcome` relate the three
ledgers; `FillLedgerAgrees` the orders and the fills; `TargetFillsAreLater` an
execution and its decision; `SupersededByNewer`, `OutcomesAreFinal` what
supersession may touch; `ExpiredAreQuiet` orders and the asset registry;
`AgentsAreIsolated` the rows a submission may write; `ImplementsChains` all of
them and `PendingChains`.

Portfolio: `EquityIsExplained` values the recorded fills at the marks and compares
them with the equity the kernel derives from average prices, realized profits and
settlements: they differ by at most `rounded`; `LedgerReconciles` rebuilds the cash from the events; `FillsAreClipped`
says that no fill leaves less than the portfolio margin and that an entry for a target which the
margin has clipped could not have been one contract larger, `CoveredOrEmpty` that a
boundary ends with a covered account or with none, and that nothing revives a
liquidated one, although the flag is not carried over.

Mixed accounts: `GroupsShareOutcome` and `ImplementsGroups` are atomicity;
`FillsExplainHoldings`, `LedgerExplainsCash` and `PendingIsUnsettled` relate
holdings, cash and claims to the records, which a rollback that forgets something
breaks; `NeverOverdrawn` is what the cash checks, the scaling and the order of the
legs are for; `InterestMatchesHolding` recomputes accrued interest from the
purchases.

Feeds: `LiveBarsDoNotOverlap` and `NoGaps` say that the log of bars has every
stretch of time once; `SavedClockTrailsBars` is what makes the second survive a
torn save: `feed_configs` is written after `market_events`, so bars may be repeated
but are not skipped, as long as the files left on disk have a cursor for every log (`~torn`). `FeedsFollowModel` relates the two kinds of cursors,
`DecisionsMatchBars` the agents' view and the log, and `FeedsCatchUp` says that
polls reach every due bar. Each says for which calls it holds, as a condition on the
setting: `Steady` (nothing sets a clock anew), `MayTear`, `MayStepAlone`, or on its past, `torn`. Without its
condition each fails, for a reason the findings and observations name.

## Findings

1. *A clipped increase is refused after a gap.* `update_on_trade` takes the open
   position at the previous mark (`eng_exchange.h:142`), `fee_aware_target_qty`
   at the fill price; `README.md:82-89` promises that what fits is filled.
2. *An executed target is recorded as superseded before execution* when another
   asset of its rebalance is replaced (`sim_portfolio_replay.R:1118-1127`, against
   `:133-134`).
3. *A removed asset stops the feeds behind it*: its feed stays in the walk, and
   selecting it is an error (`sim_feed.R:1199`, `:1230`, against `:449-450`).
4. *A new feed continues the prices and the cursor of another asset*: both are
   taken from the feed touched last (`sim_feed.R:360-366`, against `NEWS.md:482-484`).

5. *Only the first agent of a boundary earns interest on a bond.* The kernel advances
   `last_accrual_timestamp` in the memory of the table it is given
   (`rcpp_backtest.cpp:1495`, `:1521`), and one table serves all agents
   (`sim_heterogeneous_inventory_adapter.R:1131-1134`); the documentation and a comment
   say that inputs are not changed (`sim_heterogeneous_account.R:66-67`,
   `rcpp_backtest.cpp:1936-1937`). The second agent that was stepped has no accrued
   interest, and at a redemption is paid less.
6. *An explicit order on a held future is executed as a target.* Normalization sends
   it as "open" (`sim_heterogeneous_inventory_adapter.R:791`), which the mixed kernel
   reads as the whole target position (`rcpp_backtest.cpp:1734-1737`), so holding 3 and
   buying 1 sells 2; `README.md:93-94` and `NEWS.md:50-51` say that explicit orders are
   never resized.

### Observations

The models also contain these behaviours of the code, which no run lists as a
finding; the properties they would break are checked without them.

- Orders may be superseded by a decision no ledger records, because the plan can
  stop with an error after supersession (`sim_portfolio_replay.R:528`, `:945`;
  action `FailPlan`).
- Explicit margin orders fill on the bar they are placed at (`sim_exchange.R:195`);
  `TargetFillsAreLater` is about target orders.
- A refused bar makes the bars before it repeat, because the cursor is stored after
  all of them (`sim_feed.R:509`; `ProcessBar` with `closed`): `LiveBarsDoNotOverlap` is
  about settings without refusals. Under a market model the feeds of a refused batch have
  moved past it and the model has not (`sim_feed.R:899`, `:909`).
- A feed stepped alone under a market model is stepped again by the model, which has
  its own cursor (`sim_feed.R:455-458`); it may also go on behind a batch that was refused,
  or have begun before the model did. `LiveBarsDoNotOverlap` and `NoGaps` are about settings
  in which the model is never switched and no feed of it is stepped alone.
- A reset feed and a warmup of a coarser timeframe set the cursor anew, ahead of the bars or
  behind them (`sim_feed.R:365`, `:560`): the properties of the clock are about `Steady` settings.
- A process that dies within its first save, or within the first save after a feed began, leaves
  `market_events` on disk without the feed's cursor (`sim_exchange.R:916-925`): the reloaded
  feed begins at the latest boundary (`sim_feed.R:1203-1211`, `:469-471`), and the time between is
  never simulated. `Crash` allows it and `torn` records it; without `~torn`, TLC finds the gap
  in `feed_settings`. No document says what a save that was interrupted leaves, so no run lists
  it as a finding.
- A bar an adapter does not have yet is never asked for again (`sim_feed.R:493-499`;
  `late`): `NoGaps` and `SavedClockTrailsBars` are about settings without late adapters.
- A session with an external feed cannot be loaded for want of its adapter
  (`sim_feed.R:375`; `Loadable`).
- Agents see a bar before the exchange derives whether its session is closed
  (`sim_feed.R:504`; `ShowToAgents` in `ProcessBar`).
- Portfolio funding that exhausts an asset's share empties the shared cash of the
  account without liquidating it (`rcpp_backtest.cpp:800-802`; `lost = "cash"`): the
  verdict at the end of the boundary may still find it covered by open profit.
- The planner of contract orders advances a predicted position for limit orders that
  may not fill (`sim_exchange.R:1406`): when the first of two open orders stays
  open or fails, a close carries the quantity of a position that is not there, an open
  replaces one that is held, and an increase of a flat account leaves a position without
  an average price, which is never marked and which no close accepts
  (`eng_exchange.h:165`). `EquityIsExplained` excepts exactly such executions
  (`PlannedFor`, `lost = "count"`); the other properties hold through them.
- An explicit order against the held position closes all of it: a sell of 1 contract
  against a long of 5 trades 5 (`sim_exchange.R:1472-1477`; `QtyOf`).
- Groups are filtered by the assets that print before they are tested for
  completeness (`sim_exchange.R:136-137`, `sim_heterogeneous_inventory_adapter.R:543-548`):
  where only some assets of a group print, it is split. The `Batches` of the runs and
  the hypothesis `WholeBatches` of the proofs exclude it.
- Liquidation of a mixed account clears the projected states and keeps the typed
  rows and the pending settlements (`sim_exchange.R:2361`; `Judged`): holdings and cash come
  back at a later boundary. The properties except ruined agents.
- A future's fill is tested at the marks before the fill and not at its price, and
  feasibility need not be monotone in the quantity, so the clipped quantity is not
  always the largest (`rcpp_backtest.cpp:1754-1782`); the fee is tested for the
  unclipped quantity (`:1747`); an asset without a bar counts with variance one.
- A `flat` order that sells inventory is booked as a purchase in the cash ledger
  (`sim_heterogeneous_inventory_adapter.R:413-419`); `LedgerExplainsCash` excepts it.
- Proceeds that settle late can be spent on the boundary of the sale, as
  `NEWS.md:192-195` says, and may leave a negative settled balance: `NeverOverdrawn` is about
  accounts without a lag.
- A bond bought after its maturity is never paid back, since its schedule is inactive.

## Proofs

`TargetOrdersProofs` proves, for any finite or infinite sets of agents and assets
and any bounds, from `TargetOrdersAssumption` alone (and, for the refinement, the
same constants):

| theorem | statement | strengthening |
|---|---|---|
| `TypeCorrectness` | `Spec => []TypeOK` | `NewIds`: both counters are ahead of every ledger, so an identifier is never reused |
| `FinalOutcomes` | `Spec => OutcomesAreFinal` | `Typed` (`TypeOK` and `NewIds`) |
| `OnePendingChain` | `Spec => []OneChain` | `Typed` |
| `LedgersCloseTogether` | `Spec => []PendingIsOpen` | `PendingTargets`: who owns the target row of a pending order |
| `NoLookAhead` | `Spec => []TargetFillsAreLater` | `DecisionTimed`: a target order waits from its own decision |
| `ExpiryIsQuiet` | `Spec => []ExpiredAreQuiet` | `Typed` |
| `ChainsImplemented` | `Spec => ImplementsChains` | all of `OneChain` and `Typed` |

The argument has two parts. Every step is classified as *quiet* (no order
becomes pending, some settle) or *replacing* (one decision supersedes what is
pending on its assets and adds orders of its own): `StepKinds`. Each invariant is
then preserved by a quiet step and by a replacing step, and only the two have to
be looked at instead of ten actions. `NewIds` is what makes the types inductive:
without it a new row could overwrite an old one.

`TargetLedgerProofs` builds on these four more, about the ledgers beside the orders:

| theorem | statement | strengthening |
|---|---|---|
| `FillsMatchOrders` | `Spec => []FillLedgerAgrees` | `Typed`; `Records` says what a step may write to the orders and fills it did not create |
| `OnlyNewerSupersede` | `Spec => []SupersededByNewer` | `Typed`: a successor's identifier is below the counter |
| `ClosedRebalances` | `Spec => []RebalanceOutcome` | `Typed`; `NumberedAhead`: the rebalance about to be numbered has neither legs nor fills, so what is closed is never reopened |
| `SubmissionsAreIsolated` | `Spec => AgentsAreIsolated` | `LegOwners`: a leg belongs to the agent of its rebalance, so closing rebalances touches no other agent; `StepSubmissions` says of every step whether it submits, refuses or runs between submissions |

`BacktestProofs` proves five theorems for every leverage, fee, rate, bar and target, and
for backtests of any length, from `KernelAssumption` and `BacktestAssumption`:

| theorem | statement | strengthening |
|---|---|---|
| `LoopIsTyped` | `Spec => []TypeOK` | all of `Inv`: cash is a number only if a held position has an average price (`Staged`) |
| `PlannedTradesSucceed` | `Spec => []OnlyIncreasesFail` | `Planned`: what is still to be executed suits the position it will meet |
| `NoDecisionTwice` | `Spec => []DecisionsExecuteOnce` | `Numbered`: the decisions of a plan are numbered after every trade on record |
| `ClipIsExact` | `Spec => EntriesAreClipped` | `Inv`, with `Answered` (what is answered to a planned decision) and `ClipIsTight` (a quantity beyond the cap does not fit) |
| `LiquidationFreezes` | `Spec => LiquidationIsFinal` | `Staged`: a liquidated account has nothing queued and is in no stage that charges or plans |

None of the invariants is inductive alone. That a planned exit executes rests on the planner
(`PlanType`: what it asks for suits the state it read), on nothing between planning and
execution changing the position (`SamePosition`: marks and charges change cash and prices
only), and, for the opening behind a close, on the close having executed (`TailFits`).
That an opening executes is arithmetic: the clipped quantity is covered at its own
price, fee included, or it is zero and the account is solvent (`EntryCovered`,
`OpeningCovered`), because the clip and the check of the exchange use the same fee
and margin. An increase is checked against the margin at the last mark and clipped
at the fill price, and so can fail. `ReducedWithin` shows that rounding never makes a reduction
exceed the position. `ClipIsTight` is the converse of `EntryCovered`: equity less fees falls and the
margin rises with every unit, by exactly the cost the quotient divides by, so whatever exceeds
the quotient exceeds the headroom (`BeyondQuotient`); where the headroom is negative, nothing fits.

`BacktestLedgerProofs` adds three, built on these and on `FoldTheorems`:

| theorem | statement | strengthening |
|---|---|---|
| `RecorderExplainsCash` | `Spec => []CashReconciles` | `Inv` and `Ledger` (cash and position together): a fill changes both, and one record explains both |
| `RecorderExplainsPosition` | `Spec => []PositionReconciles` | the same |
| `PlansAreSolvent` | `Spec => []SolventBetweenBars` | `Solvent`: while orders are executed the account is not liquidated, and same-close orders exist only in the same-close model |

`CashReconciles` and `PositionReconciles` fold over the whole log; the proof needs only
what one more record does to the fold (`HeldStep`, and `FoldTheorems` below), and that each of the
actions appends the record of exactly what it changed.

`FoldTheorems` holds what the proofs need of sums over finite sets, folds over sequences and
the binary search of the clip. The community modules define their folds as recursive
functions, and the induction theorems of the library cannot be instantiated; the lemmas are
proved by a smallest counterexample instead (`SmallestSet`, `SmallestNat`, from `WFMin`).
`FoldExists` and `SumExists` show that the recursive function is there, `SumAdd`, `SumRemove`,
`SumChange`, `SumUnion` and `RunStep` how it moves by one member, `SearchFits` that what a
binary search returns passes its test. `SearchIsTight` shows that what follows it
in the range does not, whatever the test is, and `SearchIsLargest` that it is the maximum where
everything below a member passes; the searches of the code need the first, since a margin need
not grow with the quantity. `SumScale` takes a factor out of a sum.

`HeteroAccountProofs` proves nine theorems for any number of agents, groups, legs,
assets and currencies, whatever the prices, the margins and the answers of the kernel,
from `AccountAssumption`. The first two need `WholeBatches`, the hypothesis that the assets of a group
print together:

| theorem | statement | strengthening |
|---|---|---|
| `GroupsShareOutcomes` | `Spec => []GroupsShareOutcome` | `GroupInv`: a running call holds the pending legs of whole groups, and the rows of a group already answered agree |
| `GroupsImplemented` | `Spec => ImplementsGroups` | `UnitInv`: between calls an agent's holdings are its own, and during a call they differ from the durable ones only in assets of groups that have executed a leg |
| `AccountsAreWellFormed` | `Spec => []TypeOK` | `LedgerInv` |
| `PendingExplainsUnsettled` | `Spec => []PendingIsUnsettled` | `LedgerInv` |
| `FillsExplainInventory` | `Spec => []FillsExplainHoldings` | `LedgerInv` |
| `LedgerAddsUp` | `Spec => []LedgerExplainsCash` | `LedgerInv` |
| `InventoryIsPaidFor` | `Spec => []NeverOverdrawn` | `LedgerInv` |
| `InterestIsEarned` | `Spec => []InterestMatchesHolding` | `InterestInv`: an agent's interest runs to its own horizon, during a boundary too |
| `FutureClipIsTight` | what `Lots` clips a target's order on a future to can be carried, and one contract more cannot | none: `SearchIsTight` |

`GroupsShareOutcome` is not inductive: an order's fate is written by `FinishCall` from
the rows of the call, so what the order loop keeps true of the rows (all legs of a
closed group executed, or all answered alike) has to be carried along, one lemma per
action (`OpenGroupKeeps` ... `RollBackKeeps`). The refinement maps `FinishCall` to
`Resolve`, a boundary and the order loop to a stutter, and `Submit` to `Submit`.

`LedgerInv` does the same for amounts, and holds for split groups too. Between calls it says what each durable
account has to do with the orders, the pending settlements and the ledger (`Accounts`);
within a call, that the account of the call is the durable one plus what the bond paid and
the rows answered so far (`Explain`), and that the snapshot a rollback returns to is
explained in the same way by the rows of the *earlier* groups. This is why a rollback leaves nothing
behind, and why it has to restore every field that a leg may change. Three of the six theorems about amounts have hypotheses.
`AccountsAreWellFormed` and `InventoryIsPaidFor` assume `NoClawback` (no announced bond action
takes money back: the code tests only that the amount is finite, `sim_profile_accounting.R:307`), and the latter `FeeNum <= Den`
(the fee of a sale is at most its proceeds).

`InterestInv` is needed because `InterestMatchesHolding` speaks of the time between boundaries only, while the
cursor of the shared schedule moves once and the agents' interest one agent at a time. Each agent
has a horizon: the present once it was stepped (`Ahead`), the durable cursor until then, and its interest is
`Earned(Horizon(g))`, the sum over its purchases of quantity times the time since the purchase or the last
coupon date, whichever is later. The agent that made every trade cannot lose interest to an
earlier one, because it finds the shared cursor where its own interest stops (`Times`); the others have
no bonds to lose it on. Within a call the same is said of the account and of the snapshot of a
rollback (`CallInterest`), and coupon dates passed by a sparse boundary cut the sum where they
pay it out (`CouponsBetween`). `InterestIsEarned` assumes `NoAccruals` (an announced `bond_accrual` adds interest
that no holding earned) and `NoCall` (the value that stands for no running call is not a record of
a call; TLC's model value `NA` is none).

The proofs corrected the model in one place:
a purchase is scaled to the cash of its group only if the clip has left something to buy
(`NormalQty`).

`PortfolioProofs` proves six theorems for any number of assets, boundaries and orders
and any covariance, leverage, fees and prices, from `PortfolioAssumption`:

| theorem | statement | strengthening |
|---|---|---|
| `TypesAndPrices` | `Spec => []TypeOK` | `Inv` is `TypeOK` with the ledger; its part `HeldHasPrice` says that a held position has an average price |
| `LedgerExplainsBalance` | `Spec => []LedgerReconciles` | `Inv`: the amounts of fills, charges and settlements are integers only if positions, prices and planned decisions are typed |
| `PortfolioClip` | `Spec => FillsAreClipped` | `Inv`, with `OutcomeCases` (whatever the search of the clip tries, only what is committed is filled) and `OutcomeTight` (one contract more would not be) |
| `MonotoneClip` | `Clipped` is the largest of `Fitting` where every part of what can be carried can be carried | none: `SearchIsLargest` |
| `RecordsExplainEquity` | `Spec => []EquityIsExplained` | `ValueInv`: what the fills cost and what the average prices say they cost differ by at most `rounded`, and the fills of an asset add up to its position |
| `SurvivorsAreCovered` | `Spec => []CoveredOrEmpty`, if all prices are above the fill cost (`PositivePrices`) | `SolidInv`: queued limit orders have positive prices too, and the verdict at the end of a boundary stands while variation margin is settled |

The argument follows the money: `TradeCases` reads off the three answers of the
exchange, `TradeAnswers` and `FundingAnswers` show that each changes the cash by
exactly what it reports, `OutcomeAnswers` carries this through clipping and refusal,
and one lemma per action (`PlaceOrderKeeps` ... `SettleVariationKeeps`) through a
boundary. `HeldHasPrice` is kept by an increase only of a position that has a price
already, and fails exactly where a planner's prediction does (see Observations).
The margin of the whole account depends on the covariance and on the other positions: a hedge may
make a larger entry cheaper, so the clipped quantity need not be the largest that fits. The proof shows what the search does
guarantee: the next contract never fits, and nothing is filled only if the first does not; where margins do
grow with the quantity, that makes it the largest (`MonotoneClip`).
`EquityIsExplained` states the exact bound that the truncated average allows: every increase
of a position to `n` contracts adds less than `n` to the difference. `PositivePrices`
excludes entries at a price of zero or less, which the code does not refuse.

`FeedClockProofs` proves six theorems for any number of assets, timeframes and calls and an
unbounded clock, from the assumption on `Settings`:

| theorem | statement | strengthening |
|---|---|---|
| `ClockIsWellFormed` | `Spec => []TypeOK` | `TypeInv`: with `Shape`, what a call knows - a fetched feed has been stored, the batches of a model name stored feeds only, what a save has written is what memory holds, a file on disk implies those before it |
| `AgentsSawTheLog` | `Spec => []DecisionsMatchBars` | `ShownInv`: the same within a call and on a disk that is not being written |
| `TimeIsSimulatedOnce` | `Spec => []LiveBarsDoNotOverlap` | `LineInv`: a cursor, in memory and on disk, covers the live bars of its log, and the bars a call still has to process line up between the log and the cursor they lead to |
| `FeedsStandWithModel` | `Spec => []FeedsFollowModel` | `FollowInv`: during a call the feeds follow the batches, and the model follows at its end |
| `NoTimeIsSkipped` | `Spec => []NoGaps` | `GapInv`: until `torn`, a log reaches the clock of its feed, and what a call has yet to process begins where the log ends |
| `SavesTrailTheirLogs` | `Spec => []SavedClockTrailsBars` | `GapInv`: until `torn`, a saved log reaches the saved clock, and a saved clock is never ahead of the running one |

`Kinds` sorts the steps by what they do to feeds, logs, model and disk (a feed
is placed, a bar is appended, a file is written, everything is loaded), and each invariant is
proved for the kinds. Four small invariants carry the facts that the large ones share:
`KeptInv` (an asset with bars has a feed, in memory and on disk), `ModeInv` (where calls are steady the
model is the one of the installation, so the calls that run are its own), `FreshInv` (no cursor
is ahead of the present boundary where warmups are made, and no feed waits for a start time)
and `TimedInv` (a feed being walked has a cursor). `TornInv` says that
`torn` is set only where a save may be torn, and that until then all files are on disk or none, unless one is
being written; `KeptInv` and all that rests on it hold until it is set, because a death
within a save leaves the disk as these invariants need it exactly when the files are `Clocked`
(`WholeCrash`). `SavedClockTrailsBars` is where the order of the
files enters: logs are the first file, feeds the last, and between them no cursor goes back.
The proofs sharpened the model: a warmup asks for at least one bar, because for none the code
returns before it stores a cursor; `Steady` requires warmups at the default timeframe,
because a feed has it before it is configured, so that a single other one makes two; and
`LiveBarsDoNotOverlap` compares every two live bars of a log and not only neighbours.

Every invariant and action property of the passing runs is stated by a theorem. Only model-checked are
`Terminates` and `KeptFeedsCatchUp`, which are liveness under fairness and stay with TLC. Where a proof could be stated without a recursive
definition, it was: `Among` selects from a sequence by a fold, since `SelectSeq` is recursive inside the
standard module.

## Not modelled

The per-bar step engine (`R/sim_step.R`, `step_rcpp` and `spot_step_rcpp`), the
command log and the bulk replay are not modelled yet (see the plan). Of the mixed
route, the inventory-only kernel, order preflight and contract sizes other than one;
of profile accounting, dividends, splits, carry on balances, cash settlement of
expiring futures and rolls; of the exchange, the per-asset spot route and the legacy
route. Of the live service, how prices are generated, the HTTP routes and the two
dozen saved tables that no feed depends on are left out. Floating point is not modelled: the tolerances of the code (1e-8,
1e-10, 1e-12) have no counterpart in integer arithmetic. Calendars, schemas,
exports, ranking, the vectorised front ends and the dashboard are pure
conversions or presentation.

## Plan

1. `TradeKernel`, `Backtest`, `BacktestProofs` - done.
2. `TargetOrders`, `PendingChains`, `TargetOrdersProofs`, `TargetLedgerProofs` - done.
3. `PortfolioKernel`, with the order planner of the exchange, `PortfolioProofs` - done.
4. `HeteroAccount`, `AtomicGroups`, `HeteroAccountProofs` - done, with settlement and
   bond schedules.
5. `FeedClock` - done.
6. `CommandLog`, to be composed with `FeedClock`: requests and cancellations
   processed between the agents' decision and the bar, and across a torn save.
7. The step engine as an implementation of one bar of `Backtest`.
8. Expiry and rolls with positions; carry on balances.
9. Proofs: that the clock of `FeedClock` implements an abstract log without gaps.
