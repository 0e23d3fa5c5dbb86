---------------------------- MODULE TargetOrders ----------------------------
(***************************************************************************)
(* The life of an order in the target-weight pipeline of                   *)
(* sim_portfolio_replay.R on margin assets: market boundaries are stepped, *)
(* target decisions are submitted at an accepted boundary, supersede the   *)
(* orders they replace, and are executed at a later bar of their asset,    *)
(* next to explicit contract orders placed through sim_exchange.R.         *)
(*                                                                         *)
(* Quantities, prices and margins are abstracted.  What a decision asks of *)
(* an asset is the number of orders its plan needs: none when the target   *)
(* is already held, one, or two when the position flips.  What the kernel  *)
(* answers to an eligible order is an input of the step.                   *)
(***************************************************************************)
EXTENDS Naturals

CONSTANTS
  NA,            \* the program's NA
  Agents, Assets,
  Expiry,        \* when the contract of an asset expires, or NA
  Policy,        \* the decision policy of the submissions
  MaxStaleness,  \* how old a carried valuation may be
  MaxTime,       \* bound on timestamps
  MaxRebalances, \* bound on submitted decisions
  MaxExplicit,   \* bound on explicit orders
  OrderCounts,   \* how many orders a plan may need for an asset
  Universes      \* the asset universes a decision may name

Policies == {"complete_universe", "per_asset_decision", "as_of_valuation"}

ASSUME TargetOrdersAssumption ==
  /\ NA \notin Nat
  /\ Expiry \in [Assets -> Nat \cup {NA}]
  /\ Policy \in Policies
  /\ {MaxStaleness, MaxTime, MaxRebalances, MaxExplicit} \subseteq Nat
  /\ OrderCounts \subseteq {0, 1, 2}
  /\ Universes \subseteq SUBSET Assets

VARIABLES
  orders,        \* agent_orders: order id -> row
  targets,       \* portfolio_targets: <<rebalance id, asset>> -> row
  rebalances,    \* portfolio_rebalances: rebalance id -> row
  fills,         \* portfolio_fills: [order, ts]
  nextRebalance, \* next_rebalance_id
  nextExplicit,  \* counts the explicit orders
  lastBar,       \* the newest bar of each asset in market_events, 0 for none
  boundaries,    \* portfolio_market_boundaries: <<asset, timestamp>>
  universe,      \* the persisted allowed assets of each agent
  expired        \* the assets whose status is "expired"

ledgers == <<orders, targets, rebalances, fills, nextRebalance, nextExplicit>>

market == <<lastBar, boundaries, universe, expired>>

vars == <<ledgers, market>>

Terminal == {"filled", "rejected", "cancelled", "superseded", "no_op"}

Times == 1 .. MaxTime

(* A target order is leg 1 or 2 of the plan its rebalance has for an asset.*)
OrderId(reb, asset, leg) == [reb |-> reb, asset |-> asset, leg |-> leg]

TargetDerived(o) == o.reb # NA

Row(agent, ts, after, type) ==
  [agent |-> agent, ts |-> ts, after |-> after, type |-> type,
   status |-> "accepted", settled |-> NA, by |-> NA]

Accepted(o) == orders[o].status = "accepted"

Settle(o, status, ts) == [orders[o] EXCEPT !.status = status, !.settled = ts]

Init ==
  /\ orders = [o \in {} |-> NA]
  /\ targets = [t \in {} |-> NA]
  /\ rebalances = [r \in {} |-> NA]
  /\ fills = {}
  /\ nextRebalance = 1 /\ nextExplicit = 1
  /\ lastBar = [a \in Assets |-> 0]
  /\ boundaries = {}
  /\ universe = [g \in Agents |-> Assets]
  /\ expired = {}

-----------------------------------------------------------------------------
(* sim_portfolio_market_step, sim_exchange_step and the portfolio step.    *)

(* Expiring contracts are settled at the first executable boundary of any  *)
(* asset.                                                                  *)
ExpiredBy(ts) == {a \in Assets : Expiry[a] # NA /\ Expiry[a] <= ts}

(* Mutant: an order may meet the boundary it was decided at. *)
EligibleAtDecision(o, ts) ==
  /\ Accepted(o)
  /\ orders[o].ts <= ts
  /\ orders[o].after # NA => orders[o].after <= ts

(* Mutant: a settled order is taken again. *)
EligibleAgain(o, ts) ==
  /\ orders[o].ts <= ts
  /\ orders[o].after # NA => orders[o].after < ts

(* .portfolio_boundary_step_index *)
Eligible(o, ts) ==
  /\ Accepted(o)
  /\ orders[o].ts <= ts
  /\ orders[o].after # NA => orders[o].after < ts

(* What the planner and the kernel may answer.  A target order is a market *)
(* order of positive quantity and always meets the bar.                    *)
Answers(o) ==
  IF TargetDerived(o) THEN {"filled", "rejected"}
  ELSE IF orders[o].type = "market" THEN {"filled", "rejected", "no_op"}
  ELSE {"filled", "rejected", "no_op", "accepted"}

Forbidden(o) == o.asset \notin universe[orders[o].agent]

Due(batch, ts) ==
  {o \in DOMAIN orders : o.asset \in batch /\ Eligible(o, ts)
                           /\ o.asset \notin ExpiredBy(ts) /\ ~Forbidden(o)}

(* .portfolio_require_new_bars: a bar is newer than every bar of its asset;*)
(* a bar of a closed or incomplete session only carries a valuation.       *)
ValuationStep(batch, ts) ==
  /\ \A a \in batch : ts > lastBar[a]
  /\ lastBar' = [a \in Assets |-> IF a \in batch THEN ts ELSE lastBar[a]]
  /\ UNCHANGED <<ledgers, boundaries, universe, expired>>

MarketStep(batch, tradable, ts) ==
  /\ tradable # {} /\ tradable \subseteq batch
  /\ \A a \in batch : ts > lastBar[a]
  /\ lastBar' = [a \in Assets |-> IF a \in batch THEN ts ELSE lastBar[a]]
  /\ boundaries' = boundaries \cup {<<a, ts>> : a \in tradable}
  /\ expired' = expired \cup ExpiredBy(ts)
  /\ \E answer \in [Due(tradable, ts) -> {"filled", "rejected", "no_op", "accepted"}] :
       /\ \A o \in DOMAIN answer : answer[o] \in Answers(o)
       /\ orders' = [o \in DOMAIN orders |->
            CASE Accepted(o) /\ o.asset \in ExpiredBy(ts) \ expired ->
                   Settle(o, "cancelled", ts)
              [] o \in DOMAIN answer /\ answer[o] # "accepted" ->
                   Settle(o, answer[o], ts)
              [] Accepted(o) /\ o.asset \in tradable \ ExpiredBy(ts) /\ Forbidden(o) ->
                   Settle(o, "rejected", ts)
              [] OTHER -> orders[o]]
       /\ fills' = fills \cup
            {[order |-> o, ts |-> ts] :
               o \in {p \in DOMAIN answer : answer[p] = "filled" /\ TargetDerived(p)}}
  /\ UNCHANGED <<targets, rebalances, nextRebalance, nextExplicit, universe>>

-----------------------------------------------------------------------------
(* sim_portfolio_target_submit for one agent, at the bars of decided.      *)

AcceptedBoundary(decided, ts) ==
  decided # {} /\ \A a \in decided : <<a, ts>> \in boundaries

(* .portfolio_require_decision_policy; carried valuations are the newest   *)
(* ones in the market history.                                             *)
PolicyHolds(allowed, wanted, decided, ts) ==
  CASE Policy = "complete_universe" ->
         (\E a \in allowed : allowed # {a}) => allowed \subseteq decided
    [] Policy = "per_asset_decision" -> wanted \subseteq decided
    [] Policy = "as_of_valuation" ->
         \A a \in allowed : lastBar[a] > 0 /\ ts <= lastBar[a] + MaxStaleness

(* Mutants: explicit orders, settled orders, or the orders of every agent  *)
(* are taken for pending ones.                                             *)
PendingExplicit(agent, wanted) ==
  {o \in DOMAIN orders : orders[o].agent = agent /\ o.asset \in wanted /\ Accepted(o)}

PendingSettled(agent, wanted) ==
  {o \in DOMAIN orders :
     orders[o].agent = agent /\ o.asset \in wanted /\ TargetDerived(o)}

PendingOfAll(agent, wanted) ==
  {o \in DOMAIN orders : o.asset \in wanted /\ Accepted(o) /\ TargetDerived(o)}

(* The accepted target orders the decision would replace. *)
Pending(agent, wanted) ==
  {o \in DOMAIN orders : /\ orders[o].agent = agent /\ o.asset \in wanted
                         /\ Accepted(o) /\ TargetDerived(o)}

Supersede(o, r, ts) == [Settle(o, "superseded", ts) EXCEPT !.by = r]

(* Mutant: the row lacks its supersession column. *)
RebalanceRowShort(agent, ts, status) == [agent |-> agent, ts |-> ts, status |-> status]

RebalanceRow(agent, ts, status) == [agent |-> agent, ts |-> ts, status |-> status, by |-> NA]

(* Mutant: the rebalance is closed with the first of its orders. *)
ClosedAtOnce(agent, wanted) == {o.reb : o \in Pending(agent, wanted)}

(* The rebalance of a replaced order is closed once none of its orders is  *)
(* left pending.                                                           *)
Closed(agent, wanted) ==
  {r \in {o.reb : o \in Pending(agent, wanted)} :
     \A o \in DOMAIN orders : o.reb = r /\ Accepted(o) => o \in Pending(agent, wanted)}

(* Mutant: a rejected leg counts as an execution. *)
HasSettled(r) ==
  \E o \in DOMAIN orders : o.reb = r /\ orders[o].status \in {"filled", "rejected"}

HasFills(r) == \E f \in fills : f.order.reb = r

CloseRebalances(agent, wanted, r) ==
  [q \in DOMAIN rebalances |->
     IF q \in Closed(agent, wanted)
     THEN [rebalances[q] EXCEPT
             !.status = IF HasFills(q) THEN "partially_superseded" ELSE "superseded",
             !.by = r]
     ELSE rebalances[q]]

(* Mutant: a second decision at the same boundary leaves the first alone.  *)
SupersedeOlder(agent, wanted, r, ts) ==
  [o \in DOMAIN orders |->
     IF o \in Pending(agent, wanted) /\ orders[o].ts < ts
     THEN Supersede(o, r, ts) ELSE orders[o]]

SupersedeOrders(agent, wanted, r, ts) ==
  [o \in DOMAIN orders |->
     IF o \in Pending(agent, wanted) THEN Supersede(o, r, ts) ELSE orders[o]]

(* The target rows of the replaced rebalances go with their orders.        *)
SupersedeTargets(agent, wanted, r) ==
  [t \in DOMAIN targets |->
     IF /\ t[2] \in wanted /\ targets[t].agent = agent /\ targets[t].status = "accepted"
        /\ \E o \in Pending(agent, wanted) : o.reb = t[1]
     THEN [targets[t] EXCEPT !.status = "superseded", !.by = r]
     ELSE targets[t]]

(* Mutant: an expired contract may be targeted. *)
SetAnyUniverse(agent, allowed, decided, ts) ==
  /\ AcceptedBoundary(decided, ts)
  /\ allowed # {}
  /\ universe' = [universe EXCEPT ![agent] = allowed]
  /\ UNCHANGED <<fills, nextExplicit, lastBar, boundaries, expired>>

(* The bars must have been stepped; the universe is persisted first.       *)
SetUniverse(agent, allowed, decided, ts) ==
  /\ AcceptedBoundary(decided, ts)
  /\ allowed # {} /\ allowed \cap expired = {}
  /\ universe' = [universe EXCEPT ![agent] = allowed]
  /\ UNCHANGED <<fills, nextExplicit, lastBar, boundaries, expired>>

Decides(agent, allowed, decided, ts) ==
  /\ nextRebalance <= MaxRebalances
  /\ SetUniverse(agent, allowed, decided, ts)
  /\ nextRebalance' = nextRebalance + 1

(* NULL targets: no decision, prior orders and positions are retained. *)
NoDecision(agent, allowed, decided, ts) ==
  /\ SetUniverse(agent, allowed, decided, ts)
  /\ UNCHANGED <<orders, targets, rebalances, nextRebalance>>

(* Targets outside the universe, or beyond the gross weight. *)
RejectTargets(agent, allowed, decided, ts) ==
  /\ Decides(agent, allowed, decided, ts)
  /\ rebalances' = [q \in DOMAIN rebalances \cup {nextRebalance} |->
                      IF q = nextRebalance THEN RebalanceRow(agent, ts, "rejected")
                      ELSE rebalances[q]]
  /\ UNCHANGED <<orders, targets>>

(* A plan: legs gives every wanted asset the orders it needs.              *)
SubmitTargets(agent, allowed, decided, ts, legs) ==
  LET wanted == DOMAIN legs
      r      == nextRebalance
      new    == {o \in [reb : {r}, asset : wanted, leg : {1, 2}] : o.leg <= legs[o.asset]}
  IN  /\ Decides(agent, allowed, decided, ts)
      /\ wanted # {} /\ wanted \subseteq allowed
      /\ PolicyHolds(allowed, wanted, decided, ts)
      /\ orders' = [o \in DOMAIN orders \cup new |->
                      IF o \in new THEN Row(agent, ts, ts, "market")
                      ELSE SupersedeOrders(agent, wanted, r, ts)[o]]
      /\ targets' = [t \in DOMAIN targets \cup ({r} \X wanted) |->
                       IF t \in {r} \X wanted
                       THEN [agent |-> agent, by |-> NA,
                             status |-> IF legs[t[2]] = 0 THEN "no_op" ELSE "accepted"]
                       ELSE SupersedeTargets(agent, wanted, r)[t]]
      /\ rebalances' = [q \in DOMAIN rebalances \cup {r} |->
                          IF q = r
                          THEN RebalanceRow(agent, ts, IF new = {} THEN "no_op" ELSE "accepted")
                          ELSE CloseRebalances(agent, wanted, r)[q]]

(* The plan stops with an error (no positive equity, no price) after the   *)
(* pending orders have been superseded.                                    *)
FailPlan(agent, allowed, decided, ts, wanted) ==
  /\ Decides(agent, allowed, decided, ts)
  /\ wanted # {} /\ wanted \subseteq allowed
  /\ PolicyHolds(allowed, wanted, decided, ts)
  /\ orders' = SupersedeOrders(agent, wanted, nextRebalance, ts)
  /\ targets' = SupersedeTargets(agent, wanted, nextRebalance)
  /\ rebalances' = CloseRebalances(agent, wanted, nextRebalance)

-----------------------------------------------------------------------------
(* sim_exchange_place_order on a margin asset, and the cancellation. *)

PlaceOrder(agent, asset, ts, type) ==
  LET o == OrderId(NA, asset, nextExplicit)
  IN  /\ nextExplicit <= MaxExplicit
      /\ asset \notin expired
      /\ orders' = [p \in DOMAIN orders \cup {o} |->
                      IF p = o THEN Row(agent, ts, NA, type) ELSE orders[p]]
      /\ nextExplicit' = nextExplicit + 1
      /\ UNCHANGED <<targets, rebalances, fills, nextRebalance, market>>

CancelOrder(o) ==
  /\ Accepted(o)
  /\ orders' = [orders EXCEPT ![o].status = "cancelled"]
  /\ UNCHANGED <<targets, rebalances, fills, nextRebalance, nextExplicit, market>>

Next ==
  \/ \E batch \in SUBSET Assets \ {{}}, ts \in Times :
       \/ ValuationStep(batch, ts)
       \/ \E tradable \in SUBSET batch : MarketStep(batch, tradable, ts)
  \/ \E agent \in Agents, allowed \in Universes, decided \in SUBSET Assets, ts \in Times :
       \/ NoDecision(agent, allowed, decided, ts)
       \/ RejectTargets(agent, allowed, decided, ts)
       \/ \E wanted \in SUBSET allowed :
            \/ FailPlan(agent, allowed, decided, ts, wanted)
            \/ \E legs \in [wanted -> OrderCounts] :
                 SubmitTargets(agent, allowed, decided, ts, legs)
  \/ \E agent \in Agents, asset \in Assets, ts \in Times, type \in {"market", "limit"} :
       PlaceOrder(agent, asset, ts, type)
  \/ \E o \in DOMAIN orders : CancelOrder(o)

Spec == Init /\ [][Next]_vars

-----------------------------------------------------------------------------
(* Properties. *)

OrderIds == [reb : Nat \cup {NA}, asset : Assets, leg : Nat]

OrderRows ==
  [agent : Agents, ts : Nat, after : Nat \cup {NA}, type : {"market", "limit"},
   status : Terminal \cup {"accepted"}, settled : Nat \cup {NA}, by : Nat \cup {NA}]

TargetRows == [agent : Agents, status : {"accepted", "no_op", "superseded"}, by : Nat \cup {NA}]

RebalanceRows ==
  [agent : Agents, ts : Nat, by : Nat \cup {NA},
   status : {"accepted", "no_op", "rejected", "superseded", "partially_superseded"}]

TypeOK ==
  /\ DOMAIN orders \subseteq OrderIds /\ orders \in [DOMAIN orders -> OrderRows]
  /\ DOMAIN targets \subseteq Nat \X Assets /\ targets \in [DOMAIN targets -> TargetRows]
  /\ DOMAIN rebalances \subseteq Nat /\ rebalances \in [DOMAIN rebalances -> RebalanceRows]
  /\ fills \subseteq [order : OrderIds, ts : Nat]
  /\ nextRebalance \in Nat /\ nextExplicit \in Nat
  /\ lastBar \in [Assets -> Nat]
  /\ boundaries \subseteq Assets \X Nat
  /\ universe \in [Agents -> SUBSET Assets]
  /\ expired \subseteq Assets

(* Each asset of an agent has one pending target chain: all its accepted   *)
(* target orders come from the same decision                               *)
(* (.portfolio_supersede_pending_targets).                                 *)
OneChain ==
  \A o, p \in DOMAIN orders :
    /\ Accepted(o) /\ TargetDerived(o) /\ Accepted(p) /\ TargetDerived(p)
    /\ orders[o].agent = orders[p].agent /\ o.asset = p.asset
    => o.reb = p.reb

(* A pending target order belongs to a rebalance and a target that are     *)
(* still recorded as accepted: the three ledgers close together.           *)
PendingIsOpen ==
  \A o \in DOMAIN orders :
    Accepted(o) /\ TargetDerived(o) =>
      /\ o.reb \in DOMAIN rebalances /\ rebalances[o.reb].status = "accepted"
      /\ <<o.reb, o.asset>> \in DOMAIN targets
      /\ targets[<<o.reb, o.asset>>].status = "accepted"

(* A rebalance closed by a later decision has nothing left pending, and    *)
(* says "partially" exactly when one of its legs did execute; a rejected   *)
(* or no-op rebalance never had orders.                                    *)
RebalanceOutcome ==
  \A q \in DOMAIN rebalances :
    LET status == rebalances[q].status
        pending == \E o \in DOMAIN orders : o.reb = q /\ Accepted(o)
        filled == \E f \in fills : f.order.reb = q
    IN  /\ status \in {"superseded", "partially_superseded"} =>
             ~pending /\ (filled <=> status = "partially_superseded")
        /\ status \in {"rejected", "no_op"} => \A o \in DOMAIN orders : o.reb # q

(* The fill ledger and the order ledger agree: a fill is the fill of an    *)
(* order that is filled at that time, and every filled target order has    *)
(* one (.append_portfolio_fill).                                           *)
FillLedgerAgrees ==
  /\ \A f \in fills : f.order \in DOMAIN orders
                       /\ orders[f.order].status = "filled" /\ orders[f.order].settled = f.ts
  /\ \A o \in DOMAIN orders : TargetDerived(o) /\ orders[o].status = "filled" =>
       \E f \in fills : f.order = o

(* No look-ahead: a target order fills at an executable bar of its asset   *)
(* that is strictly later than the boundary of the decision.               *)
TargetFillsAreLater ==
  \A o \in DOMAIN orders :
    TargetDerived(o) /\ orders[o].status = "filled" =>
      /\ orders[o].settled > orders[o].ts
      /\ <<o.asset, orders[o].settled>> \in boundaries

(* Only target orders are superseded, and only by a later decision.        *)
SupersededByNewer ==
  \A o \in DOMAIN orders :
    orders[o].status = "superseded" => TargetDerived(o) /\ orders[o].by > o.reb

(* Nothing waits on a contract that has expired. *)
ExpiredAreQuiet ==
  \A o \in DOMAIN orders : Accepted(o) => o.asset \notin expired

(* The order ledger is durable: no row disappears, and the outcome of an   *)
(* order, once recorded, is never rewritten by a later step.               *)
OutcomesAreFinal ==
  [][ \A o \in DOMAIN orders :
        /\ o \in DOMAIN orders'
        /\ ~Accepted(o) => orders'[o] = orders[o] ]_vars

(* Agents are isolated: a submission adds or changes rows of one agent     *)
(* only, whatever the assets the agents share.                             *)
AgentsAreIsolated ==
  [][ nextRebalance' # nextRebalance =>
        \E g \in Agents :
          /\ \A o \in DOMAIN orders' :
               orders'[o].agent # g => o \in DOMAIN orders /\ orders'[o] = orders[o]
          /\ \A t \in DOMAIN targets' :
               targets'[t].agent # g => t \in DOMAIN targets /\ targets'[t] = targets[t]
          /\ \A q \in DOMAIN rebalances' :
               rebalances'[q].agent # g =>
                 q \in DOMAIN rebalances /\ rebalances'[q] = rebalances[q] ]_vars

(* The pipeline implements PendingChains. *)
PendingRebalances(agent, asset) ==
  {o.reb : o \in {p \in DOMAIN orders : /\ orders[p].agent = agent /\ p.asset = asset
                                        /\ Accepted(p) /\ TargetDerived(p)}}

LiveDecision(agent, asset) ==
  IF PendingRebalances(agent, asset) = {} THEN 0
  ELSE CHOOSE r \in PendingRebalances(agent, asset) : TRUE

liveDecisions == [g \in Agents |-> [a \in Assets |-> LiveDecision(g, a)]]

Chains == INSTANCE PendingChains WITH live <- liveDecisions, next <- nextRebalance

ImplementsChains == Chains!ChainSpec

-----------------------------------------------------------------------------
(* A statement of the documentation that the code does not keep. *)

(* A target that reads "superseded before execution" was not executed      *)
(* (sim_portfolio_replay.R:133-134, "supersedes still-unfilled             *)
(* target-derived orders", and the message at :1126).                      *)
SupersededTargetsAreUnfilled ==
  \A t \in DOMAIN targets :
    targets[t].status = "superseded" =>
      \A o \in DOMAIN orders : o.reb = t[1] /\ o.asset = t[2] => orders[o].status # "filled"
=============================================================================
