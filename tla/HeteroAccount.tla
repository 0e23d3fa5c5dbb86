---------------------------- MODULE HeteroAccount ----------------------------
(***************************************************************************)
(* Accounts of inventory (shares, a bond) and futures in several           *)
(* currencies, stepped boundary by boundary: for each agent the adapter    *)
(* copies the durable rows into a call of heterogeneous_account_step_rcpp, *)
(* which books the bond's interest, executes the orders group by group     *)
(* with rollback, marks the account, and whose proposal the adapter        *)
(* commits, settles and judges.  The route is the mixed one of the         *)
(* heterogeneous engine under portfolio margin; contracts have size one.   *)
(***************************************************************************)
EXTENDS Integers, FiniteSetsExt, SequencesExt

CONSTANTS
  NA, Den, Lev, FeeNum, FundNum,  \* as in TradeKernel
  FloorNum,   \* floor margin rate, by default the maintenance rate
  Agents, Spot, Futures, Bond,    \* the bond is one of the spot assets
  Ccy, Home,  \* Home[a]: the currency of asset a
  Rate,       \* Rate[c]: what a unit of c is worth in the base currency
  RiskDen,    \* scale of the covariances
  Risk,       \* Risk[a][b]: covariance times sigma squared, in 1/RiskDen
  UnitRisk,   \* sigma squared, in 1/RiskDen: the variance of an unlisted asset
  InitCash,   \* starting cash per currency, in 1/Den
  Bars,       \* Bars[a]: the bars asset a may print
  Batches,    \* the sets of assets that may print together
  Requests,   \* what may be submitted: [agent, derived, legs]
  Notices,    \* the explicit bond actions: [type, amount]
  Gaps,       \* the times between two boundaries
  Terms,      \* [lag, maturity]: settlement lags and maturities in use
  Interest,   \* interest of a bond per unit of time, in 1/Den
  Period, Face,  \* coupon period and face of the bond
  MaxGroups, MaxTime       \* bounds on the orders and on the time

K == INSTANCE TradeKernel
       WITH MmrNum <- 0, TgtDen <- 1, MakerNum <- FeeNum, TakerNum <- FeeNum, FillCost <- 0

Asset == Spot \cup Futures

Actions == {"OPEN", "INCREASE", "REDUCE", "CLOSE"}

ASSUME AccountAssumption ==
  /\ NA \notin Int /\ {Den, Lev, Period, RiskDen} \subseteq Nat \ {0} /\ Den % Lev = 0
  /\ {FeeNum, FundNum, FloorNum, UnitRisk, Interest, Face, MaxTime} \subseteq Nat
  /\ Spot \cap Futures = {} /\ IsFiniteSet(Futures) /\ Bond \in Spot
  /\ Batches \subseteq SUBSET Asset
  /\ \A a \in Asset : Home[a] \in Ccy /\ NA \notin Bars[a]
  /\ \A a \in Asset : \A b \in Bars[a] : {b.open, b.high, b.low, b.close} \subseteq Nat \ {0}
  /\ InitCash \in [Ccy -> Nat] /\ Gaps \subseteq Nat \ {0}
  /\ \A t \in Terms : {t.lag, t.maturity} \subseteq Nat
  /\ \A n \in Notices : n.amount \in Int
  /\ \A r \in Requests : r.agent \in Agents /\ IsFiniteSet(DOMAIN r.legs)
  /\ \A r \in Requests : \A k \in DOMAIN r.legs :
       /\ r.legs[k].asset \in Asset /\ r.legs[k].qty \in Nat
       /\ r.legs[k].side \in {"buy", "sell", "flat"}
       /\ r.legs[k].limit \in (Nat \ {0}) \cup {NA}
       /\ r.legs[k].tif \in {"gtc", "ioc", "fok"}
       /\ r.legs[k].action \in Actions \cup {NA} /\ r.legs[k].levered \in BOOLEAN

VARIABLES
  terms,       \* the settlement lag of inventory, the maturity of the bond
  now, bars,   \* the time and the bars of the boundary (NA: no bar)
  todo,        \* the agents not yet stepped at this boundary
  stage,       \* between boundaries, or stepping the agents
  placed,      \* the submitted groups
  fate,        \* fate[g][k]: [status, qty, at] of a leg
  book,        \* the durable account rows of every agent
  settlements, \* pending sale proceeds
  schedule,    \* the bond's durable cursors: [last, next, active]
  cursor,      \* the accrual cursor in the boundary's shared input
  notice,      \* the explicit bond action announced, and whether applied
  call,        \* the kernel call in progress
  ledger,      \* what the cash ledger adds up to
  ruined       \* the agents that have been liquidated

vars == <<terms, now, bars, todo, stage, placed, fate, book, settlements, schedule, cursor,
          notice, call, ledger, ruined>>

NoRow == [status |-> "accepted", qty |-> 0, at |-> 0]

Unopened ==
  [cash |-> InitCash, unsettled |-> [c \in Ccy |-> 0], units |-> [a \in Asset |-> 0],
   settle |-> [a \in Asset |-> NA], last |-> [a \in Asset |-> 0],
   since |-> [a \in Asset |-> NA], accrued |-> 0]

Init ==
  /\ terms \in Terms
  /\ now = 0 /\ bars = [a \in Asset |-> NA] /\ todo = {} /\ stage = "between"
  /\ placed = <<>> /\ fate = <<>> /\ call = NA
  /\ book = [g \in Agents |-> Unopened]
  /\ settlements = {} /\ ruined = {}
  /\ schedule = [last |-> 0, next |-> Period, active |-> TRUE] /\ cursor = NA
  /\ notice = NA
  /\ ledger = [g \in Agents |-> InitCash]

Batch == {a \in Asset : bars[a] # NA}

-----------------------------------------------------------------------------
(* Valuation of an account t, of which the futures in seen are shown; the  *)
(* covariance of an asset outside seen is that of a unit matrix.           *)

Equity(t, seen) ==
  MapThenSumSet(LAMBDA c : (t.cash[c] + t.unsettled[c]) * Rate[c], Ccy)
  + MapThenSumSet(LAMBDA a : Den * t.units[a] * t.last[a] * Rate[Home[a]], Spot)
  + t.accrued * Rate[Home[Bond]]
  + MapThenSumSet(LAMBDA a : IF t.settle[a] = NA THEN 0
                             ELSE Den * t.units[a] * (t.last[a] - t.settle[a]) * Rate[Home[a]],
                  Futures \cap seen)

Exposure(t, a) == Den * t.units[a] * t.last[a] * Rate[Home[a]]

(* In a snapshot, inventory counts with the interest it has accrued. *)
Notional(t, a) == Exposure(t, a) + (IF a = Bond THEN t.accrued * Rate[Home[a]] ELSE 0)

Covariance(a, b, seen) ==
  CASE {a, b} \subseteq seen -> Risk[a][b]
    [] ~({a, b} \subseteq seen) /\ a = b -> UnitRisk
    [] OTHER -> 0

HeldAssets(t, seen) == {a \in Spot \cup (Futures \cap seen) : t.units[a] # 0}

(* Both margins against an equity; size: what each asset held amounts to. *)
MarginMet(equity, size, seen) ==
  LET held     == DOMAIN size
      gross    == MapThenSumSet(LAMBDA a : K!AbsVal(size[a]), held)
      variance == MapThenSumSet(
                    LAMBDA e : size[e[1]] * Covariance(e[1], e[2], seen) * size[e[2]], held \X held)
  IN  /\ Den * equity >= FloorNum * gross
      /\ variance <= 0 \/ RiskDen * equity * equity >= variance

(* The kernel's question before a fill ... *)
CanCarry(t, seen) ==
  MarginMet(Equity(t, seen), [a \in HeldAssets(t, seen) |-> Exposure(t, a)], seen)

(* ... and the exchange's after the boundary. *)
Survives(t) ==
  MarginMet(Equity(t, Asset), [a \in HeldAssets(t, Asset) |-> Notional(t, a)], Asset)

-----------------------------------------------------------------------------
(* The legs of the submitted groups, and the normalized order batch.       *)

Legs == UNION {{<<g, k>> : k \in DOMAIN placed[g].legs} : g \in DOMAIN placed}

Leg(l) == placed[l[1]].legs[l[2]]

Derived(l) == placed[l[1]].derived

(* Only assets with a bar are looked at, so a group whose assets do not    *)
(* all print is split.                                                     *)
Accepted(agent) ==
  {l \in Legs : /\ placed[l[1]].agent = agent /\ fate[l[1]][l[2]].status = "accepted"
                /\ Leg(l).asset \in Batch}

Price(l) == IF Leg(l).limit # NA THEN Leg(l).limit ELSE bars[Leg(l).asset].open

(* Inventory reductions of a target group go first. *)
Priority(l) ==
  IF Derived(l) /\ Leg(l).asset \in Spot /\ Leg(l).side # "buy" THEN 0 ELSE 1

Before(l, m) ==
  \/ l[1] < m[1]
  \/ l[1] = m[1] /\ Priority(l) < Priority(m)
  \/ l[1] = m[1] /\ Priority(l) = Priority(m) /\ l[2] < m[2]

IsBuy(l) == Derived(l) /\ Leg(l).asset \in Spot /\ Leg(l).side = "buy"

UnitCost(l) == (Den + FeeNum) * Price(l)

(* An inventory target is clipped to the settled cash on its own, unless *)
(* its weight is above one (levered) ...                                 *)
ClippedBuy(l) ==
  LET cash == book[placed[l[1]].agent].cash[Home[Leg(l).asset]]
  IN  IF IsBuy(l) /\ ~Leg(l).levered THEN Max({0, Min({Leg(l).qty, cash \div UnitCost(l)})}) ELSE Leg(l).qty

(* ... and the buys of a group are scaled to the cash and its sells. *)
NormalQty(l, batch) ==
  LET ccy   == Home[Leg(l).asset]
      peers == {m \in batch : m[1] = l[1] /\ Leg(m).asset \in Spot /\ Home[Leg(m).asset] = ccy}
      sells == {m \in peers : Leg(m).side = "sell"}
      funds == book[placed[l[1]].agent].cash[ccy]
               + MapThenSumSet(LAMBDA m : (Den - FeeNum) * Leg(m).qty * Price(m), sells)
      asked == MapThenSumSet(LAMBDA m : ClippedBuy(m) * UnitCost(m), {m \in peers : IsBuy(m)})
  IN  IF IsBuy(l) /\ ClippedBuy(l) > 0 /\ asked > funds
      THEN (ClippedBuy(l) * Max({0, funds})) \div asked
      ELSE ClippedBuy(l)

Eligible(l) ==
  LET o == Leg(l)
  IN  CASE o.limit = NA \/ o.side = "flat" -> TRUE
        [] o.limit # NA /\ o.side = "buy" -> bars[o.asset].low <= o.limit
        [] OTHER -> bars[o.asset].high >= o.limit

-----------------------------------------------------------------------------
(* One leg of a group on an account t: the account after it and its row.   *)

Row(status, qty, fee) == [status |-> status, qty |-> qty, fee |-> fee]

Refused(t) == [acct |-> t, row |-> Row("rejected", 0, 0)]

NoChange(t) == [acct |-> t, row |-> Row("no_op", 0, 0)]

LegFee(l, delta) == FeeNum * K!AbsVal(delta) * Price(l)

SpotDelta(t, l, qty) ==
  CASE Leg(l).side = "buy" -> qty
    [] Leg(l).side = "sell" -> -qty
    [] OTHER -> -t.units[Leg(l).asset]

SpotCost(l, delta) == Den * delta * Price(l) + LegFee(l, delta)

(* Mutant: the fee is left out of the cash check. *)
AffordableFree(t, l, delta) ==
  /\ delta > 0 => t.cash[Home[Leg(l).asset]] >= Den * delta * Price(l)
  /\ t.units[Leg(l).asset] + delta >= 0

Affordable(t, l, delta) ==
  /\ delta > 0 => t.cash[Home[Leg(l).asset]] >= SpotCost(l, delta)
  /\ t.units[Leg(l).asset] + delta >= 0

(* A bond that is sold out takes its accrued interest with it. *)
SpotTraded(t, l, delta) ==
  LET a == Leg(l).asset
  IN  [t EXCEPT !.cash[Home[a]] = @ - SpotCost(l, delta),
                !.units[a] = @ + delta,
                !.accrued = IF a = Bond /\ t.units[a] + delta = 0 THEN 0 ELSE @]

SpotLeg(t, l, qty) ==
  LET delta == SpotDelta(t, l, qty)
  IN  IF ~Affordable(t, l, delta) THEN Refused(t)
      ELSE IF delta = 0 THEN NoChange(t)
      ELSE [acct |-> SpotTraded(t, l, delta),
            row |-> Row("filled", K!AbsVal(delta), LegFee(l, delta))]

SideSign(side) == CASE side = "buy" -> 1 [] side = "sell" -> -1 [] OTHER -> 0

(* Every order has an action code: an explicit one is sent as "open". *)
TargetUnits(l, held, qty) ==
  LET o == Leg(l)
  IN  CASE o.action = NA \/ o.action = "OPEN" -> SideSign(o.side) * qty
        [] o.action = "INCREASE" -> held + SideSign(o.side) * qty
        [] o.action = "REDUCE" -> held - (IF held >= 0 THEN 1 ELSE -1) * qty
        [] OTHER -> 0

Traded(t, l, delta) ==
  LET a == Leg(l).asset
  IN  [t EXCEPT !.cash[Home[a]] = @ - LegFee(l, delta), !.units[a] = @ + delta]

(* Feasible at the marks the account had before the fill. *)
Feasible(t, l, delta) ==
  LET a  == Leg(l).asset
      t2 == Traded(t, l, delta)
  IN  /\ t2.cash[Home[a]] >= 0
      /\ CanCarry(t2, Batch)
      /\ Den * K!AbsVal(t2.units[a] * Price(l)) <= Equity(t2, Batch) * Lev

(* The lots of a change that are filled: a target is clipped to its margin. *)
Lots(t, l, change) ==
  LET Fits(k) == Feasible(t, l, K!Sign(change) * k)
      asked   == K!AbsVal(change)
  IN  IF Fits(asked) THEN asked
      ELSE IF Derived(l) THEN K!LargestFit({k \in 0 .. asked : Fits(k)}, 0, asked) ELSE 0

FutureFilled(t, l, delta) ==
  LET a == Leg(l).asset
  IN  [Traded(t, l, delta) EXCEPT !.last[a] = Price(l),
                                  !.settle[a] = IF @ = NA THEN Price(l) ELSE @]

FutureLeg(t, l, qty) ==
  LET a      == Leg(l).asset
      change == TargetUnits(l, t.units[a], qty) - t.units[a]
      lots   == Lots(t, l, change)
  IN  IF t.cash[Home[a]] < LegFee(l, change) THEN Refused(t)
      ELSE IF change = 0 THEN NoChange(t)
      ELSE IF lots = 0 THEN Refused(t)
      ELSE [acct |-> FutureFilled(t, l, K!Sign(change) * lots),
            row |-> Row("filled", lots, LegFee(l, lots))]

Outcome(t, l, qty) ==
  IF Leg(l).asset \in Spot THEN SpotLeg(t, l, qty) ELSE FutureLeg(t, l, qty)

-----------------------------------------------------------------------------
(* The bond, and the marks at the end of the call.                         *)

(* The explicit action n on account t: the account and the cash it gave. *)
WithNotice(t, n) ==
  LET amount == t.units[Bond] * n.amount
      paid   == (IF n.type = "bond_accrual" THEN 0 ELSE amount)
                + (IF n.type = "redemption" THEN t.accrued ELSE 0)
  IN  [paid |-> paid,
       acct |-> [t EXCEPT !.cash[Home[Bond]] = @ + paid,
                          !.units[Bond] = IF n.type = "redemption" THEN 0 ELSE @,
                          !.accrued = IF n.type = "redemption" THEN 0
                                      ELSE IF n.type = "bond_accrual" THEN @ + amount
                                      ELSE @]]

Cutoff == Min({now, terms.maturity})

Coupons == IF schedule.next > Cutoff THEN 0 ELSE (Cutoff - schedule.next) \div Period + 1

(* Mutant: the interest of a period is kept when its coupon is paid. *)
WithScheduleKeeping(t) ==
  LET held    == t.units[Bond]
      begun   == IF Coupons = 0 THEN cursor
                 ELSE Max({cursor, schedule.next + (Coupons - 1) * Period})
      accrued == t.accrued + held * Interest * Max({0, Cutoff - begun})
      repaid  == IF now >= terms.maturity THEN Den * Face * held + accrued ELSE 0
      paid    == Coupons * held * Interest * Period + repaid
  IN  [paid |-> paid,
       acct |-> [t EXCEPT !.cash[Home[Bond]] = @ + paid,
                          !.units[Bond] = IF now >= terms.maturity THEN 0 ELSE @,
                          !.accrued = IF now >= terms.maturity THEN 0 ELSE accrued]]

(* The schedule: interest accrues from the cursor, every due coupon pays a *)
(* full period and clears it, and at maturity the bond is redeemed.        *)
WithSchedule(t) ==
  LET held    == t.units[Bond]
      begun   == IF Coupons = 0 THEN cursor
                 ELSE Max({cursor, schedule.next + (Coupons - 1) * Period})
      accrued == (IF Coupons = 0 THEN t.accrued ELSE 0)
                 + held * Interest * Max({0, Cutoff - begun})
      repaid  == IF now >= terms.maturity THEN Den * Face * held + accrued ELSE 0
      paid    == Coupons * held * Interest * Period + repaid
  IN  [paid |-> paid,
       acct |-> [t EXCEPT !.cash[Home[Bond]] = @ + paid,
                          !.units[Bond] = IF now >= terms.maturity THEN 0 ELSE @,
                          !.accrued = IF now >= terms.maturity THEN 0 ELSE accrued]]

(* What the account is before its orders: rows that were never valued are  *)
(* seeded with the close, then the explicit action, then the schedule.     *)
Seeded(t) ==
  LET fresh == {a \in Batch : t.last[a] = 0}
  IN  [t EXCEPT !.last = [a \in Asset |-> IF a \in fresh THEN bars[a].close ELSE @[a]],
                !.settle = [a \in Asset |-> IF a \in fresh \cap Futures THEN bars[a].close
                                            ELSE @[a]]]

Announced == notice # NA /\ Bond \in Batch /\ ~notice.applied

Scheduled(t) == cursor # NA /\ t.units[Bond] # 0

BeforeOrders(t) ==
  LET n == IF Announced THEN WithNotice(Seeded(t), notice) ELSE [acct |-> Seeded(t), paid |-> 0]
      b == IF Scheduled(n.acct) THEN WithSchedule(n.acct) ELSE [acct |-> n.acct, paid |-> 0]
  IN  [acct |-> b.acct, paid |-> n.paid + b.paid, accrues |-> Scheduled(n.acct)]

Funding(t, a) ==
  IF t.since[a] = NA THEN 0
  ELSE FundNum * (now - t.since[a]) * K!AbsVal(t.units[a] * t.last[a])

Variation(t, a) == Den * t.units[a] * (bars[a].close - t.settle[a])

(* What funding and variation margin take out of the cash in c. *)
MarkCost(t, c) ==
  MapThenSumSet(LAMBDA a : Funding(t, a) - Variation(t, a),
                {a \in Futures \cap Batch : Home[a] = c})

Marked(t) ==
  [t EXCEPT !.cash = [c \in Ccy |-> @[c] - MarkCost(t, c)],
            !.last = [a \in Asset |-> IF a \in Batch THEN bars[a].close ELSE @[a]],
            !.settle = [a \in Asset |-> IF a \in Futures \cap Batch THEN bars[a].close ELSE @[a]],
            !.since = [a \in Asset |-> IF a \in Futures \cap Batch THEN now ELSE @[a]]]

-----------------------------------------------------------------------------
(* Actions. *)

(* A target order says what the planner asks of the present position. *)
Submittable(r) ==
  \A k \in DOMAIN r.legs :
    LET o    == r.legs[k]
        held == book[r.agent].units[o.asset]
    IN  r.derived /\ o.asset \in Futures =>
          CASE o.action = "OPEN" -> held = 0
            [] o.action = "INCREASE" -> held # 0 /\ K!Sign(held) = SideSign(o.side)
            [] OTHER -> held # 0 /\ K!Sign(held) = -SideSign(o.side)

Submit(r) ==
  /\ stage = "between" /\ Len(placed) < MaxGroups /\ now < MaxTime /\ Submittable(r)
  /\ placed' = Append(placed, r)
  /\ fate' = Append(fate, [k \in DOMAIN r.legs |-> NoRow])
  /\ UNCHANGED <<now, bars, todo, stage, book, settlements, schedule, cursor, notice, call,
                 ledger, ruined>>

Announce(n) ==
  /\ stage = "between" /\ notice = NA /\ now < MaxTime
  /\ notice' = [type |-> n.type, amount |-> n.amount, applied |-> FALSE]
  /\ UNCHANGED <<now, bars, todo, stage, placed, fate, book, settlements, schedule, cursor,
                 call, ledger, ruined>>

(* The agents with an order on the batch or with a row of their own. *)
Stepped(batch) ==
  {g \in Agents : \/ \E a \in Asset : book[g].last[a] # 0
                  \/ \E l \in Legs : /\ placed[l[1]].agent = g /\ Leg(l).asset \in batch
                                     /\ fate[l[1]][l[2]].status = "accepted"}

Due(time) == {e \in settlements : e.due <= time}

DueTo(g, c, time) ==
  MapThenSumSet(LAMBDA e : e.amount, {e \in Due(time) : e.agent = g /\ e.ccy = c})

NewBoundary(batch, print, gap) ==
  /\ stage = "between" /\ now + gap <= MaxTime
  /\ now' = now + gap
  /\ bars' = [a \in Asset |-> IF a \in batch THEN print[a] ELSE NA]
  /\ book' = [g \in Agents |->
                [book[g] EXCEPT
                   !.cash = [c \in Ccy |-> @[c] + DueTo(g, c, now')],
                   !.unsettled = [c \in Ccy |-> @[c] - DueTo(g, c, now')]]]
  /\ ledger' = [g \in Agents |-> [c \in Ccy |-> ledger[g][c] + DueTo(g, c, now')]]
  /\ settlements' = settlements \ Due(now')
  /\ cursor' = IF schedule.active /\ Bond \in batch THEN schedule.last ELSE NA
  /\ todo' = Stepped(batch)
  /\ stage' = "agents"
  /\ UNCHANGED <<placed, fate, schedule, notice, call, ruined>>

(* The rows and the normalized orders of one agent cross into C++; the     *)
(* accrual cursor of the shared input is advanced in place.                *)
BeginCall(agent) ==
  LET start == BeforeOrders(book[agent])
      batch == Accepted(agent)
  IN  /\ stage = "agents" /\ call = NA /\ agent \in todo
      /\ call' = [agent |-> agent, acct |-> start.acct, saved |-> start.acct, open |-> 0,
                  todo |-> batch, qty |-> [l \in batch |-> NormalQty(l, batch)],
                  rows |-> [l \in {} |-> Row("none", 0, 0)], paid |-> start.paid]
      /\ cursor' = IF start.accrues THEN Max({cursor, Cutoff}) ELSE cursor
      /\ todo' = todo \ {agent}
      /\ UNCHANGED <<now, bars, stage, placed, fate, book, settlements, schedule, notice,
                     ledger, ruined>>

Peers(l) == {m \in call.todo : m[1] = l[1]}

IsNext(l) == l \in call.todo /\ \A m \in call.todo \ {l} : Before(l, m)

(* The rows with those of legs all answered alike, unexecuted. *)
Unexecuted(legs, status) ==
  [m \in DOMAIN call.rows \cup legs |->
     IF m \in legs THEN Row(status, 0, 0) ELSE call.rows[m]]

Quiet == UNCHANGED <<now, bars, todo, stage, placed, fate, book, settlements, schedule, cursor,
                     notice, ledger, ruined>>

(* Mutant: the snapshot of the first group serves all of them. *)
OpenGroupOnce(l) ==
  /\ call # NA /\ IsNext(l) /\ l[1] # call.open
  /\ \A m \in Peers(l) : Eligible(m)
  /\ call' = [call EXCEPT !.open = l[1]]
  /\ Quiet

(* The limits of all the members are looked at before the first leg runs. *)
OpenGroup(l) ==
  /\ call # NA /\ IsNext(l) /\ l[1] # call.open
  /\ \A m \in Peers(l) : Eligible(m)
  /\ call' = [call EXCEPT !.open = l[1], !.saved = call.acct]
  /\ Quiet

(* Mutant: only the members that are late are left out. *)
SkipLate(l) ==
  LET late   == {m \in Peers(l) : ~Eligible(m)}
      status == IF \E m \in late : Leg(m).tif = "fok" THEN "rejected"
                ELSE IF \E m \in late : Leg(m).tif = "ioc" THEN "cancelled" ELSE "accepted"
  IN  /\ call # NA /\ IsNext(l) /\ l[1] # call.open /\ late # {}
      /\ call' = [call EXCEPT !.rows = Unexecuted(late, status), !.todo = @ \ late]
      /\ Quiet

SkipGroup(l) ==
  LET late   == {m \in Peers(l) : ~Eligible(m)}
      status == IF \E m \in late : Leg(m).tif = "fok" THEN "rejected"
                ELSE IF \E m \in late : Leg(m).tif = "ioc" THEN "cancelled" ELSE "accepted"
  IN  /\ call # NA /\ IsNext(l) /\ l[1] # call.open /\ late # {}
      /\ call' = [call EXCEPT !.rows = Unexecuted(Peers(l), status), !.todo = @ \ Peers(l)]
      /\ Quiet

ExecuteLeg(l) ==
  LET out == Outcome(call.acct, l, call.qty[l])
  IN  /\ call # NA /\ IsNext(l) /\ l[1] = call.open
      /\ out.row.status # "rejected"
      /\ call' = [call EXCEPT !.acct = out.acct, !.todo = @ \ {l},
                              !.rows = [m \in DOMAIN @ \cup {l} |-> IF m = l THEN out.row ELSE @[m]]]
      /\ Quiet

(* Mutant: the account keeps what the earlier legs did. *)
RollBackRows(l) ==
  LET group == Peers(l) \cup {m \in DOMAIN call.rows : m[1] = l[1]}
  IN  /\ call # NA /\ IsNext(l) /\ l[1] = call.open
      /\ Outcome(call.acct, l, call.qty[l]).row.status = "rejected"
      /\ call' = [call EXCEPT !.todo = @ \ group, !.rows = Unexecuted(group, "rejected")]
      /\ Quiet

(* Mutant: the legs after the refused one still run. *)
RollBackOn(l) ==
  LET group == Peers(l) \cup {m \in DOMAIN call.rows : m[1] = l[1]}
  IN  /\ call # NA /\ IsNext(l) /\ l[1] = call.open
      /\ Outcome(call.acct, l, call.qty[l]).row.status = "rejected"
      /\ call' = [call EXCEPT !.acct = call.saved, !.todo = @ \ {l},
                              !.rows = Unexecuted(group, "rejected")]
      /\ Quiet

(* A refused leg takes the whole group with it. *)
RollBack(l) ==
  LET group == Peers(l) \cup {m \in DOMAIN call.rows : m[1] = l[1]}
  IN  /\ call # NA /\ IsNext(l) /\ l[1] = call.open
      /\ Outcome(call.acct, l, call.qty[l]).row.status = "rejected"
      /\ call' = [call EXCEPT !.acct = call.saved, !.todo = @ \ group,
                              !.rows = Unexecuted(group, "rejected")]
      /\ Quiet

Filled == {l \in DOMAIN call.rows : call.rows[l].status = "filled"}

Proceeds(l) == Den * call.rows[l].qty * Price(l) - call.rows[l].fee

(* Proceeds of sales are held back until they settle. *)
OnHold(c) ==
  {l \in Filled : /\ terms.lag > 0 /\ Leg(l).asset \in Spot /\ Leg(l).side = "sell"
                  /\ Home[Leg(l).asset] = c}

HeldBack(c) == MapThenSumSet(Proceeds, OnHold(c))

(* Mutant: a sale is booked when it is made and again when it settles. *)
LedgerRowTwice(l) ==
  IF Leg(l).asset \in Spot /\ Leg(l).side = "sell" THEN Proceeds(l)
  ELSE -(IF Leg(l).asset \in Futures THEN call.rows[l].fee
         ELSE Den * call.rows[l].qty * Price(l) + call.rows[l].fee)

(* The row of a fill in the cash ledger; only a "sell" is a sale. *)
LedgerRow(l) ==
  CASE Leg(l).asset \in Futures -> -call.rows[l].fee
    [] Leg(l).asset \in Spot /\ Leg(l).side = "sell" -> IF terms.lag > 0 THEN 0 ELSE Proceeds(l)
    [] OTHER -> -(Den * call.rows[l].qty * Price(l) + call.rows[l].fee)

Recorded(c) ==
  MapThenSumSet(LedgerRow, {l \in Filled : Home[Leg(l).asset] = c})
  + (IF c = Home[Bond] THEN call.paid ELSE 0) - MarkCost(call.acct, c)

(* Mutant: what is held back is not added to the unsettled cash. *)
CommittedDropping ==
  [Marked(call.acct) EXCEPT !.cash = [c \in Ccy |-> @[c] - HeldBack(c)]]

Committed ==
  [Marked(call.acct) EXCEPT !.cash = [c \in Ccy |-> @[c] - HeldBack(c)],
                            !.unsettled = [c \in Ccy |-> @[c] + HeldBack(c)]]

(* The verdict of .enforce_cross_margin takes the cash and leaves the rows. *)
Judged(t) ==
  IF Survives(t) THEN t
  ELSE [t EXCEPT !.cash = [c \in Ccy |-> 0], !.unsettled = [c \in Ccy |-> 0]]

(* A row that is still pending leaves its order as it was. *)
Fate(g, k) ==
  IF <<g, k>> \in DOMAIN call.rows /\ call.rows[<<g, k>>].status # "accepted"
  THEN [status |-> call.rows[<<g, k>>].status, qty |-> call.rows[<<g, k>>].qty, at |-> now]
  ELSE fate[g][k]

(* The proposal is marked, committed, projected and judged. *)
FinishCall ==
  LET g == call.agent
  IN  /\ call # NA /\ call.todo = {}
      /\ book' = [book EXCEPT ![g] = Judged(Committed)]
      /\ ruined' = IF Survives(Committed) THEN ruined ELSE ruined \cup {g}
      /\ fate' = [i \in DOMAIN fate |-> [k \in DOMAIN fate[i] |-> Fate(i, k)]]
      /\ ledger' = [ledger EXCEPT ![g] = [c \in Ccy |-> @[c] + Recorded(c)]]
      /\ settlements' = settlements \cup
           {[leg |-> l, agent |-> g, ccy |-> Home[Leg(l).asset], amount |-> Proceeds(l),
             due |-> now + terms.lag] : l \in UNION {OnHold(c) : c \in Ccy}}
      /\ call' = NA
      /\ UNCHANGED <<now, bars, todo, stage, placed, schedule, cursor, notice>>

(* The durable cursors move on once all the agents have been stepped. *)
EndBoundary ==
  /\ stage = "agents" /\ todo = {} /\ call = NA
  /\ stage' = "between"
  /\ bars' = [a \in Asset |-> NA] /\ cursor' = NA
  /\ notice' = IF Announced THEN [notice EXCEPT !.applied = TRUE] ELSE notice
  /\ schedule' = IF schedule.active /\ Bond \in Batch
                 THEN [last |-> Cutoff, next |-> schedule.next + Coupons * Period,
                       active |-> now < terms.maturity]
                 ELSE schedule
  /\ UNCHANGED <<now, todo, placed, fate, book, settlements, call, ledger, ruined>>

Prints == {print \in [Asset -> UNION {Bars[a] : a \in Asset}] :
             \A a \in Asset : print[a] \in Bars[a]}

Next ==
  /\ \/ \E r \in Requests : Submit(r)
     \/ \E n \in Notices : Announce(n)
     \/ \E batch \in Batches, print \in Prints, gap \in Gaps : NewBoundary(batch, print, gap)
     \/ \E agent \in Agents : BeginCall(agent)
     \/ \E l \in Legs : OpenGroup(l) \/ SkipGroup(l) \/ ExecuteLeg(l) \/ RollBack(l)
     \/ FinishCall \/ EndBoundary
  /\ UNCHANGED terms

Spec == Init /\ [][Next]_vars

-----------------------------------------------------------------------------
(* Properties. *)

Statuses == {"accepted", "filled", "no_op", "rejected", "cancelled"}

TypeOK ==
  /\ terms \in Terms /\ now \in 0 .. MaxTime /\ stage \in {"between", "agents"}
  /\ todo \subseteq Agents /\ ruined \subseteq Agents
  /\ DOMAIN fate = DOMAIN placed
  /\ \A g \in DOMAIN placed :
       /\ placed[g] \in Requests /\ DOMAIN fate[g] = DOMAIN placed[g].legs
       /\ \A k \in DOMAIN fate[g] : fate[g][k].status \in Statuses /\ fate[g][k].qty \in Nat
  /\ \A g \in Agents :
       /\ book[g].cash \in [Ccy -> Int] /\ book[g].units \in [Asset -> Int]
       /\ \A a \in Futures : book[g].units[a] # 0 => book[g].settle[a] # NA /\ book[g].last[a] > 0
       /\ \A a \in Spot : book[g].units[a] # 0 => book[g].last[a] > 0
       /\ book[g].accrued \in Nat
  /\ call # NA => call.agent \in Agents /\ DOMAIN call.rows \cap call.todo = {}

(* All the orders of a group share one outcome: all are executed, all are  *)
(* refused, all are cancelled or all still wait, whichever leg fails, at   *)
(* whatever price, and whatever the other groups of the boundary did.      *)
GroupsShareOutcome ==
  \A g \in DOMAIN fate :
    \E outcome \in {{"filled", "no_op"}, {"accepted"}, {"rejected"}, {"cancelled"}} :
      \A k \in DOMAIN fate[g] : fate[g][k].status \in outcome

(* The recorded fills explain the holdings: apart from a redeemed bond,    *)
(* the units of an inventory asset are what was bought less what was sold, *)
(* never negative, so that a refused group left nothing behind.            *)
FillsExplainHoldings ==
  \A g \in Agents, a \in Spot :
    LET filled == {l \in Legs : /\ placed[l[1]].agent = g /\ Leg(l).asset = a
                                /\ fate[l[1]][l[2]].status = "filled"}
        bought == MapThenSumSet(LAMBDA l : IF Leg(l).side = "buy" THEN fate[l[1]][l[2]].qty
                                           ELSE -fate[l[1]][l[2]].qty, filled)
    IN  book[g].units[a] >= 0 /\ (book[g].units[a] = bought \/ (a = Bond /\ book[g].units[a] <= bought))

(* The cash ledger adds up to the settled cash of every currency, through  *)
(* rollbacks, coupons, settlements and margins, as long as the account is  *)
(* not liquidated and has not sold inventory with a "flat" order.          *)
LedgerExplainsCash ==
  \A g \in Agents :
    \/ g \in ruined
    \/ \E l \in Legs : /\ placed[l[1]].agent = g /\ fate[l[1]][l[2]].status = "filled"
                        /\ Leg(l).asset \in Spot /\ Leg(l).side = "flat"
    \/ ledger[g] = book[g].cash

(* What is pending is what the accounts call unsettled. *)
PendingIsUnsettled ==
  \A g \in Agents, c \in Ccy :
    g \notin ruined =>
      book[g].unsettled[c] =
        MapThenSumSet(LAMBDA e : e.amount, {e \in settlements : e.agent = g /\ e.ccy = c})

(* A group and its row of fates, as AtomicGroups sees them. *)
GroupView(group, row) ==
  [agent   |-> group.agent,
   assets  |-> {group.legs[k].asset : k \in DOMAIN row},
   outcome |-> IF \E k \in DOMAIN row : row[k].status \in {"filled", "no_op"} THEN "executed"
               ELSE IF \A k \in DOMAIN row : row[k].status = "accepted" THEN "open"
               ELSE "refused"]

GroupsOf == [g \in DOMAIN placed |-> GroupView(placed[g], fate[g])]

A == INSTANCE AtomicGroups
       WITH Redeemable <- Bond, groups <- GroupsOf, units <- [g \in Agents |-> book[g].units]

(* The accounts keep the promise of AtomicGroups: a group is executed once *)
(* and as a whole, and holdings move with it and with nothing else.        *)
ImplementsGroups == A!Spec

(* Without a settlement lag inventory is never bought on credit: a cash    *)
(* balance that no future is charged to stays positive, whatever the order *)
(* of the legs and however a target was clipped and scaled.                *)
NeverOverdrawn ==
  \A g \in Agents, c \in Ccy :
    terms.lag = 0 /\ (\A a \in Futures : Home[a] # c) => book[g].cash[c] >= 0

(* Interest is earned by holding: an account without bonds has none, and   *)
(* the only holder, if it never sold, has what its purchases earned since  *)
(* the last coupon date, however sparse the boundaries were.               *)
InterestMatchesHolding ==
  \A g \in Agents :
    LET t      == book[g]
        trades == {l \in Legs : Leg(l).asset = Bond /\ fate[l[1]][l[2]].status = "filled"}
        alone  == \A l \in trades : placed[l[1]].agent = g /\ Leg(l).side = "buy"
        bought == MapThenSumSet(LAMBDA l : fate[l[1]][l[2]].qty, trades)
        coupon == Period * (schedule.last \div Period)
        earned == MapThenSumSet(LAMBDA l : fate[l[1]][l[2]].qty
                    * (schedule.last - Max({coupon, fate[l[1]][l[2]].at})), trades)
    IN  /\ t.units[Bond] = 0 => t.accrued = 0
        /\ stage = "between" /\ alone /\ t.units[Bond] = bought /\ schedule.active =>
             t.accrued = Interest * earned

(* Explicit contract orders are not resized (README.md:93-94): what is     *)
(* filled of an explicit order to buy or sell is what was ordered.         *)
ExplicitOrdersKeepTheirSize ==
  \A l \in Legs :
    ~Derived(l) /\ Leg(l).side # "flat" /\ fate[l[1]][l[2]].status = "filled" =>
      fate[l[1]][l[2]].qty = Leg(l).qty

(* A step does not change the input it is given (sim_heterogeneous_account *)
(* .R:66-67), so two agents who bought the same bonds at the same time     *)
(* have earned the same interest.                                          *)
EqualHoldersEarnAlike ==
  LET Trades(g) == {[qty |-> fate[l[1]][l[2]].qty, side |-> Leg(l).side, at |-> fate[l[1]][l[2]].at] :
                      l \in {m \in Legs : /\ placed[m[1]].agent = g /\ Leg(m).asset = Bond
                                          /\ fate[m[1]][m[2]].status = "filled"}}
  IN  stage = "between" =>
        \A g, h \in Agents : Trades(g) = Trades(h) => book[g].accrued = book[h].accrued
=============================================================================
