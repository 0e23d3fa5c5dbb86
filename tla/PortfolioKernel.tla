--------------------------- MODULE PortfolioKernel ---------------------------
(***************************************************************************)
(* A portfolio of derivatives on one shared cash balance: the contract and *)
(* target orders of a boundary are planned one by one against predicted    *)
(* positions (.exchange_orders_for_bar), and typed_derivative_step_kernel in         *)
(* rcpp_backtest.cpp executes them one by one under the portfolio margin,  *)
(* charges funding asset by asset, and liquidates or settles the account.  *)
(* Units are those of TradeKernel, whose arithmetic is used with a zero    *)
(* maintenance rate: the portfolio margin takes its place.                 *)
(***************************************************************************)
EXTENDS Integers, Sequences, FiniteSetsExt

CONSTANTS
  NA, Den, Lev, MakerNum, TakerNum, FundNum, FillCost,   \* as in TradeKernel
  NAssets,     \* the assets are 1 .. NAssets, in the order of the batch
  Risk,        \* Risk[i][j]: covariance, times (sigma * Den) squared
  FloorNum,    \* floor margin rate, in Den-ths of the gross exposure
  InitCash,    \* starting cash, in 1/Den
  Bars,        \* Bars[a]: the bars asset a may print
  Orders,      \* what an agent may submit: [asset, intended, side, type, px, qty]
  MaxOpen,     \* bound on the open orders of an asset
  MaxOrders,   \* bound on the orders submitted
  MaxBoundary, \* bound on the boundaries
  Settling     \* whether variation margin is settled, as for futures: a set of choices

K == INSTANCE TradeKernel WITH MmrNum <- 0, TgtDen <- 1

ASSUME PortfolioAssumption ==
  /\ {NAssets, Den, Lev} \subseteq Nat \ {0} /\ NA \notin Int /\ Den % Lev = 0
  /\ {MakerNum, TakerNum, FundNum, FillCost, FloorNum, InitCash} \subseteq Nat
  /\ {MaxOrders, MaxBoundary} \subseteq Nat /\ Settling \subseteq BOOLEAN
  /\ \A i, j \in 1 .. NAssets : Risk[i][j] \in Int
  /\ \A a \in 1 .. NAssets : Bars[a] \subseteq [open : Nat, high : Nat, low : Nat, close : Nat]
  /\ \A o \in Orders : /\ o.asset \in 1 .. NAssets /\ o.qty \in Nat \ {0}
                       /\ o.side \in {-1, 0, 1} /\ o.type \in {"MARKET", "LIMIT"}
                       /\ o.intended \in K!Entries \cup K!Exits \cup {NA}
                       /\ o.intended \in K!Entries => o.side # 0
                       /\ o.px \in Nat \cup {NA} /\ (o.type = "LIMIT" => o.px \in Nat)

VARIABLES
  settling,   \* whether this account's assets are all futures
  stage,      \* what the boundary does next
  n,          \* boundaries seen
  bars,       \* the bars of the boundary
  cash,       \* the shared cash balance
  pos,        \* pos[a]: [dir, qty, avg, last]
  book,       \* open orders, numbered: [id, ord]
  submitted,  \* orders submitted
  planning,   \* the orders of the boundary not yet planned
  at,         \* at[a]: [dir, qty] predicted from the orders planned so far
  queue,      \* the planned decisions not yet tried on this boundary
  due,        \* the next asset to be charged, or settled
  liquidated, \* the outcome of the last boundary
  flow,       \* what the recorded fills and charges took out of the account
  filled,     \* filled[a]: the signed quantity of the recorded fills
  booked,     \* the cash effects of the recorded events
  rounded,    \* the units held after each increase, whose average price is truncated
  lost        \* what no event explains: nothing, count (contracts, by an order that met
              \* a position it was not planned for), cash (by funding), or all

vars == <<settling, stage, n, bars, cash, pos, book, submitted, planning, at, queue, due,
          liquidated, flow, filled, booked, rounded, lost>>

planner == <<planning, at>>

records == <<flow, filled, booked, rounded, lost>>

Asset == 1 .. NAssets

Flat(px) == [dir |-> 0, qty |-> 0, avg |-> NA, last |-> px]

Init ==
  /\ settling \in Settling
  /\ stage = "between" /\ n = 0 /\ bars = [a \in Asset |-> NA]
  /\ cash = InitCash /\ pos = [a \in Asset |-> Flat(0)]
  /\ book = {} /\ submitted = 0 /\ planning = {} /\ at = NA /\ queue = <<>> /\ due = 1 /\ liquidated = FALSE
  /\ flow = 0 /\ filled = [a \in Asset |-> 0] /\ booked = 0 /\ rounded = 0
  /\ lost = "nothing"

-----------------------------------------------------------------------------
(* The valuation of a portfolio p. *)

(* Asset a's position as a trade state of its own, with all of the cash. *)
State(p, a, c) ==
  [cash |-> c, dir |-> p[a].dir, qty |-> p[a].qty, avg |-> p[a].avg, last |-> p[a].last]

Exposure(p, a) == p[a].dir * p[a].qty * p[a].last

PortfolioEquity(p, c) ==
  c + MapThenSumSet(LAMBDA a : K!Unrealized(State(p, a, c), p[a].last), Asset)

Variance(p) ==
  MapThenSumSet(LAMBDA e : Exposure(p, e[1]) * Risk[e[1]][e[2]] * Exposure(p, e[2]),
                Asset \X Asset)

Gross(p) == MapThenSumSet(LAMBDA a : K!AbsVal(Exposure(p, a)), Asset)

(* equity >= max(sigma * sqrt(variance), floor * gross), squared. *)
Covered(p, c) ==
  LET equity == PortfolioEquity(p, c)
  IN  /\ equity >= FloorNum * Gross(p)
      /\ Variance(p) <= 0 \/ equity * equity >= Variance(p)

-----------------------------------------------------------------------------
(* The planner.  A contract order says buy, sell or flat and becomes an    *)
(* action by the position p predicted from the orders planned before it; a *)
(* target order carries its own action.                                    *)

ActionOf(o, p) ==
  CASE o.intended # NA -> o.intended
    [] o.intended = NA /\ (o.side = 0 \/ p.dir * o.side < 0) -> "CLOSE"
    [] OTHER -> IF p.dir = 0 THEN "OPEN" ELSE "INCREASE"

(* A contract order that closes closes all of the predicted position. *)
QtyOf(o, p) == IF o.intended = NA /\ ActionOf(o, p) = "CLOSE" THEN p.qty ELSE o.qty

(* The position predicted after o, whether or not o will be filled. *)
Predicted(o, p) ==
  LET left == p.qty - QtyOf(o, p)
  IN  CASE ActionOf(o, p) = "OPEN" -> [dir |-> o.side, qty |-> o.qty]
        [] ActionOf(o, p) = "INCREASE" -> [dir |-> o.side, qty |-> p.qty + o.qty]
        [] ActionOf(o, p) = "REDUCE" /\ left > 0 -> [dir |-> p.dir, qty |-> left]
        [] OTHER -> [dir |-> 0, qty |-> 0]

DecisionOf(id, o, p) ==
  [id |-> id, asset |-> o.asset, derived |-> o.intended # NA, action |-> ActionOf(o, p),
   dir |-> IF ActionOf(o, p) = "CLOSE" THEN 0 ELSE o.side,
   type |-> o.type, px |-> o.px, qty |-> QtyOf(o, p)]

(* Orders are planned asset by asset, and in their own order. *)
IsNextPlanned(e) ==
  \A f \in planning : \/ e.ord.asset < f.ord.asset
                       \/ (e.ord.asset = f.ord.asset /\ e.id <= f.id)

Without(orders, id) == {e \in orders : e.id # id}

-----------------------------------------------------------------------------
(* Execution of one decision d on portfolio p with cash c: the position    *)
(* and the cash after it, and the answer that is recorded.                 *)

BasePrice(d) == IF d.type = "LIMIT" THEN d.px ELSE bars[d.asset].open

After(d, answer, px) ==
  [pos EXCEPT ![d.asset] = [dir |-> answer.dir, qty |-> answer.qty, avg |-> answer.avg,
                            last |-> px]]

(* Mutant: the margin of the asset alone, which update_on_trade looks at. *)
CommitsAlone(d, answer, px) == answer.status = "FILLED"

(* commit_trade: the whole account must carry the trade. *)
Commits(d, answer, px) ==
  answer.status = "FILLED" /\ Covered(After(d, answer, px), answer.cash)

(* clip_to_portfolio_margin: the quantities the account can carry are      *)
(* searched for the largest, which is then committed.                      *)
Fitting(d, s, px) ==
  {k \in 1 .. d.qty : LET t == [d EXCEPT !.qty = k] IN Commits(t, K!Trade(s, t, px), px)}

Clipped(d, s, px) == K!LargestFit(Fitting(d, s, px), 1, d.qty)

Outcome(d) ==
  LET s      == State(pos, d.asset, cash)
      px     == K!FillPrice(d, s, BasePrice(d))
      exec   == IF d.derived THEN K!Executable(s, d, px) ELSE d
      lots   == IF d.derived /\ d.action \in K!Entries THEN Clipped(exec, s, px) ELSE 0
      trial  == [exec EXCEPT !.qty = lots]
      refuse == [K!Trade(s, exec, px) EXCEPT
                   !.status = "FAILED", !.fee = 0, !.realized = 0,
                   !.cash = cash, !.dir = s.dir, !.qty = s.qty, !.avg = s.avg]
  IN  CASE Commits(exec, K!Trade(s, exec, px), px) ->
             [d |-> exec, px |-> px, answer |-> K!Trade(s, exec, px)]
        [] ~Commits(exec, K!Trade(s, exec, px), px) /\ lots \in Fitting(exec, s, px) ->
             [d |-> trial, px |-> px, answer |-> K!Trade(s, trial, px)]
        [] OTHER -> [d |-> exec, px |-> px, answer |-> refuse]

-----------------------------------------------------------------------------
(* A contract order needs only a slot; a target order is what the planner  *)
(* of targets asks for at the present position.                            *)
Submittable(o) ==
  LET p == pos[o.asset]
  IN  /\ Cardinality({e \in book : e.ord.asset = o.asset}) < MaxOpen
      /\ CASE o.intended = NA -> TRUE
           [] o.intended = "OPEN" -> p.dir * p.qty = 0
           [] o.intended = "CLOSE" -> p.dir * p.qty # 0 /\ o.qty = p.qty
           [] OTHER -> /\ p.dir * p.qty # 0 /\ o.side = p.dir
                       /\ o.intended = "REDUCE" => o.qty < p.qty

PlaceOrder(o) ==
  /\ stage = "between" /\ n < MaxBoundary /\ submitted < MaxOrders /\ Submittable(o)
  /\ book' = book \cup {[id |-> submitted + 1, ord |-> o]}
  /\ submitted' = submitted + 1
  /\ UNCHANGED <<stage, n, bars, cash, pos, planner, queue, due, liquidated, records>>

(* Every asset prints a bar and is valued at its close from the start.  *)
NewBoundary(batch) ==
  /\ stage = "between" /\ n < MaxBoundary
  /\ n' = n + 1
  /\ bars' = batch
  /\ pos' = [a \in Asset |->
               IF pos[a].dir * pos[a].qty = 0 THEN [Flat(batch[a].close) EXCEPT !.avg = pos[a].avg]
               ELSE [pos[a] EXCEPT !.last = batch[a].close]]
  /\ planning' = book
  /\ at' = [a \in Asset |-> [dir |-> K!Sign(pos[a].dir * pos[a].qty), qty |-> pos[a].qty]]
  /\ stage' = "plan" /\ due' = 1
  /\ UNCHANGED <<cash, book, submitted, queue, liquidated, records>>

(* One order becomes a decision; one that would change nothing is ended.   *)
PlanOrder(e) ==
  LET d == DecisionOf(e.id, e.ord, at[e.ord.asset])
  IN  /\ stage = "plan" /\ IsNextPlanned(e)
      /\ planning' = planning \ {e}
      /\ at' = IF d.qty = 0 THEN at ELSE [at EXCEPT ![d.asset] = Predicted(e.ord, @)]
      /\ queue' = IF d.qty = 0 THEN queue ELSE Append(queue, d)
      /\ book' = IF d.qty = 0 THEN Without(book, d.id) ELSE book
      /\ UNCHANGED <<stage, n, bars, cash, pos, submitted, due, liquidated, records>>

EndPlan ==
  /\ stage = "plan" /\ planning = {}
  /\ stage' = "orders" /\ at' = NA
  /\ UNCHANGED <<n, bars, cash, pos, book, submitted, planning, queue, due, liquidated, records>>

(* An order without a fill or a failure stays open for the next boundary. *)
LeavePending ==
  /\ stage = "orders" /\ queue # <<>>
  /\ ~K!CanFill(Head(queue), bars[Head(queue).asset])
  /\ queue' = Tail(queue)
  /\ UNCHANGED <<stage, n, bars, cash, pos, book, submitted, planner, due, liquidated, records>>

(* The signed quantity a fill record reports. *)
FilledQty(d, held) ==
  IF d.action \in K!Entries THEN d.dir * d.qty ELSE -K!Sign(held) * d.qty

(* The position an action is meant for: an OPEN replaces what is held, an  *)
(* INCREASE or a REDUCE takes the order's direction, and a CLOSE drops all *)
(* that is held, whatever quantity is traded.                              *)
PlannedFor(d, p) ==
  CASE d.action = "OPEN" -> p.dir * p.qty = 0
    [] d.action = "CLOSE" -> p.qty = d.qty
    [] OTHER -> p.dir = d.dir /\ p.qty # 0

ExecuteOrder ==
  LET d   == Head(queue)
      out == Outcome(d)
      ok  == out.answer.status = "FILLED"
      qty == IF ok THEN FilledQty(out.d, filled[d.asset]) ELSE 0
  IN  /\ stage = "orders" /\ queue # <<>>
      /\ K!CanFill(d, bars[d.asset])
      /\ pos' = IF ok THEN After(out.d, out.answer, out.px) ELSE pos
      /\ cash' = out.answer.cash
      /\ queue' = Tail(queue)
      /\ book' = Without(book, d.id)
      /\ filled' = [filled EXCEPT ![d.asset] = @ + qty]
      /\ flow' = flow + Den * out.px * qty + out.answer.fee
      /\ booked' = booked + out.answer.realized - out.answer.fee
      /\ rounded' = IF ok /\ out.d.action = "INCREASE" THEN rounded + out.answer.qty ELSE rounded
      /\ lost' = IF ok /\ ~PlannedFor(out.d, pos[d.asset]) /\ lost = "nothing" THEN "count" ELSE lost
      /\ UNCHANGED <<stage, n, bars, submitted, planner, due, liquidated>>

EndOrders ==
  /\ stage = "orders" /\ queue = <<>>
  /\ stage' = "funding"
  /\ UNCHANGED <<n, bars, cash, pos, book, submitted, planner, queue, due, liquidated, records>>

(* Mutant: the charge is taken and no event reports it. *)
ChargeFundingSilently ==
  LET s == State(pos, due, cash)
      f == K!Funding(s, IF n = 1 THEN NA ELSE 1)
  IN  /\ stage = "funding" /\ due <= NAssets
      /\ cash' = f.cash
      /\ pos' = [pos EXCEPT ![due].last = bars[due].close]
      /\ lost' = IF f.liquidate /\ lost # "all" THEN "cash" ELSE lost
      /\ due' = due + 1
      /\ UNCHANGED <<stage, n, bars, book, submitted, planner, queue, liquidated, flow, booked, rounded, filled>>

(* Funding of one asset and its mark.  A charge that exhausts the asset's  *)
(* share of the account empties the balance; the event reports the fee.    *)
ChargeFunding ==
  LET s == State(pos, due, cash)
      f == K!Funding(s, IF n = 1 THEN NA ELSE 1)
  IN  /\ stage = "funding" /\ due <= NAssets
      /\ cash' = f.cash
      /\ pos' = [pos EXCEPT ![due].last = bars[due].close]
      /\ flow' = flow + f.fee
      /\ booked' = booked - f.fee
      /\ lost' = IF f.liquidate /\ lost # "all" THEN "cash" ELSE lost
      /\ due' = due + 1
      /\ UNCHANGED <<stage, n, bars, book, submitted, planner, queue, liquidated, filled, rounded>>

(* Mutant: the contracts of the other assets are kept. *)
LiquidateFirst ==
  /\ stage = "funding" /\ due > NAssets /\ ~Covered(pos, cash)
  /\ cash' = 0
  /\ pos' = [pos EXCEPT ![1] = Flat(pos[1].last)]
  /\ liquidated' = TRUE /\ lost' = "all"
  /\ stage' = "settle" /\ due' = 1
  /\ UNCHANGED <<n, bars, book, submitted, planner, queue, flow, filled, booked, rounded>>

(* The verdict on the whole account. *)
Liquidate ==
  /\ stage = "funding" /\ due > NAssets /\ ~Covered(pos, cash)
  /\ cash' = 0
  /\ pos' = [a \in Asset |-> Flat(pos[a].last)]
  /\ liquidated' = TRUE /\ lost' = "all"
  /\ stage' = "settle" /\ due' = 1
  /\ UNCHANGED <<n, bars, book, submitted, planner, queue, flow, filled, booked, rounded>>

Survive ==
  /\ stage = "funding" /\ due > NAssets /\ Covered(pos, cash)
  /\ liquidated' = FALSE
  /\ stage' = "settle" /\ due' = 1
  /\ UNCHANGED <<n, bars, cash, pos, book, submitted, planner, queue, records>>

(* Mutant: the average price stays what it was. *)
SettleVariationTwice ==
  LET p == pos[due]
      v == K!Unrealized(State(pos, due, cash), p.last)
      settles == settling /\ p.dir * p.qty # 0 /\ p.avg # NA
  IN  /\ stage = "settle" /\ due <= NAssets
      /\ cash' = IF settles THEN cash + v ELSE cash
      /\ pos' = pos
      /\ booked' = IF settles THEN booked + v ELSE booked
      /\ due' = due + 1
      /\ UNCHANGED <<stage, n, bars, book, submitted, planner, queue, liquidated, flow, filled, rounded, lost>>

(* Mutant: a settled position has no average price. *)
SettleVariationReset ==
  LET p == pos[due]
      v == K!Unrealized(State(pos, due, cash), p.last)
      settles == settling /\ p.dir * p.qty # 0 /\ p.avg # NA
  IN  /\ stage = "settle" /\ due <= NAssets
      /\ cash' = IF settles THEN cash + v ELSE cash
      /\ pos' = IF settles THEN [pos EXCEPT ![due].avg = NA] ELSE pos
      /\ booked' = IF settles THEN booked + v ELSE booked
      /\ due' = due + 1
      /\ UNCHANGED <<stage, n, bars, book, submitted, planner, queue, liquidated, flow, filled, rounded, lost>>

(* Futures turn their open profit into cash and start again at the mark. *)
SettleVariation ==
  LET p == pos[due]
      v == K!Unrealized(State(pos, due, cash), p.last)
      settles == settling /\ p.dir * p.qty # 0 /\ p.avg # NA
  IN  /\ stage = "settle" /\ due <= NAssets
      /\ cash' = IF settles THEN cash + v ELSE cash
      /\ pos' = IF settles THEN [pos EXCEPT ![due].avg = Den * p.last] ELSE pos
      /\ booked' = IF settles THEN booked + v ELSE booked
      /\ due' = due + 1
      /\ UNCHANGED <<stage, n, bars, book, submitted, planner, queue, liquidated, flow, filled, rounded, lost>>

EndBoundary ==
  /\ stage = "settle" /\ due > NAssets
  /\ stage' = "between" /\ due' = 1
  /\ UNCHANGED <<n, bars, cash, pos, book, submitted, planner, queue, liquidated, records>>

Batches == {batch \in [Asset -> UNION {Bars[a] : a \in Asset}] :
              \A a \in Asset : batch[a] \in Bars[a]}

Next ==
  /\ \/ \E o \in Orders : PlaceOrder(o)
     \/ \E batch \in Batches : NewBoundary(batch)
     \/ (\E e \in planning : PlanOrder(e)) \/ EndPlan \/ LeavePending \/ ExecuteOrder \/ EndOrders
     \/ ChargeFunding \/ Liquidate \/ Survive \/ SettleVariation \/ EndBoundary
  /\ UNCHANGED settling

Spec == Init /\ [][Next]_vars

-----------------------------------------------------------------------------
(* Properties. *)

Decisions ==
  {d \in [id : Nat, asset : Asset, derived : BOOLEAN, action : K!Entries \cup K!Exits,
          dir : {-1, 0, 1}, type : {"MARKET", "LIMIT"}, px : Nat \cup {NA}, qty : Nat] :
     /\ d.type = "LIMIT" => d.px \in Nat
     /\ d.action \in K!Entries => d.dir # 0}

(* A held position has an average price, by which it is marked, settled    *)
(* and closed, as long as no order met a position it was not planned for.  *)
HeldHasPrice ==
  lost = "nothing" => \A a \in Asset : pos[a].dir * pos[a].qty # 0 => pos[a].avg # NA

TypeOK ==
  /\ stage \in {"between", "plan", "orders", "funding", "settle"}
  /\ n \in 0 .. MaxBoundary /\ due \in 1 .. NAssets + 1 /\ submitted \in 0 .. MaxOrders
  /\ stage # "between" => bars \in Batches
  /\ cash \in Int /\ flow \in Int /\ booked \in Int /\ rounded \in Nat /\ filled \in [Asset -> Int]
  /\ pos \in [Asset -> [dir : {-1, 0, 1}, qty : Nat, avg : Int \cup {NA}, last : Int]]
  /\ \A e \in book \cup planning : e.id \in 1 .. submitted /\ e.ord \in Orders
  /\ IF stage = "plan" THEN at \in [Asset -> [dir : {-1, 0, 1}, qty : Nat]] ELSE at = NA
  /\ queue \in Seq(Decisions) /\ HeldHasPrice
  /\ settling \in Settling /\ liquidated \in BOOLEAN /\ lost \in {"nothing", "count", "cash", "all"}

(* The recorded fills and charges explain the value of the account: what   *)
(* the filled quantities are worth at the marks, less what was paid for    *)
(* them, is the equity the kernel computes from average prices, realized   *)
(* profits and settlements.  No fill, clipping or settlement makes or      *)
(* loses money, as long as no order meets a position it was not planned    *)
(* for (sim_exchange.R:1406).  What is left is the truncation of average   *)
(* prices: an increase may misstate the cost of every unit then held by    *)
(* less than one, and nothing else may misstate anything.                  *)
EquityIsExplained ==
  LET worth == MapThenSumSet(LAMBDA a : Den * filled[a] * pos[a].last, Asset)
      error == PortfolioEquity(pos, cash) - (InitCash + worth - flow)
  IN  lost = "nothing" => K!AbsVal(error) <= rounded

(* An account that survives its boundaries can carry its whole portfolio   *)
(* at the closes, and one that was ever liquidated keeps nothing: no state *)
(* in between, in which some positions are gone and others stay, and no    *)
(* revival, although the flag is not carried to the next boundary.         *)
CoveredOrEmpty ==
  IF lost = "all" THEN cash = 0 /\ \A a \in Asset : pos[a].qty = 0
  ELSE stage = "between" => Covered(pos, cash)

(* A fill never leaves the account with less than its portfolio margin at  *)
(* the fill price and the closes of the other assets, clipped or not.      *)
FillIsCovered == stage = "orders" /\ pos' # pos => Covered(pos', cash')

(* What the leverage of the account leaves of decision d, and whether the  *)
(* whole account can carry k contracts of it (clip_to_portfolio_margin).   *)
Levered(d) ==
  LET s == State(pos, d.asset, cash)
  IN  IF d.derived THEN K!Executable(s, d, K!FillPrice(d, s, BasePrice(d))) ELSE d

Carries(d, k) ==
  LET s  == State(pos, d.asset, cash)
      px == K!FillPrice(d, s, BasePrice(d))
      t  == [Levered(d) EXCEPT !.qty = k]
  IN  Commits(t, K!Trade(s, t, px), px)

(* An entry for a target that is filled with less than its leverage allows *)
(* could not have been filled with one contract more.                      *)
FillIsTight ==
  LET d   == Head(queue)
      got == K!AbsVal(filled'[d.asset] - filled[d.asset])
  IN  ExecuteOrder /\ d.derived /\ d.action \in K!Entries /\ got < Levered(d).qty =>
        ~Carries(d, got + 1)

(* Fills are clipped to the margin of the whole account: covered, and one  *)
(* contract more would not be, although more need not need more margin.    *)
FillsAreClipped == [][FillIsCovered /\ FillIsTight]_vars

(* The account's cash is what its recorded events say, realized profits,   *)
(* fees, charges and settlements (rcpp_backtest.cpp:803-805), as long as   *)
(* it is not liquidated, and funding has not emptied the balance: also     *)
(* when an order meets a position it was not planned for.                  *)
LedgerReconciles == lost \in {"nothing", "count"} => cash = InitCash + booked
=============================================================================
