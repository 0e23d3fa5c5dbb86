---------------------------- MODULE TradeKernel ----------------------------
(***************************************************************************)
(* The pure arithmetic of the single-asset derivatives kernel: the state   *)
(* functions and the target planner of TradeState (eng_tradestate.h) and   *)
(* the answers of Exchange to a trade, a funding charge and a mark         *)
(* (eng_exchange.h).                                                       *)
(*                                                                         *)
(* Units.  A quantity counts contract steps, a price counts ticks, and a   *)
(* notional is their product.  Money and average prices are in 1/Den of    *)
(* that, and every rate is a number of Den-ths, so that fees, funding,     *)
(* margins and cash are exact; only the weighted average price is          *)
(* truncated.  Target positions are in 1/TgtDen of the equity.             *)
(***************************************************************************)
EXTENDS Integers, Sequences

CONSTANTS
  NA,         \* the program's NaN: no price, no target
  Den,        \* denominator of money, average prices and rates
  TgtDen,     \* denominator of target positions and tolerances
  Lev,        \* leverage
  MmrNum,     \* maintenance margin rate
  MakerNum,   \* fee rate of limit orders
  TakerNum,   \* fee rate of market orders
  FundNum,    \* funding rate of one interval
  FillCost    \* spread / 2 + slippage, in ticks

ASSUME KernelAssumption ==
  /\ NA \notin Int
  /\ {Den, TgtDen, Lev} \subseteq Nat \ {0}
  /\ {MmrNum, MakerNum, TakerNum, FundNum, FillCost} \subseteq Nat
  /\ Den % Lev = 0

Entries == {"OPEN", "INCREASE"}
Exits == {"CLOSE", "REDUCE"}

AbsVal(x) == IF x < 0 THEN -x ELSE x

Sign(x) == IF x > 0 THEN 1 ELSE IF x < 0 THEN -1 ELSE 0

(* std::round of x / d, halves away from zero. *)
RoundDiv(x, d) == Sign(x) * ((2 * AbsVal(x) + d) \div (2 * d))

-----------------------------------------------------------------------------
(* The valuation of a state s: [cash, dir, qty, avg, last]. *)

Units(s) == s.dir * s.qty

Notional(s) == Units(s) * s.last

HasPos(s) == Units(s) # 0

Unrealized(s, px) ==
  IF HasPos(s) /\ s.avg # NA THEN (Den * px - s.avg) * Units(s) ELSE 0

Equity(s) == s.cash + Unrealized(s, s.last)

(* The maintenance margin is always taken at the last mark. *)
Maintenance(s) == MmrNum * AbsVal(Notional(s))

InitialMargin(notional) == (Den \div Lev) * AbsVal(notional)

FeeRate(type) == IF type = "LIMIT" THEN MakerNum ELSE TakerNum

(* Mutant: the margin of the position already held is forgotten. *)
FeeAwareQtyFresh(s, px, rate) ==
  LET headroom == s.cash + Unrealized(s, px)
      unitCost == ((Den \div Lev) + rate) * px
  IN  IF px <= 0 \/ headroom <= 0 THEN 0 ELSE headroom \div unitCost

(* Mutant: the fee of a later exit is set aside as well. *)
FeeAwareQtyRoundTrip(s, px, rate) ==
  LET headroom == s.cash + Unrealized(s, px) - InitialMargin(Units(s) * px)
      unitCost == ((Den \div Lev) + 2 * rate) * px
  IN  IF px <= 0 \/ headroom <= 0 THEN 0 ELSE headroom \div unitCost

(* The largest entry whose fee and initial margin fit the equity at px. *)
FeeAwareQty(s, px, rate) ==
  LET headroom == s.cash + Unrealized(s, px) - InitialMargin(Units(s) * px)
      unitCost == ((Den \div Lev) + rate) * px
  IN  IF px <= 0 \/ headroom <= 0 THEN 0 ELSE headroom \div unitCost

(* Mutant: the loss of the open position is forgotten. *)
IsLiquidatedOnCash(s, px) == s.cash < Maintenance(s)

IsLiquidated(s, px) == s.cash + Unrealized(s, px) < Maintenance(s)

-----------------------------------------------------------------------------
(* The planner.  An intent is [tgt, tol, type, px]; its plan is a sequence *)
(* of at most two decisions numbered from id.                              *)

(* The equity at risk of target tgt beyond a position of notional n. *)
Gap(s, tgt, n) == tgt * Equity(s) - TgtDen * Den * n

DeltaQty(s, tgt, n) ==
  IF Equity(s) <= 0 THEN 0
  ELSE RoundDiv(Gap(s, tgt, n), TgtDen * Den * s.last)

WithinTolerance(s, intent) ==
  /\ Equity(s) > 0
  /\ AbsVal(Gap(s, intent.tgt, Notional(s))) < intent.tol * Equity(s)

Decision(id, action, dir, type, px, qty) ==
  [id |-> id, action |-> action, dir |-> dir, type |-> type, px |-> px, qty |-> qty]

(* Mutant: a short entry keeps the sign of its delta. *)
EntrySigned(id, action, intent, qty) ==
  Decision(id, action, Sign(intent.tgt), intent.type, intent.px, qty)

Entry(id, action, intent, qty) ==
  Decision(id, action, Sign(intent.tgt), intent.type, intent.px, AbsVal(qty))

(* Mutant: a close of one step. *)
CloseOne(id, s) == Decision(id, "CLOSE", 0, "MARKET", NA, 1)

CloseAll(id, s) == Decision(id, "CLOSE", 0, "MARKET", NA, s.qty)

Plan(s, intent, id) ==
  LET delta == DeltaQty(s, intent.tgt, Notional(s))
      fresh == DeltaQty(s, intent.tgt, 0)
      grows == AbsVal(intent.tgt) * Equity(s) > TgtDen * Den * AbsVal(Notional(s))
  IN  CASE intent.tgt = NA -> <<>>
        [] intent.tgt # NA /\ (WithinTolerance(s, intent) \/ delta = 0) -> <<>>
        [] OTHER ->
             IF ~HasPos(s) THEN <<Entry(id, "OPEN", intent, delta)>>
             ELSE IF intent.tgt = 0 THEN <<CloseAll(id, s)>>
             ELSE IF s.dir # Sign(intent.tgt)
             THEN IF fresh = 0
                  THEN <<CloseAll(id, s)>>
                  ELSE <<CloseAll(id, s), Entry(id + 1, "OPEN", intent, fresh)>>
             ELSE <<Entry(id, IF grows THEN "INCREASE" ELSE "REDUCE", intent, delta)>>

-----------------------------------------------------------------------------
(* Execution. *)

LimitFilled(bar, px) == bar.low < px /\ px < bar.high

CanFill(d, bar) == d.type = "LIMIT" => LimitFilled(bar, d.px)

FillPrice(d, s, base) ==
  base + FillCost * (IF d.action \in Entries THEN d.dir ELSE -s.dir)

(* update_on_trade: what the exchange answers to decision d at price px. *)
Trade(s, d, px) ==
  LET fee      == FeeRate(d.type) * d.qty * px
      margin   == InitialMargin(Notional(s) + d.dir * d.qty * px)
      realized == d.qty * (Den * px - s.avg) * s.dir
      failed   == [status |-> "FAILED", liquidate |-> FALSE, fee |-> 0, realized |-> 0,
                   cash |-> s.cash, dir |-> s.dir, qty |-> s.qty, avg |-> s.avg]
      filled   == [failed EXCEPT !.status = "FILLED", !.fee = fee]
      exitable == HasPos(s) /\ s.avg # NA /\ d.qty > 0
  IN  CASE IsLiquidated(s, px) -> [failed EXCEPT !.liquidate = TRUE]
        [] ~IsLiquidated(s, px) /\ d.action \in Entries ->
             IF s.cash + Unrealized(s, px) - fee < margin THEN failed
             ELSE [filled EXCEPT
                     !.cash = s.cash - fee,
                     !.dir = d.dir,
                     !.qty = IF d.action = "OPEN" THEN d.qty ELSE s.qty + d.qty,
                     !.avg = IF d.action = "OPEN" THEN Den * px
                             ELSE IF s.avg = NA \/ s.qty + d.qty = 0 THEN NA
                             ELSE (s.qty * s.avg + d.qty * Den * px) \div (s.qty + d.qty)]
        [] OTHER ->
             IF ~exitable \/ (d.action = "REDUCE" /\ d.qty > s.qty) THEN failed
             ELSE [filled EXCEPT
                     !.realized = realized,
                     !.cash = s.cash - fee + realized,
                     !.dir = IF d.action = "CLOSE" THEN 0 ELSE d.dir,
                     !.qty = IF d.action = "CLOSE" THEN 0 ELSE s.qty - d.qty,
                     !.avg = IF d.action = "CLOSE" THEN NA ELSE s.avg]

(* Mutant: target-derived entries are not clipped. *)
Unclipped(s, d, px) == d

(* Target-derived entries are clipped at the price they execute at. *)
Executable(s, d, px) ==
  LET cap == FeeAwareQty(s, px, FeeRate(d.type))
  IN  IF d.action \in Entries /\ cap < d.qty THEN [d EXCEPT !.qty = cap] ELSE d

(* Mutant: the search does not try the last number of a range. *)
LargestFitHalfOpen(fits, from, to) ==
  LET search[p \in (from .. to + 1) \X (from - 1 .. to)] ==
        LET mid   == p[1] + (p[2] - p[1]) \div 2
            above == search[<<mid + 1, p[2]>>]
        IN  CASE p[1] >= p[2] -> 0
              [] p[1] < p[2] /\ mid \in fits -> IF above = 0 THEN mid ELSE above
              [] OTHER -> search[<<p[1], mid - 1>>]
  IN  search[<<from, to>>]

(* A binary search for the largest of from .. to that is in fits: the last *)
(* one in fits of those it tries, and zero if none is.                     *)
LargestFit(fits, from, to) ==
  LET search[p \in (from .. to + 1) \X (from - 1 .. to)] ==
        LET mid   == p[1] + (p[2] - p[1]) \div 2
            above == search[<<mid + 1, p[2]>>]
        IN  CASE p[1] > p[2] -> 0
              [] p[1] <= p[2] /\ mid \in fits -> IF above = 0 THEN mid ELSE above
              [] OTHER -> search[<<p[1], mid - 1>>]
  IN  search[<<from, to>>]

(* update_on_funding over dt intervals; the first bar has none before it.  *)
Funding(s, dt) ==
  LET fee  == FundNum * dt * AbsVal(Notional(s))
      cash == s.cash - fee
      liq  == cash + Unrealized(s, s.last) < Maintenance(s)
  IN  IF dt = NA THEN [fee |-> 0, cash |-> s.cash, liquidate |-> FALSE]
      ELSE [fee |-> fee, cash |-> IF liq THEN 0 ELSE cash, liquidate |-> liq]
=============================================================================
