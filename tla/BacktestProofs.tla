---------------------------- MODULE BacktestProofs ----------------------------
(***************************************************************************)
(* Proofs about Backtest, for every leverage, fee, rate, bar and target:   *)
(* the types of the loop, that a planned exit or opening always executes,  *)
(* in the order of the plans, that entries are the largest that are        *)
(* margined (EntriesAreClipped), and that a liquidation is final.          *)
(***************************************************************************)
EXTENDS Backtest, SequenceTheorems, TLAPS

States == [cash : Int, dir : {-1, 0, 1}, qty : Nat, avg : Int \cup {NA}, last : Nat]

Decisions ==
  LET fields == [id : Nat \ {0}, action : Actions, dir : {-1, 0, 1},
                type : {"MARKET", "LIMIT"}, px : Nat \cup {NA}, qty : Nat]
  IN  {d \in fields : (d.type = "LIMIT" => d.px \in Nat) /\ (d.action \in Entries => d.dir # 0)}

(* What the planner asks for suits the position it is executed on. *)
PlannedFor(d, t) ==
  /\ d.action = "OPEN" => ~HasPos(t)
  /\ d.action \in {"INCREASE", "REDUCE"} => HasPos(t) /\ d.dir = t.dir
  /\ d.action = "CLOSE" => HasPos(t) /\ d.qty = t.qty
  /\ d.action = "REDUCE" => 0 < d.qty /\ d.qty <= t.qty

(* A plan is one decision, or a close at the market and an opening.        *)
Fits(q, t) ==
  /\ q # <<>> => PlannedFor(q[1], t)
  /\ Len(q) <= 2
  /\ Len(q) = 2 => /\ q[1].action = "CLOSE" /\ q[1].type = "MARKET"
                   /\ q[2].action = "OPEN" /\ q[1].id < q[2].id

-----------------------------------------------------------------------------
(* Arithmetic. *)

LEMMA Rates ==
  /\ NA \notin Int /\ Den \in Nat \ {0} /\ TgtDen \in Nat \ {0} /\ Den \div Lev \in Nat \ {0}
  /\ MmrNum \in Nat /\ MakerNum \in Nat /\ TakerNum \in Nat /\ FundNum \in Nat
  /\ FillCost \in Nat /\ InitCash \in Nat /\ BarGap \in Nat /\ MaxBars \in Nat
<1>1. Den \in Nat \ {0} /\ Lev \in Nat \ {0} /\ Den % Lev = 0
  BY KernelAssumption
<1>2. Den \div Lev \in Nat
  BY <1>1
<1>3. Den \div Lev # 0
  BY <1>1
<1> QED
  BY <1>2, <1>3, KernelAssumption, BacktestAssumption

LEMMA Products ==
  ASSUME NEW x \in Int, NEW y \in Int
  PROVE  x * y \in Int /\ x + y \in Int /\ x - y \in Int
OBVIOUS

LEMMA NatProducts ==
  ASSUME NEW x \in Nat, NEW y \in Nat
  PROVE  x * y \in Nat
OBVIOUS

LEMMA Quotients ==
  ASSUME NEW x \in Int, NEW y \in Nat, y # 0
  PROVE  x \div y \in Int /\ y * (x \div y) <= x
OBVIOUS

LEMMA Scaled ==
  ASSUME NEW x \in Nat, NEW y \in Nat, x <= y, NEW k \in Nat
  PROVE  k * x <= k * y
OBVIOUS

LEMMA AbsVals ==
  ASSUME NEW x \in Int
  PROVE  AbsVal(x) \in Nat /\ Sign(x) \in {-1, 0, 1} /\ (AbsVal(x) = 0 <=> x = 0)
BY DEF AbsVal, Sign

(* Rounding does not leave a whole number of units. *)
LEMMA RoundedWithin ==
  ASSUME NEW x \in Int, NEW d \in Nat \ {0}
  PROVE  /\ RoundDiv(x, d) \in Int
         /\ \A q \in Nat : AbsVal(x) <= d * q => AbsVal(RoundDiv(x, d)) <= q
<1> DEFINE num == 2 * AbsVal(x) + d
           quo == num \div (2 * d)
<1>1. num \in Nat /\ 2 * d \in Nat \ {0}
  BY AbsVals
<1>2. quo \in Nat
  <2> HIDE DEF num
  <2>1. quo \in Int /\ num >= 0
    BY <1>1
  <2>2. quo >= 0
    BY <1>1
  <2> QED
    BY <2>1, <2>2
<1>3. RoundDiv(x, d) = Sign(x) * quo
  BY DEF RoundDiv
<1>4. AbsVal(RoundDiv(x, d)) <= quo /\ RoundDiv(x, d) \in Int
  <2> HIDE DEF quo
  <2>1. Sign(x) * quo \in {quo, 0, -quo}
    BY <1>2, AbsVals
  <2> QED
    BY <1>2, <1>3, <2>1 DEF AbsVal
<1>5. ASSUME NEW q \in Nat, AbsVal(x) <= d * q
      PROVE  quo <= q
  <2>1. d * q \in Nat /\ AbsVal(x) \in Nat
    BY AbsVals
  <2>2. num <= 2 * (d * q) + d
    BY <1>5, <2>1
  <2>3. num < (2 * d) * (q + 1)
    <3>1. (2 * d) * (q + 1) = 2 * (d * q) + 2 * d
      OBVIOUS
    <3> HIDE DEF num
    <3> QED
      BY <1>1, <2>1, <2>2, <3>1
  <2> DEFINE D == 2 * d
  <2> HIDE DEF num, D
  <2>4. num \div D <= q
    <3>1. D \in Nat \ {0} /\ num < D * (q + 1)
      BY <1>1, <2>3 DEF D
    <3> DEFINE k == num \div D
    <3>2. k \in Int /\ D * k <= num
      BY <1>1, <3>1, Quotients
    <3> HIDE DEF k
    <3>3. ASSUME k >= q + 1
          PROVE  FALSE
      <4>1. D * k >= D * (q + 1)
        BY <3>1, <3>2, <3>3
      <4> QED
        BY <1>1, <3>1, <3>2, <4>1
    <3>4. k <= q
      BY <3>2, <3>3
    <3> QED
      BY <3>4 DEF k
  <2> QED
    BY <2>4 DEF D
<1> QED
  BY <1>2, <1>3, <1>4, <1>5, AbsVals

LEMMA Valuation ==
  ASSUME NEW t \in States, NEW px \in Int
  PROVE  /\ Units(t) \in Int /\ Notional(t) \in Int /\ Unrealized(t, px) \in Int
         /\ Equity(t) \in Int /\ Maintenance(t) \in Nat
         /\ InitialMargin(px) \in Nat
<1>1. t.cash \in Int /\ t.dir \in Int /\ t.qty \in Int /\ t.last \in Int
  BY DEF States
<1>2. Units(t) \in Int /\ Notional(t) \in Int
  BY <1>1, Products DEF Units, Notional
<1>3. ASSUME NEW p \in Int
      PROVE  Unrealized(t, p) \in Int
  <2>1. ASSUME t.avg # NA
        PROVE  (Den * p - t.avg) * Units(t) \in Int
    <3>1. t.avg \in Int /\ Den * p \in Int
      BY <2>1, Rates DEF States
    <3>2. Den * p - t.avg \in Int
      BY <3>1
    <3> QED
      BY <1>2, <3>2, Products
  <2> QED
    BY <2>1 DEF Unrealized
<1>4. Equity(t) \in Int
  BY <1>1, <1>3 DEF Equity
<1>5. Maintenance(t) \in Nat
  BY <1>2, AbsVals, Rates, NatProducts DEF Maintenance
<1>6. InitialMargin(px) \in Nat
  BY AbsVals, Rates, NatProducts DEF InitialMargin
<1> QED
  BY <1>2, <1>3, <1>4, <1>5, <1>6

-----------------------------------------------------------------------------
(* The planner. *)

LEMMA Deltas ==
  ASSUME NEW t \in States, t.last > 0, NEW tgt \in Int, NEW n0 \in Int
  PROVE  /\ DeltaQty(t, tgt, n0) \in Int
         /\ DeltaQty(t, tgt, n0) # 0 => Equity(t) > 0
<1>1. Gap(t, tgt, n0) \in Int
  <2>1. tgt * Equity(t) \in Int
    BY Valuation, Products
  <2>2. TgtDen * Den \in Int
    BY Rates
  <2>3. TgtDen * Den * n0 \in Int
    BY <2>2, Products
  <2> QED
    BY <2>1, <2>3, Products DEF Gap
<1>2. TgtDen * Den * t.last \in Nat \ {0}
  <2>1. TgtDen * Den \in Nat \ {0} /\ t.last \in Nat \ {0}
    BY Rates DEF States
  <2> QED
    BY <2>1
<1>3. RoundDiv(Gap(t, tgt, n0), TgtDen * Den * t.last) \in Int
  BY <1>1, <1>2, RoundedWithin
<1>4. Equity(t) \in Int
  BY Valuation
<1> QED
  BY <1>3, <1>4 DEF DeltaQty

LEMMA DecisionType ==
  ASSUME NEW d \in Decisions
  PROVE  /\ d.dir \in {-1, 0, 1} /\ d.qty \in Nat
         /\ d.type = "LIMIT" => d.px \in Nat
         /\ d.action \in Entries => d.dir # 0
<1>1. d.action \in Entries => d.dir # 0
  BY DEF Decisions
<1>2. d.type = "LIMIT" => d.px \in Nat
  BY DEF Decisions
<1>3. d.dir \in {-1, 0, 1} /\ d.qty \in Nat
  BY DEF Decisions
<1> QED
  BY <1>1, <1>2, <1>3

LEMMA EntryType ==
  ASSUME NEW id \in Nat \ {0}, NEW action \in Actions, NEW intent \in Intents,
         intent.tgt # NA, intent.tgt # 0, NEW qty \in Int
  PROVE  LET d == Entry(id, action, intent, qty)
         IN  /\ d \in Decisions /\ d.id = id /\ d.action = action
             /\ d.dir = Sign(intent.tgt) /\ d.qty = AbsVal(qty) /\ d.type = intent.type
<1>1. /\ intent.tgt \in Int /\ intent.type \in {"MARKET", "LIMIT"}
      /\ intent.px \in Nat \cup {NA} /\ (intent.type = "LIMIT" => intent.px \in Nat)
  BY BacktestAssumption
<1>2. Sign(intent.tgt) \in {-1, 1} /\ AbsVal(qty) \in Nat
  <2>1. AbsVal(qty) \in Nat
    BY AbsVals
  <2> QED
    BY <1>1, <2>1 DEF Sign
<1> QED
  BY <1>1, <1>2 DEF Entry, Decision, Decisions

LEMMA CloseType ==
  ASSUME NEW id \in Nat \ {0}, NEW t \in States
  PROVE  LET d == CloseAll(id, t)
         IN  /\ d \in Decisions /\ d.id = id /\ d.action = "CLOSE" /\ d.type = "MARKET"
             /\ d.qty = t.qty
BY DEF CloseAll, Decision, Decisions, States, Actions, Exits, Entries

(* A flat account that is to stay flat has nothing to trade. *)
LEMMA FlatStaysFlat ==
  ASSUME NEW t \in States, t.last > 0, ~HasPos(t)
  PROVE  DeltaQty(t, 0, Notional(t)) = 0
<1> DEFINE d == TgtDen * Den * t.last
<1>1. t.last \in Nat \ {0} /\ Equity(t) \in Int /\ TgtDen * Den \in Nat \ {0}
  BY Rates, Valuation DEF States
<1>2. d \in Nat \ {0} /\ Notional(t) = 0
  BY <1>1 DEF HasPos, Notional
<1>3. Gap(t, 0, Notional(t)) = 0
  BY <1>1, <1>2 DEF Gap
<1> HIDE DEF d
<1>4. (2 * AbsVal(0) + d) \div (2 * d) \in Int
  <2>1. 2 * AbsVal(0) + d \in Int /\ 2 * d \in Nat \ {0}
    BY <1>2, AbsVals
  <2> QED
    BY <2>1, Quotients
<1>5. RoundDiv(0, d) = 0
  BY <1>4 DEF RoundDiv, Sign
<1> QED
  BY <1>3, <1>5 DEF DeltaQty, d

(* A reduction never asks for more than is held. *)
LEMMA ReducedWithin ==
  ASSUME NEW t \in States, t.last > 0, NEW tgt \in Int, HasPos(t), t.dir = Sign(tgt),
         Equity(t) > 0,
         ~(AbsVal(tgt) * Equity(t) > TgtDen * Den * AbsVal(Notional(t)))
  PROVE  AbsVal(DeltaQty(t, tgt, Notional(t))) <= t.qty
<1> DEFINE A == AbsVal(tgt) * Equity(t)
           K == TgtDen * Den
           B == K * AbsVal(Notional(t))
           D == K * t.last
<1>1. /\ t.qty \in Nat /\ t.last \in Nat \ {0} /\ t.dir \in {-1, 1} /\ Equity(t) \in Nat
      /\ K \in Nat \ {0} /\ tgt \in Int
  BY Rates, Valuation DEF States, HasPos, Units
<1>2. /\ t.dir = 1 => Notional(t) = t.qty * t.last /\ AbsVal(tgt) = tgt
      /\ t.dir = -1 => Notional(t) = -(t.qty * t.last) /\ AbsVal(tgt) = -tgt
  BY <1>1 DEF Notional, Units, Sign, AbsVal
<1>3. t.qty * t.last \in Nat /\ AbsVal(Notional(t)) = t.qty * t.last
  <2>1. t.qty * t.last \in Nat
    BY <1>1, NatProducts
  <2> QED
    BY <1>1, <1>2, <2>1 DEF AbsVal
<1>4. D \in Nat \ {0} /\ B = D * t.qty
  <2>1. D \in Nat \ {0}
    BY <1>1
  <2>2. B = K * (t.qty * t.last)
    BY <1>3
  <2> HIDE DEF K
  <2>3. K * (t.qty * t.last) = (K * t.last) * t.qty
    BY <1>1
  <2> QED
    BY <2>1, <2>2, <2>3
<1>5. A \in Nat /\ B \in Nat /\ A <= B
  <2>1. AbsVal(tgt) \in Nat /\ Equity(t) \in Nat
    BY <1>1, AbsVals
  <2>2. A \in Nat
    BY <2>1, NatProducts
  <2>3. B \in Nat
    BY <1>1, <1>3, NatProducts
  <2> QED
    BY <2>2, <2>3
<1>6. Gap(t, tgt, Notional(t)) \in {A - B, B - A}
  <2>1. Gap(t, tgt, Notional(t)) = tgt * Equity(t) - K * Notional(t)
    BY DEF Gap
  <2>2. CASE t.dir = 1
    BY <1>2, <1>3, <2>1, <2>2
  <2>3. CASE t.dir = -1
    <3>1. tgt * Equity(t) = -A
      BY <1>1, <1>2, <2>3
    <3>2. K * Notional(t) = -B
      BY <1>1, <1>2, <1>3, <2>3
    <3> HIDE DEF A, B, K
    <3> QED
      BY <1>5, <2>1, <3>1, <3>2
  <2> QED
    BY <1>1, <2>2, <2>3
<1>7. AbsVal(Gap(t, tgt, Notional(t))) <= D * t.qty /\ Gap(t, tgt, Notional(t)) \in Int
  <2> HIDE DEF A, B, D
  <2> QED
    BY <1>4, <1>5, <1>6 DEF AbsVal
<1>8. DeltaQty(t, tgt, Notional(t)) = RoundDiv(Gap(t, tgt, Notional(t)), D)
  BY <1>1 DEF DeltaQty
<1> HIDE DEF D
<1> QED
  BY <1>1, <1>4, <1>7, <1>8, RoundedWithin

IsPlan(q, t, id) ==
  /\ q \in Seq(Decisions) /\ Fits(q, t)
  /\ \A i \in 1 .. Len(q) : q[i].id = id + i - 1

LEMMA SinglePlan ==
  ASSUME NEW t, NEW id \in Nat \ {0}, NEW d \in Decisions, d.id = id, PlannedFor(d, t)
  PROVE  IsPlan(<<d>>, t, id)
<1>1. <<d>> \in Seq(Decisions) /\ Len(<<d>>) = 1 /\ <<d>>[1] = d
  OBVIOUS
<1> QED
  BY <1>1 DEF IsPlan, Fits

LEMMA PlanType ==
  ASSUME NEW t \in States, t.last > 0, NEW intent \in Intents, NEW id \in Nat \ {0}
  PROVE  IsPlan(Plan(t, intent, id), t, id)
<1> DEFINE q     == Plan(t, intent, id)
           tgt   == intent.tgt
           delta == DeltaQty(t, tgt, Notional(t))
           fresh == DeltaQty(t, tgt, 0)
           grows == AbsVal(tgt) * Equity(t) > TgtDen * Den * AbsVal(Notional(t))
           entry(action) == Entry(id, action, intent, delta)
<1>1. CASE q = <<>>
  <2>1. <<>> \in Seq(Decisions) /\ Len(<<>>) = 0
    OBVIOUS
  <2> QED
    BY <1>1, <2>1 DEF IsPlan, Fits
<1>2. CASE q # <<>>
  <2>1. tgt # NA /\ tgt \in Int /\ delta # 0
    <3>1. tgt # NA
      BY <1>2 DEF Plan
    <3>2. delta # 0
      BY <1>2 DEF Plan
    <3> QED
      BY <3>1, <3>2, BacktestAssumption
  <2>2. q = IF ~HasPos(t) THEN <<entry("OPEN")>>
            ELSE IF tgt = 0 THEN <<CloseAll(id, t)>>
            ELSE IF t.dir # Sign(tgt)
            THEN IF fresh = 0 THEN <<CloseAll(id, t)>>
                 ELSE <<CloseAll(id, t), Entry(id + 1, "OPEN", intent, fresh)>>
            ELSE <<entry(IF grows THEN "INCREASE" ELSE "REDUCE")>>
    BY <1>2, <2>1 DEF Plan
  <2>3. delta \in Int /\ fresh \in Int /\ Equity(t) > 0
    BY <2>1, Deltas, Valuation
  <2>4. ASSUME tgt # 0, NEW action \in Actions
        PROVE
          /\ entry(action) \in Decisions /\ entry(action).id = id
          /\ entry(action).action = action /\ entry(action).dir = Sign(tgt)
          /\ entry(action).qty = AbsVal(delta)
    BY <2>1, <2>3, <2>4, EntryType
  <2>0. ~HasPos(t) => tgt # 0
    BY <2>1, FlatStaysFlat
  <2> HIDE DEF q, delta, fresh, entry, grows
  <2>5. CASE ~HasPos(t)
    <3>1. q = <<entry("OPEN")>> /\ "OPEN" \in Actions
      BY <2>2, <2>5 DEF Actions, Entries
    <3>2. PlannedFor(entry("OPEN"), t)
      BY <2>0, <2>4, <2>5, <3>1 DEF PlannedFor
    <3> QED
      BY <2>0, <2>4, <2>5, <3>1, <3>2, SinglePlan DEF q
  <2>6. CASE HasPos(t) /\ (tgt = 0 \/ t.dir # Sign(tgt))
    <3> DEFINE c == CloseAll(id, t)
               e == Entry(id + 1, "OPEN", intent, fresh)
    <3>1. c \in Decisions /\ c.id = id /\ c.action = "CLOSE" /\ c.type = "MARKET" /\ c.qty = t.qty
      BY CloseType
    <3>2. PlannedFor(c, t)
      BY <2>6, <3>1 DEF PlannedFor
    <3>3. tgt # 0 => e \in Decisions /\ e.id = id + 1 /\ e.action = "OPEN"
      <4>1. id + 1 \in Nat \ {0} /\ "OPEN" \in Actions
        BY DEF Actions, Entries
      <4> QED
        BY <2>1, <2>3, <4>1, EntryType
    <3> HIDE DEF c, e
    <3>4. q = <<c>> \/ (tgt # 0 /\ q = <<c, e>>)
      BY <2>2, <2>6 DEF c, e
    <3>5. ASSUME tgt # 0
          PROVE  IsPlan(<<c, e>>, t, id)
      <4>1. /\ <<c, e>> \in Seq(Decisions) /\ Len(<<c, e>>) = 2
            /\ <<c, e>>[1] = c /\ <<c, e>>[2] = e
        BY <3>1, <3>3, <3>5
      <4> HIDE DEF IsPlan
      <4>2. Fits(<<c, e>>, t)
        BY <3>1, <3>2, <3>3, <3>5, <4>1 DEF Fits
      <4>3. \A i \in 1 .. 2 : <<c, e>>[i].id = id + i - 1
        BY <3>1, <3>3, <3>5, <4>1
      <4> QED
        BY <4>1, <4>2, <4>3 DEF IsPlan
    <3> QED
      BY <3>1, <3>2, <3>4, <3>5, SinglePlan DEF q
  <2>7. CASE HasPos(t) /\ tgt # 0 /\ t.dir = Sign(tgt) /\ grows
    <3>1. q = <<entry("INCREASE")>> /\ "INCREASE" \in Actions
      BY <2>2, <2>7 DEF Actions, Entries
    <3>2. PlannedFor(entry("INCREASE"), t)
      BY <2>4, <2>7, <3>1 DEF PlannedFor
    <3> QED
      BY <2>4, <2>7, <3>1, <3>2, SinglePlan DEF q
  <2>8. CASE HasPos(t) /\ tgt # 0 /\ t.dir = Sign(tgt) /\ ~grows
    <3>1. q = <<entry("REDUCE")>> /\ "REDUCE" \in Actions
      BY <2>2, <2>8 DEF Actions, Exits
    <3>2. AbsVal(delta) <= t.qty
      BY <2>1, <2>3, <2>8, ReducedWithin DEF delta, grows
    <3>3. AbsVal(delta) > 0
      BY <2>1, <2>3, AbsVals
    <3>4. PlannedFor(entry("REDUCE"), t)
      BY <2>4, <2>8, <3>1, <3>2, <3>3 DEF PlannedFor
    <3> QED
      BY <2>4, <2>8, <3>1, <3>4, SinglePlan DEF q
  <2> QED
    BY <2>5, <2>6, <2>7, <2>8
<1> QED
  BY <1>1, <1>2

-----------------------------------------------------------------------------
(* Execution. *)

Margin == Den \div Lev

(* What the clip leaves fits the equity at the fill price. *)
LEMMA Capped ==
  ASSUME NEW t \in States, NEW px \in Int, NEW rate \in Nat
  PROVE  /\ FeeAwareQty(t, px, rate) \in Nat
         /\ \A q \in Nat : q > 0 /\ q <= FeeAwareQty(t, px, rate) =>
              /\ px > 0
              /\ (Margin + rate) * px * q
                   <= t.cash + Unrealized(t, px) - InitialMargin(Units(t) * px)
<1> DEFINE headroom == t.cash + Unrealized(t, px) - InitialMargin(Units(t) * px)
           unitCost == (Margin + rate) * px
<1>1. FeeAwareQty(t, px, rate)
        = IF px <= 0 \/ headroom <= 0 THEN 0 ELSE headroom \div unitCost
  BY DEF FeeAwareQty, Margin
<1>2. headroom \in Int
  <2>1. Units(t) * px \in Int
    BY Valuation, Products
  <2>2. InitialMargin(Units(t) * px) \in Int /\ Unrealized(t, px) \in Int /\ t.cash \in Int
    BY <2>1, Valuation DEF States
  <2> QED
    BY <2>2
<1>3. px > 0 => unitCost \in Nat \ {0}
  <2>1. Margin + rate \in Nat \ {0}
    BY Rates DEF Margin
  <2> QED
    BY <2>1
<1> HIDE DEF headroom, unitCost
<1>4. ASSUME px > 0, headroom > 0
      PROVE  headroom \div unitCost \in Nat /\ unitCost * (headroom \div unitCost) <= headroom
  <2>1. headroom \in Nat /\ unitCost \in Nat \ {0}
    BY <1>2, <1>3, <1>4
  <2>2. headroom \div unitCost >= 0
    BY <2>1
  <2> QED
    BY <2>1, <2>2, Quotients
<1>5. FeeAwareQty(t, px, rate) \in Nat
  BY <1>1, <1>2, <1>4
<1>6. ASSUME NEW q \in Nat, q > 0, q <= FeeAwareQty(t, px, rate)
      PROVE  px > 0 /\ unitCost * q <= headroom
  <2>1. px > 0 /\ headroom > 0
    BY <1>1, <1>2, <1>6
  <2> DEFINE k == headroom \div unitCost
  <2>2. k \in Nat /\ unitCost * k <= headroom /\ q <= k
    BY <1>1, <1>2, <1>4, <1>6, <2>1
  <2> HIDE DEF k
  <2>3. unitCost * q <= unitCost * k
    BY <1>3, <1>6, <2>1, <2>2, Scaled
  <2>4. unitCost * q \in Int /\ unitCost * k \in Int
    BY <1>3, <2>1, <2>2, Products
  <2> QED
    BY <1>2, <2>1, <2>2, <2>3, <2>4
<1> QED
  BY <1>5, <1>6 DEF headroom, unitCost

LEMMA FeeRates ==
  ASSUME NEW type
  PROVE  FeeRate(type) \in Nat
BY Rates DEF FeeRate

LEMMA ExecutableType ==
  ASSUME NEW t \in States, NEW d \in Decisions, NEW px \in Int
  PROVE  LET exec == Executable(t, d, px)
         IN  /\ exec \in Decisions /\ exec.id = d.id /\ exec.action = d.action
             /\ exec.dir = d.dir /\ exec.type = d.type
             /\ d.action \in Entries => exec.qty <= FeeAwareQty(t, px, FeeRate(d.type))
             /\ d.action \notin Entries => exec = d
<1> DEFINE cap == FeeAwareQty(t, px, FeeRate(d.type))
<1>1. cap \in Nat
  BY Capped, FeeRates
<1>2. Executable(t, d, px) = IF d.action \in Entries /\ cap < d.qty THEN [d EXCEPT !.qty = cap] ELSE d
  BY DEF Executable
<1> HIDE DEF cap
<1>3. /\ [d EXCEPT !.qty = cap] \in Decisions
      /\ [d EXCEPT !.qty = cap].id = d.id /\ [d EXCEPT !.qty = cap].action = d.action
      /\ [d EXCEPT !.qty = cap].dir = d.dir /\ [d EXCEPT !.qty = cap].type = d.type
      /\ [d EXCEPT !.qty = cap].qty = cap
  BY <1>1 DEF Decisions
<1>4. d.qty \in Nat
  BY DEF Decisions
<1> QED
  BY <1>1, <1>2, <1>3, <1>4 DEF cap

(* The answers of the exchange, with the reasons to refuse. *)
LEMMA TradeCases ==
  ASSUME NEW t, NEW d, NEW px, d.action \in Actions
  PROVE  LET a        == Trade(t, d, px)
             fee      == FeeRate(d.type) * d.qty * px
             margin   == InitialMargin(Notional(t) + d.dir * d.qty * px)
             realized == d.qty * (Den * px - t.avg) * t.dir
             units    == t.qty + d.qty
             poor     == t.cash + Unrealized(t, px) - fee < margin
             exitable == HasPos(t) /\ t.avg # NA /\ d.qty > 0
         IN  \/ a.liquidate = TRUE
             \/ /\ a.liquidate = FALSE /\ ~IsLiquidated(t, px)
                /\ \/ /\ a.status = "FAILED" /\ a.fee = 0 /\ a.realized = 0
                      /\ \/ d.action \in Entries /\ poor
                         \/ /\ d.action \in Exits
                            /\ ~exitable \/ (d.action = "REDUCE" /\ d.qty > t.qty)
                   \/ /\ d.action \in Entries /\ ~poor
                      /\ a.status = "FILLED" /\ a.fee = fee /\ a.realized = 0
                      /\ a.cash = t.cash - fee /\ a.dir = d.dir
                      /\ a.qty = IF d.action = "OPEN" THEN d.qty ELSE units
                      /\ a.avg = IF d.action = "OPEN" THEN Den * px
                                 ELSE IF t.avg = NA \/ units = 0 THEN NA
                                 ELSE (t.qty * t.avg + d.qty * Den * px) \div units
                   \/ /\ d.action \in Exits /\ exitable
                      /\ d.action = "REDUCE" => ~(d.qty > t.qty)
                      /\ a.status = "FILLED" /\ a.fee = fee /\ a.realized = realized
                      /\ a.cash = t.cash - fee + realized
                      /\ a.dir = IF d.action = "CLOSE" THEN 0 ELSE d.dir
                      /\ a.qty = IF d.action = "CLOSE" THEN 0 ELSE t.qty - d.qty
                      /\ a.avg = IF d.action = "CLOSE" THEN NA ELSE t.avg
<1>1. CASE IsLiquidated(t, px)
  BY <1>1 DEF Trade
<1>2. CASE ~IsLiquidated(t, px) /\ d.action \in Entries
  BY <1>2 DEF Trade
<1>3. CASE ~IsLiquidated(t, px) /\ d.action \in Exits
  <2>1. d.action \notin Entries
    BY <1>3 DEF Entries, Exits
  <2> QED
    BY <1>3, <2>1 DEF Trade
<1> QED
  BY <1>1, <1>2, <1>3 DEF Actions

(* Scaling an absolute value by a direction and a positive price. *)
LEMMA Directed ==
  ASSUME NEW dir \in {-1, 0, 1}, NEW x \in Nat
  PROVE  /\ dir * x \in Int /\ AbsVal(dir * x) \in Nat /\ AbsVal(dir * x) <= x
         /\ dir # 0 => AbsVal(dir * x) = x
<1>1. /\ dir = 1 => dir * x = x
      /\ dir = -1 => dir * x = -x
      /\ dir = 0 => dir * x = 0
  OBVIOUS
<1> QED
  BY <1>1 DEF AbsVal

(* A quotient is the largest factor that fits. *)
LEMMA BeyondQuotient ==
  ASSUME NEW x \in Int, NEW y \in Nat \ {0}, NEW k \in Nat, x \div y < k
  PROVE  x < y * k
<1> DEFINE m == x \div y
<1>1. m \in Int /\ x < y * (m + 1)
  OBVIOUS
<1>2. m + 1 <= k
  BY <1>1
<1> HIDE DEF m
<1>3. y * (m + 1) <= y * k
  <2>1. k - (m + 1) \in Nat
    BY <1>1, <1>2
  <2>2. y * (k - (m + 1)) \in Nat
    BY <2>1, NatProducts
  <2>3. y * (k - (m + 1)) = y * k - y * (m + 1)
    BY <1>1
  <2> QED
    BY <1>1, <2>2, <2>3
<1> QED
  BY <1>1, <1>3

(* What the clip leaves out would not fit: one step more, and the equity   *)
(* at the fill price no longer carries the fee and the initial margin of   *)
(* the whole new position.                                                 *)
LEMMA ClipIsTight ==
  ASSUME NEW t \in States, NEW px \in Nat \ {0}, NEW rate \in Nat, NEW dir \in {-1, 1},
         HasPos(t) => dir = t.dir,
         NEW k \in Nat, k > FeeAwareQty(t, px, rate)
  PROVE  t.cash + Unrealized(t, px) - rate * k * px
           < InitialMargin((Units(t) + dir * k) * px)
<1> DEFINE C == t.cash + Unrealized(t, px)
           h == AbsVal(Units(t))
           unit == (Margin + rate) * px
<1>1. dir \in {-1, 0, 1} /\ dir # 0
  OBVIOUS
<1>0. t.cash \in Int /\ Unrealized(t, px) \in Int /\ Units(t) \in Int
  BY Valuation DEF States
<1>2. C \in Int /\ Units(t) \in Int /\ h \in Nat /\ Margin \in Nat \ {0}
      /\ t.dir \in {-1, 0, 1} /\ t.qty \in Nat
  BY <1>0, AbsVals, Rates DEF Margin, States
<1>3. Units(t) = dir * h /\ AbsVal(Units(t)) = h
  <2>1. CASE ~HasPos(t)
    BY <2>1, <1>2, AbsVals DEF HasPos, AbsVal
  <2>2. CASE HasPos(t)
    <3>1. dir = t.dir /\ Units(t) = dir * t.qty
      BY <2>2 DEF Units
    <3>2. h = t.qty
      BY <1>1, <1>2, <3>1, Directed
    <3> QED
      BY <3>1, <3>2
  <2> QED
    BY <2>1, <2>2
<1>4. InitialMargin(Units(t) * px) = Margin * (h * px)
      /\ InitialMargin((Units(t) + dir * k) * px) = Margin * (h * px) + Margin * (k * px)
  <2> DEFINE u == h * px
             w == k * px
  <2>1. u \in Nat /\ w \in Nat /\ u + w \in Nat
    BY <1>2, NatProducts
  <2>2. Units(t) * px = dir * u
    <3> HIDE DEF h
    <3> QED
      BY <1>2, <1>3
  <2>3. (Units(t) + dir * k) * px = dir * (u + w)
    <3>1. (dir * h + dir * k) * px = dir * (h * px + k * px)
      <4> HIDE DEF h
      <4> QED
        BY <1>2
    <3> QED
      BY <1>3, <3>1
  <2> HIDE DEF u, w, h
  <2>4. AbsVal(dir * u) = u /\ AbsVal(dir * (u + w)) = u + w
    BY <1>1, <2>1, Directed
  <2>5. Margin * (u + w) = Margin * u + Margin * w
    BY <1>2, <2>1
  <2>6. InitialMargin(Units(t) * px) = Margin * u
        /\ InitialMargin((Units(t) + dir * k) * px) = Margin * u + Margin * w
    BY <2>2, <2>3, <2>4, <2>5 DEF InitialMargin, Margin
  <2> QED
    BY <2>6 DEF u, w
<1> DEFINE M == Margin * (h * px)
           room == C - M
<1>5. M \in Nat /\ room \in Int
  <2> HIDE DEF h, C
  <2>1. h * px \in Nat
    BY <1>2, NatProducts
  <2>2. M \in Nat
    BY <1>2, <2>1, NatProducts
  <2> QED
    BY <1>2, <2>2
<1>6. FeeAwareQty(t, px, rate) = IF room <= 0 THEN 0 ELSE room \div unit
  <2> DEFINE held == InitialMargin(Units(t) * px)
  <2>1. FeeAwareQty(t, px, rate)
          = IF px <= 0 \/ C - held <= 0 THEN 0 ELSE (C - held) \div unit
    <3>1. t.cash + Unrealized(t, px) - InitialMargin(Units(t) * px) = C - held
      <4>1. held \in Int
        BY <1>0, Products, Valuation
      <4> QED
        BY <1>0, <4>1
    <3> HIDE DEF C, held
    <3> QED
      BY <3>1 DEF FeeAwareQty, Margin
  <2>2. ~(px <= 0)
    OBVIOUS
  <2>3. C - held = room
    BY <1>4
  <2> HIDE DEF C, held, unit, room
  <2> QED
    BY <2>1, <2>2, <2>3
<1>7. unit \in Nat \ {0} /\ unit * k = rate * k * px + Margin * (k * px) /\ rate * k * px \in Nat
      /\ Margin * (k * px) \in Nat
  <2>1. Margin + rate \in Nat \ {0}
    BY <1>2
  <2>2. unit \in Nat /\ unit # 0
    BY <2>1
  <2>3. rate * k \in Nat /\ k * px \in Nat
    BY NatProducts
  <2>4. rate * k * px \in Nat /\ Margin * (k * px) \in Nat
    BY <1>2, <2>3, NatProducts
  <2>5. (Margin + rate) * px * k = rate * k * px + Margin * (k * px)
    BY <1>2
  <2> QED
    BY <2>2, <2>4, <2>5
<1> HIDE DEF C, h, M, room, unit
<1>8. room < unit * k
  <2>1. CASE room <= 0
    <3>1. k >= 1
      BY <1>6, <2>1
    <3>2. unit * k \in Nat \ {0}
      BY <1>7, <3>1
    <3> QED
      BY <1>5, <2>1, <3>2
  <2>2. CASE room > 0
    <3>1. room \div unit < k
      BY <1>6, <2>2, <1>5
    <3> QED
      BY <1>5, <1>7, <3>1, BeyondQuotient
  <2> QED
    BY <1>5, <2>1, <2>2
<1>9. C - rate * k * px < M + Margin * (k * px)
  <2>1. room = C - M
    BY DEF room
  <2> QED
    BY <1>2, <1>5, <1>7, <1>8, <2>1
<1> DEFINE whole == InitialMargin((Units(t) + dir * k) * px)
<1>10. whole = M + Margin * (k * px)
  BY <1>4 DEF M
<1>11. C - rate * k * px < whole
  <2> HIDE DEF whole
  <2> QED
    BY <1>9, <1>10
<1>12. t.cash + Unrealized(t, px) - rate * k * px = C - rate * k * px
  BY <1>0, <1>7 DEF C
<1> HIDE DEF whole
<1> QED
  BY <1>11, <1>12 DEF whole

(* The clipped entry is covered at its own price, fee included.            *)
LEMMA EntryCovered ==
  ASSUME NEW t \in States, NEW px \in Int, NEW rate \in Nat, NEW q \in Nat,
         q > 0, q <= FeeAwareQty(t, px, rate), NEW dir \in {-1, 0, 1}
  PROVE  LET free == t.cash + Unrealized(t, px) - rate * q * px
         IN  /\ free >= InitialMargin(Units(t) * px) + Margin * (q * px)
             /\ free >= InitialMargin(dir * q * px)
             /\ dir = t.dir /\ dir # 0 => free >= InitialMargin(dir * (t.qty + q) * px)
<1> DEFINE C == t.cash + Unrealized(t, px)
           M == InitialMargin(Units(t) * px)
           w == q * px
<1>0. t.cash \in Int /\ Unrealized(t, px) \in Int /\ InitialMargin(Units(t) * px) \in Int
      /\ rate * q * px \in Int
  <2>1. Units(t) * px \in Int /\ rate * q \in Int
    BY Valuation, Products
  <2> QED
    BY <2>1, Valuation, Products DEF States
<1>1. px > 0 /\ (Margin + rate) * px * q <= C - M
  <2>1. px > 0 /\ (Margin + rate) * px * q
                   <= t.cash + Unrealized(t, px) - InitialMargin(Units(t) * px)
    BY Capped
  <2>2. t.cash + Unrealized(t, px) - InitialMargin(Units(t) * px) = C - M
    BY <1>0
  <2> QED
    BY <2>1, <2>2
<1>2. /\ C \in Int /\ M \in Nat /\ Margin \in Nat \ {0} /\ px \in Nat
      /\ t.dir \in {-1, 0, 1} /\ t.qty \in Nat
  <2>1. t.cash \in Int /\ Unrealized(t, px) \in Int /\ Units(t) * px \in Int
    BY Valuation, Products DEF States
  <2>2. M \in Nat
    BY <2>1, Valuation
  <2> QED
    BY <1>1, <2>1, <2>2, Rates DEF Margin, States
<1>3. w \in Nat /\ rate * q * px \in Nat /\ Margin * w \in Nat
      /\ (Margin + rate) * px * q = Margin * w + rate * q * px
  <2>1. w \in Nat /\ rate * q \in Nat
    BY <1>2, NatProducts
  <2>2. rate * q * px \in Nat /\ Margin * w \in Nat
    BY <1>2, <2>1, NatProducts
  <2>3. (Margin + rate) * px * q = Margin * (q * px) + rate * q * px
    BY <1>2
  <2> QED
    BY <2>1, <2>2, <2>3
<1>4. C - rate * q * px >= M + Margin * w
  <2> HIDE DEF C, M, w
  <2> QED
    BY <1>1, <1>2, <1>3
<1>5. C - rate * q * px >= InitialMargin(dir * q * px)
  <2>1. dir * q * px = dir * w
    BY <1>2
  <2>2. Margin * AbsVal(dir * w) <= Margin * w /\ Margin * AbsVal(dir * w) \in Nat
    <3> HIDE DEF w
    <3>1. AbsVal(dir * w) \in Nat /\ AbsVal(dir * w) <= w
      BY <1>3, Directed
    <3> QED
      BY <1>2, <1>3, <3>1, Scaled, NatProducts
  <2>3. InitialMargin(dir * q * px) = Margin * AbsVal(dir * w)
    BY <2>1 DEF InitialMargin, Margin
  <2> HIDE DEF C, M, w
  <2> QED
    BY <1>2, <1>3, <1>4, <2>2, <2>3
<1>6. ASSUME dir = t.dir, dir # 0
      PROVE  C - rate * q * px >= InitialMargin(dir * (t.qty + q) * px)
  <2> DEFINE h == t.qty * px
  <2>1. h \in Nat /\ h + w \in Nat
    BY <1>2, <1>3, NatProducts
  <2>2. Units(t) * px = dir * h /\ dir * (t.qty + q) * px = dir * (h + w)
    <3>1. Units(t) * px = dir * h
      BY <1>2, <1>6 DEF Units
    <3>2. (t.qty + q) * px = h + w
      BY <1>2
    <3>3. dir * (t.qty + q) * px = dir * ((t.qty + q) * px)
      BY <1>2
    <3> QED
      BY <3>1, <3>2, <3>3
  <2> HIDE DEF h, w
  <2>3. AbsVal(dir * h) = h /\ AbsVal(dir * (h + w)) = h + w
    BY <1>6, <2>1, Directed
  <2>4. InitialMargin(Units(t) * px) = Margin * h
        /\ InitialMargin(dir * (t.qty + q) * px) = Margin * (h + w)
    BY <2>2, <2>3 DEF InitialMargin, Margin
  <2>5. Margin * (h + w) = Margin * h + Margin * w
    BY <1>2, <1>3, <2>1
  <2>6. M = Margin * h
    BY <2>4
  <2> HIDE DEF C, M
  <2> QED
    BY <1>4, <2>4, <2>5, <2>6
<1>7. t.cash + Unrealized(t, px) - rate * q * px = C - rate * q * px
  BY <1>0
<1> HIDE DEF C
<1> QED
  BY <1>4, <1>5, <1>6, <1>7

(* A planned opening is not refused: what is left of it is covered, and    *)
(* nothing is covered by a solvent account.                                *)
LEMMA OpeningCovered ==
  ASSUME NEW t \in States, NEW px \in Int, NEW rate \in Nat, NEW q \in Nat,
         q <= FeeAwareQty(t, px, rate), NEW dir \in {-1, 0, 1},
         ~HasPos(t), ~IsLiquidated(t, px)
  PROVE  ~(t.cash + Unrealized(t, px) - rate * q * px
             < InitialMargin(Notional(t) + dir * q * px))
<1> DEFINE free == t.cash + Unrealized(t, px) - rate * q * px
<1>1. t.cash \in Int /\ t.last \in Int /\ Unrealized(t, px) \in Int /\ Maintenance(t) \in Nat
  BY Valuation DEF States
<1>2. Notional(t) = 0
  BY <1>1 DEF HasPos, Notional
<1>3. rate * q * px \in Int /\ dir * q * px \in Int
  <2>1. rate * q \in Int /\ dir * q \in Int
    BY Products
  <2> QED
    BY <2>1, Products
<1>4. Notional(t) + dir * q * px = dir * q * px
  BY <1>2, <1>3
<1>5. InitialMargin(dir * q * px) \in Int
  BY <1>3, Valuation
<1>6. CASE q = 0
  <2>1. rate * q * px = 0 /\ dir * q * px = 0
    BY <1>6
  <2>2. InitialMargin(0) = 0
    BY Rates DEF InitialMargin, AbsVal
  <2>3. t.cash + Unrealized(t, px) >= 0
    BY <1>1 DEF IsLiquidated
  <2> QED
    BY <1>1, <1>4, <2>1, <2>2, <2>3
<1>7. CASE q > 0
  <2>1. free >= InitialMargin(dir * q * px)
    BY <1>7, EntryCovered
  <2>2. free \in Int
    BY <1>1, <1>3
  <2> HIDE DEF free
  <2>3. ~(free < InitialMargin(Notional(t) + dir * q * px))
    BY <1>4, <1>5, <2>1, <2>2
  <2> QED
    BY <2>3 DEF free
<1> QED
  BY <1>6, <1>7

(* What is answered to a planned decision, unless it meets a liquidation.  *)
LEMMA Answered ==
  ASSUME NEW t \in States, HasPos(t) => t.avg # NA, NEW d \in Decisions, PlannedFor(d, t),
         NEW px \in Int, Trade(t, Executable(t, d, px), px).liquidate # TRUE
  PROVE  LET exec == Executable(t, d, px)
             a    == Trade(t, exec, px)
         IN  /\ a.status \in {"FILLED", "FAILED"} /\ a.fee \in Int /\ a.realized \in Int
             /\ a.status = "FAILED" => d.action = "INCREASE"
             /\ a.status = "FILLED" =>
                  /\ a.cash \in Int /\ a.dir \in {-1, 0, 1} /\ a.qty \in Nat
                  /\ a.avg \in Int \cup {NA} /\ (a.dir * a.qty # 0 => a.avg # NA)
                  /\ d.action = "CLOSE" => a.dir = 0
                  /\ d.action \in Entries /\ exec.qty > 0 =>
                       t.cash + Unrealized(t, px) - a.fee >= InitialMargin(a.dir * a.qty * px)
<1> DEFINE exec     == Executable(t, d, px)
           a        == Trade(t, exec, px)
           rate     == FeeRate(exec.type)
           fee      == rate * exec.qty * px
           realized == exec.qty * (Den * px - t.avg) * t.dir
           units    == t.qty + exec.qty
           mean     == (t.qty * t.avg + exec.qty * Den * px) \div units
           poor     == t.cash + Unrealized(t, px) - fee
                         < InitialMargin(Notional(t) + exec.dir * exec.qty * px)
           exitable == HasPos(t) /\ t.avg # NA /\ exec.qty > 0
<1>1. /\ t.cash \in Int /\ t.dir \in {-1, 0, 1} /\ t.qty \in Nat /\ t.avg \in Int \cup {NA}
      /\ exec.qty \in Nat /\ exec.dir \in {-1, 0, 1} /\ d.action \in Actions /\ rate \in Nat
      /\ exec.action = d.action /\ exec.dir = d.dir /\ exec \in Decisions
      /\ d.action \in Entries => exec.qty <= FeeAwareQty(t, px, rate)
      /\ d.action \in Exits => exec = d
  <2>1. /\ exec \in Decisions /\ exec.action = d.action /\ exec.dir = d.dir /\ exec.type = d.type
        /\ d.action \in Entries => exec.qty <= FeeAwareQty(t, px, FeeRate(d.type))
        /\ d.action \notin Entries => exec = d
    BY ExecutableType
  <2>2. exec.qty \in Nat /\ exec.dir \in {-1, 0, 1} /\ d.action \in Actions
    BY <2>1 DEF Decisions
  <2>3. d.action \in Exits => d.action \notin Entries
    BY DEF Entries, Exits
  <2> QED
    BY <2>1, <2>2, <2>3, FeeRates DEF States
<1>2. HasPos(t) => t.qty > 0 /\ t.dir # 0
  BY <1>1 DEF HasPos, Units
<1>3. fee \in Int /\ Den * px \in Int
  <2> HIDE DEF exec, rate
  <2>1. rate * exec.qty \in Int
    BY <1>1, Products
  <2> QED
    BY <2>1, Rates, Products
<1>4. t.avg # NA => realized \in Int
  <2> SUFFICES ASSUME t.avg # NA
               PROVE  realized \in Int
    OBVIOUS
  <2> HIDE DEF exec
  <2>1. Den * px - t.avg \in Int
    BY <1>1, <1>3
  <2>2. exec.qty * (Den * px - t.avg) \in Int
    BY <1>1, <2>1, Products
  <2> QED
    BY <1>1, <2>2, Products
<1>5. t.avg # NA /\ units # 0 => mean \in Int
  <2> SUFFICES ASSUME t.avg # NA, units # 0
               PROVE  mean \in Int
    OBVIOUS
  <2> HIDE DEF exec
  <2>1. t.qty * t.avg \in Int /\ exec.qty * Den \in Int
    BY <1>1, Rates, Products
  <2>2. exec.qty * Den * px \in Int
    BY <2>1, Products
  <2>3. t.qty * t.avg + exec.qty * Den * px \in Int
    BY <2>1, <2>2
  <2> QED
    BY <1>1, <2>3, Quotients
<1> DEFINE Refused == /\ a.status = "FAILED" /\ a.fee = 0 /\ a.realized = 0
                      /\ \/ exec.action \in Entries /\ poor
                         \/ /\ exec.action \in Exits
                            /\ ~exitable \/ (exec.action = "REDUCE" /\ exec.qty > t.qty)
           Entered == /\ exec.action \in Entries /\ ~poor
                      /\ a.status = "FILLED" /\ a.fee = fee /\ a.realized = 0
                      /\ a.cash = t.cash - fee /\ a.dir = exec.dir
                      /\ a.qty = IF exec.action = "OPEN" THEN exec.qty ELSE units
                      /\ a.avg = IF exec.action = "OPEN" THEN Den * px
                                 ELSE IF t.avg = NA \/ units = 0 THEN NA ELSE mean
           Left    == /\ exec.action \in Exits /\ exitable
                      /\ exec.action = "REDUCE" => ~(exec.qty > t.qty)
                      /\ a.status = "FILLED" /\ a.fee = fee /\ a.realized = realized
                      /\ a.cash = t.cash - fee + realized
                      /\ a.dir = IF exec.action = "CLOSE" THEN 0 ELSE exec.dir
                      /\ a.qty = IF exec.action = "CLOSE" THEN 0 ELSE t.qty - exec.qty
                      /\ a.avg = IF exec.action = "CLOSE" THEN NA ELSE t.avg
<1>6. ~IsLiquidated(t, px) /\ (Refused \/ Entered \/ Left)
  BY <1>1, TradeCases
<1> SUFFICES /\ a.status \in {"FILLED", "FAILED"} /\ a.fee \in Int /\ a.realized \in Int
             /\ a.status = "FAILED" => d.action = "INCREASE"
             /\ a.status = "FILLED" =>
                  /\ a.cash \in Int /\ a.dir \in {-1, 0, 1} /\ a.qty \in Nat
                  /\ a.avg \in Int \cup {NA} /\ (a.dir * a.qty # 0 => a.avg # NA)
                  /\ d.action = "CLOSE" => a.dir = 0
                  /\ d.action \in Entries /\ exec.qty > 0 =>
                       t.cash + Unrealized(t, px) - a.fee >= InitialMargin(a.dir * a.qty * px)
  OBVIOUS
<1>7. CASE Refused
  <2>1. d.action \notin Exits
    <3>1. ASSUME d.action \in Exits
          PROVE  exitable /\ ~(exec.action = "REDUCE" /\ exec.qty > t.qty)
      <4>1. exec = d /\ HasPos(t) /\ t.avg # NA /\ exec.qty > 0 /\ exec.qty <= t.qty
        BY <1>1, <1>2, <3>1 DEF PlannedFor, Exits
      <4> HIDE DEF exec
      <4> QED
        BY <1>1, <4>1
    <3>2. d.action \in Exits => d.action \notin Entries
      BY DEF Entries, Exits
    <3> HIDE DEF exec, poor, exitable
    <3> QED
      BY <1>1, <1>7, <3>1, <3>2
  <2>2. d.action # "OPEN"
    <3> SUFFICES ASSUME d.action = "OPEN"
                 PROVE  ~poor
      <4> HIDE DEF exec, poor, exitable
      <4> QED
        BY <1>1, <1>7, <2>1
    <3>1. ~HasPos(t)
      BY DEF PlannedFor
    <3>2. exec.qty <= FeeAwareQty(t, px, rate)
      BY <1>1 DEF Entries
    <3> HIDE DEF exec, rate
    <3> QED
      BY <1>1, <1>6, <3>1, <3>2, OpeningCovered
  <2>3. d.action = "INCREASE"
    BY <1>1, <2>1, <2>2 DEF Actions, Entries
  <2> HIDE DEF exec, a, poor, exitable
  <2> QED
    BY <1>7, <2>3
<1>8. CASE Entered
  <2>1. d.action \in {"OPEN", "INCREASE"} /\ d.action \in Entries
    <3> HIDE DEF exec
    <3> QED
      BY <1>1, <1>8 DEF Entries
  <2>2. d.action = "INCREASE" => HasPos(t) /\ d.dir = t.dir
    BY DEF PlannedFor
  <2>3. ASSUME exec.qty > 0
        PROVE  t.cash + Unrealized(t, px) - a.fee >= InitialMargin(a.dir * a.qty * px)
    <3>1. exec.qty <= FeeAwareQty(t, px, rate)
      BY <1>1, <2>1
    <3> HIDE DEF exec, rate, a
    <3>2. /\ t.cash + Unrealized(t, px) - fee >= InitialMargin(exec.dir * exec.qty * px)
          /\ exec.dir = t.dir /\ exec.dir # 0 =>
               t.cash + Unrealized(t, px) - fee >= InitialMargin(exec.dir * units * px)
      BY <1>1, <2>3, <3>1, EntryCovered
    <3> HIDE DEF fee, units, mean
    <3>3. CASE d.action = "OPEN"
      BY <1>1, <1>8, <3>2, <3>3
    <3>4. CASE d.action = "INCREASE"
      BY <1>1, <1>2, <1>8, <2>2, <3>2, <3>4
    <3> QED
      BY <2>1, <3>3, <3>4
  <2> HIDE DEF exec, a, fee, mean, poor, exitable
  <2>4. a.cash \in Int /\ a.dir \in {-1, 0, 1} /\ a.qty \in Nat
    BY <1>1, <1>3, <1>8
  <2>5. a.avg \in Int \cup {NA} /\ (a.dir * a.qty # 0 => a.avg # NA)
    <3>1. CASE d.action = "OPEN"
      BY <1>1, <1>3, <1>8, <3>1, Rates
    <3>2. CASE d.action = "INCREASE"
      <4>1. t.avg # NA /\ units # 0
        BY <1>1, <1>2, <2>2, <3>2
      <4>2. mean \in Int
        BY <1>5, <4>1
      <4>3. a.avg = mean
        BY <1>1, <1>8, <3>2, <4>1
      <4> QED
        BY <4>2, <4>3, Rates
    <3> QED
      BY <2>1, <3>1, <3>2
  <2> QED
    BY <1>3, <1>8, <2>1, <2>3, <2>4, <2>5
<1>9. CASE Left
  <2>1. d.action \in Exits /\ d.action \notin Entries
    <3> HIDE DEF exec
    <3> QED
      BY <1>1, <1>9 DEF Exits, Entries
  <2>2. t.avg \in Int
    BY <1>1, <1>9
  <2>3. realized \in Int
    BY <1>4, <2>2, Rates
  <2> HIDE DEF exec, a, fee, realized, poor
  <2>4. a.dir \in {-1, 0, 1} /\ a.qty \in Nat
    <3>1. CASE d.action = "CLOSE"
      BY <1>1, <1>9, <3>1
    <3>2. CASE d.action = "REDUCE"
      BY <1>1, <1>9, <3>2
    <3> QED
      BY <2>1, <3>1, <3>2 DEF Exits
  <2>5. d.action = "CLOSE" => a.dir = 0 /\ a.qty = 0
    BY <1>1, <1>9
  <2>6. d.action = "REDUCE" => a.avg = t.avg
    BY <1>1, <1>9
  <2>7. a.avg \in Int \cup {NA} /\ (a.dir * a.qty # 0 => a.avg # NA)
    <3>1. CASE d.action = "CLOSE"
      BY <1>1, <1>9, <2>5, <3>1
    <3>2. CASE d.action = "REDUCE"
      BY <2>2, <2>6, <3>2, Rates
    <3> QED
      BY <2>1, <3>1, <3>2 DEF Exits
  <2>8. a.cash \in Int
    BY <1>1, <1>3, <1>9, <2>3
  <2> QED
    BY <1>3, <1>9, <2>1, <2>3, <2>4, <2>5, <2>7, <2>8
<1> QED
  BY <1>6, <1>7, <1>8, <1>9

-----------------------------------------------------------------------------
(* The recorder. *)

Stages == {"idle", "orders", "funding", "mark", "plan", "same_close"}

LogRecords ==
  [kind : {"trade", "funding", "liquidation"}, bar : Nat, stage : Stages, id : Nat,
   action : Actions \cup {"NONE"}, dir : {-1, 0, 1}, qty : Nat, px : Int \cup {NA},
   status : {"FILLED", "FAILED"}, fee : Int, realized : Int]

(* The trades of a log, as decisions that only come in order and only fail *)
(* when they increase.                                                     *)
Orderly(l) ==
  /\ l \in Seq(LogRecords)
  /\ \A i \in 1 .. Len(l) : l[i].kind = "trade" /\ l[i].status = "FAILED" => l[i].action = "INCREASE"
  /\ \A i, j \in 1 .. Len(l) :
       i < j /\ l[i].kind = "trade" /\ l[j].kind = "trade" => l[i].id < l[j].id

TradesBelow(l, k) == \A i \in 1 .. Len(l) : l[i].kind = "trade" => l[i].id < k

LEMMA Untraded ==
  ASSUME NEW l, Orderly(l), NEW r \in LogRecords, r.kind # "trade"
  PROVE  /\ Orderly(Append(l, r))
         /\ \A k : TradesBelow(l, k) => TradesBelow(Append(l, r), k)
<1>1. l \in Seq(LogRecords) /\ Len(l) \in Nat
  BY DEF Orderly
<1>2. /\ Append(l, r) \in Seq(LogRecords) /\ Len(Append(l, r)) = Len(l) + 1
      /\ \A i \in 1 .. Len(l) : Append(l, r)[i] = l[i]
      /\ Append(l, r)[Len(l) + 1] = r
  BY <1>1
<1>3. \A i \in 1 .. Len(Append(l, r)) :
        Append(l, r)[i].kind = "trade" => i \in 1 .. Len(l) /\ Append(l, r)[i] = l[i]
  BY <1>1, <1>2
<1>4. Orderly(Append(l, r))
  BY <1>2, <1>3 DEF Orderly
<1>5. ASSUME NEW k, TradesBelow(l, k)
      PROVE  TradesBelow(Append(l, r), k)
  BY <1>3, <1>5 DEF TradesBelow
<1> QED
  BY <1>4, <1>5

LEMMA Traded ==
  ASSUME NEW l, Orderly(l), NEW r \in LogRecords, r.kind = "trade",
         TradesBelow(l, r.id), r.status = "FAILED" => r.action = "INCREASE"
  PROVE  /\ Orderly(Append(l, r))
         /\ \A k : TradesBelow(l, k) /\ r.id < k => TradesBelow(Append(l, r), k)
<1>1. l \in Seq(LogRecords) /\ Len(l) \in Nat
  BY DEF Orderly
<1>2. /\ Append(l, r) \in Seq(LogRecords) /\ Len(Append(l, r)) = Len(l) + 1
      /\ \A i \in 1 .. Len(l) : Append(l, r)[i] = l[i]
      /\ Append(l, r)[Len(l) + 1] = r
  BY <1>1
<1>3. \A i \in 1 .. Len(Append(l, r)) :
        \/ i \in 1 .. Len(l) /\ Append(l, r)[i] = l[i]
        \/ i = Len(l) + 1 /\ Append(l, r)[i] = r
  BY <1>1, <1>2
<1>4. \A i \in 1 .. Len(Append(l, r)) :
        Append(l, r)[i].kind = "trade" /\ Append(l, r)[i].status = "FAILED"
          => Append(l, r)[i].action = "INCREASE"
  BY <1>3 DEF Orderly
<1>5. ASSUME NEW i \in 1 .. Len(Append(l, r)), NEW j \in 1 .. Len(Append(l, r)), i < j,
             Append(l, r)[i].kind = "trade", Append(l, r)[j].kind = "trade"
      PROVE  Append(l, r)[i].id < Append(l, r)[j].id
  <2>1. i \in 1 .. Len(l) /\ Append(l, r)[i] = l[i]
    BY <1>1, <1>2, <1>3, <1>5
  <2>2. CASE j \in 1 .. Len(l) /\ Append(l, r)[j] = l[j]
    BY <1>5, <2>1, <2>2 DEF Orderly
  <2>3. CASE j = Len(l) + 1 /\ Append(l, r)[j] = r
    BY <1>5, <2>1, <2>3 DEF TradesBelow
  <2> QED
    BY <1>3, <2>2, <2>3
<1>6. ASSUME NEW k, TradesBelow(l, k), r.id < k
      PROVE  TradesBelow(Append(l, r), k)
  BY <1>3, <1>6 DEF TradesBelow
<1> QED
  BY <1>2, <1>4, <1>5, <1>6 DEF Orderly

-----------------------------------------------------------------------------
(* The inductive invariant. *)

Executing == stage \in {"orders", "same_close"}

Typed ==
  /\ TypeOK /\ s \in States
  /\ pending \in Seq(Decisions) /\ queue \in Seq(Decisions) /\ rest \in Seq(Decisions)

Staged ==
  /\ stage # "idle" => bar \in Bars
  /\ stage = "plan" => s.last > 0
  /\ stage \in {"funding", "mark", "plan"} => ~liquidated
  /\ queue # <<>> => Executing /\ ~liquidated /\ rest = <<>>
  /\ HasPos(s) => s.avg # NA

(* What is still to be executed suits the position it will meet. *)
Planned == Fits(queue, s) /\ Fits(rest, s) /\ (~Executing => Fits(pending, s))

(* A plan is numbered after every trade on record. *)
Fresh(q, l, id) == \A i \in 1 .. Len(q) : q[i].id < id /\ TradesBelow(l, q[i].id)

Numbered ==
  /\ TradesBelow(log, nextId)
  /\ Fresh(queue, log, nextId) /\ Fresh(rest, log, nextId)
  /\ ~Executing => Fresh(pending, log, nextId)

Inv == Typed /\ Staged /\ Planned /\ Orderly(log) /\ Numbered

LEMMA InvImplies == Inv => TypeOK /\ OnlyIncreasesFail /\ DecisionsExecuteOnce
BY DEF Inv, Typed, Orderly, OnlyIncreasesFail, DecisionsExecuteOnce

(* Plans suit a state by its position alone. *)
LEMMA FitsPosition ==
  ASSUME NEW t, NEW u, t.dir = u.dir, t.qty = u.qty, NEW q, Fits(q, t)
  PROVE  Fits(q, u)
BY DEF Fits, PlannedFor, HasPos, Units

LEMMA NoPlan ==
  /\ <<>> \in Seq(Decisions) /\ Len(<<>>) = 0
  /\ \A t : Fits(<<>>, t)
  /\ \A l, id : Fresh(<<>>, l, id)
<1>1. <<>> \in Seq(Decisions) /\ Len(<<>>) = 0
  OBVIOUS
<1> QED
  BY <1>1 DEF Fits, Fresh

LEMMA PlanActions ==
  ASSUME NEW q \in Seq(Decisions), NEW t, Fits(q, t)
  PROVE  Len(q) <= 2 /\ \A i \in 1 .. Len(q) : q[i].action \in Actions /\ q[i].qty \in Nat
BY DEF Fits, Decisions

LEMMA BarPrices ==
  ASSUME NEW b \in Bars
  PROVE  b.open \in Nat \ {0} /\ b.close \in Nat \ {0}
BY BacktestAssumption

LEMMA InitInv == Init => Inv
<1> SUFFICES ASSUME Init PROVE Inv
  OBVIOUS
<1>1. s \in States /\ ~HasPos(s)
  BY Rates DEF Init, States, HasPos, Units
<1>2. TypeOK
  <2>1. s.cash \in Int /\ s.dir \in {-1, 0, 1} /\ s.qty \in Nat /\ s.avg \in Int \cup {NA}
        /\ s.last \in Nat
    BY <1>1 DEF States
  <2>2. n \in 0 .. MaxBars /\ nextId \in Nat \ {0}
    BY Rates DEF Init
  <2>3. pending = <<>> /\ queue = <<>> /\ rest = <<>> /\ 1 .. Len(<<>>) = {}
    BY NoPlan DEF Init
  <2>4. Len(pending) <= 2 /\ Len(queue) <= 2 /\ Len(rest) <= 2
    BY <2>3, NoPlan
  <2>5. \A i \in 1 .. Len(pending) : pending[i].action \in Actions /\ pending[i].qty \in Nat
    BY <2>3
  <2> QED
    BY <2>1, <2>2, <2>4, <2>5 DEF Init, TypeOK
<1>3. Orderly(log) /\ \A k : TradesBelow(log, k)
  <2>1. <<>> \in Seq(LogRecords) /\ Len(<<>>) = 0
    OBVIOUS
  <2> QED
    BY <2>1 DEF Init, Orderly, TradesBelow
<1>4. Typed /\ Planned
  BY <1>1, <1>2, NoPlan DEF Init, Typed, Planned
<1>5. Staged
  BY <1>1 DEF Init, Staged
<1>6. Numbered
  BY <1>3, NoPlan DEF Init, Numbered
<1> QED
  BY <1>3, <1>4, <1>5, <1>6 DEF Inv

LEMMA SkipBarKeeps ==
  ASSUME Inv, SkipBar, fillModel' = fillModel
  PROVE  Inv'
<1>1. n' \in 0 .. MaxBars
  BY Rates DEF Inv, Typed, TypeOK, SkipBar
<1>2. Typed'
  BY <1>1 DEF Inv, Typed, TypeOK, SkipBar
<1>3. Staged' /\ Planned'
  BY DEF Inv, Staged, Planned, Executing, SkipBar
<1>4. Numbered' /\ Orderly(log')
  BY DEF Inv, Numbered, Executing, SkipBar
<1> QED
  BY <1>2, <1>3, <1>4 DEF Inv

LEMMA UpdateBarKeeps ==
  ASSUME Inv, UpdateBar, fillModel' = fillModel
  PROVE  Inv'
<1>1. n' \in 0 .. MaxBars
  BY Rates DEF Inv, Typed, TypeOK, UpdateBar
<1>2. /\ stage' \in {"funding", "orders"} /\ ~Executing /\ bar' \in Bars /\ ~liquidated
      /\ queue' = pending /\ rest' = <<>> /\ pending' = pending /\ s' = s
      /\ liquidated' = liquidated /\ nextId' = nextId /\ log' = log
      /\ (stage' = "orders" <=> pending # <<>>)
  BY DEF UpdateBar, Executing
<1>3. Typed'
  <2>1. Len(queue') <= 2 /\ Len(rest') <= 2 /\ queue' \in Seq(Decisions) /\ rest' \in Seq(Decisions)
    BY <1>2, NoPlan DEF Inv, Typed, TypeOK
  <2> QED
    BY <1>1, <1>2, <2>1 DEF Inv, Typed, TypeOK, UpdateBar
<1>4. Staged'
  BY <1>2 DEF Inv, Staged, Executing
<1>5. Planned' /\ Numbered'
  BY <1>2, NoPlan DEF Inv, Planned, Numbered
<1> QED
  BY <1>2, <1>3, <1>4, <1>5 DEF Inv

LEMMA RecordType ==
  ASSUME Inv, NEW kind \in {"trade", "funding", "liquidation"}, NEW d, NEW answer,
         NEW px \in Int \cup {NA},
         d.id \in Nat, d.action \in Actions \cup {"NONE"}, d.dir \in {-1, 0, 1}, d.qty \in Nat,
         answer.status \in {"FILLED", "FAILED"}, answer.fee \in Int, answer.realized \in Int
  PROVE  LET r == Record(kind, d, answer, px)
         IN  /\ r \in LogRecords /\ r.kind = kind /\ r.id = d.id /\ r.action = d.action
             /\ r.status = answer.status /\ r.qty = d.qty /\ r.px = px /\ r.fee = answer.fee
<1>1. n \in Nat /\ stage \in Stages
  BY Rates DEF Inv, Typed, TypeOK, Stages
<1> QED
  BY <1>1 DEF Record, LogRecords

LEMMA LiquidationType ==
  ASSUME Inv
  PROVE  LiquidationRecord \in LogRecords /\ LiquidationRecord.kind = "liquidation"
<1> DEFINE answer == [status |-> "FAILED", fee |-> 0, realized |-> 0]
<1>1. /\ Nothing.id = 0 /\ Nothing.action = "NONE" /\ Nothing.dir = 0 /\ Nothing.qty = 0
      /\ answer.status = "FAILED" /\ answer.fee = 0 /\ answer.realized = 0
  BY DEF Nothing, Decision
<1>2. LiquidationRecord = Record("liquidation", Nothing, answer, NA)
  BY DEF LiquidationRecord
<1> HIDE DEF answer
<1>3. /\ "liquidation" \in {"trade", "funding", "liquidation"} /\ NA \in Int \cup {NA}
      /\ Nothing.id \in Nat /\ Nothing.action \in Actions \cup {"NONE"}
      /\ Nothing.dir \in {-1, 0, 1} /\ Nothing.qty \in Nat
      /\ answer.status \in {"FILLED", "FAILED"} /\ answer.fee \in Int /\ answer.realized \in Int
  BY <1>1
<1>4. n \in Nat /\ stage \in Stages
  BY Rates DEF Inv, Typed, TypeOK, Stages
<1> QED
  BY <1>2, <1>3, <1>4 DEF Record, LogRecords

LEMMA ShortSequences ==
  ASSUME NEW S, NEW q \in Seq(S), q # <<>>, Len(q) <= 2
  PROVE  /\ Len(q) \in {1, 2} /\ Head(q) = q[1] /\ q[1] \in S
         /\ Tail(q) \in Seq(S) /\ Len(Tail(q)) = Len(q) - 1
         /\ Len(q) = 1 => Tail(q) = <<>>
         /\ Len(q) = 2 => Tail(q)[1] = q[2] /\ q[2] \in S
<1>1. Len(q) \in {1, 2}
  <2>1. Len(q) \in Nat \ {0}
    BY EmptySeq, Zenon
  <2>2. \A k \in Nat \ {0} : k <= 2 => k \in {1, 2}
    OBVIOUS
  <2> QED
    BY <2>1, <2>2
<1>2. Head(q) = q[1] /\ q[1] \in S
  <2>1. q[1] \in S
    <3>1. 1 \in 1 .. Len(q)
      BY <1>1
    <3> QED
      BY <3>1, ElementOfSeq, Zenon
  <2>2. Head(q) = q[1]
    BY <1>1
  <2> QED
    BY <2>1, <2>2
<1>3. Tail(q) \in Seq(S) /\ Len(Tail(q)) = Len(q) - 1
  BY HeadTailProperties
<1>4. Len(q) = 1 => Tail(q) = <<>>
  <2>1. Tail(q) # <<>> => Len(Tail(q)) \in Nat \ {0}
    BY <1>3, EmptySeq, Zenon
  <2> QED
    BY <1>3, <2>1
<1>5. Len(q) = 2 => Tail(q)[1] = q[2] /\ q[2] \in S
  <2> SUFFICES ASSUME Len(q) = 2
               PROVE  Tail(q)[1] = q[2] /\ q[2] \in S
    OBVIOUS
  <2>1. q[2] \in S
    <3>1. 2 \in 1 .. Len(q)
      OBVIOUS
    <3> QED
      BY <3>1, ElementOfSeq, Zenon
  <2>2. 1 \in 1 .. Len(Tail(q)) /\ \A i \in 1 .. Len(Tail(q)) : Tail(q)[i] = q[i + 1]
    BY <1>3, HeadTailProperties
  <2>3. Tail(q)[1] = q[1 + 1]
    BY <2>2
  <2> QED
    BY <2>1, <2>3
<1> QED
  BY <1>1, <1>2, <1>3, <1>4, <1>5

(* The head of the queue and what is behind it. *)
LEMMA HeadOfQueue ==
  ASSUME Inv, queue # <<>>
  PROVE  /\ Head(queue) = queue[1] /\ Head(queue) \in Decisions /\ PlannedFor(Head(queue), s)
         /\ Len(queue) \in {1, 2} /\ Tail(queue) \in Seq(Decisions)
         /\ Len(Tail(queue)) = Len(queue) - 1
         /\ Len(queue) = 1 => Tail(queue) = <<>>
         /\ Len(queue) = 2 => /\ Tail(queue)[1] = queue[2] /\ queue[2] \in Decisions
                              /\ Head(queue).action = "CLOSE" /\ Head(queue).type = "MARKET"
                              /\ queue[2].action = "OPEN" /\ Head(queue).id < queue[2].id
         /\ Head(queue).id < nextId /\ TradesBelow(log, Head(queue).id)
         /\ Head(queue).id \in Nat
         /\ Executing /\ ~liquidated /\ rest = <<>> /\ bar \in Bars
<1>1. queue \in Seq(Decisions) /\ Fits(queue, s) /\ Fresh(queue, log, nextId)
  BY DEF Inv, Typed, Planned, Numbered
<1>2. Len(queue) \in {1, 2} /\ Head(queue) = queue[1] /\ Head(queue) \in Decisions
  BY <1>1, ShortSequences DEF Fits
<1>3. /\ Tail(queue) \in Seq(Decisions) /\ Len(Tail(queue)) = Len(queue) - 1
      /\ Len(queue) = 1 => Tail(queue) = <<>>
      /\ Len(queue) = 2 => Tail(queue)[1] = queue[2] /\ queue[2] \in Decisions
  BY <1>1, ShortSequences DEF Fits
<1>4. Head(queue).id < nextId /\ TradesBelow(log, Head(queue).id) /\ Head(queue).id \in Nat
  <2>1. 1 \in 1 .. Len(queue)
    BY <1>2
  <2> QED
    BY <1>1, <1>2, <2>1 DEF Fresh, Decisions
<1>5. Executing /\ ~liquidated /\ rest = <<>> /\ bar \in Bars
  BY DEF Inv, Staged, Executing
<1> QED
  BY <1>1, <1>2, <1>3, <1>4, <1>5 DEF Fits

(* What the loop prices a decision at. *)
LEMMA PriceType ==
  ASSUME Inv, queue # <<>>
  PROVE  FillPrice(Head(queue), s, BasePrice(Head(queue))) \in Int
<1> DEFINE d == Head(queue)
           base == BasePrice(d)
           side == IF d.action \in Entries THEN d.dir ELSE -s.dir
<1>1. d \in Decisions /\ bar \in Bars
  BY HeadOfQueue
<1>2. s.dir \in {-1, 0, 1} /\ d.dir \in {-1, 0, 1} /\ (d.type = "LIMIT" => d.px \in Nat)
  <2>1. s.dir \in {-1, 0, 1}
    BY DEF Inv, Typed, States
  <2>2. d.dir \in {-1, 0, 1} /\ (d.type = "LIMIT" => d.px \in Nat)
    BY <1>1, DecisionType
  <2> QED
    BY <2>1, <2>2
<1>3. bar.open \in Nat /\ bar.close \in Nat
  BY <1>1, BarPrices
<1>4. base \in Int
  BY <1>2, <1>3 DEF BasePrice
<1>5. side \in {-1, 0, 1}
  BY <1>2
<1> HIDE DEF base, side
<1>6. FillCost * side \in Int
  BY <1>5, Rates, Products
<1>7. base + FillCost * side \in Int
  BY <1>4, <1>6
<1> QED
  BY <1>7 DEF FillPrice, base, side

(* A turn of the loop over the plan, answer by answer. *)
LEMMA ExecuteCases ==
  ASSUME Inv, ExecuteNext
  PROVE  LET d    == Head(queue)
             px   == FillPrice(d, s, BasePrice(d))
             exec == Executable(s, d, px)
             a    == Trade(s, exec, px)
             r    == Record("trade", exec, a, px)
         IN  /\ queue # <<>>
             /\ \/ /\ liquidated' = TRUE /\ s' = s /\ queue' = <<>>
                   /\ log' = Append(log, LiquidationRecord)
                \/ /\ liquidated' = liquidated /\ queue' = Tail(queue) /\ log' = Append(log, r)
                   /\ r \in LogRecords /\ r.kind = "trade" /\ r.id = d.id /\ r.action = d.action
                   /\ r.status = "FAILED" => r.action = "INCREASE"
                   /\ \/ s' = s /\ r.status # "FILLED"
                      \/ /\ r.status = "FILLED" /\ s' \in States /\ s'.last = s.last
                         /\ HasPos(s') => s'.avg # NA
                         /\ d.action = "CLOSE" => ~HasPos(s')
                         /\ r.action \in Entries /\ r.qty > 0 =>
                              s.cash + Unrealized(s, r.px) - r.fee
                                >= InitialMargin(Units(s') * r.px)
<1> DEFINE d    == Head(queue)
           px   == FillPrice(d, s, BasePrice(d))
           exec == Executable(s, d, px)
           a    == Trade(s, exec, px)
           r    == Record("trade", exec, a, px)
<1>1. queue # <<>> /\ Execute(BasePrice(d))
  BY DEF ExecuteNext
<1>2. d \in Decisions /\ PlannedFor(d, s) /\ px \in Int /\ s \in States /\ (HasPos(s) => s.avg # NA)
  BY <1>1, HeadOfQueue, PriceType DEF Inv, Typed, Staged
<1> HIDE DEF d, px
<1>3. exec \in Decisions /\ exec.id = d.id /\ exec.action = d.action
  BY <1>2, ExecutableType
<1>4. CASE a.liquidate
  <2>1. /\ liquidated' = TRUE /\ s' = s /\ queue' = <<>>
        /\ log' = Append(log, LiquidationRecord)
    BY <1>1, <1>4 DEF Execute, d, px
  <2> QED
    BY <1>1, <2>1
<1>5. CASE ~a.liquidate
  <2>1. /\ liquidated' = liquidated /\ queue' = Tail(queue) /\ log' = Append(log, r)
        /\ s' = IF a.status = "FILLED"
                THEN [s EXCEPT !.cash = a.cash, !.dir = a.dir, !.qty = a.qty, !.avg = a.avg]
                ELSE s
    BY <1>1, <1>5 DEF Execute, d, px
  <2>2. a.liquidate # TRUE
    BY <1>5
  <2>3. /\ a.status \in {"FILLED", "FAILED"} /\ a.fee \in Int /\ a.realized \in Int
        /\ a.status = "FAILED" => d.action = "INCREASE"
        /\ a.status = "FILLED" =>
             /\ a.cash \in Int /\ a.dir \in {-1, 0, 1} /\ a.qty \in Nat
             /\ a.avg \in Int \cup {NA} /\ (a.dir * a.qty # 0 => a.avg # NA)
             /\ d.action = "CLOSE" => a.dir = 0
             /\ d.action \in Entries /\ exec.qty > 0 =>
                  s.cash + Unrealized(s, px) - a.fee >= InitialMargin(a.dir * a.qty * px)
    BY <1>2, <2>2, Answered
  <2> HIDE DEF a, exec
  <2>4. /\ r \in LogRecords /\ r.kind = "trade" /\ r.id = d.id /\ r.action = d.action
        /\ r.status = a.status /\ r.qty = exec.qty /\ r.px = px /\ r.fee = a.fee
    <3>1. exec.id \in Nat /\ exec.action \in Actions \cup {"NONE"}
          /\ exec.dir \in {-1, 0, 1} /\ exec.qty \in Nat
      BY <1>3 DEF Decisions
    <3>2. px \in Int \cup {NA}
      BY <1>2
    <3> QED
      BY <1>3, <2>3, <3>1, <3>2, RecordType
  <2> HIDE DEF r
  <2>5. CASE a.status = "FILLED"
    <3>1. s' = [s EXCEPT !.cash = a.cash, !.dir = a.dir, !.qty = a.qty, !.avg = a.avg]
      BY <2>1, <2>5
    <3>2. /\ s'.dir = a.dir /\ s'.qty = a.qty /\ s'.avg = a.avg /\ s'.last = s.last
          /\ s' \in States
      BY <1>2, <2>3, <2>5, <3>1 DEF States
    <3>3. Units(s') = a.dir * a.qty
      BY <3>2 DEF Units
    <3>4. HasPos(s') => s'.avg # NA
      BY <2>3, <2>5, <3>2, <3>3 DEF HasPos
    <3>5. d.action = "CLOSE" => ~HasPos(s')
      BY <2>3, <2>5, <3>3 DEF HasPos
    <3>6. r.action \in Entries /\ r.qty > 0 =>
            s.cash + Unrealized(s, r.px) - r.fee >= InitialMargin(Units(s') * r.px)
      BY <2>3, <2>4, <2>5, <3>3
    <3> QED
      BY <1>1, <2>1, <2>4, <2>5, <3>2, <3>4, <3>5, <3>6 DEF d, r, a, exec, px
  <2>6. CASE a.status # "FILLED"
    <3>1. s' = s
      BY <2>1, <2>6
    <3> QED
      BY <1>1, <2>1, <2>3, <2>4, <2>6, <3>1 DEF d, r, a, exec, px
  <2> QED
    BY <2>5, <2>6
<1> QED
  BY <1>4, <1>5

LEMMA TypedNext ==
  ASSUME fillModel' \in FillModels, stage' \in Stages, n' \in 0 .. MaxBars,
         bar' \in Bars \cup {NA}, s' \in States, liquidated' \in BOOLEAN,
         nextId' \in Nat \ {0}, pending' \in Seq(Decisions), queue' \in Seq(Decisions),
         rest' \in Seq(Decisions), Len(pending') <= 2, Len(queue') <= 2, Len(rest') <= 2
  PROVE  Typed'
<1>1. \A i \in 1 .. Len(pending') : pending'[i].action \in Actions /\ pending'[i].qty \in Nat
  BY DEF Decisions
<1>2. /\ s'.cash \in Int /\ s'.dir \in {-1, 0, 1} /\ s'.qty \in Nat
      /\ s'.avg \in Int \cup {NA} /\ s'.last \in Nat
  BY DEF States
<1>3. TypeOK'
  BY <1>1, <1>2 DEF TypeOK, Stages
<1> QED
  BY <1>3 DEF Typed

LEMMA TypedNow ==
  ASSUME Inv
  PROVE  /\ fillModel \in FillModels /\ stage \in Stages /\ n \in 0 .. MaxBars
         /\ bar \in Bars \cup {NA} /\ s \in States /\ liquidated \in BOOLEAN
         /\ nextId \in Nat \ {0} /\ pending \in Seq(Decisions) /\ queue \in Seq(Decisions)
         /\ rest \in Seq(Decisions) /\ Len(pending) <= 2 /\ Len(queue) <= 2 /\ Len(rest) <= 2
BY DEF Inv, Typed, TypeOK, Stages

(* What is left of a plan after its head was executed. *)
LEMMA TailFits ==
  ASSUME Inv, queue # <<>>, NEW t, Head(queue).action = "CLOSE" => ~HasPos(t)
  PROVE  Fits(Tail(queue), t) /\ Len(Tail(queue)) <= 2
<1> DEFINE q == Tail(queue)
<1>1. /\ Len(queue) = 1 \/ Len(queue) = 2
      /\ Len(q) = Len(queue) - 1
      /\ Len(queue) = 1 => q = <<>>
      /\ Len(queue) = 2 => q[1].action = "OPEN" /\ Head(queue).action = "CLOSE"
  BY HeadOfQueue
<1> HIDE DEF q
<1>2. CASE Len(queue) = 1
  <2>1. q = <<>> /\ Len(q) = 0
    BY <1>1, <1>2
  <2> QED
    <3>1. Fits(q, t)
      BY <2>1, NoPlan
    <3>2. Len(q) <= 2
      BY <2>1
    <3> QED
      BY <3>1, <3>2 DEF q
<1>3. CASE Len(queue) = 2
  <2>1. Len(q) = 1 /\ q[1].action = "OPEN" /\ ~HasPos(t)
    BY <1>1, <1>3
  <2>2. PlannedFor(q[1], t)
    BY <2>1 DEF PlannedFor
  <2>3. Fits(q, t) /\ Len(q) <= 2
    BY <2>1, <2>2 DEF Fits
  <2> QED
    BY <2>3 DEF q
<1> QED
  BY <1>1, <1>2, <1>3

LEMMA TailFresh ==
  ASSUME Inv, queue # <<>>, NEW r \in LogRecords, r.kind = "trade", r.id = Head(queue).id,
         r.status = "FAILED" => r.action = "INCREASE"
  PROVE  /\ Orderly(Append(log, r)) /\ TradesBelow(Append(log, r), nextId)
         /\ Fresh(Tail(queue), Append(log, r), nextId)
<1>1. /\ Orderly(log) /\ TradesBelow(log, r.id) /\ r.id < nextId /\ TradesBelow(log, nextId)
  BY HeadOfQueue DEF Inv, Numbered
<1>2. /\ Orderly(Append(log, r))
      /\ \A k : TradesBelow(log, k) /\ r.id < k => TradesBelow(Append(log, r), k)
  BY <1>1, Traded
<1> DEFINE q == Tail(queue)
<1>3. /\ Len(queue) = 1 \/ Len(queue) = 2
      /\ Len(q) = Len(queue) - 1
      /\ Len(queue) = 1 => q = <<>>
      /\ Len(queue) = 2 => q[1] = queue[2] /\ r.id < queue[2].id
  BY HeadOfQueue
<1> HIDE DEF q
<1>4. Fresh(q, Append(log, r), nextId)
  <2>1. CASE Len(queue) = 1
    BY <1>3, <2>1, NoPlan
  <2>2. CASE Len(queue) = 2
    <3>1. Len(q) = 1 /\ q[1] = queue[2] /\ r.id < queue[2].id
      BY <1>3, <2>2
    <3>2. queue[2].id < nextId /\ TradesBelow(log, queue[2].id)
      BY <2>2 DEF Inv, Numbered, Fresh
    <3>3. TradesBelow(Append(log, r), queue[2].id)
      BY <1>2, <3>1, <3>2
    <3> QED
      BY <3>1, <3>2, <3>3 DEF Fresh
  <2> QED
    BY <1>3, <2>1, <2>2
<1> QED
  BY <1>1, <1>2, <1>4 DEF q

LEMMA ExecuteNextKeeps ==
  ASSUME Inv, ExecuteNext, fillModel' = fillModel
  PROVE  Inv'
<1> DEFINE d    == Head(queue)
           px   == FillPrice(d, s, BasePrice(d))
           exec == Executable(s, d, px)
           r    == Record("trade", exec, Trade(s, exec, px), px)
<1>1. /\ stage' = stage /\ n' = n /\ bar' = bar /\ nextId' = nextId /\ pending' = pending
      /\ rest' = rest /\ queue # <<>>
  BY DEF ExecuteNext
<1>2. /\ Executing /\ Executing' /\ bar \in Bars /\ rest = <<>> /\ ~liquidated /\ stage' # "idle"
      /\ stage' \notin {"funding", "mark", "plan"} /\ stage' \in Stages
  BY <1>1, HeadOfQueue, TypedNow DEF Executing
<1>3. CASE /\ liquidated' = TRUE /\ s' = s /\ queue' = <<>>
           /\ log' = Append(log, LiquidationRecord)
  <2>1. Typed'
    <3>1. queue' \in Seq(Decisions) /\ Len(queue') <= 2
      BY <1>3, NoPlan
    <3> QED
      BY <1>1, <1>3, <3>1, TypedNow, TypedNext
  <2>2. Staged'
    BY <1>1, <1>2, <1>3 DEF Staged, Inv
  <2>3. Planned'
    BY <1>1, <1>2, <1>3, NoPlan DEF Planned
  <2>4. Orderly(log') /\ TradesBelow(log', nextId)
    BY <1>3, LiquidationType, Untraded DEF Inv, Numbered
  <2>5. Numbered'
    BY <1>1, <1>2, <1>3, <2>4, NoPlan DEF Numbered
  <2> QED
    BY <2>1, <2>2, <2>3, <2>4, <2>5 DEF Inv
<1>4. CASE /\ liquidated' = liquidated /\ queue' = Tail(queue) /\ log' = Append(log, r)
           /\ r \in LogRecords /\ r.kind = "trade" /\ r.id = d.id /\ r.action = d.action
           /\ r.status = "FAILED" => r.action = "INCREASE"
           /\ s' \in States
           /\ HasPos(s') => s'.avg # NA
           /\ d.action = "CLOSE" => ~HasPos(s')
  <2>1. Fits(queue', s') /\ Len(queue') <= 2 /\ queue' \in Seq(Decisions)
    BY <1>1, <1>4, TailFits, HeadOfQueue
  <2>2. Typed'
    BY <1>1, <1>4, <2>1, TypedNow, TypedNext
  <2>3. Staged'
    BY <1>1, <1>2, <1>4 DEF Staged
  <2>4. Planned'
    BY <1>1, <1>2, <2>1, NoPlan DEF Planned
  <2> HIDE DEF r
  <2>5. Orderly(log') /\ TradesBelow(log', nextId) /\ Fresh(queue', log', nextId)
    BY <1>1, <1>4, TailFresh
  <2>6. Numbered'
    BY <1>1, <1>2, <2>5, NoPlan DEF Numbered
  <2> QED
    BY <2>2, <2>3, <2>4, <2>5, <2>6 DEF Inv
<1>5. \/ /\ liquidated' = TRUE /\ s' = s /\ queue' = <<>>
         /\ log' = Append(log, LiquidationRecord)
      \/ /\ liquidated' = liquidated /\ queue' = Tail(queue) /\ log' = Append(log, r)
         /\ r \in LogRecords /\ r.kind = "trade" /\ r.id = d.id /\ r.action = d.action
         /\ r.status = "FAILED" => r.action = "INCREASE"
         /\ \/ s' = s /\ r.status # "FILLED"
            \/ /\ s' \in States
               /\ HasPos(s') => s'.avg # NA
               /\ d.action = "CLOSE" => ~HasPos(s')
  BY ExecuteCases
<1>6. CASE /\ liquidated' = liquidated /\ queue' = Tail(queue) /\ log' = Append(log, r)
           /\ r \in LogRecords /\ r.kind = "trade" /\ r.id = d.id /\ r.action = d.action
           /\ r.status = "FAILED" => r.action = "INCREASE"
           /\ s' = s /\ r.status # "FILLED"
  <2> HIDE DEF r, d
  <2>1. r.status = "FAILED"
    BY <1>6 DEF LogRecords
  <2>2. d.action # "CLOSE"
    BY <1>6, <2>1
  <2>3. s' \in States /\ (HasPos(s') => s'.avg # NA)
    BY <1>6, TypedNow DEF Inv, Staged
  <2> QED
    BY <1>4, <1>6, <2>2, <2>3
<1> HIDE DEF r, d
<1> QED
  BY <1>3, <1>4, <1>5, <1>6

(* A limit order is alone in its plan, so what stays unfilled is one order. *)
LEMMA KeepUnfilledKeeps ==
  ASSUME Inv, KeepUnfilled, fillModel' = fillModel
  PROVE  Inv'
<1> DEFINE d == Head(queue)
<1>1. /\ queue # <<>> /\ ~CanFill(d, bar) /\ rest' = Append(rest, d) /\ queue' = Tail(queue)
      /\ stage' = stage /\ n' = n /\ bar' = bar /\ nextId' = nextId /\ pending' = pending
      /\ s' = s /\ liquidated' = liquidated /\ log' = log
  BY DEF KeepUnfilled
<1>2. /\ d \in Decisions /\ PlannedFor(d, s) /\ d.id < nextId /\ TradesBelow(log, d.id)
      /\ Executing /\ rest = <<>> /\ ~liquidated /\ bar \in Bars
  BY <1>1, HeadOfQueue
<1>3. queue' = <<>>
  <2>1. d.type = "LIMIT"
    BY <1>1 DEF CanFill
  <2>2. /\ Len(queue) = 1 \/ Len(queue) = 2
        /\ Len(queue) = 2 => d.type = "MARKET"
        /\ Len(queue) = 1 => Tail(queue) = <<>>
    BY <1>1, HeadOfQueue
  <2> QED
    BY <1>1, <2>1, <2>2
<1> HIDE DEF d
<1>4. /\ rest' \in Seq(Decisions) /\ Len(rest') = 1 /\ rest'[1] = d
  <2>1. rest' = Append(<<>>, d)
    BY <1>1, <1>2
  <2> QED
    BY <1>2, <2>1
<1>5. Typed'
  <2>1. queue' \in Seq(Decisions) /\ Len(queue') <= 2 /\ Len(rest') <= 2
    BY <1>3, <1>4, NoPlan
  <2> QED
    BY <1>1, <1>4, <2>1, TypedNow, TypedNext
<1>6. Staged'
  BY <1>1, <1>2, <1>3 DEF Inv, Staged, Executing
<1>7. Planned'
  <2>1. Fits(rest', s)
    BY <1>2, <1>4 DEF Fits
  <2> QED
    BY <1>1, <1>2, <1>3, <2>1, NoPlan DEF Planned, Executing
<1>8. Numbered'
  <2>1. Fresh(rest', log, nextId)
    BY <1>2, <1>4 DEF Fresh
  <2> QED
    BY <1>1, <1>2, <1>3, <2>1, NoPlan DEF Inv, Numbered, Executing
<1> QED
  BY <1>1, <1>5, <1>6, <1>7, <1>8 DEF Inv

LEMMA EndOrdersKeeps ==
  ASSUME Inv, EndOrders, fillModel' = fillModel
  PROVE  Inv'
<1>1. /\ queue = <<>> /\ pending' = rest /\ n' = n /\ bar' = bar /\ nextId' = nextId
      /\ s' = s /\ liquidated' = liquidated /\ log' = log /\ queue' = queue /\ rest' = rest
      /\ (stage' = "funding" /\ ~liquidated /\ stage = "orders") \/ stage' = "idle"
  BY DEF EndOrders
<1>2. Typed'
  BY <1>1, TypedNow, TypedNext DEF Stages
<1>3. Staged'
  BY <1>1 DEF Inv, Staged
<1>4. Planned' /\ Numbered'
  BY <1>1 DEF Inv, Planned, Numbered
<1> QED
  BY <1>1, <1>2, <1>3, <1>4 DEF Inv

(* A mark or a charge leaves the position, and the plans that suit it. *)
LEMMA SamePosition ==
  ASSUME Inv, ~Executing, pending' = pending, queue' = queue, rest' = rest, nextId' = nextId,
         bar' = bar, s'.dir = s.dir, s'.qty = s.qty, s'.avg = s.avg,
         \A k : TradesBelow(log, k) => TradesBelow(log', k)
  PROVE  /\ Planned' /\ Numbered' /\ queue = <<>>
         /\ HasPos(s') => s'.avg # NA
<1>1. queue = <<>>
  BY DEF Inv, Staged
<1>2. Planned'
  BY FitsPosition DEF Inv, Planned
<1>3. Numbered'
  BY DEF Inv, Numbered, Fresh
<1>4. HasPos(s') => s'.avg # NA
  BY DEF Inv, Staged, HasPos, Units
<1> QED
  BY <1>1, <1>2, <1>3, <1>4

LEMMA MarkToCloseKeeps ==
  ASSUME Inv, MarkToClose, fillModel' = fillModel
  PROVE  Inv'
<1> DEFINE liq == IsLiquidated(s, bar.close)
<1>1. /\ stage = "mark" /\ s' = [s EXCEPT !.last = bar.close] /\ liquidated' = liq
      /\ log' = (IF liq THEN Append(log, LiquidationRecord) ELSE log)
      /\ stage' = (IF liq THEN "idle" ELSE "plan")
      /\ n' = n /\ bar' = bar /\ nextId' = nextId /\ pending' = pending /\ queue' = queue
      /\ rest' = rest
  BY DEF MarkToClose
<1>2. bar \in Bars /\ bar.close \in Nat \ {0} /\ ~Executing
  BY <1>1, BarPrices DEF Inv, Staged, Executing
<1>3. /\ s' \in States /\ s'.dir = s.dir /\ s'.qty = s.qty /\ s'.avg = s.avg /\ s'.last > 0
  <2>1. s \in States
    BY TypedNow
  <2>2. /\ s'.cash = s.cash /\ s'.dir = s.dir /\ s'.qty = s.qty /\ s'.avg = s.avg
        /\ s'.last = bar.close
    BY <1>1, <2>1 DEF States
  <2>3. s' \in States
    BY <1>1, <1>2, <2>1 DEF States
  <2> QED
    BY <1>2, <2>2, <2>3
<1>4. liq \in BOOLEAN
  BY DEF IsLiquidated
<1> HIDE DEF liq
<1>5. Orderly(log') /\ \A k : TradesBelow(log, k) => TradesBelow(log', k)
  BY <1>1, LiquidationType, Untraded DEF Inv
<1>6. Planned' /\ Numbered' /\ queue = <<>> /\ (HasPos(s') => s'.avg # NA)
  BY <1>1, <1>2, <1>3, <1>5, SamePosition
<1>7. Typed'
  BY <1>1, <1>3, <1>4, TypedNow, TypedNext DEF Stages
<1>8. Staged'
  BY <1>1, <1>2, <1>3, <1>6 DEF Staged
<1> QED
  BY <1>5, <1>6, <1>7, <1>8 DEF Inv

LEMMA FundingType ==
  ASSUME NEW t \in States, NEW dt \in Nat \cup {NA}
  PROVE  LET f == Funding(t, dt)
         IN  f.fee \in Int /\ f.cash \in Int /\ f.liquidate \in BOOLEAN
<1> DEFINE fee  == FundNum * dt * AbsVal(Notional(t))
           cash == t.cash - fee
           liq  == cash + Unrealized(t, t.last) < Maintenance(t)
<1>1. CASE dt = NA
  <2>1. Funding(t, dt) = [fee |-> 0, cash |-> t.cash, liquidate |-> FALSE]
    BY <1>1 DEF Funding
  <2> QED
    BY <2>1 DEF States
<1>2. CASE dt # NA
  <2>1. FundNum * dt \in Nat /\ AbsVal(Notional(t)) \in Nat /\ t.cash \in Int
    <3>1. dt \in Nat /\ t.dir \in Int /\ t.qty \in Int /\ t.last \in Int
      BY <1>2 DEF States
    <3>2. t.dir * t.qty \in Int
      BY <3>1, Products
    <3>3. Notional(t) \in Int
      BY <3>1, <3>2, Products DEF Notional, Units
    <3> QED
      BY <3>1, <3>3, Rates, NatProducts, AbsVals DEF States
  <2>2. fee \in Int
    BY <2>1, NatProducts
  <2>3. cash \in Int /\ liq \in BOOLEAN
    <3> HIDE DEF fee
    <3> QED
      BY <2>1, <2>2
  <2>4. Funding(t, dt) = [fee |-> fee, cash |-> IF liq THEN 0 ELSE cash, liquidate |-> liq]
    BY <1>2 DEF Funding
  <2> HIDE DEF fee, cash, liq
  <2> QED
    BY <2>2, <2>3, <2>4
<1> QED
  BY <1>1, <1>2

(* Joining one more record to the log. *)
LEMMA JoinOne ==
  ASSUME NEW S, NEW q \in Seq(S), NEW e \in S
  PROVE  q \o <<>> = q /\ q \o <<e>> = Append(q, e)
<1>1. <<e>> \in Seq(S)
  OBVIOUS
<1> QED
  BY <1>1, ConcatEmptySeq

LEMMA FundingRecordType ==
  ASSUME Inv, NEW f, f.fee \in Int, f.liquidate \in BOOLEAN
  PROVE  FundingRecord(f) \in LogRecords /\ FundingRecord(f).kind = "funding"
<1> DEFINE answer == [status |-> IF f.liquidate THEN "FAILED" ELSE "FILLED",
                      fee |-> f.fee, realized |-> 0]
<1>1. /\ Nothing.id \in Nat /\ Nothing.action \in Actions \cup {"NONE"}
      /\ Nothing.dir \in {-1, 0, 1} /\ Nothing.qty \in Nat
  BY DEF Nothing, Decision
<1>2. answer.status \in {"FILLED", "FAILED"} /\ answer.fee \in Int /\ answer.realized \in Int
  OBVIOUS
<1>3. s.last \in Int /\ n \in Nat /\ stage \in Stages
  BY TypedNow, Rates DEF States
<1>4. FundingRecord(f) = Record("funding", Nothing, answer, s.last)
  BY DEF FundingRecord
<1> HIDE DEF answer
<1> QED
  BY <1>1, <1>2, <1>3, <1>4 DEF Record, LogRecords

(* A funding charge adds its own records, and never a trade. *)
LEMMA FundingCases ==
  ASSUME Inv, ChargeFunding
  PROVE  LET f == Funding(s, IF n = 1 THEN NA ELSE BarGap)
         IN  /\ f.fee \in Int /\ f.cash \in Int /\ f.liquidate \in BOOLEAN
             /\ FundingRecord(f) \in LogRecords /\ FundingRecord(f).kind = "funding"
             /\ \/ ~f.liquidate /\ log' = log
                \/ ~f.liquidate /\ log' = Append(log, FundingRecord(f))
                \/ f.liquidate /\ log' = Append(Append(log, FundingRecord(f)), LiquidationRecord)
<1> DEFINE dt == IF n = 1 THEN NA ELSE BarGap
           f  == Funding(s, dt)
           r  == FundingRecord(f)
<1>1. log' = log \o (IF f.fee # 0 \/ f.liquidate THEN <<r>> ELSE <<>>)
                 \o (IF f.liquidate THEN <<LiquidationRecord>> ELSE <<>>)
  BY DEF ChargeFunding
<1>2. f.fee \in Int /\ f.cash \in Int /\ f.liquidate \in BOOLEAN
  <2>1. dt \in Nat \cup {NA} /\ s \in States
    BY Rates, TypedNow
  <2> HIDE DEF dt
  <2> QED
    BY <2>1, FundingType
<1> HIDE DEF f, dt
<1>3. r \in LogRecords /\ r.kind = "funding" /\ LiquidationRecord \in LogRecords
  BY <1>2, FundingRecordType, LiquidationType
<1>4. log \in Seq(LogRecords)
  BY DEF Inv, Orderly
<1> HIDE DEF r
<1>5. log \o <<>> = log /\ log \o <<r>> = Append(log, r) /\ Append(log, r) \in Seq(LogRecords)
  BY <1>3, <1>4, JoinOne
<1>6. /\ Append(log, r) \o <<LiquidationRecord>> = Append(Append(log, r), LiquidationRecord)
      /\ Append(log, r) \o <<>> = Append(log, r)
  BY <1>3, <1>5, JoinOne
<1>7. CASE f.liquidate
  <2>1. log' = (log \o <<r>>) \o <<LiquidationRecord>>
    BY <1>1, <1>7
  <2> QED
    BY <1>2, <1>3, <1>5, <1>6, <1>7, <2>1 DEF r, f, dt
<1>8. CASE ~f.liquidate /\ f.fee # 0
  <2>1. log' = (log \o <<r>>) \o <<>>
    BY <1>1, <1>8
  <2> QED
    BY <1>2, <1>3, <1>5, <1>6, <1>8, <2>1 DEF r, f, dt
<1>9. CASE ~f.liquidate /\ f.fee = 0
  <2>1. log' = (log \o <<>>) \o <<>>
    BY <1>1, <1>9
  <2> QED
    BY <1>2, <1>3, <1>5, <1>9, <2>1 DEF r, f, dt
<1> QED
  BY <1>7, <1>8, <1>9

LEMMA ChargeFundingKeeps ==
  ASSUME Inv, ChargeFunding, fillModel' = fillModel
  PROVE  Inv'
<1> DEFINE f == Funding(s, IF n = 1 THEN NA ELSE BarGap)
           r == FundingRecord(f)
<1>1. /\ stage = "funding" /\ s' = [s EXCEPT !.cash = f.cash] /\ liquidated' = f.liquidate
      /\ stage' = (IF f.liquidate THEN "idle" ELSE "mark")
      /\ n' = n /\ bar' = bar /\ nextId' = nextId /\ pending' = pending /\ queue' = queue
      /\ rest' = rest
  BY DEF ChargeFunding
<1>2. /\ f.fee \in Int /\ f.cash \in Int /\ f.liquidate \in BOOLEAN
      /\ r \in LogRecords /\ r.kind = "funding"
      /\ \/ log' = log
         \/ log' = Append(log, r)
         \/ log' = Append(Append(log, r), LiquidationRecord)
  BY FundingCases
<1> HIDE DEF f, r
<1>3. bar \in Bars /\ ~Executing
  BY <1>1 DEF Inv, Staged, Executing
<1>4. /\ s' \in States /\ s'.dir = s.dir /\ s'.qty = s.qty /\ s'.avg = s.avg
  <2>1. s \in States
    BY TypedNow
  <2>2. /\ s'.dir = s.dir /\ s'.qty = s.qty /\ s'.avg = s.avg
    BY <1>1, <2>1 DEF States
  <2>3. s' \in States
    BY <1>1, <1>2, <2>1 DEF States
  <2> QED
    BY <2>2, <2>3
<1>5. Orderly(log') /\ \A k : TradesBelow(log, k) => TradesBelow(log', k)
  <2>1. /\ Orderly(log) /\ Orderly(Append(log, r))
        /\ \A k : TradesBelow(log, k) => TradesBelow(Append(log, r), k)
    BY <1>2, Untraded DEF Inv
  <2>2. /\ Orderly(Append(Append(log, r), LiquidationRecord))
        /\ \A k : TradesBelow(Append(log, r), k)
                    => TradesBelow(Append(Append(log, r), LiquidationRecord), k)
    BY <2>1, LiquidationType, Untraded
  <2> QED
    BY <1>2, <2>1, <2>2
<1>6. Planned' /\ Numbered' /\ queue = <<>> /\ (HasPos(s') => s'.avg # NA)
  BY <1>1, <1>3, <1>4, <1>5, SamePosition
<1>7. Typed'
  BY <1>1, <1>2, <1>4, TypedNow, TypedNext DEF Stages
<1>8. Staged'
  BY <1>1, <1>2, <1>3, <1>6 DEF Staged
<1> QED
  BY <1>5, <1>6, <1>7, <1>8 DEF Inv

LEMMA FreshPlan ==
  ASSUME NEW q \in Seq(Decisions), NEW l \in Seq(LogRecords), NEW id \in Nat, NEW t,
         TradesBelow(l, id), IsPlan(q, t, id)
  PROVE  /\ Fresh(q, l, id + Len(q)) /\ TradesBelow(l, id + Len(q))
         /\ \A p \in Seq(Decisions) : Fresh(p, l, id) => Fresh(p, l, id + Len(q))
<1>1. Len(q) \in Nat
  BY LenProperties
<1>2. ASSUME NEW k \in Nat, id <= k
      PROVE  TradesBelow(l, k)
  <2> SUFFICES ASSUME NEW i \in 1 .. Len(l), l[i].kind = "trade"
               PROVE  l[i].id < k
    BY DEF TradesBelow
  <2>1. l[i] \in LogRecords
    BY ElementOfSeq
  <2>2. l[i].id < id /\ l[i].id \in Nat
    BY <2>1 DEF TradesBelow, LogRecords
  <2> QED
    BY <1>2, <2>2
<1>3. ASSUME NEW i \in 1 .. Len(q)
      PROVE  q[i].id < id + Len(q) /\ TradesBelow(l, q[i].id)
  <2>1. q[i].id = id + i - 1 /\ i \in Nat /\ i >= 1 /\ i <= Len(q)
    BY <1>1 DEF IsPlan
  <2>2. q[i].id \in Nat /\ id <= q[i].id /\ q[i].id < id + Len(q)
    BY <1>1, <2>1
  <2> QED
    BY <1>2, <2>2
<1>4. ASSUME NEW p \in Seq(Decisions), Fresh(p, l, id)
      PROVE  Fresh(p, l, id + Len(q))
  <2> SUFFICES ASSUME NEW i \in 1 .. Len(p)
               PROVE  p[i].id < id + Len(q) /\ TradesBelow(l, p[i].id)
    BY DEF Fresh
  <2>1. p[i] \in Decisions
    BY ElementOfSeq
  <2>2. p[i].id < id /\ p[i].id \in Nat /\ TradesBelow(l, p[i].id)
    BY <1>4, <2>1 DEF Fresh, Decisions
  <2> QED
    BY <1>1, <2>2
<1>5. id + Len(q) \in Nat /\ id <= id + Len(q)
  BY <1>1
<1> QED
  BY <1>2, <1>3, <1>4, <1>5 DEF Fresh

LEMMA PlanTargetKeeps ==
  ASSUME Inv, NEW intent \in Intents, PlanTarget(intent), fillModel' = fillModel
  PROVE  Inv'
<1> DEFINE plan == Plan(s, intent, nextId)
<1>1. /\ stage = "plan" /\ pending' = plan /\ nextId' = nextId + Len(plan) /\ n' = n /\ bar' = bar
      /\ s' = s /\ liquidated' = liquidated /\ log' = log
      /\ \/ stage' = "same_close" /\ queue' = plan /\ rest' = <<>>
         \/ stage' = "idle" /\ queue' = queue /\ rest' = rest
  BY DEF PlanTarget
<1>2. s \in States /\ s.last > 0 /\ nextId \in Nat \ {0} /\ bar \in Bars /\ ~liquidated /\ ~Executing
  BY <1>1, TypedNow DEF Inv, Staged, Executing
<1>3. queue = <<>>
  BY <1>2 DEF Inv, Staged
<1>4. IsPlan(plan, s, nextId)
  BY <1>2, PlanType
<1> HIDE DEF plan
<1>5. plan \in Seq(Decisions) /\ Fits(plan, s) /\ Len(plan) <= 2 /\ Len(plan) \in Nat
  BY <1>4, LenProperties DEF IsPlan, Fits
<1>6. /\ Fresh(plan, log, nextId') /\ TradesBelow(log, nextId')
      /\ Fresh(rest, log, nextId')
  <2>1. /\ TradesBelow(log, nextId) /\ Fresh(rest, log, nextId) /\ rest \in Seq(Decisions)
        /\ log \in Seq(LogRecords)
    BY TypedNow DEF Inv, Numbered, Orderly
  <2> QED
    BY <1>1, <1>2, <1>4, <1>5, <2>1, FreshPlan
<1>7. Typed'
  <2>1. nextId' \in Nat \ {0}
    BY <1>1, <1>2, <1>5
  <2>2. <<>> \in Seq(Decisions) /\ Len(<<>>) <= 2
    BY NoPlan
  <2>3. /\ queue' \in Seq(Decisions) /\ Len(queue') <= 2
        /\ rest' \in Seq(Decisions) /\ Len(rest') <= 2
    BY <1>1, <1>3, <1>5, <2>2, TypedNow
  <2>4. /\ fillModel' \in FillModels /\ stage' \in Stages /\ n' \in 0 .. MaxBars
        /\ bar' \in Bars \cup {NA} /\ s' \in States /\ liquidated' \in BOOLEAN
    BY <1>1, TypedNow DEF Stages
  <2> QED
    BY <1>1, <1>5, <2>1, <2>3, <2>4, TypedNext
<1>8. Staged'
  BY <1>1, <1>2, <1>3 DEF Inv, Staged, Executing
<1>9. Planned'
  BY <1>1, <1>3, <1>5, NoPlan DEF Inv, Planned
<1>10. Numbered'
  BY <1>1, <1>3, <1>6, NoPlan DEF Numbered
<1> QED
  BY <1>1, <1>7, <1>8, <1>9, <1>10 DEF Inv

LEMMA StepInv == Inv /\ [Next]_vars => Inv'
<1> SUFFICES ASSUME Inv, [Next]_vars
             PROVE  Inv'
  OBVIOUS
<1>1. CASE UNCHANGED vars
  BY <1>1 DEF vars, Inv, Typed, TypeOK, Staged, Planned, Numbered, Executing
<1>2. CASE Next
  <2>1. fillModel' = fillModel
    BY <1>2 DEF Next
  <2>2. CASE SkipBar
    BY <2>1, <2>2, SkipBarKeeps
  <2>3. CASE UpdateBar
    BY <2>1, <2>3, UpdateBarKeeps
  <2>4. CASE ExecuteNext
    BY <2>1, <2>4, ExecuteNextKeeps
  <2>5. CASE KeepUnfilled
    BY <2>1, <2>5, KeepUnfilledKeeps
  <2>6. CASE EndOrders
    BY <2>1, <2>6, EndOrdersKeeps
  <2>7. CASE ChargeFunding
    BY <2>1, <2>7, ChargeFundingKeeps
  <2>8. CASE MarkToClose
    BY <2>1, <2>8, MarkToCloseKeeps
  <2>9. ASSUME NEW intent \in Intents, PlanTarget(intent)
        PROVE  Inv'
    BY <2>1, <2>9, PlanTargetKeeps
  <2> QED
    BY <1>2, <2>2, <2>3, <2>4, <2>5, <2>6, <2>7, <2>8, <2>9 DEF Next
<1> QED
  BY <1>1, <1>2

LEMMA Invariant == Spec => []Inv
BY InitInv, StepInv, PTL DEF Spec

-----------------------------------------------------------------------------
(* The loop keeps its types: the cash and the average price stay numbers,  *)
(* a plan never has more than the two actions an ActionPlan has room for,  *)
(* and the position is never negative (eng_tradestate.h, ker_backtest.h).  *)
THEOREM LoopIsTyped == Spec => []TypeOK
BY Invariant, InvImplies, PTL

(* A planned exit is executable when its bar comes, and so is an opening:  *)
(* nothing between planning and execution may make them refused, whatever  *)
(* the prices, so only an increase ever fails (update_on_trade).           *)
THEOREM PlannedTradesSucceed == Spec => []OnlyIncreasesFail
BY Invariant, InvImplies, PTL

(* Decisions execute at most once, in the order they were made, across     *)
(* bars, unfilled orders and replaced plans (the loop of backtest()).      *)
THEOREM NoDecisionTwice == Spec => []DecisionsExecuteOnce
BY Invariant, InvImplies, PTL

LEMMA LastOfLog ==
  ASSUME NEW l \in Seq(LogRecords), NEW r \in LogRecords
  PROVE  /\ Last(Append(l, r)) = r /\ Len(Append(l, r)) = Len(l) + 1
         /\ Append(l, r) \in Seq(LogRecords)
<1>1. Len(Append(l, r)) = Len(l) + 1 /\ Append(l, r)[Len(l) + 1] = r
  OBVIOUS
<1> QED
  BY <1>1 DEF Last

(* The records of a step: a margined trade, or none that is a trade. *)
LEMMA LastRecord ==
  ASSUME Inv, [Next]_vars
  PROVE  \/ log' = log /\ (liquidated' = liquidated \/ ~liquidated')
         \/ /\ Last(log').kind # "trade"
            /\ liquidated' => Last(log').kind = "liquidation"
         \/ /\ liquidated' = liquidated
            /\ LET e == Last(log')
               IN  IsTrade(e) /\ e.action \in Entries /\ e.qty > 0 =>
                     s.cash + Unrealized(s, e.px) - e.fee >= InitialMargin(Units(s') * e.px)
<1>1. /\ log \in Seq(LogRecords) /\ LiquidationRecord \in LogRecords
      /\ LiquidationRecord.kind = "liquidation"
  BY LiquidationType DEF Inv, Orderly
<1>2. Last(Append(log, LiquidationRecord)).kind = "liquidation"
  BY <1>1, LastOfLog
<1>3. CASE ExecuteNext
  <2> DEFINE d    == Head(queue)
             px   == FillPrice(d, s, BasePrice(d))
             exec == Executable(s, d, px)
             r    == Record("trade", exec, Trade(s, exec, px), px)
  <2>1. CASE log' = Append(log, LiquidationRecord)
    BY <1>2, <2>1
  <2>2. \/ log' = Append(log, LiquidationRecord)
        \/ /\ liquidated' = liquidated /\ log' = Append(log, r) /\ r \in LogRecords
           /\ \/ r.status # "FILLED"
              \/ r.action \in Entries /\ r.qty > 0 =>
                   s.cash + Unrealized(s, r.px) - r.fee >= InitialMargin(Units(s') * r.px)
    BY <1>3, ExecuteCases
  <2> HIDE DEF r
  <2>3. r \in LogRecords => Last(Append(log, r)) = r
    BY <1>1, LastOfLog
  <2> QED
    BY <2>1, <2>2, <2>3 DEF IsTrade
<1>4. CASE ChargeFunding
  <2> DEFINE f == Funding(s, IF n = 1 THEN NA ELSE BarGap)
             r == FundingRecord(f)
  <2>1. /\ liquidated' = f.liquidate /\ f.liquidate \in BOOLEAN
        /\ r \in LogRecords /\ r.kind = "funding"
        /\ \/ ~f.liquidate /\ log' = log
           \/ ~f.liquidate /\ log' = Append(log, r)
           \/ f.liquidate /\ log' = Append(Append(log, r), LiquidationRecord)
    BY <1>4, FundingCases DEF ChargeFunding
  <2> HIDE DEF f, r
  <2>2. Last(Append(log, r)) = r /\ Append(log, r) \in Seq(LogRecords)
    BY <1>1, <2>1, LastOfLog
  <2>3. Last(Append(Append(log, r), LiquidationRecord)) = LiquidationRecord
    BY <1>1, <2>2, LastOfLog
  <2> QED
    BY <1>1, <2>1, <2>2, <2>3
<1>5. CASE MarkToClose
  BY <1>2, <1>5 DEF MarkToClose
<1>6. CASE log' = log /\ liquidated' = liquidated
  BY <1>6
<1>7. \/ ExecuteNext \/ ChargeFunding \/ MarkToClose
      \/ log' = log /\ liquidated' = liquidated
  BY DEF Next, vars, SkipBar, UpdateBar, KeepUnfilled, EndOrders, PlanTarget
<1> QED
  BY <1>3, <1>4, <1>5, <1>6, <1>7

(* What an entry leaves behind is covered by the initial margin of the     *)
(* whole new position at its fill price, for every price and leverage      *)
(* (fee_aware_max_contract_qty and the check of update_on_trade).          *)
LEMMA EntriesAreCovered == Inv /\ [Next]_vars => [EntryIsMargined]_vars
<1> SUFFICES ASSUME Inv, [Next]_vars, Len(log') > Len(log), IsTrade(Last(log')),
                    Last(log').action \in Entries, Last(log').qty > 0
             PROVE  s.cash + Unrealized(s, Last(log').px) - Last(log').fee
                      >= InitialMargin(Units(s') * Last(log').px)
  BY DEF EntryIsMargined
<1>1. log' # log
  BY DEF Inv, Orderly
<1> QED
  BY <1>1, LastRecord DEF IsTrade

(* The record of an entry, against the decision it executes. *)
LEMMA ClippedRecord ==
  ASSUME Inv, queue # <<>>
  PROVE  LET d    == Head(queue)
             px   == FillPrice(d, s, BasePrice(d))
             exec == Executable(s, d, px)
             r    == Record("trade", exec, Trade(s, exec, px), px)
         IN  r.action \in Entries => /\ r.action = d.action /\ r.qty <= d.qty
                                     /\ r.px > 0 => ~Room(s, d, r.px, r.qty)
<1> DEFINE d    == Head(queue)
           px   == FillPrice(d, s, BasePrice(d))
           exec == Executable(s, d, px)
           r    == Record("trade", exec, Trade(s, exec, px), px)
           rate == FeeRate(d.type)
           cap  == FeeAwareQty(s, px, rate)
<1>1. d \in Decisions /\ PlannedFor(d, s) /\ px \in Int /\ s \in States
  BY HeadOfQueue, PriceType DEF Inv, Typed
<1>2. r.action = exec.action /\ r.qty = exec.qty /\ r.px = px
  BY DEF Record
<1> HIDE DEF d, px, exec, r
<1>3. exec.action = d.action /\ rate \in Nat
  BY <1>1, ExecutableType, FeeRates DEF exec
<1> SUFFICES ASSUME d.action \in Entries
             PROVE  exec.qty <= d.qty /\ (px > 0 => ~Room(s, d, px, exec.qty))
  BY <1>2, <1>3 DEF d, px, exec, r
<1>4. d.qty \in Nat /\ d.dir \in {-1, 1} /\ (HasPos(s) => d.dir = s.dir)
  <2>1. d.qty \in Nat /\ d.dir \in {-1, 0, 1} /\ d.dir # 0
    BY <1>1, DecisionType
  <2>2. HasPos(s) => d.dir = s.dir
    BY <1>1 DEF PlannedFor, Entries
  <2> QED
    BY <2>1, <2>2
<1>5. exec.qty = IF cap < d.qty THEN cap ELSE d.qty
  BY <1>1 DEF exec, Executable, Decisions
<1>6. cap \in Nat
  BY <1>1, <1>3, Capped
<1>7. ASSUME px > 0, NEW k \in (exec.qty + 1) .. d.qty
      PROVE  ~(s.cash + Unrealized(s, px) - rate * k * px
                 >= InitialMargin((Units(s) + d.dir * k) * px))
  <2>1. k \in Nat /\ k > cap /\ px \in Nat \ {0}
    BY <1>1, <1>4, <1>5, <1>6, <1>7
  <2>2. s.cash + Unrealized(s, px) - rate * k * px
          < InitialMargin((Units(s) + d.dir * k) * px)
    BY <1>1, <1>3, <1>4, <2>1, ClipIsTight
  <2>3. /\ s.cash + Unrealized(s, px) - rate * k * px \in Int
        /\ InitialMargin((Units(s) + d.dir * k) * px) \in Int
    <3>1. s.cash \in Int /\ Unrealized(s, px) \in Int /\ Units(s) \in Int
      BY <1>1, Valuation DEF States
    <3>2. rate * k * px \in Int /\ (Units(s) + d.dir * k) * px \in Int
      <4>1. rate * k \in Int /\ Units(s) + d.dir * k \in Int
        BY <1>3, <1>4, <2>1, <3>1
      <4> QED
        BY <1>1, <4>1, Products
    <3>3. InitialMargin((Units(s) + d.dir * k) * px) \in Nat
      BY <1>1, <3>2, Valuation
    <3> QED
      BY <3>1, <3>2, <3>3
  <2> QED
    BY <2>2, <2>3
<1>8. px > 0 => ~Room(s, d, px, exec.qty)
  BY <1>7 DEF Room
<1> QED
  BY <1>4, <1>5, <1>6, <1>8

(* An entry is clipped to the largest quantity that fits: it executes what *)
(* was decided, or the next step more would not leave the initial margin   *)
(* of the whole new position, fee paid, at the fill price                  *)
(* (fee_aware_max_contract_qty; README.md:82-89).                          *)
LEMMA ClipIsLargest == Inv /\ [Next]_vars => [EntryTakesAllThatFits]_vars
<1> SUFFICES ASSUME Inv, [Next]_vars, Len(log') > Len(log), Last(log').kind = "trade",
                    Last(log').action \in Entries
             PROVE  /\ queue # <<>> /\ Last(log').action = Head(queue).action
                    /\ Last(log').qty <= Head(queue).qty
                    /\ Last(log').px > 0 =>
                         ~Room(s, Head(queue), Last(log').px, Last(log').qty)
  BY DEF EntryTakesAllThatFits
<1>1. log \in Seq(LogRecords) /\ log' # log
  BY DEF Inv, Orderly
<1>2. /\ LiquidationRecord \in LogRecords
      /\ Last(Append(log, LiquidationRecord)).kind = "liquidation"
  BY <1>1, LiquidationType, LastOfLog
<1>3. CASE ExecuteNext
  <2> DEFINE d    == Head(queue)
             px   == FillPrice(d, s, BasePrice(d))
             exec == Executable(s, d, px)
             r    == Record("trade", exec, Trade(s, exec, px), px)
  <2>1. /\ queue # <<>>
        /\ \/ log' = Append(log, LiquidationRecord)
           \/ log' = Append(log, r) /\ r \in LogRecords
    BY <1>3, ExecuteCases
  <2>2. r.action \in Entries => /\ r.action = d.action /\ r.qty <= d.qty
                                /\ r.px > 0 => ~Room(s, d, r.px, r.qty)
    BY <2>1, ClippedRecord
  <2> HIDE DEF r
  <2>3. log' = Append(log, r) /\ Last(log') = r
    BY <1>1, <1>2, <2>1, LastOfLog
  <2> QED
    BY <2>1, <2>2, <2>3
<1>4. CASE ChargeFunding
  <2> DEFINE f == Funding(s, IF n = 1 THEN NA ELSE BarGap)
             q == FundingRecord(f)
  <2>1. /\ q \in LogRecords /\ q.kind = "funding"
        /\ \/ log' = log \/ log' = Append(log, q)
           \/ log' = Append(Append(log, q), LiquidationRecord)
    BY <1>4, FundingCases DEF ChargeFunding
  <2> HIDE DEF f, q
  <2>2. Last(Append(log, q)) = q /\ Append(log, q) \in Seq(LogRecords)
    BY <1>1, <2>1, LastOfLog
  <2>3. Last(Append(Append(log, q), LiquidationRecord)).kind = "liquidation"
    BY <1>2, <2>2, LastOfLog, LiquidationType
  <2> QED
    BY <1>1, <2>1, <2>2, <2>3
<1>5. CASE MarkToClose
  BY <1>1, <1>2, <1>5 DEF MarkToClose
<1>6. ExecuteNext \/ ChargeFunding \/ MarkToClose
  BY <1>1 DEF Next, vars, SkipBar, UpdateBar, KeepUnfilled, EndOrders, PlanTarget
<1> QED
  BY <1>3, <1>4, <1>5, <1>6

(* The clip of entries is exact, for every price, fee and leverage: what   *)
(* is executed is covered, and no larger part of what was decided is.      *)
THEOREM ClipIsExact == Spec => EntriesAreClipped
<1>1. Inv /\ [Next]_vars => [EntryIsMargined /\ EntryTakesAllThatFits]_vars
  BY EntriesAreCovered, ClipIsLargest
<1> QED
  BY <1>1, Invariant, PTL DEF Spec, EntriesAreClipped

(* A liquidation is recorded last and freezes the account: no later bar,   *)
(* funding charge or pending order changes its state (s.liquidated).       *)
THEOREM LiquidationFreezes == Spec => LiquidationIsFinal
<1>1. Inv /\ [Next]_vars =>
        [ /\ liquidated => liquidated' /\ s' = s /\ log' = log
          /\ liquidated' /\ ~liquidated => Last(log').kind = "liquidation" ]_vars
  <2> SUFFICES ASSUME Inv, [Next]_vars
               PROVE  /\ liquidated => liquidated' /\ s' = s /\ log' = log
                      /\ liquidated' /\ ~liquidated => Last(log').kind = "liquidation"
    OBVIOUS
  <2>1. ASSUME liquidated
        PROVE  liquidated' /\ s' = s /\ log' = log
    <3>1. queue = <<>> /\ stage \notin {"funding", "mark", "plan"}
      BY <2>1 DEF Inv, Staged
    <3> QED
      BY <2>1, <3>1 DEF Next, vars, SkipBar, UpdateBar, ExecuteNext, KeepUnfilled, EndOrders,
                        ChargeFunding, MarkToClose, PlanTarget
  <2>2. liquidated' /\ ~liquidated => Last(log').kind = "liquidation"
    BY LastRecord DEF Inv, Typed, TypeOK
  <2> QED
    BY <2>1, <2>2
<1> QED
  BY <1>1, Invariant, PTL DEF Spec, LiquidationIsFinal
=============================================================================
