---------------------------- MODULE PortfolioProofs ----------------------------
(***************************************************************************)
(* Proofs about PortfolioKernel, for every number of assets, every         *)
(* covariance, leverage and fee, every orders and prices.                  *)
(* First the types and the ledger of the cash (Inv), then the value of the *)
(* account (ValueInv) and what an account can carry (SolidInv).            *)
(***************************************************************************)
EXTENDS PortfolioKernel, FoldTheorems, TLAPS

States == [cash : Int, dir : {-1, 0, 1}, qty : Nat, avg : Int \cup {NA}, last : Int]

HasPrice(s) == s.dir * s.qty # 0 => s.avg # NA

(* What the exchange answers: a state without a mark, and what is paid.    *)
IsAnswer(t) ==
  /\ DOMAIN t = {"status", "liquidate", "fee", "realized", "cash", "dir", "qty", "avg"}
  /\ t.status \in {"FILLED", "FAILED"} /\ t.fee \in Int /\ t.realized \in Int /\ t.cash \in Int
  /\ t.dir \in {-1, 0, 1} /\ t.qty \in Nat /\ t.avg \in Int \cup {NA}

LEMMA Rates ==
  /\ NA \notin Int /\ Den \in Nat /\ Lev \in Nat \ {0} /\ MakerNum \in Nat /\ TakerNum \in Nat
  /\ FundNum \in Nat /\ FillCost \in Nat /\ Den \div Lev \in Nat \ {0} /\ NAssets \in Nat
  /\ MaxOrders \in Nat /\ MaxBoundary \in Nat /\ InitCash \in Int
<1>1. Den \in Nat \ {0} /\ Lev \in Nat \ {0} /\ Den % Lev = 0
  BY PortfolioAssumption
<1>2. Den \div Lev \in Nat
  BY <1>1
<1>3. Den \div Lev # 0
  BY <1>1
<1> QED
  BY <1>2, <1>3, PortfolioAssumption

(* The products of the kernel are integers.                                *)
LEMMA Products ==
  ASSUME NEW x \in Int, NEW y \in Int
  PROVE  x * y \in Int /\ x + y \in Int /\ x - y \in Int
OBVIOUS

LEMMA FeeRates ==
  ASSUME NEW type
  PROVE  K!FeeRate(type) \in Nat
BY Rates DEF K!FeeRate

LEMMA UnrealizedInt ==
  ASSUME NEW s \in States, NEW px \in Int
  PROVE  K!Unrealized(s, px) \in Int
<1>1. s.dir \in Int /\ s.qty \in Int
  BY DEF States
<1>2. s.dir * s.qty \in Int
  BY <1>1
<1>3. ASSUME s.avg # NA
      PROVE  (Den * px - s.avg) * (s.dir * s.qty) \in Int
  <2>1. s.avg \in Int
    BY <1>3 DEF States
  <2>2. Den * px \in Int
    BY Rates
  <2>3. Den * px - s.avg \in Int
    BY <2>1, <2>2
  <2> QED
    BY <1>2, <2>3, Products
<1> QED
  BY <1>3 DEF K!Unrealized, K!Units, K!HasPos

LEMMA AverageInt ==
  ASSUME NEW x \in Int, NEW y \in Nat, y # 0
  PROVE  x \div y \in Int
OBVIOUS

(* An answer refuses, or grants an entry, or an exit from a position with  *)
(* a price.                                                                *)
LEMMA TradeCases ==
  ASSUME NEW s, NEW d, NEW px, d.action \in {"OPEN", "INCREASE", "CLOSE", "REDUCE"}
  PROVE  LET t        == K!Trade(s, d, px)
             fee      == K!FeeRate(d.type) * d.qty * px
             realized == d.qty * (Den * px - s.avg) * s.dir
             units    == s.qty + d.qty
         IN  /\ DOMAIN t = {"status", "liquidate", "fee", "realized", "cash", "dir", "qty", "avg"}
             /\ \/ /\ t.status = "FAILED" /\ t.fee = 0 /\ t.realized = 0 /\ t.cash = s.cash
                   /\ t.dir = s.dir /\ t.qty = s.qty /\ t.avg = s.avg
                \/ /\ d.action \in {"OPEN", "INCREASE"}
                   /\ t.status = "FILLED" /\ t.fee = fee /\ t.realized = 0 /\ t.cash = s.cash - fee
                   /\ t.dir = d.dir
                   /\ t.qty = IF d.action = "OPEN" THEN d.qty ELSE units
                   /\ t.avg = IF d.action = "OPEN" THEN Den * px
                              ELSE IF s.avg = NA \/ units = 0 THEN NA
                              ELSE (s.qty * s.avg + d.qty * Den * px) \div units
                \/ /\ d.action \in {"CLOSE", "REDUCE"} /\ s.avg # NA /\ K!HasPos(s)
                   /\ d.action = "REDUCE" => ~(d.qty > s.qty)
                   /\ t.status = "FILLED" /\ t.fee = fee /\ t.realized = realized
                   /\ t.cash = s.cash - fee + realized
                   /\ t.dir = IF d.action = "CLOSE" THEN 0 ELSE d.dir
                   /\ t.qty = IF d.action = "CLOSE" THEN 0 ELSE s.qty - d.qty
                   /\ t.avg = IF d.action = "CLOSE" THEN NA ELSE s.avg
<1>1. CASE K!IsLiquidated(s, px)
  BY <1>1 DEF K!Trade
<1>2. CASE ~K!IsLiquidated(s, px) /\ d.action \in {"OPEN", "INCREASE"}
  BY <1>2 DEF K!Trade, K!Entries
<1>3. CASE ~K!IsLiquidated(s, px) /\ d.action \in {"CLOSE", "REDUCE"}
  BY <1>3 DEF K!Trade, K!Entries
<1> QED
  BY <1>1, <1>2, <1>3

(* The money of an answer is what it reports, and a planned fill leaves a  *)
(* position with a price.                                                  *)
LEMMA TradeAnswers ==
  ASSUME NEW s \in States, NEW d \in Decisions, NEW px \in Int
  PROVE  LET t == K!Trade(s, d, px)
         IN  /\ IsAnswer(t)
             /\ t.cash = s.cash + t.realized - t.fee
             /\ t.status = "FILLED" /\ PlannedFor(d, s) /\ HasPrice(s) => HasPrice(t)
<1> DEFINE t        == K!Trade(s, d, px)
           fee      == K!FeeRate(d.type) * d.qty * px
           realized == d.qty * (Den * px - s.avg) * s.dir
           units    == s.qty + d.qty
           mean     == (s.qty * s.avg + d.qty * Den * px) \div units
<1> SUFFICES /\ IsAnswer(t)
             /\ t.cash = s.cash + t.realized - t.fee
             /\ t.status = "FILLED" /\ PlannedFor(d, s) /\ HasPrice(s) => HasPrice(t)
  OBVIOUS
<1>1. /\ s.cash \in Int /\ s.dir \in {-1, 0, 1} /\ s.qty \in Nat /\ s.avg \in Int \cup {NA}
      /\ d.qty \in Nat /\ d.dir \in {-1, 0, 1} /\ d.action \in {"OPEN", "INCREASE", "CLOSE", "REDUCE"}
  BY DEF States, Decisions, K!Entries, K!Exits
<1>2. /\ fee \in Int /\ Den * px \in Int
  <2>1. K!FeeRate(d.type) \in Int /\ Den \in Int
    BY FeeRates, Rates
  <2>2. K!FeeRate(d.type) * d.qty \in Int
    BY <1>1, <2>1, Products
  <2> QED
    BY <2>1, <2>2, Products
<1>3. s.avg # NA => realized \in Int
  <2> SUFFICES ASSUME s.avg # NA
               PROVE  realized \in Int
    OBVIOUS
  <2>1. Den * px - s.avg \in Int
    BY <1>1, <1>2
  <2>2. d.qty * (Den * px - s.avg) \in Int
    BY <1>1, <2>1, Products
  <2> QED
    BY <1>1, <2>2, Products
<1>4. s.avg # NA /\ units # 0 => mean \in Int
  <2> SUFFICES ASSUME s.avg # NA, units # 0
               PROVE  mean \in Int
    OBVIOUS
  <2>1. s.qty * s.avg \in Int /\ d.qty * Den \in Int
    BY <1>1, Rates, Products
  <2>2. d.qty * Den * px \in Int
    BY <2>1, Products
  <2>3. s.qty * s.avg + d.qty * Den * px \in Int
    BY <2>1, <2>2
  <2> QED
    BY <1>1, <2>3, AverageInt
<1> DEFINE Refused == /\ t.status = "FAILED" /\ t.fee = 0 /\ t.realized = 0 /\ t.cash = s.cash
                      /\ t.dir = s.dir /\ t.qty = s.qty /\ t.avg = s.avg
           Entered == /\ d.action \in {"OPEN", "INCREASE"}
                      /\ t.status = "FILLED" /\ t.fee = fee /\ t.realized = 0 /\ t.cash = s.cash - fee
                      /\ t.dir = d.dir
                      /\ t.qty = IF d.action = "OPEN" THEN d.qty ELSE units
                      /\ t.avg = IF d.action = "OPEN" THEN Den * px
                                 ELSE IF s.avg = NA \/ units = 0 THEN NA ELSE mean
           Left    == /\ d.action \in {"CLOSE", "REDUCE"} /\ s.avg # NA /\ K!HasPos(s)
                      /\ d.action = "REDUCE" => ~(d.qty > s.qty)
                      /\ t.status = "FILLED" /\ t.fee = fee /\ t.realized = realized
                      /\ t.cash = s.cash - fee + realized
                      /\ t.dir = IF d.action = "CLOSE" THEN 0 ELSE d.dir
                      /\ t.qty = IF d.action = "CLOSE" THEN 0 ELSE s.qty - d.qty
                      /\ t.avg = IF d.action = "CLOSE" THEN NA ELSE s.avg
<1>5. /\ DOMAIN t = {"status", "liquidate", "fee", "realized", "cash", "dir", "qty", "avg"}
      /\ Refused \/ Entered \/ Left
  BY <1>1, TradeCases
<1> HIDE DEF fee, realized, mean, t
<1>6. CASE Refused
  BY <1>1, <1>5, <1>6 DEF IsAnswer
<1>7. CASE Entered
  <2>1. t.dir \in {-1, 0, 1} /\ t.qty \in Nat /\ t.avg \in Int \cup {NA}
    BY <1>1, <1>2, <1>4, <1>7
  <2>2. IsAnswer(t) /\ t.cash = s.cash + t.realized - t.fee
    BY <1>1, <1>2, <1>5, <1>7, <2>1 DEF IsAnswer
  <2>3. ASSUME PlannedFor(d, s), HasPrice(s)
        PROVE  HasPrice(t)
    <3>1. CASE d.action = "OPEN"
      BY <1>2, <1>7, <3>1, Rates DEF HasPrice
    <3>2. CASE d.action = "INCREASE"
      <4>1. s.dir = d.dir /\ s.qty # 0 /\ units # 0
        BY <1>1, <2>3, <3>2 DEF PlannedFor
      <4>2. d.dir # 0 => s.dir * s.qty # 0
        <5>1. s.dir = 1 => s.dir * s.qty = s.qty
          BY <1>1
        <5>2. s.dir = -1 => s.dir * s.qty = -s.qty
          BY <1>1
        <5> QED
          BY <1>1, <4>1, <5>1, <5>2
      <4>3. d.dir # 0 => t.avg = mean /\ mean \in Int
        BY <1>4, <1>7, <2>3, <3>2, <4>1, <4>2 DEF HasPrice
      <4>4. t.dir = d.dir /\ t.qty \in Int
        BY <1>7, <2>1
      <4> QED
        BY <4>3, <4>4, Rates DEF HasPrice
    <3> QED
      BY <1>7, <3>1, <3>2
  <2> QED
    BY <2>2, <2>3
<1>8. CASE Left
  <2>1. t.dir \in {-1, 0, 1} /\ t.qty \in Nat /\ t.avg \in Int \cup {NA}
    BY <1>1, <1>8
  <2>2. IsAnswer(t) /\ t.cash = s.cash + t.realized - t.fee
    BY <1>1, <1>2, <1>3, <1>5, <1>8, <2>1 DEF IsAnswer
  <2>3. HasPrice(t)
    BY <1>1, <1>8, <2>1 DEF HasPrice
  <2> QED
    BY <2>2, <2>3
<1> QED
  BY <1>5, <1>6, <1>7, <1>8

-----------------------------------------------------------------------------
(* Execution. *)

LEMMA StateType ==
  ASSUME TypeOK, NEW a \in Asset
  PROVE  State(pos, a, cash) \in States
BY DEF TypeOK, State, States

LEMMA FeeAwareNat ==
  ASSUME NEW s \in States, NEW px \in Int, NEW rate \in Nat
  PROVE  K!FeeAwareQty(s, px, rate) \in Nat
<1> DEFINE margin == K!InitialMargin(K!Units(s) * px)
           headroom == s.cash + K!Unrealized(s, px) - margin
           unitCost == ((Den \div Lev) + rate) * px
<1>1. s.cash \in Int /\ s.dir \in Int /\ s.qty \in Int
  BY DEF States
<1>2. margin \in Int
  <2>1. K!Units(s) * px \in Int
    BY <1>1, Products DEF K!Units
  <2>2. K!AbsVal(K!Units(s) * px) \in Int
    BY <2>1 DEF K!AbsVal
  <2> QED
    BY <2>2, Rates, Products DEF K!InitialMargin
<1>3. headroom \in Int
  BY <1>1, <1>2, UnrealizedInt
<1>4. ASSUME px > 0
      PROVE  unitCost \in Nat \ {0}
  <2>1. (Den \div Lev) + rate \in Nat \ {0}
    BY Rates
  <2> QED
    BY <1>4, <2>1
<1>5. ASSUME px > 0, headroom > 0
      PROVE  headroom \div unitCost \in Nat
  <2> HIDE DEF headroom, unitCost
  <2> QED
    BY <1>3, <1>4, <1>5
<1>6. K!FeeAwareQty(s, px, rate)
        = IF px <= 0 \/ headroom <= 0 THEN 0 ELSE headroom \div unitCost
  BY DEF K!FeeAwareQty
<1> HIDE DEF headroom, unitCost
<1> QED
  BY <1>3, <1>5, <1>6

LEMMA ResizedType ==
  ASSUME NEW d \in Decisions, NEW q \in Nat
  PROVE  /\ [d EXCEPT !.qty = q] \in Decisions
         /\ [d EXCEPT !.qty = q].asset = d.asset /\ [d EXCEPT !.qty = q].action = d.action
BY DEF Decisions

LEMMA ExecutableType ==
  ASSUME NEW s \in States, NEW d \in Decisions, NEW px \in Int
  PROVE  /\ K!Executable(s, d, px) \in Decisions /\ K!Executable(s, d, px).asset = d.asset
         /\ K!Executable(s, d, px).action = d.action
<1>1. K!FeeAwareQty(s, px, K!FeeRate(d.type)) \in Nat
  BY FeeAwareNat, FeeRates
<1> QED
  BY <1>1, ResizedType DEF K!Executable

LEMMA BarPrices ==
  ASSUME NEW batch \in Batches, NEW a \in Asset
  PROVE  batch[a].open \in Int /\ batch[a].close \in Int
<1>1. batch[a] \in Bars[a]
  BY DEF Batches
<1>2. Bars[a] \subseteq [open : Nat, high : Nat, low : Nat, close : Nat]
  BY PortfolioAssumption DEF Asset
<1> QED
  BY <1>1, <1>2

LEMMA PriceInt ==
  ASSUME TypeOK, stage = "orders", NEW d \in Decisions
  PROVE  K!FillPrice(d, State(pos, d.asset, cash), BasePrice(d)) \in Int
<1>1. d.asset \in Asset /\ d.dir \in Int /\ (d.type = "LIMIT" => d.px \in Nat)
  BY DEF Decisions
<1>2. bars[d.asset].open \in Int
  BY <1>1, BarPrices DEF TypeOK
<1>3. State(pos, d.asset, cash).dir \in Int
  BY <1>1, StateType DEF States
<1> QED
  BY <1>1, <1>2, <1>3, Rates DEF K!FillPrice, BasePrice

(* Only what the whole account can carry is filled. *)
LEMMA OutcomeCases ==
  ASSUME NEW d
  PROVE  LET s == State(pos, d.asset, cash)
             px == K!FillPrice(d, s, BasePrice(d))
             exec == IF d.derived THEN K!Executable(s, d, px) ELSE d
             out == Outcome(d)
         IN  /\ out.px = px
             /\ \/ /\ out.d = exec /\ out.answer = K!Trade(s, exec, px)
                   /\ Commits(exec, out.answer, px)
                \/ \E k \in 1 .. exec.qty :
                     /\ out.d = [exec EXCEPT !.qty = k] /\ out.answer = K!Trade(s, out.d, px)
                     /\ Commits(out.d, out.answer, px)
                \/ /\ out.d = exec
                   /\ out.answer = [K!Trade(s, exec, px) EXCEPT
                                       !.status = "FAILED", !.fee = 0, !.realized = 0,
                                       !.cash = cash, !.dir = s.dir, !.qty = s.qty, !.avg = s.avg]
<1> DEFINE s == State(pos, d.asset, cash)
           px == K!FillPrice(d, s, BasePrice(d))
           exec == IF d.derived THEN K!Executable(s, d, px) ELSE d
           lots == IF d.derived /\ d.action \in K!Entries THEN Clipped(exec, s, px) ELSE 0
           trial == [exec EXCEPT !.qty = lots]
           refuse == [K!Trade(s, exec, px) EXCEPT
                        !.status = "FAILED", !.fee = 0, !.realized = 0,
                        !.cash = cash, !.dir = s.dir, !.qty = s.qty, !.avg = s.avg]
           whole == Commits(exec, K!Trade(s, exec, px), px)
           out == Outcome(d)
           Whole == /\ out.d = exec /\ out.answer = K!Trade(s, exec, px)
                    /\ Commits(exec, out.answer, px)
           Part(k) == /\ out.d = [exec EXCEPT !.qty = k] /\ out.answer = K!Trade(s, out.d, px)
                      /\ Commits(out.d, out.answer, px)
           None == out.d = exec /\ out.answer = refuse
<1> SUFFICES out.px = px /\ (Whole \/ (\E k \in 1 .. exec.qty : Part(k)) \/ None)
  OBVIOUS
<1>1. Outcome(d) =
        CASE whole -> [d |-> exec, px |-> px, answer |-> K!Trade(s, exec, px)]
          [] ~whole /\ lots \in Fitting(exec, s, px) ->
               [d |-> trial, px |-> px, answer |-> K!Trade(s, trial, px)]
          [] OTHER -> [d |-> exec, px |-> px, answer |-> refuse]
  BY DEF Outcome
<1>2. lots \in Fitting(exec, s, px) => lots \in 1 .. exec.qty /\ Commits(trial, K!Trade(s, trial, px), px)
  BY DEF Fitting
<1> HIDE DEF s, px, exec, lots, refuse, whole
<1>3. CASE whole
  BY <1>1, <1>3 DEF whole
<1>4. CASE ~whole /\ lots \in Fitting(exec, s, px)
  <2>1. Outcome(d) = [d |-> trial, px |-> px, answer |-> K!Trade(s, trial, px)]
    BY <1>1, <1>4
  <2>2. out.px = px /\ Part(lots)
    BY <1>2, <1>4, <2>1
  <2> QED
    BY <1>2, <1>4, <2>2
<1>5. CASE ~whole /\ lots \notin Fitting(exec, s, px)
  <2>1. Outcome(d) = [d |-> exec, px |-> px, answer |-> refuse]
    BY <1>1, <1>5
  <2> QED
    BY <2>1
<1> QED
  BY <1>3, <1>4, <1>5

LEMMA OutcomeAnswers ==
  ASSUME TypeOK, stage = "orders", NEW d \in Decisions
  PROVE  LET out == Outcome(d)
             t   == out.answer
         IN  /\ out.d \in Decisions /\ out.d.asset = d.asset /\ out.d.action = d.action
             /\ out.px = K!FillPrice(d, State(pos, d.asset, cash), BasePrice(d))
             /\ out.px \in Int /\ IsAnswer(t)
             /\ t.cash = cash + t.realized - t.fee
             /\ IF t.status = "FILLED"
                THEN t = K!Trade(State(pos, d.asset, cash), out.d, out.px)
                ELSE t.fee = 0 /\ t.realized = 0
             /\ t.status = "FILLED" => Covered(After(out.d, t, out.px), t.cash)
             /\ t.status = "FILLED" /\ PlannedFor(out.d, pos[d.asset]) /\ HasPrice(pos[d.asset])
                  => HasPrice(t)
<1> DEFINE s == State(pos, d.asset, cash)
           px == K!FillPrice(d, s, BasePrice(d))
           exec == IF d.derived THEN K!Executable(s, d, px) ELSE d
           out == Outcome(d)
           t == out.answer
           Whole == /\ out.d = exec /\ out.answer = K!Trade(s, exec, px)
                    /\ Commits(exec, out.answer, px)
           Part(k) == /\ out.d = [exec EXCEPT !.qty = k] /\ out.answer = K!Trade(s, out.d, px)
                      /\ Commits(out.d, out.answer, px)
           None == /\ out.d = exec
                   /\ out.answer = [K!Trade(s, exec, px) EXCEPT
                                       !.status = "FAILED", !.fee = 0, !.realized = 0,
                                       !.cash = cash, !.dir = s.dir, !.qty = s.qty, !.avg = s.avg]
           Goal == /\ out.d \in Decisions /\ out.d.asset = d.asset /\ out.d.action = d.action
                   /\ out.px = px /\ out.px \in Int /\ IsAnswer(t)
                   /\ t.cash = cash + t.realized - t.fee
                   /\ IF t.status = "FILLED" THEN t = K!Trade(s, out.d, out.px)
                      ELSE t.fee = 0 /\ t.realized = 0
                   /\ t.status = "FILLED" => Covered(After(out.d, t, out.px), t.cash)
                   /\ t.status = "FILLED" /\ PlannedFor(out.d, pos[d.asset])
                        /\ HasPrice(pos[d.asset]) => HasPrice(t)
<1> SUFFICES Goal
  OBVIOUS
<1>1. d.asset \in Asset
  BY DEF Decisions
<1>2. s \in States /\ s.cash = cash /\ s.dir = pos[d.asset].dir /\ s.qty = pos[d.asset].qty
      /\ s.avg = pos[d.asset].avg
  BY <1>1, StateType DEF State
<1>3. px \in Int
  BY PriceInt
<1>4. exec \in Decisions /\ exec.asset = d.asset /\ exec.action = d.action
  BY <1>2, <1>3, ExecutableType
<1>5. out.px = px /\ (Whole \/ (\E k \in 1 .. exec.qty : Part(k)) \/ None)
  BY OutcomeCases
<1> HIDE DEF s, px, exec, out
<1>6. ASSUME out.d \in Decisions, out.d.asset = d.asset, out.d.action = d.action,
             t = K!Trade(s, out.d, px), Commits(out.d, t, px)
      PROVE  Goal
  <2>1. /\ IsAnswer(t) /\ t.cash = cash + t.realized - t.fee
        /\ t.status = "FILLED" /\ PlannedFor(out.d, s) /\ HasPrice(s) => HasPrice(t)
    BY <1>2, <1>3, <1>6, TradeAnswers
  <2>2. Covered(After(out.d, t, out.px), t.cash)
    BY <1>5, <1>6 DEF Commits
  <2>3. PlannedFor(out.d, s) <=> PlannedFor(out.d, pos[d.asset])
    BY <1>2 DEF PlannedFor
  <2>4. HasPrice(s) <=> HasPrice(pos[d.asset])
    BY <1>2 DEF HasPrice
  <2>5. t.status = "FILLED"
    BY <1>6 DEF Commits
  <2> QED
    BY <1>3, <1>5, <1>6, <2>1, <2>2, <2>3, <2>4, <2>5
<1>7. CASE Whole
  BY <1>4, <1>6, <1>7
<1>8. CASE \E k \in 1 .. exec.qty : Part(k)
  <2>1. PICK k \in 1 .. exec.qty : Part(k)
    BY <1>8
  <2>2. exec.qty \in Nat
    BY <1>4 DEF Decisions
  <2>3. k \in Nat
    BY <2>2
  <2>4. out.d \in Decisions /\ out.d.asset = d.asset /\ out.d.action = d.action
    BY <1>4, <2>1, <2>3, ResizedType
  <2> QED
    BY <1>6, <2>1, <2>4
<1>9. CASE None
  <2> DEFINE u == K!Trade(s, exec, px)
  <2>1. IsAnswer(u)
    BY <1>2, <1>3, <1>4, TradeAnswers
  <2> HIDE DEF u
  <2>2. t = [u EXCEPT !.status = "FAILED", !.fee = 0, !.realized = 0,
                      !.cash = cash, !.dir = s.dir, !.qty = s.qty, !.avg = s.avg]
    BY <1>9 DEF u
  <2>3. /\ t.status = "FAILED" /\ t.fee = 0 /\ t.realized = 0 /\ t.cash = cash
        /\ t.dir = s.dir /\ t.qty = s.qty /\ t.avg = s.avg /\ DOMAIN t = DOMAIN u
    BY <2>1, <2>2 DEF IsAnswer
  <2>4. IsAnswer(t) /\ t.cash = cash + t.realized - t.fee
    BY <1>2, <2>1, <2>3 DEF IsAnswer, States
  <2> QED
    BY <1>3, <1>4, <1>5, <1>9, <2>3, <2>4
<1> QED
  BY <1>5, <1>7, <1>8, <1>9

(* The charge is what the balance loses, unless it is emptied.             *)
LEMMA FundingAnswers ==
  ASSUME NEW s \in States, NEW dt \in {NA, 1}
  PROVE  LET f == K!Funding(s, dt)
         IN  /\ f.fee \in Int /\ f.cash \in Int /\ f.liquidate \in BOOLEAN
             /\ ~f.liquidate => f.cash = s.cash - f.fee
<1> DEFINE notional == K!AbsVal(K!Notional(s))
           fee == FundNum * dt * notional
           liq == s.cash - fee + K!Unrealized(s, s.last) < K!Maintenance(s)
<1>1. s.cash \in Int /\ s.dir \in Int /\ s.qty \in Int /\ s.last \in Int
  BY DEF States
<1>2. K!Notional(s) \in Int
  BY <1>1, Products DEF K!Notional, K!Units
<1>3. notional \in Int
  BY <1>2 DEF K!AbsVal
<1>4. CASE dt = NA
  <2>1. K!Funding(s, dt) = [fee |-> 0, cash |-> s.cash, liquidate |-> FALSE]
    BY <1>4 DEF K!Funding
  <2> QED
    BY <1>1, <2>1
<1>5. CASE dt = 1
  <2>1. fee \in Int
    BY <1>3, <1>5, Rates, Products
  <2>2. K!Funding(s, dt) = [fee |-> fee, cash |-> IF liq THEN 0 ELSE s.cash - fee, liquidate |-> liq]
    BY <1>5, Rates DEF K!Funding
  <2>3. liq \in BOOLEAN
    OBVIOUS
  <2> HIDE DEF fee, liq
  <2> QED
    BY <1>1, <2>1, <2>2, <2>3
<1> QED
  BY <1>4, <1>5

-----------------------------------------------------------------------------
(* The inductive invariant: the types, and the ledger of the cash.         *)

Inv == TypeOK /\ LedgerReconciles

LEMMA InitInv ==
  Init => Inv
<1> SUFFICES ASSUME Init
             PROVE  Inv
  OBVIOUS
<1> USE DEF Init
<1>1. /\ n \in 0 .. MaxBoundary /\ due \in 1 .. NAssets + 1 /\ submitted \in 0 .. MaxOrders
      /\ cash \in Int /\ flow \in Int /\ booked \in Int /\ filled \in [Asset -> Int]
      /\ rounded \in Nat /\ cash = InitCash + booked
  BY Rates
<1>2. pos \in [Asset -> [dir : {-1, 0, 1}, qty : Nat, avg : Int \cup {NA}, last : Int]]
  BY DEF Flat
<1>3. HeldHasPrice
  BY DEF HeldHasPrice, Flat
<1>4. queue \in Seq(Decisions) /\ book \cup planning = {}
  OBVIOUS
<1> QED
  BY <1>1, <1>2, <1>3, <1>4 DEF Inv, TypeOK, LedgerReconciles

LEMMA PlaceOrderKeeps ==
  ASSUME Inv, NEW o \in Orders, PlaceOrder(o), UNCHANGED settling
  PROVE  Inv'
<1> USE DEF Inv, PlaceOrder, records, planner
<1>1. LedgerReconciles'
  BY DEF LedgerReconciles
<1>2. submitted + 1 \in 1 .. MaxOrders
  <2>1. submitted \in 0 .. MaxOrders /\ submitted < MaxOrders
    BY DEF TypeOK
  <2> QED
    BY <2>1, Rates
<1>3. \A e \in book' \cup planning' : e.id \in 1 .. submitted' /\ e.ord \in Orders
  BY <1>2 DEF TypeOK
<1>4. submitted' \in 0 .. MaxOrders
  BY <1>2
<1> QED
  BY <1>1, <1>3, <1>4 DEF TypeOK, HeldHasPrice

LEMMA NewBoundaryKeeps ==
  ASSUME Inv, NEW batch \in Batches, NewBoundary(batch), UNCHANGED settling
  PROVE  Inv'
<1> USE DEF Inv, NewBoundary, records
<1>1. LedgerReconciles'
  BY DEF LedgerReconciles
<1>2. \A a \in Asset : batch[a].close \in Int
  BY BarPrices
<1>3. \A a \in Asset : /\ pos[a].dir \in {-1, 0, 1} /\ pos[a].qty \in Nat
                       /\ pos[a].avg \in Int \cup {NA}
  BY DEF TypeOK
<1>4. pos' \in [Asset -> [dir : {-1, 0, 1}, qty : Nat, avg : Int \cup {NA}, last : Int]]
  BY <1>2, <1>3 DEF TypeOK, Flat
<1>5. HeldHasPrice'
  BY DEF TypeOK, HeldHasPrice, Flat
<1>6. at' \in [Asset -> [dir : {-1, 0, 1}, qty : Nat]]
  BY <1>3 DEF K!Sign
<1>7. n' \in 0 .. MaxBoundary /\ due' \in 1 .. NAssets + 1
  <2>1. n \in 0 .. MaxBoundary /\ n < MaxBoundary
    BY DEF TypeOK
  <2> QED
    BY <2>1, Rates
<1> QED
  BY <1>1, <1>4, <1>5, <1>6, <1>7 DEF TypeOK

LEMMA DecisionType ==
  ASSUME NEW id \in Nat, NEW o \in Orders, NEW p \in [dir : {-1, 0, 1}, qty : Nat]
  PROVE  /\ DecisionOf(id, o, p) \in Decisions /\ DecisionOf(id, o, p).asset = o.asset
         /\ Predicted(o, p) \in [dir : {-1, 0, 1}, qty : Nat]
<1>1. /\ o.asset \in Asset /\ o.qty \in Nat /\ o.side \in {-1, 0, 1} /\ o.type \in {"MARKET", "LIMIT"}
      /\ o.intended \in K!Entries \cup K!Exits \cup {NA}
      /\ o.px \in Nat \cup {NA} /\ (o.type = "LIMIT" => o.px \in Nat)
  BY PortfolioAssumption DEF Asset
<1>2. ActionOf(o, p) \in K!Entries \cup K!Exits
  BY <1>1 DEF ActionOf, K!Entries, K!Exits
<1>3. QtyOf(o, p) \in Nat
  BY <1>1 DEF QtyOf
<1>4. DecisionOf(id, o, p) \in Decisions /\ DecisionOf(id, o, p).asset = o.asset
  <2> DEFINE d == DecisionOf(id, o, p)
  <2>1. ASSUME d.action \in K!Entries
        PROVE  d.dir # 0
    <3>1. d.action = ActionOf(o, p) /\ d.dir = (IF ActionOf(o, p) = "CLOSE" THEN 0 ELSE o.side)
      BY DEF DecisionOf
    <3>2. o.intended \in K!Entries => o.side # 0
      BY PortfolioAssumption
    <3>3. o.side # 0
      BY <2>1, <3>1, <3>2 DEF ActionOf, K!Entries
    <3> QED
      BY <2>1, <3>1, <3>3 DEF K!Entries
  <2>2. /\ d \in [id : Nat, asset : Asset, derived : BOOLEAN, action : K!Entries \cup K!Exits,
                  dir : {-1, 0, 1}, type : {"MARKET", "LIMIT"}, px : Nat \cup {NA}, qty : Nat]
        /\ d.asset = o.asset /\ d.type = o.type /\ d.px = o.px
    BY <1>1, <1>2, <1>3 DEF DecisionOf
  <2> QED
    BY <1>1, <2>1, <2>2 DEF Decisions
<1>5. Predicted(o, p) \in [dir : {-1, 0, 1}, qty : Nat]
  BY <1>1, <1>3 DEF Predicted
<1> QED
  BY <1>4, <1>5

LEMMA PlanOrderKeeps ==
  ASSUME Inv, NEW e \in planning, PlanOrder(e), UNCHANGED settling
  PROVE  Inv'
<1> DEFINE d == DecisionOf(e.id, e.ord, at[e.ord.asset])
<1>1. e.id \in Nat /\ e.ord \in Orders /\ e.ord.asset \in Asset
  <2>1. e.id \in 1 .. submitted /\ submitted \in 0 .. MaxOrders /\ e.ord \in Orders
    BY DEF Inv, TypeOK
  <2> QED
    BY <2>1, Rates, PortfolioAssumption DEF Asset
<1>2. stage = "plan" /\ at \in [Asset -> [dir : {-1, 0, 1}, qty : Nat]]
  BY DEF PlanOrder, Inv, TypeOK
<1>3. /\ d \in Decisions /\ d.asset = e.ord.asset
      /\ Predicted(e.ord, at[e.ord.asset]) \in [dir : {-1, 0, 1}, qty : Nat]
  BY <1>1, <1>2, DecisionType
<1> HIDE DEF d
<1>4. at' \in [Asset -> [dir : {-1, 0, 1}, qty : Nat]]
  BY <1>2, <1>3 DEF PlanOrder, d
<1>5. queue' \in Seq(Decisions)
  BY <1>3 DEF PlanOrder, Inv, TypeOK, d
<1>6. planning' \subseteq planning /\ book' \subseteq book
  BY DEF PlanOrder, Without
<1>7. UNCHANGED <<stage, n, bars, cash, pos, submitted, due, liquidated, flow, filled,
                booked, rounded, lost>>
  BY DEF PlanOrder, records
<1> QED
  BY <1>2, <1>4, <1>5, <1>6, <1>7 DEF Inv, TypeOK, LedgerReconciles, HeldHasPrice

LEMMA FirstAsset == 1 \in 1 .. NAssets + 1
BY Rates

LEMMA SmallStepsKeep ==
  ASSUME Inv, EndPlan \/ LeavePending \/ EndOrders \/ Survive \/ EndBoundary, UNCHANGED settling
  PROVE  Inv'
<1> USE DEF Inv, records, planner
<1>1. CASE EndPlan
  BY <1>1 DEF EndPlan, TypeOK, LedgerReconciles, HeldHasPrice
<1>2. CASE LeavePending
  <2>1. queue' \in Seq(Decisions)
    BY <1>2 DEF LeavePending, TypeOK
  <2> QED
    BY <1>2, <2>1 DEF LeavePending, TypeOK, LedgerReconciles, HeldHasPrice
<1>3. CASE EndOrders
  BY <1>3 DEF EndOrders, TypeOK, LedgerReconciles, HeldHasPrice
<1>4. CASE Survive
  BY <1>4, FirstAsset DEF Survive, TypeOK, LedgerReconciles, HeldHasPrice
<1>5. CASE EndBoundary
  BY <1>5, FirstAsset DEF EndBoundary, TypeOK, LedgerReconciles, HeldHasPrice
<1> QED
  BY <1>1, <1>2, <1>3, <1>4, <1>5

(* What changes the cash and the ledger alike keeps their difference. *)
LEMMA SameDifference ==
  ASSUME NEW c \in Int, NEW b \in Int, NEW x \in Int, NEW y \in Int, NEW i \in Int, c = i + b
  PROVE  c + x - y = i + (b + x - y) /\ c + x = i + (b + x) /\ c - x = i + (b - x)
OBVIOUS

LEMMA ExecuteOrderKeeps ==
  ASSUME Inv, ExecuteOrder, UNCHANGED settling
  PROVE  Inv'
<1> DEFINE d == Head(queue)
           out == Outcome(d)
           t == out.answer
           ok == t.status = "FILLED"
           qty == IF ok THEN FilledQty(out.d, filled[d.asset]) ELSE 0
           after == After(out.d, t, out.px)
<1>1. /\ stage = "orders" /\ d \in Decisions /\ queue' = Tail(queue) /\ queue' \in Seq(Decisions)
      /\ cash \in Int /\ flow \in Int /\ booked \in Int /\ filled \in [Asset -> Int]
      /\ pos \in [Asset -> [dir : {-1, 0, 1}, qty : Nat, avg : Int \cup {NA}, last : Int]]
  BY DEF ExecuteOrder, Inv, TypeOK
<1>2. d.asset \in Asset
  BY <1>1 DEF Decisions
<1>3. /\ out.d \in Decisions /\ out.d.asset = d.asset /\ out.px \in Int /\ IsAnswer(t)
      /\ t.cash = cash + t.realized - t.fee
      /\ ok /\ PlannedFor(out.d, pos[d.asset]) /\ HasPrice(pos[d.asset]) => HasPrice(t)
  BY <1>1, OutcomeAnswers DEF Inv
<1>4. /\ pos' = IF ok THEN after ELSE pos
      /\ cash' = t.cash /\ book' = Without(book, d.id)
      /\ filled' = [filled EXCEPT ![d.asset] = @ + qty]
      /\ flow' = flow + Den * out.px * qty + t.fee
      /\ booked' = booked + t.realized - t.fee
      /\ rounded' = IF ok /\ out.d.action = "INCREASE" THEN rounded + t.qty ELSE rounded
      /\ lost' = IF ok /\ ~PlannedFor(out.d, pos[d.asset]) /\ lost = "nothing" THEN "count" ELSE lost
      /\ UNCHANGED <<stage, n, bars, submitted, planning, at, due, liquidated>>
  BY DEF ExecuteOrder, planner
<1>5. qty \in Int
  <2>1. filled[d.asset] \in Int
    BY <1>1, <1>2
  <2>2. K!Sign(filled[d.asset]) \in Int /\ out.d.dir \in Int /\ out.d.qty \in Int
    BY <1>3 DEF K!Sign, Decisions
  <2>3. FilledQty(out.d, filled[d.asset]) \in Int
    BY <2>2, Products DEF FilledQty
  <2> QED
    BY <2>3
<1>6. after = [pos EXCEPT ![d.asset] = [dir |-> t.dir, qty |-> t.qty, avg |-> t.avg, last |-> out.px]]
  BY <1>3 DEF After
<1> HIDE DEF d, out, qty, after
<1>7. t.fee \in Int /\ t.realized \in Int /\ t.cash \in Int /\ t.dir \in {-1, 0, 1}
      /\ t.qty \in Nat /\ t.avg \in Int \cup {NA}
  BY <1>3 DEF IsAnswer
<1>8. pos' \in [Asset -> [dir : {-1, 0, 1}, qty : Nat, avg : Int \cup {NA}, last : Int]]
  BY <1>1, <1>2, <1>3, <1>4, <1>6, <1>7
<1>9. cash' \in Int /\ flow' \in Int /\ booked' \in Int /\ filled' \in [Asset -> Int]
  <2>1. Den * out.px \in Int
    BY <1>3, Rates, Products
  <2>2. Den * out.px * qty \in Int
    BY <1>5, <2>1, Products
  <2>3. cash' \in Int /\ booked' \in Int
    BY <1>1, <1>4, <1>7
  <2>4. flow' \in Int
    BY <1>1, <1>4, <1>7, <2>2
  <2>5. filled' \in [Asset -> Int]
    BY <1>1, <1>2, <1>4, <1>5
  <2> QED
    BY <2>3, <2>4, <2>5
<1>10. LedgerReconciles'
  <2>1. lost' \in {"nothing", "count"} => lost \in {"nothing", "count"}
    BY <1>4
  <2>2. lost' \in {"nothing", "count"} => cash = InitCash + booked
    BY <2>1 DEF Inv, LedgerReconciles
  <2>3. InitCash \in Int
    BY Rates
  <2>4. cash = InitCash + booked => cash' = InitCash + booked'
    <3>1. cash' = cash + t.realized - t.fee /\ booked' = booked + t.realized - t.fee
      BY <1>3, <1>4
    <3>2. cash \in Int /\ booked \in Int /\ t.fee \in Int /\ t.realized \in Int
      BY <1>1, <1>7
    <3> HIDE DEF t
    <3> QED
      BY <2>3, <3>1, <3>2, SameDifference
  <2> QED
    BY <2>2, <2>4 DEF LedgerReconciles
<1>11. HeldHasPrice'
  <2> SUFFICES ASSUME lost' = "nothing", NEW a \in Asset
               PROVE  HasPrice(pos'[a])
    BY DEF HeldHasPrice, HasPrice
  <2>1. lost = "nothing" /\ (ok => PlannedFor(out.d, pos[d.asset]))
    BY <1>4
  <2>2. \A b \in Asset : HasPrice(pos[b])
    BY <2>1 DEF Inv, TypeOK, HeldHasPrice, HasPrice
  <2>3. CASE ok /\ a = d.asset
    <3>1. HasPrice(t)
      BY <1>2, <1>3, <2>1, <2>2, <2>3
    <3>2. pos'[a].dir = t.dir /\ pos'[a].qty = t.qty /\ pos'[a].avg = t.avg
      BY <1>1, <1>4, <1>6, <2>3
    <3> QED
      BY <3>1, <3>2 DEF HasPrice
  <2>4. CASE ~ok \/ a # d.asset
    <3>1. pos'[a] = pos[a]
      BY <1>1, <1>4, <1>6, <2>4
    <3> QED
      BY <2>2, <3>1
  <2> QED
    BY <2>3, <2>4
<1>12. book' \subseteq book
  BY <1>4 DEF Without
<1>13. lost' \in {"nothing", "count", "cash", "all"}
  BY <1>4 DEF Inv, TypeOK
<1>14. rounded' \in Nat
  <2>1. rounded \in Nat /\ t.qty \in Nat
    BY <1>7 DEF Inv, TypeOK
  <2>2. rounded' = rounded + t.qty \/ rounded' = rounded
    BY <1>4
  <2> HIDE DEF t
  <2> QED
    BY <2>1, <2>2
<1> QED
  BY <1>1, <1>4, <1>8, <1>9, <1>10, <1>11, <1>12, <1>13, <1>14 DEF Inv, TypeOK

LEMMA DueAsset ==
  ASSUME TypeOK, due <= NAssets
  PROVE  due \in Asset /\ due + 1 \in 1 .. NAssets + 1
<1>1. due \in 1 .. NAssets + 1
  BY DEF TypeOK
<1> QED
  BY <1>1, Rates DEF Asset

LEMMA ChargeFundingKeeps ==
  ASSUME Inv, ChargeFunding, UNCHANGED settling
  PROVE  Inv'
<1> DEFINE s == State(pos, due, cash)
           f == K!Funding(s, IF n = 1 THEN NA ELSE 1)
<1>1. /\ due \in Asset /\ due' \in 1 .. NAssets + 1 /\ stage = "funding"
      /\ cash \in Int /\ flow \in Int /\ booked \in Int
      /\ pos \in [Asset -> [dir : {-1, 0, 1}, qty : Nat, avg : Int \cup {NA}, last : Int]]
  BY DueAsset DEF ChargeFunding, Inv, TypeOK
<1>2. s \in States /\ s.cash = cash
  BY <1>1, StateType DEF Inv, State
<1>3. /\ f.fee \in Int /\ f.cash \in Int /\ f.liquidate \in BOOLEAN
      /\ ~f.liquidate => f.cash = cash - f.fee
  BY <1>2, FundingAnswers
<1>4. /\ cash' = f.cash /\ pos' = [pos EXCEPT ![due].last = bars[due].close]
      /\ flow' = flow + f.fee /\ booked' = booked - f.fee
      /\ lost' = IF f.liquidate /\ lost # "all" THEN "cash" ELSE lost
      /\ UNCHANGED <<stage, n, bars, book, submitted, planning, at, queue, liquidated, filled, rounded>>
  BY DEF ChargeFunding, planner
<1> HIDE DEF s, f
<1>5. bars[due].close \in Int
  <2>1. bars \in Batches
    BY <1>1 DEF Inv, TypeOK
  <2> QED
    BY <1>1, <2>1, BarPrices
<1>6. pos' \in [Asset -> [dir : {-1, 0, 1}, qty : Nat, avg : Int \cup {NA}, last : Int]]
  BY <1>1, <1>4, <1>5
<1>7. \A a \in Asset : pos'[a].dir = pos[a].dir /\ pos'[a].qty = pos[a].qty /\ pos'[a].avg = pos[a].avg
  BY <1>1, <1>4
<1>8. HeldHasPrice'
  <2>1. lost' = "nothing" => lost = "nothing"
    BY <1>4
  <2> QED
    BY <1>7, <2>1 DEF Inv, TypeOK, HeldHasPrice
<1>9. cash' \in Int /\ flow' \in Int /\ booked' \in Int
  BY <1>1, <1>3, <1>4
<1>10. LedgerReconciles'
  <2> SUFFICES ASSUME lost' \in {"nothing", "count"}
               PROVE  cash' = InitCash + booked'
    BY DEF LedgerReconciles
  <2>1. ~f.liquidate /\ lost \in {"nothing", "count"}
    BY <1>3, <1>4
  <2>2. cash = InitCash + booked /\ InitCash \in Int
    BY <2>1, Rates DEF Inv, LedgerReconciles
  <2>3. cash' = cash - f.fee /\ booked' = booked - f.fee
    BY <1>3, <1>4, <2>1
  <2>4. f.fee \in Int /\ cash \in Int /\ booked \in Int
    BY <1>1, <1>3
  <2> QED
    BY <2>2, <2>3, <2>4
<1>11. lost' \in {"nothing", "count", "cash", "all"}
  BY <1>4 DEF Inv, TypeOK
<1> QED
  BY <1>1, <1>4, <1>6, <1>8, <1>9, <1>10, <1>11 DEF Inv, TypeOK

LEMMA LiquidateKeeps ==
  ASSUME Inv, Liquidate, UNCHANGED settling
  PROVE  Inv'
<1> USE DEF Liquidate, planner
<1>1. pos' \in [Asset -> [dir : {-1, 0, 1}, qty : Nat, avg : Int \cup {NA}, last : Int]]
  BY DEF Inv, TypeOK, Flat
<1> QED
  BY <1>1, FirstAsset DEF Inv, TypeOK, LedgerReconciles, HeldHasPrice

LEMMA SettleVariationKeeps ==
  ASSUME Inv, SettleVariation, UNCHANGED settling
  PROVE  Inv'
<1> DEFINE p == pos[due]
           v == K!Unrealized(State(pos, due, cash), p.last)
           settles == settling /\ p.dir * p.qty # 0 /\ p.avg # NA
<1>1. /\ due \in Asset /\ due' \in 1 .. NAssets + 1 /\ cash \in Int /\ booked \in Int
      /\ pos \in [Asset -> [dir : {-1, 0, 1}, qty : Nat, avg : Int \cup {NA}, last : Int]]
  BY DueAsset DEF SettleVariation, Inv, TypeOK
<1>2. v \in Int
  BY <1>1, StateType, UnrealizedInt DEF Inv
<1>3. Den * p.last \in Int
  BY <1>1, Rates, Products
<1>4. /\ cash' = IF settles THEN cash + v ELSE cash
      /\ pos' = IF settles THEN [pos EXCEPT ![due].avg = Den * p.last] ELSE pos
      /\ booked' = IF settles THEN booked + v ELSE booked
      /\ UNCHANGED <<stage, n, bars, book, submitted, planning, at, queue, liquidated, flow, filled,
                     rounded, lost>>
  BY DEF SettleVariation, planner
<1> HIDE DEF v, settles
<1>5. pos' \in [Asset -> [dir : {-1, 0, 1}, qty : Nat, avg : Int \cup {NA}, last : Int]]
  BY <1>1, <1>3, <1>4
<1>6. \A a \in Asset : /\ pos'[a].dir = pos[a].dir /\ pos'[a].qty = pos[a].qty
                       /\ pos'[a].avg = pos[a].avg \/ pos'[a].avg \in Int
  BY <1>1, <1>3, <1>4
<1>7. HeldHasPrice'
  BY <1>4, <1>6, Rates DEF Inv, TypeOK, HeldHasPrice
<1>8. cash' \in Int /\ booked' \in Int
  BY <1>1, <1>2, <1>4
<1>9. LedgerReconciles'
  <2> SUFFICES ASSUME lost \in {"nothing", "count"}
               PROVE  cash' = InitCash + booked'
    BY <1>4 DEF LedgerReconciles
  <2>1. cash = InitCash + booked /\ InitCash \in Int
    BY Rates DEF Inv, LedgerReconciles
  <2> QED
    BY <1>1, <1>2, <1>4, <2>1, SameDifference
<1> QED
  BY <1>1, <1>4, <1>5, <1>7, <1>8, <1>9 DEF Inv, TypeOK

LEMMA NextKeeps ==
  ASSUME Inv, [Next]_vars
  PROVE  Inv'
<1>1. CASE Next
  BY <1>1, PlaceOrderKeeps, NewBoundaryKeeps, PlanOrderKeeps, SmallStepsKeep, ExecuteOrderKeeps,
     ChargeFundingKeeps, LiquidateKeeps, SettleVariationKeeps DEF Next
<1>2. CASE UNCHANGED vars
  BY <1>2 DEF vars, planner, records, Inv, TypeOK, LedgerReconciles, HeldHasPrice
<1> QED
  BY <1>1, <1>2

LEMMA Invariance ==
  Spec => []Inv
BY InitInv, NextKeeps, PTL DEF Spec

(* Every field keeps its type, and a held position its average price.      *)
THEOREM TypesAndPrices ==
  Spec => []TypeOK
<1>1. Inv => TypeOK
  BY DEF Inv
<1> QED
  BY <1>1, Invariance, PTL

(* The recorded events explain the cash.                                   *)
THEOREM LedgerExplainsBalance ==
  Spec => []LedgerReconciles
<1>1. Inv => LedgerReconciles
  BY DEF Inv
<1> QED
  BY <1>1, Invariance, PTL

(* Every fill is covered by the whole account.                             *)
LEMMA FillsCovered ==
  Inv /\ [Next]_vars => [FillIsCovered]_vars
<1>1. ASSUME Inv, [Next]_vars
      PROVE  stage = "orders" /\ pos' # pos => Covered(pos', cash')
  <2> SUFFICES ASSUME stage = "orders", pos' # pos
               PROVE  Covered(pos', cash')
    OBVIOUS
  <2>1. ExecuteOrder
    BY <1>1 DEF Next, vars, PlaceOrder, NewBoundary, PlanOrder, EndPlan, LeavePending, EndOrders,
                ChargeFunding, Liquidate, Survive, SettleVariation, EndBoundary
  <2> DEFINE d == Head(queue)
             out == Outcome(d)
  <2>2. d \in Decisions
    BY <1>1, <2>1 DEF ExecuteOrder, Inv, TypeOK
  <2>3. out.answer.status = "FILLED" => Covered(After(out.d, out.answer, out.px), out.answer.cash)
    BY <1>1, <2>2, OutcomeAnswers DEF Inv
  <2>4. pos' = IF out.answer.status = "FILLED" THEN After(out.d, out.answer, out.px) ELSE pos
    BY <2>1 DEF ExecuteOrder
  <2>5. cash' = out.answer.cash
    BY <2>1 DEF ExecuteOrder
  <2> HIDE DEF out
  <2> QED
    BY <2>3, <2>4, <2>5
<1> QED
  BY <1>1 DEF FillIsCovered

-----------------------------------------------------------------------------
(* How tight the clip is. *)

LEMMA LargestFitTight ==
  ASSUME NEW to \in Nat \ {0}, NEW fits
  PROVE  LET r == K!LargestFit(fits, 1, to)
         IN  /\ r = 0 \/ r \in fits \cap (1 .. to)
             /\ r < to => r + 1 \notin fits
<1> DEFINE f == CHOOSE f : IsSearch(f, fits, 1, to)
           r == f[<<1, to>>]
<1>1. IsSearch(f, fits, 1, to)
  BY SearchExists
<1>2. K!LargestFit(fits, 1, to) = r
  BY DEF K!LargestFit, IsSearch
<1> HIDE DEF f
<1>3. r = 0 \/ r \in fits \cap (1 .. to)
  BY <1>1, SearchFits
<1>4. /\ r # 0 /\ r < to => r + 1 \notin fits
      /\ r = 0 => 1 \notin fits
  BY <1>1, SearchIsTight
<1> HIDE DEF r
<1> QED
  BY <1>2, <1>3, <1>4

(* What is filled of an entry, and one more. *)
LEMMA OutcomeTight ==
  ASSUME TypeOK, stage = "orders", NEW d \in Decisions, d.derived, d.action \in K!Entries
  PROVE  LET out == Outcome(d)
             got == IF out.answer.status = "FILLED" THEN out.d.qty ELSE 0
         IN  got < Levered(d).qty => ~Carries(d, got + 1)
<1> DEFINE s == State(pos, d.asset, cash)
           px == K!FillPrice(d, s, BasePrice(d))
           exec == K!Executable(s, d, px)
           lots == Clipped(exec, s, px)
           trial == [exec EXCEPT !.qty = lots]
           refuse == [K!Trade(s, exec, px) EXCEPT
                        !.status = "FAILED", !.fee = 0, !.realized = 0,
                        !.cash = cash, !.dir = s.dir, !.qty = s.qty, !.avg = s.avg]
           whole == Commits(exec, K!Trade(s, exec, px), px)
           out == Outcome(d)
           got == IF out.answer.status = "FILLED" THEN out.d.qty ELSE 0
<1>1. Outcome(d) =
        CASE whole -> [d |-> exec, px |-> px, answer |-> K!Trade(s, exec, px)]
          [] ~whole /\ lots \in Fitting(exec, s, px) ->
               [d |-> trial, px |-> px, answer |-> K!Trade(s, trial, px)]
          [] OTHER -> [d |-> exec, px |-> px, answer |-> refuse]
  BY DEF Outcome
<1>2. d.asset \in Asset
  BY DEF Decisions
<1>3. s \in States /\ px \in Int
  BY <1>2, StateType, PriceInt DEF State
<1>4. exec \in Decisions /\ exec.qty \in Nat /\ Levered(d) = exec
  <2>1. exec \in Decisions
    BY <1>3, ExecutableType
  <2> QED
    BY <2>1 DEF Levered, Decisions
<1> DEFINE Carry(k) == Commits([exec EXCEPT !.qty = k], K!Trade(s, [exec EXCEPT !.qty = k], px), px)
<1>5. ASSUME NEW k
      PROVE  Carries(d, k) <=> Carry(k)
  BY <1>4 DEF Carries
<1>6. Fitting(exec, s, px) = {k \in 1 .. exec.qty : Carry(k)}
  BY DEF Fitting
<1>7. lots = K!LargestFit(Fitting(exec, s, px), 1, exec.qty)
  BY DEF Clipped
<1>8. IsAnswer(K!Trade(s, exec, px))
  BY <1>3, <1>4, TradeAnswers
<1>9. refuse.status = "FAILED"
  BY <1>8 DEF IsAnswer
<1>10. trial.qty = lots
  BY <1>4 DEF Decisions
<1>11. whole => K!Trade(s, exec, px).status = "FILLED"
  BY DEF Commits
<1>12. lots \in Fitting(exec, s, px) => K!Trade(s, trial, px).status = "FILLED"
  BY DEF Fitting, Commits
<1> HIDE DEF s, px, exec, lots, trial, refuse, whole, Carry
<1> SUFFICES ASSUME got < exec.qty
             PROVE  ~Carry(got + 1)
  BY <1>4, <1>5
<1>13. CASE whole
  <2>1. out.d = exec /\ out.answer = K!Trade(s, exec, px)
    BY <1>1, <1>13
  <2>2. got = exec.qty
    BY <1>11, <1>13, <2>1
  <2> QED
    BY <1>4, <2>2
<1>14. ASSUME ~whole
       PROVE  /\ got = IF lots \in Fitting(exec, s, px) THEN lots ELSE 0
              /\ got \in Nat
  <2>1. CASE lots \in Fitting(exec, s, px)
    <3>1. out.d = trial /\ out.answer = K!Trade(s, trial, px)
      BY <1>1, <1>14, <2>1
    <3>2. lots \in Nat
      BY <1>4, <1>6, <2>1
    <3> QED
      BY <1>10, <1>12, <2>1, <3>1, <3>2
  <2>2. CASE lots \notin Fitting(exec, s, px)
    <3>1. out.answer = refuse
      BY <1>1, <1>14, <2>2
    <3> QED
      BY <1>9, <2>2, <3>1
  <2> QED
    BY <2>1, <2>2
<1>15. CASE ~whole
  <2> HIDE DEF got
  <2>1. got \in Nat /\ exec.qty \in Nat \ {0}
    BY <1>4, <1>14, <1>15
  <2>2. /\ lots = 0 \/ lots \in Fitting(exec, s, px)
        /\ lots < exec.qty => lots + 1 \notin Fitting(exec, s, px)
    BY <1>7, <2>1, LargestFitTight
  <2>3. got = lots
    BY <1>14, <1>15, <2>2
  <2>4. got + 1 \in 1 .. exec.qty /\ got + 1 \notin Fitting(exec, s, px)
    BY <2>1, <2>2, <2>3
  <2> QED
    BY <1>6, <2>4
<1> QED
  BY <1>13, <1>15

(* The clip to the margin of the whole account leaves out no contract: of  *)
(* what the leverage allows, one contract more than was filled would not   *)
(* have been carried.  It holds for every covariance, also where margins   *)
(* do not grow with the quantity (clip_to_portfolio_margin).               *)
LEMMA FillsTight ==
  Inv /\ [Next]_vars => [FillIsTight]_vars
<1>1. ASSUME Inv, [Next]_vars,
             ExecuteOrder, Head(queue).derived, Head(queue).action \in K!Entries,
             K!AbsVal(filled'[Head(queue).asset] - filled[Head(queue).asset])
               < Levered(Head(queue)).qty
      PROVE  ~Carries(Head(queue),
                K!AbsVal(filled'[Head(queue).asset] - filled[Head(queue).asset]) + 1)
  <2> DEFINE d == Head(queue)
             out == Outcome(d)
             ok == out.answer.status = "FILLED"
             qty == IF ok THEN FilledQty(out.d, filled[d.asset]) ELSE 0
             got == IF ok THEN out.d.qty ELSE 0
  <2>1. TypeOK /\ stage = "orders" /\ d \in Decisions /\ filled \in [Asset -> Int]
    BY <1>1 DEF ExecuteOrder, Inv, TypeOK
  <2>2. filled' = [filled EXCEPT ![d.asset] = @ + qty]
    BY <1>1 DEF ExecuteOrder
  <2>3. out.d \in Decisions /\ out.d.action = d.action
    BY <2>1, OutcomeAnswers
  <2>4. got < Levered(d).qty => ~Carries(d, got + 1)
    BY <1>1, <2>1, OutcomeTight
  <2> HIDE DEF d, out
  <2>5. K!AbsVal(qty) = got /\ qty \in Int
    <3>1. d.action \in K!Entries
      BY <1>1 DEF d
    <3>2. out.d.dir \in {-1, 1} /\ out.d.qty \in Nat
      BY <2>3, <3>1 DEF Decisions
    <3>3. FilledQty(out.d, filled[d.asset]) = out.d.dir * out.d.qty
      BY <2>3, <3>1 DEF FilledQty
    <3> QED
      BY <3>2, <3>3 DEF K!AbsVal
  <2>6. d.asset \in Asset
    BY <2>1 DEF Decisions
  <2> HIDE DEF qty, got
  <2>7. filled'[d.asset] - filled[d.asset] = qty
    BY <2>1, <2>2, <2>5, <2>6
  <2> QED
    BY <1>1, <2>4, <2>5, <2>7 DEF d
<1> QED
  BY <1>1 DEF FillIsTight

(* The clip to the margin of the whole account, for every covariance and   *)
(* leverage: what is filled is covered, and what a target's entry leaves   *)
(* out begins with a contract that would not have been                     *)
(* (clip_to_portfolio_margin).                                             *)
THEOREM PortfolioClip ==
  Spec => FillsAreClipped
<1>1. Inv /\ [Next]_vars => [FillIsCovered /\ FillIsTight]_vars
  BY FillsCovered, FillsTight
<1> QED
  BY <1>1, Invariance, PTL DEF Spec, FillsAreClipped

(* Where every part of what the account can carry can be carried too, the  *)
(* clip is the largest quantity that can (clip_to_portfolio_margin).       *)
THEOREM MonotoneClip ==
  ASSUME NEW d, NEW s, NEW px, d.qty \in Nat \ {0},
         \A k \in Fitting(d, s, px) : 1 .. k \subseteq Fitting(d, s, px)
  PROVE  /\ Clipped(d, s, px) \in {0} \cup Fitting(d, s, px)
         /\ \A k \in Fitting(d, s, px) : k <= Clipped(d, s, px)
<1> DEFINE fits == Fitting(d, s, px)
           f == CHOOSE f : IsSearch(f, fits, 1, d.qty)
<1>1. fits \subseteq 1 .. d.qty
  BY DEF Fitting
<1>2. Clipped(d, s, px) = f[<<1, d.qty>>]
  BY DEF Clipped, K!LargestFit, IsSearch
<1> HIDE DEF fits
<1>3. IsSearch(f, fits, 1, d.qty)
  BY SearchExists
<1> HIDE DEF f
<1>4. f[<<1, d.qty>>] = 0 \/ f[<<1, d.qty>>] \in fits \cap (1 .. d.qty)
  BY <1>3, SearchFits
<1>5. \A k \in fits \cap (1 .. d.qty) : \A j \in 1 .. k : j \in fits
  BY DEF fits
<1>6. \A k \in fits \cap (1 .. d.qty) : k <= f[<<1, d.qty>>]
  <2>1. 1 \in Nat \ {0} /\ d.qty \in Int /\ 1 <= d.qty
    OBVIOUS
  <2> QED
    BY ONLY <2>1, <1>3, <1>5, SearchIsLargest, Zenon
<1> QED
  BY <1>1, <1>2, <1>4, <1>6 DEF fits

-----------------------------------------------------------------------------
(* The signed units held, and what was paid for them.                      *)
Held(p) == p.dir * p.qty

Cost(p) == IF Held(p) = 0 THEN 0 ELSE p.avg * Held(p)

LEMMA Direction ==
  ASSUME NEW dir \in {-1, 0, 1}, NEW q \in Nat, NEW x \in Int
  PROVE  /\ dir = 1 => dir * q = q /\ x * (dir * q) = x * q
         /\ dir = -1 => dir * q = -q /\ x * (dir * q) = -(x * q)
         /\ dir = 0 => dir * q = 0 /\ x * (dir * q) = 0
         /\ x * q \in Int /\ dir * q \in Int
<1>1. x * q \in Int /\ x * (-q) = -(x * q)
  OBVIOUS
<1> QED
  BY <1>1

LEMMA Distributes ==
  ASSUME NEW x \in Int, NEW y \in Int, NEW z \in Int
  PROVE  /\ x * (y - z) = x * y - x * z /\ x * (y + z) = x * y + x * z
         /\ (y - z) * x = x * y - x * z /\ (y + z) * x = x * y + x * z
         /\ x * y \in Int /\ x * z \in Int /\ x * y = y * x
OBVIOUS

LEMMA Associates ==
  ASSUME NEW x \in Int, NEW y \in Int, NEW z \in Int
  PROVE  x * y * z = x * (y * z)
OBVIOUS

LEMMA CostInt ==
  ASSUME NEW p, p.dir \in {-1, 0, 1}, p.qty \in Nat, p.avg \in Int \cup {NA}, HasPrice(p)
  PROVE  Cost(p) \in Int /\ Held(p) \in Int
<1>1. Held(p) \in Int
  BY DEF Held
<1>2. CASE Held(p) = 0
  BY <1>1, <1>2 DEF Cost
<1>3. CASE Held(p) # 0
  <2>1. p.avg \in Int
    BY <1>3 DEF Held, HasPrice
  <2> QED
    BY <1>1, <1>3, <2>1, Products DEF Cost
<1> QED
  BY <1>2, <1>3

(* The quotient of an average is short by less than the divisor.           *)
LEMMA Truncation ==
  ASSUME NEW x \in Int, NEW y \in Nat, y # 0
  PROVE  /\ x \div y \in Int /\ (x \div y) * y \in Int
         /\ 0 <= x - (x \div y) * y /\ x - (x \div y) * y < y
<1>1. x \div y \in Int /\ x = y * (x \div y) + (x % y) /\ x % y \in 0 .. y - 1
  OBVIOUS
<1> DEFINE m == x \div y
           r == x % y
<1>2. m \in Int /\ x = y * m + r /\ r \in 0 .. y - 1
  BY <1>1
<1> HIDE DEF m, r
<1>3. y * m = m * y /\ m * y \in Int
  BY <1>2
<1>4. m * y \in Int /\ 0 <= x - m * y /\ x - m * y < y
  BY <1>2, <1>3
<1> QED
  BY <1>2, <1>4 DEF m

(* What a fill pays is what it reports and the change of the cost of the   *)
(* position: exactly, or up to the truncation of an increase.              *)
LEMMA FillIsExplained ==
  ASSUME NEW s \in States, NEW d \in Decisions, NEW px \in Int, HasPrice(s), PlannedFor(d, s),
         K!Trade(s, d, px).status = "FILLED"
  PROVE  LET t == K!Trade(s, d, px)
             q == FilledQty(d, Held(s))
         IN  /\ Held(t) = Held(s) + q
             /\ \E e \in Int :
                  /\ t.cash + Den * px * q + t.fee - Cost(t) = s.cash - Cost(s) + e
                  /\ IF d.action = "INCREASE" THEN -t.qty <= e /\ e <= t.qty ELSE e = 0
<1> DEFINE t        == K!Trade(s, d, px)
           q        == FilledQty(d, Held(s))
           fee      == K!FeeRate(d.type) * d.qty * px
           realized == d.qty * (Den * px - s.avg) * s.dir
           units    == s.qty + d.qty
           sum      == s.qty * s.avg + d.qty * Den * px
           D        == Den * px
           Within(e) == IF d.action = "INCREASE" THEN -t.qty <= e /\ e <= t.qty ELSE e = 0
           Explained(e) == t.cash + D * q + t.fee - Cost(t) = s.cash - Cost(s) + e
<1> SUFFICES Held(t) = Held(s) + q /\ \E e \in Int : Explained(e) /\ Within(e)
  OBVIOUS
<1>1. /\ s.cash \in Int /\ s.dir \in {-1, 0, 1} /\ s.qty \in Nat /\ s.avg \in Int \cup {NA}
      /\ d.qty \in Nat /\ d.dir \in {-1, 0, 1} /\ d.action \in {"OPEN", "INCREASE", "CLOSE", "REDUCE"}
      /\ d.action \in {"OPEN", "INCREASE"} => d.dir # 0
  BY DEF States, Decisions, K!Entries, K!Exits
<1>2. D \in Int /\ fee \in Int
  <2>1. K!FeeRate(d.type) \in Int /\ Den \in Int
    BY FeeRates, Rates
  <2>2. K!FeeRate(d.type) * d.qty \in Int
    BY <1>1, <2>1, Products
  <2> QED
    BY <2>1, <2>2, Products
<1>3. \/ /\ d.action \in {"OPEN", "INCREASE"} /\ t.fee = fee /\ t.cash = s.cash - fee
         /\ t.dir = d.dir
         /\ t.qty = IF d.action = "OPEN" THEN d.qty ELSE units
         /\ t.avg = IF d.action = "OPEN" THEN D
                    ELSE IF s.avg = NA \/ units = 0 THEN NA ELSE sum \div units
      \/ /\ d.action \in {"CLOSE", "REDUCE"} /\ s.avg # NA /\ K!HasPos(s)
         /\ d.action = "REDUCE" => ~(d.qty > s.qty)
         /\ t.fee = fee /\ t.cash = s.cash - fee + realized
         /\ t.dir = IF d.action = "CLOSE" THEN 0 ELSE d.dir
         /\ t.qty = IF d.action = "CLOSE" THEN 0 ELSE s.qty - d.qty
         /\ t.avg = IF d.action = "CLOSE" THEN NA ELSE s.avg
  BY <1>1, TradeCases
<1>4. /\ q = IF d.action \in {"OPEN", "INCREASE"} THEN d.dir * d.qty
             ELSE -K!Sign(Held(s)) * d.qty
  BY DEF FilledQty, K!Entries
<1>5. PlannedFor(d, s) /\ HasPrice(s)
  OBVIOUS
<1> HIDE DEF t, q, fee, D
<1>6. CASE d.action = "OPEN"
  <2>1. Held(s) = 0 /\ Cost(s) = 0
    BY <1>5, <1>6 DEF PlannedFor, Held, Cost
  <2>2. /\ t.dir = d.dir /\ t.qty = d.qty /\ t.avg = D /\ t.fee = fee /\ t.cash = s.cash - fee
        /\ q = d.dir * d.qty
    BY <1>3, <1>4, <1>6
  <2>3. q \in Int /\ Held(t) = q
    BY <1>1, <2>2, Products DEF Held
  <2>4. Cost(t) = D * q
    BY <1>2, <2>2, <2>3 DEF Cost
  <2>5. D * q \in Int
    BY <1>2, <2>3
  <2>6. Explained(0)
    BY <1>1, <1>2, <2>1, <2>2, <2>4, <2>5
  <2>7. Within(0)
    BY <1>6
  <2> QED
    BY <2>1, <2>3, <2>6, <2>7
<1>7. CASE d.action = "INCREASE"
  <2> DEFINE avg == s.avg
             mean == sum \div units
  <2>1. s.dir = d.dir /\ s.qty # 0 /\ s.dir \in {-1, 1}
    BY <1>1, <1>5, <1>7 DEF PlannedFor
  <2>2. Held(s) = s.dir * s.qty /\ Held(s) # 0 /\ avg \in Int /\ avg # NA
    <3>1. Held(s) = s.dir * s.qty /\ Held(s) # 0
      BY <1>1, <2>1, Direction DEF Held
    <3> QED
      BY <1>1, <1>5, <3>1 DEF Held, HasPrice
  <2>3. units \in Nat /\ units # 0 /\ units = s.qty + d.qty
    BY <1>1, <2>1
  <2>4. /\ t.dir = s.dir /\ t.qty = units /\ t.avg = mean /\ t.fee = fee /\ t.cash = s.cash - fee
        /\ q = s.dir * d.qty
    BY <1>3, <1>4, <1>7, <2>1, <2>2, <2>3
  <2>5. /\ sum = s.qty * avg + d.qty * D /\ s.qty * avg \in Int /\ d.qty * D \in Int /\ sum \in Int
    <3>1. d.qty * Den * px = d.qty * (Den * px)
      <4>1. d.qty \in Int /\ Den \in Int
        BY <1>1, Rates
      <4> QED
        BY <4>1, Associates
    <3>2. sum = s.qty * avg + d.qty * D
      BY <3>1 DEF D
    <3>3. s.qty * avg \in Int /\ d.qty * D \in Int
      BY <1>1, <1>2, <2>2, Products
    <3> HIDE DEF sum, avg
    <3> QED
      BY <3>2, <3>3
  <2> HIDE DEF units, sum
  <2>6. /\ mean \in Int /\ mean * units \in Int
        /\ 0 <= sum - mean * units /\ sum - mean * units < units
    BY <2>3, <2>5, Truncation
  <2> HIDE DEF mean, avg
  <2>7. /\ Held(t) = s.dir * units /\ Held(t) # 0 /\ Held(t) = Held(s) + q
        /\ Cost(t) = mean * Held(t) /\ Cost(s) = avg * Held(s)
    <3>1. Held(t) = s.dir * units
      BY <2>4 DEF Held
    <3>2. s.dir * units = s.dir * s.qty + s.dir * d.qty /\ s.dir * units # 0
      BY <1>1, <2>1, <2>3
    <3> QED
      BY <2>2, <2>4, <3>1, <3>2 DEF Cost, avg
  <2> DEFINE r == sum - mean * units
             e == IF s.dir = 1 THEN r ELSE -r
  <2>8. avg * s.qty = s.qty * avg /\ D * d.qty = d.qty * D
    BY <1>1, <1>2, <2>2
  <2>9. Explained(e)
    <3>1. CASE s.dir = 1
      <4>1. Cost(t) = mean * units /\ Cost(s) = s.qty * avg /\ D * q = d.qty * D
        BY <1>1, <2>2, <2>3, <2>4, <2>7, <2>8, <3>1
      <4> HIDE DEF fee
      <4> QED
        BY <1>1, <1>2, <2>4, <2>5, <2>6, <3>1, <4>1
    <3>2. CASE s.dir = -1
      <4>1. /\ Held(t) = -units /\ Held(s) = -s.qty /\ q = -d.qty
        BY <1>1, <2>2, <2>3, <2>4, <2>7, <3>2
      <4>2. Cost(t) = -(mean * units) /\ Cost(s) = -(s.qty * avg) /\ D * q = -(d.qty * D)
        BY <1>1, <1>2, <2>2, <2>3, <2>6, <2>7, <2>8, <4>1
      <4> QED
        BY <1>1, <1>2, <2>4, <2>5, <2>6, <3>2, <4>2
    <3> QED
      BY <2>1, <3>1, <3>2
  <2>10. e \in Int /\ -units <= e /\ e <= units
    BY <2>3, <2>5, <2>6
  <2>11. Within(e)
    BY <1>7, <2>4, <2>10
  <2> QED
    BY <2>7, <2>9, <2>10, <2>11
<1>8. CASE d.action \in {"CLOSE", "REDUCE"}
  <2> DEFINE avg == s.avg
             left == IF d.action = "CLOSE" THEN 0 ELSE s.qty - d.qty
  <2>1. s.dir \in {-1, 1} /\ s.qty # 0 /\ avg \in Int /\ avg # NA
    BY <1>1, <1>3, <1>8 DEF K!HasPos, K!Units
  <2>2. /\ left \in Nat /\ left = s.qty - d.qty
    BY <1>1, <1>3, <1>5, <1>8 DEF PlannedFor
  <2>3. /\ t.fee = fee /\ t.cash = s.cash - fee + realized /\ t.qty = left
        /\ left # 0 => t.dir = s.dir /\ t.avg = avg
    <3>1. d.action = "REDUCE" => d.dir = s.dir
      BY <1>5 DEF PlannedFor
    <3> QED
      BY <1>3, <1>8, <3>1
  <2>4. /\ Held(s) = s.dir * s.qty /\ Held(s) # 0 /\ q = -(s.dir * d.qty)
    <3>1. Held(s) = s.dir * s.qty /\ Held(s) # 0
      BY <1>1, <2>1, Direction DEF Held
    <3>2. K!Sign(Held(s)) = s.dir
      BY <1>1, <2>1, <3>1, Direction DEF K!Sign
    <3>3. q = -(s.dir * d.qty)
      BY <1>4, <1>8, <3>2
    <3> QED
      BY <3>1, <3>3
  <2>5. /\ realized = s.dir * (d.qty * D) - s.dir * (d.qty * avg)
        /\ d.qty * D \in Int /\ d.qty * avg \in Int
    <3>1. d.qty * (D - avg) = d.qty * D - d.qty * avg /\ d.qty * D \in Int /\ d.qty * avg \in Int
      BY <1>1, <1>2, <2>1, Distributes
    <3>2. realized = (d.qty * D - d.qty * avg) * s.dir
      BY <3>1 DEF D
    <3> QED
      BY <1>1, <3>1, <3>2, Distributes
  <2> HIDE DEF left, avg, realized
  <2>6. /\ Cost(s) = avg * (s.dir * s.qty) /\ Held(t) = s.dir * left /\ Cost(t) = avg * (s.dir * left)
    <3>1. Cost(s) = avg * (s.dir * s.qty)
      BY <2>4 DEF Cost, avg
    <3>2. CASE left = 0
      <4>1. t.qty = 0 /\ t.dir \in {-1, 0, 1}
        BY <1>1, <1>3, <1>8, <2>3, <3>2
      <4>2. Held(t) = 0 /\ s.dir * left = 0 /\ avg * 0 = 0
        BY <1>1, <2>1, <3>2, <4>1 DEF Held
      <4> QED
        BY <3>1, <3>2, <4>2 DEF Cost
    <3>3. CASE left # 0
      <4>1. Held(t) = s.dir * left /\ Held(t) # 0
        BY <1>1, <2>1, <2>2, <2>3, <3>3, Direction DEF Held
      <4> QED
        BY <2>3, <3>1, <3>3, <4>1 DEF Cost
    <3> QED
      BY <3>2, <3>3
  <2>7. avg * s.qty = s.qty * avg /\ avg * left = avg * s.qty - d.qty * avg /\ D * d.qty = d.qty * D
        /\ avg * s.qty \in Int
    BY <1>1, <1>2, <2>1, <2>2, Distributes
  <2>8. Held(t) = Held(s) + q
    <3>1. s.dir * left = s.dir * s.qty - s.dir * d.qty
      BY <1>1, <2>2, Distributes
    <3> QED
      BY <1>1, <2>4, <2>6, <3>1, Direction
  <2>9. Explained(0)
    <3>1. CASE s.dir = 1
      <4>1. Cost(t) = avg * left /\ Cost(s) = avg * s.qty /\ D * q = -(d.qty * D)
            /\ realized = d.qty * D - d.qty * avg
        <5>1. q = -d.qty /\ D * (-d.qty) = -(D * d.qty)
          BY <1>1, <1>2, <2>4, <3>1
        <5> QED
          BY <1>1, <1>2, <2>1, <2>2, <2>5, <2>6, <2>7, <3>1, <5>1, Direction
      <4> QED
        BY <1>1, <1>2, <2>3, <2>5, <2>7, <4>1
    <3>2. CASE s.dir = -1
      <4>1. Cost(t) = -(avg * left) /\ Cost(s) = -(avg * s.qty) /\ D * q = d.qty * D
            /\ realized = -(d.qty * D) + d.qty * avg
        BY <1>1, <1>2, <2>1, <2>2, <2>4, <2>5, <2>6, <2>7, <3>2, Direction
      <4> QED
        BY <1>1, <1>2, <2>3, <2>5, <2>7, <4>1
    <3> QED
      BY <2>1, <3>1, <3>2
  <2>10. Within(0)
    BY <1>8
  <2> QED
    BY <2>8, <2>9, <2>10
<1> QED
  BY <1>1, <1>6, <1>7, <1>8

-----------------------------------------------------------------------------
(* The sums of the valuation. *)

LEMMA AssetsFinite == IsFiniteSet(Asset)
BY FS_Interval, Rates DEF Asset

LEMMA UnrealizedIs ==
  ASSUME NEW p, NEW c, \A a \in Asset : K!Unrealized(State(p, a, c), p[a].last) \in Int
  PROVE  MapThenSumSet(LAMBDA a : K!Unrealized(State(p, a, c), p[a].last), Asset)
           = Sum([a \in Asset |-> K!Unrealized(State(p, a, c), p[a].last)], Asset)
<1> DEFINE F == [a \in Asset |-> K!Unrealized(State(p, a, c), p[a].last)]
           Eq(h) == h = [s \in SUBSET Asset |->
                          IF s = {} THEN 0
                          ELSE K!Unrealized(State(p, (CHOOSE x \in s : TRUE), c), p[(CHOOSE x \in s : TRUE)].last)
                               + h[s \ {CHOOSE x \in s : TRUE}]]
           h == CHOOSE h : Eq(h)
<1>1. \A s \in SUBSET Asset : s # {} => (CHOOSE x \in s : TRUE) \in Asset
  OBVIOUS
<1>2. \A x \in Asset : F[x] = K!Unrealized(State(p, x, c), p[x].last) /\ F[x] \in Int
  OBVIOUS
<1>3. MapThenSumSet(LAMBDA a : K!Unrealized(State(p, a, c), p[a].last), Asset) = h[Asset]
  BY DEF MapThenSumSet, MapThenFoldSet
<1> HIDE DEF F
<1>4. PICK g : IsSum(g, F, Asset)
  BY <1>2, AssetsFinite, SumExists
<1>5. Eq(g)
  BY <1>1, <1>2, <1>4 DEF IsSum, AnyOf
<1>6. Eq(h)
  BY <1>5
<1> HIDE DEF h
<1>7. IsSum(h, F, Asset)
  BY <1>1, <1>2, <1>6 DEF IsSum, AnyOf
<1>8. Sum(F, Asset) = h[Asset]
  BY <1>7, AssetsFinite, SumIs
<1> QED
  BY <1>3, <1>8 DEF F

LEMMA WorthIs ==
  ASSUME \A a \in Asset : Den * filled[a] * pos[a].last \in Int
  PROVE  MapThenSumSet(LAMBDA a : Den * filled[a] * pos[a].last, Asset)
           = Sum([a \in Asset |-> Den * filled[a] * pos[a].last], Asset)
<1> DEFINE F == [a \in Asset |-> Den * filled[a] * pos[a].last]
           Eq(h) == h = [s \in SUBSET Asset |->
                          IF s = {} THEN 0
                          ELSE Den * filled[(CHOOSE x \in s : TRUE)] * pos[(CHOOSE x \in s : TRUE)].last
                               + h[s \ {CHOOSE x \in s : TRUE}]]
           h == CHOOSE h : Eq(h)
<1>1. \A s \in SUBSET Asset : s # {} => (CHOOSE x \in s : TRUE) \in Asset
  OBVIOUS
<1>2. \A x \in Asset : F[x] = Den * filled[x] * pos[x].last /\ F[x] \in Int
  OBVIOUS
<1>3. MapThenSumSet(LAMBDA a : Den * filled[a] * pos[a].last, Asset) = h[Asset]
  BY DEF MapThenSumSet, MapThenFoldSet
<1> HIDE DEF F
<1>4. PICK g : IsSum(g, F, Asset)
  BY <1>2, AssetsFinite, SumExists
<1>5. Eq(g)
  BY <1>1, <1>2, <1>4 DEF IsSum, AnyOf
<1>6. Eq(h)
  BY <1>5
<1> HIDE DEF h
<1>7. IsSum(h, F, Asset)
  BY <1>1, <1>2, <1>6 DEF IsSum, AnyOf
<1>8. Sum(F, Asset) = h[Asset]
  BY <1>7, AssetsFinite, SumIs
<1> QED
  BY <1>3, <1>8 DEF F


-----------------------------------------------------------------------------
(* The inductive invariant of the value: the recorded quantities are those *)
(* held, and the cash, the recorded flow and what the positions cost give  *)
(* the starting cash, up to what was rounded.                              *)

Unexplained == cash + flow - InitCash - Sum([a \in Asset |-> Cost(pos[a])], Asset)

Explained ==
  lost = "nothing" =>
    /\ \A a \in Asset : filled[a] = Held(pos[a])
    /\ -rounded <= Unexplained /\ Unexplained <= rounded

ValueInv == Inv /\ Explained

LEMMA Positions ==
  ASSUME TypeOK, NEW a \in Asset
  PROVE  /\ pos[a].dir \in {-1, 0, 1} /\ pos[a].qty \in Nat /\ pos[a].avg \in Int \cup {NA}
         /\ pos[a].last \in Int /\ Held(pos[a]) \in Int
         /\ lost = "nothing" => HasPrice(pos[a]) /\ Cost(pos[a]) \in Int
<1>1. /\ pos[a].dir \in {-1, 0, 1} /\ pos[a].qty \in Nat /\ pos[a].avg \in Int \cup {NA}
      /\ pos[a].last \in Int
  BY DEF TypeOK
<1>2. Held(pos[a]) \in Int
  BY <1>1 DEF Held
<1>3. lost = "nothing" => HasPrice(pos[a])
  BY DEF TypeOK, HeldHasPrice, HasPrice
<1> QED
  BY <1>1, <1>2, <1>3, CostInt

(* The open profit of a position, its cost and its worth. *)
LEMMA OpenProfit ==
  ASSUME NEW p, p.dir \in {-1, 0, 1}, p.qty \in Nat, p.avg \in Int \cup {NA}, p.last \in Int,
         HasPrice(p), NEW s, s.dir = p.dir, s.qty = p.qty, s.avg = p.avg
  PROVE  /\ K!Unrealized(s, p.last) \in Int /\ Den * Held(p) * p.last \in Int
         /\ K!Unrealized(s, p.last) + Cost(p) = Den * Held(p) * p.last
<1> DEFINE h == Held(p)
           x == p.last
           v == K!Unrealized(s, x)
           D == Den
<1>1. h \in Int /\ x \in Int /\ D \in Int
  BY CostInt, Rates
<1>2. v = IF h # 0 /\ p.avg # NA THEN (D * x - p.avg) * h ELSE 0
  BY DEF K!Unrealized, K!HasPos, K!Units, Held
<1>3. Cost(p) = IF h = 0 THEN 0 ELSE p.avg * h
  BY DEF Cost
<1>4. h # 0 => p.avg # NA /\ p.avg \in Int
  BY DEF Held, HasPrice
<1> SUFFICES v \in Int /\ D * h * x \in Int /\ v + Cost(p) = D * h * x
  OBVIOUS
<1> HIDE DEF h, x, v, D
<1>5. CASE h = 0
  <2>1. D * h * x = 0
    BY <1>1, <1>5
  <2> QED
    BY <1>2, <1>3, <1>5, <2>1
<1>6. CASE h # 0
  <2> DEFINE g == p.avg
             y == D * x
  <2>1. g \in Int /\ y \in Int
    BY <1>1, <1>4, <1>6, Products
  <2>2. v = (y - g) * h /\ Cost(p) = g * h
    BY <1>2, <1>3, <1>4, <1>6
  <2>3. D * h * x = y * h
    <3>1. D * h * x = D * (h * x) /\ D * x * h = D * (x * h)
      BY <1>1, Associates
    <3>2. h * x = x * h
      BY <1>1, Distributes
    <3> QED
      BY <3>1, <3>2
  <2> HIDE DEF g, y
  <2>4. (y - g) * h = y * h - g * h /\ y * h \in Int /\ g * h \in Int
    <3>1. (y - g) * h = h * y - h * g /\ h * y = y * h /\ h * g = g * h /\ h * y \in Int /\ h * g \in Int
      BY <1>1, <2>1, Distributes
    <3> QED
      BY <3>1
  <2> QED
    BY <2>2, <2>3, <2>4
<1> QED
  BY <1>5, <1>6

LEMMA ExplainedIsEquity ==
  ASSUME ValueInv
  PROVE  EquityIsExplained
<1> SUFFICES ASSUME lost = "nothing"
             PROVE  K!AbsVal(PortfolioEquity(pos, cash)
                               - (InitCash
                                    + MapThenSumSet(LAMBDA a : Den * filled[a] * pos[a].last, Asset)
                                    - flow)) <= rounded
  BY DEF EquityIsExplained
<1> DEFINE open == [a \in Asset |-> K!Unrealized(State(pos, a, cash), pos[a].last)]
           cost == [a \in Asset |-> Cost(pos[a])]
           worth == [a \in Asset |-> Den * filled[a] * pos[a].last]
<1>1. \A a \in Asset : filled[a] = Held(pos[a])
  BY DEF ValueInv, Explained
<1>2. ASSUME NEW a \in Asset
      PROVE  /\ K!Unrealized(State(pos, a, cash), pos[a].last) \in Int
             /\ Cost(pos[a]) \in Int /\ Den * filled[a] * pos[a].last \in Int
             /\ K!Unrealized(State(pos, a, cash), pos[a].last) + Cost(pos[a])
                  = Den * filled[a] * pos[a].last
  <2> DEFINE p == pos[a]
             s == State(pos, a, cash)
  <2>1. /\ p.dir \in {-1, 0, 1} /\ p.qty \in Nat /\ p.avg \in Int \cup {NA} /\ p.last \in Int
        /\ HasPrice(p) /\ Cost(p) \in Int
    BY Positions DEF ValueInv, Inv
  <2>2. s.dir = p.dir /\ s.qty = p.qty /\ s.avg = p.avg
    BY DEF State
  <2>3. filled[a] = Held(p)
    BY <1>1
  <2> HIDE DEF p, s
  <2>4. /\ K!Unrealized(s, p.last) \in Int /\ Den * Held(p) * p.last \in Int
        /\ K!Unrealized(s, p.last) + Cost(p) = Den * Held(p) * p.last
    BY <2>1, <2>2, OpenProfit
  <2> QED
    BY <2>1, <2>3, <2>4 DEF p, s
<1>3. PortfolioEquity(pos, cash) = cash + Sum(open, Asset)
  BY <1>2, UnrealizedIs DEF PortfolioEquity
<1>4. MapThenSumSet(LAMBDA a : Den * filled[a] * pos[a].last, Asset) = Sum(worth, Asset)
  BY <1>2, WorthIs
<1>5. \A a \in Asset : open[a] \in Int /\ cost[a] \in Int /\ worth[a] = open[a] + cost[a]
  BY <1>2
<1>6. Unexplained = cash + flow - InitCash - Sum(cost, Asset)
  BY DEF Unexplained
<1> HIDE DEF open, cost, worth
<1>7. Sum(worth, Asset) = Sum(open, Asset) + Sum(cost, Asset)
  BY <1>5, SumPlus, AssetsFinite
<1>8. Sum(open, Asset) \in Int /\ Sum(cost, Asset) \in Int
  BY <1>5, SumInt, AssetsFinite
<1>9. /\ cash \in Int /\ flow \in Int /\ InitCash \in Int /\ rounded \in Nat
      /\ -rounded <= Unexplained /\ Unexplained <= rounded
  BY Rates DEF ValueInv, Inv, TypeOK, Explained
<1>10. PortfolioEquity(pos, cash) - (InitCash + Sum(worth, Asset) - flow) = Unexplained
  BY <1>3, <1>6, <1>7, <1>8, <1>9
<1>11. Unexplained \in Int
  BY <1>6, <1>8, <1>9
<1>12. K!AbsVal(Unexplained) <= rounded
  BY <1>9, <1>11 DEF K!AbsVal
<1> QED
  BY <1>4, <1>10, <1>12

-----------------------------------------------------------------------------
(* The steps. *)

(* Marks, and what no event reports. *)
LEMMA ExplainedStays ==
  ASSUME Inv, Inv', Explained, filled' = filled, rounded' = rounded,
         lost' = "nothing" => lost = "nothing" /\ cash' + flow' = cash + flow,
         \A a \in Asset : Held(pos'[a]) = Held(pos[a]) /\ Cost(pos'[a]) = Cost(pos[a])
  PROVE  Explained'
<1> SUFFICES ASSUME lost' = "nothing"
             PROVE  /\ \A a \in Asset : filled'[a] = Held(pos'[a])
                    /\ -rounded' <= Unexplained' /\ Unexplained' <= rounded'
  BY DEF Explained
<1>1. \A a \in Asset : filled'[a] = Held(pos'[a])
  BY DEF Explained
<1> DEFINE F == [a \in Asset |-> Cost(pos[a])]
           G == [a \in Asset |-> Cost(pos'[a])]
<1>2. \A a \in Asset : F[a] \in Int /\ F[a] = G[a]
  BY Positions DEF Inv
<1>3. Unexplained = cash + flow - InitCash - Sum(F, Asset)
      /\ Unexplained' = cash' + flow' - InitCash - Sum(G, Asset)
  BY DEF Unexplained
<1> HIDE DEF F, G
<1>4. Sum(F, Asset) = Sum(G, Asset)
  BY <1>2, SumSame, AssetsFinite
<1>5. /\ Sum(F, Asset) \in Int /\ cash \in Int /\ flow \in Int
      /\ cash' \in Int /\ flow' \in Int /\ InitCash \in Int
  BY <1>2, SumInt, AssetsFinite, Rates DEF Inv, TypeOK
<1>6. cash' + flow' = cash + flow
  OBVIOUS
<1>7. Unexplained' = Unexplained
  <2> DEFINE c == cash'
             f == flow'
             x == Sum(F, Asset)
  <2>1. c \in Int /\ f \in Int /\ x \in Int /\ c + f = cash + flow /\ cash \in Int /\ flow \in Int
        /\ InitCash \in Int
    BY <1>5, <1>6
  <2>2. Unexplained = cash + flow - InitCash - x /\ Unexplained' = c + f - InitCash - x
    BY <1>3, <1>4
  <2> HIDE DEF c, f, x
  <2> QED
    BY <2>1, <2>2
<1> QED
  BY <1>1, <1>7 DEF Explained

LEMMA InitExplained ==
  ASSUME Init
  PROVE  Explained
<1> DEFINE F == [a \in Asset |-> Cost(pos[a])]
<1>1. \A a \in Asset : pos[a] = Flat(0) /\ filled[a] = 0
  BY DEF Init
<1>2. Held(Flat(0)) = 0 /\ Cost(Flat(0)) = 0
  BY DEF Held, Cost, Flat
<1>3. \A a \in Asset : F[a] = 0
  BY <1>1, <1>2
<1>4. Unexplained = cash + flow - InitCash - Sum(F, Asset)
  BY DEF Unexplained
<1> HIDE DEF F
<1>5. Sum(F, Asset) = 0
  BY <1>3, SumZero, AssetsFinite
<1>6. cash = InitCash /\ flow = 0 /\ rounded = 0 /\ InitCash \in Int
  BY Rates DEF Init
<1>7. Unexplained = 0
  BY <1>4, <1>5, <1>6
<1> QED
  BY <1>1, <1>2, <1>6, <1>7 DEF Explained

LEMMA ExecuteExplained ==
  ASSUME ValueInv, Inv', ExecuteOrder
  PROVE  Explained'
<1> SUFFICES ASSUME lost' = "nothing"
             PROVE  /\ \A a \in Asset : filled'[a] = Held(pos'[a])
                    /\ -rounded' <= Unexplained' /\ Unexplained' <= rounded'
  BY DEF Explained
<1> DEFINE d == Head(queue)
           out == Outcome(d)
           t == out.answer
           ok == t.status = "FILLED"
           b == d.asset
           s == State(pos, b, cash)
           paid == Den * out.px
           qty == IF ok THEN FilledQty(out.d, filled[b]) ELSE 0
<1>1. /\ stage = "orders" /\ d \in Decisions
      /\ cash \in Int /\ flow \in Int /\ rounded \in Nat /\ InitCash \in Int
      /\ filled \in [Asset -> Int] /\ DOMAIN pos = Asset
  BY Rates DEF ExecuteOrder, ValueInv, Inv, TypeOK
<1>2. b \in Asset
  BY <1>1 DEF Decisions
<1>3. /\ out.d \in Decisions /\ out.d.asset = b /\ out.px \in Int /\ IsAnswer(t)
      /\ t.cash = cash + t.realized - t.fee
      /\ IF ok THEN t = K!Trade(s, out.d, out.px) ELSE t.fee = 0 /\ t.realized = 0
  BY <1>1, OutcomeAnswers DEF ValueInv, Inv
<1>4. /\ pos' = IF ok THEN After(out.d, t, out.px) ELSE pos
      /\ cash' = t.cash
      /\ filled' = [filled EXCEPT ![b] = @ + qty]
      /\ flow' = flow + paid * qty + t.fee
      /\ rounded' = IF ok /\ out.d.action = "INCREASE" THEN rounded + t.qty ELSE rounded
      /\ lost = "nothing" /\ (ok => PlannedFor(out.d, pos[b]))
  BY DEF ExecuteOrder
<1>5. s \in States /\ s.cash = cash /\ s.dir = pos[b].dir /\ s.qty = pos[b].qty /\ s.avg = pos[b].avg
  BY <1>2, StateType DEF ValueInv, Inv, State
<1>6. /\ HasPrice(s) /\ Held(s) = Held(pos[b]) /\ Cost(s) = Cost(pos[b])
      /\ PlannedFor(out.d, pos[b]) => PlannedFor(out.d, s)
  <2>1. HasPrice(pos[b])
    BY <1>2, <1>4, Positions DEF ValueInv, Inv
  <2> HIDE DEF s
  <2> QED
    BY <1>5, <2>1 DEF HasPrice, Held, Cost, PlannedFor
<1>7. /\ \A a \in Asset : filled[a] = Held(pos[a])
      /\ -rounded <= Unexplained /\ Unexplained <= rounded
  BY <1>4 DEF ValueInv, Explained
<1> DEFINE F == [a \in Asset |-> Cost(pos[a])]
           G == [a \in Asset |-> Cost(pos'[a])]
<1>8. \A a \in Asset : F[a] = Cost(pos[a]) /\ G[a] = Cost(pos'[a]) /\ F[a] \in Int /\ G[a] \in Int
  <2>1. \A a \in Asset : Cost(pos[a]) \in Int
    BY <1>4, Positions DEF ValueInv, Inv
  <2>2. \A a \in Asset : Cost(pos'[a]) \in Int
    <3> SUFFICES ASSUME NEW a \in Asset
                 PROVE  Cost(pos'[a]) \in Int
      OBVIOUS
    <3>1. /\ pos'[a].dir \in {-1, 0, 1} /\ pos'[a].qty \in Nat /\ pos'[a].avg \in Int \cup {NA}
          /\ HasPrice(pos'[a])
      BY DEF Inv, TypeOK, HeldHasPrice, HasPrice
    <3> QED
      BY <3>1, CostInt
  <2> QED
    BY <2>1, <2>2
<1>9. /\ Unexplained = cash + flow - InitCash - Sum(F, Asset)
      /\ Unexplained' = cash' + flow' - InitCash - Sum(G, Asset)
  BY DEF Unexplained
<1>10. After(out.d, t, out.px)
         = [pos EXCEPT ![b] = [dir |-> t.dir, qty |-> t.qty, avg |-> t.avg, last |-> out.px]]
  BY <1>3 DEF After
<1> HIDE DEF d, out, b, s, paid, qty, F, G
<1>11. /\ t.cash \in Int /\ t.fee \in Int /\ t.realized \in Int /\ t.qty \in Nat
  BY <1>3 DEF IsAnswer
<1>12. Sum(F, Asset) \in Int
  BY <1>8, SumInt, AssetsFinite
<1>13. CASE ~ok
  <2>1. qty = 0 /\ paid \in Int /\ paid * qty = 0
    BY <1>3, <1>13, Rates, Products DEF qty, paid
  <2>2. pos' = pos /\ filled' = filled /\ cash' = cash /\ flow' = flow /\ rounded' = rounded
    BY <1>1, <1>2, <1>3, <1>4, <1>11, <1>13, <2>1
  <2>3. \A a \in Asset : F[a] = G[a]
    BY <1>8, <2>2
  <2>4. Sum(F, Asset) = Sum(G, Asset)
    BY <1>8, <2>3, SumSame, AssetsFinite
  <2> QED
    BY <1>7, <1>9, <2>2, <2>4
<1>14. CASE ok
  <2>1. /\ t = K!Trade(s, out.d, out.px) /\ PlannedFor(out.d, s) /\ HasPrice(s)
        /\ qty = FilledQty(out.d, Held(s))
    BY <1>2, <1>3, <1>4, <1>6, <1>7, <1>14 DEF qty
  <2>2. /\ Held(t) = Held(s) + qty
        /\ \E e \in Int :
             /\ t.cash + paid * qty + t.fee - Cost(t) = s.cash - Cost(s) + e
             /\ IF out.d.action = "INCREASE" THEN -t.qty <= e /\ e <= t.qty ELSE e = 0
    BY <1>3, <1>5, <1>14, <2>1, FillIsExplained DEF paid
  <2>3. PICK e \in Int :
          /\ t.cash + paid * qty + t.fee - Cost(t) = s.cash - Cost(s) + e
          /\ IF out.d.action = "INCREASE" THEN -t.qty <= e /\ e <= t.qty ELSE e = 0
    BY <2>2
  <2>4. /\ Held(pos'[b]) = Held(t) /\ Cost(pos'[b]) = Cost(t)
        /\ \A a \in Asset : a # b => pos'[a] = pos[a]
    <3>1. /\ pos'[b] = [dir |-> t.dir, qty |-> t.qty, avg |-> t.avg, last |-> out.px]
          /\ \A a \in Asset : a # b => pos'[a] = pos[a]
      BY <1>1, <1>2, <1>4, <1>10, <1>14
    <3>2. pos'[b].dir = t.dir /\ pos'[b].qty = t.qty /\ pos'[b].avg = t.avg
      BY <3>1
    <3> QED
      BY <3>1, <3>2 DEF Held, Cost
  <2>5. \A a \in Asset : filled'[a] = Held(pos'[a])
    <3>1. filled'[b] = filled[b] + qty /\ \A a \in Asset : a # b => filled'[a] = filled[a]
      BY <1>1, <1>2, <1>4
    <3>2. filled'[b] = Held(pos'[b])
      BY <1>2, <1>6, <1>7, <2>2, <2>4, <3>1
    <3> QED
      BY <1>7, <2>4, <3>1, <3>2
  <2>6. Sum(G, Asset) = Sum(F, Asset) + Cost(t) - Cost(s) /\ Cost(t) \in Int /\ Cost(s) \in Int
    <3>1. \A a \in Asset : F[a] \in Int /\ G[a] \in Int /\ (a # b => F[a] = G[a])
      BY <1>8, <2>4
    <3>2. Sum(G, Asset) = Sum(F, Asset) + G[b] - F[b]
      BY <1>2, <3>1, SumChange, AssetsFinite
    <3> QED
      BY <1>2, <1>6, <1>8, <2>4, <3>2
  <2>7. paid * qty \in Int
    <3>1. filled'[b] \in Int
      BY <1>2 DEF Inv, TypeOK
    <3>2. FilledQty(out.d, Held(s)) \in Int
      <4>1. Held(s) \in Int
        BY <1>5, <1>6, CostInt DEF States
      <4>2. K!Sign(Held(s)) \in Int /\ out.d.dir \in Int /\ out.d.qty \in Int
        BY <1>3, <4>1 DEF K!Sign, Decisions
      <4> QED
        BY <4>2, Products DEF FilledQty
    <3>3. paid \in Int
      BY <1>3, Rates, Products DEF paid
    <3> QED
      BY <2>1, <3>2, <3>3, Products
  <2>8. Unexplained' = Unexplained + e
    BY <1>1, <1>4, <1>5, <1>9, <1>11, <1>12, <2>3, <2>6, <2>7
  <2>9. Unexplained \in Int
    BY <1>1, <1>9, <1>12
  <2>10. rounded' = IF out.d.action = "INCREASE" THEN rounded + t.qty ELSE rounded
    BY <1>4, <1>14
  <2> QED
    BY <1>1, <1>7, <1>11, <2>3, <2>5, <2>8, <2>9, <2>10
<1> QED
  BY <1>13, <1>14

(* Funding is reported where it is taken, unless it empties the balance. *)
LEMMA FundingExplained ==
  ASSUME ValueInv, Inv', ChargeFunding
  PROVE  Explained'
<1> DEFINE s == State(pos, due, cash)
           f == K!Funding(s, IF n = 1 THEN NA ELSE 1)
<1>1. due \in Asset /\ cash \in Int /\ flow \in Int /\ DOMAIN pos = Asset
  BY DueAsset DEF ChargeFunding, ValueInv, Inv, TypeOK
<1>2. s \in States /\ s.cash = cash
  BY <1>1, StateType DEF ValueInv, Inv, State
<1>3. /\ f.fee \in Int /\ f.cash \in Int /\ f.liquidate \in BOOLEAN
      /\ ~f.liquidate => f.cash = cash - f.fee
  BY <1>2, FundingAnswers
<1>4. /\ cash' = f.cash /\ pos' = [pos EXCEPT ![due].last = bars[due].close]
      /\ flow' = flow + f.fee /\ filled' = filled /\ rounded' = rounded
      /\ lost' = IF f.liquidate /\ lost # "all" THEN "cash" ELSE lost
  BY DEF ChargeFunding
<1> HIDE DEF s, f
<1>5. lost' = "nothing" => lost = "nothing" /\ cash' + flow' = cash + flow
  BY <1>1, <1>3, <1>4
<1>6. \A a \in Asset : pos'[a].dir = pos[a].dir /\ pos'[a].qty = pos[a].qty /\ pos'[a].avg = pos[a].avg
  BY <1>1, <1>4
<1>7. \A a \in Asset : Held(pos'[a]) = Held(pos[a]) /\ Cost(pos'[a]) = Cost(pos[a])
  BY <1>6 DEF Held, Cost
<1> QED
  BY <1>4, <1>5, <1>7, ExplainedStays DEF ValueInv

(* A settlement pays the open profit and raises the cost by as much. *)
LEMMA SettleExplained ==
  ASSUME ValueInv, Inv', SettleVariation
  PROVE  Explained'
<1> DEFINE p == pos[due]
           v == K!Unrealized(State(pos, due, cash), p.last)
           settles == settling /\ p.dir * p.qty # 0 /\ p.avg # NA
<1>1. /\ due \in Asset /\ cash \in Int /\ flow \in Int /\ InitCash \in Int /\ rounded \in Nat
      /\ DOMAIN pos = Asset
  BY DueAsset, Rates DEF SettleVariation, ValueInv, Inv, TypeOK
<1>2. /\ cash' = IF settles THEN cash + v ELSE cash
      /\ pos' = IF settles THEN [pos EXCEPT ![due].avg = Den * p.last] ELSE pos
      /\ flow' = flow /\ filled' = filled /\ rounded' = rounded /\ lost' = lost
  BY DEF SettleVariation
<1>3. CASE lost # "nothing"
  BY <1>2, <1>3 DEF Explained
<1>4. CASE ~settles
  <2>1. pos' = pos /\ cash' = cash
    BY <1>2, <1>4
  <2> QED
    BY <1>2, <2>1, ExplainedStays DEF ValueInv
<1>5. CASE settles /\ lost = "nothing"
  <2> DEFINE F == [a \in Asset |-> Cost(pos[a])]
             G == [a \in Asset |-> Cost(pos'[a])]
             x == p.last
             h == Held(p)
  <2>1. /\ p.dir \in {-1, 0, 1} /\ p.qty \in Nat /\ p.avg \in Int \cup {NA} /\ x \in Int
        /\ HasPrice(p) /\ h \in Int
    BY <1>1, <1>5, Positions DEF ValueInv, Inv
  <2>2. v \in Int /\ v + Cost(p) = Den * h * x
    BY <2>1, OpenProfit DEF State
  <2>3. /\ pos' = [pos EXCEPT ![due].avg = Den * x]
        /\ cash' = cash + v /\ h # 0
    BY <1>2, <1>5 DEF Held
  <2>4. \A a \in Asset : a # due => pos'[a] = pos[a]
    BY <2>3
  <2>5. pos'[due].dir = p.dir /\ pos'[due].qty = p.qty /\ pos'[due].avg = Den * x
    BY <1>1, <2>3
  <2>6. \A a \in Asset : Held(pos'[a]) = Held(pos[a])
    BY <2>4, <2>5 DEF Held
  <2>7. Cost(pos'[due]) = Cost(p) + v
    <3>1. Cost(pos'[due]) = Den * x * h
      BY <1>1, <2>3, <2>5, <2>6 DEF Cost
    <3>2. Den * x * h = Den * (x * h) /\ Den * h * x = Den * (h * x) /\ x * h = h * x
      <4>1. Den \in Int /\ x \in Int /\ h \in Int
        BY <2>1, Rates
      <4> HIDE DEF x, h
      <4> QED
        BY <4>1, Associates, Distributes
    <3>3. Cost(p) \in Int
      BY <2>1, CostInt
    <3> HIDE DEF v, x, h, p
    <3> QED
      BY <2>2, <3>1, <3>2, <3>3
  <2>8. \A a \in Asset : /\ F[a] = Cost(pos[a]) /\ F[a] \in Int /\ G[a] \in Int
                         /\ a # due => F[a] = G[a]
    <3>1. \A a \in Asset : Cost(pos[a]) \in Int
      BY <1>5, Positions DEF ValueInv, Inv
    <3>2. Cost(pos'[due]) \in Int
      BY <1>1, <2>2, <2>7, <3>1
    <3> QED
      BY <2>4, <3>1, <3>2
  <2>9. G[due] = F[due] + v
    BY <1>1, <2>7
  <2>10. /\ Unexplained = cash + flow - InitCash - Sum(F, Asset)
         /\ Unexplained' = cash' + flow' - InitCash - Sum(G, Asset)
    BY DEF Unexplained
  <2> HIDE DEF F, G, v, p
  <2>11. Sum(G, Asset) = Sum(F, Asset) + G[due] - F[due]
    BY <1>1, <2>8, SumChange, AssetsFinite
  <2>12. Sum(F, Asset) \in Int
    BY <2>8, SumInt, AssetsFinite
  <2>13. Unexplained' = Unexplained
    BY <1>1, <1>2, <2>2, <2>3, <2>8, <2>9, <2>10, <2>11, <2>12
  <2> QED
    BY <1>2, <1>5, <2>6, <2>13 DEF ValueInv, Explained
<1> QED
  BY <1>3, <1>4, <1>5

LEMMA ValueNext ==
  ASSUME ValueInv, [Next]_vars
  PROVE  ValueInv'
<1>1. Inv'
  BY NextKeeps DEF ValueInv
<1> SUFFICES Explained'
  BY <1>1 DEF ValueInv
<1> DEFINE Keeps == /\ filled' = filled /\ rounded' = rounded /\ lost' = lost
                    /\ cash' = cash /\ flow' = flow
<1>2. ASSUME Keeps, pos' = pos
      PROVE  Explained'
  <2>1. cash' + flow' = cash + flow
    BY <1>2
  <2> QED
    BY <1>1, <1>2, <2>1, ExplainedStays DEF ValueInv
<1>3. CASE \E o \in Orders : PlaceOrder(o)
  BY <1>2, <1>3 DEF PlaceOrder, records
<1>4. CASE \E batch \in Batches : NewBoundary(batch)
  <2>1. PICK batch \in Batches : NewBoundary(batch)
    BY <1>4
  <2>2. Keeps
    BY <2>1 DEF NewBoundary, records
  <2>3. \A a \in Asset :
          IF Held(pos[a]) = 0 THEN pos'[a].qty = 0 /\ pos'[a].dir = 0
          ELSE pos'[a].dir = pos[a].dir /\ pos'[a].qty = pos[a].qty /\ pos'[a].avg = pos[a].avg
    <3> SUFFICES ASSUME NEW a \in Asset
                 PROVE  IF Held(pos[a]) = 0 THEN pos'[a].qty = 0 /\ pos'[a].dir = 0
                        ELSE /\ pos'[a].dir = pos[a].dir /\ pos'[a].qty = pos[a].qty
                             /\ pos'[a].avg = pos[a].avg
      OBVIOUS
    <3>1. pos[a] \in [dir : {-1, 0, 1}, qty : Nat, avg : Int \cup {NA}, last : Int]
      BY DEF ValueInv, Inv, TypeOK
    <3>2. pos'[a] = IF Held(pos[a]) = 0 THEN [Flat(batch[a].close) EXCEPT !.avg = pos[a].avg]
                    ELSE [pos[a] EXCEPT !.last = batch[a].close]
      BY <2>1 DEF NewBoundary, Held
    <3> QED
      BY <3>1, <3>2 DEF Flat
  <2>4. \A a \in Asset : Held(pos'[a]) = Held(pos[a]) /\ Cost(pos'[a]) = Cost(pos[a])
    BY <2>3 DEF Held, Cost
  <2>5. cash' + flow' = cash + flow
    BY <2>2
  <2> QED
    BY <1>1, <2>2, <2>4, <2>5, ExplainedStays DEF ValueInv
<1>5. CASE \E e \in planning : PlanOrder(e)
  BY <1>2, <1>5 DEF PlanOrder, records
<1>6. CASE EndPlan \/ LeavePending \/ EndOrders \/ Survive \/ EndBoundary
  BY <1>2, <1>6 DEF EndPlan, LeavePending, EndOrders, Survive, EndBoundary, records
<1>7. CASE ExecuteOrder
  BY <1>1, <1>7, ExecuteExplained
<1>8. CASE ChargeFunding
  BY <1>1, <1>8, FundingExplained
<1>9. CASE Liquidate
  BY <1>9 DEF Liquidate, Explained
<1>10. CASE SettleVariation
  BY <1>1, <1>10, SettleExplained
<1>11. CASE UNCHANGED vars
  BY <1>2, <1>11 DEF vars
<1> QED
  BY <1>3, <1>4, <1>5, <1>6, <1>7, <1>8, <1>9, <1>10, <1>11 DEF Next

(* The recorded fills and charges explain the equity: what the filled      *)
(* quantities are worth at the marks, less what was paid for them, is the  *)
(* value that the kernel computes from average prices, and only the        *)
(* truncated average of an increase comes between (sim_exchange.R:1406).   *)
THEOREM RecordsExplainEquity ==
  Spec => []EquityIsExplained
<1>1. Init => ValueInv
  BY InitInv, InitExplained DEF ValueInv
<1>2. ValueInv => EquityIsExplained
  BY ExplainedIsEquity
<1> QED
  BY <1>1, <1>2, ValueNext, PTL DEF Spec

-----------------------------------------------------------------------------
(* Covered or empty. *)

LEMMA GrossIs ==
  ASSUME NEW p, \A a \in Asset : K!AbsVal(Exposure(p, a)) \in Int
  PROVE  Gross(p) = Sum([a \in Asset |-> K!AbsVal(Exposure(p, a))], Asset)
<1> DEFINE F == [a \in Asset |-> K!AbsVal(Exposure(p, a))]
           Eq(h) == h = [s \in SUBSET Asset |->
                          IF s = {} THEN 0
                          ELSE K!AbsVal(Exposure(p, (CHOOSE x \in s : TRUE)))
                               + h[s \ {CHOOSE x \in s : TRUE}]]
           h == CHOOSE h : Eq(h)
<1>1. \A s \in SUBSET Asset : s # {} => (CHOOSE x \in s : TRUE) \in Asset
  OBVIOUS
<1>2. \A x \in Asset : F[x] = K!AbsVal(Exposure(p, x)) /\ F[x] \in Int
  OBVIOUS
<1>3. Gross(p) = h[Asset]
  BY DEF Gross, MapThenSumSet, MapThenFoldSet
<1> HIDE DEF F
<1>4. PICK g : IsSum(g, F, Asset)
  BY <1>2, AssetsFinite, SumExists
<1>5. Eq(g)
  BY <1>1, <1>2, <1>4 DEF IsSum, AnyOf
<1>6. Eq(h)
  BY <1>5
<1> HIDE DEF h
<1>7. IsSum(h, F, Asset)
  BY <1>1, <1>2, <1>6 DEF IsSum, AnyOf
<1>8. Sum(F, Asset) = h[Asset]
  BY <1>7, AssetsFinite, SumIs
<1> QED
  BY <1>3, <1>8 DEF F

LEMMA PairsFinite == IsFiniteSet(Asset \X Asset)
BY AssetsFinite, FS_Product

LEMMA VarianceIs ==
  ASSUME NEW p,
         \A e \in Asset \X Asset : Exposure(p, e[1]) * Risk[e[1]][e[2]] * Exposure(p, e[2]) \in Int
  PROVE  Variance(p)
           = Sum([e \in Asset \X Asset |-> Exposure(p, e[1]) * Risk[e[1]][e[2]] * Exposure(p, e[2])],
                 Asset \X Asset)
<1> DEFINE M(x) == Exposure(p, x[1]) * Risk[x[1]][x[2]] * Exposure(p, x[2])
           P == Asset \X Asset
           F == [e \in P |-> M(e)]
           Eq(h) == h = [s \in SUBSET P |->
                          IF s = {} THEN 0
                          ELSE M(CHOOSE x \in s : TRUE) + h[s \ {CHOOSE x \in s : TRUE}]]
           h == CHOOSE h : Eq(h)
<1>1. IsFiniteSet(P)
  BY PairsFinite
<1>2. Variance(p) = h[P]
  BY DEF Variance, MapThenSumSet, MapThenFoldSet
<1>3. \A x \in P : M(x) \in Int
  OBVIOUS
<1> SUFFICES Variance(p) = Sum(F, P)
  OBVIOUS
<1> HIDE DEF M, P
<1>4. \A s \in SUBSET P : s # {} => (CHOOSE x \in s : TRUE) \in P
  OBVIOUS
<1>5. \A x \in P : F[x] = M(x) /\ F[x] \in Int
  BY <1>3
<1> HIDE DEF F
<1>6. PICK g : IsSum(g, F, P)
  BY <1>1, <1>5, SumExists
<1>7. Eq(g)
  BY <1>4, <1>5, <1>6 DEF IsSum, AnyOf
<1>8. Eq(h)
  BY <1>7
<1> HIDE DEF h
<1>9. IsSum(h, F, P)
  BY <1>4, <1>5, <1>8 DEF IsSum, AnyOf
<1>10. Sum(F, P) = h[P]
  BY <1>1, <1>9, SumIs
<1> QED
  BY <1>2, <1>10

(* The margin depends on the exposures and on the equity only. *)
LEMMA SameExposures ==
  ASSUME NEW p, NEW c, NEW q, NEW e, \A a \in Asset : Exposure(p, a) \in Int,
         \A a \in Asset : Exposure(q, a) = Exposure(p, a),
         PortfolioEquity(q, e) = PortfolioEquity(p, c), Covered(p, c)
  PROVE  Covered(q, e)
<1> DEFINE F == [a \in Asset |-> K!AbsVal(Exposure(p, a))]
           G == [a \in Asset |-> K!AbsVal(Exposure(q, a))]
           V == [x \in Asset \X Asset |-> Exposure(p, x[1]) * Risk[x[1]][x[2]] * Exposure(p, x[2])]
           W == [x \in Asset \X Asset |-> Exposure(q, x[1]) * Risk[x[1]][x[2]] * Exposure(q, x[2])]
<1>1. \A a \in Asset : K!AbsVal(Exposure(p, a)) \in Int /\ K!AbsVal(Exposure(q, a)) \in Int
  BY DEF K!AbsVal
<1>2. ASSUME NEW x \in Asset \X Asset
      PROVE  /\ Exposure(p, x[1]) * Risk[x[1]][x[2]] * Exposure(p, x[2]) \in Int
             /\ Exposure(q, x[1]) * Risk[x[1]][x[2]] * Exposure(q, x[2])
                  = Exposure(p, x[1]) * Risk[x[1]][x[2]] * Exposure(p, x[2])
  <2>1. x[1] \in Asset /\ x[2] \in Asset
    OBVIOUS
  <2>2. Risk[x[1]][x[2]] \in Int
    BY <2>1, PortfolioAssumption DEF Asset
  <2>3. Exposure(p, x[1]) \in Int /\ Exposure(p, x[2]) \in Int
    BY <2>1
  <2>4. Exposure(p, x[1]) * Risk[x[1]][x[2]] \in Int
    BY <2>2, <2>3, Products
  <2>5. Exposure(p, x[1]) * Risk[x[1]][x[2]] * Exposure(p, x[2]) \in Int
    BY <2>3, <2>4, Products
  <2>6. Exposure(q, x[1]) = Exposure(p, x[1]) /\ Exposure(q, x[2]) = Exposure(p, x[2])
    BY <2>1
  <2> QED
    BY <2>5, <2>6
<1>3. Gross(p) = Sum(F, Asset) /\ Gross(q) = Sum(G, Asset)
  BY <1>1, GrossIs
<1>4. Variance(p) = Sum(V, Asset \X Asset) /\ Variance(q) = Sum(W, Asset \X Asset)
  BY <1>2, VarianceIs
<1>5. /\ \A a \in Asset : F[a] \in Int /\ F[a] = G[a]
      /\ \A x \in Asset \X Asset : V[x] \in Int /\ V[x] = W[x]
  BY <1>1, <1>2
<1> HIDE DEF F, G, V, W
<1>6. Sum(F, Asset) = Sum(G, Asset)
  BY <1>5, SumSame, AssetsFinite
<1>7. Sum(V, Asset \X Asset) = Sum(W, Asset \X Asset)
  BY <1>5, SumSame, PairsFinite
<1>8. Gross(q) = Gross(p) /\ Variance(q) = Variance(p)
  BY <1>3, <1>4, <1>6, <1>7
<1> QED
  BY <1>8 DEF Covered

(* An account without positions and without debt is covered. *)
LEMMA NothingHeldIsCovered ==
  ASSUME NEW p, NEW c \in Nat, \A a \in Asset : p[a].dir = 0 /\ p[a].qty = 0 /\ p[a].last \in Int
  PROVE  Covered(p, c)
<1> DEFINE F == [a \in Asset |-> K!AbsVal(Exposure(p, a))]
           V == [x \in Asset \X Asset |-> Exposure(p, x[1]) * Risk[x[1]][x[2]] * Exposure(p, x[2])]
           U == [a \in Asset |-> K!Unrealized(State(p, a, c), p[a].last)]
<1>1. \A a \in Asset : Exposure(p, a) = 0 /\ K!AbsVal(Exposure(p, a)) = 0
  BY DEF Exposure, K!AbsVal
<1>2. \A x \in Asset \X Asset : Exposure(p, x[1]) * Risk[x[1]][x[2]] * Exposure(p, x[2]) = 0
  <2> SUFFICES ASSUME NEW x \in Asset \X Asset
               PROVE  Exposure(p, x[1]) * Risk[x[1]][x[2]] * Exposure(p, x[2]) = 0
    OBVIOUS
  <2>1. x[1] \in Asset /\ x[2] \in Asset
    OBVIOUS
  <2>2. Risk[x[1]][x[2]] \in Int
    BY <2>1, PortfolioAssumption DEF Asset
  <2> QED
    BY <1>1, <2>1, <2>2
<1>3. \A a \in Asset : K!Unrealized(State(p, a, c), p[a].last) = 0
  BY DEF K!Unrealized, K!HasPos, K!Units, State
<1>4. /\ Gross(p) = Sum(F, Asset) /\ Variance(p) = Sum(V, Asset \X Asset)
      /\ PortfolioEquity(p, c) = c + Sum(U, Asset)
  <2>1. \A a \in Asset : K!AbsVal(Exposure(p, a)) \in Int
    BY <1>1
  <2>2. \A x \in Asset \X Asset : Exposure(p, x[1]) * Risk[x[1]][x[2]] * Exposure(p, x[2]) \in Int
    BY <1>2
  <2>3. \A a \in Asset : K!Unrealized(State(p, a, c), p[a].last) \in Int
    BY <1>3
  <2>4. Gross(p) = Sum(F, Asset)
    BY <2>1, GrossIs
  <2>5. Variance(p) = Sum(V, Asset \X Asset)
    BY <2>2, VarianceIs
  <2>6. PortfolioEquity(p, c) = c + Sum(U, Asset)
    BY <2>3, UnrealizedIs DEF PortfolioEquity
  <2> QED
    BY <2>4, <2>5, <2>6
<1>5. /\ \A a \in Asset : F[a] = 0 /\ U[a] = 0
      /\ \A x \in Asset \X Asset : V[x] = 0
  BY <1>1, <1>2, <1>3
<1> HIDE DEF F, V, U
<1>6. Sum(F, Asset) = 0 /\ Sum(U, Asset) = 0 /\ Sum(V, Asset \X Asset) = 0
  BY <1>5, SumZero, AssetsFinite, PairsFinite
<1>7. Gross(p) = 0 /\ Variance(p) = 0 /\ PortfolioEquity(p, c) = c
  BY <1>4, <1>6
<1>8. FloorNum * 0 = 0
  BY PortfolioAssumption
<1> QED
  BY <1>7, <1>8 DEF Covered

(* What is needed of the prices: more than a fill can cost in slippage, so *)
(* that no fill is at a price of zero or less.                             *)
PositivePrices ==
  /\ \A a \in Asset : \A bar \in Bars[a] : bar.open > FillCost
  /\ \A o \in Orders : o.type = "LIMIT" => o.px > FillCost

Priced == {d \in Decisions : d.type = "LIMIT" => d.px > FillCost}

(* Covered at the end of a boundary and while it is settled, or empty.     *)
Solid ==
  IF lost = "all" THEN cash = 0 /\ \A a \in Asset : pos[a].qty = 0
  ELSE stage \in {"between", "settle"} => Covered(pos, cash)

SolidInv == Inv /\ queue \in Seq(Priced) /\ Solid

LEMMA EntryPrice ==
  ASSUME PositivePrices, TypeOK, stage = "orders", NEW d \in Priced, d.action \in K!Entries, NEW s
  PROVE  K!FillPrice(d, s, BasePrice(d)) > 0
<1>1. d \in Decisions /\ d.asset \in Asset /\ d.dir \in {-1, 1}
  BY DEF Priced, Decisions
<1>2. BasePrice(d) \in Int /\ BasePrice(d) > FillCost
  <2>1. CASE d.type = "LIMIT"
    BY <2>1 DEF Priced, Decisions, BasePrice
  <2>2. CASE d.type # "LIMIT"
    <3>1. bars \in Batches
      BY DEF TypeOK
    <3>2. bars[d.asset] \in Bars[d.asset]
      BY <1>1, <3>1 DEF Batches
    <3> QED
      BY <1>1, <2>2, <3>1, <3>2, BarPrices DEF PositivePrices, BasePrice
  <2> QED
    BY <2>1, <2>2
<1>3. FillCost \in Nat
  BY Rates
<1>4. K!FillPrice(d, s, BasePrice(d)) = BasePrice(d) + FillCost * d.dir
  BY DEF K!FillPrice
<1>5. FillCost * d.dir \in {FillCost, -FillCost}
  BY <1>1, <1>3
<1> QED
  BY <1>2, <1>3, <1>4, <1>5

(* The margin of an entry at a positive price. *)
LEMMA EntryMargin ==
  ASSUME NEW dir \in {-1, 1}, NEW q \in Nat, NEW px \in Int, px > 0, q # 0
  PROVE  K!InitialMargin(0 + dir * q * px) > 0
<1> DEFINE x == q * px
           m == Den \div Lev
<1>1. x \in Int /\ x > 0
  OBVIOUS
<1>2. dir * q * px = dir * x
  BY Associates
<1>3. m \in Nat \ {0}
  BY Rates
<1>4. K!InitialMargin(0 + dir * q * px) = m * K!AbsVal(0 + dir * x)
  BY <1>2 DEF K!InitialMargin
<1> HIDE DEF x, m
<1>5. K!AbsVal(0 + dir * x) = x
  <2>1. CASE dir = 1
    BY <1>1, <2>1 DEF K!AbsVal
  <2>2. CASE dir = -1
    <3>1. 0 + dir * x = -x
      BY <1>1, <2>2
    <3> QED
      BY <1>1, <3>1 DEF K!AbsVal
  <2> QED
    BY <2>1, <2>2
<1>6. m * x > 0
  BY <1>1, <1>3
<1> QED
  BY <1>4, <1>5, <1>6

(* An account without cash and positions can fill nothing but an order of  *)
(* no size.                                                                *)
LEMMA NothingIsBought ==
  ASSUME NEW s \in States, s.cash = 0, s.qty = 0, NEW d \in Decisions, NEW px \in Int,
         d.action \in K!Entries => px > 0, K!Trade(s, d, px).status = "FILLED"
  PROVE  K!Trade(s, d, px).qty = 0 /\ K!Trade(s, d, px).cash = 0
<1> DEFINE t   == K!Trade(s, d, px)
           fee == K!FeeRate(d.type) * d.qty * px
<1>1. /\ s.dir \in {-1, 0, 1} /\ s.last \in Int /\ d.qty \in Nat /\ d.dir \in {-1, 0, 1}
      /\ d.action \in {"OPEN", "INCREASE", "CLOSE", "REDUCE"}
      /\ d.action \in K!Entries => d.dir \in {-1, 1}
  BY DEF States, Decisions, K!Entries, K!Exits
<1>2. K!Units(s) = 0 /\ ~K!HasPos(s) /\ K!Unrealized(s, px) = 0 /\ K!Notional(s) = 0
  BY <1>1 DEF K!Units, K!HasPos, K!Unrealized, K!Notional
<1>3. /\ d.action \in {"OPEN", "INCREASE"}
      /\ t.cash = s.cash - fee
      /\ t.qty = IF d.action = "OPEN" THEN d.qty ELSE s.qty + d.qty
  BY <1>1, <1>2, TradeCases
<1>4. ~(s.cash + K!Unrealized(s, px) - fee < K!InitialMargin(K!Notional(s) + d.dir * d.qty * px))
  <2>1. ~K!IsLiquidated(s, px)
    BY DEF K!Trade
  <2>2. d.action \in K!Entries
    BY <1>3 DEF K!Entries
  <2> QED
    BY <2>1, <2>2 DEF K!Trade
<1>5. d.dir \in {-1, 1} /\ px > 0
  BY <1>1, <1>3 DEF K!Entries
<1>6. fee \in Nat
  <2> DEFINE rate == K!FeeRate(d.type)
  <2>1. rate \in Nat
    BY FeeRates
  <2> HIDE DEF rate
  <2>2. rate * d.qty \in Nat
    BY <1>1, <2>1
  <2>3. rate * d.qty * px \in Nat
    BY <1>5, <2>2
  <2> QED
    BY <2>3 DEF rate
<1> HIDE DEF t, fee
<1>7. d.qty = 0
  <2> SUFFICES ASSUME d.qty # 0
               PROVE  FALSE
    OBVIOUS
  <2>1. K!InitialMargin(0 + d.dir * d.qty * px) > 0
    BY <1>1, <1>5, EntryMargin
  <2>2. K!InitialMargin(K!Notional(s) + d.dir * d.qty * px) > 0
    BY <1>2, <2>1
  <2> DEFINE m == K!InitialMargin(K!Notional(s) + d.dir * d.qty * px)
  <2>3. m \in Int
    <3>1. d.dir * d.qty \in Int
      BY <1>1, Products
    <3>2. d.dir * d.qty * px \in Int
      BY <3>1, Products
    <3>3. K!AbsVal(0 + d.dir * d.qty * px) \in Int
      BY <3>2 DEF K!AbsVal
    <3> QED
      BY <1>2, <3>3, Rates, Products DEF K!InitialMargin
  <2> HIDE DEF m
  <2>4. ~(0 + 0 - fee < m) /\ m > 0
    BY <1>2, <1>4, <2>2 DEF m
  <2> QED
    BY <1>6, <2>3, <2>4
<1>8. fee = 0
  <2> DEFINE rate == K!FeeRate(d.type)
  <2>1. rate \in Nat
    BY FeeRates
  <2> HIDE DEF rate
  <2>2. rate * d.qty = 0
    BY <1>7, <2>1
  <2>3. rate * d.qty * px = 0
    BY <2>2
  <2> QED
    BY <2>3 DEF rate, fee
<1> QED
  BY <1>3, <1>7, <1>8 DEF t

LEMMA InitSolid ==
  ASSUME Init
  PROVE  SolidInv
<1>1. Inv
  BY InitInv
<1>2. \A a \in Asset : pos[a].dir = 0 /\ pos[a].qty = 0 /\ pos[a].last \in Int
  BY DEF Init, Flat
<1>3. cash \in Nat
  BY PortfolioAssumption DEF Init
<1>4. Covered(pos, cash)
  BY <1>2, <1>3, NothingHeldIsCovered
<1>5. queue \in Seq(Priced) /\ lost # "all"
  BY DEF Init
<1> QED
  BY <1>1, <1>4, <1>5 DEF SolidInv, Solid

(* An emptied account stays empty through its orders. *)
LEMMA ExecuteSolid ==
  ASSUME PositivePrices, SolidInv, ExecuteOrder
  PROVE  Solid'
<1> DEFINE d == Head(queue)
           out == Outcome(d)
           t == out.answer
           ok == t.status = "FILLED"
           s == State(pos, d.asset, cash)
<1>1. stage = "orders" /\ stage' = "orders" /\ d \in Priced /\ d \in Decisions
  BY DEF ExecuteOrder, SolidInv, Priced
<1>2. /\ out.d \in Decisions /\ out.d.asset = d.asset /\ out.d.action = d.action
      /\ out.px = K!FillPrice(d, s, BasePrice(d)) /\ out.px \in Int
      /\ t.cash = cash + t.realized - t.fee
      /\ IF ok THEN t = K!Trade(s, out.d, out.px) ELSE t.fee = 0 /\ t.realized = 0
  BY <1>1, OutcomeAnswers DEF SolidInv, Inv
<1>3. /\ pos' = IF ok THEN After(out.d, t, out.px) ELSE pos
      /\ cash' = t.cash
      /\ lost' = IF ok /\ ~PlannedFor(out.d, pos[d.asset]) /\ lost = "nothing" THEN "count" ELSE lost
  BY DEF ExecuteOrder
<1>4. d.asset \in Asset /\ DOMAIN pos = Asset
  BY <1>1 DEF Decisions, SolidInv, Inv, TypeOK
<1>5. s \in States /\ s.cash = cash /\ s.qty = pos[d.asset].qty
  BY <1>4, StateType DEF SolidInv, Inv, State
<1>6. d.action \in K!Entries => out.px > 0
  BY <1>1, <1>2, EntryPrice DEF SolidInv, Inv
<1> HIDE DEF d, out, s
<1>7. ASSUME lost' = "all"
      PROVE  cash' = 0 /\ \A a \in Asset : pos'[a].qty = 0
  <2>1. lost = "all"
    BY <1>3, <1>7
  <2>2. cash = 0 /\ \A a \in Asset : pos[a].qty = 0
    BY <2>1 DEF SolidInv, Solid
  <2>3. CASE ok
    <3>1. t = K!Trade(s, out.d, out.px) /\ s.cash = 0 /\ s.qty = 0
      BY <1>2, <1>4, <1>5, <2>2, <2>3
    <3>2. t.qty = 0 /\ t.cash = 0
      BY <1>2, <1>5, <1>6, <2>3, <3>1, NothingIsBought
    <3>3. After(out.d, t, out.px)
            = [pos EXCEPT ![d.asset] = [dir |-> t.dir, qty |-> t.qty, avg |-> t.avg, last |-> out.px]]
      BY <1>2 DEF After
    <3> HIDE DEF t
    <3> QED
      BY <1>3, <1>4, <2>2, <2>3, <3>2, <3>3
  <2>4. CASE ~ok
    BY <1>2, <1>3, <2>2, <2>4
  <2> QED
    BY <2>3, <2>4
<1> QED
  BY <1>1, <1>7 DEF Solid

(* Nothing is charged to an emptied account. *)
LEMMA FundingSolid ==
  ASSUME SolidInv, ChargeFunding
  PROVE  Solid'
<1> DEFINE s == State(pos, due, cash)
           f == K!Funding(s, IF n = 1 THEN NA ELSE 1)
<1>1. stage' = "funding" /\ due \in Asset /\ DOMAIN pos = Asset
  BY DueAsset DEF ChargeFunding, SolidInv, Inv, TypeOK
<1>2. /\ cash' = f.cash /\ pos' = [pos EXCEPT ![due].last = bars[due].close]
      /\ lost' = IF f.liquidate /\ lost # "all" THEN "cash" ELSE lost
  BY DEF ChargeFunding
<1>3. ASSUME lost' = "all"
      PROVE  cash' = 0 /\ \A a \in Asset : pos'[a].qty = 0
  <2>1. lost = "all"
    BY <1>2, <1>3
  <2>2. cash = 0 /\ \A a \in Asset : pos[a].qty = 0
    BY <2>1 DEF SolidInv, Solid
  <2>3. s \in States /\ s.cash = 0 /\ s.qty = 0
    BY <1>1, <2>2, StateType DEF SolidInv, Inv, State
  <2>4. K!Notional(s) = 0 /\ K!AbsVal(K!Notional(s)) = 0
    <3>1. s.dir \in Int /\ s.last \in Int
      BY <2>3 DEF States
    <3> HIDE DEF s
    <3> QED
      BY <2>3, <3>1 DEF K!Notional, K!Units, K!AbsVal
  <2> HIDE DEF s
  <2>5. FundNum * 1 * 0 = 0
    BY Rates
  <2>6. f.cash = 0
    BY <2>3, <2>4, <2>5 DEF K!Funding
  <2> HIDE DEF f
  <2> QED
    BY <1>1, <1>2, <2>2, <2>6
<1> QED
  BY <1>1, <1>3 DEF Solid

(* A settlement moves open profit into the cash: neither the equity nor an *)
(* exposure changes.                                                       *)
LEMMA SettleCovered ==
  ASSUME Inv, Inv', SettleVariation, Covered(pos, cash)
  PROVE  Covered(pos', cash')
<1> DEFINE p == pos[due]
           v == K!Unrealized(State(pos, due, cash), p.last)
           settles == settling /\ p.dir * p.qty # 0 /\ p.avg # NA
           F == [a \in Asset |-> K!Unrealized(State(pos, a, cash), pos[a].last)]
           G == [a \in Asset |-> K!Unrealized(State(pos', a, cash'), pos'[a].last)]
<1>1. due \in Asset /\ cash \in Int /\ DOMAIN pos = Asset
  BY DueAsset DEF SettleVariation, Inv, TypeOK
<1>2. /\ cash' = IF settles THEN cash + v ELSE cash
      /\ pos' = IF settles THEN [pos EXCEPT ![due].avg = Den * p.last] ELSE pos
  BY DEF SettleVariation
<1>3. CASE ~settles
  BY <1>2, <1>3
<1>4. CASE settles
  <2>1. /\ cash' = cash + v /\ pos' = [pos EXCEPT ![due].avg = Den * p.last]
    BY <1>2, <1>4
  <2>2. \A a \in Asset : /\ pos'[a].dir = pos[a].dir /\ pos'[a].qty = pos[a].qty
                         /\ pos'[a].last = pos[a].last /\ (a # due => pos'[a].avg = pos[a].avg)
    BY <1>1, <2>1
  <2>3. \A a \in Asset : /\ pos[a].dir \in Int /\ pos[a].qty \in Int /\ pos[a].last \in Int
    BY Positions DEF Inv
  <2>4. \A a \in Asset : Exposure(pos, a) \in Int /\ Exposure(pos', a) = Exposure(pos, a)
    <3> SUFFICES ASSUME NEW a \in Asset
                 PROVE  Exposure(pos, a) \in Int /\ Exposure(pos', a) = Exposure(pos, a)
      OBVIOUS
    <3>1. pos[a].dir * pos[a].qty \in Int
      BY <2>3, Products
    <3>2. pos[a].dir * pos[a].qty * pos[a].last \in Int
      BY <2>3, <3>1, Products
    <3> QED
      BY <2>2, <3>2 DEF Exposure
  <2>5. \A a \in Asset : /\ K!Unrealized(State(pos, a, cash), pos[a].last) \in Int
                         /\ K!Unrealized(State(pos', a, cash'), pos'[a].last) \in Int
    <3> SUFFICES ASSUME NEW a \in Asset
                 PROVE  /\ K!Unrealized(State(pos, a, cash), pos[a].last) \in Int
                        /\ K!Unrealized(State(pos', a, cash'), pos'[a].last) \in Int
      OBVIOUS
    <3>1. State(pos, a, cash) \in States /\ pos[a].last \in Int
      BY <2>3, StateType DEF Inv
    <3>2. State(pos', a, cash') \in States /\ pos'[a].last \in Int
      BY DEF Inv, TypeOK, State, States
    <3> QED
      BY <3>1, <3>2, UnrealizedInt
  <2>6. \A a \in Asset : a # due => F[a] = G[a]
    BY <2>2 DEF K!Unrealized, K!HasPos, K!Units, State
  <2>7. G[due] = 0
    <3>1. pos'[due].avg = Den * p.last /\ pos'[due].last = p.last
      BY <1>1, <2>1
    <3>2. Den * p.last \in Int
      BY <1>1, <2>3, Rates, Products
    <3>3. (Den * p.last - Den * p.last) * (pos'[due].dir * pos'[due].qty) = 0
      <4>1. pos'[due].dir * pos'[due].qty \in Int
        BY <1>1, <2>2, <2>3, Products
      <4> QED
        BY <3>2, <4>1
    <3> QED
      BY <1>1, <3>1, <3>3 DEF K!Unrealized, K!HasPos, K!Units, State
  <2>8. F[due] = v
    BY <1>1
  <2>9. PortfolioEquity(pos, cash) = cash + Sum(F, Asset)
    BY <2>5, UnrealizedIs DEF PortfolioEquity
  <2>10. PortfolioEquity(pos', cash') = cash' + Sum(G, Asset)
    BY <2>5, UnrealizedIs DEF PortfolioEquity
  <2>11. \A a \in Asset : F[a] \in Int /\ G[a] \in Int
    BY <2>5
  <2> HIDE DEF F, G, v, p
  <2>12. Sum(G, Asset) = Sum(F, Asset) + G[due] - F[due]
    BY <1>1, <2>6, <2>11, SumChange, AssetsFinite
  <2>13. Sum(F, Asset) \in Int /\ v \in Int
    BY <1>1, <2>8, <2>11, SumInt, AssetsFinite
  <2>14. PortfolioEquity(pos', cash') = PortfolioEquity(pos, cash)
    BY <1>1, <2>1, <2>7, <2>8, <2>9, <2>10, <2>12, <2>13
  <2> QED
    BY <2>4, <2>14, SameExposures
<1> QED
  BY <1>3, <1>4

LEMMA SettleSolid ==
  ASSUME SolidInv, Inv', SettleVariation
  PROVE  Solid'
<1> DEFINE settles == settling /\ pos[due].dir * pos[due].qty # 0 /\ pos[due].avg # NA
<1>1. lost' = lost /\ stage = "settle" /\ due \in Asset
  BY DueAsset DEF SettleVariation, SolidInv, Inv
<1>2. CASE lost = "all"
  <2>1. cash = 0 /\ \A a \in Asset : pos[a].qty = 0
    BY <1>2 DEF SolidInv, Solid
  <2>2. pos[due].dir \in Int
    BY <1>1, Positions DEF SolidInv, Inv
  <2>3. ~settles
    BY <1>1, <2>1, <2>2
  <2>4. pos' = pos /\ cash' = cash
    BY <2>3 DEF SettleVariation
  <2> QED
    BY <1>1, <1>2, <2>1, <2>4 DEF Solid
<1>3. CASE lost # "all"
  BY <1>1, <1>3, SettleCovered DEF SolidInv, Solid
<1> QED
  BY <1>2, <1>3

LEMMA PricedQueue ==
  ASSUME PositivePrices, SolidInv, [Next]_vars
  PROVE  queue' \in Seq(Priced)
<1>1. queue \in Seq(Priced)
  BY DEF SolidInv
<1>2. ASSUME NEW e \in planning, PlanOrder(e)
      PROVE  queue' \in Seq(Priced)
  <2> DEFINE d == DecisionOf(e.id, e.ord, at[e.ord.asset])
  <2>1. e.id \in Nat /\ e.ord \in Orders /\ e.ord.asset \in Asset
    <3>1. e.id \in 1 .. submitted /\ submitted \in 0 .. MaxOrders /\ e.ord \in Orders
      BY DEF SolidInv, Inv, TypeOK
    <3> QED
      BY <3>1, Rates, PortfolioAssumption DEF Asset
  <2>2. at \in [Asset -> [dir : {-1, 0, 1}, qty : Nat]]
    BY <1>2 DEF PlanOrder, SolidInv, Inv, TypeOK
  <2>3. d \in Decisions
    BY <2>1, <2>2, DecisionType
  <2>4. d.type = e.ord.type /\ d.px = e.ord.px
    BY DEF DecisionOf
  <2>5. d \in Priced
    BY <2>1, <2>3, <2>4 DEF Priced, PositivePrices
  <2>6. queue' = IF d.qty = 0 THEN queue ELSE Append(queue, d)
    BY <1>2 DEF PlanOrder
  <2> HIDE DEF d
  <2> QED
    BY <1>1, <2>5, <2>6
<1>3. CASE LeavePending \/ ExecuteOrder
  <2>1. queue # <<>> /\ queue' = Tail(queue)
    BY <1>3 DEF LeavePending, ExecuteOrder
  <2> QED
    BY <1>1, <2>1
<1>4. CASE \/ \E o \in Orders : PlaceOrder(o)
           \/ \E batch \in Batches : NewBoundary(batch)
           \/ EndPlan \/ EndOrders \/ ChargeFunding \/ Liquidate \/ Survive \/ SettleVariation
           \/ EndBoundary
           \/ UNCHANGED vars
  BY <1>1, <1>4 DEF PlaceOrder, NewBoundary, EndPlan, EndOrders, ChargeFunding, Liquidate, Survive,
                    SettleVariation, EndBoundary, vars
<1> QED
  BY <1>2, <1>3, <1>4 DEF Next

LEMMA SolidNext ==
  ASSUME PositivePrices, SolidInv, [Next]_vars
  PROVE  SolidInv'
<1>1. Inv'
  BY NextKeeps DEF SolidInv
<1>2. queue' \in Seq(Priced)
  BY PricedQueue
<1> SUFFICES Solid'
  BY <1>1, <1>2 DEF SolidInv
<1>3. ASSUME pos' = pos, cash' = cash, lost' = lost,
             stage' = stage \/ stage' \notin {"between", "settle"} \/ stage \in {"between", "settle"}
      PROVE  Solid'
  BY <1>3 DEF SolidInv, Solid
<1>4. CASE \E o \in Orders : PlaceOrder(o)
  BY <1>3, <1>4 DEF PlaceOrder, records
<1>5. CASE \E batch \in Batches : NewBoundary(batch)
  <2>1. PICK batch \in Batches : NewBoundary(batch)
    BY <1>5
  <2>2. cash' = cash /\ lost' = lost /\ stage' = "plan"
    BY <2>1 DEF NewBoundary, records
  <2>3. ASSUME NEW a \in Asset, pos[a].qty = 0
        PROVE  pos'[a].qty = 0
    <3>1. pos[a].dir \in Int
      BY Positions DEF SolidInv, Inv
    <3>2. pos[a].dir * pos[a].qty = 0
      BY <2>3, <3>1
    <3> QED
      BY <2>1, <3>2 DEF NewBoundary, Flat
  <2> QED
    BY <2>2, <2>3 DEF SolidInv, Solid
<1>6. CASE \E e \in planning : PlanOrder(e)
  BY <1>3, <1>6 DEF PlanOrder, records
<1>7. CASE EndPlan \/ LeavePending \/ EndOrders \/ EndBoundary
  BY <1>3, <1>7 DEF EndPlan, LeavePending, EndOrders, EndBoundary, records
<1>8. CASE Survive
  BY <1>8 DEF Survive, records, SolidInv, Solid
<1>9. CASE ExecuteOrder
  BY <1>9, ExecuteSolid
<1>10. CASE ChargeFunding
  BY <1>10, FundingSolid
<1>11. CASE Liquidate
  BY <1>11 DEF Liquidate, Solid, Flat
<1>12. CASE SettleVariation
  BY <1>1, <1>12, SettleSolid
<1>13. CASE UNCHANGED vars
  BY <1>3, <1>13 DEF vars
<1> QED
  BY <1>4, <1>5, <1>6, <1>7, <1>8, <1>9, <1>10, <1>11, <1>12, <1>13 DEF Next

(* An account that survives its boundaries carries its whole portfolio at  *)
(* the closes, and a liquidated one keeps and regains nothing, if no fill  *)
(* is at a price of zero or less (rcpp_backtest.cpp:834-846).              *)
THEOREM SurvivorsAreCovered ==
  ASSUME PositivePrices
  PROVE  Spec => []CoveredOrEmpty
<1>1. Init => SolidInv
  BY InitSolid
<1>2. SolidInv /\ [Next]_vars => SolidInv'
  BY SolidNext
<1>3. SolidInv => CoveredOrEmpty
  BY DEF SolidInv, Solid, CoveredOrEmpty
<1> QED
  BY <1>1, <1>2, <1>3, PTL DEF Spec
=============================================================================
