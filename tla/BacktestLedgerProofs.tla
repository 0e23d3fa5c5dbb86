------------------------ MODULE BacktestLedgerProofs ------------------------
(***************************************************************************)
(* Proofs that the recorder of Backtest explains the account: the cash and *)
(* the position are the folds of the log, for every market and plan.       *)
(***************************************************************************)
EXTENDS BacktestProofs, FoldTheorems

(* The cash and the units that a log accounts for. *)
Flow(l) == FoldLeft(LAMBDA sum, e : sum + e.realized - e.fee, 0, l)

Apply(u, e) == CASE ~IsTrade(e) -> u
                 [] IsTrade(e) /\ e.action \in Entries -> u + e.dir * e.qty
                 [] OTHER -> u - Sign(u) * e.qty

Held(l) == FoldLeft(Apply, 0, l)

FlowSteps(l) == [i \in 1 .. Len(l) |-> [v \in Int |-> v + l[i].realized - l[i].fee]]

HeldSteps(l) == [i \in 1 .. Len(l) |-> [v \in Int |-> Apply(v, l[i])]]

LEMMA Applied ==
  ASSUME NEW u \in Int, NEW e \in LogRecords
  PROVE  Apply(u, e) \in Int
<1>1. e.dir * e.qty \in Int /\ Sign(u) * e.qty \in Int
  <2>1. e.dir \in Int /\ e.qty \in Int /\ Sign(u) \in Int
    BY AbsVals DEF LogRecords
  <2> QED
    BY <2>1, Products
<1> QED
  BY <1>1 DEF Apply

LEMMA FlowRun ==
  ASSUME NEW l \in Seq(LogRecords)
  PROVE  /\ Flow(l) = Run(FlowSteps(l), 0, Len(l))
         /\ Steps(FlowSteps(l), Int, Len(l))
<1> DEFINE D == FlowSteps(l)
           m == Len(l)
           Eq(h) == h = [s0 \in SUBSET DOMAIN l |->
                           IF s0 = {} THEN 0
                           ELSE h[s0 \ {Max(s0)}] + l[Max(s0)].realized - l[Max(s0)].fee]
           h == CHOOSE h : Eq(h)
<1>1. m \in Nat /\ DOMAIN l = 1 .. m
  OBVIOUS
<1>2. \A i \in 1 .. m : l[i].realized \in Int /\ l[i].fee \in Int
  <2>1. \A i \in 1 .. m : l[i] \in LogRecords
    BY ElementOfSeq
  <2> QED
    BY <2>1 DEF LogRecords
<1>3. \A i \in 1 .. m : \A v \in Int : D[i][v] = v + l[i].realized - l[i].fee
  BY DEF FlowSteps
<1>4. Steps(D, Int, m)
  <2> HIDE DEF D
  <2> SUFFICES ASSUME NEW i \in 1 .. m, NEW v \in Int PROVE D[i][v] \in Int
    BY DEF Steps
  <2>1. D[i][v] = v + l[i].realized - l[i].fee /\ l[i].realized \in Int /\ l[i].fee \in Int
    BY <1>2, <1>3
  <2> QED
    BY <2>1
<1>5. Flow(l) = h[DOMAIN l]
  BY DEF Flow, FoldLeft, MapThenFoldSet
<1> DEFINE V == Int
<1> HIDE DEF D, m
<1>5a. PICK g : RunsThrough(g, D, Int, 0, m)
  <2>1. 0 \in V /\ Steps(D, V, m)
    BY <1>4
  <2> HIDE DEF V
  <2>2. \E g : RunsThrough(g, D, V, 0, m)
    BY <1>1, <2>1, RunFold
  <2> QED
    BY <2>2 DEF V
<1>6. /\ g = [s0 \in SUBSET (1 .. m) |-> g[s0]]
      /\ \A s0 \in SUBSET (1 .. m) :
           /\ g[s0] \in Int
           /\ s0 = {} => g[s0] = 0
           /\ s0 # {} => /\ Max(s0) \in 1 .. m /\ Max(s0) \in s0
                         /\ g[s0] = D[Max(s0)][g[s0 \ {Max(s0)}]]
  BY <1>5a DEF RunsThrough
<1>7. Eq(g)
  <2>1. ASSUME NEW s0 \in SUBSET (1 .. m), s0 # {}
        PROVE  g[s0] = g[s0 \ {Max(s0)}] + l[Max(s0)].realized - l[Max(s0)].fee
    <3>1. s0 \ {Max(s0)} \in SUBSET (1 .. m)
      OBVIOUS
    <3> QED
      BY <1>3, <1>6, <2>1, <3>1
  <2> QED
    BY <1>1, <1>6, <2>1
<1>8. Eq(h)
  BY <1>7
<1> HIDE DEF h
<1>9. h[{}] = 0
  BY <1>1, <1>8
<1>10. ASSUME NEW s0 \in SUBSET (1 .. m), s0 # {}, h[s0 \ {Max(s0)}] \in Int
       PROVE  h[s0] = D[Max(s0)][h[s0 \ {Max(s0)}]]
  <2>1. h[s0] = h[s0 \ {Max(s0)}] + l[Max(s0)].realized - l[Max(s0)].fee
    BY <1>1, <1>8, <1>10
  <2>2. Max(s0) \in 1 .. m
    BY <1>6, <1>10
  <2> QED
    BY <1>3, <1>10, <2>1, <2>2
<1>11. h[1 .. m] = Run(D, 0, m)
  <2>1. 0 \in V /\ Steps(D, V, m) /\ m \in Nat
    BY <1>1, <1>4
  <2>2. \A s0 \in SUBSET (1 .. m) :
          s0 # {} /\ h[s0 \ {Max(s0)}] \in V => h[s0] = D[Max(s0)][h[s0 \ {Max(s0)}]]
    BY <1>10
  <2> DEFINE base == 0
  <2>3. base \in V /\ h[{}] = base
    BY <1>9, <2>1
  <2> HIDE DEF V, base
  <2>4. h[1 .. m] = Run(D, base, m)
    BY <2>1, <2>2, <2>3, RunFrom
  <2> QED
    BY <2>4 DEF base
<1> QED
  BY <1>1, <1>4, <1>5, <1>11 DEF D, m

LEMMA HeldRun ==
  ASSUME NEW l \in Seq(LogRecords)
  PROVE  /\ Held(l) = Run(HeldSteps(l), 0, Len(l))
         /\ Steps(HeldSteps(l), Int, Len(l))
<1> DEFINE D == HeldSteps(l)
           m == Len(l)
           Eq(h) == h = [s0 \in SUBSET DOMAIN l |->
                           IF s0 = {} THEN 0 ELSE Apply(h[s0 \ {Max(s0)}], l[Max(s0)])]
           h == CHOOSE h : Eq(h)
<1>1. m \in Nat /\ DOMAIN l = 1 .. m
  OBVIOUS
<1>2. \A i \in 1 .. m : l[i] \in LogRecords
  BY ElementOfSeq
<1>3. \A i \in 1 .. m : \A v \in Int : D[i][v] = Apply(v, l[i])
  BY DEF HeldSteps
<1>4. Steps(D, Int, m)
  BY <1>2, <1>3, Applied DEF Steps
<1>5. Held(l) = h[DOMAIN l]
  BY DEF Held, FoldLeft, MapThenFoldSet
<1> DEFINE V == Int
<1> HIDE DEF D, m
<1>5a. PICK g : RunsThrough(g, D, Int, 0, m)
  <2>1. 0 \in V /\ Steps(D, V, m)
    BY <1>4
  <2> HIDE DEF V
  <2>2. \E g : RunsThrough(g, D, V, 0, m)
    BY <1>1, <2>1, RunFold
  <2> QED
    BY <2>2 DEF V
<1>6. /\ g = [s0 \in SUBSET (1 .. m) |-> g[s0]]
      /\ \A s0 \in SUBSET (1 .. m) :
           /\ g[s0] \in Int
           /\ s0 = {} => g[s0] = 0
           /\ s0 # {} => /\ Max(s0) \in 1 .. m /\ Max(s0) \in s0
                         /\ g[s0] = D[Max(s0)][g[s0 \ {Max(s0)}]]
  BY <1>5a DEF RunsThrough
<1>7. Eq(g)
  <2>1. ASSUME NEW s0 \in SUBSET (1 .. m), s0 # {}
        PROVE  g[s0] = Apply(g[s0 \ {Max(s0)}], l[Max(s0)])
    <3>1. s0 \ {Max(s0)} \in SUBSET (1 .. m)
      OBVIOUS
    <3> QED
      BY <1>3, <1>6, <2>1, <3>1
  <2> QED
    BY <1>1, <1>6, <2>1
<1>8. Eq(h)
  BY <1>7
<1> HIDE DEF h
<1>9. h[{}] = 0
  BY <1>1, <1>8
<1>10. ASSUME NEW s0 \in SUBSET (1 .. m), s0 # {}, h[s0 \ {Max(s0)}] \in Int
       PROVE  h[s0] = D[Max(s0)][h[s0 \ {Max(s0)}]]
  <2>1. h[s0] = Apply(h[s0 \ {Max(s0)}], l[Max(s0)])
    BY <1>1, <1>8, <1>10
  <2>2. Max(s0) \in 1 .. m
    BY <1>6, <1>10
  <2> QED
    BY <1>3, <1>10, <2>1, <2>2
<1>11. h[1 .. m] = Run(D, 0, m)
  <2>1. 0 \in V /\ Steps(D, V, m) /\ m \in Nat
    BY <1>1, <1>4
  <2>2. \A s0 \in SUBSET (1 .. m) :
          s0 # {} /\ h[s0 \ {Max(s0)}] \in V => h[s0] = D[Max(s0)][h[s0 \ {Max(s0)}]]
    BY <1>10
  <2> DEFINE base == 0
  <2>3. base \in V /\ h[{}] = base
    BY <1>9, <2>1
  <2> HIDE DEF V, base
  <2>4. h[1 .. m] = Run(D, base, m)
    BY <2>1, <2>2, <2>3, RunFrom
  <2> QED
    BY <2>4 DEF base
<1> QED
  BY <1>1, <1>4, <1>5, <1>11 DEF D, m

(* What one more record adds. *)
LEMMA FlowStep ==
  ASSUME NEW l \in Seq(LogRecords), NEW e \in LogRecords
  PROVE  /\ Flow(l) \in Int
         /\ Flow(Append(l, e)) = Flow(l) + e.realized - e.fee
<1> DEFINE k == Append(l, e)
<1>1. /\ k \in Seq(LogRecords) /\ Len(l) \in Nat /\ Len(k) = Len(l) + 1
      /\ k[Len(l) + 1] = e /\ \A i \in 1 .. Len(l) : k[i] = l[i]
  OBVIOUS
<1> HIDE DEF k
<1>2. /\ Flow(l) = Run(FlowSteps(l), 0, Len(l)) /\ Steps(FlowSteps(l), Int, Len(l))
      /\ Flow(k) = Run(FlowSteps(k), 0, Len(l) + 1)
  BY <1>1, FlowRun
<1>3. Flow(l) \in Int
  BY <1>1, <1>2, RunIn
<1>4. ASSUME NEW i \in 1 .. Len(l)
      PROVE  FlowSteps(l)[i] = FlowSteps(k)[i]
  <2>1. i \in 1 .. Len(k) /\ k[i] = l[i]
    BY <1>1
  <2> QED
    BY <2>1 DEF FlowSteps
<1>5. Flow(k) = FlowSteps(k)[Len(l) + 1][Flow(l)]
  <2> DEFINE A == FlowSteps(l)
             B == FlowSteps(k)
             m == Len(l)
  <2>1. m \in Nat /\ \A i \in 1 .. m : A[i] = B[i]
    BY <1>1, <1>4
  <2>2. Flow(l) = Run(A, 0, m) /\ Flow(k) = Run(B, 0, m + 1)
    BY <1>2
  <2> HIDE DEF A, B, m
  <2>3. Run(B, 0, m + 1) = B[m + 1][Run(A, 0, m)]
    BY <2>1, RunStep
  <2> QED
    BY <2>2, <2>3 DEF B, m
<1>6. FlowSteps(k)[Len(l) + 1][Flow(l)] = Flow(l) + e.realized - e.fee
  BY <1>1, <1>3 DEF FlowSteps
<1> QED
  BY <1>3, <1>5, <1>6 DEF k

LEMMA HeldStep ==
  ASSUME NEW l \in Seq(LogRecords), NEW e \in LogRecords
  PROVE  /\ Held(l) \in Int
         /\ Held(Append(l, e)) = Apply(Held(l), e)
<1> DEFINE k == Append(l, e)
<1>1. /\ k \in Seq(LogRecords) /\ Len(l) \in Nat /\ Len(k) = Len(l) + 1
      /\ k[Len(l) + 1] = e /\ \A i \in 1 .. Len(l) : k[i] = l[i]
  OBVIOUS
<1> HIDE DEF k
<1>2. /\ Held(l) = Run(HeldSteps(l), 0, Len(l)) /\ Steps(HeldSteps(l), Int, Len(l))
      /\ Held(k) = Run(HeldSteps(k), 0, Len(l) + 1)
  BY <1>1, HeldRun
<1>3. Held(l) \in Int
  BY <1>1, <1>2, RunIn
<1>4. \A i \in 1 .. Len(l) : HeldSteps(l)[i] = HeldSteps(k)[i]
  BY <1>1 DEF HeldSteps
<1>5. Held(k) = HeldSteps(k)[Len(l) + 1][Held(l)]
  <2> DEFINE A == HeldSteps(l)
             B == HeldSteps(k)
             m == Len(l)
  <2>1. m \in Nat /\ \A i \in 1 .. m : A[i] = B[i]
    BY <1>1, <1>4
  <2>2. Held(l) = Run(A, 0, m) /\ Held(k) = Run(B, 0, m + 1)
    BY <1>2
  <2> HIDE DEF A, B, m
  <2>3. Run(B, 0, m + 1) = B[m + 1][Run(A, 0, m)]
    BY <2>1, RunStep
  <2> QED
    BY <2>2, <2>3 DEF B, m
<1>6. HeldSteps(k)[Len(l) + 1][Held(l)] = Apply(Held(l), e)
  BY <1>1, <1>3 DEF HeldSteps
<1> QED
  BY <1>3, <1>5, <1>6 DEF k

LEMMA NoRecords == Flow(<<>>) = 0 /\ Held(<<>>) = 0
<1>1. <<>> \in Seq(LogRecords) /\ Len(<<>>) = 0
  OBVIOUS
<1>2. Flow(<<>>) = Run(FlowSteps(<<>>), 0, 0) /\ Held(<<>>) = Run(HeldSteps(<<>>), 0, 0)
  BY <1>1, FlowRun, HeldRun
<1> QED
  BY <1>2, RunNone

-----------------------------------------------------------------------------
LEMMA TradeMoves ==
  ASSUME NEW t, NEW d, NEW px, d.action \in Actions
  PROVE  LET a == Trade(t, d, px)
         IN  \/ a.liquidate = TRUE
             \/ a.status = "FAILED" /\ a.fee = 0 /\ a.realized = 0
             \/ /\ d.action \in Entries /\ a.status = "FILLED" /\ a.realized = 0
                /\ a.cash = t.cash - a.fee /\ a.dir = d.dir
                /\ a.qty = IF d.action = "OPEN" THEN d.qty ELSE t.qty + d.qty
             \/ /\ d.action \in Exits /\ HasPos(t) /\ a.status = "FILLED"
                /\ a.cash = t.cash - a.fee + a.realized
                /\ a.dir = IF d.action = "CLOSE" THEN 0 ELSE d.dir
                /\ a.qty = IF d.action = "CLOSE" THEN 0 ELSE t.qty - d.qty
<1>1. CASE IsLiquidated(t, px)
  BY <1>1 DEF Trade
<1>2. CASE ~IsLiquidated(t, px) /\ d.action \in Entries
  BY <1>2 DEF Trade
<1>3. CASE ~IsLiquidated(t, px) /\ d.action \in Exits
  <2>1. d.action \notin Entries
    BY <1>3 DEF Entries, Exits
  <2> QED
    BY <1>3, <2>1 DEF Trade
<1> QED
  BY <1>1, <1>2, <1>3 DEF Actions

(* The answer to a planned decision moves the money and the units that its *)
(* record shows.                                                           *)
LEMMA AnsweredLedger ==
  ASSUME NEW t \in States, HasPos(t) => t.avg # NA, NEW d \in Decisions, PlannedFor(d, t),
         NEW px \in Int, Trade(t, Executable(t, d, px), px).liquidate # TRUE
  PROVE  LET exec == Executable(t, d, px)
             a    == Trade(t, exec, px)
         IN  /\ a.status \in {"FILLED", "FAILED"} /\ a.fee \in Int /\ a.realized \in Int
             /\ a.status = "FAILED" => a.fee = 0 /\ a.realized = 0
             /\ a.status = "FILLED" =>
                  /\ a.cash = t.cash + a.realized - a.fee
                  /\ a.dir * a.qty = IF d.action \in Entries THEN Units(t) + exec.dir * exec.qty
                                     ELSE Units(t) - Sign(Units(t)) * exec.qty
<1> DEFINE exec == Executable(t, d, px)
           a    == Trade(t, exec, px)
<1>1. /\ t.cash \in Int /\ t.dir \in {-1, 0, 1} /\ t.qty \in Nat
      /\ exec.qty \in Nat /\ exec.dir \in {-1, 0, 1} /\ d.action \in Actions
      /\ exec.action = d.action /\ exec.dir = d.dir /\ (d.action \in Exits => exec = d)
  <2>1. /\ exec \in Decisions /\ exec.action = d.action /\ exec.dir = d.dir
        /\ d.action \notin Entries => exec = d
    BY ExecutableType
  <2>2. exec.qty \in Nat /\ exec.dir \in {-1, 0, 1} /\ d.action \in Actions
    BY <2>1 DEF Decisions
  <2>3. d.action \in Exits => d.action \notin Entries
    BY DEF Entries, Exits
  <2> QED
    BY <2>1, <2>2, <2>3 DEF States
<1>2. /\ a.status \in {"FILLED", "FAILED"} /\ a.fee \in Int /\ a.realized \in Int
  BY Answered
<1>3. \/ a.status = "FAILED" /\ a.fee = 0 /\ a.realized = 0
      \/ /\ d.action \in Entries /\ a.status = "FILLED" /\ a.realized = 0
         /\ a.cash = t.cash - a.fee /\ a.dir = d.dir
         /\ a.qty = IF d.action = "OPEN" THEN exec.qty ELSE t.qty + exec.qty
      \/ /\ d.action \in Exits /\ HasPos(t) /\ a.status = "FILLED"
         /\ a.cash = t.cash - a.fee + a.realized
         /\ a.dir = IF d.action = "CLOSE" THEN 0 ELSE d.dir
         /\ a.qty = IF d.action = "CLOSE" THEN 0 ELSE t.qty - exec.qty
  <2>1. exec.action \in Actions /\ a.liquidate # TRUE
    BY <1>1
  <2> HIDE DEF exec
  <2>2. \/ a.liquidate = TRUE
        \/ a.status = "FAILED" /\ a.fee = 0 /\ a.realized = 0
        \/ /\ exec.action \in Entries /\ a.status = "FILLED" /\ a.realized = 0
           /\ a.cash = t.cash - a.fee /\ a.dir = exec.dir
           /\ a.qty = IF exec.action = "OPEN" THEN exec.qty ELSE t.qty + exec.qty
        \/ /\ exec.action \in Exits /\ HasPos(t) /\ a.status = "FILLED"
           /\ a.cash = t.cash - a.fee + a.realized
           /\ a.dir = IF exec.action = "CLOSE" THEN 0 ELSE exec.dir
           /\ a.qty = IF exec.action = "CLOSE" THEN 0 ELSE t.qty - exec.qty
    BY <2>1, TradeMoves
  <2> HIDE DEF a
  <2> QED
    BY <1>1, <2>1, <2>2
<1>4. d.action \in Entries => d.action \in {"OPEN", "INCREASE"}
  BY DEF Entries
<1>5. d.action \in Exits => d.action \in {"CLOSE", "REDUCE"} /\ d.action \notin Entries
  BY DEF Exits, Entries
<1> HIDE DEF exec, a
<1>6. CASE d.action \in Entries /\ a.status = "FILLED"
  <2>1. a.cash = t.cash + a.realized - a.fee
    BY <1>1, <1>2, <1>3, <1>5, <1>6
  <2>2. a.dir = d.dir /\ a.qty = IF d.action = "OPEN" THEN exec.qty ELSE t.qty + exec.qty
    BY <1>3, <1>5, <1>6
  <2>3. d.action = "OPEN" => Units(t) = 0
    BY DEF PlannedFor, HasPos
  <2>4. d.action = "INCREASE" => d.dir = t.dir
    BY DEF PlannedFor
  <2>5. a.dir * a.qty = Units(t) + exec.dir * exec.qty
    BY <1>1, <1>4, <1>6, <2>2, <2>3, <2>4 DEF Units
  <2> QED
    BY <1>2, <1>6, <2>1, <2>5 DEF exec, a
<1>7. CASE d.action \in Exits /\ a.status = "FILLED"
  <2>1. a.cash = t.cash + a.realized - a.fee
    BY <1>1, <1>2, <1>3, <1>5, <1>7
  <2>2. /\ HasPos(t) /\ exec.qty = d.qty /\ d.action \in {"CLOSE", "REDUCE"}
        /\ a.dir = IF d.action = "CLOSE" THEN 0 ELSE d.dir
        /\ a.qty = IF d.action = "CLOSE" THEN 0 ELSE t.qty - exec.qty
    BY <1>1, <1>3, <1>5, <1>7
  <2>3. t.dir \in {-1, 1} /\ t.qty > 0 /\ Sign(Units(t)) = t.dir
    <3>1. t.dir # 0 /\ t.qty > 0
      BY <1>1, <2>2 DEF HasPos, Units
    <3> QED
      BY <1>1, <3>1 DEF Units, Sign
  <2>4. /\ d.action = "CLOSE" => d.qty = t.qty
        /\ d.action = "REDUCE" => d.dir = t.dir
    BY DEF PlannedFor
  <2>5. a.dir * a.qty = Units(t) - Sign(Units(t)) * exec.qty
    BY <1>1, <2>2, <2>3, <2>4 DEF Units
  <2> QED
    BY <1>2, <1>5, <1>7, <2>1, <2>5 DEF exec, a
<1>8. CASE a.status = "FAILED"
  BY <1>2, <1>3, <1>8 DEF exec, a
<1> QED
  BY <1>3, <1>6, <1>7, <1>8

Ledger == CashReconciles /\ PositionReconciles

Explained == (~liquidated => s.cash = InitCash + Flow(log)) /\ Units(s) = Held(log)

LEMMA LedgerIs == Ledger <=> Explained
BY DEF Ledger, CashReconciles, PositionReconciles, Flow, Held, Apply, Explained

LEMMA LedgerNext ==
  Ledger' <=> (~liquidated' => s'.cash = InitCash + Flow(log')) /\ Units(s') = Held(log')
<1>1. Ledger' <=> Explained'
  BY LedgerIs, PTL
<1> QED
  BY <1>1 DEF Explained

LEMMA LedgerNow ==
  Ledger <=> (~liquidated => s.cash = InitCash + Flow(log)) /\ Units(s) = Held(log)
BY LedgerIs DEF Explained

(* The records that are not trades hold no units, and a liquidation or a   *)
(* refusal no money.                                                       *)
LEMMA Unmoved ==
  ASSUME NEW l \in Seq(LogRecords), NEW e \in LogRecords, ~IsTrade(e)
  PROVE  Held(Append(l, e)) = Held(l)
BY HeldStep DEF Apply

LEMMA LiquidationLedger ==
  ASSUME Inv, Ledger, liquidated' = TRUE, s'.dir = s.dir, s'.qty = s.qty,
         log' = Append(log, LiquidationRecord)
  PROVE  Ledger'
<1>1. log \in Seq(LogRecords) /\ LiquidationRecord \in LogRecords /\ ~IsTrade(LiquidationRecord)
  BY LiquidationType DEF Inv, Orderly, IsTrade
<1>2. Held(log') = Held(log)
  BY <1>1, Unmoved
<1>3. Units(s') = Units(s)
  BY DEF Units
<1> QED
  BY <1>2, <1>3, LedgerNow, LedgerNext

LEMMA ExecuteLedger ==
  ASSUME Inv, Ledger, ExecuteNext
  PROVE  Ledger'
<1> DEFINE d    == Head(queue)
           px   == FillPrice(d, s, BasePrice(d))
           exec == Executable(s, d, px)
           a    == Trade(s, exec, px)
           r    == Record("trade", exec, a, px)
<1>1. queue # <<>> /\ Execute(BasePrice(d))
  BY DEF ExecuteNext
<1>2. /\ d \in Decisions /\ PlannedFor(d, s) /\ px \in Int /\ s \in States
      /\ (HasPos(s) => s.avg # NA) /\ log \in Seq(LogRecords)
  BY <1>1, HeadOfQueue, PriceType DEF Inv, Typed, Staged, Orderly
<1>3. exec.action = d.action
  BY <1>2, ExecutableType
<1>4. CASE a.liquidate
  BY <1>1, <1>4, LiquidationLedger DEF Execute
<1>5. CASE ~a.liquidate
  <2>1. /\ liquidated' = liquidated /\ log' = Append(log, r)
        /\ s' = IF a.status = "FILLED"
                THEN [s EXCEPT !.cash = a.cash, !.dir = a.dir, !.qty = a.qty, !.avg = a.avg]
                ELSE s
    BY <1>1, <1>5 DEF Execute
  <2>2. /\ a.status \in {"FILLED", "FAILED"} /\ a.fee \in Int /\ a.realized \in Int
        /\ a.status = "FAILED" => a.fee = 0 /\ a.realized = 0
        /\ a.status = "FILLED" =>
             /\ a.cash = s.cash + a.realized - a.fee
             /\ a.dir * a.qty = IF d.action \in Entries THEN Units(s) + exec.dir * exec.qty
                                ELSE Units(s) - Sign(Units(s)) * exec.qty
    <3> HIDE DEF d, px
    <3>1. a.liquidate # TRUE
      BY <1>5
    <3> QED
      BY <1>2, <3>1, AnsweredLedger
  <2>3. r \in LogRecords
    <3>1. \/ log' = Append(log, LiquidationRecord)
          \/ r \in LogRecords
      BY ExecuteCases
    <3>2. LiquidationRecord # r
      BY DEF LiquidationRecord, Record
    <3>3. LiquidationRecord \in LogRecords
      BY LiquidationType
    <3>4. CASE log' = Append(log, LiquidationRecord)
      <4> HIDE DEF r
      <4>1. Append(log, r)[Len(log) + 1] = r
        BY <1>2
      <4>2. Append(log, LiquidationRecord)[Len(log) + 1] = LiquidationRecord
        BY <1>2
      <4> QED
        BY <2>1, <3>2, <3>4, <4>1, <4>2
    <3> QED
      BY <3>1, <3>4
  <2>4. /\ r.kind = "trade" /\ r.status = a.status /\ r.fee = a.fee /\ r.realized = a.realized
        /\ r.action = d.action /\ r.dir = exec.dir /\ r.qty = exec.qty
    BY <1>3 DEF Record
  <2> HIDE DEF d, px, exec, a, r
  <2>5. /\ Flow(log') = Flow(log) + r.realized - r.fee /\ Flow(log) \in Int
        /\ Held(log') = Apply(Held(log), r)
    BY <1>2, <2>1, <2>3, FlowStep, HeldStep
  <2>6. s.cash \in Int /\ InitCash \in Int
    BY <1>2, Rates DEF States
  <2>7. CASE a.status = "FILLED"
    <3>1. s'.cash = a.cash /\ s'.dir = a.dir /\ s'.qty = a.qty
      BY <1>2, <2>1, <2>7 DEF States
    <3>2. Units(s') = a.dir * a.qty
      BY <3>1 DEF Units
    <3>3. Held(log') = IF d.action \in Entries THEN Held(log) + exec.dir * exec.qty
                       ELSE Held(log) - Sign(Held(log)) * exec.qty
      BY <2>4, <2>5, <2>7 DEF Apply, IsTrade
    <3>4. Held(log) = Units(s) /\ (~liquidated => s.cash = InitCash + Flow(log))
      BY LedgerNow
    <3>5. Units(s') = Held(log')
      BY <2>2, <2>7, <3>2, <3>3, <3>4
    <3>6. ~liquidated' => s'.cash = InitCash + Flow(log')
      BY <2>1, <2>2, <2>4, <2>5, <2>6, <2>7, <3>1, <3>4
    <3> QED
      BY <3>5, <3>6, LedgerNext
  <2>8. CASE a.status # "FILLED"
    <3>1. s' = s /\ r.fee = 0 /\ r.realized = 0 /\ ~IsTrade(r)
      BY <2>1, <2>2, <2>4, <2>8 DEF IsTrade
    <3>2. Held(log') = Held(log) /\ Flow(log') = Flow(log)
      BY <2>5, <3>1 DEF Apply
    <3> QED
      BY <2>1, <3>1, <3>2, LedgerNow, LedgerNext
  <2> QED
    BY <2>7, <2>8
<1> QED
  BY <1>4, <1>5

LEMMA FundingLedger ==
  ASSUME Inv, Ledger, ChargeFunding
  PROVE  Ledger'
<1> DEFINE dt == IF n = 1 THEN NA ELSE BarGap
           f  == Funding(s, dt)
           r  == FundingRecord(f)
<1>1. /\ s' = [s EXCEPT !.cash = f.cash] /\ liquidated' = f.liquidate
      /\ log' = log \o (IF f.fee # 0 \/ f.liquidate THEN <<r>> ELSE <<>>)
                    \o (IF f.liquidate THEN <<LiquidationRecord>> ELSE <<>>)
      /\ stage = "funding"
  BY DEF ChargeFunding
<1>2. /\ f.fee \in Int /\ f.cash \in Int /\ f.liquidate \in BOOLEAN
      /\ r \in LogRecords /\ r.kind = "funding"
      /\ \/ ~f.liquidate /\ log' = log
         \/ ~f.liquidate /\ log' = Append(log, r)
         \/ f.liquidate /\ log' = Append(Append(log, r), LiquidationRecord)
  BY FundingCases
<1>3. /\ s \in States /\ ~liquidated /\ log \in Seq(LogRecords)
      /\ s.cash \in Int /\ InitCash \in Int
  BY <1>1, TypedNow, Rates DEF Inv, Staged, Orderly, States
<1>4. ~f.liquidate => f.cash = s.cash - f.fee
  <2>1. CASE dt = NA
    <3>1. f = [fee |-> 0, cash |-> s.cash, liquidate |-> FALSE]
      BY <2>1 DEF Funding
    <3> HIDE DEF f
    <3> QED
      BY <1>3, <3>1
  <2>2. CASE dt # NA
    <3> HIDE DEF dt
    <3> QED
      BY <2>2 DEF Funding
  <2> QED
    BY <2>1, <2>2
<1>5. r.fee = f.fee /\ r.realized = 0 /\ ~IsTrade(r)
  BY <1>2 DEF FundingRecord, Record, IsTrade
<1>6. ~f.liquidate /\ log' = log => f.fee = 0
  <2> SUFFICES ASSUME ~f.liquidate, f.fee # 0
               PROVE  log' # log
    OBVIOUS
  <2> HIDE DEF f, r
  <2>1. log' = log \o <<r>> \o <<>>
    BY <1>1
  <2>2. log \o <<r>> = Append(log, r) /\ Append(log, r) \in Seq(LogRecords)
    BY <1>2, <1>3, JoinOne
  <2>3. Append(log, r) \o <<>> = Append(log, r)
    BY <1>2, <2>2, JoinOne
  <2>4. log' = Append(log, r)
    BY <2>1, <2>2, <2>3
  <2>5. Len(Append(log, r)) = Len(log) + 1 /\ Len(log) \in Nat
    BY <1>3
  <2> QED
    BY <2>4, <2>5
<1> HIDE DEF f, r
<1>7. s'.cash = f.cash /\ Units(s') = Units(s)
  BY <1>1, <1>3 DEF States, Units
<1>8. /\ Flow(log) \in Int /\ Held(Append(log, r)) = Held(log)
      /\ Flow(Append(log, r)) = Flow(log) - f.fee
      /\ Append(log, r) \in Seq(LogRecords)
  <2>1. Flow(log) \in Int /\ Flow(Append(log, r)) = Flow(log) + r.realized - r.fee
    BY <1>2, <1>3, FlowStep
  <2>2. Append(log, r) \in Seq(LogRecords)
    BY <1>2, <1>3
  <2>3. Held(Append(log, r)) = Held(log)
    BY <1>2, <1>3, <1>5, Unmoved
  <2> QED
    BY <1>2, <1>5, <2>1, <2>2, <2>3
<1>9. Units(s) = Held(log) /\ s.cash = InitCash + Flow(log)
  BY <1>3, LedgerNow
<1>10. CASE f.liquidate
  <2>1. LiquidationRecord \in LogRecords /\ ~IsTrade(LiquidationRecord)
    BY LiquidationType DEF IsTrade
  <2>2. Held(log') = Held(log)
    BY <1>2, <1>8, <1>10, <2>1, Unmoved
  <2> QED
    BY <1>1, <1>7, <1>9, <1>10, <2>2, LedgerNext
<1>11. CASE ~f.liquidate
  <2>1. Held(log') = Held(log) /\ Flow(log') = Flow(log) - f.fee
    <3>1. CASE log' = log
      <4>1. f.fee = 0
        BY <1>6, <1>11, <3>1
      <4> QED
        BY <1>8, <3>1, <4>1
    <3>2. CASE log' = Append(log, r)
      BY <1>8, <3>2
    <3> QED
      BY <1>2, <1>11, <3>1, <3>2
  <2>2. s'.cash = InitCash + Flow(log')
    BY <1>2, <1>3, <1>4, <1>7, <1>8, <1>9, <1>11, <2>1
  <2> QED
    BY <1>7, <1>9, <2>1, <2>2, LedgerNext
<1> QED
  BY <1>10, <1>11

LEMMA StepLedger == Inv /\ Ledger /\ [Next]_vars => Ledger'
<1> SUFFICES ASSUME Inv, Ledger, [Next]_vars
             PROVE  Ledger'
  OBVIOUS
<1>1. CASE ExecuteNext
  BY <1>1, ExecuteLedger
<1>2. CASE ChargeFunding
  BY <1>2, FundingLedger
<1>3. CASE MarkToClose
  <2> DEFINE liq == IsLiquidated(s, bar.close)
  <2>1. /\ s' = [s EXCEPT !.last = bar.close] /\ s \in States /\ liquidated' \in BOOLEAN
        /\ ~liquidated
        /\ log' = IF liquidated' THEN Append(log, LiquidationRecord) ELSE log
    <3>1. /\ s' = [s EXCEPT !.last = bar.close] /\ liquidated' = liq
          /\ log' = (IF liq THEN Append(log, LiquidationRecord) ELSE log)
          /\ stage = "mark"
      BY <1>3 DEF MarkToClose
    <3>2. liq \in BOOLEAN
      BY DEF IsLiquidated
    <3> HIDE DEF liq
    <3> QED
      BY <3>1, <3>2, TypedNow DEF Inv, Staged
  <2>2. s'.cash = s.cash /\ s'.dir = s.dir /\ s'.qty = s.qty /\ Units(s') = Units(s)
    BY <2>1 DEF States, Units
  <2>3. CASE liquidated'
    BY <2>1, <2>2, <2>3, LiquidationLedger
  <2>4. CASE ~liquidated'
    BY <2>1, <2>2, <2>4, LedgerNow, LedgerNext
  <2> QED
    BY <2>3, <2>4
<1>4. CASE s' = s /\ log' = log /\ liquidated' = liquidated
  BY <1>4, LedgerNow, LedgerNext
<1>5. \/ ExecuteNext \/ ChargeFunding \/ MarkToClose
      \/ s' = s /\ log' = log /\ liquidated' = liquidated
  BY DEF Next, vars, SkipBar, UpdateBar, KeepUnfilled, EndOrders, PlanTarget
<1> QED
  BY <1>1, <1>2, <1>3, <1>4, <1>5

LEMMA InitLedger == Init => Ledger
<1> SUFFICES ASSUME Init
             PROVE  (~liquidated => s.cash = InitCash + Flow(log)) /\ Units(s) = Held(log)
  BY LedgerNow
<1>1. s.cash = InitCash /\ Units(s) = 0 /\ log = <<>>
  BY DEF Init, Units
<1> QED
  BY <1>1, NoRecords, Rates

(* The recorder explains the cash: no fee, charge or realized profit ever  *)
(* moves it without a record (append_record, append_funding).              *)
THEOREM RecorderExplainsCash == Spec => []CashReconciles
<1>1. Ledger => CashReconciles
  BY DEF Ledger
<1> QED
  BY <1>1, InitLedger, StepLedger, Invariant, PTL DEF Spec

(* The recorder explains the position: no fill is lost or counted twice,   *)
(* no opening overwrites held units, no exit takes off more than is held.  *)
THEOREM RecorderExplainsPosition == Spec => []PositionReconciles
<1>1. Ledger => PositionReconciles
  BY DEF Ledger
<1> QED
  BY <1>1, InitLedger, StepLedger, Invariant, PTL DEF Spec

-----------------------------------------------------------------------------
(* Solvency. *)

Solvent ==
  /\ stage = "same_close" => fillModel = 1
  /\ stage = "orders" => ~liquidated \/ queue = <<>>
  /\ SolventBetweenBars

(* An account that passes the mark has the equity to pass it. *)
LEMMA MarkSolvent ==
  ASSUME Inv, MarkToClose, ~liquidated'
  PROVE  Equity(s') >= 0
<1> DEFINE liq == IsLiquidated(s, bar.close)
<1>1. /\ s' = [s EXCEPT !.last = bar.close] /\ liquidated' = liq /\ stage = "mark"
  BY DEF MarkToClose
<1>2. s \in States /\ bar.close \in Nat
  BY <1>1, TypedNow, BarPrices DEF Inv, Staged
<1>3. /\ s'.cash = s.cash /\ s'.dir = s.dir /\ s'.qty = s.qty /\ s'.avg = s.avg
      /\ s'.last = bar.close
  BY <1>1, <1>2 DEF States
<1>4. Equity(s') = s.cash + Unrealized(s, bar.close)
  <2>1. Units(s') = Units(s)
    BY <1>3 DEF Units
  <2>2. Unrealized(s', bar.close) = Unrealized(s, bar.close)
    BY <1>3, <2>1 DEF Unrealized, HasPos
  <2> QED
    BY <1>3, <2>2 DEF Equity
<1>5. /\ s.cash \in Int /\ Unrealized(s, bar.close) \in Int /\ Maintenance(s) \in Nat
  BY <1>2, Valuation DEF States
<1>6. ~(s.cash + Unrealized(s, bar.close) < Maintenance(s))
  BY <1>1 DEF IsLiquidated
<1> QED
  BY <1>4, <1>5, <1>6

LEMMA StepSolvent == Inv /\ Solvent /\ [Next]_vars => Solvent'
<1> SUFFICES ASSUME Inv, Solvent, [Next]_vars
             PROVE  Solvent'
  OBVIOUS
<1>1. CASE UNCHANGED vars
  BY <1>1 DEF vars, Solvent, SolventBetweenBars
<1>2. CASE Next
  <2>0. fillModel' = fillModel
    BY <1>2 DEF Next
  <2>1. CASE SkipBar
    BY <2>0, <2>1 DEF SkipBar, Solvent, SolventBetweenBars
  <2>2. CASE UpdateBar
    BY <2>0, <2>2 DEF UpdateBar, Solvent, SolventBetweenBars
  <2>3. CASE ExecuteNext
    <3>1. stage' = stage /\ stage \in {"orders", "same_close"}
      BY <2>3 DEF ExecuteNext
    <3>2. liquidated' = liquidated \/ queue' = <<>>
      BY <2>3, ExecuteCases
    <3>3. queue # <<>> => ~liquidated
      BY DEF Inv, Staged
    <3> QED
      BY <2>0, <2>3, <3>1, <3>2, <3>3 DEF ExecuteNext, Solvent, SolventBetweenBars
  <2>4. CASE KeepUnfilled
    <3>1. queue # <<>> => ~liquidated
      BY DEF Inv, Staged
    <3> QED
      BY <2>0, <2>4, <3>1 DEF KeepUnfilled, Solvent, SolventBetweenBars
  <2>5. CASE EndOrders
    BY <2>0, <2>5 DEF EndOrders, Solvent, SolventBetweenBars
  <2>6. CASE ChargeFunding
    <3>1. /\ stage = "funding"
          /\ stage' = IF liquidated' THEN "idle" ELSE "mark"
      BY <2>6 DEF ChargeFunding
    <3> QED
      BY <2>0, <3>1 DEF Solvent, SolventBetweenBars
  <2>7. CASE MarkToClose
    <3>1. /\ stage = "mark"
          /\ stage' = IF liquidated' THEN "idle" ELSE "plan"
      BY <2>7 DEF MarkToClose
    <3> QED
      BY <2>0, <2>7, <3>1, MarkSolvent DEF Solvent, SolventBetweenBars
  <2>8. ASSUME NEW intent \in Intents, PlanTarget(intent)
        PROVE  Solvent'
    <3>1. /\ stage = "plan" /\ s' = s /\ liquidated' = liquidated
          /\ (stage' = "same_close" /\ fillModel = 1) \/ stage' = "idle"
      BY <2>8 DEF PlanTarget
    <3> QED
      BY <2>0, <3>1 DEF Solvent, SolventBetweenBars
  <2> QED
    BY <1>2, <2>1, <2>2, <2>3, <2>4, <2>5, <2>6, <2>7, <2>8 DEF Next
<1> QED
  BY <1>1, <1>2

(* No account goes into its next target, or with next-open fills into its  *)
(* next bar, with a negative equity: the mark has tested it at the same    *)
(* price (update_on_mark).                                                 *)
THEOREM PlansAreSolvent == Spec => []SolventBetweenBars
<1>1. Init => Solvent
  <2> SUFFICES ASSUME Init
               PROVE  Solvent
    OBVIOUS
  <2>1. s.cash = InitCash /\ s.dir = 0 /\ s.qty = 0 /\ s.last = 0 /\ stage = "idle"
    BY DEF Init
  <2>2. Equity(s) = s.cash + 0
    BY <2>1 DEF Equity, Unrealized, HasPos, Units
  <2> QED
    BY <2>1, <2>2, Rates DEF Solvent, SolventBetweenBars
<1>2. Solvent => SolventBetweenBars
  BY DEF Solvent
<1> QED
  BY <1>1, <1>2, StepSolvent, Invariant, PTL DEF Spec
=============================================================================
