------------------------------ MODULE Backtest ------------------------------
(***************************************************************************)
(* The bar loop of backtest() in ker_backtest.h, one action per stage of   *)
(* a bar: the pending plan meets the new bar, funding is charged on the    *)
(* last mark, the close marks the position and may liquidate it, and the   *)
(* target of the bar is planned for the next one (or, under fill model 1,  *)
(* executed at the same close).  Prices and targets are inputs.            *)
(***************************************************************************)
EXTENDS TradeKernel, SequencesExt

CONSTANTS
  InitCash,   \* starting cash, in 1/Den
  FillModels, \* the fill models in use; 0: next open, 1: same close
  Bars,       \* the bars the market may print: [open, high, low, close]
  Intents,    \* the targets the strategy may ask for: [tgt, tol, type, px]
  BarGap,     \* funding intervals between two bars
  MaxBars     \* bound on the length of a backtest

ASSUME BacktestAssumption ==
  /\ {InitCash, BarGap, MaxBars} \subseteq Nat
  /\ FillModels \subseteq {0, 1}
  /\ \A b \in Bars : /\ {b.open, b.high, b.low, b.close} \subseteq Nat \ {0}
                     /\ \A px \in {b.open, b.close} : b.low <= px /\ px <= b.high
  /\ \A i \in Intents : /\ i.tgt \in Int \cup {NA} /\ i.tol \in Nat
                        /\ i.type \in {"MARKET", "LIMIT"}
                        /\ i.px \in IF i.type = "LIMIT" THEN Nat \ {0} ELSE {NA}

VARIABLES
  fillModel,  \* the fill model of this backtest
  stage,      \* what the loop body does next
  n,          \* bars seen so far
  bar,        \* the bar being processed
  s,          \* the trade state
  liquidated, \* s.liquidated
  nextId,     \* s.action_id_now
  pending,    \* s.pending, the plan
  queue,      \* the decisions of the plan not yet tried on this bar
  rest,       \* the decisions that stay unfilled on this bar
  log         \* the recorder

vars == <<fillModel, stage, n, bar, s, liquidated, nextId, pending, queue, rest, log>>

MaxActions == 2   \* the room of an ActionPlan

Init ==
  /\ fillModel \in FillModels
  /\ stage = "idle" /\ n = 0 /\ bar = NA
  /\ s = [cash |-> InitCash, dir |-> 0, qty |-> 0, avg |-> NA, last |-> 0]
  /\ liquidated = FALSE /\ nextId = 1
  /\ pending = <<>> /\ queue = <<>> /\ rest = <<>> /\ log = <<>>

Record(kind, d, answer, px) ==
  [kind |-> kind, bar |-> n, stage |-> stage, id |-> d.id, action |-> d.action,
   dir |-> d.dir, qty |-> d.qty, px |-> px, status |-> answer.status,
   fee |-> answer.fee, realized |-> answer.realized]

Nothing == Decision(0, "NONE", 0, "MARKET", NA, 0)

FundingRecord(f) ==
  Record("funding", Nothing,
         [status |-> IF f.liquidate THEN "FAILED" ELSE "FILLED",
          fee |-> f.fee, realized |-> 0], s.last)

LiquidationRecord ==
  Record("liquidation", Nothing, [status |-> "FAILED", fee |-> 0, realized |-> 0], NA)

(* A liquidated account only repeats its empty row. *)
SkipBar ==
  /\ stage = "idle" /\ liquidated /\ n < MaxBars
  /\ n' = n + 1
  /\ UNCHANGED <<stage, bar, s, liquidated, nextId, pending, queue, rest, log>>

(* Mutant: a liquidated account keeps trading. *)
UpdateAnyBar ==
  /\ stage = "idle" /\ n < MaxBars
  /\ n' = n + 1
  /\ bar' \in Bars
  /\ queue' = pending
  /\ rest' = <<>>
  /\ stage' = IF pending = <<>> THEN "funding" ELSE "orders"
  /\ UNCHANGED <<s, liquidated, nextId, pending, log>>

UpdateBar ==
  /\ stage = "idle" /\ ~liquidated /\ n < MaxBars
  /\ n' = n + 1
  /\ bar' \in Bars
  /\ queue' = pending
  /\ rest' = <<>>
  /\ stage' = IF pending = <<>> THEN "funding" ELSE "orders"
  /\ UNCHANGED <<s, liquidated, nextId, pending, log>>

(* process_trade on the first untried decision, priced from base. *)
Execute(base) ==
  LET d      == Head(queue)
      px     == FillPrice(d, s, base)
      exec   == Executable(s, d, px)
      answer == Trade(s, exec, px)
  IN  IF answer.liquidate
      THEN /\ liquidated' = TRUE
           /\ log' = Append(log, LiquidationRecord)
           /\ queue' = <<>>
           /\ UNCHANGED s
      ELSE /\ s' = IF answer.status = "FILLED"
                   THEN [s EXCEPT !.cash = answer.cash, !.dir = answer.dir,
                                  !.qty = answer.qty, !.avg = answer.avg]
                   ELSE s
           /\ log' = Append(log, Record("trade", exec, answer, px))
           /\ queue' = Tail(queue)
           /\ UNCHANGED liquidated

BasePrice(d) ==
  IF d.type = "LIMIT" THEN d.px ELSE IF stage = "orders" THEN bar.open ELSE bar.close

(* One turn of the loop over the plan, at the open or at the same close. *)
ExecuteNext ==
  /\ stage \in {"orders", "same_close"} /\ queue # <<>>
  /\ CanFill(Head(queue), bar)
  /\ Execute(BasePrice(Head(queue)))
  /\ UNCHANGED <<stage, n, bar, nextId, pending, rest>>

(* Mutant: an unfilled order is tried again on the same bar. *)
RetryUnfilled ==
  /\ stage \in {"orders", "same_close"} /\ queue # <<>>
  /\ ~CanFill(Head(queue), bar)
  /\ queue' = Append(Tail(queue), Head(queue))
  /\ UNCHANGED <<stage, n, bar, s, liquidated, nextId, pending, rest, log>>

KeepUnfilled ==
  /\ stage \in {"orders", "same_close"} /\ queue # <<>>
  /\ ~CanFill(Head(queue), bar)
  /\ Len(rest) < MaxActions
  /\ rest' = Append(rest, Head(queue))
  /\ queue' = Tail(queue)
  /\ UNCHANGED <<stage, n, bar, s, liquidated, nextId, pending, log>>

(* Mutant: an executed plan stays pending. *)
EndOrdersKeepingPlan ==
  /\ stage \in {"orders", "same_close"} /\ queue = <<>>
  /\ stage' = IF stage = "orders" /\ ~liquidated THEN "funding" ELSE "idle"
  /\ UNCHANGED <<n, bar, s, liquidated, nextId, pending, queue, rest, log>>

EndOrders ==
  /\ stage \in {"orders", "same_close"} /\ queue = <<>>
  /\ pending' = rest
  /\ stage' = IF stage = "orders" /\ ~liquidated THEN "funding" ELSE "idle"
  /\ UNCHANGED <<n, bar, s, liquidated, nextId, queue, rest, log>>

(* Mutant: only the charge that liquidates is recorded. *)
ChargeFundingSilently ==
  LET f == Funding(s, IF n = 1 THEN NA ELSE BarGap)
  IN  /\ stage = "funding"
      /\ s' = [s EXCEPT !.cash = f.cash]
      /\ liquidated' = f.liquidate
      /\ log' = log \o (IF f.liquidate THEN <<FundingRecord(f), LiquidationRecord>> ELSE <<>>)
      /\ stage' = IF f.liquidate THEN "idle" ELSE "mark"
      /\ UNCHANGED <<n, bar, nextId, pending, queue, rest>>

ChargeFunding ==
  LET f == Funding(s, IF n = 1 THEN NA ELSE BarGap)
  IN  /\ stage = "funding"
      /\ s' = [s EXCEPT !.cash = f.cash]
      /\ liquidated' = f.liquidate
      /\ log' = log \o (IF f.fee # 0 \/ f.liquidate THEN <<FundingRecord(f)>> ELSE <<>>)
                    \o (IF f.liquidate THEN <<LiquidationRecord>> ELSE <<>>)
      /\ stage' = IF f.liquidate THEN "idle" ELSE "mark"
      /\ UNCHANGED <<n, bar, nextId, pending, queue, rest>>

(* The close is tested against the margin of the previous mark. *)
MarkToClose ==
  LET liq == IsLiquidated(s, bar.close)
  IN  /\ stage = "mark"
      /\ s' = [s EXCEPT !.last = bar.close]
      /\ liquidated' = liq
      /\ log' = IF liq THEN Append(log, LiquidationRecord) ELSE log
      /\ stage' = IF liq THEN "idle" ELSE "plan"
      /\ UNCHANGED <<n, bar, nextId, pending, queue, rest>>

(* Every bar's plan replaces the one before it, filled or not. *)
PlanTarget(intent) ==
  LET plan == Plan(s, intent, nextId)
  IN  /\ stage = "plan"
      /\ pending' = plan
      /\ nextId' = nextId + Len(plan)
      /\ IF fillModel = 1 /\ plan # <<>>
         THEN stage' = "same_close" /\ queue' = plan /\ rest' = <<>>
         ELSE stage' = "idle" /\ UNCHANGED <<queue, rest>>
      /\ UNCHANGED <<n, bar, s, liquidated, log>>

Next ==
  /\ \/ SkipBar \/ UpdateBar
     \/ ExecuteNext \/ KeepUnfilled \/ EndOrders
     \/ ChargeFunding \/ MarkToClose
     \/ \E intent \in Intents : PlanTarget(intent)
  /\ UNCHANGED fillModel

Spec == Init /\ [][Next]_vars

(* The loop is a plain for over the bars: it always runs on. *)
FairSpec == Spec /\ WF_vars(Next)

-----------------------------------------------------------------------------
(* Properties. *)

Actions == Entries \cup Exits

TypeOK ==
  /\ fillModel \in FillModels
  /\ stage \in {"idle", "orders", "funding", "mark", "plan", "same_close"}
  /\ n \in 0 .. MaxBars
  /\ bar \in Bars \cup {NA}
  /\ s.cash \in Int /\ s.dir \in {-1, 0, 1} /\ s.qty \in Nat
  /\ s.avg \in Int \cup {NA} /\ s.last \in Nat
  /\ liquidated \in BOOLEAN /\ nextId \in Nat \ {0}
  /\ Len(pending) <= 2 /\ Len(queue) <= 2 /\ Len(rest) <= 2
  /\ \A i \in 1 .. Len(pending) : pending[i].action \in Actions /\ pending[i].qty \in Nat

IsTrade(e) == e.kind = "trade" /\ e.status = "FILLED"

(* The recorder explains the cash: the starting cash plus every realized   *)
(* profit less every fee and funding charge it recorded is the cash the    *)
(* state carries, at every stage of a bar (append_record, append_funding). *)
CashReconciles ==
  ~liquidated =>
    s.cash = InitCash + FoldLeft(LAMBDA sum, e : sum + e.realized - e.fee, 0, log)

(* The recorder explains the position: adding up the recorded fills, an    *)
(* opening never replaces units that were not closed before and a closing  *)
(* trade takes off exactly what is held.                                   *)
PositionReconciles ==
  LET Apply(u, e) == CASE ~IsTrade(e) -> u
                       [] IsTrade(e) /\ e.action \in Entries -> u + e.dir * e.qty
                       [] OTHER -> u - Sign(u) * e.qty
  IN  Units(s) = FoldLeft(Apply, 0, log)

(* A planned exit is always executable: of the trades the planner asks for *)
(* only an increase is ever refused by the exchange.                       *)
OnlyIncreasesFail ==
  \A i \in 1 .. Len(log) :
    log[i].kind = "trade" /\ log[i].status = "FAILED" => log[i].action = "INCREASE"

(* Every decision is executed at most once and in the order it was made:   *)
(* an unfilled limit order neither survives the next plan nor comes back.  *)
DecisionsExecuteOnce ==
  \A i, j \in 1 .. Len(log) :
    i < j /\ log[i].kind = "trade" /\ log[j].kind = "trade" => log[i].id < log[j].id

(* An account that is not liquidated is solvent when its next target is    *)
(* planned, and with next-open fills still so when the bar has ended.  (A  *)
(* fill at the same close comes after the mark: its costs may be larger    *)
(* than the maintenance margin that the mark has tested.)                  *)
SolventBetweenBars ==
  ~liquidated /\ (stage = "plan" \/ (stage = "idle" /\ fillModel = 0)) => Equity(s) >= 0

(* What an entry leaves behind is covered: equity at the fill price, less  *)
(* the fee, carries the initial margin of the whole new position at that   *)
(* price (README.md:85-89).                                                *)
EntryIsMargined ==
  LET e == Last(log')
  IN  Len(log') > Len(log) /\ IsTrade(e) /\ e.action \in Entries /\ e.qty > 0 =>
        s.cash + Unrealized(s, e.px) - e.fee >= InitialMargin(Units(s') * e.px)

(* Some quantity beyond q that decision d still asks for fits at price px: *)
(* equity less the fee carries the initial margin of the whole position.   *)
Room(t, d, px, q) ==
  \E k \in (q + 1) .. d.qty :
    t.cash + Unrealized(t, px) - FeeRate(d.type) * k * px
      >= InitialMargin((Units(t) + d.dir * k) * px)

(* Of what was decided, an executed entry leaves out nothing that fits.    *)
EntryTakesAllThatFits ==
  LET d == Head(queue)
      e == Last(log')
  IN  Len(log') > Len(log) /\ e.kind = "trade" /\ e.action \in Entries =>
        /\ queue # <<>> /\ e.action = d.action /\ e.qty <= d.qty
        /\ e.px > 0 => ~Room(s, d, e.px, e.qty)

(* The clip is exact: an entry is covered, and is the largest that is      *)
(* (fee_aware_max_contract_qty; README.md:82-89).                          *)
EntriesAreClipped == [][EntryIsMargined /\ EntryTakesAllThatFits]_vars

(* A liquidation is recorded once, is the last event of its account, and   *)
(* freezes the state.                                                      *)
LiquidationIsFinal ==
  [][ /\ liquidated => liquidated' /\ s' = s /\ log' = log
      /\ liquidated' /\ ~liquidated => Last(log').kind = "liquidation" ]_vars

(* Every backtest reaches its last bar, whatever was planned on the way.   *)
Terminates == <>(stage = "idle" /\ n = MaxBars)

(* The README's promise for target actions: an opening or increasing       *)
(* target is clipped to what fits the equity at the fill price, so one     *)
(* that still fits at least one step is never refused (README.md:82-89).   *)
FittingEntriesAreClipped ==
  \A i \in 1 .. Len(log) :
    log[i].kind = "trade" /\ log[i].action \in Entries /\ log[i].qty > 0
      => log[i].status = "FILLED"
=============================================================================
