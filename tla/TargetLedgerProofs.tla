------------------------ MODULE TargetLedgerProofs ------------------------
(***************************************************************************)
(* The ledgers of TargetOrders agree with one another: fills with orders,  *)
(* superseded orders with the decision that replaced them, rebalances with *)
(* their legs, and the rows of one agent with nobody else's submissions.   *)
(***************************************************************************)
EXTENDS TargetOrdersProofs

(* What a step may write as the outcome of an order, and into the fills.   *)
Records ==
  /\ fills \subseteq fills'
  /\ \A o \in DOMAIN orders' \ DOMAIN orders : orders'[o].status = "accepted"
  /\ \A o \in DOMAIN orders :
       \/ orders'[o] = orders[o]
       \/ orders'[o].status \in {"rejected", "no_op", "cancelled"}
       \/ /\ TargetDerived(o) /\ orders'[o].status = "superseded"
          /\ orders'[o].by = nextRebalance
       \/ /\ orders'[o].status = "filled"
          /\ TargetDerived(o) => \E f \in fills' : f.order = o
  /\ \A f \in fills' \ fills :
       /\ f.order \in DOMAIN orders /\ Accepted(f.order) /\ TargetDerived(f.order)
       /\ orders'[f.order].status = "filled" /\ orders'[f.order].settled = f.ts

LEMMA SettleFields ==
  ASSUME Typed, NEW o \in DOMAIN orders, NEW status, NEW ts
  PROVE  Settle(o, status, ts).status = status /\ Settle(o, status, ts).settled = ts
<1>1. orders[o] \in OrderRows
  BY DEF Typed, TypeOK
<1> QED
  BY <1>1 DEF Settle, OrderRows

LEMMA MarketRecords ==
  ASSUME Typed, NEW batch \in SUBSET Assets, NEW tradable \in SUBSET batch,
         NEW ts \in Times, MarketStep(batch, tradable, ts)
  PROVE  Records
<1>1. PICK answer \in [Due(tradable, ts) -> {"filled", "rejected", "no_op", "accepted"}] :
        /\ orders' = [o \in DOMAIN orders |->
             CASE Accepted(o) /\ o.asset \in ExpiredBy(ts) \ expired ->
                    Settle(o, "cancelled", ts)
               [] o \in DOMAIN answer /\ answer[o] # "accepted" ->
                    Settle(o, answer[o], ts)
               [] Accepted(o) /\ o.asset \in tradable \ ExpiredBy(ts) /\ Forbidden(o) ->
                    Settle(o, "rejected", ts)
               [] OTHER -> orders[o]]
        /\ fills' = fills \cup
             {[order |-> o, ts |-> ts] :
                o \in {p \in DOMAIN answer : answer[p] = "filled" /\ TargetDerived(p)}}
  BY DEF MarketStep
<1>2. DOMAIN orders' = DOMAIN orders
  BY <1>1
<1>3. ASSUME NEW o \in Due(tradable, ts)
      PROVE  /\ o \in DOMAIN orders /\ Accepted(o) /\ o.asset \notin ExpiredBy(ts)
             /\ answer[o] # "accepted" => orders'[o] = Settle(o, answer[o], ts)
             /\ answer[o] \in {"filled", "rejected", "no_op", "accepted"}
  BY <1>1 DEF Due, Eligible
<1>4. ASSUME NEW o \in DOMAIN orders
      PROVE  \/ orders'[o] = orders[o]
             \/ orders'[o].status \in {"rejected", "no_op", "cancelled"}
             \/ /\ orders'[o].status = "filled"
                /\ TargetDerived(o) => \E f \in fills' : f.order = o
  <2>1. CASE o \in Due(tradable, ts) /\ answer[o] = "filled"
    <3>1. orders'[o].status = "filled"
      BY <1>3, <2>1, SettleFields
    <3>2. TargetDerived(o) => [order |-> o, ts |-> ts] \in fills'
      BY <1>1, <2>1
    <3> QED
      BY <3>1, <3>2
  <2>2. CASE o \in Due(tradable, ts) /\ answer[o] \in {"rejected", "no_op"}
    BY <1>3, <2>2, SettleFields
  <2>3. CASE ~(o \in Due(tradable, ts) /\ answer[o] # "accepted")
    <3>1. orders'[o] \in {Settle(o, "cancelled", ts), Settle(o, "rejected", ts), orders[o]}
      BY <1>1, <2>3
    <3> QED
      BY <3>1, SettleFields
  <2> QED
    BY <1>1, <2>1, <2>2, <2>3
<1>5. ASSUME NEW f \in fills' \ fills
      PROVE  /\ f.order \in DOMAIN orders /\ Accepted(f.order) /\ TargetDerived(f.order)
             /\ orders'[f.order].status = "filled" /\ orders'[f.order].settled = f.ts
  <2>1. PICK o \in Due(tradable, ts) :
          answer[o] = "filled" /\ TargetDerived(o) /\ f = [order |-> o, ts |-> ts]
    BY <1>1
  <2>2. f.order = o /\ f.ts = ts
    BY <2>1
  <2> QED
    BY <1>3, <2>1, <2>2, SettleFields
<1> QED
  BY <1>1, <1>2, <1>4, <1>5 DEF Records

LEMMA ReplacingRecords ==
  ASSUME Typed, fills' = fills, NEW agent \in Agents,
         NEW wanted \in SUBSET Assets, NEW ts \in Times, Replaces(agent, wanted, ts)
  PROVE  Records
<1>1. ASSUME NEW o \in DOMAIN orders
      PROVE  \/ orders'[o] = orders[o]
             \/ /\ TargetDerived(o) /\ orders'[o].status = "superseded"
                /\ orders'[o].by = nextRebalance
  <2>1. orders[o] \in OrderRows
    BY DEF Typed, TypeOK
  <2>2. /\ Supersede(o, nextRebalance, ts).status = "superseded"
        /\ Supersede(o, nextRebalance, ts).by = nextRebalance
    BY <2>1 DEF Supersede, Settle, OrderRows
  <2> QED
    BY <2>2 DEF Replaces, Pending
<1>2. ASSUME NEW o \in DOMAIN orders' \ DOMAIN orders
      PROVE  orders'[o].status = "accepted"
  <2>1. orders'[o] = Row(agent, ts, ts, "market")
    BY <1>2 DEF Replaces
  <2> QED
    BY <2>1 DEF Row
<1> QED
  BY <1>1, <1>2 DEF Records

LEMMA PlaceRecords ==
  ASSUME Typed, NEW agent \in Agents, NEW asset \in Assets, NEW ts \in Times,
         NEW type \in {"market", "limit"}, PlaceOrder(agent, asset, ts, type)
  PROVE  Records
<1> DEFINE p == OrderId(NA, asset, nextExplicit)
<1>1. /\ DOMAIN orders' = DOMAIN orders \cup {p}
      /\ \A o \in DOMAIN orders' : orders'[o] = IF o = p THEN Row(agent, ts, NA, type) ELSE orders[o]
  BY DEF PlaceOrder
<1>2. Row(agent, ts, NA, type).status = "accepted"
  BY DEF Row
<1>3. \A o \in DOMAIN orders : orders'[o] = orders[o]
  <2>1. p \notin DOMAIN orders
    <3>1. p.leg = nextExplicit /\ ~TargetDerived(p) /\ nextExplicit \in Nat
      BY DEF OrderId, TargetDerived, Typed, TypeOK
    <3>2. p \in DOMAIN orders => p.leg < nextExplicit
      BY <3>1 DEF Typed, NewIds
    <3> QED
      BY <3>1, <3>2
  <2> QED
    BY <1>1, <2>1
<1>4. fills' = fills
  BY DEF PlaceOrder
<1> QED
  BY <1>1, <1>2, <1>3, <1>4 DEF Records

LEMMA CancelRecords ==
  ASSUME Typed, NEW p \in DOMAIN orders, CancelOrder(p)
  PROVE  Records
<1>1. orders[p] \in OrderRows
  BY DEF Typed, TypeOK
<1>2. /\ DOMAIN orders' = DOMAIN orders
      /\ \A o \in DOMAIN orders : o # p => orders'[o] = orders[o]
      /\ orders'[p] = [orders[p] EXCEPT !.status = "cancelled"]
  BY DEF CancelOrder, Typed, TypeOK
<1>3. orders'[p].status = "cancelled"
  BY <1>1, <1>2 DEF OrderRows
<1>4. fills' = fills
  BY DEF CancelOrder
<1> QED
  BY <1>2, <1>3, <1>4 DEF Records

-----------------------------------------------------------------------------
(* What a submission adds to the ledgers is its own agent's. *)

Additions(agent) ==
  /\ \A q \in DOMAIN rebalances' \ DOMAIN rebalances :
       /\ q = nextRebalance /\ rebalances'[q].agent = agent
       /\ rebalances'[q].status \in {"accepted", "rejected", "no_op"}
       /\ rebalances'[q].status # "accepted" => DOMAIN orders' = DOMAIN orders
  /\ \A o \in DOMAIN orders' \ DOMAIN orders :
       orders'[o].agent = agent /\ o.reb \in DOMAIN rebalances' \ DOMAIN rebalances
  /\ \A t \in DOMAIN targets' \ DOMAIN targets : targets'[t].agent = agent

(* A step between submissions: no target order, target or rebalance is     *)
(* written but for the outcome of orders.                                  *)
Between == Quiet /\ Records /\ rebalances' = rebalances /\ nextRebalance' = nextRebalance

Rejects(agent) ==
  /\ orders' = orders /\ targets' = targets /\ fills' = fills
  /\ \A q \in DOMAIN rebalances : q \in DOMAIN rebalances' /\ rebalances'[q] = rebalances[q]
  /\ Additions(agent)

Replaced(agent, wanted, ts) ==
  Replaces(agent, wanted, ts) /\ fills' = fills /\ Additions(agent)

LEMMA RejectAdds ==
  ASSUME Typed, NEW agent \in Agents, NEW allowed \in Universes,
         NEW decided \in SUBSET Assets, NEW ts \in Times,
         RejectTargets(agent, allowed, decided, ts)
  PROVE  Rejects(agent)
<1>1. rebalances' = [q \in DOMAIN rebalances \cup {nextRebalance} |->
                       IF q = nextRebalance THEN RebalanceRow(agent, ts, "rejected")
                       ELSE rebalances[q]]
      /\ orders' = orders /\ targets' = targets /\ fills' = fills
  BY DEF RejectTargets, Decides, SetUniverse
<1>2. nextRebalance \notin DOMAIN rebalances
  BY DEF Typed, TypeOK, NewIds
<1>3. /\ RebalanceRow(agent, ts, "rejected").agent = agent
      /\ RebalanceRow(agent, ts, "rejected").status = "rejected"
  BY DEF RebalanceRow
<1> QED
  BY <1>1, <1>2, <1>3 DEF Rejects, Additions

LEMMA FailAdds ==
  ASSUME Typed, NEW agent \in Agents, NEW allowed \in Universes,
         NEW decided \in SUBSET Assets, NEW ts \in Times, NEW wanted \in SUBSET allowed,
         FailPlan(agent, allowed, decided, ts, wanted)
  PROVE  Replaced(agent, wanted, ts)
<1>1. Replaces(agent, wanted, ts)
  BY FailReplaces
<1>2. /\ DOMAIN orders' = DOMAIN orders /\ DOMAIN targets' = DOMAIN targets
      /\ DOMAIN rebalances' = DOMAIN rebalances
  BY DEF FailPlan, SupersedeOrders, SupersedeTargets, CloseRebalances
<1>3. fills' = fills
  BY DEF FailPlan, Decides, SetUniverse
<1> QED
  BY <1>1, <1>2, <1>3 DEF Replaced, Additions

LEMMA SubmitAdds ==
  ASSUME Typed, NEW agent \in Agents, NEW allowed \in Universes,
         NEW decided \in SUBSET Assets, NEW ts \in Times, NEW wanted \in SUBSET allowed,
         NEW legs \in [wanted -> OrderCounts],
         SubmitTargets(agent, allowed, decided, ts, legs)
  PROVE  Replaced(agent, wanted, ts)
<1> DEFINE r == nextRebalance
           new == NewOrders(r, legs)
<1>0. r \in Nat /\ DOMAIN legs = wanted
  BY DEF Typed, TypeOK
<1>1. Replaces(agent, wanted, ts)
  BY SubmitReplaces
<1>2. /\ DOMAIN orders' = DOMAIN orders \cup new
      /\ DOMAIN targets' = DOMAIN targets \cup ({r} \X wanted)
      /\ \A t \in {r} \X wanted : targets'[t].agent = agent
  BY <1>0 DEF SubmitTargets, NewOrders
<1>3. rebalances' = [q \in DOMAIN rebalances \cup {r} |->
                      IF q = r
                      THEN RebalanceRow(agent, ts, IF new = {} THEN "no_op" ELSE "accepted")
                      ELSE CloseRebalances(agent, wanted, r)[q]]
  BY <1>0 DEF SubmitTargets, NewOrders
<1>4. r \notin DOMAIN rebalances
  BY DEF Typed, TypeOK, NewIds
<1>5. r \in DOMAIN rebalances' /\ rebalances'[r].agent = agent
      /\ rebalances'[r].status = IF new = {} THEN "no_op" ELSE "accepted"
  BY <1>3 DEF RebalanceRow
<1>6. \A q \in DOMAIN rebalances' \ DOMAIN rebalances : q = r
  BY <1>3
<1>7. ASSUME NEW o \in DOMAIN orders' \ DOMAIN orders
      PROVE  o.reb = r /\ orders'[o].agent = agent
  <2>1. o.reb = r /\ orders'[o] = Row(agent, ts, ts, "market")
    BY <1>1, <1>7 DEF Replaces
  <2> QED
    BY <2>1 DEF Row
<1>8. Additions(agent)
  BY <1>2, <1>4, <1>5, <1>6, <1>7 DEF Additions
<1>9. fills' = fills
  BY DEF SubmitTargets, Decides, SetUniverse
<1> QED
  BY <1>1, <1>8, <1>9 DEF Replaced

(* Every step lies between submissions, or is a submission of one agent.   *)
LEMMA StepSubmissions ==
  ASSUME Typed, [Next]_vars
  PROVE  \/ Between
         \/ \E agent \in Agents : Rejects(agent)
         \/ \E agent \in Agents, wanted \in SUBSET Assets, ts \in Times :
              Replaced(agent, wanted, ts)
<1>1. ASSUME UNCHANGED ledgers
      PROVE  Between
  BY <1>1 DEF ledgers, Between, Quiet, Durable, Records
<1>2. CASE UNCHANGED vars
  BY <1>1, <1>2 DEF vars
<1>3. CASE \E batch \in SUBSET Assets \ {{}}, ts \in Times :
             \/ ValuationStep(batch, ts)
             \/ \E tradable \in SUBSET batch : MarketStep(batch, tradable, ts)
  <2>1. ASSUME NEW batch \in SUBSET Assets, NEW ts \in Times, ValuationStep(batch, ts)
        PROVE  Between
    BY <1>1, <2>1 DEF ValuationStep
  <2>2. ASSUME NEW batch \in SUBSET Assets, NEW tradable \in SUBSET batch, NEW ts \in Times,
               MarketStep(batch, tradable, ts)
        PROVE  Between
    <3>1. Quiet /\ Records
      BY <2>2, MarketQuiet, MarketRecords
    <3> QED
      BY <2>2, <3>1 DEF MarketStep, Between
  <2> QED
    BY <1>3, <2>1, <2>2
<1>4. CASE \E agent \in Agents, allowed \in Universes, decided \in SUBSET Assets, ts \in Times :
             \/ NoDecision(agent, allowed, decided, ts)
             \/ RejectTargets(agent, allowed, decided, ts)
             \/ \E wanted \in SUBSET allowed :
                  \/ FailPlan(agent, allowed, decided, ts, wanted)
                  \/ \E legs \in [wanted -> OrderCounts] :
                       SubmitTargets(agent, allowed, decided, ts, legs)
  <2>1. PICK agent \in Agents, allowed \in Universes, decided \in SUBSET Assets, ts \in Times :
             \/ NoDecision(agent, allowed, decided, ts)
             \/ RejectTargets(agent, allowed, decided, ts)
             \/ \E wanted \in SUBSET allowed :
                  \/ FailPlan(agent, allowed, decided, ts, wanted)
                  \/ \E legs \in [wanted -> OrderCounts] :
                       SubmitTargets(agent, allowed, decided, ts, legs)
    BY <1>4
  <2>2. CASE NoDecision(agent, allowed, decided, ts)
    BY <1>1, <2>2 DEF NoDecision, SetUniverse, ledgers
  <2>3. CASE RejectTargets(agent, allowed, decided, ts)
    BY <2>3, RejectAdds
  <2>4. CASE \E wanted \in SUBSET allowed :
               \/ FailPlan(agent, allowed, decided, ts, wanted)
               \/ \E legs \in [wanted -> OrderCounts] :
                    SubmitTargets(agent, allowed, decided, ts, legs)
    <3>1. PICK wanted \in SUBSET allowed : Replaced(agent, wanted, ts)
      BY <2>4, FailAdds, SubmitAdds
    <3>2. wanted \in SUBSET Assets
      BY TargetOrdersAssumption
    <3> QED
      BY <3>1, <3>2
  <2> QED
    BY <2>1, <2>2, <2>3, <2>4
<1>5. CASE \E agent \in Agents, asset \in Assets, ts \in Times, type \in {"market", "limit"} :
             PlaceOrder(agent, asset, ts, type)
  BY <1>5, PlaceQuiet, PlaceRecords DEF PlaceOrder, Between
<1>6. CASE \E o \in DOMAIN orders : CancelOrder(o)
  BY <1>6, CancelQuiet, CancelRecords DEF CancelOrder, Between
<1> QED
  BY <1>2, <1>3, <1>4, <1>5, <1>6 DEF Next

LEMMA StepRecords ==
  ASSUME Typed, [Next]_vars
  PROVE  Records
<1>1. ASSUME NEW agent \in Agents, Rejects(agent)
      PROVE  Records
  BY <1>1 DEF Rejects, Records
<1>2. ASSUME NEW agent \in Agents, NEW wanted \in SUBSET Assets, NEW ts \in Times,
             Replaced(agent, wanted, ts)
      PROVE  Records
  BY <1>2, ReplacingRecords DEF Replaced
<1> QED
  BY <1>1, <1>2, StepSubmissions DEF Between

-----------------------------------------------------------------------------
(* Fills and orders. *)

LEMMA StepAgrees ==
  ASSUME Typed, FillLedgerAgrees, [Next]_vars
  PROVE  FillLedgerAgrees'
<1>1. Records /\ Durable
  BY StepRecords, StepDurable
<1>2. ASSUME NEW f \in fills'
      PROVE  /\ f.order \in DOMAIN orders'
             /\ orders'[f.order].status = "filled" /\ orders'[f.order].settled = f.ts
  <2>1. CASE f \in fills
    <3>1. /\ f.order \in DOMAIN orders
          /\ orders[f.order].status = "filled" /\ orders[f.order].settled = f.ts
      BY <2>1 DEF FillLedgerAgrees
    <3>2. f.order \in DOMAIN orders' /\ orders'[f.order] = orders[f.order]
      BY <1>1, <3>1 DEF Durable, Accepted
    <3> QED
      BY <3>1, <3>2
  <2>2. CASE f \notin fills
    BY <1>1, <1>2, <2>2 DEF Records, Durable
  <2> QED
    BY <2>1, <2>2
<1>3. ASSUME NEW o \in DOMAIN orders', TargetDerived(o), orders'[o].status = "filled"
      PROVE  \E f \in fills' : f.order = o
  <2>1. o \in DOMAIN orders
    BY <1>1, <1>3 DEF Records
  <2>2. CASE orders'[o] = orders[o]
    BY <1>1, <1>3, <2>1, <2>2 DEF FillLedgerAgrees, Records
  <2>3. CASE orders'[o] # orders[o]
    BY <1>1, <1>3, <2>1, <2>3 DEF Records
  <2> QED
    BY <2>2, <2>3
<1> QED
  BY <1>2, <1>3 DEF FillLedgerAgrees, TargetDerived

LEMMA AgreementInvariant == Spec => [](Typed /\ FillLedgerAgrees)
<1>1. Init => Typed /\ FillLedgerAgrees
  BY InitTyped DEF Init, FillLedgerAgrees
<1>2. Typed /\ FillLedgerAgrees /\ [Next]_vars => (Typed /\ FillLedgerAgrees)'
  BY StepTyped, StepAgrees
<1> QED
  BY <1>1, <1>2, PTL DEF Spec

(* Every fill of the ledger is the fill of an order recorded as filled at  *)
(* that time, and every filled target order has its fill, whatever expires,*)
(* is cancelled or is superseded around it (.append_portfolio_fill).       *)
THEOREM FillsMatchOrders == Spec => []FillLedgerAgrees
BY AgreementInvariant, PTL

-----------------------------------------------------------------------------
(* Supersession. *)

LEMMA StepSuperseded ==
  ASSUME Typed, SupersededByNewer, [Next]_vars
  PROVE  SupersededByNewer'
<1>1. Records
  BY StepRecords
<1>2. ASSUME NEW o \in DOMAIN orders', orders'[o].status = "superseded"
      PROVE  TargetDerived(o) /\ orders'[o].by > o.reb
  <2>1. o \in DOMAIN orders
    BY <1>1, <1>2 DEF Records
  <2>2. CASE orders'[o] = orders[o]
    BY <1>2, <2>1, <2>2 DEF SupersededByNewer
  <2>3. CASE orders'[o] # orders[o]
    <3>1. TargetDerived(o) /\ orders'[o].by = nextRebalance
      BY <1>1, <1>2, <2>1, <2>3 DEF Records
    <3>2. o.reb < nextRebalance /\ nextRebalance \in Nat /\ o.reb \in Nat
      BY <2>1, <3>1 DEF Typed, NewIds, TypeOK, TargetDerived, OrderIds
    <3> QED
      BY <3>1, <3>2
  <2> QED
    BY <2>2, <2>3
<1> QED
  BY <1>2 DEF SupersededByNewer, TargetDerived

(* An order that reads superseded came from a decision, and the decision   *)
(* it names as its successor was submitted later: explicit orders are      *)
(* never superseded and no chain runs backwards or in a circle.            *)
THEOREM OnlyNewerSupersede == Spec => []SupersededByNewer
<1>1. Init => SupersededByNewer
  BY DEF Init, SupersededByNewer
<1>2. Typed /\ SupersededByNewer /\ [Next]_vars => SupersededByNewer'
  BY StepSuperseded
<1> QED
  BY <1>1, <1>2, TypedInvariant, PTL DEF Spec

-----------------------------------------------------------------------------
(* Rebalances and their legs. *)

LEMMA BetweenOutcome ==
  ASSUME Typed, RebalanceOutcome, Between
  PROVE  RebalanceOutcome'
<1> SUFFICES ASSUME NEW q \in DOMAIN rebalances
             PROVE  LET status == rebalances[q].status
                        pending == \E o \in DOMAIN orders' : o.reb = q /\ Accepted(o)'
                        filled == \E f \in fills' : f.order.reb = q
                    IN  /\ status \in {"superseded", "partially_superseded"} =>
                             ~pending /\ (filled <=> status = "partially_superseded")
                        /\ status \in {"rejected", "no_op"} => \A o \in DOMAIN orders' : o.reb # q
  BY DEF Between, RebalanceOutcome
<1>1. q # NA
  BY TargetOrdersAssumption DEF Typed, TypeOK
<1>2. ASSUME NEW o \in DOMAIN orders', o.reb = q
      PROVE  o \in DOMAIN orders
  BY <1>1, <1>2 DEF Between, Quiet, TargetDerived
<1>3. ASSUME NEW o \in DOMAIN orders', o.reb = q, Accepted(o)'
      PROVE  o \in DOMAIN orders /\ Accepted(o)
  <2>1. TargetDerived(o)
    BY <1>1, <1>3 DEF TargetDerived
  <2> QED
    BY <1>3, <2>1, AfterQuiet DEF Between
<1>4. CASE rebalances[q].status \in {"superseded", "partially_superseded"}
  <2>1. /\ \A o \in DOMAIN orders : ~(o.reb = q /\ Accepted(o))
        /\ (\E f \in fills : f.order.reb = q) <=> rebalances[q].status = "partially_superseded"
    BY <1>4 DEF RebalanceOutcome
  <2>2. \A f \in fills' : f.order.reb = q => f \in fills
    BY <2>1 DEF Between, Records
  <2>3. fills \subseteq fills'
    BY DEF Between, Records
  <2> QED
    BY <1>3, <1>4, <2>1, <2>2, <2>3
<1>5. CASE rebalances[q].status \in {"rejected", "no_op"}
  BY <1>2, <1>5 DEF RebalanceOutcome
<1> QED
  BY <1>4, <1>5

(* The next rebalance has neither legs nor fills yet.                      *)
LEMMA NumberedAhead ==
  ASSUME Typed
  PROVE  /\ \A o \in DOMAIN orders : o.reb # nextRebalance
         /\ \A f \in fills : f.order \in DOMAIN orders => f.order.reb # nextRebalance
<1>1. ASSUME NEW o \in DOMAIN orders
      PROVE  o.reb # nextRebalance
  <2>1. nextRebalance \in Nat /\ nextRebalance # NA
    BY TargetOrdersAssumption DEF Typed, TypeOK
  <2>2. o.reb # NA => o.reb < nextRebalance
    BY DEF Typed, NewIds, TargetDerived
  <2> QED
    BY <2>1, <2>2
<1> QED
  BY <1>1

LEMMA RejectedOutcome ==
  ASSUME Typed, RebalanceOutcome, NEW agent \in Agents, Rejects(agent)
  PROVE  RebalanceOutcome'
<1> SUFFICES ASSUME NEW q \in DOMAIN rebalances'
             PROVE  LET status == rebalances'[q].status
                        pending == \E o \in DOMAIN orders : o.reb = q /\ Accepted(o)
                        filled == \E f \in fills : f.order.reb = q
                    IN  /\ status \in {"superseded", "partially_superseded"} =>
                             ~pending /\ (filled <=> status = "partially_superseded")
                        /\ status \in {"rejected", "no_op"} => \A o \in DOMAIN orders : o.reb # q
  BY DEF Rejects, RebalanceOutcome, Accepted
<1>1. CASE q \in DOMAIN rebalances
  <2>1. rebalances'[q] = rebalances[q]
    BY <1>1 DEF Rejects
  <2> QED
    BY <1>1, <2>1 DEF RebalanceOutcome
<1>2. CASE q \notin DOMAIN rebalances
  <2>1. q = nextRebalance /\ rebalances'[q].status \in {"accepted", "rejected", "no_op"}
    BY <1>2 DEF Rejects, Additions
  <2> QED
    BY <2>1, NumberedAhead
<1> QED
  BY <1>1, <1>2

LEMMA ReplacedOutcome ==
  ASSUME Typed, RebalanceOutcome, NEW agent \in Agents, NEW wanted \in SUBSET Assets,
         NEW ts \in Times, Replaced(agent, wanted, ts)
  PROVE  RebalanceOutcome'
<1> SUFFICES ASSUME NEW q \in DOMAIN rebalances'
             PROVE  LET status == rebalances'[q].status
                        pending == \E o \in DOMAIN orders' : o.reb = q /\ Accepted(o)'
                        filled == \E f \in fills : f.order.reb = q
                    IN  /\ status \in {"superseded", "partially_superseded"} =>
                             ~pending /\ (filled <=> status = "partially_superseded")
                        /\ status \in {"rejected", "no_op"} => \A o \in DOMAIN orders' : o.reb # q
  BY DEF Replaced, RebalanceOutcome
<1>1. Replaces(agent, wanted, ts) /\ Additions(agent)
  BY DEF Replaced
<1>2. CASE q \notin DOMAIN rebalances
  <2>1. /\ q = nextRebalance /\ rebalances'[q].status \in {"accepted", "rejected", "no_op"}
        /\ rebalances'[q].status # "accepted" => DOMAIN orders' = DOMAIN orders
    BY <1>1, <1>2 DEF Additions
  <2> QED
    BY <2>1, NumberedAhead
<1>3. CASE q \in DOMAIN rebalances
  <2>1. q # NA /\ q # nextRebalance
    BY <1>3, TargetOrdersAssumption DEF Typed, TypeOK, NewIds
  <2>2. ASSUME NEW o \in DOMAIN orders', o.reb = q
        PROVE  o \in DOMAIN orders
    BY <1>1, <2>1, <2>2 DEF Replaces
  <2>3. ASSUME NEW o \in DOMAIN orders', o.reb = q, Accepted(o)'
        PROVE  o \in DOMAIN orders /\ Accepted(o) /\ o \notin Pending(agent, wanted)
    <3>1. TargetDerived(o)
      BY <2>1, <2>3 DEF TargetDerived
    <3>2. /\ o \in DOMAIN orders /\ Accepted(o)
          /\ ~(orders[o].agent = agent /\ o.asset \in wanted)
      BY <1>1, <2>1, <2>3, <3>1, AfterReplacing
    <3> QED
      BY <3>2 DEF Pending
  <2>4. rebalances'[q] = CloseRebalances(agent, wanted, nextRebalance)[q]
    BY <1>1, <1>3 DEF Replaces
  <2>5. CASE q \in Closed(agent, wanted)
    <3>1. rebalances[q] \in RebalanceRows
      BY <1>3 DEF Typed, TypeOK
    <3>2. rebalances'[q].status =
            IF HasFills(q) THEN "partially_superseded" ELSE "superseded"
      BY <1>3, <2>4, <2>5, <3>1 DEF CloseRebalances, RebalanceRows
    <3>3. \A o \in DOMAIN orders : o.reb = q /\ Accepted(o) => o \in Pending(agent, wanted)
      BY <2>5 DEF Closed
    <3>4. \A o \in DOMAIN orders' : ~(o.reb = q /\ Accepted(o)')
      BY <2>3, <3>3
    <3> QED
      BY <3>2, <3>4 DEF HasFills
  <2>6. CASE q \notin Closed(agent, wanted)
    <3>1. rebalances'[q] = rebalances[q]
      BY <1>3, <2>4, <2>6 DEF CloseRebalances
    <3> QED
      BY <1>3, <2>2, <2>3, <3>1 DEF RebalanceOutcome
  <2> QED
    BY <2>5, <2>6
<1> QED
  BY <1>2, <1>3

(* A rebalance that a later decision closed has nothing left pending and   *)
(* never gets a fill again, and it reads "partially_superseded" exactly    *)
(* when one of its legs did execute; a rejected or no-op one never has     *)
(* orders (.portfolio_supersede_pending_targets).                          *)
THEOREM ClosedRebalances == Spec => []RebalanceOutcome
<1>1. Init => RebalanceOutcome
  BY DEF Init, RebalanceOutcome
<1>2. ASSUME Typed, RebalanceOutcome, [Next]_vars
      PROVE  RebalanceOutcome'
  BY <1>2, StepSubmissions, BetweenOutcome, RejectedOutcome, ReplacedOutcome
<1> QED
  BY <1>1, <1>2, TypedInvariant, PTL DEF Spec

-----------------------------------------------------------------------------
(* Agents. *)

(* A leg belongs to the agent of the rebalance that numbers it.            *)
LegOwners ==
  \A o \in DOMAIN orders :
    TargetDerived(o) =>
      o.reb \in DOMAIN rebalances /\ rebalances[o.reb].agent = orders[o].agent

LEMMA StepOwners ==
  ASSUME Typed, LegOwners, [Next]_vars
  PROVE  LegOwners'
<1>1. ASSUME NEW q \in DOMAIN rebalances
      PROVE  q \in DOMAIN rebalances' /\ rebalances'[q].agent = rebalances[q].agent
  <2>1. ASSUME NEW agent \in Agents, NEW wanted \in SUBSET Assets, NEW ts \in Times,
               Replaced(agent, wanted, ts)
        PROVE  q \in DOMAIN rebalances' /\ rebalances'[q].agent = rebalances[q].agent
    <3>1. rebalances[q] \in RebalanceRows
      BY DEF Typed, TypeOK
    <3>2. q \in DOMAIN rebalances'
          /\ rebalances'[q] = CloseRebalances(agent, wanted, nextRebalance)[q]
      BY <2>1 DEF Replaced, Replaces
    <3> QED
      BY <3>1, <3>2 DEF CloseRebalances, RebalanceRows
  <2> QED
    BY <2>1, StepSubmissions DEF Between, Rejects
<1>2. ASSUME NEW o \in DOMAIN orders' \ DOMAIN orders, TargetDerived(o)
      PROVE  o.reb \in DOMAIN rebalances' /\ rebalances'[o.reb].agent = orders'[o].agent
  <2>1. PICK agent \in Agents : Additions(agent)
    BY <1>2, StepSubmissions DEF Between, Quiet, Rejects, Replaced
  <2> QED
    BY <1>2, <2>1 DEF Additions
<1>3. ASSUME NEW o \in DOMAIN orders, TargetDerived(o)
      PROVE  o.reb \in DOMAIN rebalances' /\ rebalances'[o.reb].agent = orders'[o].agent
  <2>1. orders'[o].agent = orders[o].agent
    BY StepDurable DEF Durable
  <2> QED
    BY <1>1, <1>3, <2>1 DEF LegOwners
<1> QED
  BY <1>2, <1>3 DEF LegOwners, TargetDerived

LEMMA OwnersInvariant == Spec => [](Typed /\ LegOwners)
<1>1. Init => Typed /\ LegOwners
  BY InitTyped DEF Init, LegOwners
<1>2. Typed /\ LegOwners /\ [Next]_vars => (Typed /\ LegOwners)'
  BY StepTyped, StepOwners
<1> QED
  BY <1>1, <1>2, PTL DEF Spec

(* The rows of the agents other than g stay as they are.                   *)
OnlyOf(g) ==
  /\ \A o \in DOMAIN orders' :
       orders'[o].agent # g => o \in DOMAIN orders /\ orders'[o] = orders[o]
  /\ \A t \in DOMAIN targets' :
       targets'[t].agent # g => t \in DOMAIN targets /\ targets'[t] = targets[t]
  /\ \A q \in DOMAIN rebalances' :
       rebalances'[q].agent # g => q \in DOMAIN rebalances /\ rebalances'[q] = rebalances[q]

LEMMA RejectedIsolated ==
  ASSUME NEW agent \in Agents, Rejects(agent)
  PROVE  OnlyOf(agent)
BY DEF Rejects, Additions, OnlyOf

LEMMA ReplacedIsolated ==
  ASSUME Typed, LegOwners, NEW agent \in Agents, NEW wanted \in SUBSET Assets,
         NEW ts \in Times, Replaced(agent, wanted, ts)
  PROVE  OnlyOf(agent)
<1>1. Replaces(agent, wanted, ts) /\ Additions(agent)
  BY DEF Replaced
<1>2. ASSUME NEW o \in DOMAIN orders', orders'[o].agent # agent
      PROVE  o \in DOMAIN orders /\ orders'[o] = orders[o]
  <2>1. o \in DOMAIN orders
    BY <1>1, <1>2 DEF Additions
  <2>2. CASE o \in Pending(agent, wanted)
    <3>1. orders[o] \in OrderRows /\ orders[o].agent = agent
      BY <2>1, <2>2 DEF Typed, TypeOK, Pending
    <3>2. orders'[o] = Supersede(o, nextRebalance, ts)
      BY <1>1, <2>1, <2>2 DEF Replaces
    <3> QED
      BY <1>2, <3>1, <3>2 DEF Supersede, Settle, OrderRows
  <2>3. CASE o \notin Pending(agent, wanted)
    BY <1>1, <2>1, <2>3 DEF Replaces
  <2> QED
    BY <2>1, <2>2, <2>3
<1>3. ASSUME NEW t \in DOMAIN targets', targets'[t].agent # agent
      PROVE  t \in DOMAIN targets /\ targets'[t] = targets[t]
  <2>1. t \in DOMAIN targets
    BY <1>1, <1>3 DEF Additions
  <2>2. targets'[t] = SupersedeTargets(agent, wanted, nextRebalance)[t]
        /\ targets[t] \in TargetRows
    BY <1>1, <2>1 DEF Replaces, Typed, TypeOK
  <2>3. targets[t].agent = agent \/ targets'[t] = targets[t]
    BY <2>1, <2>2 DEF SupersedeTargets
  <2>4. targets'[t].agent = targets[t].agent
    BY <2>1, <2>2 DEF SupersedeTargets, TargetRows
  <2> QED
    BY <1>3, <2>1, <2>3, <2>4
<1>4. ASSUME NEW q \in DOMAIN rebalances', rebalances'[q].agent # agent
      PROVE  q \in DOMAIN rebalances /\ rebalances'[q] = rebalances[q]
  <2>1. q \in DOMAIN rebalances
    BY <1>1, <1>4 DEF Additions
  <2>2. rebalances'[q] = CloseRebalances(agent, wanted, nextRebalance)[q]
        /\ rebalances[q] \in RebalanceRows
    BY <1>1, <2>1 DEF Replaces, Typed, TypeOK
  <2>3. rebalances'[q].agent = rebalances[q].agent
    BY <2>1, <2>2 DEF CloseRebalances, RebalanceRows
  <2>4. q \in Closed(agent, wanted) => rebalances[q].agent = agent
    BY DEF Closed, Pending, LegOwners
  <2> QED
    BY <1>4, <2>1, <2>2, <2>3, <2>4 DEF CloseRebalances
<1> QED
  BY <1>2, <1>3, <1>4 DEF OnlyOf

(* A submission adds or changes orders, targets and rebalances of one      *)
(* agent only, however many agents share an asset and whatever of theirs   *)
(* is pending on it (.portfolio_supersede_pending_targets).                *)
THEOREM SubmissionsAreIsolated == Spec => AgentsAreIsolated
<1>1. Typed /\ LegOwners /\ [Next]_vars =>
        [ nextRebalance' # nextRebalance => \E g \in Agents : OnlyOf(g) ]_vars
  BY StepSubmissions, RejectedIsolated, ReplacedIsolated DEF Between
<1> QED
  BY <1>1, OwnersInvariant, PTL DEF Spec, AgentsAreIsolated, OnlyOf
=============================================================================
