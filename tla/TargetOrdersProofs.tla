------------------------ MODULE TargetOrdersProofs ------------------------
(***************************************************************************)
(* Proofs about TargetOrders, for every number of agents, assets and       *)
(* decisions.                                                              *)
(***************************************************************************)
EXTENDS TargetOrders, TLAPS

(* Identifiers are never reused: the counters are ahead of every ledger.   *)
NewIds ==
  /\ \A o \in DOMAIN orders :
       IF TargetDerived(o) THEN o.reb < nextRebalance ELSE o.leg < nextExplicit
  /\ \A t \in DOMAIN targets : t[1] < nextRebalance
  /\ \A q \in DOMAIN rebalances : q < nextRebalance

-----------------------------------------------------------------------------
(* Rows keep their type. *)

LEMMA SettleType ==
  ASSUME TypeOK, NEW o \in DOMAIN orders, NEW status \in Terminal, NEW ts \in Nat
  PROVE  Settle(o, status, ts) \in OrderRows
<1>1. orders[o] \in OrderRows
  BY DEF TypeOK
<1>2. status \in Terminal \cup {"accepted"}
  OBVIOUS
<1> QED
  BY <1>1, <1>2 DEF Settle, OrderRows

LEMMA SupersedeType ==
  ASSUME TypeOK, NEW o \in DOMAIN orders, NEW r \in Nat, NEW ts \in Nat
  PROVE  Supersede(o, r, ts) \in OrderRows
<1>1. "superseded" \in Terminal
  BY DEF Terminal
<1>2. Settle(o, "superseded", ts) \in OrderRows
  BY <1>1, SettleType
<1> QED
  BY <1>2 DEF Supersede, OrderRows

LEMMA RowType ==
  ASSUME NEW agent \in Agents, NEW ts \in Nat, NEW after \in Nat \cup {NA},
         NEW type \in {"market", "limit"}
  PROVE  Row(agent, ts, after, type) \in OrderRows
BY DEF Row, OrderRows, Terminal

LEMMA TimesAreNat == Times \subseteq Nat
BY TargetOrdersAssumption DEF Times

(* The three ledgers keep their types when a decision supersedes.          *)
LEMMA SupersededTypes ==
  ASSUME TypeOK, NEW agent \in Agents, NEW wanted \in SUBSET Assets,
         NEW r \in Nat, NEW ts \in Nat
  PROVE  /\ SupersedeOrders(agent, wanted, r, ts) \in [DOMAIN orders -> OrderRows]
         /\ SupersedeTargets(agent, wanted, r) \in [DOMAIN targets -> TargetRows]
         /\ CloseRebalances(agent, wanted, r) \in [DOMAIN rebalances -> RebalanceRows]
<1>1. SupersedeOrders(agent, wanted, r, ts) \in [DOMAIN orders -> OrderRows]
  BY SupersedeType DEF SupersedeOrders, TypeOK
<1>2. SupersedeTargets(agent, wanted, r) \in [DOMAIN targets -> TargetRows]
  BY DEF SupersedeTargets, TypeOK, TargetRows
<1>3. CloseRebalances(agent, wanted, r) \in [DOMAIN rebalances -> RebalanceRows]
  BY DEF CloseRebalances, TypeOK, RebalanceRows
<1> QED
  BY <1>1, <1>2, <1>3

-----------------------------------------------------------------------------
(* Types and identifiers are inductive, one lemma per action. *)

Typed == TypeOK /\ NewIds

LEMMA ValuationTyped ==
  ASSUME Typed, NEW batch \in SUBSET Assets, NEW ts \in Times, ValuationStep(batch, ts)
  PROVE  Typed'
<1>1. ts \in Nat
  BY TimesAreNat
<1>2. lastBar' \in [Assets -> Nat]
  BY <1>1 DEF ValuationStep, Typed, TypeOK
<1> QED
  BY <1>2 DEF ValuationStep, Typed, TypeOK, NewIds, ledgers, TargetDerived

(* What a market step does to the order ledger, row by row. *)
LEMMA MarketRows ==
  ASSUME Typed, NEW batch \in SUBSET Assets, NEW tradable \in SUBSET batch,
         NEW ts \in Times, MarketStep(batch, tradable, ts)
  PROVE  /\ DOMAIN orders' = DOMAIN orders
         /\ \A o \in DOMAIN orders :
              \/ orders'[o] = orders[o]
              \/ /\ Accepted(o)
                 /\ \E status \in Terminal : orders'[o] = Settle(o, status, ts)
<1>1. PICK answer \in [Due(tradable, ts) -> {"filled", "rejected", "no_op", "accepted"}] :
        orders' = [o \in DOMAIN orders |->
            CASE Accepted(o) /\ o.asset \in ExpiredBy(ts) \ expired ->
                   Settle(o, "cancelled", ts)
              [] o \in DOMAIN answer /\ answer[o] # "accepted" ->
                   Settle(o, answer[o], ts)
              [] Accepted(o) /\ o.asset \in tradable \ ExpiredBy(ts) /\ Forbidden(o) ->
                   Settle(o, "rejected", ts)
              [] OTHER -> orders[o]]
  BY DEF MarketStep
<1>2. DOMAIN orders' = DOMAIN orders
  BY <1>1
<1>3. ASSUME NEW o \in DOMAIN orders
      PROVE  \/ orders'[o] = orders[o]
             \/ /\ Accepted(o)
                /\ \E status \in Terminal : orders'[o] = Settle(o, status, ts)
  <2>1. CASE Accepted(o) /\ o.asset \in ExpiredBy(ts) \ expired
    BY <1>1, <2>1 DEF Terminal
  <2>2. CASE ~(Accepted(o) /\ o.asset \in ExpiredBy(ts) \ expired)
             /\ o \in DOMAIN answer /\ answer[o] # "accepted"
    <3>1. Accepted(o)
      BY <2>2 DEF Due, Eligible
    <3>2. answer[o] \in Terminal
      BY <2>2 DEF Terminal
    <3>3. ~Forbidden(o)
      BY <2>2 DEF Due
    <3>4. orders'[o] = Settle(o, answer[o], ts)
      BY <1>1, <2>2, <3>3
    <3> QED
      BY <3>1, <3>2, <3>4
  <2>3. CASE ~(Accepted(o) /\ o.asset \in ExpiredBy(ts) \ expired)
             /\ ~(o \in DOMAIN answer /\ answer[o] # "accepted")
             /\ (Accepted(o) /\ o.asset \in tradable \ ExpiredBy(ts) /\ Forbidden(o))
    BY <1>1, <2>3 DEF Terminal
  <2>4. CASE ~(Accepted(o) /\ o.asset \in ExpiredBy(ts) \ expired)
             /\ ~(o \in DOMAIN answer /\ answer[o] # "accepted")
             /\ ~(Accepted(o) /\ o.asset \in tradable \ ExpiredBy(ts) /\ Forbidden(o))
    BY <1>1, <2>4
  <2> QED
    BY <2>1, <2>2, <2>3, <2>4
<1> QED
  BY <1>2, <1>3

LEMMA MarketTyped ==
  ASSUME Typed, NEW batch \in SUBSET Assets, NEW tradable \in SUBSET batch,
         NEW ts \in Times, MarketStep(batch, tradable, ts)
  PROVE  Typed'
<1>1. ts \in Nat
  BY TimesAreNat
<1>2. lastBar' \in [Assets -> Nat] /\ boundaries' \subseteq Assets \X Nat
  BY <1>1 DEF MarketStep, Typed, TypeOK
<1>3. expired' \subseteq Assets
  BY DEF MarketStep, ExpiredBy, Typed, TypeOK
<1>4. DOMAIN orders' = DOMAIN orders
  BY MarketRows
<1>5. orders' \in [DOMAIN orders' -> OrderRows]
  <2>1. ASSUME NEW o \in DOMAIN orders PROVE orders'[o] \in OrderRows
    <3>1. CASE orders'[o] = orders[o]
      BY <3>1 DEF Typed, TypeOK
    <3>2. CASE \E status \in Terminal : orders'[o] = Settle(o, status, ts)
      BY <1>1, <3>2, SettleType DEF Typed
    <3> QED
      BY <3>1, <3>2, MarketRows
  <2>2. orders' = [o \in DOMAIN orders' |-> orders'[o]]
    BY DEF MarketStep
  <2> QED
    BY <1>4, <2>1, <2>2
<1>6. fills' \subseteq [order : OrderIds, ts : Nat]
  <2>1. \A o \in Due(tradable, ts) : o \in OrderIds
    BY DEF Due, Typed, TypeOK
  <2> QED
    BY <1>1, <2>1 DEF MarketStep, Typed, TypeOK
<1> QED
  BY <1>2, <1>3, <1>4, <1>5, <1>6
  DEF MarketStep, Typed, TypeOK, NewIds, TargetDerived

RestTyped ==
  /\ fills \subseteq [order : OrderIds, ts : Nat]
  /\ nextExplicit \in Nat /\ lastBar \in [Assets -> Nat]
  /\ boundaries \subseteq Assets \X Nat
  /\ universe \in [Agents -> SUBSET Assets] /\ expired \subseteq Assets

LEMMA UniverseTyped ==
  ASSUME Typed, NEW agent \in Agents, NEW allowed \in Universes,
         NEW decided \in SUBSET Assets, NEW ts \in Times,
         SetUniverse(agent, allowed, decided, ts)
  PROVE  RestTyped'
<1>1. allowed \in SUBSET Assets
  BY TargetOrdersAssumption
<1> QED
  BY <1>1 DEF SetUniverse, Typed, TypeOK, RestTyped

LEMMA NoDecisionTyped ==
  ASSUME Typed, NEW agent \in Agents, NEW allowed \in Universes,
         NEW decided \in SUBSET Assets, NEW ts \in Times,
         NoDecision(agent, allowed, decided, ts)
  PROVE  Typed'
<1>1. SetUniverse(agent, allowed, decided, ts)
  BY DEF NoDecision
<1>2. nextExplicit' = nextExplicit
  BY <1>1 DEF SetUniverse
<1> QED
  BY <1>1, <1>2, UniverseTyped DEF NoDecision, Typed, TypeOK, NewIds, TargetDerived, RestTyped

LEMMA RebalanceRowType ==
  ASSUME NEW agent \in Agents, NEW ts \in Nat,
         NEW status \in {"accepted", "no_op", "rejected", "superseded", "partially_superseded"}
  PROVE  RebalanceRow(agent, ts, status) \in RebalanceRows
BY DEF RebalanceRow, RebalanceRows

LEMMA RejectTyped ==
  ASSUME Typed, NEW agent \in Agents, NEW allowed \in Universes,
         NEW decided \in SUBSET Assets, NEW ts \in Times,
         RejectTargets(agent, allowed, decided, ts)
  PROVE  Typed'
<1>1. SetUniverse(agent, allowed, decided, ts)
  BY DEF RejectTargets, Decides
<1>2. nextExplicit' = nextExplicit /\ nextRebalance' = nextRebalance + 1
  BY <1>1 DEF SetUniverse, RejectTargets, Decides
<1>3. DOMAIN rebalances' = DOMAIN rebalances \cup {nextRebalance}
  BY DEF RejectTargets
<1>4. rebalances' \in [DOMAIN rebalances' -> RebalanceRows]
  <2>1. RebalanceRow(agent, ts, "rejected") \in RebalanceRows
    BY TimesAreNat, RebalanceRowType
  <2> QED
    BY <2>1 DEF RejectTargets, Typed, TypeOK
<1>5. TypeOK'
  <2>1. RestTyped'
    BY <1>1, UniverseTyped
  <2> QED
    BY <1>2, <1>3, <1>4, <2>1 DEF RejectTargets, Typed, TypeOK, RestTyped
<1>6. NewIds'
  BY <1>2, <1>3 DEF RejectTargets, Typed, TypeOK, NewIds, TargetDerived, OrderIds
<1> QED
  BY <1>5, <1>6 DEF Typed

LEMMA FailTyped ==
  ASSUME Typed, NEW agent \in Agents, NEW allowed \in Universes,
         NEW decided \in SUBSET Assets, NEW ts \in Times, NEW wanted \in SUBSET allowed,
         FailPlan(agent, allowed, decided, ts, wanted)
  PROVE  Typed'
<1>1. SetUniverse(agent, allowed, decided, ts)
  BY DEF FailPlan, Decides
<1>2. nextExplicit' = nextExplicit /\ nextRebalance' = nextRebalance + 1
  BY <1>1 DEF SetUniverse, FailPlan, Decides
<1>3. /\ orders' \in [DOMAIN orders -> OrderRows]
      /\ targets' \in [DOMAIN targets -> TargetRows]
      /\ rebalances' \in [DOMAIN rebalances -> RebalanceRows]
  <2>1. wanted \in SUBSET Assets /\ nextRebalance \in Nat /\ ts \in Nat
    BY TimesAreNat, TargetOrdersAssumption DEF Typed, TypeOK
  <2> QED
    BY <2>1, SupersededTypes DEF FailPlan, Typed
<1>4. TypeOK'
  <2>1. RestTyped'
    BY <1>1, UniverseTyped
  <2> QED
    BY <1>2, <1>3, <2>1 DEF Typed, TypeOK, RestTyped
<1>5. NewIds'
  BY <1>2, <1>3 DEF Typed, TypeOK, NewIds, TargetDerived, OrderIds
<1> QED
  BY <1>4, <1>5 DEF Typed

(* The identifiers a plan adds. *)
NewOrders(r, legs) ==
  {o \in [reb : {r}, asset : DOMAIN legs, leg : {1, 2}] : o.leg <= legs[o.asset]}

LEMMA SubmitTyped ==
  ASSUME Typed, NEW agent \in Agents, NEW allowed \in Universes,
         NEW decided \in SUBSET Assets, NEW ts \in Times, NEW wanted \in SUBSET allowed,
         NEW legs \in [wanted -> OrderCounts],
         SubmitTargets(agent, allowed, decided, ts, legs)
  PROVE  Typed'
<1> DEFINE r == nextRebalance
           new == NewOrders(r, legs)
<1>0. wanted \in SUBSET Assets /\ r \in Nat /\ ts \in Nat /\ DOMAIN legs = wanted
  BY TimesAreNat, TargetOrdersAssumption DEF Typed, TypeOK
<1>1. SetUniverse(agent, allowed, decided, ts)
  BY DEF SubmitTargets, Decides
<1>2. nextExplicit' = nextExplicit /\ nextRebalance' = r + 1
  BY <1>1 DEF SetUniverse, SubmitTargets, Decides
<1>3. /\ SupersedeOrders(agent, wanted, r, ts) \in [DOMAIN orders -> OrderRows]
      /\ SupersedeTargets(agent, wanted, r) \in [DOMAIN targets -> TargetRows]
      /\ CloseRebalances(agent, wanted, r) \in [DOMAIN rebalances -> RebalanceRows]
  BY <1>0, SupersededTypes DEF Typed
<1>4. /\ orders' \in [DOMAIN orders \cup new -> OrderRows]
      /\ DOMAIN orders' = DOMAIN orders \cup new
  <2>1. Row(agent, ts, ts, "market") \in OrderRows
    BY <1>0, RowType
  <2> QED
    BY <1>0, <1>3, <2>1 DEF SubmitTargets, NewOrders
<1>5. targets' \in [DOMAIN targets \cup ({r} \X wanted) -> TargetRows]
  <2>1. \A a \in wanted : [agent |-> agent, by |-> NA,
                           status |-> IF legs[a] = 0 THEN "no_op" ELSE "accepted"]
                          \in TargetRows
    BY DEF TargetRows
  <2>2. \A t \in {r} \X wanted : t[2] \in wanted
    OBVIOUS
  <2> QED
    BY <1>0, <1>3, <2>1, <2>2 DEF SubmitTargets
<1>6. rebalances' \in [DOMAIN rebalances \cup {r} -> RebalanceRows]
  <2>1. RebalanceRow(agent, ts, IF new = {} THEN "no_op" ELSE "accepted") \in RebalanceRows
    BY <1>0, RebalanceRowType
  <2> QED
    BY <1>0, <1>3, <2>1 DEF SubmitTargets, NewOrders
<1>7. \A o \in new : o \in OrderIds /\ o.reb = r
  BY <1>0 DEF NewOrders, OrderIds
<1>8. TypeOK'
  <2>1. DOMAIN orders' \subseteq OrderIds /\ orders' \in [DOMAIN orders' -> OrderRows]
    BY <1>4, <1>7 DEF Typed, TypeOK
  <2>2. DOMAIN targets' \subseteq Nat \X Assets /\ targets' \in [DOMAIN targets' -> TargetRows]
    BY <1>0, <1>5 DEF Typed, TypeOK
  <2>3. DOMAIN rebalances' \subseteq Nat
        /\ rebalances' \in [DOMAIN rebalances' -> RebalanceRows]
    BY <1>0, <1>6 DEF Typed, TypeOK
  <2>4. RestTyped'
    BY <1>1, UniverseTyped
  <2> QED
    BY <1>0, <1>2, <2>1, <2>2, <2>3, <2>4 DEF TypeOK, RestTyped
<1>9. NewIds'
  <2>1. \A o \in DOMAIN orders' :
          IF TargetDerived(o) THEN o.reb < nextRebalance' ELSE o.leg < nextExplicit'
    BY <1>0, <1>2, <1>4, <1>7, TargetOrdersAssumption
    DEF Typed, TypeOK, NewIds, TargetDerived, OrderIds
  <2>2. \A t \in DOMAIN targets' : t[1] < nextRebalance'
    BY <1>0, <1>2, <1>5 DEF Typed, TypeOK, NewIds
  <2>3. \A q \in DOMAIN rebalances' : q < nextRebalance'
    BY <1>0, <1>2, <1>6 DEF Typed, TypeOK, NewIds
  <2> QED
    BY <2>1, <2>2, <2>3 DEF NewIds, TargetDerived
<1> QED
  BY <1>8, <1>9 DEF Typed

LEMMA PlaceTyped ==
  ASSUME Typed, NEW agent \in Agents, NEW asset \in Assets, NEW ts \in Times,
         NEW type \in {"market", "limit"}, PlaceOrder(agent, asset, ts, type)
  PROVE  Typed'
<1> DEFINE o == OrderId(NA, asset, nextExplicit)
<1>1. o \in OrderIds /\ o.reb = NA /\ o.leg = nextExplicit
  BY DEF OrderId, OrderIds, Typed, TypeOK
<1>2. Row(agent, ts, NA, type) \in OrderRows
  BY TimesAreNat, RowType
<1>3. DOMAIN orders' = DOMAIN orders \cup {o} /\ orders' \in [DOMAIN orders' -> OrderRows]
  BY <1>2 DEF PlaceOrder, Typed, TypeOK
<1>4. TypeOK'
  <2>1. DOMAIN orders' \subseteq OrderIds
    BY <1>1, <1>3 DEF Typed, TypeOK
  <2>2. nextExplicit' \in Nat
    BY DEF PlaceOrder, Typed, TypeOK
  <2> QED
    BY <1>3, <2>1, <2>2 DEF PlaceOrder, Typed, TypeOK, market
<1>5. NewIds'
  <2>1. \A p \in DOMAIN orders' :
          IF TargetDerived(p) THEN p.reb < nextRebalance' ELSE p.leg < nextExplicit'
    BY <1>1, <1>3 DEF PlaceOrder, Typed, TypeOK, NewIds, TargetDerived, OrderIds
  <2> QED
    BY <2>1 DEF PlaceOrder, Typed, NewIds, TargetDerived
<1> QED
  BY <1>4, <1>5 DEF Typed

LEMMA CancelTyped ==
  ASSUME Typed, NEW o \in DOMAIN orders, CancelOrder(o)
  PROVE  Typed'
<1>1. orders' \in [DOMAIN orders -> OrderRows] /\ DOMAIN orders' = DOMAIN orders
  <2>1. orders[o] \in OrderRows
    BY DEF Typed, TypeOK
  <2>2. [orders[o] EXCEPT !.status = "cancelled"] \in OrderRows
    BY <2>1 DEF OrderRows, Terminal
  <2> QED
    BY <2>2 DEF CancelOrder, Typed, TypeOK
<1> QED
  BY <1>1 DEF CancelOrder, Typed, TypeOK, NewIds, TargetDerived, market

LEMMA InitTyped ==
  ASSUME Init
  PROVE  Typed
BY DEF Init, Typed, TypeOK, NewIds

(* The disjuncts of Next, as the proofs of the invariants use them.        *)
LEMMA StepTyped ==
  ASSUME Typed, [Next]_vars
  PROVE  Typed'
<1>1. CASE UNCHANGED vars
  BY <1>1 DEF vars, ledgers, market, Typed, TypeOK, NewIds, TargetDerived
<1>2. CASE \E batch \in SUBSET Assets \ {{}}, ts \in Times :
             \/ ValuationStep(batch, ts)
             \/ \E tradable \in SUBSET batch : MarketStep(batch, tradable, ts)
  BY <1>2, ValuationTyped, MarketTyped
<1>3. CASE \E agent \in Agents, allowed \in Universes, decided \in SUBSET Assets, ts \in Times :
             \/ NoDecision(agent, allowed, decided, ts)
             \/ RejectTargets(agent, allowed, decided, ts)
             \/ \E wanted \in SUBSET allowed :
                  \/ FailPlan(agent, allowed, decided, ts, wanted)
                  \/ \E legs \in [wanted -> OrderCounts] :
                       SubmitTargets(agent, allowed, decided, ts, legs)
  BY <1>3, NoDecisionTyped, RejectTyped, FailTyped, SubmitTyped
<1>4. CASE \E agent \in Agents, asset \in Assets, ts \in Times, type \in {"market", "limit"} :
             PlaceOrder(agent, asset, ts, type)
  BY <1>4, PlaceTyped
<1>5. CASE \E o \in DOMAIN orders : CancelOrder(o)
  BY <1>5, CancelTyped
<1> QED
  BY <1>1, <1>2, <1>3, <1>4, <1>5 DEF Next

LEMMA TypedInvariant == Spec => []Typed
BY InitTyped, StepTyped, PTL DEF Spec

(* Every ledger of the pipeline keeps its shape: rows, identifiers,        *)
(* universes and boundaries have the types the tables declare, for every   *)
(* number of agents, assets, boundaries and decisions.                     *)
THEOREM TypeCorrectness == Spec => []TypeOK
BY TypedInvariant, PTL DEF Typed

-----------------------------------------------------------------------------
(* The two kinds of steps, as the ledgers see them. *)

(* No row disappears, and only accepted rows change their outcome.         *)
Durable ==
  \A o \in DOMAIN orders :
    /\ o \in DOMAIN orders'
    /\ orders'[o].agent = orders[o].agent
    /\ orders'[o].ts = orders[o].ts /\ orders'[o].after = orders[o].after
    /\ ~Accepted(o) => orders'[o] = orders[o]

(* A step that leaves the pending chains to themselves. *)
Quiet ==
  /\ Durable
  /\ \A o \in DOMAIN orders' \ DOMAIN orders : ~TargetDerived(o)
  /\ targets' = targets
  /\ \A q \in DOMAIN rebalances : q \in DOMAIN rebalances' /\ rebalances'[q] = rebalances[q]

(* A step in which a decision replaces pending orders by those of its plan.*)
Replaces(agent, wanted, ts) ==
  LET r == nextRebalance
  IN  /\ \A o \in DOMAIN orders :
           /\ o \in DOMAIN orders'
           /\ orders'[o] = IF o \in Pending(agent, wanted) THEN Supersede(o, r, ts) ELSE orders[o]
      /\ \A o \in DOMAIN orders' \ DOMAIN orders :
           /\ o.reb = r /\ o.asset \in wanted /\ orders'[o] = Row(agent, ts, ts, "market")
           /\ <<r, o.asset>> \in DOMAIN targets'
           /\ targets'[<<r, o.asset>>].status = "accepted"
           /\ targets'[<<r, o.asset>>].agent = agent
           /\ r \in DOMAIN rebalances' /\ rebalances'[r].status = "accepted"
      /\ \A t \in DOMAIN targets :
           /\ t \in DOMAIN targets'
           /\ targets'[t] = SupersedeTargets(agent, wanted, r)[t]
      /\ \A q \in DOMAIN rebalances :
           /\ q \in DOMAIN rebalances'
           /\ rebalances'[q] = CloseRebalances(agent, wanted, r)[q]

LEMMA MarketQuiet ==
  ASSUME Typed, NEW batch \in SUBSET Assets, NEW tradable \in SUBSET batch,
         NEW ts \in Times, MarketStep(batch, tradable, ts)
  PROVE  Quiet
<1>1. ASSUME NEW o \in DOMAIN orders, NEW status \in Terminal
      PROVE  /\ Settle(o, status, ts).agent = orders[o].agent
             /\ Settle(o, status, ts).ts = orders[o].ts
             /\ Settle(o, status, ts).after = orders[o].after
  <2>1. orders[o] \in OrderRows
    BY DEF Typed, TypeOK
  <2> QED
    BY <2>1 DEF Settle, OrderRows
<1>2. Durable
  <2> SUFFICES ASSUME NEW o \in DOMAIN orders
               PROVE  /\ o \in DOMAIN orders'
                      /\ orders'[o].agent = orders[o].agent
                      /\ orders'[o].ts = orders[o].ts /\ orders'[o].after = orders[o].after
                      /\ ~Accepted(o) => orders'[o] = orders[o]
    BY DEF Durable
  <2>1. o \in DOMAIN orders'
    BY MarketRows
  <2>2. CASE orders'[o] = orders[o]
    BY <2>1, <2>2
  <2>3. CASE Accepted(o) /\ \E status \in Terminal : orders'[o] = Settle(o, status, ts)
    BY <1>1, <2>1, <2>3
  <2> QED
    BY <2>2, <2>3, MarketRows
<1>3. DOMAIN orders' = DOMAIN orders
  BY MarketRows
<1> QED
  BY <1>2, <1>3 DEF MarketStep, Quiet

LEMMA PlaceQuiet ==
  ASSUME Typed, NEW agent \in Agents, NEW asset \in Assets, NEW ts \in Times,
         NEW type \in {"market", "limit"}, PlaceOrder(agent, asset, ts, type)
  PROVE  Quiet
<1> DEFINE p == OrderId(NA, asset, nextExplicit)
<1>1. ~TargetDerived(p) /\ p.leg = nextExplicit
  BY DEF OrderId, TargetDerived
<1>2. p \notin DOMAIN orders
  <2>1. \A o \in DOMAIN orders : ~TargetDerived(o) => o.leg < nextExplicit
    BY DEF Typed, NewIds
  <2>2. nextExplicit \in Nat
    BY DEF Typed, TypeOK
  <2>3. ~(nextExplicit < nextExplicit)
    BY <2>2
  <2> QED
    BY <1>1, <2>1, <2>3
<1>3. DOMAIN orders' = DOMAIN orders \cup {p}
      /\ \A o \in DOMAIN orders : orders'[o] = orders[o]
  BY <1>2 DEF PlaceOrder
<1>4. targets' = targets /\ rebalances' = rebalances
  BY DEF PlaceOrder
<1> QED
  BY <1>1, <1>3, <1>4 DEF Quiet, Durable

LEMMA CancelQuiet ==
  ASSUME Typed, NEW p \in DOMAIN orders, CancelOrder(p)
  PROVE  Quiet
<1>1. orders[p] \in OrderRows
  BY DEF Typed, TypeOK
<1>2. DOMAIN orders' = DOMAIN orders
      /\ \A o \in DOMAIN orders : o # p => orders'[o] = orders[o]
  BY DEF CancelOrder, Typed, TypeOK
<1>3. orders'[p] = [orders[p] EXCEPT !.status = "cancelled"] /\ Accepted(p)
  BY DEF CancelOrder, Typed, TypeOK
<1>4. orders'[p].agent = orders[p].agent /\ orders'[p].ts = orders[p].ts
      /\ orders'[p].after = orders[p].after
  BY <1>1, <1>3 DEF OrderRows
<1>5. Durable
  BY <1>2, <1>3, <1>4 DEF Durable
<1> QED
  BY <1>2, <1>5 DEF CancelOrder, Quiet

LEMMA DecisionQuiet ==
  ASSUME Typed, NEW agent \in Agents, NEW allowed \in Universes,
         NEW decided \in SUBSET Assets, NEW ts \in Times,
         NoDecision(agent, allowed, decided, ts) \/ RejectTargets(agent, allowed, decided, ts)
  PROVE  Quiet
<1>1. orders' = orders /\ targets' = targets
  BY DEF NoDecision, RejectTargets
<1>2. \A q \in DOMAIN rebalances : q \in DOMAIN rebalances' /\ rebalances'[q] = rebalances[q]
  BY DEF NoDecision, RejectTargets, Typed, TypeOK, NewIds
<1> QED
  BY <1>1, <1>2 DEF Quiet, Durable

LEMMA FailReplaces ==
  ASSUME Typed, NEW agent \in Agents, NEW allowed \in Universes,
         NEW decided \in SUBSET Assets, NEW ts \in Times, NEW wanted \in SUBSET allowed,
         FailPlan(agent, allowed, decided, ts, wanted)
  PROVE  Replaces(agent, wanted, ts)
BY DEF FailPlan, Replaces, SupersedeOrders, SupersedeTargets, CloseRebalances

LEMMA SubmitReplaces ==
  ASSUME Typed, NEW agent \in Agents, NEW allowed \in Universes,
         NEW decided \in SUBSET Assets, NEW ts \in Times, NEW wanted \in SUBSET allowed,
         NEW legs \in [wanted -> OrderCounts],
         SubmitTargets(agent, allowed, decided, ts, legs)
  PROVE  Replaces(agent, wanted, ts)
<1> DEFINE r == nextRebalance
           new == NewOrders(r, legs)
<1>0. r \in Nat /\ DOMAIN legs = wanted
  BY DEF Typed, TypeOK
<1>1. \A o \in new : o.reb = r /\ o.asset \in wanted /\ legs[o.asset] # 0 /\ o \notin DOMAIN orders
  BY <1>0, TargetOrdersAssumption
  DEF NewOrders, Typed, TypeOK, NewIds, TargetDerived
<1>2. orders' = [o \in DOMAIN orders \cup new |->
                  IF o \in new THEN Row(agent, ts, ts, "market")
                  ELSE SupersedeOrders(agent, wanted, r, ts)[o]]
  BY <1>0 DEF SubmitTargets, NewOrders
<1>3. targets' = [t \in DOMAIN targets \cup ({r} \X wanted) |->
                   IF t \in {r} \X wanted
                   THEN [agent |-> agent, by |-> NA,
                         status |-> IF legs[t[2]] = 0 THEN "no_op" ELSE "accepted"]
                   ELSE SupersedeTargets(agent, wanted, r)[t]]
  BY <1>0 DEF SubmitTargets
<1>4. rebalances' = [q \in DOMAIN rebalances \cup {r} |->
                      IF q = r
                      THEN RebalanceRow(agent, ts, IF new = {} THEN "no_op" ELSE "accepted")
                      ELSE CloseRebalances(agent, wanted, r)[q]]
  BY <1>0 DEF SubmitTargets, NewOrders
<1>5. \A t \in DOMAIN targets : t \notin {r} \X wanted
  BY <1>0 DEF Typed, TypeOK, NewIds
<1>6. r \notin DOMAIN rebalances
  BY <1>0 DEF Typed, TypeOK, NewIds
<1>7. \A o \in DOMAIN orders :
        /\ o \in DOMAIN orders'
        /\ orders'[o] = IF o \in Pending(agent, wanted) THEN Supersede(o, r, ts) ELSE orders[o]
  BY <1>1, <1>2 DEF SupersedeOrders
<1>8. ASSUME NEW o \in DOMAIN orders' \ DOMAIN orders
      PROVE  /\ o.reb = r /\ o.asset \in wanted /\ orders'[o] = Row(agent, ts, ts, "market")
             /\ <<r, o.asset>> \in DOMAIN targets'
             /\ targets'[<<r, o.asset>>].status = "accepted"
             /\ targets'[<<r, o.asset>>].agent = agent
             /\ r \in DOMAIN rebalances' /\ rebalances'[r].status = "accepted"
  <2>1. o \in new
    BY <1>2
  <2>2. orders'[o] = Row(agent, ts, ts, "market")
    BY <1>2, <2>1
  <2>3. <<r, o.asset>> \in {r} \X wanted /\ <<r, o.asset>>[2] = o.asset
    BY <1>1, <2>1
  <2>4. <<r, o.asset>> \in DOMAIN targets'
        /\ targets'[<<r, o.asset>>] = [agent |-> agent, by |-> NA, status |-> "accepted"]
    BY <1>1, <1>3, <2>1, <2>3
  <2>5. r \in DOMAIN rebalances' /\ rebalances'[r] = RebalanceRow(agent, ts, "accepted")
    BY <1>4, <2>1
  <2> QED
    BY <1>1, <2>1, <2>2, <2>4, <2>5 DEF RebalanceRow
<1>9. \A t \in DOMAIN targets :
        t \in DOMAIN targets' /\ targets'[t] = SupersedeTargets(agent, wanted, r)[t]
  BY <1>3, <1>5
<1>10. \A q \in DOMAIN rebalances :
        q \in DOMAIN rebalances' /\ rebalances'[q] = CloseRebalances(agent, wanted, r)[q]
  BY <1>4, <1>6
<1> QED
  BY <1>7, <1>8, <1>9, <1>10 DEF Replaces

(* Every step is quiet or replaces. *)
LEMMA StepKinds ==
  ASSUME Typed, [Next]_vars
  PROVE  \/ Quiet
         \/ \E agent \in Agents, wanted \in SUBSET Assets, ts \in Times :
              Replaces(agent, wanted, ts)
<1>1. CASE UNCHANGED vars
  BY <1>1 DEF vars, ledgers, Quiet, Durable
<1>2. CASE \E batch \in SUBSET Assets \ {{}}, ts \in Times :
             \/ ValuationStep(batch, ts)
             \/ \E tradable \in SUBSET batch : MarketStep(batch, tradable, ts)
  <2>1. ASSUME NEW batch \in SUBSET Assets, NEW ts \in Times, ValuationStep(batch, ts)
        PROVE  Quiet
    BY <2>1 DEF ValuationStep, ledgers, Quiet, Durable
  <2> QED
    BY <1>2, <2>1, MarketQuiet
<1>3. CASE \E agent \in Agents, allowed \in Universes, decided \in SUBSET Assets, ts \in Times :
             \/ NoDecision(agent, allowed, decided, ts)
             \/ RejectTargets(agent, allowed, decided, ts)
             \/ \E wanted \in SUBSET allowed :
                  \/ FailPlan(agent, allowed, decided, ts, wanted)
                  \/ \E legs \in [wanted -> OrderCounts] :
                       SubmitTargets(agent, allowed, decided, ts, legs)
  <2>1. \A allowed \in Universes : SUBSET allowed \subseteq SUBSET Assets
    BY TargetOrdersAssumption
  <2> QED
    BY <1>3, <2>1, DecisionQuiet, FailReplaces, SubmitReplaces
<1>4. CASE \E agent \in Agents, asset \in Assets, ts \in Times, type \in {"market", "limit"} :
             PlaceOrder(agent, asset, ts, type)
  BY <1>4, PlaceQuiet
<1>5. CASE \E o \in DOMAIN orders : CancelOrder(o)
  BY <1>5, CancelQuiet
<1> QED
  BY <1>1, <1>2, <1>3, <1>4, <1>5 DEF Next

-----------------------------------------------------------------------------
(* The outcome of an order is final. *)

LEMMA StepDurable ==
  ASSUME Typed, [Next]_vars
  PROVE  Durable
<1>1. ASSUME NEW agent \in Agents, NEW wanted \in SUBSET Assets, NEW ts \in Times,
             Replaces(agent, wanted, ts)
      PROVE  Durable
  <2> SUFFICES ASSUME NEW o \in DOMAIN orders
               PROVE  /\ o \in DOMAIN orders'
                      /\ orders'[o].agent = orders[o].agent
                      /\ orders'[o].ts = orders[o].ts /\ orders'[o].after = orders[o].after
                      /\ ~Accepted(o) => orders'[o] = orders[o]
    BY DEF Durable
  <2>1. o \in DOMAIN orders'
        /\ orders'[o] = IF o \in Pending(agent, wanted)
                        THEN Supersede(o, nextRebalance, ts) ELSE orders[o]
    BY <1>1 DEF Replaces
  <2>2. orders[o] \in OrderRows
    BY DEF Typed, TypeOK
  <2> QED
    BY <2>1, <2>2 DEF Supersede, Settle, OrderRows, Pending
<1> QED
  BY <1>1, StepKinds DEF Quiet

(* An order once settled, whether filled, rejected, cancelled, superseded  *)
(* or a no-op, stays in the ledger with that outcome whatever is           *)
(* submitted, stepped or cancelled afterwards.                             *)
THEOREM FinalOutcomes == Spec => OutcomesAreFinal
<1>1. Typed /\ [Next]_vars =>
        [ \A o \in DOMAIN orders :
            /\ o \in DOMAIN orders'
            /\ ~Accepted(o) => orders'[o] = orders[o] ]_vars
  BY StepDurable DEF Durable
<1> QED
  BY <1>1, TypedInvariant, PTL DEF Spec, OutcomesAreFinal

-----------------------------------------------------------------------------
(* One pending chain per agent and asset. *)

(* What a quiet step leaves pending was pending. *)
LEMMA AfterQuiet ==
  ASSUME Quiet, NEW o \in DOMAIN orders', Accepted(o)', TargetDerived(o)
  PROVE  o \in DOMAIN orders /\ Accepted(o) /\ orders'[o].agent = orders[o].agent
<1>1. o \in DOMAIN orders
  BY DEF Quiet
<1> QED
  BY <1>1 DEF Quiet, Durable, Accepted

LEMMA QuietKeepsChains ==
  ASSUME OneChain, Quiet
  PROVE  OneChain'
BY AfterQuiet DEF OneChain, TargetDerived

(* What a decision leaves pending: its own orders, or orders it did not    *)
(* want to replace.                                                        *)
LEMMA AfterReplacing ==
  ASSUME Typed, NEW agent \in Agents, NEW wanted \in SUBSET Assets, NEW ts \in Times,
         Replaces(agent, wanted, ts),
         NEW o \in DOMAIN orders', Accepted(o)', TargetDerived(o)
  PROVE  \/ /\ o \in DOMAIN orders /\ Accepted(o) /\ orders'[o] = orders[o]
            /\ ~(orders[o].agent = agent /\ o.asset \in wanted)
         \/ /\ o \notin DOMAIN orders /\ o.reb = nextRebalance /\ o.asset \in wanted
            /\ orders'[o].agent = agent
<1>1. CASE o \in DOMAIN orders
  <2>1. orders[o] \in OrderRows
    BY <1>1 DEF Typed, TypeOK
  <2>2. o \notin Pending(agent, wanted)
    BY <1>1, <2>1 DEF Replaces, Supersede, Settle, OrderRows, Accepted
  <2>3. orders'[o] = orders[o] /\ Accepted(o)
    BY <1>1, <2>2 DEF Replaces, Accepted
  <2> QED
    BY <1>1, <2>2, <2>3 DEF Pending
<1>2. CASE o \notin DOMAIN orders
  <2>1. o.reb = nextRebalance /\ o.asset \in wanted /\ orders'[o] = Row(agent, ts, ts, "market")
    BY <1>2 DEF Replaces
  <2>2. Row(agent, ts, ts, "market").agent = agent
    BY DEF Row
  <2> QED
    BY <1>2, <2>1, <2>2
<1> QED
  BY <1>1, <1>2

LEMMA ReplacingKeepsChains ==
  ASSUME Typed, OneChain, NEW agent \in Agents, NEW wanted \in SUBSET Assets,
         NEW ts \in Times, Replaces(agent, wanted, ts)
  PROVE  OneChain'
<1> SUFFICES ASSUME NEW o \in DOMAIN orders', NEW p \in DOMAIN orders',
                    Accepted(o)', TargetDerived(o), Accepted(p)', TargetDerived(p),
                    orders'[o].agent = orders'[p].agent, o.asset = p.asset
             PROVE  o.reb = p.reb
  BY DEF OneChain, TargetDerived
<1>1. \/ /\ o \in DOMAIN orders /\ Accepted(o) /\ orders'[o] = orders[o]
         /\ ~(orders[o].agent = agent /\ o.asset \in wanted)
      \/ /\ o \notin DOMAIN orders /\ o.reb = nextRebalance /\ o.asset \in wanted
         /\ orders'[o].agent = agent
  BY AfterReplacing
<1>2. \/ /\ p \in DOMAIN orders /\ Accepted(p) /\ orders'[p] = orders[p]
         /\ ~(orders[p].agent = agent /\ p.asset \in wanted)
      \/ /\ p \notin DOMAIN orders /\ p.reb = nextRebalance /\ p.asset \in wanted
         /\ orders'[p].agent = agent
  BY AfterReplacing
<1> QED
  BY <1>1, <1>2 DEF OneChain

LEMMA ChainInvariant == Spec => [](Typed /\ OneChain)
<1>1. Init => Typed /\ OneChain
  BY InitTyped DEF Init, OneChain
<1>2. ASSUME Typed, OneChain, [Next]_vars
      PROVE  (Typed /\ OneChain)'
  <2>1. Typed'
    BY <1>2, StepTyped
  <2>2. CASE Quiet
    BY <1>2, <2>1, <2>2, QuietKeepsChains
  <2>3. CASE \E agent \in Agents, wanted \in SUBSET Assets, ts \in Times :
               Replaces(agent, wanted, ts)
    BY <1>2, <2>1, <2>3, ReplacingKeepsChains
  <2> QED
    BY <1>2, <2>2, <2>3, StepKinds
<1> QED
  BY <1>1, <1>2, PTL DEF Spec

(* The accepted target orders of an agent on an asset all come from one    *)
(* decision, however decisions, fills, cancellations and expiries          *)
(* interleave (.portfolio_supersede_pending_targets).                      *)
THEOREM OnePendingChain == Spec => []OneChain
BY ChainInvariant, PTL

-----------------------------------------------------------------------------
(* A pending order keeps its target and its rebalance open. *)

(* The target row of a pending order belongs to the agent of the order.    *)
PendingTargets ==
  \A o \in DOMAIN orders :
    Accepted(o) /\ TargetDerived(o) => targets[<<o.reb, o.asset>>].agent = orders[o].agent

Open == PendingIsOpen /\ PendingTargets

LEMMA QuietKeepsOpen ==
  ASSUME Open, Quiet
  PROVE  Open'
<1>1. ASSUME NEW o \in DOMAIN orders', Accepted(o)', TargetDerived(o)
      PROVE  /\ o.reb \in DOMAIN rebalances' /\ rebalances'[o.reb].status = "accepted"
             /\ <<o.reb, o.asset>> \in DOMAIN targets'
             /\ targets'[<<o.reb, o.asset>>].status = "accepted"
             /\ targets'[<<o.reb, o.asset>>].agent = orders'[o].agent
  <2>1. o \in DOMAIN orders /\ Accepted(o) /\ orders'[o].agent = orders[o].agent
    BY <1>1, AfterQuiet
  <2> QED
    BY <1>1, <2>1 DEF Open, PendingIsOpen, PendingTargets, Quiet
<1> QED
  BY <1>1 DEF Open, PendingIsOpen, PendingTargets, TargetDerived

LEMMA ReplacingKeepsOpen ==
  ASSUME Typed, Open, NEW agent \in Agents, NEW wanted \in SUBSET Assets,
         NEW ts \in Times, Replaces(agent, wanted, ts)
  PROVE  Open'
<1>1. ASSUME NEW o \in DOMAIN orders', Accepted(o)', TargetDerived(o)
      PROVE  /\ o.reb \in DOMAIN rebalances' /\ rebalances'[o.reb].status = "accepted"
             /\ <<o.reb, o.asset>> \in DOMAIN targets'
             /\ targets'[<<o.reb, o.asset>>].status = "accepted"
             /\ targets'[<<o.reb, o.asset>>].agent = orders'[o].agent
  <2>1. CASE o \notin DOMAIN orders
    <3>1. o.reb = nextRebalance /\ orders'[o].agent = agent
      BY <1>1, <2>1, AfterReplacing
    <3> QED
      BY <2>1, <3>1 DEF Replaces
  <2>2. CASE o \in DOMAIN orders
    <3> DEFINE t == <<o.reb, o.asset>>
    <3>1. /\ Accepted(o) /\ orders'[o] = orders[o]
          /\ ~(orders[o].agent = agent /\ o.asset \in wanted)
      BY <1>1, <2>2, AfterReplacing
    <3>2. /\ o.reb \in DOMAIN rebalances /\ rebalances[o.reb].status = "accepted"
          /\ t \in DOMAIN targets /\ targets[t].status = "accepted"
          /\ targets[t].agent = orders[o].agent
      BY <1>1, <2>2, <3>1 DEF Open, PendingIsOpen, PendingTargets
    <3>3. o \notin Pending(agent, wanted)
      BY <3>1 DEF Pending
    <3>4. o.reb \notin Closed(agent, wanted)
      BY <2>2, <3>1, <3>3 DEF Closed
    <3>5. rebalances'[o.reb] = rebalances[o.reb] /\ o.reb \in DOMAIN rebalances'
      BY <3>2, <3>4 DEF Replaces, CloseRebalances
    <3>6. SupersedeTargets(agent, wanted, nextRebalance)[t] = targets[t]
      BY <3>1, <3>2 DEF SupersedeTargets
    <3>7. targets'[t] = targets[t] /\ t \in DOMAIN targets'
      BY <3>2, <3>6 DEF Replaces
    <3> QED
      BY <3>1, <3>2, <3>5, <3>7
  <2> QED
    BY <2>1, <2>2
<1> QED
  BY <1>1 DEF Open, PendingIsOpen, PendingTargets, TargetDerived

LEMMA OpenInvariant == Spec => [](Typed /\ Open)
<1>1. Init => Typed /\ Open
  BY InitTyped DEF Init, Open, PendingIsOpen, PendingTargets
<1>2. ASSUME Typed, Open, [Next]_vars
      PROVE  (Typed /\ Open)'
  <2>1. Typed'
    BY <1>2, StepTyped
  <2>2. CASE Quiet
    BY <1>2, <2>1, <2>2, QuietKeepsOpen
  <2>3. CASE \E agent \in Agents, wanted \in SUBSET Assets, ts \in Times :
               Replaces(agent, wanted, ts)
    BY <1>2, <2>1, <2>3, ReplacingKeepsOpen
  <2> QED
    BY <1>2, <2>1, <2>2, <2>3, StepKinds
<1> QED
  BY <1>1, <1>2, PTL DEF Spec

(* As long as an order of a decision is pending, the target it serves and  *)
(* the rebalance it belongs to are recorded as accepted: supersession      *)
(* closes the three ledgers in the right order.                            *)
THEOREM LedgersCloseTogether == Spec => []PendingIsOpen
BY OpenInvariant, PTL DEF Open

-----------------------------------------------------------------------------
(* Target orders fill strictly later than they were decided. *)

DecisionTimed ==
  \A o \in DOMAIN orders : TargetDerived(o) => orders[o].after = orders[o].ts

Later == DecisionTimed /\ TargetFillsAreLater

(* Where a filled row comes from: an earlier fill, or a bar of the order's *)
(* asset that the order was eligible for.                                  *)
FillsMeetBars ==
  /\ boundaries \subseteq boundaries'
  /\ \A o \in DOMAIN orders' :
       orders'[o].status = "filled" =>
         /\ o \in DOMAIN orders
         /\ \/ orders'[o] = orders[o]
            \/ /\ orders[o].after # NA => orders[o].after < orders'[o].settled
               /\ <<o.asset, orders'[o].settled>> \in boundaries'

LEMMA MarketFills ==
  ASSUME Typed, NEW batch \in SUBSET Assets, NEW tradable \in SUBSET batch,
         NEW ts \in Times, MarketStep(batch, tradable, ts)
  PROVE  FillsMeetBars
<1>1. PICK answer \in [Due(tradable, ts) -> {"filled", "rejected", "no_op", "accepted"}] :
        orders' = [o \in DOMAIN orders |->
            CASE Accepted(o) /\ o.asset \in ExpiredBy(ts) \ expired ->
                   Settle(o, "cancelled", ts)
              [] o \in DOMAIN answer /\ answer[o] # "accepted" ->
                   Settle(o, answer[o], ts)
              [] Accepted(o) /\ o.asset \in tradable \ ExpiredBy(ts) /\ Forbidden(o) ->
                   Settle(o, "rejected", ts)
              [] OTHER -> orders[o]]
  BY DEF MarketStep
<1>2. boundaries' = boundaries \cup {<<a, ts>> : a \in tradable}
  BY DEF MarketStep
<1>3. ASSUME NEW o \in DOMAIN orders, NEW status \in Terminal
      PROVE  /\ Settle(o, status, ts).status = status
             /\ Settle(o, status, ts).settled = ts
  <2>1. orders[o] \in OrderRows
    BY DEF Typed, TypeOK
  <2> QED
    BY <2>1 DEF Settle, OrderRows
<1>4. DOMAIN orders' = DOMAIN orders
  BY <1>1
<1>5. ASSUME NEW o \in DOMAIN orders, orders'[o].status = "filled"
      PROVE  \/ orders'[o] = orders[o]
             \/ /\ orders[o].after # NA => orders[o].after < orders'[o].settled
                /\ <<o.asset, orders'[o].settled>> \in boundaries'
  <2>1. CASE Accepted(o) /\ o.asset \in ExpiredBy(ts) \ expired
    <3>1. orders'[o] = Settle(o, "cancelled", ts)
      BY <1>1, <2>1 DEF Due
    <3> QED
      BY <1>3, <1>5, <3>1 DEF Terminal
  <2>2. CASE ~(Accepted(o) /\ o.asset \in ExpiredBy(ts) \ expired)
             /\ o \in DOMAIN answer /\ answer[o] # "accepted"
    <3>1. o.asset \in tradable /\ Eligible(o, ts) /\ ~Forbidden(o)
      BY <2>2 DEF Due
    <3>2. orders'[o] = Settle(o, answer[o], ts)
      BY <1>1, <2>2, <3>1
    <3>3. answer[o] \in Terminal
      BY <2>2 DEF Terminal
    <3>4. orders'[o].settled = ts
      BY <1>3, <3>2, <3>3
    <3> QED
      BY <1>2, <3>1, <3>4 DEF Eligible
  <2>3. CASE ~(Accepted(o) /\ o.asset \in ExpiredBy(ts) \ expired)
             /\ ~(o \in DOMAIN answer /\ answer[o] # "accepted")
             /\ (Accepted(o) /\ o.asset \in tradable \ ExpiredBy(ts) /\ Forbidden(o))
    <3>1. orders'[o] = Settle(o, "rejected", ts)
      BY <1>1, <2>3
    <3> QED
      BY <1>3, <1>5, <3>1 DEF Terminal
  <2>4. CASE ~(Accepted(o) /\ o.asset \in ExpiredBy(ts) \ expired)
             /\ ~(o \in DOMAIN answer /\ answer[o] # "accepted")
             /\ ~(Accepted(o) /\ o.asset \in tradable \ ExpiredBy(ts) /\ Forbidden(o))
    BY <1>1, <2>4
  <2> QED
    BY <2>1, <2>2, <2>3, <2>4
<1> QED
  BY <1>2, <1>4, <1>5 DEF FillsMeetBars

LEMMA ReplacingFills ==
  ASSUME Typed, boundaries' = boundaries, NEW agent \in Agents,
         NEW wanted \in SUBSET Assets, NEW ts \in Times, Replaces(agent, wanted, ts)
  PROVE  FillsMeetBars
<1>1. ASSUME NEW o \in DOMAIN orders', orders'[o].status = "filled"
      PROVE  o \in DOMAIN orders /\ orders'[o] = orders[o]
  <2>1. Row(agent, ts, ts, "market").status = "accepted"
    BY DEF Row
  <2>2. o \in DOMAIN orders
    BY <1>1, <2>1 DEF Replaces
  <2>3. orders[o] \in OrderRows
    BY <2>2 DEF Typed, TypeOK
  <2>4. Supersede(o, nextRebalance, ts).status = "superseded"
    BY <2>3 DEF Supersede, Settle, OrderRows
  <2> QED
    BY <1>1, <2>2, <2>4 DEF Replaces
<1> QED
  BY <1>1 DEF FillsMeetBars

LEMMA PlaceFills ==
  ASSUME Typed, NEW agent \in Agents, NEW asset \in Assets, NEW ts \in Times,
         NEW type \in {"market", "limit"}, PlaceOrder(agent, asset, ts, type)
  PROVE  FillsMeetBars
<1> DEFINE p == OrderId(NA, asset, nextExplicit)
<1>1. DOMAIN orders' = DOMAIN orders \cup {p}
      /\ \A o \in DOMAIN orders' : orders'[o] = IF o = p THEN Row(agent, ts, NA, type) ELSE orders[o]
  BY DEF PlaceOrder
<1>2. Row(agent, ts, NA, type).status = "accepted"
  BY DEF Row
<1>3. boundaries' = boundaries
  BY DEF PlaceOrder, market
<1> QED
  BY <1>1, <1>2, <1>3 DEF FillsMeetBars

LEMMA CancelFills ==
  ASSUME Typed, NEW p \in DOMAIN orders, CancelOrder(p)
  PROVE  FillsMeetBars
<1>1. orders[p] \in OrderRows
  BY DEF Typed, TypeOK
<1>2. DOMAIN orders' = DOMAIN orders
      /\ \A o \in DOMAIN orders : o # p => orders'[o] = orders[o]
  BY DEF CancelOrder, Typed, TypeOK
<1>3. orders'[p] = [orders[p] EXCEPT !.status = "cancelled"]
  BY DEF CancelOrder, Typed, TypeOK
<1>4. orders'[p].status # "filled"
  BY <1>1, <1>3 DEF OrderRows
<1>5. boundaries' = boundaries
  BY DEF CancelOrder, market
<1> QED
  BY <1>2, <1>4, <1>5 DEF FillsMeetBars

LEMMA StepFills ==
  ASSUME Typed, [Next]_vars
  PROVE  FillsMeetBars
<1>1. CASE UNCHANGED vars
  BY <1>1 DEF vars, ledgers, market, FillsMeetBars
<1>2. CASE \E batch \in SUBSET Assets \ {{}}, ts \in Times :
             \/ ValuationStep(batch, ts)
             \/ \E tradable \in SUBSET batch : MarketStep(batch, tradable, ts)
  <2>1. ASSUME NEW batch \in SUBSET Assets, NEW ts \in Times, ValuationStep(batch, ts)
        PROVE  FillsMeetBars
    BY <2>1 DEF ValuationStep, ledgers, FillsMeetBars
  <2> QED
    BY <1>2, <2>1, MarketFills
<1>3. CASE \E agent \in Agents, allowed \in Universes, decided \in SUBSET Assets, ts \in Times :
             \/ NoDecision(agent, allowed, decided, ts)
             \/ RejectTargets(agent, allowed, decided, ts)
             \/ \E wanted \in SUBSET allowed :
                  \/ FailPlan(agent, allowed, decided, ts, wanted)
                  \/ \E legs \in [wanted -> OrderCounts] :
                       SubmitTargets(agent, allowed, decided, ts, legs)
  <2>1. \A allowed \in Universes : SUBSET allowed \subseteq SUBSET Assets
    BY TargetOrdersAssumption
  <2>2. ASSUME NEW agent \in Agents, NEW allowed \in Universes, NEW decided \in SUBSET Assets,
               NEW ts \in Times,
               NoDecision(agent, allowed, decided, ts) \/ RejectTargets(agent, allowed, decided, ts)
        PROVE  FillsMeetBars
    BY <2>2 DEF NoDecision, RejectTargets, Decides, SetUniverse, FillsMeetBars
  <2>3. ASSUME NEW agent \in Agents, NEW allowed \in Universes, NEW decided \in SUBSET Assets,
               NEW ts \in Times, NEW wanted \in SUBSET allowed,
               FailPlan(agent, allowed, decided, ts, wanted)
        PROVE  FillsMeetBars
    <3>1. boundaries' = boundaries
      BY <2>3 DEF FailPlan, Decides, SetUniverse
    <3> QED
      BY <2>1, <2>3, <3>1, FailReplaces, ReplacingFills
  <2>4. ASSUME NEW agent \in Agents, NEW allowed \in Universes, NEW decided \in SUBSET Assets,
               NEW ts \in Times, NEW wanted \in SUBSET allowed,
               NEW legs \in [wanted -> OrderCounts],
               SubmitTargets(agent, allowed, decided, ts, legs)
        PROVE  FillsMeetBars
    <3>1. boundaries' = boundaries
      BY <2>4 DEF SubmitTargets, Decides, SetUniverse
    <3>2. Replaces(agent, wanted, ts)
      BY <2>4, SubmitReplaces
    <3> QED
      BY <2>1, <3>1, <3>2, ReplacingFills
  <2> QED
    BY <1>3, <2>2, <2>3, <2>4
<1>4. CASE \E agent \in Agents, asset \in Assets, ts \in Times, type \in {"market", "limit"} :
             PlaceOrder(agent, asset, ts, type)
  BY <1>4, PlaceFills
<1>5. CASE \E o \in DOMAIN orders : CancelOrder(o)
  BY <1>5, CancelFills
<1> QED
  BY <1>1, <1>2, <1>3, <1>4, <1>5 DEF Next

(* Target orders are only eligible after the timestamp of their decision.  *)
LEMMA StepTimed ==
  ASSUME Typed, DecisionTimed, [Next]_vars
  PROVE  DecisionTimed'
<1> SUFFICES ASSUME NEW o \in DOMAIN orders', TargetDerived(o)
             PROVE  orders'[o].after = orders'[o].ts
  BY DEF DecisionTimed, TargetDerived
<1>1. CASE o \in DOMAIN orders
  BY <1>1, StepDurable DEF Durable, DecisionTimed
<1>2. CASE o \notin DOMAIN orders
  <2>1. PICK agent \in Agents, wanted \in SUBSET Assets, ts \in Times :
          Replaces(agent, wanted, ts)
    BY <1>2, StepKinds DEF Quiet
  <2>2. orders'[o] = Row(agent, ts, ts, "market")
    BY <1>2, <2>1 DEF Replaces
  <2> QED
    BY <2>2 DEF Row
<1> QED
  BY <1>1, <1>2

LEMMA StepLater ==
  ASSUME Typed, Later, [Next]_vars
  PROVE  Later'
<1>1. DecisionTimed'
  BY StepTimed DEF Later
<1>2. ASSUME NEW o \in DOMAIN orders', TargetDerived(o), orders'[o].status = "filled"
      PROVE  /\ orders'[o].settled > orders'[o].ts
             /\ <<o.asset, orders'[o].settled>> \in boundaries'
  <2>1. FillsMeetBars
    BY StepFills
  <2>2. o \in DOMAIN orders
    BY <1>2, <2>1 DEF FillsMeetBars
  <2>3. CASE orders'[o] = orders[o]
    BY <1>2, <2>1, <2>2, <2>3 DEF FillsMeetBars, Later, TargetFillsAreLater
  <2>4. CASE /\ orders[o].after # NA => orders[o].after < orders'[o].settled
             /\ <<o.asset, orders'[o].settled>> \in boundaries'
    <3>1. orders[o].after = orders[o].ts /\ orders'[o].ts = orders[o].ts
      BY <1>2, <2>2, StepDurable DEF Later, DecisionTimed, Durable
    <3>2. orders[o].ts \in Nat
      BY <2>2 DEF Typed, TypeOK, OrderRows
    <3>3. orders[o].ts < orders'[o].settled
      BY <2>4, <3>1, <3>2, TargetOrdersAssumption
    <3> QED
      BY <2>4, <3>1, <3>3
  <2> QED
    BY <1>2, <2>1, <2>3, <2>4 DEF FillsMeetBars
<1> QED
  BY <1>1, <1>2 DEF Later, TargetFillsAreLater, TargetDerived

LEMMA LaterInvariant == Spec => [](Typed /\ Later)
<1>1. Init => Typed /\ Later
  BY InitTyped DEF Init, Later, DecisionTimed, TargetFillsAreLater
<1>2. Typed /\ Later /\ [Next]_vars => (Typed /\ Later)'
  BY StepTyped, StepLater
<1> QED
  BY <1>1, <1>2, PTL DEF Spec

(* No target order executes at, or before, the boundary it was decided at, *)
(* and it only executes at an accepted bar of its own asset.               *)
THEOREM NoLookAhead == Spec => []TargetFillsAreLater
BY LaterInvariant, PTL DEF Later

-----------------------------------------------------------------------------
(* Nothing waits on an expired contract. *)

LEMMA MarketExpires ==
  ASSUME Typed, ExpiredAreQuiet, NEW batch \in SUBSET Assets,
         NEW tradable \in SUBSET batch, NEW ts \in Times, MarketStep(batch, tradable, ts)
  PROVE  ExpiredAreQuiet'
<1>1. PICK answer \in [Due(tradable, ts) -> {"filled", "rejected", "no_op", "accepted"}] :
        orders' = [o \in DOMAIN orders |->
            CASE Accepted(o) /\ o.asset \in ExpiredBy(ts) \ expired ->
                   Settle(o, "cancelled", ts)
              [] o \in DOMAIN answer /\ answer[o] # "accepted" ->
                   Settle(o, answer[o], ts)
              [] Accepted(o) /\ o.asset \in tradable \ ExpiredBy(ts) /\ Forbidden(o) ->
                   Settle(o, "rejected", ts)
              [] OTHER -> orders[o]]
  BY DEF MarketStep
<1>2. expired' = expired \cup ExpiredBy(ts)
  BY DEF MarketStep
<1>3. ASSUME NEW o \in DOMAIN orders', Accepted(o)'
      PROVE  o.asset \notin expired'
  <2>1. o \in DOMAIN orders
    BY <1>1
  <2>2. Accepted(o)
    BY <1>3, <2>1, MarketQuiet DEF Quiet, Durable, Accepted
  <2>3. o.asset \notin expired
    BY <2>1, <2>2 DEF ExpiredAreQuiet
  <2>4. CASE o.asset \in ExpiredBy(ts)
    <3>1. orders'[o] = Settle(o, "cancelled", ts)
      BY <1>1, <2>1, <2>2, <2>3, <2>4 DEF Due
    <3>2. orders[o] \in OrderRows
      BY <2>1 DEF Typed, TypeOK
    <3>3. orders'[o].status = "cancelled"
      BY <3>1, <3>2 DEF Settle, OrderRows
    <3> QED
      BY <1>3, <3>3 DEF Accepted
  <2> QED
    BY <1>2, <2>3, <2>4
<1> QED
  BY <1>3 DEF ExpiredAreQuiet

LEMMA ReplacingExpired ==
  ASSUME Typed, ExpiredAreQuiet, expired' = expired, NEW agent \in Agents,
         NEW wanted \in SUBSET Assets, NEW ts \in Times, Replaces(agent, wanted, ts),
         wanted \cap expired = {}
  PROVE  ExpiredAreQuiet'
<1>1. ASSUME NEW o \in DOMAIN orders', Accepted(o)'
      PROVE  o.asset \notin expired
  <2>1. CASE o \notin DOMAIN orders
    BY <2>1 DEF Replaces
  <2>2. CASE o \in DOMAIN orders
    <3>1. Accepted(o)
      <4>1. orders[o] \in OrderRows
        BY <2>2 DEF Typed, TypeOK
      <4> QED
        BY <1>1, <2>2, <4>1 DEF Replaces, Supersede, Settle, OrderRows, Accepted
    <3> QED
      BY <2>2, <3>1 DEF ExpiredAreQuiet
  <2> QED
    BY <2>1, <2>2
<1> QED
  BY <1>1 DEF ExpiredAreQuiet

LEMMA StepExpired ==
  ASSUME Typed, ExpiredAreQuiet, [Next]_vars
  PROVE  ExpiredAreQuiet'
<1>1. CASE UNCHANGED vars
  BY <1>1 DEF vars, ledgers, market, ExpiredAreQuiet, Accepted
<1>2. CASE \E batch \in SUBSET Assets \ {{}}, ts \in Times :
             \/ ValuationStep(batch, ts)
             \/ \E tradable \in SUBSET batch : MarketStep(batch, tradable, ts)
  <2>1. ASSUME NEW batch \in SUBSET Assets, NEW ts \in Times, ValuationStep(batch, ts)
        PROVE  ExpiredAreQuiet'
    BY <2>1 DEF ValuationStep, ledgers, ExpiredAreQuiet, Accepted
  <2> QED
    BY <1>2, <2>1, MarketExpires
<1>3. CASE \E agent \in Agents, allowed \in Universes, decided \in SUBSET Assets, ts \in Times :
             \/ NoDecision(agent, allowed, decided, ts)
             \/ RejectTargets(agent, allowed, decided, ts)
             \/ \E wanted \in SUBSET allowed :
                  \/ FailPlan(agent, allowed, decided, ts, wanted)
                  \/ \E legs \in [wanted -> OrderCounts] :
                       SubmitTargets(agent, allowed, decided, ts, legs)
  <2>1. ASSUME NEW agent \in Agents, NEW allowed \in Universes, NEW decided \in SUBSET Assets,
               NEW ts \in Times,
               NoDecision(agent, allowed, decided, ts) \/ RejectTargets(agent, allowed, decided, ts)
        PROVE  ExpiredAreQuiet'
    BY <2>1 DEF NoDecision, RejectTargets, Decides, SetUniverse, ExpiredAreQuiet, Accepted
  <2>2. ASSUME NEW agent \in Agents, NEW allowed \in Universes, NEW decided \in SUBSET Assets,
               NEW ts \in Times, NEW wanted \in SUBSET allowed,
               FailPlan(agent, allowed, decided, ts, wanted)
        PROVE  ExpiredAreQuiet'
    <3>1. expired' = expired /\ wanted \cap expired = {} /\ wanted \in SUBSET Assets
      BY <2>2, TargetOrdersAssumption DEF FailPlan, Decides, SetUniverse
    <3>2. Replaces(agent, wanted, ts)
      BY <2>2, FailReplaces
    <3> QED
      BY <3>1, <3>2, ReplacingExpired
  <2>3. ASSUME NEW agent \in Agents, NEW allowed \in Universes, NEW decided \in SUBSET Assets,
               NEW ts \in Times, NEW wanted \in SUBSET allowed,
               NEW legs \in [wanted -> OrderCounts],
               SubmitTargets(agent, allowed, decided, ts, legs)
        PROVE  ExpiredAreQuiet'
    <3>1. expired' = expired /\ wanted \cap expired = {} /\ wanted \in SUBSET Assets
      BY <2>3, TargetOrdersAssumption DEF SubmitTargets, Decides, SetUniverse
    <3>2. Replaces(agent, wanted, ts)
      BY <2>3, SubmitReplaces
    <3> QED
      BY <3>1, <3>2, ReplacingExpired
  <2> QED
    BY <1>3, <2>1, <2>2, <2>3
<1>4. CASE \E agent \in Agents, asset \in Assets, ts \in Times, type \in {"market", "limit"} :
             PlaceOrder(agent, asset, ts, type)
  <2>1. ASSUME NEW agent \in Agents, NEW asset \in Assets, NEW ts \in Times,
               NEW type \in {"market", "limit"}, PlaceOrder(agent, asset, ts, type)
        PROVE  ExpiredAreQuiet'
    <3>1. expired' = expired /\ asset \notin expired
      BY <2>1 DEF PlaceOrder, market
    <3>2. /\ DOMAIN orders' = DOMAIN orders \cup {OrderId(NA, asset, nextExplicit)}
          /\ \A o \in DOMAIN orders : o = OrderId(NA, asset, nextExplicit) \/ orders'[o] = orders[o]
      BY <2>1 DEF PlaceOrder
    <3>3. OrderId(NA, asset, nextExplicit).asset = asset
      BY DEF OrderId
    <3> QED
      BY <3>1, <3>2, <3>3 DEF ExpiredAreQuiet, Accepted
  <2> QED
    BY <1>4, <2>1
<1>5. CASE \E o \in DOMAIN orders : CancelOrder(o)
  <2>1. ASSUME NEW p \in DOMAIN orders, CancelOrder(p)
        PROVE  ExpiredAreQuiet'
    <3>1. expired' = expired /\ DOMAIN orders' = DOMAIN orders
      BY <2>1 DEF CancelOrder, market
    <3>2. \A o \in DOMAIN orders : ~Accepted(o) => orders'[o] = orders[o]
      BY <2>1, CancelQuiet DEF Quiet, Durable
    <3> QED
      BY <3>1, <3>2 DEF ExpiredAreQuiet, Accepted
  <2> QED
    BY <1>5, <2>1
<1> QED
  BY <1>1, <1>2, <1>3, <1>4, <1>5 DEF Next

LEMMA ExpiredInvariant == Spec => [](Typed /\ ExpiredAreQuiet)
<1>1. Init => Typed /\ ExpiredAreQuiet
  BY InitTyped DEF Init, ExpiredAreQuiet
<1>2. Typed /\ ExpiredAreQuiet /\ [Next]_vars => (Typed /\ ExpiredAreQuiet)'
  BY StepTyped, StepExpired
<1> QED
  BY <1>1, <1>2, PTL DEF Spec

(* After the boundary that settles an expired contract no order of it is   *)
(* pending, and no decision or order can make one pending again.           *)
THEOREM ExpiryIsQuiet == Spec => []ExpiredAreQuiet
BY ExpiredInvariant, PTL

-----------------------------------------------------------------------------
(* The pipeline implements PendingChains. *)

(* Which steps number a new decision. *)
LEMMA StepCounts ==
  ASSUME Typed, [Next]_vars
  PROVE  \/ Quiet /\ nextRebalance' = nextRebalance
         \/ orders' = orders /\ nextRebalance' = nextRebalance + 1 /\ Agents # {}
         \/ /\ nextRebalance' = nextRebalance + 1
            /\ \E agent \in Agents, wanted \in SUBSET Assets, ts \in Times :
                 Replaces(agent, wanted, ts)
<1>1. CASE UNCHANGED vars
  BY <1>1 DEF vars, ledgers, Quiet, Durable
<1>2. CASE \E batch \in SUBSET Assets \ {{}}, ts \in Times :
             \/ ValuationStep(batch, ts)
             \/ \E tradable \in SUBSET batch : MarketStep(batch, tradable, ts)
  <2>1. ASSUME NEW batch \in SUBSET Assets, NEW ts \in Times, ValuationStep(batch, ts)
        PROVE  Quiet /\ nextRebalance' = nextRebalance
    BY <2>1 DEF ValuationStep, ledgers, Quiet, Durable
  <2>2. ASSUME NEW batch \in SUBSET Assets, NEW tradable \in SUBSET batch, NEW ts \in Times,
               MarketStep(batch, tradable, ts)
        PROVE  Quiet /\ nextRebalance' = nextRebalance
    <3>1. Quiet
      BY <2>2, MarketQuiet
    <3> QED
      BY <2>2, <3>1 DEF MarketStep
  <2> QED
    BY <1>2, <2>1, <2>2
<1>3. CASE \E agent \in Agents, allowed \in Universes, decided \in SUBSET Assets, ts \in Times :
             \/ NoDecision(agent, allowed, decided, ts)
             \/ RejectTargets(agent, allowed, decided, ts)
             \/ \E wanted \in SUBSET allowed :
                  \/ FailPlan(agent, allowed, decided, ts, wanted)
                  \/ \E legs \in [wanted -> OrderCounts] :
                       SubmitTargets(agent, allowed, decided, ts, legs)
  <2>1. \A allowed \in Universes : SUBSET allowed \subseteq SUBSET Assets
    BY TargetOrdersAssumption
  <2>2. ASSUME NEW agent \in Agents, NEW allowed \in Universes, NEW decided \in SUBSET Assets,
               NEW ts \in Times, NoDecision(agent, allowed, decided, ts)
        PROVE  Quiet /\ nextRebalance' = nextRebalance
    BY <2>2, DecisionQuiet DEF NoDecision
  <2>3. ASSUME NEW agent \in Agents, NEW allowed \in Universes, NEW decided \in SUBSET Assets,
               NEW ts \in Times, RejectTargets(agent, allowed, decided, ts)
        PROVE  orders' = orders /\ nextRebalance' = nextRebalance + 1 /\ Agents # {}
    BY <2>3 DEF RejectTargets, Decides
  <2>4. ASSUME NEW agent \in Agents, NEW allowed \in Universes, NEW decided \in SUBSET Assets,
               NEW ts \in Times, NEW wanted \in SUBSET allowed,
               FailPlan(agent, allowed, decided, ts, wanted)
        PROVE  nextRebalance' = nextRebalance + 1 /\ Replaces(agent, wanted, ts)
    <3>1. Replaces(agent, wanted, ts)
      BY <2>4, FailReplaces
    <3> QED
      BY <2>4, <3>1 DEF FailPlan, Decides
  <2>5. ASSUME NEW agent \in Agents, NEW allowed \in Universes, NEW decided \in SUBSET Assets,
               NEW ts \in Times, NEW wanted \in SUBSET allowed,
               NEW legs \in [wanted -> OrderCounts],
               SubmitTargets(agent, allowed, decided, ts, legs)
        PROVE  nextRebalance' = nextRebalance + 1 /\ Replaces(agent, wanted, ts)
    <3>1. Replaces(agent, wanted, ts)
      BY <2>5, SubmitReplaces
    <3> QED
      BY <2>5, <3>1 DEF SubmitTargets, Decides
  <2>6. PICK agent \in Agents, allowed \in Universes, decided \in SUBSET Assets, ts \in Times :
             \/ NoDecision(agent, allowed, decided, ts)
             \/ RejectTargets(agent, allowed, decided, ts)
             \/ \E wanted \in SUBSET allowed :
                  \/ FailPlan(agent, allowed, decided, ts, wanted)
                  \/ \E legs \in [wanted -> OrderCounts] :
                       SubmitTargets(agent, allowed, decided, ts, legs)
    BY <1>3
  <2>7. CASE \E wanted \in SUBSET allowed :
               \/ FailPlan(agent, allowed, decided, ts, wanted)
               \/ \E legs \in [wanted -> OrderCounts] :
                    SubmitTargets(agent, allowed, decided, ts, legs)
    <3>1. PICK wanted \in SUBSET allowed :
            nextRebalance' = nextRebalance + 1 /\ Replaces(agent, wanted, ts)
      BY <2>4, <2>5, <2>7
    <3>2. wanted \in SUBSET Assets
      BY <2>1
    <3> QED
      BY <3>1, <3>2
  <2> QED
    BY <2>2, <2>3, <2>6, <2>7
<1>4. CASE \E agent \in Agents, asset \in Assets, ts \in Times, type \in {"market", "limit"} :
             PlaceOrder(agent, asset, ts, type)
  BY <1>4, PlaceQuiet DEF PlaceOrder
<1>5. CASE \E o \in DOMAIN orders : CancelOrder(o)
  BY <1>5, CancelQuiet DEF CancelOrder
<1> QED
  BY <1>1, <1>2, <1>3, <1>4, <1>5 DEF Next

LiveInRange == \A g \in Agents, a \in Assets : LiveDecision(g, a) \in 0 .. nextRebalance

LEMMA LiveRange == Typed => LiveInRange
<1> SUFFICES ASSUME Typed, NEW g \in Agents, NEW a \in Assets
             PROVE  LiveDecision(g, a) \in 0 .. nextRebalance
  BY DEF LiveInRange
<1>1. \A o \in DOMAIN orders : TargetDerived(o) => o.reb \in 0 .. nextRebalance
  BY TargetOrdersAssumption DEF Typed, TypeOK, NewIds, TargetDerived, OrderIds
<1>2. PendingRebalances(g, a) \subseteq 0 .. nextRebalance
  BY <1>1 DEF PendingRebalances
<1>3. 0 \in 0 .. nextRebalance
  BY DEF Typed, TypeOK
<1> QED
  BY <1>2, <1>3 DEF LiveDecision

(* With one chain, a decision still pending is the live one. *)
LEMMA LiveIsPending ==
  ASSUME OneChain, NEW g \in Agents, NEW a \in Assets, NEW r \in PendingRebalances(g, a)
  PROVE  LiveDecision(g, a) = r
<1>1. \A q \in PendingRebalances(g, a) : q = r
  BY DEF PendingRebalances, OneChain
<1> QED
  BY <1>1 DEF LiveDecision

LEMMA QuietLive ==
  ASSUME OneChain, OneChain', Quiet, NEW g \in Agents, NEW a \in Assets
  PROVE  LiveDecision(g, a)' \in {LiveDecision(g, a), 0}
<1>1. ASSUME NEW r \in PendingRebalances(g, a)'
      PROVE  r \in PendingRebalances(g, a) /\ LiveDecision(g, a)' = r
  <2>1. PICK o \in DOMAIN orders' :
          /\ orders'[o].agent = g /\ o.asset = a /\ o.reb = r
          /\ Accepted(o)' /\ TargetDerived(o)
    BY <1>1 DEF PendingRebalances, TargetDerived
  <2>2. o \in DOMAIN orders /\ Accepted(o) /\ orders'[o].agent = orders[o].agent
    BY <2>1, AfterQuiet
  <2>3. r \in PendingRebalances(g, a)
    BY <2>1, <2>2 DEF PendingRebalances
  <2>4. \A q \in PendingRebalances(g, a)' : q = r
    BY <1>1 DEF PendingRebalances, OneChain
  <2>5. LiveDecision(g, a)' = r
    BY <1>1, <2>4 DEF LiveDecision
  <2> QED
    BY <2>3, <2>5
<1>2. CASE PendingRebalances(g, a)' = {}
  BY <1>2 DEF LiveDecision
<1>3. CASE \E r \in PendingRebalances(g, a)' : TRUE
  BY <1>1, <1>3, LiveIsPending
<1> QED
  BY <1>2, <1>3

(* A decision touches the chains of the assets it wants, and no others.    *)
LEMMA ReplacingOthers ==
  ASSUME Typed, NEW agent \in Agents, NEW wanted \in SUBSET Assets, NEW ts \in Times,
         Replaces(agent, wanted, ts), NEW g \in Agents, NEW a \in Assets,
         ~(g = agent /\ a \in wanted)
  PROVE  LiveDecision(g, a)' = LiveDecision(g, a)
<1>1. ASSUME NEW r \in PendingRebalances(g, a)'
      PROVE  r \in PendingRebalances(g, a)
  <2>1. PICK o \in DOMAIN orders' :
          /\ orders'[o].agent = g /\ o.asset = a /\ o.reb = r
          /\ Accepted(o)' /\ TargetDerived(o)
    BY <1>1 DEF PendingRebalances, TargetDerived
  <2>2. o \in DOMAIN orders /\ Accepted(o) /\ orders'[o] = orders[o]
    BY <2>1, AfterReplacing
  <2> QED
    BY <2>1, <2>2 DEF PendingRebalances
<1>2. ASSUME NEW r \in PendingRebalances(g, a)
      PROVE  r \in PendingRebalances(g, a)'
  <2>1. PICK o \in DOMAIN orders :
          /\ orders[o].agent = g /\ o.asset = a /\ o.reb = r
          /\ Accepted(o) /\ TargetDerived(o)
    BY <1>2 DEF PendingRebalances
  <2>2. o \notin Pending(agent, wanted)
    BY <2>1 DEF Pending
  <2>3. o \in DOMAIN orders' /\ orders'[o] = orders[o]
    BY <2>2 DEF Replaces
  <2> QED
    BY <2>1, <2>3 DEF PendingRebalances, Accepted, TargetDerived
<1>3. PendingRebalances(g, a)' = PendingRebalances(g, a)
  BY <1>1, <1>2
<1> QED
  BY <1>3 DEF LiveDecision

LEMMA ReplacingOwn ==
  ASSUME Typed, NEW agent \in Agents, NEW wanted \in SUBSET Assets, NEW ts \in Times,
         Replaces(agent, wanted, ts), NEW a \in wanted
  PROVE  LiveDecision(agent, a)' = IF PendingRebalances(agent, a)' = {} THEN 0 ELSE nextRebalance
<1>1. ASSUME NEW r \in PendingRebalances(agent, a)'
      PROVE  r = nextRebalance
  <2>1. PICK o \in DOMAIN orders' :
          /\ orders'[o].agent = agent /\ o.asset = a /\ o.reb = r
          /\ Accepted(o)' /\ TargetDerived(o)
    BY <1>1 DEF PendingRebalances, TargetDerived
  <2> QED
    BY <2>1, AfterReplacing
<1> QED
  BY <1>1 DEF LiveDecision

LEMMA StepChains ==
  ASSUME Typed, Typed', OneChain, OneChain', [Next]_vars
  PROVE  [Chains!ChainNext]_(Chains!chainVars)
<1>1. /\ liveDecisions \in [Agents -> [Assets -> 0 .. nextRebalance]]
      /\ liveDecisions' \in [Agents -> [Assets -> 0 .. nextRebalance']]
      /\ \A g \in Agents, a \in Assets :
           /\ liveDecisions[g][a] = LiveDecision(g, a)
           /\ liveDecisions'[g][a] = LiveDecision(g, a)'
  <2>1. LiveInRange
    BY LiveRange
  <2>2. LiveInRange'
    BY LiveRange, PTL
  <2> QED
    BY <2>1, <2>2 DEF LiveInRange, liveDecisions
<1>2. CASE Quiet /\ nextRebalance' = nextRebalance
  <2>1. \A g \in Agents, a \in Assets : liveDecisions'[g][a] \in {liveDecisions[g][a], 0}
    BY <1>1, <1>2, QuietLive
  <2>2. Chains!SettleSome
    BY <1>1, <1>2, <2>1 DEF Chains!SettleSome
  <2> QED
    BY <2>2 DEF Chains!ChainNext
<1>3. CASE orders' = orders /\ nextRebalance' = nextRebalance + 1 /\ Agents # {}
  <2>1. \A g \in Agents, a \in Assets : LiveDecision(g, a)' = LiveDecision(g, a)
    BY <1>3 DEF LiveDecision, PendingRebalances, Accepted
  <2>2. liveDecisions' = liveDecisions
    BY <2>1 DEF liveDecisions
  <2>3. PICK agent \in Agents : TRUE
    BY <1>3
  <2>4. [a \in Assets |-> liveDecisions[agent][a]] = liveDecisions[agent]
    BY <1>1
  <2>5. liveDecisions' = [liveDecisions EXCEPT ![agent] =
                           [a \in Assets |-> IF a \in {} THEN nextRebalance
                                             ELSE IF a \in {} THEN 0
                                             ELSE liveDecisions[agent][a]]]
    BY <1>1, <2>2, <2>4
  <2>6. Chains!Decide(agent, {}, {})
    BY <1>3, <2>5 DEF Chains!Decide
  <2> QED
    BY <2>6 DEF Chains!ChainNext
<1>4. ASSUME nextRebalance' = nextRebalance + 1, NEW agent \in Agents,
             NEW wanted \in SUBSET Assets, NEW ts \in Times, Replaces(agent, wanted, ts)
      PROVE  Chains!ChainNext
  <2> DEFINE planned == {a \in wanted : PendingRebalances(agent, a)' # {}}
             after == [a \in Assets |-> IF a \in planned THEN nextRebalance
                                        ELSE IF a \in wanted THEN 0
                                        ELSE liveDecisions[agent][a]]
  <2>1. ASSUME NEW a \in Assets
        PROVE  liveDecisions'[agent][a] = after[a]
    <3>1. CASE a \in wanted
      <4>1. LiveDecision(agent, a)' =
              IF PendingRebalances(agent, a)' = {} THEN 0 ELSE nextRebalance
        BY <1>4, <3>1, ReplacingOwn
      <4> QED
        BY <1>1, <3>1, <4>1
    <3>2. CASE a \notin wanted
      <4>1. LiveDecision(agent, a)' = LiveDecision(agent, a)
        BY <1>4, <3>2, ReplacingOthers
      <4> QED
        BY <1>1, <3>2, <4>1
    <3> QED
      BY <3>1, <3>2
  <2>2. liveDecisions'[agent] = after
    BY <1>1, <2>1
  <2>3. \A g \in Agents : g # agent => liveDecisions'[g] = liveDecisions[g]
    <3> SUFFICES ASSUME NEW g \in Agents, g # agent
                 PROVE  liveDecisions'[g] = liveDecisions[g]
      OBVIOUS
    <3>1. ASSUME NEW a \in Assets
          PROVE  liveDecisions'[g][a] = liveDecisions[g][a]
      <4>1. LiveDecision(g, a)' = LiveDecision(g, a)
        BY <1>4, ReplacingOthers
      <4> QED
        BY <1>1, <4>1
    <3> QED
      BY <1>1, <3>1
  <2>4. liveDecisions' = [liveDecisions EXCEPT ![agent] = after]
    BY <1>1, <2>2, <2>3
  <2>5. Chains!Decide(agent, wanted, planned)
    BY <1>4, <2>4 DEF Chains!Decide
  <2>6. planned \in SUBSET wanted
    OBVIOUS
  <2> QED
    BY <2>5, <2>6 DEF Chains!ChainNext
<1> QED
  BY <1>2, <1>3, <1>4, StepCounts

(* The order pipeline, with its three ledgers, expiries and cancellations, *)
(* implements the specification of pending chains: at most one live        *)
(* decision per agent and asset, replaced only by a newer one, never       *)
(* revived.                                                                *)
THEOREM ChainsImplemented == Spec => ImplementsChains
<1>1. Init => Chains!ChainInit
  <2> SUFFICES ASSUME Init PROVE Chains!ChainInit
    OBVIOUS
  <2>1. \A g \in Agents, a \in Assets : LiveDecision(g, a) = 0
    BY DEF Init, LiveDecision, PendingRebalances
  <2> QED
    BY <2>1 DEF Init, liveDecisions, Chains!ChainInit
<1>2. Typed /\ Typed' /\ OneChain /\ OneChain' /\ [Next]_vars
        => [Chains!ChainNext]_(Chains!chainVars)
  BY StepChains
<1> QED
  BY <1>1, <1>2, ChainInvariant, PTL DEF Spec, ImplementsChains, Chains!ChainSpec
=============================================================================
