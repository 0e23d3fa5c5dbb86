-------------------------- MODULE MCPortfolioKernel --------------------------
(* Two correlated assets and an account that can carry a few contracts of  *)
(* each on its own, and more of one against the other.                     *)
EXTENDS PortfolioKernel

Bar(o, h, l, c) == [open |-> o, high |-> h, low |-> l, close |-> c]

(* A quiet bar, a rise and a crash of asset 1; a drift of asset 2. *)
MCBars == [a \in 1 .. 2 |->
  IF a = 1 THEN {Bar(10, 11, 9, 10), Bar(10, 14, 8, 14), Bar(9, 9, 4, 5)}
  ELSE {Bar(10, 11, 9, 10), Bar(10, 12, 7, 8)}]

(* Volatilities of a tenth at three sigmas, and a strong correlation.  *)
MCRisk == <<<<36, 30>>, <<30, 36>>>>

Contract(a, side, type, px, qty) ==
  [asset |-> a, intended |-> NA, side |-> side, type |-> type, px |-> px, qty |-> qty]

Target(a, action, side, qty) ==
  [asset |-> a, intended |-> action, side |-> side, type |-> "MARKET", px |-> NA, qty |-> qty]

MCOrders ==
  {Contract(1, 1, "MARKET", NA, 2), Contract(1, -1, "LIMIT", 12, 1), Contract(2, 0, "MARKET", NA, 1),
   Target(1, "OPEN", 1, 5), Target(1, "REDUCE", 1, 1), Target(2, "OPEN", -1, 6),
   Target(2, "INCREASE", -1, 2), Target(1, "CLOSE", 0, 2)}
=============================================================================
