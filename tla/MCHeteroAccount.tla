--------------------------- MODULE MCHeteroAccount ---------------------------
(* A share, a bond and a future in another currency, and an account that   *)
(* can pay for a few units of each.                                        *)
EXTENDS HeteroAccount

Bar(o, h, l, c) == [open |-> o, high |-> h, low |-> l, close |-> c]

MCHome == [a \in {"share", "bond", "future"} |-> IF a = "future" THEN "EUR" ELSE "USD"]

MCRate == [c \in {"USD", "EUR"} |-> IF c = "EUR" THEN 2 ELSE 1]

MCCash == [c \in {"USD", "EUR"} |-> IF c = "EUR" THEN 200 ELSE 2080]

MCTerms == {[lag |-> 0, maturity |-> 14], [lag |-> 1, maturity |-> 20]}

(* Volatilities of about a twentieth and a tenth at three sigmas, in 1/40. *)
MCRisk == [a \in {"share", "bond", "future"} |-> [b \in {"share", "bond", "future"} |->
  CASE a = b -> IF a = "bond" THEN 1 ELSE 4
    [] a # b /\ "bond" \in {a, b} -> 0
    [] OTHER -> 2]]

MCBars ==
  [a \in {"share", "bond", "future"} |->
     CASE a = "share" -> {Bar(10, 12, 8, 11)}
       [] a = "bond" -> {Bar(10, 10, 10, 10)}
       [] OTHER -> {Bar(10, 11, 9, 10), Bar(9, 9, 3, 4)}]

Order(asset, side, qty, limit, tif, action) ==
  [asset |-> asset, side |-> side, qty |-> qty, limit |-> limit, tif |-> tif, action |-> action,
   levered |-> FALSE]

Market(asset, side, qty) == Order(asset, side, qty, NA, "gtc", NA)

Group(agent, derived, legs) == [agent |-> agent, derived |-> derived, legs |-> legs]

Levered(leg) == [leg EXCEPT !.levered = TRUE]

BondsOf(agent) == Group(agent, FALSE, <<Market("bond", "buy", 1)>>)

MCRequests ==
  {Group("ann", FALSE, <<Market("share", "buy", 1), Order("future", "buy", 1, 8, "gtc", NA)>>),
   Group("ann", FALSE, <<Order("share", "sell", 1, 13, "ioc", NA), Market("future", "sell", 3)>>),
   Group("ann", FALSE, <<Order("share", "flat", 0, NA, "gtc", NA), Order("future", "sell", 1, 11, "fok", NA)>>),
   Group("ann", TRUE, <<Order("share", "buy", 2, NA, "gtc", "OPEN"), Order("future", "buy", 4, NA, "gtc", "OPEN")>>),
   Group("ann", TRUE, <<Levered(Order("bond", "buy", 3, NA, "gtc", "OPEN"))>>),
   Group("ann", TRUE, <<Order("future", "sell", 0, NA, "gtc", "CLOSE"), Order("share", "sell", 1, NA, "gtc", "REDUCE")>>),
   Group("ann", FALSE, <<Market("bond", "sell", 1)>>),
   BondsOf("ann"), BondsOf("bob")}

MCNotices == {[type |-> "redemption", amount |-> 1000], [type |-> "coupon", amount |-> 50]}
=============================================================================
