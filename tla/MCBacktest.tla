----------------------------- MODULE MCBacktest -----------------------------
(* Small instances of Backtest: cash for a position of a few steps, prices *)
(* that gap far enough to clip, refuse and liquidate.                      *)
EXTENDS Backtest

Bar(o, h, l, c) == [open |-> o, high |-> h, low |-> l, close |-> c]

Market(tgt) == [tgt |-> tgt, tol |-> 0, type |-> "MARKET", px |-> NA]

Limit(tgt, px) == [tgt |-> tgt, tol |-> 1, type |-> "LIMIT", px |-> px]

(* A rise, a crash, a drift and a gap down. *)
MCBars == {Bar(10, 11, 9, 10), Bar(10, 15, 9, 14), Bar(9, 10, 5, 6), Bar(14, 14, 9, 9)}

MCIntents == {Market(NA), Market(0), Market(20), Market(-15), Limit(15, 10)}
=============================================================================
