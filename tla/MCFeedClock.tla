---------------------------- MODULE MCFeedClock ----------------------------
(* Installations of one or two assets. *)
EXTENDS FeedClock

CONSTANTS a1, a2

(* Two simulated feeds of one timeframe, configured as they are added. *)
Plain ==
  [registry |-> <<a1, a2>>, timeframes |-> {1}, modes |-> {"simulation"}, late |-> FALSE,
   closed |-> {}, model |-> FALSE, warmup |-> 1, calls |-> {"register", "configure"},
   maxCalls |-> 4, maxLog |-> 9]

(* Two feeds whose timeframes and modes change. *)
Changing ==
  [Plain EXCEPT !.timeframes = {1, 2}, !.modes = {"simulation", "external"},
                !.calls = {"register", "configure", "start", "one"}]

(* Two feeds a market model drives, with warmups, pauses and crashes. *)
Modelled ==
  [Plain EXCEPT !.model = TRUE, !.maxCalls = 5,
                !.calls = {"register", "pause", "start", "warmup", "save", "crash"}]

(* Feeds, external feeds, a market model and warmups in any mixture; where *)
(* the installation has no model, external feeds may be late.              *)
Mixed(on) ==
  [Plain EXCEPT !.modes = {"simulation", "external"}, !.late = ~on, !.model = on, !.warmup = 2,
                !.maxCalls = IF on THEN 4 ELSE 3,
                !.maxLog = 6,
                !.calls = {"register", "model", "warmup", "one", "start", "status", "reset"}]

(* One feed that is refused a bar, and dies between two files of a save. *)
Torn ==
  [Plain EXCEPT !.registry = <<a1>>, !.timeframes = {1, 2}, !.closed = {1}, !.maxCalls = 6,
                !.maxLog = 5,
                !.calls = {"register", "remove", "configure", "save", "crash", "tear"}]

(* The calls that set no clock anew. *)
SteadyCalls == AllCalls \ {"reset", "model"}

(* One feed and all steady calls of one timeframe, or without warmups. *)
AnyTorn(tfs) ==
  [Torn EXCEPT !.timeframes = tfs, !.maxCalls = 4, !.maxLog = 4,
               !.calls = IF Cardinality(tfs) = 1 THEN SteadyCalls ELSE SteadyCalls \ {"warmup"}]

(* Two feeds and all steady calls on whole saves, with a model, or with    *)
(* feeds stepped alone.                                                    *)
AnyWhole(on) ==
  [Plain EXCEPT !.model = on, !.maxLog = 4,
                !.calls = SteadyCalls \ IF on THEN {"tear", "one"} ELSE {"tear", "pause"}]

(* A model whose feeds are refused a batch. *)
RefusedBatch == [Modelled EXCEPT !.closed = {1}, !.maxCalls = 4, !.maxLog = 5, !.calls = @ \cup {"tear"}]

Installations ==
  {Changing, Modelled, Mixed(TRUE), Mixed(FALSE), Torn, RefusedBatch}
    \cup {AnyTorn(tfs) : tfs \in {{1}, {1, 2}}} \cup {AnyWhole(on) : on \in BOOLEAN}

PlainOnly == {Plain}

WithRemovals == {[Plain EXCEPT !.calls = {"register", "remove"}, !.maxCalls = 3]}
=============================================================================
