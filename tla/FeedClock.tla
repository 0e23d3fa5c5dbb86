----------------------------- MODULE FeedClock -----------------------------
(***************************************************************************)
(* The clock of the live exchange: sim_feed.R, with the asset registry it  *)
(* reads and what sim_exchange_save and sim_exchange_load keep of it.      *)
(*                                                                         *)
(* Every asset may have a feed with a cursor, the end of the last bar it   *)
(* has processed.  A call walks the feeds one after the other; a feed      *)
(* produces the bars that were completed since its cursor, shows each bar  *)
(* to the agents and steps the exchange with it, and stores its cursor     *)
(* when all of them are done.  With a market model one cursor drives all   *)
(* feeds in batches.  R runs one call at a time; an error ends the call    *)
(* where it stands, and the process may die between two files of a save.   *)
(*                                                                         *)
(* Prices are abstracted to the asset whose series they continue.  Orders  *)
(* and accounts are left out.  Time counts units of the finest timeframe.  *)
(***************************************************************************)
EXTENDS Integers, Sequences, FiniteSets, SequencesExt

CONSTANTS
  NULL,
  DefaultTimeframe, \* the timeframe of a feed that is given none
  Settings,         \* the installations that are looked at, see below
  MaxTime           \* bound on the clock

AllCalls == {"register", "pause", "remove", "configure", "reset", "model", "one", "start",
             "warmup", "status", "save", "crash", "tear"}

(***************************************************************************)
(* A setting is an installation and what is done with it:                  *)
(*   registry    the assets, in the order they are registered              *)
(*   timeframes  the timeframes a feed may be given                        *)
(*   modes       the feed modes in use                                     *)
(*   late        whether an external adapter may not have a bar yet        *)
(*   closed      the bar starts at which a strict calendar refuses a bar   *)
(*   model       whether the exchange starts with a market model           *)
(*   warmup      how many bars a warmup asks for (for none it returns)     *)
(*   calls       the administrative calls in use                           *)
(*   maxCalls    bound on administrative calls                             *)
(*   maxLog      bound on the bars shown to agents, which may repeat       *)
(***************************************************************************)
Cursors == Int \cup {NULL}

FeedRows(s) == [tf : s.timeframes, mode : s.modes \cup {"simulation"}, start : Cursors,
                cursor : Cursors, price : ToSet(s.registry)]

Bars(s) == [from : Int, to : Int, live : BOOLEAN, open : ToSet(s.registry) \cup {NULL}]

Statuses == {"absent", "active", "paused", "removed"}

(* Feeds by asset, with the order of their names. *)
Configs(s) ==
  {c \in [order : Seq(ToSet(s.registry)), rows : [ToSet(s.registry) -> FeedRows(s) \cup {NULL}]] :
     /\ IsInjective(c.order)
     /\ \A a \in ToSet(s.registry) : c.rows[a] # NULL <=> Contains(c.order, a)}

(* What a file of the saved exchange holds. *)
Tables(s) ==
  [market_events   |-> [ToSet(s.registry) -> Seq(Bars(s))],
   assets          |-> [ToSet(s.registry) -> Statuses],
   agent_decisions |-> [ToSet(s.registry) -> Seq(Int)],
   market_model    |-> [active : BOOLEAN, cursor : Cursors],
   feed_status     |-> [cursor : Cursors, price : ToSet(s.registry) \cup {NULL}],
   feed_configs    |-> Configs(s)]

ASSUME FeedClockAssumption ==
  /\ NULL \notin Int /\ MaxTime \in Nat
  /\ \A s \in Settings :
       /\ s.registry \in Seq(ToSet(s.registry)) /\ IsInjective(s.registry) /\ NULL \notin ToSet(s.registry)
       /\ s.timeframes \subseteq Nat \ {0} /\ DefaultTimeframe \in s.timeframes
       /\ s.modes \subseteq {"simulation", "external"}
       /\ {s.late, s.model} \subseteq BOOLEAN
       /\ s.closed \subseteq Int
       /\ s.calls \subseteq AllCalls
       /\ s.warmup \in Nat \ {0} /\ {s.maxCalls, s.maxLog} \subseteq Nat
       /\ NULL \notin FeedRows(s) /\ \A f \in DOMAIN Tables(s) : NULL \notin Tables(s)[f]

VARIABLES
  setting,  \* the installation
  now,      \* Sys.time()
  status,   \* exchange$assets: the status of each asset, "absent" without a row
  feeds,    \* exchange$feeds
  keys,     \* ... and the order of its names
  last,     \* exchange$feed: a copy of the feed touched last
  model,    \* exchange$market_model
  bars,     \* exchange$market_events, per asset
  decided,  \* exchange$agent_decisions: the bars shown to the agents
  call,     \* the call that is running
  writing,  \* the files a save has still to write
  disk,     \* the files of the saved exchange
  torn,     \* history: a death has left bars on disk without their cursors
  admin     \* counts the administrative calls

memory == <<status, feeds, keys, last, model, bars, decided>>

vars == <<setting, now, memory, call, writing, disk, torn, admin>>

Assets == ToSet(setting.registry)

NoFeed == [cursor |-> NULL, price |-> NULL]

Idle == [op |-> "idle", todo |-> <<>>, max |-> 0, feed |-> NULL, bars |-> <<>>, cursor |-> NULL,
         last |-> NoFeed]

(* Mutant: the feeds are saved before what they have produced. *)
FeedsFirst == <<"feed_configs", "market_events", "assets", "agent_decisions", "market_model", "feed_status">>

(* The files in the order sim_exchange_save writes them. *)
Files == <<"market_events", "assets", "agent_decisions", "market_model", "feed_status", "feed_configs">>

(***************************************************************************)
(* Reading the state                                                       *)
(***************************************************************************)

(* The members of a sequence that are in a set, in their order. *)
Among(s, members) ==
  FoldLeft(LAMBDA kept, x : IF x \in members THEN Append(kept, x) ELSE kept, <<>>, s)

LatestEnd(tf) == (now \div tf) * tf

Registered(a) == status[a] \notin {"absent", "removed"}

(* names(exchange$feeds) and then the assets of the registry with one of   *)
(* these statuses.                                                         *)
KeysWith(statuses) ==
  keys \o Among(setting.registry, {a \in Assets : status[a] \in statuses} \ ToSet(keys))

RequestKeys == KeysWith({"active"})

StatusKeys == KeysWith({"active", "paused"})

(* sim_feed_config() with the start price of asset a. *)
DefaultFeed(a) == [tf |-> DefaultTimeframe, mode |-> "simulation", start |-> NULL,
                   cursor |-> NULL, price |-> a]

Selected(a) == IF Contains(keys, a) THEN feeds[a] ELSE DefaultFeed(a)

(* Where a schedule stands: its cursor, or where it begins. *)
CursorOf(cursor, start, tf) ==
  CASE cursor # NULL -> cursor
    [] cursor = NULL /\ start # NULL -> start
    [] OTHER -> LatestEnd(tf)

(* Mutant: only the newest of the bars are produced. *)
NewestBars(cursor, tf, max) ==
  LET due == (LatestEnd(tf) - cursor) \div tf
      n   == IF due < 0 THEN 0 ELSE IF due > max THEN max ELSE due
  IN [i \in 1 .. n |-> [from |-> LatestEnd(tf) - (n - i + 1) * tf, to |-> LatestEnd(tf) - (n - i) * tf,
                        live |-> TRUE, open |-> NULL]]

(* Mutant: the last completed bar is taken for a running one. *)
CompletedButLast(cursor, tf, max) ==
  LET due == (LatestEnd(tf) - cursor) \div tf - 1
      n   == IF due < 0 THEN 0 ELSE IF due > max THEN max ELSE due
  IN [i \in 1 .. n |-> [from |-> cursor + (i - 1) * tf, to |-> cursor + i * tf, live |-> TRUE,
                        open |-> NULL]]

(* The bars of a timeframe that are completed since a cursor, at most max. *)
CompletedBars(cursor, tf, max) ==
  LET due == (LatestEnd(tf) - cursor) \div tf
      n   == IF due < 0 THEN 0 ELSE IF due > max THEN max ELSE due
  IN [i \in 1 .. n |-> [from |-> cursor + (i - 1) * tf, to |-> cursor + i * tf, live |-> TRUE,
                        open |-> NULL]]

(* The history that ends at the latest completed boundary. *)
HistoryBars(tf) ==
  [i \in 1 .. setting.warmup |->
     [from |-> LatestEnd(tf) - (setting.warmup - i + 1) * tf, to |-> LatestEnd(tf) - (setting.warmup - i) * tf,
      live |-> FALSE, open |-> NULL]]

(* The feeds a market model can drive: its timeframe is the one they share *)
(* (the model is given none of its own).                                   *)
ModelSpecOK(ks) ==
  /\ Len(ks) >= 2
  /\ \A a \in ToSet(ks) : Selected(a).mode = "simulation"
  /\ \A a, b \in ToSet(ks) : Selected(a).tf = Selected(b).tf

ModelTimeframe(ks) == Selected(ks[1]).tf

TypeOK ==
  LET tables == Tables(setting)
  IN /\ now \in Nat
     /\ status \in tables.assets
     /\ [order |-> keys, rows |-> feeds] \in tables.feed_configs
     /\ last \in tables.feed_status
     /\ model \in tables.market_model
     /\ bars \in tables.market_events
     /\ decided \in tables.agent_decisions
     /\ call \in [op : {"idle", "down", "start", "modelstart", "status", "step", "warmup", "batch",
                        "batchwarmup", "save", "write"},
                  todo : Seq(Assets), max : Nat, feed : FeedRows(setting) \cup {NULL},
                  bars : Seq(Bars(setting)), cursor : Cursors, last : tables.feed_status]
     /\ writing \in {SubSeq(Files, k, Len(Files)) : k \in 1 .. Len(Files) + 1}
     /\ DOMAIN disk = ToSet(Files)
     /\ \A f \in ToSet(Files) : disk[f] = NULL \/ disk[f] \in tables[f]
     /\ torn \in BOOLEAN
     /\ admin \in 0 .. setting.maxCalls

(* sim_exchange_new *)
New == [status |-> [a \in Assets |-> "absent"],
        feeds |-> [a \in Assets |-> NULL],
        last |-> NoFeed,
        model |-> [active |-> FALSE, cursor |-> NULL],
        log |-> [a \in Assets |-> <<>>]]

Init ==
  /\ setting \in Settings
  /\ now = 0
  /\ status = New.status
  /\ feeds = New.feeds /\ keys = <<>> /\ last = New.last
  /\ model = [New.model EXCEPT !.active = setting.model]
  /\ bars = New.log /\ decided = New.log
  /\ call = Idle
  /\ writing = <<>>
  /\ disk = [f \in ToSet(Files) |-> NULL]
  /\ torn = FALSE
  /\ admin = 0

(***************************************************************************)
(* The clock and the registry                                              *)
(***************************************************************************)

(* A call reads the clock once, so the clock moves between calls. *)
Tick ==
  /\ call = Idle /\ now < MaxTime
  /\ now' = now + 1
  /\ UNCHANGED <<memory, call, writing, disk, admin>>

Administrative(c) ==
  /\ c \in setting.calls /\ admin < setting.maxCalls
  /\ admin' = admin + 1

(* sim_asset_add appends a row, or overwrites the one there is. *)
AddAsset(a, st) ==
  /\ call = Idle
  /\ Administrative(IF st = "paused" THEN "pause" ELSE "register")
  /\ \A i, j \in DOMAIN setting.registry : i < j /\ setting.registry[j] = a => status[setting.registry[i]] # "absent"
  /\ status' = [status EXCEPT ![a] = st]
  /\ UNCHANGED <<now, feeds, keys, last, model, bars, decided, call, writing, disk>>

RemoveAsset(a) ==
  /\ call = Idle
  /\ Administrative("remove")
  /\ status[a] # "absent"
  /\ status' = [status EXCEPT ![a] = "removed"]
  /\ UNCHANGED <<now, feeds, keys, last, model, bars, decided, call, writing, disk>>

(***************************************************************************)
(* Configuration                                                           *)
(***************************************************************************)

(* Mutant: the name of a new feed is forgotten. *)
StoreUnnamed(a, f) ==
  /\ feeds' = [feeds EXCEPT ![a] = f]
  /\ keys' = keys
  /\ last' = [cursor |-> f.cursor, price |-> f.price]

(* exchange$feeds[[key]] <- feed; exchange$feed <- feed *)
StoreFeed(a, f) ==
  /\ feeds' = [feeds EXCEPT ![a] = f]
  /\ keys' = IF Contains(keys, a) THEN keys ELSE Append(keys, a)
  /\ last' = [cursor |-> f.cursor, price |-> f.price]

(* What a list without the cursor and the price takes over: those of the   *)
(* feed of the asset, or of the feed touched last.                         *)
Inherited(a) ==
  IF Contains(keys, a) THEN [cursor |-> feeds[a].cursor, price |-> feeds[a].price] ELSE last

(* sim_feed_configure with a list that names only what it sets. *)
Configure(a, tf, mode) ==
  /\ call = Idle /\ Registered(a)
  /\ Administrative("configure")
  /\ LET previous == Inherited(a)
     IN StoreFeed(a, [tf |-> tf, mode |-> mode, start |-> NULL, cursor |-> previous.cursor,
                      price |-> IF previous.price = NULL THEN a ELSE previous.price])
  /\ UNCHANGED <<now, status, model, bars, decided, call, writing, disk>>

(* sim_feed_configure with a whole sim_feed_config(). *)
Reset(a, tf, mode, start) ==
  /\ call = Idle /\ Registered(a)
  /\ Administrative("reset")
  /\ StoreFeed(a, [tf |-> tf, mode |-> mode, start |-> start, cursor |-> NULL, price |-> a])
  /\ UNCHANGED <<now, status, model, bars, decided, call, writing, disk>>

(* sim_market_model_configure keeps the cursor of the previous model, but  *)
(* not with a whole sim_market_model_config().                             *)
ConfigureModel(on, whole) ==
  /\ call = Idle
  /\ Administrative("model")
  /\ model' = [active |-> on, cursor |-> IF whole THEN NULL ELSE model.cursor]
  /\ UNCHANGED <<now, status, feeds, keys, last, bars, decided, call, writing, disk>>

(***************************************************************************)
(* Calls that walk the feeds                                               *)
(***************************************************************************)
Begin(op, todo, max) ==
  /\ call = Idle
  /\ call' = [Idle EXCEPT !.op = op, !.todo = todo, !.max = max]
  /\ UNCHANGED <<now, memory, writing, disk>>

(* A market model takes over the calls that name no asset; it looks at its *)
(* feeds only if there are two of them.                                    *)
BeginAll(op, modelOp, max) ==
  IF model.active
  THEN Begin(modelOp, IF Len(RequestKeys) < 2 THEN <<>> ELSE RequestKeys, max)
  ELSE Begin(op, RequestKeys, max)

(* sim_feed_step, for all feeds or for one. *)
Poll(max) ==
  /\ \A a \in Assets : Len(decided[a]) < setting.maxLog
  /\ BeginAll("step", "batch", max)
  /\ UNCHANGED admin

StepOne(a, max) == Registered(a) /\ Begin("step", <<a>>, max) /\ Administrative("one")

Start == BeginAll("start", "modelstart", 0) /\ Administrative("start")

Warmup == BeginAll("warmup", "batchwarmup", 0) /\ Administrative("warmup")

Status == Begin("status", StatusKeys, 0) /\ Administrative("status")

(* A save lists the feeds, too, and writes exchange$feed as it was before. *)
Save ==
  /\ call = Idle
  /\ call' = [Idle EXCEPT !.op = "save", !.todo = StatusKeys, !.last = last]
  /\ Administrative("save")
  /\ UNCHANGED <<now, memory, writing, disk>>

(* The key that is being walked, before its feed has produced bars. *)
Walking(ops) == call.op \in ops /\ call.todo # <<>> /\ call.feed = NULL

Key == Head(call.todo)

WalkOn == call' = [call EXCEPT !.todo = Tail(@), !.feed = NULL]

(* .feed_select fails for a removed asset, and warmup for an external      *)
(* feed; the keys before have been dealt with, those after are not.        *)
Fail ==
  /\ call.op \notin {"idle", "down"} /\ call.todo # <<>> /\ call.feed = NULL
  /\ \/ ~Registered(Key)
     \/ call.op = "warmup" /\ Selected(Key).mode # "simulation"
  /\ call' = Idle
  /\ UNCHANGED <<now, memory, writing, disk, admin>>

(* Selecting a feed creates the one that is missing. *)
TouchFeed ==
  /\ Walking({"status", "save", "modelstart", "batch", "batchwarmup"}) /\ Registered(Key)
  /\ StoreFeed(Key, Selected(Key))
  /\ WalkOn
  /\ UNCHANGED <<now, status, model, bars, decided, writing, disk, admin>>

StartFeed ==
  /\ Walking({"start"}) /\ Registered(Key)
  /\ LET f == Selected(Key)
     IN StoreFeed(Key, [f EXCEPT !.cursor = CursorOf(f.cursor, f.start, f.tf)])
  /\ WalkOn
  /\ UNCHANGED <<now, status, model, bars, decided, writing, disk, admin>>

(* The bars a feed produces of the ones it is asked for: all of them, but  *)
(* an external adapter answers with what it has.                           *)
Answers(f, asked) ==
  IF f.mode = "external" /\ setting.late
  THEN {Among(asked, have) : have \in SUBSET ToSet(asked)}
  ELSE {asked}

(* All bars are produced before the first is processed. *)
FetchFeed ==
  /\ Walking({"step"}) /\ Registered(Key)
  /\ LET f      == Selected(Key)
         cursor == CursorOf(f.cursor, f.start, f.tf)
         asked  == CompletedBars(cursor, f.tf, call.max)
         upto   == IF asked = <<>> THEN cursor ELSE asked[Len(asked)].to
     IN \E answer \in Answers(f, asked) :
          LET price == IF f.mode = "external" THEN Key ELSE f.price
          IN /\ StoreFeed(Key, f)
             /\ call' = [call EXCEPT !.feed = [f EXCEPT !.cursor = upto,
                                                        !.price = IF answer = <<>> THEN f.price ELSE price],
                                     !.bars = [i \in DOMAIN answer |->
                                                 [answer[i] EXCEPT !.open = price]]]
  /\ UNCHANGED <<now, status, model, bars, decided, writing, disk, admin>>

FetchHistory ==
  /\ Walking({"warmup"}) /\ Registered(Key) /\ Selected(Key).mode = "simulation"
  /\ LET f == Selected(Key)
     IN /\ StoreFeed(Key, f)
        /\ call' = [call EXCEPT !.feed = [f EXCEPT !.cursor = LatestEnd(f.tf)],
                                !.bars = [i \in 1 .. setting.warmup |->
                                            [HistoryBars(f.tf)[i] EXCEPT !.open = f.price]]]
  /\ UNCHANGED <<now, status, model, bars, decided, writing, disk, admin>>

(* A strict exchange refuses a live bar of a closed session; otherwise the *)
(* session decides only whether the bar is tradable.                       *)
Refused(b) == b.live /\ b.from \in setting.closed

(* Mutant: agents see the history of a warmup, too. *)
ShowEveryBar(as, b) ==
  decided' = [a \in Assets |-> IF a \in as THEN Append(decided[a], b.from) ELSE decided[a]]

(* Agents see a live bar before the exchange does. *)
ShowToAgents(as, b) ==
  decided' = [a \in Assets |-> IF b.live /\ a \in as THEN Append(decided[a], b.from) ELSE decided[a]]

ProcessBar ==
  /\ call.op \in {"step", "warmup"} /\ call.feed # NULL /\ call.bars # <<>>
  /\ LET b == Head(call.bars)
     IN /\ ShowToAgents({Key}, b)
        /\ IF Refused(b)
           THEN call' = Idle /\ UNCHANGED bars
           ELSE /\ bars' = [bars EXCEPT ![Key] = Append(@, b)]
                /\ call' = [call EXCEPT !.bars = Tail(@)]
  /\ UNCHANGED <<now, status, feeds, keys, last, model, writing, disk, admin>>

(* Mutant: the feed is stored as it was selected. *)
EndFeedUnmoved ==
  /\ call.op \in {"step", "warmup"} /\ call.feed # NULL /\ call.bars = <<>>
  /\ StoreFeed(Key, Selected(Key))
  /\ WalkOn
  /\ UNCHANGED <<now, status, model, bars, decided, writing, disk, admin>>

(* The cursor is stored when all bars of the feed are processed. *)
EndFeed ==
  /\ call.op \in {"step", "warmup"} /\ call.feed # NULL /\ call.bars = <<>>
  /\ StoreFeed(Key, call.feed)
  /\ WalkOn
  /\ UNCHANGED <<now, status, model, bars, decided, writing, disk, admin>>

(* What was started is listed with the feeds of all assets. *)
ListStarted ==
  /\ call.op = "start" /\ call.todo = <<>>
  /\ call' = [Idle EXCEPT !.op = "status", !.todo = StatusKeys]
  /\ UNCHANGED <<now, memory, writing, disk, admin>>

Return ==
  /\ call.op \in {"status", "step", "warmup"} /\ call.todo = <<>>
  /\ call' = Idle
  /\ UNCHANGED <<now, memory, writing, disk, admin>>

(***************************************************************************)
(* The market model                                                        *)
(***************************************************************************)

(* .market_model_spec refuses feeds that cannot be driven together. *)
ModelFails ==
  /\ call.op \in {"modelstart", "batch", "batchwarmup"} /\ call.todo = <<>>
  /\ call.cursor = NULL /\ ~ModelSpecOK(RequestKeys)
  /\ call' = Idle
  /\ UNCHANGED <<now, memory, writing, disk, admin>>

ModelCursor == CursorOf(model.cursor, NULL, ModelTimeframe(RequestKeys))

StartModel ==
  /\ call.op = "modelstart" /\ call.todo = <<>> /\ ModelSpecOK(RequestKeys)
  /\ model' = [model EXCEPT !.cursor = ModelCursor]
  /\ call' = [call EXCEPT !.op = "start", !.todo = RequestKeys]
  /\ UNCHANGED <<now, status, feeds, keys, last, bars, decided, writing, disk, admin>>

(* The batches of a model step or warmup. *)
PlanBatches ==
  /\ call.op \in {"batch", "batchwarmup"} /\ call.todo = <<>> /\ call.cursor = NULL
  /\ ModelSpecOK(RequestKeys)
  /\ LET tf == ModelTimeframe(RequestKeys)
     IN call' = IF call.op = "batch"
                THEN [call EXCEPT !.bars = CompletedBars(ModelCursor, tf, call.max), !.cursor = ModelCursor]
                ELSE [call EXCEPT !.bars = HistoryBars(tf), !.cursor = LatestEnd(tf)]
  /\ UNCHANGED <<now, memory, writing, disk, admin>>

(* Mutant: a batch leaves the cursors of its feeds alone. *)
ProcessBatchAlone ==
  /\ call.op \in {"batch", "batchwarmup"} /\ call.todo = <<>> /\ call.cursor # NULL /\ call.bars # <<>>
  /\ LET b  == Head(call.bars)
         as == ToSet(RequestKeys)
     IN /\ ShowToAgents(as, b)
        /\ IF Refused(b)
           THEN call' = Idle /\ UNCHANGED bars
           ELSE /\ bars' = [a \in Assets |-> IF a \in as
                                             THEN Append(bars[a], [b EXCEPT !.open = feeds[a].price])
                                             ELSE bars[a]]
                /\ call' = [call EXCEPT !.bars = Tail(@), !.cursor = b.to]
  /\ UNCHANGED <<now, status, feeds, keys, last, model, writing, disk, admin>>

(* Producing a batch stores the cursors of its feeds, in the order of the  *)
(* asset ids, before agents and exchange see the batch.                    *)
ProcessBatch ==
  /\ call.op \in {"batch", "batchwarmup"} /\ call.todo = <<>> /\ call.cursor # NULL /\ call.bars # <<>>
  /\ LET b  == Head(call.bars)
         as == ToSet(RequestKeys)
         final == Last(Among(setting.registry, as))
     IN /\ feeds' = [a \in Assets |-> IF a \in as THEN [feeds[a] EXCEPT !.cursor = b.to] ELSE feeds[a]]
        /\ last' = [cursor |-> b.to, price |-> feeds[final].price]
        /\ ShowToAgents(as, b)
        /\ IF Refused(b)
           THEN call' = Idle /\ UNCHANGED bars
           ELSE /\ bars' = [a \in Assets |-> IF a \in as
                                             THEN Append(bars[a], [b EXCEPT !.open = feeds[a].price])
                                             ELSE bars[a]]
                /\ call' = [call EXCEPT !.bars = Tail(@), !.cursor = b.to]
  /\ UNCHANGED <<now, status, keys, model, writing, disk, admin>>

EndBatches ==
  /\ call.op \in {"batch", "batchwarmup"} /\ call.todo = <<>> /\ call.cursor # NULL /\ call.bars = <<>>
  /\ model' = [model EXCEPT !.cursor = call.cursor]
  /\ call' = Idle
  /\ UNCHANGED <<now, status, feeds, keys, last, bars, decided, writing, disk, admin>>

(***************************************************************************)
(* Saving, dying and loading                                               *)
(***************************************************************************)

(* All tables are built before the first file is written. *)
BeginFiles ==
  /\ call.op = "save" /\ call.todo = <<>>
  /\ call' = [Idle EXCEPT !.op = "write", !.last = call.last]
  /\ writing' = Files
  /\ UNCHANGED <<now, memory, disk, admin>>

(* The columns of feed_configs leave out the start time. *)
FeedConfigs == [order |-> keys,
                rows  |-> [a \in Assets |-> IF feeds[a] = NULL THEN NULL ELSE [feeds[a] EXCEPT !.start = NULL]]]

Content ==
  [market_events |-> bars, assets |-> status, agent_decisions |-> decided, market_model |-> model,
   feed_status |-> call.last, feed_configs |-> FeedConfigs]

WriteFile ==
  /\ call.op = "write" /\ writing # <<>>
  /\ disk' = [disk EXCEPT ![Head(writing)] = Content[Head(writing)]]
  /\ writing' = Tail(writing)
  /\ call' = IF Len(writing) = 1 THEN Idle ELSE call
  /\ UNCHANGED <<now, memory, admin>>

(* All files are on disk, and with the bars of an asset the cursor that    *)
(* drives it.                                                              *)
Clocked ==
  /\ \A f \in ToSet(Files) : disk[f] # NULL
  /\ \A a \in Assets : disk["market_events"][a] # <<>> =>
       LET row == disk["feed_configs"].rows[a]
       IN /\ row # NULL
          /\ (IF setting.model THEN disk["market_model"] ELSE row).cursor # NULL

(* The process dies between two calls, or between any two files of a save; *)
(* with nothing saved there is nothing to load.                            *)
Crash ==
  /\ \/ call = Idle /\ Administrative("crash") /\ UNCHANGED torn
     \/ call.op = "write" /\ Administrative("tear") /\ torn' = (torn \/ ~Clocked)
  /\ disk # [f \in ToSet(Files) |-> NULL]
  /\ status' = New.status
  /\ feeds' = New.feeds /\ keys' = <<>> /\ last' = New.last
  /\ model' = New.model
  /\ bars' = New.log /\ decided' = New.log
  /\ call' = [Idle EXCEPT !.op = "down"]
  /\ writing' = <<>>
  /\ UNCHANGED <<now, disk>>

(* A feed is loaded by configuring it, which an external feed fails for    *)
(* want of its adapter, and any feed for want of its asset.                *)
Loadable ==
  disk["feed_configs"] # NULL =>
    \A a \in ToSet(disk["feed_configs"].order) :
      /\ disk["feed_configs"].rows[a].mode = "simulation"
      /\ disk["assets"] # NULL /\ disk["assets"][a] \notin {"absent", "removed"}

LoadOr(file, default) == IF disk[file] = NULL THEN default ELSE disk[file]

Load ==
  /\ call.op = "down" /\ Loadable
  /\ bars' = LoadOr("market_events", bars)
  /\ status' = LoadOr("assets", status)
  /\ decided' = LoadOr("agent_decisions", decided)
  /\ model' = LoadOr("market_model", model)
  /\ LET configs == LoadOr("feed_configs", FeedConfigs)
         final   == IF configs.order = <<>> THEN last
                    ELSE LET f == configs.rows[Last(configs.order)] IN [cursor |-> f.cursor, price |-> f.price]
         saved   == LoadOr("feed_status", final)
     IN /\ feeds' = configs.rows
        /\ keys' = configs.order
        /\ last' = [cursor |-> IF saved.cursor = NULL THEN final.cursor ELSE saved.cursor,
                    price |-> saved.price]
  /\ call' = Idle
  /\ UNCHANGED <<now, writing, disk, admin>>

(***************************************************************************)
(* Specification                                                           *)
(***************************************************************************)

(* The running call goes on. *)
Continue ==
  \/ Fail \/ TouchFeed \/ StartFeed \/ FetchFeed \/ FetchHistory \/ ProcessBar \/ EndFeed
  \/ ListStarted \/ Return
  \/ ModelFails \/ StartModel \/ PlanBatches \/ ProcessBatch \/ EndBatches
  \/ BeginFiles \/ WriteFile

PollSizes == {1, MaxTime}

Turn ==
  \/ Tick
  \/ \E a \in Assets : \/ \E st \in {"active", "paused"} : AddAsset(a, st)
                       \/ RemoveAsset(a)
                       \/ \E tf \in setting.timeframes, mode \in setting.modes :
                            \/ Configure(a, tf, mode)
                            \/ \E start \in {NULL, 0, 1} : Reset(a, tf, mode, start)
                       \/ \E max \in PollSizes : StepOne(a, max)
  \/ \E on, whole \in BOOLEAN : ConfigureModel(on, whole)
  \/ \E max \in PollSizes : Poll(max)
  \/ Start \/ Warmup \/ Status \/ Save
  \/ Continue
  \/ Load

Next ==
  /\ \/ Turn /\ UNCHANGED torn
     \/ Crash
  /\ UNCHANGED setting

Spec == Init /\ [][Next]_vars

(* A call runs to its end, and the dashboard's timer polls for ever. *)
Fairness ==
  /\ WF_vars(Continue /\ UNCHANGED <<setting, torn>>)
  /\ WF_vars((\E max \in PollSizes : Poll(max)) /\ UNCHANGED <<setting, torn>>)

FairSpec == Spec /\ Fairness

(***************************************************************************)
(* Properties                                                              *)
(***************************************************************************)
(* Which calls the properties are about.  Clocks are steady where nothing  *)
(* sets them anew: no feed is reset, the model is not switched, and no     *)
(* warmup uses a coarser timeframe, whose latest boundary may lie behind   *)
(* the cursor.                                                             *)
Steady ==
  /\ setting.calls \cap {"reset", "model"} = {}
  /\ "warmup" \in setting.calls => setting.timeframes = {DefaultTimeframe}

(* A save is torn into files of two moments. *)
MayTear == "tear" \in setting.calls

(* A feed of a market model is stepped without the model. *)
MayStepAlone == setting.model /\ "one" \in setting.calls

(* The live bars of an asset follow one another: no stretch of time is     *)
(* simulated, shown to agents or matched against orders twice, whatever    *)
(* timeframes, modes and feeds are configured in between.  (A refused bar  *)
(* and a torn save do make the program repeat bars.)                       *)
LiveBarsDoNotOverlap ==
  setting.closed = {} /\ Steady /\ ~MayTear /\ ~MayStepAlone =>
    \A a \in Assets : \A i, j \in DOMAIN bars[a] :
      i < j /\ bars[a][i].live /\ bars[a][j].live => bars[a][i].to <= bars[a][j].from

(* After its first bar an asset misses no stretch of time: every live bar  *)
(* begins no later than where an earlier bar of the log ended, whatever    *)
(* was polled, refused or reloaded in between, until a death has left bars *)
(* on disk without their cursors: the process died within its first save,  *)
(* or within the first one after a feed began.  Then the feed begins anew  *)
(* at the latest boundary and the time between is skipped.  Any other save *)
(* may be torn.  (An external adapter that has no bar yet does lose one,   *)
(* and so does a feed of a market model that is stepped alone.)            *)
NoGaps ==
  ~torn /\ ~setting.late /\ Steady /\ ~MayStepAlone =>
    \A a \in Assets : \A i \in 2 .. Len(bars[a]) :
      bars[a][i].live => \E j \in 1 .. i - 1 : bars[a][j].to >= bars[a][i].from

(* At every moment of a save, a cursor on disk trails the bars on disk:    *)
(* wherever the process dies, a feed whose cursor was saved before repeats *)
(* bars when it is loaded rather than skips some.  (This holds until a     *)
(* death has left bars without a cursor at all, see NoGaps.  Under a       *)
(* market model the cursor that counts is the model's, and a bar that an   *)
(* external adapter does not have leaves the cursor ahead of the log.)     *)
SavedClockTrailsBars ==
  ~torn /\ ~setting.model /\ ~setting.late /\ Steady
    /\ disk["feed_configs"] # NULL /\ disk["market_events"] # NULL =>
    \A a \in ToSet(disk["feed_configs"].order) :
      LET cursor == disk["feed_configs"].rows[a].cursor
          saved  == disk["market_events"][a]
      IN cursor # NULL /\ saved # <<>> => \E i \in DOMAIN saved : saved[i].to >= cursor

(* The starts shown are those of the live bars of a log. *)
Shown(log, starts) ==
  LET live == Among(log, {b \in Bars(setting) : b.live})
  IN starts = [i \in DOMAIN live |-> live[i].from]

(* Between calls the agents have been shown exactly the live bars of the   *)
(* log, each once and in order; history made by a warmup is not shown.     *)
(* (A refused bar has been shown, and a torn save has the bars of a later  *)
(* moment than the decisions.)                                             *)
DecisionsMatchBars ==
  call = Idle /\ setting.closed = {} /\ ~MayTear =>
    \A a \in Assets : Shown(bars[a], decided[a])

(* Under a market model a feed that has bars stands where the model        *)
(* stands, so that it can go on alone when the model is switched off.      *)
(* (A model that is switched on later starts where it likes, and a refused *)
(* batch has moved the feeds already.)                                     *)
FeedsFollowModel ==
  call = Idle /\ model.active /\ Steady /\ setting.closed = {} /\ ~MayTear /\ ~MayStepAlone =>
    \A a \in ToSet(keys) : bars[a] # <<>> => feeds[a].cursor = model.cursor

(* An active asset has a completed bar that is not processed.              *)
Behind ==
  \E a \in Assets : /\ status[a] = "active" /\ feeds[a] # NULL /\ feeds[a].cursor # NULL
                    /\ feeds[a].cursor + feeds[a].tf <= LatestEnd(feeds[a].tf)

(* Every completed bar is processed sooner or later: as the clock stops at *)
(* MaxTime, a feed that is behind for ever would never be stepped.  Assets *)
(* with feeds of their own advance together, whatever their timeframes.    *)
FeedsCatchUp == []<>(~Behind)

(* ... as long as no asset is removed, no feed reset and no process dies. *)
KeptFeedsCatchUp ==
  setting.calls \subseteq {"register", "configure", "start", "one"} => FeedsCatchUp

(* The bars of an asset continue its own prices (its feed has a start      *)
(* price of its own).                                                      *)
OwnPrices == \A a \in Assets : \A i \in DOMAIN bars[a] : bars[a][i].open = a
=============================================================================
