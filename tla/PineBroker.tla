------------------------------ MODULE PineBroker ------------------------------
(***************************************************************************)
(* The broker of the Pine engine (StrategyState) as the bar loop drives it:*)
(* at the open of a bar the queued market intents execute, then resting    *)
(* entries fill, liquidations and exit brackets follow, and at the close   *)
(* the script makes its strategy.* calls.  A backtest simulates the fills; *)
(* a live replay takes only those its order ledger witnesses, and at the   *)
(* end of every bar hands the exchange the signals of the bar and the      *)
(* position each resting entry shall lead to.                              *)
(*                                                                         *)
(* A quantity carries the direction in its sign and 0 is "no such thing".  *)
(* Prices are left out: which orders trigger, in which order, and what the *)
(* margin gate refuses is open.  One reservation stands for the OCO legs   *)
(* of an exit id, of which only one ever fills.  Everything that can       *)
(* trigger in a bar was placed in an earlier one, as the loop has it.  The *)
(* bars of the replay are evaluated one after the other, each fill being   *)
(* witnessed in its bar; brackets that the exchange executes on its own are*)
(* left out, and a seed adopts one trade.                                  *)
(*                                                                         *)
(* A definition directly above another of a similar name is a plausible    *)
(* mistake of the code, used by no action: see the mutants of PROJECT.json.*)
(***************************************************************************)
EXTENDS Integers, Sequences, FiniteSets, SequencesExt

CONSTANTS
  TradeIds,     \* ids of strategy.entry
  ExitIds,      \* ids of strategy.exit
  Quantities,   \* bound: quantities of an entry
  MaxQty,       \* the largest of them; as a request of an exit, "all"
  Pyramiding,   \* strategy(pyramiding = N); 0: no cap
  EpochBar,     \* the bar of position_epoch in a live replay
  BrokerBars,   \* bound: bars replayed
  CallsPerBar   \* bound: strategy.* calls of a bar

ASSUME BrokerAssumption ==
  /\ MaxQty \in Nat \ {0} /\ Pyramiding \in Nat
  /\ Quantities \subseteq (-MaxQty)..MaxQty \ {0}
  /\ EpochBar \in Nat /\ BrokerBars \in Nat /\ CallsPerBar \in Nat
  /\ TradeIds \cap ExitIds = {} /\ TradeIds # {}
  /\ IsFiniteSet(TradeIds) /\ IsFiniteSet(ExitIds)

VARIABLES
  mode,       \* fill_timing = next_bar_open?  a live replay?
  barNo, stage, calls, inSession,
  open,       \* open_trades: the quantity of each
  exits,      \* pending_exits: what each exit id reserves of each trade
  orders,     \* pending_orders
  intents,    \* pending_market_intents, each with its pending_market_exits
  entered,    \* trades a resting order opened in this bar
  quiet,      \* used_limit_entry, used_advanced_exits, used_pending_market_exits
  due,        \* net quantity of the bar's signals
  shown,      \* what the last evaluation published of the resting entries
  venue,      \* position of the exchange that does as it is told
  apart       \* history: two resting entries filled in one bar, or a seed was taken

book == <<open, exits, orders, intents>>
brokerVars == <<mode, barNo, stage, calls, inSession, book, entered, quiet, due, shown, venue,
                apart>>

NoTrades == [id \in TradeIds |-> 0]
NoExits == [x \in ExitIds |-> 0]
NothingShown == [position |-> 0, target |-> NoTrades]

Size(q) == IF q < 0 THEN -q ELSE q
AtMost(n, m) == IF n < m THEN n ELSE m
Position(trades) == SumFunction(trades)
Reserved(plan) == SumFunction(plan)

\* Closing a trade for good drops its brackets, whoever closes it.
ExitsOf(trades) == [id \in TradeIds |-> IF trades[id] = 0 THEN NoExits ELSE exits[id]]

\* What an entry closes first: every opposite trade, and one of its own id.
Cleared(id, q) == [t \in TradeIds |-> IF t = id \/ open[t] * q < 0 THEN 0 ELSE open[t]]
\* Brackets that survive Cleared: those of trades it does not close.
ExitsKept(id, q) ==
  [t \in TradeIds |-> IF t = id \/ open[t] * q < 0 THEN NoExits ELSE exits[t]]
AtCap(trades, q) ==
  Pyramiding > 0 /\ Cardinality({t \in TradeIds : trades[t] * q > 0}) >= Pyramiding

ReserveAnew(plan, trade, x, wanted) == [plan EXCEPT ![x] = AtMost(wanted, Size(trade))]

\* place_exit: what exit id x gets of a trade whose other ids keep theirs.
Reserve(plan, trade, x, wanted) ==
  [plan EXCEPT ![x] = AtMost(wanted, Size(trade) - (Reserved(plan) - plan[x]))]

\* The templates of an intent, in the order the script made them: each exit id
\* gets what those before it leave.
ReserveAll(trade, templates) ==
  LET ids == {x \in ExitIds : templates[x] > 0}
      Before(plan, turn, x) ==
        [y \in ExitIds |-> IF y \in ids /\ turn[y] < turn[x] THEN plan[y] ELSE 0]
  IN  {plan \in [ExitIds -> 0..MaxQty] :
         \E turn \in Injection(ids, 1..Cardinality(ids)) : \A x \in ExitIds :
           plan[x] = IF x \in ids THEN Reserve(Before(plan, turn, x), trade, x, templates[x])[x]
                     ELSE 0}

\* A signal for every entry and close the engine decided on itself.
Signal(trades) ==
  due' = IF mode.live THEN due + Position(trades) - Position(open) ELSE 0

BrokerInit ==
  /\ mode \in [nextOpen : BOOLEAN, live : BOOLEAN]
  /\ barNo = 0 /\ stage = "open" /\ calls = 0 /\ inSession \in BOOLEAN
  /\ open = NoTrades /\ exits = [id \in TradeIds |-> NoExits]
  /\ orders = NoTrades /\ intents = <<>>
  /\ entered = {} /\ quiet = FALSE /\ due = 0 /\ shown = NothingShown
  /\ venue = 0 /\ apart = FALSE

-----------------------------------------------------------------------------
(* The strategy's market orders, at the open or at the close of a bar.     *)

\* entry without stop or limit; the margin gate comes before any effect, the
\* pyramiding cap after the closes.
EnterAtMarket(id, q, templates) ==
  LET cleared == Cleared(id, q)
      kept == ExitsKept(id, q)
  IN  \/ UNCHANGED <<open, exits, due>>
      \/ /\ AtCap(cleared, q)
         /\ open' = cleared /\ exits' = kept /\ Signal(cleared)
      \/ /\ ~AtCap(cleared, q)
         /\ open' = [cleared EXCEPT ![id] = q]
         /\ \E plan \in ReserveAll(q, templates) : exits' = [kept EXCEPT ![id] = plan]
         /\ Signal(open')

CloseAtMarket(trades) == open' = trades /\ exits' = ExitsOf(trades) /\ Signal(trades)

\* close_all also drops the resting entries, but not the queue.
CloseEverything == CloseAtMarket(NoTrades) /\ orders' = NoTrades

\* process_market_intents, one intent after the other.
Intent ==
  /\ stage = "open" /\ inSession /\ intents # <<>>
  /\ LET i == Head(intents)
     IN  \/ /\ i.kind = "entry"
            /\ \E q \in {n \in Quantities : n * i.dir > 0} : EnterAtMarket(i.id, q, i.exits)
            /\ UNCHANGED orders
         \/ i.kind = "close" /\ CloseAtMarket([open EXCEPT ![i.id] = 0]) /\ UNCHANGED orders
         \/ i.kind = "close_all" /\ CloseEverything
  /\ intents' = Tail(intents)
  /\ UNCHANGED <<mode, barNo, stage, calls, inSession, entered, quiet, shown, venue, apart>>

IntentsDone ==
  /\ stage = "open" /\ (inSession => intents = <<>>)
  /\ stage' = "fills"
  /\ UNCHANGED <<mode, barNo, calls, inSession, book, entered, quiet, due, shown, venue, apart>>

-----------------------------------------------------------------------------
(* What the market does within a bar.                                      *)

OpenByFillLoudly(id) ==
  /\ open' = [Cleared(id, orders[id]) EXCEPT ![id] = orders[id]]
  /\ exits' = ExitsKept(id, orders[id])
  /\ due' = IF mode.live THEN due + Position(Cleared(id, orders[id])) - Position(open) ELSE 0

\* check_pending_fills: flip, close the same id, open; no pyramiding cap.
\* The exchange did all of it with one order, so none of it is signalled.
OpenByFill(id) ==
  /\ open' = [Cleared(id, orders[id]) EXCEPT ![id] = orders[id]]
  /\ exits' = ExitsKept(id, orders[id])
  /\ UNCHANGED due

Fill(id) ==
  /\ stage = "fills" /\ inSession /\ orders[id] # 0
  /\ mode.live => shown.target[id] # 0
  /\ OpenByFill(id)
  /\ orders' = [orders EXCEPT ![id] = 0]
  /\ entered' = entered \cup {id}
  /\ venue' = IF mode.live THEN venue + shown.target[id] - shown.position ELSE 0
  /\ apart' = (apart \/ (mode.live /\ entered # {}))
  /\ UNCHANGED <<mode, barNo, stage, calls, inSession, intents, quiet, shown>>

\* The margin gate refuses a simulated fill: the order is gone.
FillRefused(id) ==
  /\ stage = "fills" /\ inSession /\ orders[id] # 0 /\ ~mode.live
  /\ orders' = [orders EXCEPT ![id] = 0]
  /\ UNCHANGED <<mode, barNo, stage, calls, inSession, open, exits, intents, entered, quiet, due,
                 shown, venue, apart>>

\* check_liquidations: not a trade that a resting entry opened in this bar.
Liquidate(id) ==
  /\ stage \in {"fills", "liquidations"} /\ open[id] # 0 /\ id \notin entered
  /\ stage' = "liquidations"
  /\ CloseAtMarket([open EXCEPT ![id] = 0])
  /\ UNCHANGED <<mode, barNo, calls, inSession, orders, intents, entered, quiet, shown, venue,
                 apart>>

\* check_exit_fills: the reserved quantity leaves the trade and the bracket
\* is gone; the brackets of other ids stay with the rest of the trade.
ExitFills(id, x) ==
  /\ stage \in {"fills", "liquidations", "exits"} /\ inSession /\ exits[id][x] # 0
  /\ stage' = "exits"
  /\ LET out == AtMost(exits[id][x], Size(open[id]))
         left == IF open[id] > 0 THEN open[id] - out ELSE open[id] + out
         trades == [open EXCEPT ![id] = left]
     IN  /\ open' = trades
         /\ exits' = [exits EXCEPT ![id] = IF left = 0 THEN NoExits ELSE [@ EXCEPT ![x] = 0]]
         /\ Signal(trades)
         /\ quiet' = (quiet \/ left # 0)
  /\ UNCHANGED <<mode, barNo, calls, inSession, orders, intents, entered, shown, venue, apart>>

\* seed_positions_from_ledger, on the last bar of a live replay: nothing is
\* open, so a position the ledger witnesses is adopted, without a signal.
SeedFromLedger(id) ==
  /\ mode.live /\ barNo = BrokerBars /\ stage \in {"fills", "liquidations", "exits"}
  /\ open = NoTrades
  /\ \E q \in Quantities : open' = [open EXCEPT ![id] = q]
  /\ stage' = "script" /\ apart' = TRUE
  /\ UNCHANGED <<mode, barNo, calls, inSession, exits, orders, intents, entered, quiet, due, shown,
                 venue>>

BarClose ==
  /\ stage \in {"fills", "liquidations", "exits"}
  /\ stage' = "script"
  /\ UNCHANGED <<mode, barNo, calls, inSession, book, entered, quiet, due, shown, venue, apart>>

-----------------------------------------------------------------------------
(* The script's calls (Interpreter._exec_strategy_call).                   *)

Calling == stage = "script" /\ calls < CallsPerBar /\ calls' = calls + 1
AfterCall == UNCHANGED <<mode, barNo, inSession, entered, shown, venue, apart>>

\* PendingMarketExitError is no PineRuntimeError: it ends the replay.
Raise == stage' = "raised" /\ UNCHANGED <<book, quiet, due>>

Queued(id) == {n \in DOMAIN intents : intents[n].kind = "entry" /\ intents[n].id = id}
HasTemplate(id) == \E n \in Queued(id) : intents[n].exits # NoExits

EntryCall(id, q) ==
  /\ Calling /\ inSession
  /\ IF mode.nextOpen
       THEN \/ HasTemplate(id) /\ Raise
            \/ /\ ~HasTemplate(id)
               /\ intents' = Append(intents, [kind |-> "entry", id |-> id,
                                              dir |-> IF q > 0 THEN 1 ELSE -1, exits |-> NoExits])
               /\ UNCHANGED <<stage, open, exits, orders, quiet, due>>
       ELSE EnterAtMarket(id, q, NoExits) /\ UNCHANGED <<stage, orders, intents, quiet>>
  /\ AfterCall

\* entry with stop or limit: it replaces the resting order of its id.
RestingEntryCall(id, q, limit) ==
  /\ Calling /\ inSession
  /\ \/ HasTemplate(id) /\ Raise
     \/ /\ ~HasTemplate(id)
        /\ orders' = [orders EXCEPT ![id] = q]
        /\ quiet' = (quiet \/ limit)
        /\ UNCHANGED <<stage, open, exits, intents, due>>
  /\ AfterCall

CloseCall(id) ==
  /\ Calling
  /\ IF mode.nextOpen
       THEN /\ intents' = Append(intents, [kind |-> "close", id |-> id, dir |-> 1,
                                           exits |-> NoExits])
            /\ UNCHANGED <<open, exits, orders, due>>
       ELSE CloseAtMarket([open EXCEPT ![id] = 0]) /\ UNCHANGED <<orders, intents>>
  /\ UNCHANGED <<stage, quiet>> /\ AfterCall

CloseAllCall ==
  /\ Calling
  /\ IF mode.nextOpen
       THEN /\ intents' = Append(intents, [kind |-> "close_all", id |-> CHOOSE t \in TradeIds : TRUE,
                                           dir |-> 1, exits |-> NoExits])
            /\ UNCHANGED <<open, exits, orders, due>>
       ELSE CloseEverything /\ UNCHANGED intents
  /\ UNCHANGED <<stage, quiet>> /\ AfterCall

\* place_exit on the trades of from: a bracket of its own for each, and a
\* template for a queued entry of that id.
Bracketed(from, x, wanted) ==
  [t \in TradeIds |-> IF t \in from /\ open[t] # 0 THEN Reserve(exits[t], open[t], x, wanted)
                      ELSE exits[t]]

ExitCall(from, x, wanted) ==
  /\ Calling
  /\ LET one == Cardinality(from) = 1
         waiting == IF one /\ mode.nextOpen THEN UNION {Queued(t) : t \in from} ELSE {}
     IN  \/ /\ \/ Cardinality(waiting) > 1
               \/ waiting # {} /\ \E t \in from : orders[t] # 0
            /\ Raise
         \/ /\ Cardinality(waiting) <= 1
            /\ waiting # {} => \A t \in from : orders[t] = 0
            /\ exits' = Bracketed(from, x, wanted)
            /\ intents' = [n \in DOMAIN intents |->
                             IF n \in waiting THEN [intents[n] EXCEPT !.exits[x] = wanted]
                             ELSE intents[n]]
            /\ quiet' = \/ quiet \/ wanted < MaxQty \/ waiting # {}
                        \/ \E t \in from : open[t] # 0 /\ Reserved(exits[t]) # exits[t][x]
            /\ UNCHANGED <<stage, open, orders, due>>
  /\ AfterCall

WithoutExit(plan, x) == [y \in ExitIds |-> IF y = x THEN 0 ELSE plan[y]]

\* cancel(id): whatever is not filled and bears the id.
CancelCall(name) ==
  /\ Calling
  /\ orders' = [t \in TradeIds |-> IF t = name THEN 0 ELSE orders[t]]
  /\ intents' = FoldLeft(LAMBDA keep, i :
                           IF i.kind # "close_all" /\ i.id = name THEN keep
                           ELSE Append(keep, [i EXCEPT !.exits = WithoutExit(@, name)]),
                         <<>>, intents)
  /\ exits' = [t \in TradeIds |-> WithoutExit(exits[t], name)]
  /\ quiet' = TRUE
  /\ UNCHANGED <<stage, open, due>> /\ AfterCall

CancelAllCall ==
  /\ Calling
  /\ orders' = NoTrades /\ intents' = <<>> /\ exits' = [t \in TradeIds |-> NoExits]
  /\ quiet' = TRUE
  /\ UNCHANGED <<stage, open, due>> /\ AfterCall

-----------------------------------------------------------------------------
(* The end of a bar, where an evaluation of run_live reports.              *)

\* The position the exchange shall hold once the resting entry id has filled:
\* what is kept on its side, other than its own id, and its quantity.
Target(id) == Position(Cleared(id, orders[id])) + orders[id]

Published ==
  [position |-> venue',
   target |-> [id \in TradeIds |-> IF orders[id] = 0 \/ quiet \/ ~inSession \/ barNo < EpochBar
                                     THEN 0 ELSE Target(id)]]

NextBar ==
  /\ stage = "script" /\ barNo < BrokerBars
  /\ venue' = IF mode.live /\ ~quiet /\ barNo >= EpochBar THEN venue + due ELSE venue
  /\ shown' = IF mode.live THEN Published ELSE NothingShown
  /\ barNo' = barNo + 1 /\ stage' = "open" /\ calls' = 0 /\ due' = 0 /\ entered' = {}
  /\ inSession' \in BOOLEAN
  \* discard_state_before_epoch, at the start of the epoch bar
  /\ IF mode.live /\ barNo' = EpochBar
       THEN open' = NoTrades /\ exits' = [id \in TradeIds |-> NoExits]
       ELSE UNCHANGED <<open, exits>>
  /\ UNCHANGED <<mode, orders, intents, quiet, apart>>

BrokerNext ==
  \/ Intent \/ IntentsDone \/ BarClose \/ NextBar
  \/ \E id \in TradeIds : Fill(id) \/ FillRefused(id) \/ Liquidate(id) \/ SeedFromLedger(id)
  \/ \E id \in TradeIds, x \in ExitIds : ExitFills(id, x)
  \/ \E id \in TradeIds, q \in Quantities :
       EntryCall(id, q) \/ \E limit \in BOOLEAN : RestingEntryCall(id, q, limit)
  \/ \E id \in TradeIds : CloseCall(id)
  \/ CloseAllCall \/ CancelAllCall
  \/ \E from \in {TradeIds} \cup {{id} : id \in TradeIds}, x \in ExitIds, n \in 1..MaxQty :
       ExitCall(from, x, n)
  \/ \E name \in TradeIds \cup ExitIds : CancelCall(name)

BrokerSpec == BrokerInit /\ [][BrokerNext]_brokerVars

-----------------------------------------------------------------------------
(* Properties.                                                             *)

MarketIntents ==
  [kind : {"entry", "close", "close_all"}, id : TradeIds, dir : {-1, 1},
   exits : [ExitIds -> 0..MaxQty]]

\* Every variable stays within its type.
BrokerTypeOK ==
  /\ mode \in [nextOpen : BOOLEAN, live : BOOLEAN]
  /\ barNo \in 0..BrokerBars /\ calls \in 0..CallsPerBar /\ inSession \in BOOLEAN
  /\ stage \in {"open", "fills", "liquidations", "exits", "script", "raised"}
  /\ open \in [TradeIds -> (-MaxQty)..MaxQty] /\ orders \in [TradeIds -> (-MaxQty)..MaxQty]
  /\ exits \in [TradeIds -> [ExitIds -> 0..MaxQty]]
  /\ intents \in Seq(MarketIntents)
  /\ entered \subseteq TradeIds /\ quiet \in BOOLEAN /\ apart \in BOOLEAN
  /\ due \in Int /\ venue \in Int /\ shown.position \in Int
  /\ shown.target \in [TradeIds -> Int]

\* The exit brackets of a trade reserve no more than is left of it, whatever
\* was replaced, cancelled, partly filled or closed before: a bracket never
\* outlives its trade to close one opened later under the same id.
BracketsFit == \A id \in TradeIds : Reserved(exits[id]) <= Size(open[id])

\* With fills at the close of the bar, the exchange that executes the signals
\* of a live replay, and moves to the published target when a resting entry
\* fills, holds what the engine believes in as soon as the signals of the bar
\* are through; except when two resting entries fill in one bar, after a seed,
\* and once the strategy is refused as one that live trading cannot express.
VenueFollows ==
  mode.live /\ ~mode.nextOpen /\ ~quiet /\ ~apart /\ barNo >= EpochBar
    => venue + due = Position(open)
=============================================================================
