-------------------------- MODULE ConditionalEntries --------------------------
(***************************************************************************)
(* The stop entries of one legacy session and one Pine trade id: on every  *)
(* bar the evaluator reconciles what the strategy wants with what rests at *)
(* the exchange, reading rows, open orders, position and price one after   *)
(* the other while workers send, the exchange triggers, the stream writes  *)
(* ends back, a sweep collects the orders of a stopped session, a janitor  *)
(* those that a dead worker left, and a recovery task turns a stop that    *)
(* was refused as already breached into a market order.                    *)
(*                                                                         *)
(* The target is one unit, long, so a price level is breached from below;  *)
(* short entries mirror it.  A bar is claimed once, so a bar names the one *)
(* order its tick may place: its idempotency key is (kind, bar, level).    *)
(* Left out: brackets, size caps, the kill switch (it makes the wish 0),   *)
(* other sessions of the account (they stand the tick down), and an answer *)
(* of create_order that is lost (OrderLedger).                             *)
(***************************************************************************)
EXTENDS Integers, FiniteSets

CONSTANTS
  Ticks,        \* bound: bars of the run; shorter than the two bar window of
                \* has_recent_market_converted_entry, so any conversion is recent
  Levels,       \* stop prices the strategy may want; prices are 0..Max level
  MaxEntryFaults

ASSUME EntriesAssumption ==
  /\ Ticks \in Nat \ {0} /\ MaxEntryFaults \in Nat
  /\ Levels \subseteq Nat \ {0} /\ \E n \in Levels : \A m \in Levels : m <= n

VARIABLES
  live,         \* live_signal_sessions.is_active
  bar,          \* bars evaluated so far
  price,        \* the exchange's last price
  held,         \* the account's position
  stops,        \* stops[b]: conditional entry placed by the tick of bar b
  markets,      \* markets[b]: market conversion with the key of bar b
  tick,         \* the evaluator inside _reconcile_conditional_entries
  recovery,     \* recovery[b]: conditional_entry_recovery_task for stops[b]
  midair,       \* history: a tick ran beside a conversion in flight
  entryFaults

entryVars == <<live, bar, price, held, stops, markets, tick, recovery, midair, entryFaults>>

BarTimes == 1..Ticks
Target == 1
Prices == 0..(CHOOSE n \in Levels : \A m \in Levels : m <= n)
RowStates == {"none", "pending", "submitted", "filled", "cancelled", "rejected"}
VenueStates == {"absent", "open", "filled", "cancelled"}

NoRow == [row |-> "none", level |-> 0, known |-> FALSE, venue |-> "absent", worker |-> "none"]
NewRow(n) == [NoRow EXCEPT !.row = "pending", !.level = n]
IdleTick == [at |-> "idle", want |-> 0, pos |-> 0, rows |-> {}, known |-> {}, actual |-> {},
             drop |-> {}, halted |-> FALSE, place |-> "none"]

Breached(n) == n <= price
RowOpen(o) == o.row \in {"pending", "submitted"}
\* Still able to change the position.
Exposed(o) == o.venue = "open" \/ (o.venue = "absent" /\ (o.row = "pending" \/ o.worker = "claimed"))
Unsettled == {b \in BarTimes : Exposed(markets[b])}
Converting == Unsettled # {} \/ \E b \in BarTimes : recovery[b] = "ready"
Converted == \E b \in BarTimes : markets[b].row # "none"

\* What an end at the exchange makes of the row (transition_to_*, guarded).
Settled(o) == [o EXCEPT !.row = IF o.row = "submitted" \/ (o.row = "pending" /\ o.venue = "cancelled")
                                THEN o.venue ELSE o.row]
Fault == entryFaults < MaxEntryFaults /\ entryFaults' = entryFaults + 1
World == <<live, price, held>>
Rest == <<bar, recovery, midair>>

-----------------------------------------------------------------------------
(* The tick: _reconcile_conditional_entries_inner.                         *)

Snapshot == {b \in BarTimes : RowOpen(stops[b])}
TickGo(step, t) == tick' = [t EXCEPT !.at = step]

\* The bar is evaluated; the rows are read.  Nothing wanted and no rows: return.
StartTick(want) ==
  /\ tick.at = "idle" /\ live /\ bar < Ticks
  /\ bar' = bar + 1
  /\ tick' = IF want = 0 /\ Snapshot = {} THEN IdleTick ELSE
       [IdleTick EXCEPT !.at = "list", !.want = want, !.pos = held, !.rows = Snapshot,
                        !.known = {b \in Snapshot : stops[b].known}]
  /\ midair' = (midair \/ Converting)
  /\ UNCHANGED <<World, stops, markets, recovery, entryFaults>>

\* fetch_open_conditional_orders; a degraded answer misses orders.
FetchList(listed) ==
  LET open == {b \in BarTimes : stops[b].venue = "open"} IN
  /\ tick.at = "list"
  /\ IF listed = open THEN UNCHANGED entryFaults ELSE listed \subseteq open /\ Fault
  /\ TickGo("probe", [tick EXCEPT !.actual = tick.rows \cup listed,
                                  !.known = tick.known \cup listed,
                                  !.drop = tick.known \ listed])
  /\ UNCHANGED <<World, Rest, stops, markets>>

\* What is known but not listed is asked for, one by one.  Only an end leaves
\* the actual orders; a fill forbids placing in this tick.
ProbeMissing(b) ==
  LET ended == stops[b].venue \in {"filled", "cancelled"} IN
  /\ tick.at = "probe" /\ b \in tick.drop
  /\ stops' = [stops EXCEPT ![b] = IF ended THEN Settled(@) ELSE @]
  /\ tick' = [tick EXCEPT !.drop = @ \ {b},
                          !.actual = IF ended THEN @ \ {b} ELSE @,
                          !.halted = @ \/ stops[b].venue = "filled"]
  /\ UNCHANGED <<World, Rest, markets, entryFaults>>

\* A probe that fails says nothing.
ProbeFails(b) ==
  /\ tick.at = "probe" /\ b \in tick.drop /\ Fault
  /\ tick' = [tick EXCEPT !.drop = @ \ {b}]
  /\ UNCHANGED <<World, Rest, stops, markets>>

\* fetch_open_positions may lag behind fills that came after the tick began.
FetchPosition(n) ==
  /\ tick.at = "probe" /\ tick.drop = {} /\ n \in {tick.pos, held}
  /\ TickGo("plan", [tick EXCEPT !.pos = n])
  /\ UNCHANGED <<World, Rest, stops, markets, entryFaults>>

\* plan_reconcile for one trade id: <<orders to cancel, what to place>>.
Plan(actual, want, pos, convertible) ==
  LET fired == \E b \in actual : Breached(stops[b].level)
      same == {b \in actual : stops[b].level = want}
  IN
  CASE want = 0 -> <<actual, "none">>
    [] want # 0 /\ Breached(want) /\ (fired \/ ~convertible) -> <<actual, "none">>
    [] want # 0 /\ ~(Breached(want) /\ (fired \/ ~convertible)) /\ pos >= Target ->
         <<actual, "none">>
    [] OTHER ->
         IF Breached(want) THEN <<actual, "market">>
         ELSE IF Cardinality(actual) = 1 /\ same = actual THEN <<{}, "none">>
         ELSE <<actual, "stop">>

\* Without the exchange's price the last close stands in and nothing is converted.
MakePlan(convertible) ==
  LET plan == Plan(tick.actual, tick.want, tick.pos, convertible) IN
  /\ tick.at = "plan"
  /\ TickGo("cancel", [tick EXCEPT !.drop = plan[1], !.place = plan[2]])
  /\ IF convertible THEN UNCHANGED entryFaults ELSE Fault
  /\ UNCHANGED <<World, Rest, stops, markets>>

\* Without an exchange id only a pending row can be taken back; a worker that
\* was faster halts the tick.
CancelLocal(b) ==
  LET won == stops[b].row = "pending" IN
  /\ tick.at = "cancel" /\ b \in tick.drop \ tick.known
  /\ stops' = IF won THEN [stops EXCEPT ![b].row = "cancelled"] ELSE stops
  /\ tick' = [tick EXCEPT !.drop = @ \ {b}, !.halted = @ \/ ~won]
  /\ UNCHANGED <<World, Rest, markets, entryFaults>>

\* With one, the exchange is asked first and the row follows.
CancelAtVenue(b) ==
  LET won == stops[b].venue = "open" IN
  /\ tick.at = "cancel" /\ b \in tick.drop \cap tick.known
  /\ stops' = IF ~won THEN stops ELSE
       [stops EXCEPT ![b].venue = "cancelled",
                     ![b].row = IF RowOpen(stops[b]) THEN "cancelled" ELSE @]
  /\ tick' = [tick EXCEPT !.drop = @ \ {b}, !.halted = @ \/ ~won \/ ~RowOpen(stops[b])]
  /\ UNCHANGED <<World, Rest, markets, entryFaults>>

\* The cancel call fails; the exchange may have done it all the same.
CancelFails(b, done) ==
  /\ tick.at = "cancel" /\ b \in tick.drop \cap tick.known /\ Fault
  /\ stops' = [stops EXCEPT ![b].venue = IF done /\ @ = "open" THEN "cancelled" ELSE @]
  /\ tick' = [tick EXCEPT !.drop = @ \ {b}, !.halted = TRUE]
  /\ UNCHANGED <<World, Rest, markets>>

NeverHalted == FALSE
Halted == tick.halted

PlaceStop ==
  /\ tick.at = "cancel" /\ tick.drop = {} /\ ~Halted /\ tick.place = "stop"
  /\ stops' = [stops EXCEPT ![bar] = NewRow(tick.want)]
  /\ tick' = IdleTick
  /\ UNCHANGED <<World, Rest, markets, entryFaults>>

\* _market_conversion_breach_pct: no recent conversion, and breached still.
CheckConversion ==
  /\ tick.at = "cancel" /\ tick.drop = {} /\ ~Halted /\ tick.place = "market"
  /\ IF ~Converted /\ Breached(tick.want) THEN TickGo("convert", tick) ELSE tick' = IdleTick
  /\ UNCHANGED <<World, Rest, stops, markets, entryFaults>>

PlaceMarket ==
  /\ tick.at = "convert"
  /\ markets' = [markets EXCEPT ![bar] = NewRow(tick.want)]
  /\ tick' = IdleTick
  /\ UNCHANGED <<World, Rest, stops, entryFaults>>

EndTick ==
  /\ tick.at = "cancel" /\ tick.drop = {} /\ (Halted \/ tick.place = "none")
  /\ tick' = IdleTick
  /\ UNCHANGED <<World, Rest, stops, markets, entryFaults>>

\* Any call of it throws: the rest of the tick is given up, in silence.
AbortTick ==
  /\ tick.at # "idle" /\ Fault /\ tick' = IdleTick
  /\ UNCHANGED <<World, Rest, stops, markets>>

-----------------------------------------------------------------------------
(* The order worker, for both kinds of row.                                *)

ClaimStop(b) ==
  /\ stops[b].row = "pending"
  /\ stops' = [stops EXCEPT ![b].row = "submitted", ![b].worker = "claimed"]
  /\ UNCHANGED <<World, Rest, markets, tick, entryFaults>>

\* create_order: a stop that is breached already is refused (110092, 110093),
\* which enqueues its recovery.
CreateStop(b) ==
  /\ stops[b].worker = "claimed"
  /\ IF Breached(stops[b].level)
     THEN /\ stops' = [stops EXCEPT ![b].worker = "none", ![b].row = "rejected"]
          /\ recovery' = [recovery EXCEPT ![b] = "queued"]
     ELSE /\ stops' = [stops EXCEPT ![b].worker = "created", ![b].venue = "open"]
          /\ UNCHANGED recovery
  /\ UNCHANGED <<World, bar, midair, markets, tick, entryFaults>>

AttachStop(b) ==
  /\ stops[b].worker = "created"
  /\ stops' = [stops EXCEPT ![b].worker = "none", ![b].known = stops[b].row = "submitted"]
  /\ UNCHANGED <<World, Rest, markets, tick, entryFaults>>

ClaimMarket(b) ==
  /\ markets[b].row = "pending"
  /\ markets' = [markets EXCEPT ![b].row = "submitted", ![b].worker = "claimed"]
  /\ UNCHANGED <<World, Rest, stops, tick, entryFaults>>

CreateMarket(b) ==
  /\ markets[b].worker = "claimed"
  /\ markets' = [markets EXCEPT ![b].row = "filled", ![b].worker = "none", ![b].venue = "filled"]
  /\ held' = held + 1
  /\ UNCHANGED <<live, price, Rest, stops, tick, entryFaults>>

WorkerDies(b) ==
  /\ stops[b].worker # "none" /\ Fault
  /\ stops' = [stops EXCEPT ![b].worker = "none"]
  /\ UNCHANGED <<World, Rest, markets, tick>>

-----------------------------------------------------------------------------
(* The recovery of a refused stop.                                         *)

\* Rejected, of the latest bar, no conversion yet, still breached, session on.
CheckRecovery(b) ==
  LET ready == live /\ b = bar /\ ~Converted /\ Breached(stops[b].level) IN
  /\ recovery[b] = "queued"
  /\ recovery' = [recovery EXCEPT ![b] = IF ready THEN "ready" ELSE "none"]
  /\ midair' = (midair \/ (ready /\ tick.at # "idle"))
  /\ UNCHANGED <<World, bar, stops, markets, tick, entryFaults>>

PlaceRecovery(b) ==
  /\ recovery[b] = "ready"
  /\ recovery' = [recovery EXCEPT ![b] = "none"]
  /\ markets' = IF markets[b].row = "none" THEN [markets EXCEPT ![b] = NewRow(stops[b].level)]
                ELSE markets
  /\ UNCHANGED <<World, bar, midair, stops, tick, entryFaults>>

-----------------------------------------------------------------------------
(* The exchange, and the tasks that keep the rows true to it.              *)

TriggerStop(b) ==
  /\ stops[b].venue = "open" /\ Breached(stops[b].level)
  /\ stops' = [stops EXCEPT ![b].venue = "filled"]
  /\ held' = held + 1
  /\ UNCHANGED <<live, price, Rest, markets, tick, entryFaults>>

MovePrice(p) ==
  /\ p # price /\ \A b \in BarTimes : ~(stops[b].venue = "open" /\ Breached(stops[b].level))
  /\ price' = p
  /\ UNCHANGED <<live, held, Rest, stops, markets, tick, entryFaults>>

\* An exit of the strategy, or a stop loss at the exchange.
ClosePosition ==
  /\ held > 0 /\ held' = 0
  /\ UNCHANGED <<live, price, Rest, stops, markets, tick, entryFaults>>

StreamEnd(b) ==
  /\ stops[b].venue \in {"filled", "cancelled"} /\ Settled(stops[b]) # stops[b]
  /\ stops' = [stops EXCEPT ![b] = Settled(@)]
  /\ UNCHANGED <<World, Rest, markets, tick, entryFaults>>

SessionStops ==
  /\ live /\ live' = FALSE
  /\ UNCHANGED <<price, held, Rest, stops, markets, tick, entryFaults>>

\* _async_sweep_conditional_entries: cancel, or ask when the cancel fails.
SweepStop(b) ==
  /\ ~live /\ stops[b].row = "submitted" /\ stops[b].known
  /\ stops' = [stops EXCEPT ![b] =
       IF @.venue = "open" THEN [@ EXCEPT !.venue = "cancelled", !.row = "cancelled"]
       ELSE Settled(@)]
  /\ UNCHANGED <<World, Rest, markets, tick, entryFaults>>

FoundIgnored(o) == [o EXCEPT !.row = "rejected"]
FoundOpen(o) == [o EXCEPT !.known = TRUE]

\* The conditional entry janitor, long after any worker: by client id.
JanitorStop(b) ==
  /\ stops[b].row = "submitted" /\ stops[b].worker = "none"
  /\ stops[b].venue # "open" \/ ~stops[b].known
  /\ stops' = [stops EXCEPT ![b] =
       CASE @.venue = "absent" -> [@ EXCEPT !.row = "rejected"]
         [] @.venue = "open" -> FoundOpen(@)
         [] OTHER -> Settled(@)]
  /\ UNCHANGED <<World, Rest, markets, tick, entryFaults>>

EntriesInit ==
  /\ live = TRUE /\ bar = 0 /\ price = 0 /\ held = 0 /\ midair = FALSE /\ entryFaults = 0
  /\ stops = [b \in BarTimes |-> NoRow] /\ markets = [b \in BarTimes |-> NoRow]
  /\ tick = IdleTick /\ recovery = [b \in BarTimes |-> "none"]

TickStep ==
  \/ \E listed \in SUBSET BarTimes : FetchList(listed)
  \/ \E b \in BarTimes : ProbeMissing(b) \/ CancelLocal(b) \/ CancelAtVenue(b)
  \/ \E n \in 0..Target + 1 : FetchPosition(n)
  \/ MakePlan(TRUE) \/ PlaceStop \/ CheckConversion \/ PlaceMarket \/ EndTick

TickFault ==
  \/ AbortTick \/ MakePlan(FALSE)
  \/ \E b \in BarTimes : ProbeFails(b) \/ \E done \in BOOLEAN : CancelFails(b, done)

WorkerStep(b) ==
  ClaimStop(b) \/ CreateStop(b) \/ AttachStop(b) \/ ClaimMarket(b) \/ CreateMarket(b)

EntriesNext ==
  \/ \E want \in Levels \cup {0} : StartTick(want)
  \/ TickStep \/ TickFault
  \/ \E b \in BarTimes :
       \/ WorkerStep(b) \/ WorkerDies(b) \/ CheckRecovery(b) \/ PlaceRecovery(b)
       \/ TriggerStop(b) \/ StreamEnd(b) \/ SweepStop(b) \/ JanitorStop(b)
  \/ \E p \in Prices : MovePrice(p)
  \/ ClosePosition \/ SessionStops

EntriesFairness ==
  /\ WF_entryVars(TickStep)
  /\ \A b \in BarTimes :
       WF_entryVars(WorkerStep(b)) /\ WF_entryVars(SweepStop(b)) /\ WF_entryVars(JanitorStop(b))

EntriesSpec == EntriesInit /\ [][EntriesNext]_entryVars /\ EntriesFairness

-----------------------------------------------------------------------------
(* Correctness.                                                            *)

EntriesTypeOK ==
  /\ {live, midair, tick.halted} \subseteq BOOLEAN
  /\ bar \in 0..Ticks /\ price \in Prices /\ held \in Nat /\ entryFaults \in 0..MaxEntryFaults
  /\ \A b \in BarTimes : \A o \in {stops[b], markets[b]} :
       o.row \in RowStates /\ o.venue \in VenueStates /\ o.known \in BOOLEAN
  /\ tick.at \in {"idle", "list", "probe", "plan", "cancel", "convert"}
  /\ tick.place \in {"none", "stop", "market"}
  /\ recovery \in [BarTimes -> {"none", "queued", "ready"}]

\* What is held and what may still fill never exceed the strategy's target,
\* though every tick sizes by a position it read among reads that are older
\* and newer: whatever fills, dies, is cancelled or misreported between them.
\* The one exception is a market conversion in flight (midair): no row keeps
\* the next tick, or the recovery of another bar, from sizing without it.
DoubledOnlyMidair ==
  \/ midair
  \/ held + Cardinality({b \in BarTimes : Exposed(stops[b])}) + Cardinality(Unsettled) <= Target

\* Once its session is off, a stop entry does not stay at the exchange,
\* whoever placed or sent it last (sweep, and janitor for a dead worker).
OrphansEnd == <>[](live \/ \A b \in BarTimes : ~Exposed(stops[b]))
=============================================================================
