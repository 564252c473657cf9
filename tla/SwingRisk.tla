------------------------------- MODULE SwingRisk -------------------------------
(***************************************************************************)
(* The stop, the half target and the trailing stop of a code strategy in a *)
(* backtest: the plan drawn from the swing of two bars, its replay over the*)
(* minutes (replay_candle), and the ledger of run_code_backtest that books *)
(* what the replay executes.  A signal at the close of a bar waits for the *)
(* open of the next; that open is executed first, then the plan.           *)
(*                                                                         *)
(* Prices are integers on a scale where every ratio of the policy is exact.*)
(* Fees, funding and the size of an entry are left out; that the ledger has*)
(* no capital for an entry is open.  The policy without protection, the    *)
(* entry again in the same direction and the tape of signals belong to the *)
(* research tools and are left out, as are queue_close and replace_plan,   *)
(* which nothing calls.                                                    *)
(*                                                                         *)
(* A definition directly above another of a similar name is a plausible    *)
(* mistake of the code, used by no action: see the mutants of PROJECT.json.*)
(***************************************************************************)
EXTENDS Integers, Sequences, FiniteSets, SequencesExt

CONSTANTS
  SwingPrices,   \* bound: the prices of the minutes
  EntryPrices,   \* bound: the opens at which an entry executes
  Extremes,      \* bound: the extremes of the two reference bars
  SwingSize,     \* quantity of an entry
  Minutes,       \* execution candles of a bar
  MaxEpisodes    \* bound: entries of a run

ASSUME SwingAssumption ==
  /\ SwingPrices \subseteq Nat \ {0} /\ EntryPrices \subseteq SwingPrices
  /\ Extremes \subseteq Nat \ {0}
  /\ \A p \in EntryPrices, x \in Extremes : (p - x) % 20 = 0
  /\ SwingSize \in Nat \ {0} /\ SwingSize % 2 = 0
  /\ Minutes \in Nat \ {0} /\ MaxEpisodes \in Nat

VARIABLES
  swing,      \* the ledger: current episode, its quantity, the state of its plan
  queued,     \* pending
  minuteNo    \* the next minute of the bar; Minutes: its close

swingVars == <<swing, queued, minuteNo>>

Sides == {"long", "short"}
NoPlan == [side |-> "none"]
NoSignal == [action |-> "none"]
Candles == {c \in [open : SwingPrices, high : SwingPrices, low : SwingPrices,
                   close : SwingPrices] :
              \A p \in {c.open, c.close} : c.low <= p /\ p <= c.high}

-----------------------------------------------------------------------------
\* The plan

Sign(side) == IF side = "long" THEN 1 ELSE -1
Swing(side, price, extreme) == Sign(side) * (price - extreme)
Risk(side, price, extreme) == (Swing(side, price, extreme) * 11) \div 10
Ahead(side, price, distance) == price + Sign(side) * distance

\* create_plan refuses a swing on the wrong side, and prices that are not positive.
Plannable(side, price, extreme) ==
  LET r == Risk(side, price, extreme)
  IN  Swing(side, price, extreme) > 0 /\ \A d \in {-r, 2 * r} : Ahead(side, price, d) > 0

PlanOf(side, price, extreme) ==
  LET r == Risk(side, price, extreme)
  IN  [side |-> side, entry |-> price, risk |-> r, stop |-> Ahead(side, price, -r),
       left |-> SwingSize, tpFilled |-> FALSE, trailing |-> FALSE]

HalfTarget(s) == Ahead(s.side, s.entry, (3 * s.risk) \div 2)
Activation(s) == Ahead(s.side, s.entry, 2 * s.risk)

\* p is q or better for the position; of a set, the price that protects most.
AtLeast(s, p, q) == Sign(s.side) * (p - q) >= 0
Tightest(s, prices) == CHOOSE p \in prices : \A q \in prices : AtLeast(s, p, q)
StopHit(s, p) == AtLeast(s, s.stop, p)

-----------------------------------------------------------------------------
\* One path through a candle: the state, what was executed, and where it is

Apply(s, e) ==
  IF e.kind = "partial_tp" THEN [s EXCEPT !.left = @ - e.qty, !.tpFilled = TRUE]
  ELSE [s EXCEPT !.left = 0]

Execute(r, kind, price) ==
  LET e == [kind |-> kind, price |-> price,
            qty |-> IF kind = "partial_tp" THEN SwingSize \div 2 ELSE r.plan.left]
  IN  [r EXCEPT !.plan = Apply(@, e), !.events = Append(@, e)]

StopKind(s) == IF s.trailing THEN "trailing_stop" ELSE "stop_loss"

TrailStopLoosely(s, p) == Tightest(s, {s.entry, Ahead(s.side, p, -2 * s.risk)})
\* The stop goes to the entry when the price reaches two risks, and follows it from then on.
TrailStop(s, p) == Tightest(s, {s.stop, s.entry, Ahead(s.side, p, -2 * s.risk)})
Trail(s, p) ==
  IF s.trailing \/ AtLeast(s, p, Activation(s))
  THEN [s EXCEPT !.trailing = TRUE, !.stop = TrailStop(s, p)]
  ELSE s

Favorable(r, p) ==
  LET taken == IF ~r.plan.tpFilled /\ AtLeast(r.plan, p, HalfTarget(r.plan))
               THEN Execute(r, "partial_tp", HalfTarget(r.plan)) ELSE r
  IN  [taken EXCEPT !.plan = Trail(@, p)]

\* At the open a gap executes at the open, past the stop and past the target.
Opening(s, p) ==
  LET r == [plan |-> s, events |-> <<>>, at |-> p]
      gone == Favorable(r, p)
  IN  IF StopHit(s, p) THEN Execute(r, StopKind(s), p)
      ELSE [gone EXCEPT !.events = [i \in DOMAIN @ |-> [@[i] EXCEPT !.price = p]]]

Segment(r, p) ==
  LET there == IF r.plan.left = 0 THEN r
               ELSE IF AtLeast(r.plan, p, r.at) THEN Favorable(r, p)
               ELSE IF StopHit(r.plan, p) THEN Execute(r, StopKind(r.plan), r.plan.stop)
               ELSE r
  IN  [there EXCEPT !.at = p]

\* The four prices of a candle make three segments.
Path(s, prices) ==
  Segment(Segment(Segment(Opening(s, prices[1]), prices[2]), prices[3]), prices[4])

-----------------------------------------------------------------------------
\* Both paths, and the one that is booked

MarkedPnl(r, close) ==
  Sign(r.plan.side) *
    FoldLeft(LAMBDA sum, e : sum + (e.price - r.plan.entry) * e.qty,
             (close - r.plan.entry) * r.plan.left, r.events)

\* a ranks before b: less pnl, then no trailing stop, then the looser stop.
Poorer(a, b, close) ==
  LET pa == MarkedPnl(a, close)
      pb == MarkedPnl(b, close)
  IN  \/ pa < pb
      \/ pa = pb /\ ~a.plan.trailing /\ b.plan.trailing
      \/ /\ pa = pb /\ a.plan.trailing = b.plan.trailing
         /\ ~AtLeast(a.plan, a.plan.stop, b.plan.stop)

Outcome(r, ambiguous) == [plan |-> r.plan, events |-> r.events, ambiguous |-> ambiguous]

BothPaths(s, c) ==
  LET highFirst == Path(s, <<c.open, c.high, c.low, c.close>>)
      lowFirst == Path(s, <<c.open, c.low, c.high, c.close>>)
  IN  Outcome(IF Poorer(lowFirst, highFirst, c.close) THEN lowFirst ELSE highFirst,
              highFirst # lowFirst)

\* What a candle that reaches neither end of the plan leaves: no path is walked.
Best(s, c) == IF s.side = "long" THEN c.high ELSE c.low
Worst(s, c) == IF s.side = "long" THEN c.low ELSE c.high
NextThresholdFarther(s) == Activation(s)
NextThreshold(s) == IF s.tpFilled THEN Activation(s) ELSE HalfTarget(s)
Quiet(s, c) == ~s.trailing /\ ~AtLeast(s, Best(s, c), NextThreshold(s))
Drawn(s, c) == [s EXCEPT !.stop = TrailStop(s, Best(s, c))]
Following(s, c) == s.trailing /\ s.tpFilled /\ ~StopHit(Drawn(s, c), Worst(s, c))

Replay(s, c) ==
  LET untouched == ~StopHit(s, Worst(s, c))
      kept == [plan |-> s, events |-> <<>>]
  IN  IF untouched /\ Quiet(s, c) THEN Outcome(kept, FALSE)
      ELSE IF untouched /\ Following(s, c)
      THEN Outcome([kept EXCEPT !.plan = Drawn(s, c)], FALSE)
      ELSE BothPaths(s, c)

-----------------------------------------------------------------------------
\* The ledger

Flat(episode) == [side |-> "flat", left |-> 0, plan |-> NoPlan, episode |-> episode]

Exit(l, qty) == IF qty = l.left THEN Flat(l.episode) ELSE [l EXCEPT !.left = @ - qty]

\* market: an opposite position is closed first, whatever becomes of the entry.
Market(l, signal, price, refused) ==
  IF l.side = signal.action THEN l
  ELSE IF refused \/ ~Plannable(signal.action, price, signal.extreme) THEN Flat(l.episode)
  ELSE [side |-> signal.action, left |-> SwingSize, episode |-> l.episode + 1,
        plan |-> PlanOf(signal.action, price, signal.extreme)]

AtOpen(l, signal, price, refused) ==
  CASE signal = NoSignal -> l
    [] signal.action = "close" -> Flat(l.episode)
    [] OTHER -> Market(l, signal, price, refused)

Booked(l, e) == Exit([l EXCEPT !.plan = Apply(@, e)], e.qty)
AllBooked(l, events) == FoldLeft(Booked, l, events)

\* The state that the replay ends in is taken unless an event closed the position.
KeepState(after, plan) == [after EXCEPT !.plan = plan]
KeepOpenState(after, plan) ==
  IF after.plan = NoPlan THEN after ELSE [after EXCEPT !.plan = plan]

Protected(l, c) ==
  LET out == Replay(l.plan, c)
  IN  IF l.plan = NoPlan THEN l
      ELSE KeepOpenState(AllBooked(l, out.events), out.plan)

-----------------------------------------------------------------------------

SwingInit == swing = Flat(0) /\ queued = NoSignal /\ minuteNo = 0

\* _execute_bar for one minute; only the first of a bar has what was queued.
Minute(c, refused) ==
  /\ minuteNo < Minutes
  /\ queued # NoSignal /\ queued.action # "close" => c.open \in EntryPrices
  /\ swing' = Protected(AtOpen(swing, queued, c.open, refused), c)
  /\ queued' = NoSignal
  /\ minuteNo' = minuteNo + 1

\* The action that the code answers at the close of a bar.
BarSignal(action, extreme) ==
  /\ minuteNo = Minutes
  /\ queued' = CASE action = "close" -> [action |-> "close"]
                 [] action \in Sides /\ swing.side # action ->
                      [action |-> action, extreme |-> extreme]
                 [] OTHER -> NoSignal
  /\ action \in Sides => swing.episode < MaxEpisodes
  /\ minuteNo' = 0
  /\ UNCHANGED swing

SwingNext ==
  \/ \E c \in Candles, refused \in BOOLEAN : Minute(c, refused)
  \/ \E action \in Sides \cup {"hold", "close"}, x \in Extremes : BarSignal(action, x)

SwingSpec == SwingInit /\ [][SwingNext]_swingVars

-----------------------------------------------------------------------------
\* Properties

\* Every variable stays within its type.
SwingTypeOK ==
  /\ swing.side \in Sides \cup {"flat"} /\ swing.left \in {0, SwingSize \div 2, SwingSize}
  /\ swing.episode \in 0..MaxEpisodes
  /\ swing.plan # NoPlan => swing.plan.left \in 1..SwingSize /\ swing.plan.stop \in Nat \ {0}
  /\ queued.action \in Sides \cup {"close", "none"}
  /\ minuteNo \in 0..Minutes

\* replay_candle spares the two paths where it can tell the result beforehand: for
\* every candle and every state of a plan that a run reaches, it tells what the
\* paths would have given, the mark "ambiguous" included.
ShortcutExact ==
  swing.plan # NoPlan => \A c \in Candles : Replay(swing.plan, c) = BothPaths(swing.plan, c)

AddQty(sum, e) == sum + e.qty
Executed(events) == FoldLeft(AddQty, 0, events)

\* What a candle may do to a plan, whichever path is booked: everything executes at
\* a price that the candle traded; half is taken once, before the rest; what is
\* executed and what is left add up; a candle that touched the stop leaves nothing;
\* what is left keeps a stop that is no looser than before and that the close has
\* not passed; and once it trails, the rest ends no worse than the entry, or at the
\* open that jumped the stop.
Fair(s, c, out) ==
  LET last == Len(out.events)
  IN  /\ \A i \in 1..last :
           LET e == out.events[i]
           IN  /\ c.low <= e.price /\ e.price <= c.high
               /\ e.kind = "partial_tp" => i = 1 /\ ~s.tpFilled
               /\ e.kind # "partial_tp" => i = last /\ out.plan.left = 0
               /\ e.kind = "trailing_stop" => AtLeast(s, e.price, s.entry) \/ e.price = c.open
      /\ s.left = out.plan.left + Executed(out.events)
      /\ StopHit(s, Worst(s, c)) => out.plan.left = 0
      /\ out.plan.left > 0 => AtLeast(s, out.plan.stop, s.stop) /\ ~StopHit(out.plan, c.close)
ReplayFair ==
  swing.plan # NoPlan => \A c \in Candles : Fair(swing.plan, c, Replay(swing.plan, c))

\* The replay of a candle is the worse of both paths, shortcut or not, and fair.
ReplayRight == ShortcutExact /\ ReplayFair

\* The ledger and the state of the plan each count what is left, and the replay has
\* its own copy of both: they agree after every minute, and a ledger that is flat has
\* no plan that could execute against the next position.
CopiesAgree ==
  IF swing.side = "flat" THEN swing.plan = NoPlan /\ swing.left = 0
  ELSE swing.plan.side = swing.side /\ swing.plan.left = swing.left
=============================================================================
