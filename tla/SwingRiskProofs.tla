--------------------------- MODULE SwingRiskProofs ---------------------------
(***************************************************************************)
(* Proofs about SwingRisk, for every price, extreme, size and number of    *)
(* minutes: the walk through a candle first, then the shortcut that spares *)
(* it, then the ledger that books what the walk executes.                  *)
(***************************************************************************)
EXTENDS SwingRisk, TLAPS

Positive == Nat \ {0}
Plans == [side : Sides, entry : Positive, risk : Positive, stop : Positive, left : Nat,
          tpFilled : BOOLEAN, trailing : BOOLEAN]

\* A plan that is still open.  What trails was half taken before, because the half
\* target comes before the activation; what does not still has its first stop.
PlanFits(s) ==
  /\ s \in Plans
  /\ s.left = IF s.tpFilled THEN SwingSize \div 2 ELSE SwingSize
  /\ s.trailing => s.tpFilled /\ AtLeast(s, s.stop, s.entry)
  /\ ~s.trailing => s.stop = Ahead(s.side, s.entry, -s.risk)

-----------------------------------------------------------------------------
(***************************************************************************)
(* The order of prices, as the side of the position sees it.               *)
(***************************************************************************)
LEMMA SizeHalves ==
  /\ SwingSize \in Nat \ {0} /\ SwingSize \div 2 \in Nat \ {0}
  /\ SwingSize \div 2 + SwingSize \div 2 = SwingSize /\ SwingSize \div 2 # SwingSize
BY SwingAssumption

LEMMA AtLeastIs ==
  ASSUME NEW s, s.side \in Sides, NEW p \in Int, NEW q \in Int
  PROVE  AtLeast(s, p, q) <=> IF s.side = "long" THEN p >= q ELSE p <= q
BY DEF AtLeast, Sign, Sides

LEMMA AheadIs ==
  ASSUME NEW side \in Sides, NEW p \in Int, NEW d \in Int
  PROVE  Ahead(side, p, d) = IF side = "long" THEN p + d ELSE p - d
BY DEF Ahead, Sign, Sides

\* The half target lies before the activation, and both before the entry.
LEMMA TargetsAre ==
  ASSUME NEW s \in Plans
  PROVE  /\ HalfTarget(s) \in Int /\ Activation(s) \in Int
         /\ IF s.side = "long"
            THEN s.entry < HalfTarget(s) /\ HalfTarget(s) <= Activation(s)
            ELSE s.entry > HalfTarget(s) /\ HalfTarget(s) >= Activation(s)
<1>1. /\ s.side \in Sides /\ s.entry \in Int /\ s.risk \in Int /\ s.risk >= 1
  BY DEF Plans, Positive
<1>2. /\ (3 * s.risk) \div 2 \in Int /\ (3 * s.risk) \div 2 >= 1
      /\ (3 * s.risk) \div 2 <= 2 * s.risk
  BY <1>1
<1>3. QED
  BY <1>1, <1>2, AheadIs DEF HalfTarget, Activation

LEMMA TightestIs ==
  ASSUME NEW s, s.side \in Sides, NEW a \in Int, NEW b \in Int, NEW c \in Int
  PROVE  LET t == Tightest(s, {a, b, c})
         IN  /\ t \in {a, b, c}
             /\ IF s.side = "long" THEN t >= a /\ t >= b /\ t >= c
                ELSE t <= a /\ t <= b /\ t <= c
<1>1. \E p \in {a, b, c} : \A q \in {a, b, c} :
        IF s.side = "long" THEN p >= q ELSE p <= q
  OBVIOUS
<1>2. \E p \in {a, b, c} : \A q \in {a, b, c} : AtLeast(s, p, q)
  BY <1>1, AtLeastIs
<1> DEFINE t == Tightest(s, {a, b, c})
<1>3. t \in {a, b, c} /\ \A q \in {a, b, c} : AtLeast(s, t, q)
  BY <1>2 DEF Tightest
<1> HIDE DEF t
<1>4. t \in Int
  BY <1>3
<1>5. QED
  BY <1>3, <1>4, AtLeastIs DEF t

LEMMA TrailStopIs ==
  ASSUME NEW s \in Plans, NEW p \in Positive
  PROVE  LET t == TrailStop(s, p)
         IN  /\ t \in Positive
             /\ IF s.side = "long"
                THEN /\ t >= s.stop /\ t >= s.entry /\ t >= p - 2 * s.risk
                     /\ t = s.stop \/ t = s.entry \/ t = p - 2 * s.risk
                ELSE /\ t <= s.stop /\ t <= s.entry /\ t <= p + 2 * s.risk
                     /\ t = s.stop \/ t = s.entry \/ t = p + 2 * s.risk
<1> DEFINE a == Ahead(s.side, p, -2 * s.risk)
           t == Tightest(s, {s.stop, s.entry, a})
<1>1. s.side \in Sides /\ s.stop \in Positive /\ s.entry \in Positive /\ s.risk \in Positive
  BY DEF Plans
<1>2. s.stop \in Int /\ s.entry \in Int /\ p \in Int /\ s.risk \in Int
  BY <1>1 DEF Positive
<1>3. a = IF s.side = "long" THEN p - 2 * s.risk ELSE p + 2 * s.risk
  BY <1>1, <1>2, AheadIs
<1>4. a \in Int
  BY <1>2, <1>3
<1> HIDE DEF a
<1>5. /\ t \in {s.stop, s.entry, a}
      /\ IF s.side = "long" THEN t >= s.stop /\ t >= s.entry /\ t >= a
         ELSE t <= s.stop /\ t <= s.entry /\ t <= a
  BY <1>1, <1>2, <1>4, TightestIs
<1>6. TrailStop(s, p) = t
  BY DEF TrailStop, a
<1> HIDE DEF t
<1>7. t \in Positive
  BY <1>1, <1>2, <1>3, <1>5 DEF Positive
<1>8. QED
  BY <1>3, <1>5, <1>6, <1>7

-----------------------------------------------------------------------------
(***************************************************************************)
(* One price of the walk, in favour of the position.                       *)
(***************************************************************************)
\* n is the plan s a little later: still open at p, its stop no looser.
Later(s, n, p) ==
  /\ PlanFits(n) /\ n.side = s.side /\ n.entry = s.entry /\ n.risk = s.risk
  /\ AtLeast(s, n.stop, s.stop) /\ ~StopHit(n, p)

LEMMA PlanFields ==
  ASSUME NEW s, PlanFits(s)
  PROVE  /\ s.side \in Sides /\ s.entry \in Positive /\ s.risk \in Positive
         /\ s.stop \in Positive /\ s.left \in Nat /\ s.left > 0
         /\ s.tpFilled \in BOOLEAN /\ s.trailing \in BOOLEAN
         /\ s.entry \in Int /\ s.risk \in Int /\ s.stop \in Int
BY SizeHalves DEF PlanFits, Plans, Positive

LEMMA NotLooser ==
  ASSUME NEW s, PlanFits(s), NEW p \in Positive, ~StopHit(s, p)
  PROVE  Later(s, s, p)
BY PlanFields, AtLeastIs DEF Later

LEMMA TrailKeeps ==
  ASSUME NEW s, PlanFits(s), NEW p \in Positive, ~StopHit(s, p),
         s.tpFilled \/ ~AtLeast(s, p, HalfTarget(s))
  PROVE  /\ Later(s, Trail(s, p), p)
         /\ Trail(s, p).left = s.left /\ Trail(s, p).tpFilled = s.tpFilled
<1>1. CASE s.trailing \/ AtLeast(s, p, Activation(s))
  <2> DEFINE t == TrailStop(s, p)
             n == [s EXCEPT !.trailing = TRUE, !.stop = t]
  <2>1. s \in Plans /\ p \in Int
    BY DEF PlanFits, Positive
  <2>2. /\ t \in Positive
        /\ IF s.side = "long"
           THEN /\ t >= s.stop /\ t >= s.entry /\ t >= p - 2 * s.risk
                /\ t = s.stop \/ t = s.entry \/ t = p - 2 * s.risk
           ELSE /\ t <= s.stop /\ t <= s.entry /\ t <= p + 2 * s.risk
                /\ t = s.stop \/ t = s.entry \/ t = p + 2 * s.risk
    BY <2>1, TrailStopIs
  <2>3. Trail(s, p) = n
    BY <1>1 DEF Trail
  <2> HIDE DEF t
  <2>4. n \in Plans /\ n.left = s.left /\ n.tpFilled = s.tpFilled /\ n.side = s.side
        /\ n.entry = s.entry /\ n.risk = s.risk /\ n.stop = t /\ n.trailing = TRUE
    BY <2>1, <2>2 DEF Plans
  <2> HIDE DEF n
  <2>5. s.tpFilled
    <3>1. CASE s.trailing
      BY <3>1 DEF PlanFits
    <3>2. CASE AtLeast(s, p, Activation(s))
      <4>1. AtLeast(s, p, HalfTarget(s))
        BY <2>1, <3>2, TargetsAre, AtLeastIs, PlanFields
      <4>2. QED
        BY <4>1
    <3>3. QED
      BY <1>1, <3>1, <3>2
  <2>6. IF s.side = "long" THEN s.stop < p /\ s.entry < p ELSE s.stop > p /\ s.entry > p
    <3>1. IF s.side = "long" THEN s.stop < p ELSE s.stop > p
      BY <2>1, AtLeastIs, PlanFields DEF StopHit
    <3>2. CASE s.trailing
      <4>1. IF s.side = "long" THEN s.stop >= s.entry ELSE s.stop <= s.entry
        BY <3>2, AtLeastIs, PlanFields DEF PlanFits
      <4>2. QED
        BY <2>1, <3>1, <4>1, PlanFields
    <3>3. CASE AtLeast(s, p, Activation(s))
      <4>1. IF s.side = "long" THEN p >= Activation(s) ELSE p <= Activation(s)
        BY <2>1, <3>3, AtLeastIs, PlanFields, TargetsAre
      <4>2. QED
        BY <2>1, <3>1, <4>1, PlanFields, TargetsAre
    <3>4. QED
      BY <1>1, <3>2, <3>3
  <2>7. AtLeast(n, n.stop, n.entry)
    BY <2>2, <2>4, AtLeastIs, PlanFields DEF Positive
  <2>8. PlanFits(n)
    BY <2>4, <2>5, <2>7 DEF PlanFits
  <2>9. AtLeast(s, n.stop, s.stop)
    BY <2>2, <2>4, AtLeastIs, PlanFields DEF Positive
  <2>10. ~StopHit(n, p)
    <3>1. s.risk > 0
      BY PlanFields DEF Positive
    <3>2. IF s.side = "long" THEN t < p ELSE t > p
      BY <2>1, <2>2, <2>6, <3>1, PlanFields
    <3>3. QED
      BY <2>1, <2>2, <2>4, <3>2, AtLeastIs, PlanFields DEF StopHit, Positive
  <2>11. QED
    BY <2>3, <2>4, <2>8, <2>9, <2>10 DEF Later
<1>2. CASE ~(s.trailing \/ AtLeast(s, p, Activation(s)))
  <2>1. Trail(s, p) = s
    BY <1>2 DEF Trail
  <2>2. QED
    BY <2>1, NotLooser
<1>3. QED
  BY <1>1, <1>2

\* What is taken at the half target.
Taken == [kind |-> "partial_tp", price |-> 0, qty |-> SwingSize \div 2]
HalfAt(p) == [Taken EXCEPT !.price = p]

\* The half target is taken once, when the price reaches it.
LEMMA FavorableKeeps ==
  ASSUME NEW r, DOMAIN r = {"plan", "events", "at"}, PlanFits(r.plan),
         NEW p \in Positive, ~StopHit(r.plan, p)
  PROVE  LET f == Favorable(r, p)
         IN  /\ DOMAIN f = {"plan", "events", "at"} /\ f.at = r.at
             /\ Later(r.plan, f.plan, p)
             /\ f.plan.tpFilled \/ ~AtLeast(r.plan, p, HalfTarget(r.plan))
             /\ \/ f.plan.tpFilled = r.plan.tpFilled /\ f.events = r.events
                \/ /\ ~r.plan.tpFilled /\ f.plan.tpFilled
                   /\ AtLeast(r.plan, p, HalfTarget(r.plan))
                   /\ f.events = Append(r.events, HalfAt(HalfTarget(r.plan)))
<1> DEFINE f == Favorable(r, p)
<1>1. CASE ~r.plan.tpFilled /\ AtLeast(r.plan, p, HalfTarget(r.plan))
  <2> DEFINE s == r.plan
             e == HalfAt(HalfTarget(s))
             n == [s EXCEPT !.left = s.left - e.qty, !.tpFilled = TRUE]
             taken == [r EXCEPT !.plan = n, !.events = Append(r.events, e)]
  <2>1. e = [kind |-> "partial_tp", price |-> HalfTarget(s), qty |-> SwingSize \div 2]
    BY DEF HalfAt, Taken
  <2>2. Execute(r, "partial_tp", HalfTarget(s)) = taken
    BY <2>1 DEF Execute, Apply
  <2>3. f = [taken EXCEPT !.plan = Trail(taken.plan, p)]
    BY <1>1, <2>2 DEF Favorable
  <2>4. e.qty = SwingSize \div 2 /\ s.left = SwingSize /\ s \in Plans /\ s.trailing = FALSE
    BY <1>1, <2>1 DEF PlanFits, Plans
  <2> HIDE DEF e
  <2>5. /\ n \in Plans /\ n.left = SwingSize \div 2 /\ n.tpFilled = TRUE
        /\ n.side = s.side /\ n.entry = s.entry /\ n.risk = s.risk /\ n.stop = s.stop
        /\ n.trailing = FALSE
    <3>1. s.left - e.qty = SwingSize \div 2 /\ SwingSize \div 2 \in Nat
      BY <2>4, SizeHalves
    <3>2. n = [s EXCEPT !.left = SwingSize \div 2, !.tpFilled = TRUE]
      BY <3>1
    <3>3. QED
      BY <2>4, <3>1, <3>2 DEF Plans
  <2> HIDE DEF n
  <2>6. PlanFits(n) /\ ~StopHit(n, p)
    BY <2>4, <2>5 DEF PlanFits, StopHit, AtLeast
  <2>7. Later(n, Trail(n, p), p) /\ Trail(n, p).tpFilled
    BY <2>5, <2>6, TrailKeeps
  <2>8. Later(s, Trail(n, p), p)
    BY <2>5, <2>7 DEF Later, AtLeast
  <2>9. f.plan = Trail(n, p) /\ f.events = Append(r.events, e) /\ f.at = r.at
        /\ DOMAIN f = {"plan", "events", "at"}
    BY <2>3
  <2> HIDE DEF f, taken
  <2>10. QED
    BY <1>1, <2>7, <2>8, <2>9 DEF f, e
<1>2. CASE r.plan.tpFilled \/ ~AtLeast(r.plan, p, HalfTarget(r.plan))
  <2>1. f = [r EXCEPT !.plan = Trail(r.plan, p)]
    BY <1>2 DEF Favorable
  <2>2. Later(r.plan, Trail(r.plan, p), p) /\ Trail(r.plan, p).tpFilled = r.plan.tpFilled
    BY <1>2, TrailKeeps
  <2>3. f.plan = Trail(r.plan, p) /\ f.events = r.events /\ f.at = r.at
        /\ DOMAIN f = {"plan", "events", "at"}
    BY <2>1
  <2> HIDE DEF f
  <2>4. QED
    BY <1>2, <2>2, <2>3 DEF f
<1>3. QED
  BY <1>1, <1>2

-----------------------------------------------------------------------------
(***************************************************************************)
(* The walk of one path: what it has done of the plan s when it is at a    *)
(* price of the candle that opened at o.                                   *)
(***************************************************************************)
StopAt(kind, p, qty) == [kind |-> kind, price |-> p, qty |-> qty]
Stopped(s, o, lo, hi, qty, e) ==
  \E kind \in {"stop_loss", "trailing_stop"}, p \in lo..hi :
    /\ e = StopAt(kind, p, qty)
    /\ kind = "trailing_stop" => AtLeast(s, p, s.entry) \/ p = o

WalksOpen(s, lo, hi, r) ==
  /\ Later(s, r.plan, r.at)
  /\ r.plan.tpFilled \/ ~AtLeast(s, r.at, HalfTarget(s))
  /\ \/ r.plan.tpFilled = s.tpFilled /\ r.events = <<>>
     \/ ~s.tpFilled /\ r.plan.tpFilled /\ \E p \in lo..hi : r.events = <<HalfAt(p)>>

WalksClosed(s, o, lo, hi, r) ==
  /\ r.plan.left = 0
  /\ \/ \E e : Stopped(s, o, lo, hi, s.left, e) /\ r.events = <<e>>
     \/ /\ ~s.tpFilled
        /\ \E p \in lo..hi : \E e :
             Stopped(s, o, lo, hi, SwingSize \div 2, e) /\ r.events = <<HalfAt(p), e>>

Walks(s, o, lo, hi, r) ==
  /\ DOMAIN r = {"plan", "events", "at"} /\ r.at \in lo..hi
  /\ WalksOpen(s, lo, hi, r) \/ WalksClosed(s, o, lo, hi, r)

LEMMA AppendSecond ==
  ASSUME NEW a, NEW b
  PROVE  Append(<<a>>, b) = <<a, b>>
<1> DEFINE S == {a, b}
           q == Append(<<a>>, b)
<1>1. <<a>> \in Seq(S) /\ b \in S /\ Len(<<a>>) = 1
  OBVIOUS
<1>2. q \in Seq(S) /\ Len(q) = 2 /\ q[1] = a /\ q[2] = b
  BY <1>1
<1>3. <<a, b>> \in Seq(S) /\ Len(<<a, b>>) = 2 /\ <<a, b>>[1] = a /\ <<a, b>>[2] = b
  OBVIOUS
<1> HIDE DEF q, S
<1>4. q = <<a, b>>
  BY <1>2, <1>3
<1>5. QED
  BY <1>4 DEF q

LEMMA ExecuteIs ==
  ASSUME NEW r, DOMAIN r = {"plan", "events", "at"}, NEW s \in Plans, r.plan = s,
         NEW kind \in {"stop_loss", "trailing_stop"}, NEW p
  PROVE  LET x == Execute(r, kind, p)
         IN  /\ DOMAIN x = {"plan", "events", "at"} /\ x.at = r.at
             /\ x.plan.left = 0 /\ x.events = Append(r.events, StopAt(kind, p, s.left))
<1> DEFINE e == StopAt(kind, p, s.left)
           x == [r EXCEPT !.plan = [s EXCEPT !.left = 0], !.events = Append(r.events, e)]
<1>1. Execute(r, kind, p) = x
  BY DEF Execute, Apply, StopAt
<1>2. [s EXCEPT !.left = 0].left = 0
  BY DEF Plans
<1> HIDE DEF e
<1>3. DOMAIN x = {"plan", "events", "at"} /\ x.at = r.at /\ x.plan.left = 0
      /\ x.events = Append(r.events, e)
  BY <1>2
<1>4. QED
  BY <1>1, <1>3 DEF e

LEMMA LaterGoesOn ==
  ASSUME NEW s, PlanFits(s), NEW n, NEW m, NEW p, NEW q, Later(s, n, p), Later(n, m, q)
  PROVE  Later(s, m, q)
<1>1. PlanFits(n) /\ PlanFits(m) /\ n.side = s.side
  BY DEF Later
<1>2. AtLeast(s, n.stop, s.stop) /\ AtLeast(s, m.stop, n.stop)
  BY <1>1 DEF Later, AtLeast
<1>3. s.stop \in Int /\ n.stop \in Int /\ m.stop \in Int /\ s.side \in Sides
  BY <1>1, PlanFields
<1>4. AtLeast(s, m.stop, s.stop)
  BY <1>2, <1>3, AtLeastIs
<1>5. QED
  BY <1>4 DEF Later

LEMMA OpeningWalks ==
  ASSUME NEW s, PlanFits(s), NEW lo \in Positive, NEW hi \in Positive, NEW o \in lo..hi
  PROVE  Walks(s, o, lo, hi, Opening(s, o)) /\ Opening(s, o).at = o
<1> DEFINE r == [plan |-> s, events |-> <<>>, at |-> o]
           gone == Favorable(r, o)
<1>1. o \in Positive /\ s \in Plans
  BY DEF Positive, PlanFits
<1>2. DOMAIN r = {"plan", "events", "at"} /\ r.plan = s /\ r.at = o /\ r.events = <<>>
  OBVIOUS
<1>3. CASE StopHit(s, o)
  <2> DEFINE x == Execute(r, StopKind(s), o)
             e == StopAt(StopKind(s), o, s.left)
  <2>1. Opening(s, o) = x
    BY <1>3 DEF Opening
  <2>2. StopKind(s) \in {"stop_loss", "trailing_stop"}
    BY DEF StopKind
  <2> HIDE DEF r
  <2>3. DOMAIN x = {"plan", "events", "at"} /\ x.at = o /\ x.plan.left = 0
        /\ x.events = Append(<<>>, e)
    BY <1>1, <1>2, <2>2, ExecuteIs
  <2>4. Stopped(s, o, lo, hi, s.left, e)
    BY <2>2 DEF Stopped
  <2> HIDE DEF e, x
  <2>5. x.events = <<e>>
    BY <2>3
  <2>6. QED
    BY <2>1, <2>3, <2>4, <2>5 DEF Walks, WalksClosed
<1>4. CASE ~StopHit(s, o)
  <2> DEFINE x == [gone EXCEPT !.events = [i \in DOMAIN gone.events |->
                                             [gone.events[i] EXCEPT !.price = o]]]
  <2>1. Opening(s, o) = x
    BY <1>4 DEF Opening
  <2> HIDE DEF r
  <2>2. /\ DOMAIN gone = {"plan", "events", "at"} /\ gone.at = o
        /\ Later(s, gone.plan, o)
        /\ gone.plan.tpFilled \/ ~AtLeast(s, o, HalfTarget(s))
        /\ \/ gone.plan.tpFilled = s.tpFilled /\ gone.events = <<>>
           \/ /\ ~s.tpFilled /\ gone.plan.tpFilled
              /\ gone.events = Append(<<>>, HalfAt(HalfTarget(s)))
    BY <1>1, <1>2, <1>4, FavorableKeeps
  <2> HIDE DEF gone
  <2>3. DOMAIN x = {"plan", "events", "at"} /\ x.at = o /\ x.plan = gone.plan
        /\ x.events = [i \in DOMAIN gone.events |-> [gone.events[i] EXCEPT !.price = o]]
    BY <2>2
  <2> HIDE DEF x
  <2>5. gone.events = <<>> => x.events = <<>>
    BY <2>3
  <2>6. gone.events = Append(<<>>, HalfAt(HalfTarget(s))) => x.events = <<HalfAt(o)>>
    <3> DEFINE h == HalfAt(HalfTarget(s))
    <3>1. [h EXCEPT !.price = o] = HalfAt(o)
      BY DEF HalfAt, Taken
    <3> HIDE DEF h
    <3> SUFFICES ASSUME gone.events = Append(<<>>, h)
                 PROVE  x.events = <<HalfAt(o)>>
      BY DEF h
    <3>2. gone.events = <<h>>
      OBVIOUS
    <3>3. x.events = [i \in 1..1 |-> HalfAt(o)]
      BY <2>3, <3>1, <3>2
    <3>4. QED
      BY <3>3
  <2>7. WalksOpen(s, lo, hi, x)
    BY <2>2, <2>3, <2>5, <2>6 DEF WalksOpen
  <2>8. QED
    BY <2>1, <2>3, <2>7 DEF Walks
<1>5. QED
  BY <1>3, <1>4

LEMMA SameTargets ==
  ASSUME NEW s, NEW n, n.side = s.side, n.entry = s.entry, n.risk = s.risk
  PROVE  /\ HalfTarget(n) = HalfTarget(s) /\ Activation(n) = Activation(s)
         /\ \A p, q : AtLeast(n, p, q) = AtLeast(s, p, q)
BY DEF HalfTarget, Activation, AtLeast

LEMMA SegmentWalks ==
  ASSUME NEW s, PlanFits(s), NEW lo \in Positive, NEW hi \in Positive, NEW o \in lo..hi,
         NEW r, Walks(s, o, lo, hi, r), NEW p \in lo..hi
  PROVE  /\ Walks(s, o, lo, hi, Segment(r, p)) /\ Segment(r, p).at = p
         /\ Segment(r, p).plan.left > 0 => r.plan.left > 0 /\ ~StopHit(s, p)
<1> DEFINE there == IF r.plan.left = 0 THEN r
                    ELSE IF AtLeast(r.plan, p, r.at) THEN Favorable(r, p)
                    ELSE IF StopHit(r.plan, p) THEN Execute(r, StopKind(r.plan), r.plan.stop)
                    ELSE r
           x == [there EXCEPT !.at = p]
<1>1. /\ p \in Positive /\ p \in Int /\ lo \in Int /\ hi \in Int /\ r.at \in Int
      /\ lo <= p /\ p <= hi /\ lo <= r.at /\ r.at <= hi
      /\ DOMAIN r = {"plan", "events", "at"} /\ s \in Plans /\ s.side \in Sides
  BY DEF Positive, Walks, PlanFits, Plans
<1>2. Segment(r, p) = x
  BY DEF Segment
<1>3. ASSUME DOMAIN there = {"plan", "events", "at"}
      PROVE  DOMAIN x = {"plan", "events", "at"} /\ x.at = p /\ x.plan = there.plan
             /\ x.events = there.events
  BY <1>3
<1> HIDE DEF there, x
<1>4. CASE r.plan.left = 0
  <2>1. there = r
    BY <1>4 DEF there
  <2>2. WalksClosed(s, o, lo, hi, r)
    BY <1>4, PlanFields DEF Walks, WalksOpen, Later
  <2>3. DOMAIN x = {"plan", "events", "at"} /\ x.at = p /\ x.plan = r.plan /\ x.events = r.events
    BY <1>1, <1>3, <2>1
  <2>4. WalksClosed(s, o, lo, hi, x)
    BY <2>2, <2>3 DEF WalksClosed
  <2>5. x.plan.left = 0
    BY <1>4, <2>3
  <2>6. QED
    BY <1>1, <1>2, <2>3, <2>4, <2>5 DEF Walks
<1>5. CASE r.plan.left # 0
  <2>1. WalksOpen(s, lo, hi, r)
    BY <1>5 DEF Walks, WalksClosed
  <2>2. /\ Later(s, r.plan, r.at) /\ PlanFits(r.plan) /\ r.plan \in Plans /\ r.plan.left > 0
        /\ r.plan.side = s.side /\ r.plan.entry = s.entry /\ r.plan.risk = s.risk
    BY <2>1, PlanFields DEF WalksOpen, Later, PlanFits
  <2>3. /\ HalfTarget(r.plan) = HalfTarget(s) /\ HalfTarget(s) \in Int
        /\ \A a, b : AtLeast(r.plan, a, b) = AtLeast(s, a, b)
    BY <1>1, <2>2, SameTargets, TargetsAre
  <2>4. r.plan.stop \in Int /\ s.stop \in Int /\ s.entry \in Int
    BY <2>2, PlanFields
  <2>5. ~AtLeast(s, r.plan.stop, r.at)
    BY <2>2, <2>3 DEF Later, StopHit
  <2>6. AtLeast(s, r.plan.stop, s.stop)
    BY <2>2 DEF Later
  \* What is open at p has the stop of s behind it.
  <2>7. ASSUME WalksOpen(s, lo, hi, x), x.at = p, x.plan.left > 0
        PROVE  ~StopHit(s, p)
    <3>1. PlanFits(x.plan) /\ x.plan.side = s.side /\ AtLeast(s, x.plan.stop, s.stop)
          /\ ~AtLeast(x.plan, x.plan.stop, p)
      BY <2>7 DEF WalksOpen, Later, StopHit
    <3>2. ~AtLeast(s, x.plan.stop, p) /\ x.plan.stop \in Int
      BY <3>1, PlanFields DEF AtLeast
    <3>3. QED
      BY <1>1, <2>4, <3>1, <3>2, AtLeastIs DEF StopHit
  <2>8. CASE AtLeast(s, p, r.at)
    <3>1. there = Favorable(r, p)
      BY <1>5, <2>3, <2>8 DEF there
    <3>2. ~StopHit(r.plan, p)
      BY <1>1, <2>3, <2>4, <2>5, <2>8, AtLeastIs DEF StopHit
    <3>3. /\ DOMAIN there = {"plan", "events", "at"}
          /\ Later(r.plan, there.plan, p)
          /\ there.plan.tpFilled \/ ~AtLeast(s, p, HalfTarget(s))
          /\ \/ there.plan.tpFilled = r.plan.tpFilled /\ there.events = r.events
             \/ /\ ~r.plan.tpFilled /\ there.plan.tpFilled
                /\ AtLeast(s, p, HalfTarget(s))
                /\ there.events = Append(r.events, HalfAt(HalfTarget(s)))
      BY <1>1, <2>2, <2>3, <3>1, <3>2, FavorableKeeps
    <3>4. DOMAIN x = {"plan", "events", "at"} /\ x.at = p /\ x.plan = there.plan
          /\ x.events = there.events
      BY <1>3, <3>3
    <3>5. Later(s, x.plan, p)
      BY <2>2, <3>3, <3>4, LaterGoesOn
    <3>6. CASE there.plan.tpFilled = r.plan.tpFilled /\ there.events = r.events
      <4>1. WalksOpen(s, lo, hi, x)
        BY <2>1, <3>3, <3>4, <3>5, <3>6 DEF WalksOpen
      <4>2. QED
        BY <1>1, <1>2, <2>2, <2>7, <3>4, <4>1 DEF Walks
    <3>7. CASE /\ ~r.plan.tpFilled /\ there.plan.tpFilled
               /\ AtLeast(s, p, HalfTarget(s))
               /\ there.events = Append(r.events, HalfAt(HalfTarget(s)))
      <4>1. r.plan.tpFilled = s.tpFilled /\ r.events = <<>> /\ ~AtLeast(s, r.at, HalfTarget(s))
        BY <2>1, <3>7 DEF WalksOpen
      <4>2. HalfTarget(s) \in lo..hi
        BY <1>1, <2>3, <3>7, <4>1, AtLeastIs
      <4>3. x.events = <<HalfAt(HalfTarget(s))>>
        BY <3>4, <3>7, <4>1
      <4>4. WalksOpen(s, lo, hi, x)
        BY <3>4, <3>5, <3>7, <4>1, <4>2, <4>3 DEF WalksOpen
      <4>5. QED
        BY <1>1, <1>2, <2>2, <2>7, <3>4, <4>4 DEF Walks
    <3>8. QED
      BY <3>3, <3>6, <3>7
  <2>9. CASE ~AtLeast(s, p, r.at) /\ StopHit(r.plan, p)
    <3> DEFINE e == StopAt(StopKind(r.plan), r.plan.stop, r.plan.left)
    <3>1. there = Execute(r, StopKind(r.plan), r.plan.stop)
      BY <1>5, <2>3, <2>9 DEF there
    <3>2. StopKind(r.plan) \in {"stop_loss", "trailing_stop"}
      BY DEF StopKind
    <3>3. DOMAIN there = {"plan", "events", "at"} /\ there.plan.left = 0
          /\ there.events = Append(r.events, e)
      BY <1>1, <2>2, <3>1, <3>2, ExecuteIs
    <3>4. DOMAIN x = {"plan", "events", "at"} /\ x.at = p /\ x.plan.left = 0
          /\ x.events = Append(r.events, e)
      BY <1>3, <3>3
    <3>5. r.plan.stop \in lo..hi
      <4>1. AtLeast(s, r.plan.stop, p)
        BY <2>3, <2>9 DEF StopHit
      <4>2. QED
        BY <1>1, <2>4, <2>5, <4>1, AtLeastIs
    <3>6. Stopped(s, o, lo, hi, r.plan.left, e)
      <4>1. StopKind(r.plan) = "trailing_stop" => AtLeast(s, r.plan.stop, s.entry)
        BY <2>2, <2>3 DEF StopKind, PlanFits
      <4>2. QED
        BY <3>2, <3>5, <4>1 DEF Stopped
    <3> HIDE DEF e
    <3>7. CASE r.plan.tpFilled = s.tpFilled /\ r.events = <<>>
      <4>1. r.plan.left = s.left
        BY <2>2, <3>7 DEF PlanFits
      <4>2. x.events = <<e>>
        BY <3>4, <3>7
      <4>3. WalksClosed(s, o, lo, hi, x)
        BY <3>4, <3>6, <4>1, <4>2 DEF WalksClosed
      <4>4. QED
        BY <1>1, <1>2, <3>4, <4>3 DEF Walks
    <3>8. CASE ~s.tpFilled /\ r.plan.tpFilled /\ \E h \in lo..hi : r.events = <<HalfAt(h)>>
      <4>1. PICK h \in lo..hi : r.events = <<HalfAt(h)>>
        BY <3>8
      <4>2. x.events = <<HalfAt(h), e>>
        BY <3>4, <4>1, AppendSecond
      <4>3. r.plan.left = SwingSize \div 2
        BY <2>2, <3>8 DEF PlanFits
      <4>4. WalksClosed(s, o, lo, hi, x)
        BY <3>4, <3>6, <3>8, <4>2, <4>3 DEF WalksClosed
      <4>5. QED
        BY <1>1, <1>2, <3>4, <4>4 DEF Walks
    <3>9. QED
      BY <2>1, <3>7, <3>8 DEF WalksOpen
  <2>10. CASE ~AtLeast(s, p, r.at) /\ ~StopHit(r.plan, p)
    <3>1. there = r
      BY <1>5, <2>3, <2>10 DEF there
    <3>2. DOMAIN x = {"plan", "events", "at"} /\ x.at = p /\ x.plan = r.plan
          /\ x.events = r.events
      BY <1>1, <1>3, <3>1
    <3>3. Later(s, x.plan, p)
      BY <2>2, <2>10, <3>2 DEF Later
    <3>4. x.plan.tpFilled \/ ~AtLeast(s, p, HalfTarget(s))
      BY <1>1, <2>1, <2>3, <2>10, <3>2, AtLeastIs DEF WalksOpen
    <3>5. WalksOpen(s, lo, hi, x)
      BY <2>1, <3>2, <3>3, <3>4 DEF WalksOpen
    <3>6. QED
      BY <1>1, <1>2, <2>2, <2>7, <3>2, <3>5 DEF Walks
  <2>11. QED
    BY <2>8, <2>9, <2>10
<1>6. QED
  BY <1>4, <1>5

LEMMA PathWalks ==
  ASSUME NEW s, PlanFits(s), NEW lo \in Positive, NEW hi \in Positive, NEW o \in lo..hi,
         NEW x \in lo..hi, NEW y \in lo..hi, NEW z \in lo..hi
  PROVE  LET r == Path(s, <<o, x, y, z>>)
         IN  /\ Walks(s, o, lo, hi, r) /\ r.at = z
             /\ r.plan.left > 0 => ~StopHit(s, x) /\ ~StopHit(s, y)
<1> DEFINE a == Opening(s, o)
           b == Segment(a, x)
           c == Segment(b, y)
           d == Segment(c, z)
<1>1. Path(s, <<o, x, y, z>>) = d
  BY DEF Path
<1>2. Walks(s, o, lo, hi, a)
  BY OpeningWalks
<1> HIDE DEF a
<1>3. Walks(s, o, lo, hi, b) /\ (b.plan.left > 0 => ~StopHit(s, x))
  BY <1>2, SegmentWalks
<1> HIDE DEF b
<1>4. Walks(s, o, lo, hi, c) /\ (c.plan.left > 0 => b.plan.left > 0 /\ ~StopHit(s, y))
  BY <1>3, SegmentWalks
<1> HIDE DEF c
<1>5. /\ Walks(s, o, lo, hi, d) /\ d.at = z
      /\ d.plan.left > 0 => c.plan.left > 0
  BY <1>4, SegmentWalks
<1> HIDE DEF d
<1>6. QED
  BY <1>1, <1>3, <1>4, <1>5

LEMMA CandleIs ==
  ASSUME NEW c \in Candles
  PROVE  /\ c.low \in Positive /\ c.high \in Positive
         /\ c.open \in c.low..c.high /\ c.close \in c.low..c.high
         /\ c.low \in c.low..c.high /\ c.high \in c.low..c.high
<1>1. /\ c.low \in SwingPrices /\ c.high \in SwingPrices
      /\ c.open \in SwingPrices /\ c.close \in SwingPrices
      /\ c.low <= c.open /\ c.open <= c.high /\ c.low <= c.close /\ c.close <= c.high
  BY DEF Candles
<1>2. SwingPrices \subseteq Positive
  BY SwingAssumption DEF Positive
<1>3. /\ c.low \in Positive /\ c.high \in Positive /\ c.open \in Positive
      /\ c.close \in Positive
  BY <1>1, <1>2
<1>4. QED
  BY <1>1, <1>3 DEF Positive

\* Both paths of a candle.
HighFirst(s, c) == Path(s, <<c.open, c.high, c.low, c.close>>)
LowFirst(s, c) == Path(s, <<c.open, c.low, c.high, c.close>>)

LEMMA CandleWalks ==
  ASSUME NEW s, PlanFits(s), NEW c \in Candles, NEW r \in {HighFirst(s, c), LowFirst(s, c)}
  PROVE  /\ Walks(s, c.open, c.low, c.high, r) /\ r.at = c.close
         /\ r.plan.left > 0 => ~StopHit(s, Worst(s, c))
BY CandleIs, PathWalks DEF HighFirst, LowFirst, Worst

-----------------------------------------------------------------------------
(***************************************************************************)
(* A candle executes two events at most; what their folds compute.         *)
(***************************************************************************)
LEMMA Picks == Max({1}) = 1 /\ Max({2}) = 2 /\ Max({1, 2}) = 2
BY DEF Max

BookRun(l, q) ==
  CHOOSE it : it = [s \in SUBSET DOMAIN q |->
    IF s = {} THEN l ELSE Booked(it[s \ {Max(s)}], q[Max(s)])]

LEMMA BookRunIs ==
  ASSUME NEW l, NEW q
  PROVE  AllBooked(l, q) = BookRun(l, q)[DOMAIN q]
BY DEF AllBooked, FoldLeft, MapThenFoldSet, BookRun

LEMMA BookRunOfTwo ==
  ASSUME NEW l, NEW q, DOMAIN q \in {{}, {1}, {1, 2}}
  PROVE  \A s \in SUBSET DOMAIN q : BookRun(l, q)[s] =
           IF s = {} THEN l ELSE Booked(BookRun(l, q)[s \ {Max(s)}], q[Max(s)])
<1> DEFINE one == Booked(l, q[1])
           f == [s \in SUBSET DOMAIN q |->
                  IF s = {} THEN l ELSE IF s = {1} THEN one
                  ELSE IF s = {2} THEN Booked(l, q[2]) ELSE Booked(one, q[2])]
           P(it) == it = [s \in SUBSET DOMAIN q |->
                       IF s = {} THEN l ELSE Booked(it[s \ {Max(s)}], q[Max(s)])]
<1>1. ASSUME NEW s \in SUBSET DOMAIN q
      PROVE  f[s] = IF s = {} THEN l ELSE Booked(f[s \ {Max(s)}], q[Max(s)])
  <2>1. s \in {{}, {1}, {2}, {1, 2}}
    <3>1. s \subseteq {1, 2}
      OBVIOUS
    <3>2. QED
      BY <3>1
  <2>2. CASE s = {}
    BY <2>2
  <2>3. CASE s = {1}
    <3>1. Max(s) = 1 /\ s \ {1} = {} /\ f[s] = one /\ f[{}] = l
      BY <2>3, Picks
    <3>2. QED
      BY <2>3, <3>1
  <2>4. CASE s = {2}
    <3>1. Max(s) = 2 /\ s \ {2} = {} /\ f[s] = Booked(l, q[2]) /\ f[{}] = l
      BY <2>4, Picks
    <3>2. QED
      BY <2>4, <3>1
  <2>5. CASE s = {1, 2}
    <3>1. Max(s) = 2 /\ s \ {2} = {1} /\ f[s] = Booked(one, q[2]) /\ f[{1}] = one
      BY <2>5, Picks
    <3>2. QED
      BY <2>5, <3>1
  <2>6. QED
    BY <2>1, <2>2, <2>3, <2>4, <2>5
<1>2. P(f)
  <2> HIDE DEF one
  <2>1. f = [s \in SUBSET DOMAIN q |-> f[s]]
    OBVIOUS
  <2> HIDE DEF f
  <2>2. QED
    BY <1>1, <2>1
<1>3. BookRun(l, q) = CHOOSE it : P(it)
  BY DEF BookRun
<1> HIDE DEF f
<1>4. P(CHOOSE it : P(it))
  <2> HIDE DEF P
  <2>1. QED
    BY <1>2
<1>5. P(BookRun(l, q))
  <2> HIDE DEF P
  <2>1. QED
    BY <1>3, <1>4
<1> DEFINE r == BookRun(l, q)
<1>6. P(r)
  BY <1>5
<1> HIDE DEF r
<1>7. \A s \in SUBSET DOMAIN q : r[s] =
           IF s = {} THEN l ELSE Booked(r[s \ {Max(s)}], q[Max(s)])
  BY <1>6
<1>8. QED
  BY <1>7 DEF r

LEMMA AllBookedIs ==
  ASSUME NEW l, NEW q
  PROVE  /\ DOMAIN q = {} => AllBooked(l, q) = l
         /\ DOMAIN q = {1} => AllBooked(l, q) = Booked(l, q[1])
         /\ DOMAIN q = {1, 2} => AllBooked(l, q) = Booked(Booked(l, q[1]), q[2])
<1>1. ASSUME DOMAIN q \in {{}, {1}, {1, 2}}, NEW s \in SUBSET DOMAIN q
      PROVE  BookRun(l, q)[s] =
           IF s = {} THEN l ELSE Booked(BookRun(l, q)[s \ {Max(s)}], q[Max(s)])
  BY <1>1, BookRunOfTwo
<1>2. DOMAIN q = {} => AllBooked(l, q) = l
  BY <1>1, BookRunIs
<1>3. ASSUME DOMAIN q \in {{1}, {1, 2}}
      PROVE  BookRun(l, q)[{1}] = Booked(l, q[1])
  <2>1. BookRun(l, q)[{1}] = Booked(BookRun(l, q)[{1} \ {1}], q[1])
    BY <1>1, <1>3, Picks
  <2>2. BookRun(l, q)[{1} \ {1}] = l
    BY <1>1, <1>3
  <2>3. QED
    BY <2>1, <2>2
<1>4. ASSUME DOMAIN q = {1, 2}
      PROVE  BookRun(l, q)[{1, 2}] = Booked(Booked(l, q[1]), q[2])
  <2>1. BookRun(l, q)[{1, 2}] = Booked(BookRun(l, q)[{1, 2} \ {2}], q[2])
    BY <1>1, <1>4, Picks
  <2>2. {1, 2} \ {2} = {1}
    OBVIOUS
  <2>3. QED
    BY <1>3, <1>4, <2>1, <2>2
<1>5. QED
  BY <1>2, <1>3, <1>4, BookRunIs

Added(l, q) == FoldLeft(AddQty, l, q)
SumRun(l, q) ==
  CHOOSE it : it = [s \in SUBSET DOMAIN q |->
    IF s = {} THEN l ELSE AddQty(it[s \ {Max(s)}], q[Max(s)])]

LEMMA SumRunIs ==
  ASSUME NEW l, NEW q
  PROVE  Added(l, q) = SumRun(l, q)[DOMAIN q]
BY DEF Added, FoldLeft, MapThenFoldSet, SumRun

LEMMA SumRunOfTwo ==
  ASSUME NEW l, NEW q, DOMAIN q \in {{}, {1}, {1, 2}}
  PROVE  \A s \in SUBSET DOMAIN q : SumRun(l, q)[s] =
           IF s = {} THEN l ELSE AddQty(SumRun(l, q)[s \ {Max(s)}], q[Max(s)])
<1> DEFINE one == AddQty(l, q[1])
           f == [s \in SUBSET DOMAIN q |->
                  IF s = {} THEN l ELSE IF s = {1} THEN one
                  ELSE IF s = {2} THEN AddQty(l, q[2]) ELSE AddQty(one, q[2])]
           P(it) == it = [s \in SUBSET DOMAIN q |->
                       IF s = {} THEN l ELSE AddQty(it[s \ {Max(s)}], q[Max(s)])]
<1>1. ASSUME NEW s \in SUBSET DOMAIN q
      PROVE  f[s] = IF s = {} THEN l ELSE AddQty(f[s \ {Max(s)}], q[Max(s)])
  <2>1. s \in {{}, {1}, {2}, {1, 2}}
    <3>1. s \subseteq {1, 2}
      OBVIOUS
    <3>2. QED
      BY <3>1
  <2>2. CASE s = {}
    BY <2>2
  <2>3. CASE s = {1}
    <3>1. Max(s) = 1 /\ s \ {1} = {} /\ f[s] = one /\ f[{}] = l
      BY <2>3, Picks
    <3>2. QED
      BY <2>3, <3>1
  <2>4. CASE s = {2}
    <3>1. Max(s) = 2 /\ s \ {2} = {} /\ f[s] = AddQty(l, q[2]) /\ f[{}] = l
      BY <2>4, Picks
    <3>2. QED
      BY <2>4, <3>1
  <2>5. CASE s = {1, 2}
    <3>1. Max(s) = 2 /\ s \ {2} = {1} /\ f[s] = AddQty(one, q[2]) /\ f[{1}] = one
      BY <2>5, Picks
    <3>2. QED
      BY <2>5, <3>1
  <2>6. QED
    BY <2>1, <2>2, <2>3, <2>4, <2>5
<1>2. P(f)
  <2> HIDE DEF one
  <2>1. f = [s \in SUBSET DOMAIN q |-> f[s]]
    OBVIOUS
  <2> HIDE DEF f
  <2>2. QED
    BY <1>1, <2>1
<1>3. SumRun(l, q) = CHOOSE it : P(it)
  BY DEF SumRun
<1> HIDE DEF f
<1>4. P(CHOOSE it : P(it))
  <2> HIDE DEF P
  <2>1. QED
    BY <1>2
<1>5. P(SumRun(l, q))
  <2> HIDE DEF P
  <2>1. QED
    BY <1>3, <1>4
<1> DEFINE r == SumRun(l, q)
<1>6. P(r)
  BY <1>5
<1> HIDE DEF r
<1>7. \A s \in SUBSET DOMAIN q : r[s] =
           IF s = {} THEN l ELSE AddQty(r[s \ {Max(s)}], q[Max(s)])
  BY <1>6
<1>8. QED
  BY <1>7 DEF r

LEMMA AddedIs ==
  ASSUME NEW l, NEW q
  PROVE  /\ DOMAIN q = {} => Added(l, q) = l
         /\ DOMAIN q = {1} => Added(l, q) = AddQty(l, q[1])
         /\ DOMAIN q = {1, 2} => Added(l, q) = AddQty(AddQty(l, q[1]), q[2])
<1>1. ASSUME DOMAIN q \in {{}, {1}, {1, 2}}, NEW s \in SUBSET DOMAIN q
      PROVE  SumRun(l, q)[s] =
           IF s = {} THEN l ELSE AddQty(SumRun(l, q)[s \ {Max(s)}], q[Max(s)])
  BY <1>1, SumRunOfTwo
<1>2. DOMAIN q = {} => Added(l, q) = l
  BY <1>1, SumRunIs
<1>3. ASSUME DOMAIN q \in {{1}, {1, 2}}
      PROVE  SumRun(l, q)[{1}] = AddQty(l, q[1])
  <2>1. SumRun(l, q)[{1}] = AddQty(SumRun(l, q)[{1} \ {1}], q[1])
    BY <1>1, <1>3, Picks
  <2>2. SumRun(l, q)[{1} \ {1}] = l
    BY <1>1, <1>3
  <2>3. QED
    BY <2>1, <2>2
<1>4. ASSUME DOMAIN q = {1, 2}
      PROVE  SumRun(l, q)[{1, 2}] = AddQty(AddQty(l, q[1]), q[2])
  <2>1. SumRun(l, q)[{1, 2}] = AddQty(SumRun(l, q)[{1, 2} \ {2}], q[2])
    BY <1>1, <1>4, Picks
  <2>2. {1, 2} \ {2} = {1}
    OBVIOUS
  <2>3. QED
    BY <1>3, <1>4, <2>1, <2>2
<1>5. QED
  BY <1>2, <1>3, <1>4, SumRunIs

LEMMA ExecutedIs ==
  ASSUME NEW q
  PROVE  /\ DOMAIN q = {} => Executed(q) = 0
         /\ DOMAIN q = {1} => Executed(q) = 0 + q[1].qty
         /\ DOMAIN q = {1, 2} => Executed(q) = 0 + q[1].qty + q[2].qty
BY AddedIs DEF Executed, Added, AddQty

-----------------------------------------------------------------------------
(***************************************************************************)
(* A walk that is over is fair.                                            *)
(***************************************************************************)
LEMMA EventFields ==
  /\ \A p : /\ HalfAt(p).kind = "partial_tp" /\ HalfAt(p).price = p
            /\ HalfAt(p).qty = SwingSize \div 2
  /\ \A k, p, q : StopAt(k, p, q).kind = k /\ StopAt(k, p, q).price = p /\ StopAt(k, p, q).qty = q
BY DEF HalfAt, Taken, StopAt

LEMMA OneIs ==
  ASSUME NEW e
  PROVE  Len(<<e>>) = 1 /\ <<e>>[1] = e /\ DOMAIN <<e>> = {1}
OBVIOUS

LEMMA TwoIs ==
  ASSUME NEW h, NEW e
  PROVE  /\ Len(<<h, e>>) = 2 /\ <<h, e>>[1] = h /\ <<h, e>>[2] = e
         /\ DOMAIN <<h, e>> = {1, 2}
OBVIOUS

\* What may be said of an event that executes for a plan s in a candle c.
EventFair(s, c, last, left, i, e) ==
  /\ c.low <= e.price /\ e.price <= c.high
  /\ e.kind = "partial_tp" => i = 1 /\ ~s.tpFilled
  /\ e.kind # "partial_tp" => i = last /\ left = 0
  /\ e.kind = "trailing_stop" => AtLeast(s, e.price, s.entry) \/ e.price = c.open

LEMMA FairIs ==
  ASSUME NEW s, NEW c, NEW out
  PROVE  Fair(s, c, out) <=>
           /\ \A i \in 1..Len(out.events) :
                EventFair(s, c, Len(out.events), out.plan.left, i, out.events[i])
           /\ s.left = out.plan.left + Executed(out.events)
           /\ StopHit(s, Worst(s, c)) => out.plan.left = 0
           /\ out.plan.left > 0 => AtLeast(s, out.plan.stop, s.stop) /\ ~StopHit(out.plan, c.close)
BY DEF Fair, EventFair

LEMMA HalfIsFair ==
  ASSUME NEW s, ~s.tpFilled, NEW c \in Candles, NEW p \in c.low..c.high, NEW last, NEW left
  PROVE  EventFair(s, c, last, left, 1, HalfAt(p))
<1>1. c.low <= p /\ p <= c.high
  BY CandleIs DEF Positive
<1>2. QED
  BY <1>1, EventFields DEF EventFair

LEMMA StopIsFair ==
  ASSUME NEW s, NEW c \in Candles, NEW last, NEW e, NEW qty,
         Stopped(s, c.open, c.low, c.high, qty, e)
  PROVE  EventFair(s, c, last, 0, last, e) /\ e.qty = qty
<1>1. PICK kind \in {"stop_loss", "trailing_stop"}, p \in c.low..c.high :
        /\ e = StopAt(kind, p, qty)
        /\ kind = "trailing_stop" => AtLeast(s, p, s.entry) \/ p = c.open
  BY DEF Stopped
<1>2. c.low <= p /\ p <= c.high
  BY CandleIs DEF Positive
<1>3. e.kind = kind /\ e.price = p /\ e.qty = qty
  BY <1>1, EventFields
<1>4. QED
  BY <1>1, <1>2, <1>3 DEF EventFair

LEMMA WalkIsFair ==
  ASSUME NEW s, PlanFits(s), NEW c \in Candles, NEW r,
         Walks(s, c.open, c.low, c.high, r), r.at = c.close,
         r.plan.left > 0 => ~StopHit(s, Worst(s, c)),
         NEW out, out.plan = r.plan, out.events = r.events
  PROVE  Fair(s, c, out)
<1>1. r.plan.left \in Nat
  BY PlanFields DEF Walks, WalksOpen, WalksClosed, Later
<1>2. StopHit(s, Worst(s, c)) => out.plan.left = 0
  BY <1>1
<1>3. CASE WalksOpen(s, c.low, c.high, r)
  <2>1. /\ AtLeast(s, out.plan.stop, s.stop) /\ ~StopHit(out.plan, c.close)
        /\ PlanFits(out.plan)
    BY <1>3 DEF WalksOpen, Later
  <2>2. CASE r.plan.tpFilled = s.tpFilled /\ r.events = <<>>
    <3>1. s.left = out.plan.left /\ s.left \in Nat
      BY <2>1, <2>2, PlanFields DEF PlanFits
    <3>2. Executed(out.events) = 0 /\ Len(out.events) = 0
      BY <2>2, ExecutedIs
    <3>3. QED
      BY <1>2, <2>1, <3>1, <3>2, FairIs
  <2>3. ASSUME ~s.tpFilled, r.plan.tpFilled, NEW p \in c.low..c.high, r.events = <<HalfAt(p)>>
        PROVE  Fair(s, c, out)
    <3> DEFINE h == HalfAt(p)
    <3>1. s.left = SwingSize /\ out.plan.left = SwingSize \div 2
      BY <2>1, <2>3 DEF PlanFits
    <3>2. h.qty = SwingSize \div 2 /\ EventFair(s, c, 1, out.plan.left, 1, h)
      BY <2>3, HalfIsFair, EventFields
    <3> HIDE DEF h
    <3>3. out.events = <<h>>
      BY <2>3 DEF h
    <3>4. Len(out.events) = 1 /\ out.events[1] = h /\ DOMAIN out.events = {1}
      BY <3>3, OneIs
    <3>5. Executed(out.events) = 0 + h.qty
      BY <3>4, ExecutedIs
    <3>6. s.left = out.plan.left + Executed(out.events)
      BY <3>1, <3>2, <3>5, SizeHalves
    <3>7. \A i \in 1..Len(out.events) :
            EventFair(s, c, Len(out.events), out.plan.left, i, out.events[i])
      BY <3>2, <3>4
    <3>8. QED
      BY <1>2, <2>1, <3>6, <3>7, FairIs
  <2>4. QED
    BY <1>3, <2>2, <2>3 DEF WalksOpen
<1>4. CASE WalksClosed(s, c.open, c.low, c.high, r)
  <2>1. out.plan.left = 0
    BY <1>4 DEF WalksClosed
  <2>2. ASSUME NEW e, Stopped(s, c.open, c.low, c.high, s.left, e), r.events = <<e>>
        PROVE  Fair(s, c, out)
    <3>1. e.qty = s.left /\ EventFair(s, c, 1, 0, 1, e)
      BY <2>2, StopIsFair
    <3>2. Len(out.events) = 1 /\ out.events[1] = e /\ DOMAIN out.events = {1}
      BY <2>2, OneIs
    <3>3. Executed(out.events) = 0 + e.qty
      BY <3>2, ExecutedIs
    <3>4. s.left = out.plan.left + Executed(out.events)
      BY <2>1, <3>1, <3>3, PlanFields
    <3>5. QED
      BY <1>2, <2>1, <3>1, <3>2, <3>4, FairIs
  <2>3. ASSUME ~s.tpFilled, NEW p \in c.low..c.high, NEW e,
               Stopped(s, c.open, c.low, c.high, SwingSize \div 2, e),
               r.events = <<HalfAt(p), e>>
        PROVE  Fair(s, c, out)
    <3> DEFINE h == HalfAt(p)
    <3>1. s.left = SwingSize
      BY <2>3 DEF PlanFits
    <3>2. /\ h.qty = SwingSize \div 2 /\ EventFair(s, c, 2, 0, 1, h)
          /\ e.qty = SwingSize \div 2 /\ EventFair(s, c, 2, 0, 2, e)
      <4>1. h.qty = SwingSize \div 2
        BY EventFields
      <4>2. EventFair(s, c, 2, 0, 1, h)
        BY <2>3, HalfIsFair
      <4>3. e.qty = SwingSize \div 2 /\ EventFair(s, c, 2, 0, 2, e)
        BY <2>3, StopIsFair
      <4>4. QED
        BY <4>1, <4>2, <4>3
    <3> HIDE DEF h
    <3>3. out.events = <<h, e>>
      BY <2>3 DEF h
    <3>4. /\ Len(out.events) = 2 /\ out.events[1] = h /\ out.events[2] = e
          /\ DOMAIN out.events = {1, 2}
      BY <3>3, TwoIs
    <3>5. Executed(out.events) = 0 + h.qty + e.qty
      BY <3>4, ExecutedIs
    <3>6. s.left = out.plan.left + Executed(out.events)
      BY <2>1, <3>1, <3>2, <3>5, SizeHalves
    <3>7. \A i \in 1..2 : EventFair(s, c, 2, 0, i, out.events[i])
      BY <3>2, <3>4
    <3>8. \A i \in 1..Len(out.events) :
            EventFair(s, c, Len(out.events), out.plan.left, i, out.events[i])
      BY <2>1, <3>4, <3>7
    <3>9. QED
      BY <1>2, <2>1, <3>6, <3>8, FairIs
  <2>4. QED
    BY <1>4, <2>2, <2>3 DEF WalksClosed
<1>5. QED
  BY <1>3, <1>4 DEF Walks

-----------------------------------------------------------------------------
(***************************************************************************)
(* The shortcut: a candle that reaches neither end of the plan, or that    *)
(* can only draw a stop that trails.                                       *)
(***************************************************************************)
Untouched(s, p) == [plan |-> s, events |-> <<>>, at |-> p]

\* Every price of a candle lies between its worst and its best.
LEMMA BestIsBest ==
  ASSUME NEW s, s.side \in Sides, NEW c \in Candles, NEW p \in c.low..c.high
  PROVE  /\ p \in Positive /\ p \in Int /\ Best(s, c) \in Positive /\ Worst(s, c) \in Positive
         /\ Best(s, c) \in c.low..c.high /\ Worst(s, c) \in c.low..c.high
         /\ IF s.side = "long" THEN Worst(s, c) <= p /\ p <= Best(s, c)
            ELSE Worst(s, c) >= p /\ p >= Best(s, c)
<1>1. /\ c.low \in Positive /\ c.high \in Positive /\ c.low <= c.high
      /\ c.low \in c.low..c.high /\ c.high \in c.low..c.high
  BY CandleIs DEF Positive
<1>2. p \in Positive /\ p \in Int /\ c.low <= p /\ p <= c.high
  BY <1>1 DEF Positive
<1>3. QED
  BY <1>1, <1>2 DEF Best, Worst

LEMMA QuietStays ==
  ASSUME NEW s, PlanFits(s), NEW c \in Candles, ~StopHit(s, Worst(s, c)), Quiet(s, c),
         NEW p \in c.low..c.high
  PROVE  /\ Opening(s, p) = Untouched(s, p)
         /\ \A q : Segment(Untouched(s, q), p) = Untouched(s, p)
<1>1. s \in Plans /\ s.side \in Sides /\ s.stop \in Int /\ s.left # 0 /\ p \in Int
      /\ HalfTarget(s) \in Int /\ Activation(s) \in Int
      /\ Best(s, c) \in Int /\ Worst(s, c) \in Int
  BY PlanFields, TargetsAre, BestIsBest DEF PlanFits, Positive
<1>2. ~StopHit(s, p)
  BY <1>1, BestIsBest, AtLeastIs DEF StopHit
<1>3. ~s.trailing /\ ~AtLeast(s, p, NextThreshold(s))
  <2>1. ~s.trailing /\ ~AtLeast(s, Best(s, c), NextThreshold(s))
    BY DEF Quiet
  <2>2. NextThreshold(s) \in Int
    BY <1>1 DEF NextThreshold
  <2>3. QED
    BY <1>1, <2>1, <2>2, BestIsBest, AtLeastIs
<1>4. s.tpFilled \/ ~AtLeast(s, p, HalfTarget(s))
  BY <1>3 DEF NextThreshold
<1>5. ~AtLeast(s, p, Activation(s))
  <2>1. CASE s.tpFilled
    BY <1>3, <2>1 DEF NextThreshold
  <2>2. CASE ~s.tpFilled
    BY <1>1, <1>4, <2>2, TargetsAre, AtLeastIs
  <2>3. QED
    BY <2>1, <2>2
<1>6. Trail(s, p) = s
  BY <1>3, <1>5 DEF Trail
<1>7. ASSUME NEW q
      PROVE  Favorable(Untouched(s, q), p) = Untouched(s, q)
  <2>1. Favorable(Untouched(s, q), p) = [Untouched(s, q) EXCEPT !.plan = Trail(s, p)]
    BY <1>4 DEF Favorable, Untouched
  <2>2. QED
    BY <1>6, <2>1 DEF Untouched
<1>8. Opening(s, p) = Untouched(s, p)
  <2> DEFINE gone == Favorable(Untouched(s, p), p)
  <2>1. Opening(s, p) = [gone EXCEPT !.events = [i \in DOMAIN gone.events |->
                                                  [gone.events[i] EXCEPT !.price = p]]]
    BY <1>2 DEF Opening, Untouched
  <2>2. gone = Untouched(s, p)
    BY <1>7
  <2> HIDE DEF gone
  <2>3. gone.events = <<>>
    BY <2>2 DEF Untouched
  <2>4. [i \in DOMAIN gone.events |-> [gone.events[i] EXCEPT !.price = p]] = <<>>
    BY <2>3
  <2>5. Opening(s, p) = [gone EXCEPT !.events = <<>>]
    BY <2>1, <2>4
  <2>6. QED
    BY <2>2, <2>5 DEF Untouched
<1>9. ASSUME NEW q
      PROVE  Segment(Untouched(s, q), p) = Untouched(s, p)
  <2> DEFINE r == Untouched(s, q)
             there == IF r.plan.left = 0 THEN r
                      ELSE IF AtLeast(r.plan, p, r.at) THEN Favorable(r, p)
                      ELSE IF StopHit(r.plan, p) THEN Execute(r, StopKind(r.plan), r.plan.stop)
                      ELSE r
  <2>1. r.plan = s
    BY DEF Untouched
  <2>2. Segment(r, p) = [there EXCEPT !.at = p]
    BY DEF Segment
  <2>3. Favorable(r, p) = r
    BY <1>7
  <2>4. there = r
    BY <1>1, <1>2, <2>1, <2>3
  <2> HIDE DEF there
  <2>5. QED
    BY <2>2, <2>4 DEF Untouched
<1>10. QED
  BY <1>8, <1>9

LEMMA QuietPaths ==
  ASSUME NEW s, PlanFits(s), NEW c \in Candles, ~StopHit(s, Worst(s, c)), Quiet(s, c)
  PROVE  HighFirst(s, c) = Untouched(s, c.close) /\ LowFirst(s, c) = Untouched(s, c.close)
BY QuietStays, CandleIs DEF HighFirst, LowFirst, Path

\* The plan s when the best price so far is m.
DrawnTo(s, m) == [s EXCEPT !.stop = TrailStop(s, m)]

LEMMA DrawnIs ==
  ASSUME NEW s \in Plans, s.trailing, NEW m \in Positive, NEW p \in Positive
  PROVE  /\ DrawnTo(s, m) \in Plans /\ DrawnTo(s, m).trailing
         /\ DrawnTo(s, m).side = s.side /\ DrawnTo(s, m).entry = s.entry
         /\ DrawnTo(s, m).risk = s.risk /\ DrawnTo(s, m).left = s.left
         /\ DrawnTo(s, m).tpFilled = s.tpFilled /\ DrawnTo(s, m).stop = TrailStop(s, m)
         /\ Trail(s, p) = DrawnTo(s, p)
         /\ AtLeast(s, m, p) => Trail(DrawnTo(s, m), p) = DrawnTo(s, m)
         /\ AtLeast(s, p, m) => Trail(DrawnTo(s, m), p) = DrawnTo(s, p)
<1> DEFINE t == TrailStop(s, m)
           n == [s EXCEPT !.stop = t]
           u == TrailStop(n, p)
           v == TrailStop(s, p)
<1>1. s.side \in Sides /\ s.stop \in Int /\ s.entry \in Int /\ s.risk \in Int
      /\ m \in Int /\ p \in Int
  BY DEF Plans, Positive
<1>2. /\ t \in Positive
      /\ IF s.side = "long"
         THEN /\ t >= s.stop /\ t >= s.entry /\ t >= m - 2 * s.risk
              /\ t = s.stop \/ t = s.entry \/ t = m - 2 * s.risk
         ELSE /\ t <= s.stop /\ t <= s.entry /\ t <= m + 2 * s.risk
              /\ t = s.stop \/ t = s.entry \/ t = m + 2 * s.risk
  BY TrailStopIs
<1>3. /\ v \in Positive
      /\ IF s.side = "long"
         THEN /\ v >= s.stop /\ v >= s.entry /\ v >= p - 2 * s.risk
              /\ v = s.stop \/ v = s.entry \/ v = p - 2 * s.risk
         ELSE /\ v <= s.stop /\ v <= s.entry /\ v <= p + 2 * s.risk
              /\ v = s.stop \/ v = s.entry \/ v = p + 2 * s.risk
  BY TrailStopIs
<1> HIDE DEF t, v
<1>4. /\ n \in Plans /\ n.trailing = s.trailing /\ n.side = s.side /\ n.entry = s.entry
      /\ n.risk = s.risk /\ n.left = s.left /\ n.tpFilled = s.tpFilled /\ n.stop = t
  BY <1>2 DEF Plans
<1>5. DrawnTo(s, m) = n /\ DrawnTo(s, p) = [s EXCEPT !.stop = v]
  BY DEF DrawnTo, t, v
<1>6. s.trailing = TRUE
  BY DEF Plans
<1>7. Trail(s, p) = [s EXCEPT !.stop = v]
  <2>1. Trail(s, p) = [s EXCEPT !.trailing = TRUE, !.stop = v]
    BY <1>6 DEF Trail, v
  <2>2. QED
    BY <1>6, <2>1 DEF Plans
<1>8. /\ u \in Positive
      /\ IF s.side = "long"
         THEN /\ u >= t /\ u >= s.entry /\ u >= p - 2 * s.risk
              /\ u = t \/ u = s.entry \/ u = p - 2 * s.risk
         ELSE /\ u <= t /\ u <= s.entry /\ u <= p + 2 * s.risk
              /\ u = t \/ u = s.entry \/ u = p + 2 * s.risk
  <2> HIDE DEF n
  <2>1. QED
    BY <1>4, TrailStopIs
<1> HIDE DEF u
<1>9. Trail(n, p) = [s EXCEPT !.stop = u]
  <2>1. Trail(n, p) = [n EXCEPT !.trailing = TRUE, !.stop = u]
    <3> HIDE DEF n
    <3>1. QED
      BY <1>4, <1>6 DEF Trail, u
  <2>2. QED
    BY <1>6, <2>1 DEF Plans
<1>10. t \in Int /\ u \in Int /\ v \in Int
  BY <1>2, <1>3, <1>8 DEF Positive
<1>11. AtLeast(s, m, p) => u = t
  BY <1>1, <1>2, <1>8, <1>10, AtLeastIs
<1>12. AtLeast(s, p, m) => u = v
  BY <1>1, <1>2, <1>3, <1>8, <1>10, AtLeastIs
<1>13. TrailStop(s, m) = t
  BY DEF t
<1> HIDE DEF n
<1>14. AtLeast(s, m, p) => Trail(n, p) = n
  BY <1>9, <1>11 DEF n
<1>15. AtLeast(s, p, m) => Trail(n, p) = [s EXCEPT !.stop = v]
  BY <1>9, <1>12
<1>16. QED
  BY <1>4, <1>5, <1>6, <1>7, <1>13, <1>14, <1>15

\* A stop that trails is drawn along, and nothing executes, as long as even the
\* stop that the best price draws is not reached by the worst.
FollowedTo(s, c, m, r, p) ==
  /\ r = Untouched(DrawnTo(s, m), p)
  /\ m \in c.low..c.high /\ p \in c.low..c.high /\ AtLeast(s, m, p)

LEMMA NotReached ==
  ASSUME NEW s, PlanFits(s), NEW c \in Candles, Following(s, c),
         NEW m \in c.low..c.high, NEW p \in c.low..c.high
  PROVE  ~StopHit(DrawnTo(s, m), p)
<1> DEFINE t == TrailStop(s, m)
           b == TrailStop(s, Best(s, c))
<1>1. s \in Plans /\ s.side \in Sides /\ s.stop \in Int /\ s.entry \in Int /\ s.risk \in Int
      /\ s.trailing
  BY PlanFields DEF PlanFits, Following
<1>2. /\ m \in Positive /\ m \in Int /\ p \in Int /\ Best(s, c) \in Positive
      /\ Best(s, c) \in Int /\ Worst(s, c) \in Int
      /\ IF s.side = "long" THEN Worst(s, c) <= p /\ m <= Best(s, c)
         ELSE Worst(s, c) >= p /\ m >= Best(s, c)
  BY <1>1, BestIsBest DEF Positive
<1>3. /\ t \in Positive
      /\ IF s.side = "long"
         THEN t = s.stop \/ t = s.entry \/ t = m - 2 * s.risk
         ELSE t = s.stop \/ t = s.entry \/ t = m + 2 * s.risk
  BY <1>1, <1>2, TrailStopIs
<1>4. /\ b \in Positive
      /\ IF s.side = "long"
         THEN b >= s.stop /\ b >= s.entry /\ b >= Best(s, c) - 2 * s.risk
         ELSE b <= s.stop /\ b <= s.entry /\ b <= Best(s, c) + 2 * s.risk
  BY <1>1, <1>2, TrailStopIs
<1> HIDE DEF t, b
<1>5. t \in Int /\ b \in Int /\ IF s.side = "long" THEN t <= b ELSE t >= b
  BY <1>1, <1>2, <1>3, <1>4 DEF Positive
<1>6. /\ DrawnTo(s, m).stop = t /\ DrawnTo(s, m).side = s.side
      /\ DrawnTo(s, Best(s, c)).stop = b /\ DrawnTo(s, Best(s, c)).side = s.side
  BY <1>1, <1>2, DrawnIs DEF t, b
<1>7. ~StopHit(DrawnTo(s, Best(s, c)), Worst(s, c))
  BY DEF Following, Drawn, DrawnTo
<1>8. ~AtLeast(s, b, Worst(s, c))
  BY <1>6, <1>7 DEF StopHit, AtLeast
<1>9. ~AtLeast(s, t, p)
  BY <1>1, <1>2, <1>5, <1>8, AtLeastIs
<1>10. QED
  BY <1>6, <1>9 DEF StopHit, AtLeast

LEMMA FollowOpens ==
  ASSUME NEW s, PlanFits(s), NEW c \in Candles, ~StopHit(s, Worst(s, c)), Following(s, c),
         NEW p \in c.low..c.high
  PROVE  FollowedTo(s, c, p, Opening(s, p), p)
<1>1. /\ s \in Plans /\ s.trailing /\ s.tpFilled /\ s.side \in Sides /\ s.stop \in Int
      /\ p \in Positive /\ p \in Int /\ Worst(s, c) \in Int
      /\ IF s.side = "long" THEN Worst(s, c) <= p ELSE Worst(s, c) >= p
  BY PlanFields, BestIsBest DEF PlanFits, Following, Positive
<1>2. ~StopHit(s, p)
  BY <1>1, AtLeastIs DEF StopHit
<1> DEFINE gone == Favorable(Untouched(s, p), p)
<1>3. Opening(s, p) = [gone EXCEPT !.events = [i \in DOMAIN gone.events |->
                                                [gone.events[i] EXCEPT !.price = p]]]
  BY <1>2 DEF Opening, Untouched
<1>4. gone = Untouched(DrawnTo(s, p), p)
  <2>1. gone = [Untouched(s, p) EXCEPT !.plan = Trail(s, p)]
    BY <1>1 DEF Favorable, Untouched
  <2>2. Trail(s, p) = DrawnTo(s, p)
    BY <1>1, DrawnIs
  <2>3. QED
    BY <2>1, <2>2 DEF Untouched
<1> HIDE DEF gone
<1>5. gone.events = <<>>
  BY <1>4 DEF Untouched
<1>6. [i \in DOMAIN gone.events |-> [gone.events[i] EXCEPT !.price = p]] = <<>>
  BY <1>5
<1>7. Opening(s, p) = Untouched(DrawnTo(s, p), p)
  BY <1>3, <1>4, <1>6 DEF Untouched
<1>8. AtLeast(s, p, p)
  BY <1>1, AtLeastIs
<1>9. QED
  BY <1>7, <1>8 DEF FollowedTo

LEMMA FollowMoves ==
  ASSUME NEW s, PlanFits(s), NEW c \in Candles, Following(s, c),
         NEW m, NEW q, NEW r, FollowedTo(s, c, m, r, q), NEW p \in c.low..c.high
  PROVE  \E n : /\ FollowedTo(s, c, n, Segment(r, p), p)
                /\ AtLeast(s, n, m) /\ AtLeast(s, n, p)
<1>1. /\ s \in Plans /\ s.trailing /\ s.tpFilled /\ s.side \in Sides /\ s.left # 0
      /\ p \in Positive /\ p \in Int /\ m \in Positive /\ m \in Int /\ q \in Int
      /\ m \in c.low..c.high /\ q \in c.low..c.high /\ AtLeast(s, m, q)
      /\ r = Untouched(DrawnTo(s, m), q)
  BY PlanFields, BestIsBest DEF PlanFits, Following, Positive, FollowedTo
<1> DEFINE d == DrawnTo(s, m)
           there == IF d.left = 0 THEN r
                    ELSE IF AtLeast(d, p, q) THEN Favorable(r, p)
                    ELSE IF StopHit(d, p) THEN Execute(r, StopKind(d), d.stop)
                    ELSE r
<1>2. r.plan = d /\ r.at = q /\ r.events = <<>>
  BY <1>1 DEF Untouched
<1>3. Segment(r, p) = [there EXCEPT !.at = p]
  BY <1>2 DEF Segment
<1>4. /\ d.left # 0 /\ d.tpFilled /\ d.side = s.side
      /\ AtLeast(s, m, p) => Trail(d, p) = d
      /\ AtLeast(s, p, m) => Trail(d, p) = DrawnTo(s, p)
  BY <1>1, DrawnIs
<1>5. ~StopHit(d, p)
  BY <1>1, NotReached
<1> HIDE DEF d
<1>6. Favorable(r, p) = [r EXCEPT !.plan = Trail(d, p)]
  BY <1>2, <1>4 DEF Favorable
<1>7. AtLeast(d, p, q) = AtLeast(s, p, q)
  BY <1>4 DEF AtLeast
<1>8. AtLeast(s, p, p) /\ AtLeast(s, m, m) /\ (AtLeast(s, m, p) \/ AtLeast(s, p, m))
  BY <1>1, AtLeastIs
<1>9. CASE AtLeast(s, m, p)
  <2>1. there = r
    <3>1. [r EXCEPT !.plan = d] = r
      BY <1>1, <1>2 DEF Untouched
    <3>2. Favorable(r, p) = r
      BY <1>4, <1>6, <1>9, <3>1
    <3>3. QED
      BY <1>4, <1>5, <3>2
  <2> HIDE DEF there
  <2>2. Segment(r, p) = Untouched(d, p)
    BY <1>1, <1>3, <2>1 DEF Untouched, d
  <2>3. FollowedTo(s, c, m, Segment(r, p), p)
    BY <1>1, <1>9, <2>2 DEF FollowedTo, d
  <2>4. QED
    BY <1>8, <1>9, <2>3
<1>10. CASE AtLeast(s, p, m)
  <2>1. AtLeast(s, p, q)
    BY <1>1, <1>10, AtLeastIs
  <2>2. there = [r EXCEPT !.plan = DrawnTo(s, p)]
    BY <1>4, <1>6, <1>7, <1>10, <2>1
  <2> HIDE DEF there
  <2>3. Segment(r, p) = Untouched(DrawnTo(s, p), p)
    BY <1>1, <1>3, <2>2 DEF Untouched
  <2>4. FollowedTo(s, c, p, Segment(r, p), p)
    BY <1>8, <2>3 DEF FollowedTo
  <2>5. QED
    BY <1>8, <1>10, <2>4
<1>11. QED
  BY <1>8, <1>9, <1>10

\* A path that passes the best price ends with the stop it draws.
LEMMA FollowPath ==
  ASSUME NEW s, PlanFits(s), NEW c \in Candles, ~StopHit(s, Worst(s, c)), Following(s, c),
         NEW x \in c.low..c.high, NEW y \in c.low..c.high, Best(s, c) \in {x, y}
  PROVE  Path(s, <<c.open, x, y, c.close>>) = Untouched(Drawn(s, c), c.close)
<1> DEFINE a == Opening(s, c.open)
           b == Segment(a, x)
           d == Segment(b, y)
           e == Segment(d, c.close)
<1>1. Path(s, <<c.open, x, y, c.close>>) = e
  BY DEF Path
<1>2. c.open \in c.low..c.high /\ c.close \in c.low..c.high
  BY CandleIs
<1>3. FollowedTo(s, c, c.open, a, c.open)
  BY <1>2, FollowOpens
<1> HIDE DEF a
<1>4. PICK n : FollowedTo(s, c, n, b, x) /\ AtLeast(s, n, x)
  BY <1>3, FollowMoves
<1> HIDE DEF b
<1>5. PICK k : FollowedTo(s, c, k, d, y) /\ AtLeast(s, k, n) /\ AtLeast(s, k, y)
  BY <1>4, FollowMoves
<1> HIDE DEF d
<1>6. PICK m : FollowedTo(s, c, m, e, c.close) /\ AtLeast(s, m, k)
  BY <1>2, <1>5, FollowMoves
<1> HIDE DEF e
<1>7. /\ s.side \in Sides /\ x \in Int /\ y \in Int /\ n \in Int /\ k \in Int /\ m \in Int
      /\ n \in c.low..c.high /\ k \in c.low..c.high /\ m \in c.low..c.high
  <2>1. n \in c.low..c.high /\ k \in c.low..c.high /\ m \in c.low..c.high
    BY <1>4, <1>5, <1>6 DEF FollowedTo
  <2>2. QED
    BY <2>1, PlanFields
<1>8. AtLeast(s, m, x) /\ AtLeast(s, m, y)
  BY <1>4, <1>5, <1>6, <1>7, AtLeastIs
<1>9. m = Best(s, c)
  <2>1. IF s.side = "long" THEN m <= Best(s, c) ELSE m >= Best(s, c)
    BY <1>7, BestIsBest
  <2>2. IF s.side = "long" THEN m >= Best(s, c) ELSE m <= Best(s, c)
    BY <1>7, <1>8, AtLeastIs
  <2>3. Best(s, c) \in Int
    BY <1>7
  <2>4. QED
    BY <1>7, <2>1, <2>2, <2>3
<1>10. e = Untouched(DrawnTo(s, Best(s, c)), c.close)
  BY <1>6, <1>9 DEF FollowedTo
<1>11. QED
  BY <1>1, <1>10 DEF DrawnTo, Drawn

LEMMA FollowPaths ==
  ASSUME NEW s, PlanFits(s), NEW c \in Candles, ~StopHit(s, Worst(s, c)), Following(s, c)
  PROVE  /\ HighFirst(s, c) = Untouched(Drawn(s, c), c.close)
         /\ LowFirst(s, c) = Untouched(Drawn(s, c), c.close)
BY FollowPath, CandleIs DEF HighFirst, LowFirst, Best

\* What replay_candle tells of a candle without walking it is what both paths give.
LEMMA ReplayIs ==
  ASSUME NEW s, PlanFits(s), NEW c \in Candles
  PROVE  Replay(s, c) = BothPaths(s, c)
<1> DEFINE untouched == ~StopHit(s, Worst(s, c))
           kept == [plan |-> s, events |-> <<>>]
           h == HighFirst(s, c)
           l == LowFirst(s, c)
<1>1. BothPaths(s, c) = Outcome(IF Poorer(l, h, c.close) THEN l ELSE h, h # l)
  BY DEF BothPaths, HighFirst, LowFirst
<1>2. ASSUME NEW n, h = Untouched(n, c.close), l = Untouched(n, c.close)
      PROVE  BothPaths(s, c) = [plan |-> n, events |-> <<>>, ambiguous |-> FALSE]
  <2> HIDE DEF h, l
  <2>1. (h # l) = FALSE
    BY <1>2
  <2>2. (IF Poorer(l, h, c.close) THEN l ELSE h) = Untouched(n, c.close)
    BY <1>2
  <2>3. Outcome(Untouched(n, c.close), FALSE)
          = [plan |-> n, events |-> <<>>, ambiguous |-> FALSE]
    <3>1. Untouched(n, c.close).plan = n /\ Untouched(n, c.close).events = <<>>
      BY DEF Untouched
    <3> QED
      BY <3>1 DEF Outcome
  <2>4. BothPaths(s, c) = Outcome(Untouched(n, c.close), FALSE)
    BY <1>1, <2>1, <2>2
  <2>5. QED
    BY <2>3, <2>4
<1> HIDE DEF h, l
<1>3. CASE untouched /\ Quiet(s, c)
  <2>1. Replay(s, c) = Outcome(kept, FALSE)
    BY <1>3 DEF Replay
  <2>2. Outcome(kept, FALSE) = [plan |-> s, events |-> <<>>, ambiguous |-> FALSE]
    BY DEF Outcome
  <2>3. QED
    BY <1>2, <1>3, <2>1, <2>2, QuietPaths DEF h, l
<1>4. CASE untouched /\ ~Quiet(s, c) /\ Following(s, c)
  <2>1. Replay(s, c) = Outcome([kept EXCEPT !.plan = Drawn(s, c)], FALSE)
    BY <1>4 DEF Replay
  <2>2. Outcome([kept EXCEPT !.plan = Drawn(s, c)], FALSE)
          = [plan |-> Drawn(s, c), events |-> <<>>, ambiguous |-> FALSE]
    BY DEF Outcome
  <2>3. QED
    BY <1>2, <1>4, <2>1, <2>2, FollowPaths DEF h, l
<1>5. CASE ~untouched \/ (~Quiet(s, c) /\ ~Following(s, c))
  BY <1>5 DEF Replay
<1>6. QED
  BY <1>3, <1>4, <1>5

\* One of the paths is booked.
LEMMA ReplayWalks ==
  ASSUME NEW s, PlanFits(s), NEW c \in Candles
  PROVE  \E r \in {HighFirst(s, c), LowFirst(s, c)} :
           Replay(s, c).plan = r.plan /\ Replay(s, c).events = r.events
<1> DEFINE h == HighFirst(s, c)
           l == LowFirst(s, c)
<1>1. Replay(s, c) = Outcome(IF Poorer(l, h, c.close) THEN l ELSE h, h # l)
  BY ReplayIs DEF BothPaths, HighFirst, LowFirst
<1> HIDE DEF h, l
<1>2. Replay(s, c) = Outcome(h, h # l) \/ Replay(s, c) = Outcome(l, h # l)
  BY <1>1
<1>3. QED
  BY <1>2 DEF Outcome, h, l

LEMMA ReplayIsFair ==
  ASSUME NEW s, PlanFits(s), NEW c \in Candles
  PROVE  Fair(s, c, Replay(s, c))
<1>1. PICK r \in {HighFirst(s, c), LowFirst(s, c)} :
        Replay(s, c).plan = r.plan /\ Replay(s, c).events = r.events
  BY ReplayWalks
<1>2. QED
  BY <1>1, CandleWalks, WalkIsFair

-----------------------------------------------------------------------------
(***************************************************************************)
(* The ledger: flat, or the copy of a plan that is still open.             *)
(***************************************************************************)
Opened(plan, episode) ==
  [side |-> plan.side, left |-> plan.left, plan |-> plan, episode |-> episode]

LedgerFits(l) ==
  /\ l.episode \in Nat
  /\ \/ l = Flat(l.episode)
     \/ PlanFits(l.plan) /\ l = Opened(l.plan, l.episode)

\* An entry waits only while the bound of episodes leaves room for it.
QueueFits ==
  \/ queued = NoSignal
  \/ queued = [action |-> "close"]
  \/ /\ queued.action \in Sides /\ queued.extreme \in Extremes
     /\ swing.episode < MaxEpisodes

SwingInv ==
  /\ LedgerFits(swing) /\ swing.episode <= MaxEpisodes
  /\ QueueFits
  /\ minuteNo \in 0..Minutes

LEMMA FlatFields ==
  ASSUME NEW n
  PROVE  /\ Flat(n).side = "flat" /\ Flat(n).left = 0
         /\ Flat(n).plan = NoPlan /\ Flat(n).episode = n
BY DEF Flat

LEMMA OpenedFields ==
  ASSUME NEW s, PlanFits(s), NEW n
  PROVE  /\ Opened(s, n).side = s.side /\ Opened(s, n).left = s.left
         /\ Opened(s, n).plan = s /\ Opened(s, n).episode = n
         /\ Opened(s, n).side # "flat" /\ s # NoPlan
BY PlanFields DEF Opened, Sides, NoPlan

LEMMA FlatFits ==
  ASSUME NEW n \in Nat
  PROVE  LedgerFits(Flat(n))
<1> DEFINE l == Flat(n)
<1>1. l = Flat(n) /\ l.episode = n
  BY FlatFields
<1> HIDE DEF l
<1>2. l.episode \in Nat /\ l = Flat(l.episode)
  BY <1>1
<1>3. LedgerFits(l)
  BY <1>2 DEF LedgerFits
<1>4. QED
  BY <1>3 DEF l

LEMMA OpenedFits ==
  ASSUME NEW s, PlanFits(s), NEW n \in Nat
  PROVE  LedgerFits(Opened(s, n))
<1> DEFINE l == Opened(s, n)
<1>1. l = Opened(s, n) /\ l.episode = n /\ l.plan = s
  BY OpenedFields
<1> HIDE DEF l
<1>2. l.episode \in Nat /\ PlanFits(l.plan) /\ l = Opened(l.plan, l.episode)
  BY <1>1
<1>3. QED
  BY <1>2 DEF LedgerFits, l

\* create_plan draws a plan that fits.
LEMMA PlanOfFits ==
  ASSUME NEW side \in Sides, NEW price \in EntryPrices, NEW x \in Extremes,
         Plannable(side, price, x)
  PROVE  /\ PlanFits(PlanOf(side, price, x))
         /\ PlanOf(side, price, x).side = side /\ PlanOf(side, price, x).left = SwingSize
<1> DEFINE r == Risk(side, price, x)
           s == PlanOf(side, price, x)
<1>1. price \in Positive /\ x \in Positive
  BY SwingAssumption DEF Positive
<1>2. Swing(side, price, x) \in Int /\ Swing(side, price, x) > 0
  BY <1>1 DEF Plannable, Swing, Sign, Positive
<1>3. r \in Positive
  BY <1>2 DEF Risk, Positive
<1> HIDE DEF r
<1>4. Ahead(side, price, -r) \in Positive
  <2>1. Ahead(side, price, -r) > 0
    BY DEF Plannable, r
  <2>2. QED
    BY <1>1, <1>3, <2>1, AheadIs DEF Positive
<1>5. s = [side |-> side, entry |-> price, risk |-> r, stop |-> Ahead(side, price, -r),
           left |-> SwingSize, tpFilled |-> FALSE, trailing |-> FALSE]
  BY DEF PlanOf, r
<1> HIDE DEF s
<1>6. s \in Plans
  BY <1>1, <1>3, <1>4, <1>5, SizeHalves DEF Plans
<1>7. /\ s.side = side /\ s.entry = price /\ s.risk = r /\ s.left = SwingSize
      /\ s.stop = Ahead(side, price, -r) /\ s.tpFilled = FALSE /\ s.trailing = FALSE
  BY <1>5
<1>8. PlanFits(s)
  BY <1>6, <1>7 DEF PlanFits
<1>9. QED
  BY <1>7, <1>8 DEF s

\* What waited for the open leaves a ledger that fits, with one episode more at most.
LEMMA AtOpenFits ==
  ASSUME NEW l, LedgerFits(l), NEW signal, NEW price, NEW refused,
         \/ signal \in {NoSignal, [action |-> "close"]}
         \/ signal.action \in Sides /\ signal.extreme \in Extremes /\ price \in EntryPrices
  PROVE  /\ LedgerFits(AtOpen(l, signal, price, refused))
         /\ \/ AtOpen(l, signal, price, refused).episode = l.episode
            \/ /\ signal.action \in Sides
               /\ AtOpen(l, signal, price, refused).episode = l.episode + 1
<1> DEFINE after == AtOpen(l, signal, price, refused)
<1>1. l.episode \in Nat /\ LedgerFits(Flat(l.episode)) /\ Flat(l.episode).episode = l.episode
  <2>1. l.episode \in Nat
    BY DEF LedgerFits
  <2>2. QED
    BY <2>1, FlatFits, FlatFields
<1>2. CASE signal = NoSignal
  <2>1. after = l
    BY <1>2 DEF AtOpen, NoSignal
  <2>2. QED
    BY <2>1
<1>3. CASE signal = [action |-> "close"]
  <2>1. after = Flat(l.episode)
    BY <1>3 DEF AtOpen, NoSignal
  <2>2. QED
    BY <1>1, <2>1
<1>4. CASE signal.action \in Sides /\ signal.extreme \in Extremes /\ price \in EntryPrices
  <2>1. signal # NoSignal /\ signal.action # "close"
    BY <1>4 DEF NoSignal, Sides
  <2>2. after = Market(l, signal, price, refused)
    BY <2>1 DEF AtOpen
  <2>3. CASE l.side = signal.action
    BY <2>2, <2>3 DEF Market
  <2>4. CASE l.side # signal.action
             /\ (refused \/ ~Plannable(signal.action, price, signal.extreme))
    BY <1>1, <2>2, <2>4 DEF Market
  <2>5. CASE l.side # signal.action
             /\ ~(refused \/ ~Plannable(signal.action, price, signal.extreme))
    <3> DEFINE s == PlanOf(signal.action, price, signal.extreme)
    <3>1. after = [side |-> signal.action, left |-> SwingSize, episode |-> l.episode + 1,
                   plan |-> s]
      BY <2>2, <2>5 DEF Market
    <3>2. PlanFits(s) /\ s.side = signal.action /\ s.left = SwingSize
      BY <1>4, <2>5, PlanOfFits
    <3> HIDE DEF s
    <3>3. after = Opened(s, l.episode + 1)
      BY <3>1, <3>2 DEF Opened
    <3>4. l.episode + 1 \in Nat
      BY <1>1
    <3>5. QED
      BY <1>4, <3>2, <3>3, <3>4, OpenedFits, OpenedFields
  <2>6. QED
    BY <2>3, <2>4, <2>5
<1>5. QED
  BY <1>2, <1>3, <1>4

\* The half is booked from the ledger and from the copy of its plan alike.
LEMMA HalfIsBooked ==
  ASSUME NEW s, PlanFits(s), ~s.tpFilled, NEW p, NEW n
  PROVE  \E t : /\ Booked(Opened(s, n), HalfAt(p)) =
                     [side |-> s.side, left |-> SwingSize \div 2, plan |-> t, episode |-> n]
                /\ t # NoPlan
<1> DEFINE e == HalfAt(p)
           half == SwingSize \div 2
           l == Opened(s, n)
           t == Apply(s, e)
           k == [l EXCEPT !.plan = t]
<1>1. s.left = SwingSize
  BY DEF PlanFits
<1>2. e.kind = "partial_tp" /\ e.qty = half
  BY EventFields
<1>3. t = [s EXCEPT !.left = s.left - e.qty, !.tpFilled = TRUE]
  BY <1>2 DEF Apply
<1>4. t.side = s.side
  BY <1>3 DEF PlanFits, Plans
<1>5. t # NoPlan
  BY <1>4, PlanFields DEF NoPlan, Sides
<1> HIDE DEF t, e
<1>6. k = [side |-> s.side, left |-> SwingSize, plan |-> t, episode |-> n]
  BY <1>1 DEF Opened
<1>7. Booked(l, e) = Exit(k, half)
  BY <1>2, OpenedFields DEF Booked, t
<1> HIDE DEF k
<1>8. k.left = SwingSize /\ SwingSize - half = half
  BY <1>6, SizeHalves
<1>9. Exit(k, half) = [k EXCEPT !.left = half]
  BY <1>8, SizeHalves DEF Exit
<1>10. Exit(k, half) = [side |-> s.side, left |-> half, plan |-> t, episode |-> n]
  BY <1>6, <1>9
<1>11. QED
  BY <1>5, <1>7, <1>10 DEF e

\* What closes the position leaves the ledger flat.
LEMMA RestIsBooked ==
  ASSUME NEW l, NEW side, NEW left, NEW t, NEW n,
         l = [side |-> side, left |-> left, plan |-> t, episode |-> n],
         NEW e, e.qty = left
  PROVE  Booked(l, e) = Flat(n)
<1> DEFINE k == [l EXCEPT !.plan = Apply(t, e)]
<1>1. k.left = left /\ k.episode = n
  OBVIOUS
<1>2. Booked(l, e) = Exit(k, e.qty)
  BY DEF Booked
<1> HIDE DEF k
<1>3. QED
  BY <1>1, <1>2 DEF Exit

\* After a minute the ledger is flat, or holds the state in which the replay ended.
LEMMA ProtectedFits ==
  ASSUME NEW l, LedgerFits(l), NEW c \in Candles
  PROVE  LedgerFits(Protected(l, c)) /\ Protected(l, c).episode = l.episode
<1> DEFINE s == l.plan
           n == l.episode
           out == Replay(s, c)
           after == AllBooked(l, out.events)
<1>1. CASE l = Flat(n)
  BY <1>1, FlatFields DEF Protected
<1>2. ASSUME PlanFits(s), l = Opened(s, n)
      PROVE  LedgerFits(Protected(l, c)) /\ Protected(l, c).episode = n
  <2>1. PICK r \in {HighFirst(s, c), LowFirst(s, c)} :
          out.plan = r.plan /\ out.events = r.events
    BY <1>2, ReplayWalks
  <2>2. Walks(s, c.open, c.low, c.high, r)
    BY <1>2, CandleWalks
  <2> HIDE DEF out
  <2>3. n \in Nat /\ s # NoPlan /\ l.left = s.left
    BY <1>2, OpenedFields DEF LedgerFits
  <2>4. Protected(l, c) = KeepOpenState(after, r.plan)
    BY <2>1, <2>3 DEF Protected, out
  <2>5. ASSUME PlanFits(r.plan), r.plan.side = s.side, NEW t, t # NoPlan,
               after = [side |-> s.side, left |-> r.plan.left, plan |-> t, episode |-> n]
        PROVE  LedgerFits(Protected(l, c)) /\ Protected(l, c).episode = n
    <3> HIDE DEF after
    <3>1. KeepOpenState(after, r.plan) = [after EXCEPT !.plan = r.plan]
      BY <2>5 DEF KeepOpenState
    <3>2. [after EXCEPT !.plan = r.plan] = Opened(r.plan, n)
      BY <2>5 DEF Opened
    <3>3. QED
      BY <2>3, <2>4, <2>5, <3>1, <3>2, OpenedFits, OpenedFields
  <2>6. ASSUME after = Flat(n)
        PROVE  LedgerFits(Protected(l, c)) /\ Protected(l, c).episode = n
    <3> HIDE DEF after
    <3>1. KeepOpenState(after, r.plan) = Flat(n)
      BY <2>6, FlatFields DEF KeepOpenState
    <3>2. QED
      BY <2>3, <2>4, <3>1, FlatFields, FlatFits
  <2>7. CASE WalksOpen(s, c.low, c.high, r)
    <3>1. PlanFits(r.plan) /\ r.plan.side = s.side
      BY <2>7 DEF WalksOpen, Later
    <3>2. CASE r.plan.tpFilled = s.tpFilled /\ r.events = <<>>
      <4>1. r.plan.left = s.left
        BY <1>2, <3>1, <3>2 DEF PlanFits
      <4>2. after = l
        BY <2>1, <3>2, AllBookedIs
      <4>3. l = [side |-> s.side, left |-> r.plan.left, plan |-> s, episode |-> n]
        BY <1>2, <4>1 DEF Opened
      <4> HIDE DEF after
      <4>4. QED
        BY <2>3, <2>5, <3>1, <4>2, <4>3
    <3>3. ASSUME ~s.tpFilled, r.plan.tpFilled, NEW p \in c.low..c.high, r.events = <<HalfAt(p)>>
          PROVE  LedgerFits(Protected(l, c)) /\ Protected(l, c).episode = n
      <4>1. r.plan.left = SwingSize \div 2
        BY <3>1, <3>3 DEF PlanFits
      <4>2. after = Booked(l, HalfAt(p))
        BY <2>1, <3>3, AllBookedIs, OneIs
      <4> HIDE DEF after
      <4>3. PICK t : /\ Booked(Opened(s, n), HalfAt(p)) =
                         [side |-> s.side, left |-> SwingSize \div 2, plan |-> t, episode |-> n]
                     /\ t # NoPlan
        BY <1>2, <3>3, HalfIsBooked
      <4>4. QED
        BY <1>2, <2>5, <3>1, <4>1, <4>2, <4>3
    <3>4. QED
      BY <2>7, <3>2, <3>3 DEF WalksOpen
  <2>8. CASE WalksClosed(s, c.open, c.low, c.high, r)
    <3>1. ASSUME NEW e, Stopped(s, c.open, c.low, c.high, s.left, e), r.events = <<e>>
          PROVE  after = Flat(n)
      <4>1. e.qty = s.left
        BY <3>1, StopIsFair
      <4>2. after = Booked(l, e)
        BY <2>1, <3>1, AllBookedIs, OneIs
      <4>3. l = [side |-> s.side, left |-> s.left, plan |-> s, episode |-> n]
        BY <1>2 DEF Opened
      <4> HIDE DEF after
      <4>4. Booked(l, e) = Flat(n)
        BY <4>1, <4>3, RestIsBooked
      <4>5. QED
        BY <4>2, <4>4
    <3>2. ASSUME ~s.tpFilled, NEW p \in c.low..c.high, NEW e,
                 Stopped(s, c.open, c.low, c.high, SwingSize \div 2, e),
                 r.events = <<HalfAt(p), e>>
          PROVE  after = Flat(n)
      <4>1. e.qty = SwingSize \div 2
        BY <3>2, EventFields DEF Stopped
      <4>2. after = Booked(Booked(l, HalfAt(p)), e)
        BY <2>1, <3>2, AllBookedIs, TwoIs
      <4>3. PICK t : /\ Booked(Opened(s, n), HalfAt(p)) =
                         [side |-> s.side, left |-> SwingSize \div 2, plan |-> t, episode |-> n]
                     /\ t # NoPlan
        BY <1>2, <3>2, HalfIsBooked
      <4> HIDE DEF after
      <4>4. Booked(Booked(l, HalfAt(p)), e) = Flat(n)
        BY <1>2, <4>1, <4>3, RestIsBooked
      <4>5. QED
        BY <4>2, <4>4
    <3>3. QED
      BY <2>6, <2>8, <3>1, <3>2 DEF WalksClosed
  <2>9. QED
    BY <2>2, <2>7, <2>8 DEF Walks
<1>3. QED
  BY <1>1, <1>2 DEF LedgerFits

-----------------------------------------------------------------------------
(***************************************************************************)
(* The steps.                                                              *)
(***************************************************************************)
LEMMA SwingStart == SwingInit => SwingInv
<1> SUFFICES ASSUME SwingInit PROVE SwingInv
  OBVIOUS
<1>1. swing = Flat(0) /\ swing.episode = 0
  BY FlatFields DEF SwingInit
<1>2. LedgerFits(swing)
  BY <1>1, FlatFits
<1>3. QED
  BY <1>1, <1>2, SwingAssumption DEF SwingInv, SwingInit, QueueFits

LEMMA SwingStep == SwingInv /\ [SwingNext]_swingVars => SwingInv'
<1> SUFFICES ASSUME SwingInv, [SwingNext]_swingVars PROVE SwingInv'
  OBVIOUS
<1>1. ASSUME NEW c \in Candles, NEW refused \in BOOLEAN, Minute(c, refused)
      PROVE  SwingInv'
  <2> DEFINE opened == AtOpen(swing, queued, c.open, refused)
  <2>1. /\ LedgerFits(opened)
        /\ \/ opened.episode = swing.episode
           \/ queued.action \in Sides /\ opened.episode = swing.episode + 1
    <3>1. \/ queued \in {NoSignal, [action |-> "close"]}
          \/ /\ queued.action \in Sides /\ queued.extreme \in Extremes
             /\ c.open \in EntryPrices
      BY <1>1 DEF Minute, SwingInv, QueueFits, NoSignal, Sides
    <3>2. QED
      BY <3>1, AtOpenFits DEF SwingInv
  <2>2. swing.episode < MaxEpisodes \/ opened.episode = swing.episode
    BY <2>1 DEF SwingInv, QueueFits, NoSignal, Sides
  <2>3. swing.episode \in Nat /\ swing.episode <= MaxEpisodes /\ MaxEpisodes \in Nat
    BY SwingAssumption DEF SwingInv, LedgerFits
  <2>4. opened.episode <= MaxEpisodes
    BY <2>1, <2>2, <2>3
  <2> HIDE DEF opened
  <2>5. swing' = Protected(opened, c)
    BY <1>1 DEF Minute, opened
  <2>6. LedgerFits(swing') /\ swing'.episode = opened.episode
    BY <2>1, <2>5, ProtectedFits
  <2>7. queued' = NoSignal /\ minuteNo' \in 0..Minutes
    BY <1>1, SwingAssumption DEF Minute, SwingInv
  <2>8. LedgerFits(swing)'
    BY <2>6 DEF LedgerFits
  <2>9. QED
    BY <2>4, <2>6, <2>7, <2>8 DEF SwingInv, QueueFits
<1>2. ASSUME NEW action \in Sides \cup {"hold", "close"}, NEW x \in Extremes,
             BarSignal(action, x)
      PROVE  SwingInv'
  <2>1. swing' = swing /\ minuteNo' = 0
    BY <1>2 DEF BarSignal
  <2>2. LedgerFits(swing)' /\ swing'.episode <= MaxEpisodes
    BY <2>1 DEF SwingInv, LedgerFits
  <2>3. CASE action = "close"
    <3>1. queued' = [action |-> "close"]
      BY <1>2, <2>3 DEF BarSignal, Sides
    <3>2. QED
      BY <2>1, <2>2, <3>1, SwingAssumption DEF SwingInv, QueueFits
  <2>4. CASE action \in Sides /\ swing.side # action
    <3>1. queued' = [action |-> action, extreme |-> x]
      BY <1>2, <2>4 DEF BarSignal, Sides
    <3>2. queued'.action \in Sides /\ queued'.extreme \in Extremes
      BY <2>4, <3>1
    <3>3. swing'.episode < MaxEpisodes
      BY <1>2, <2>1, <2>4 DEF BarSignal
    <3>4. QED
      BY <2>1, <2>2, <3>2, <3>3, SwingAssumption DEF SwingInv, QueueFits
  <2>5. CASE action # "close" /\ ~(action \in Sides /\ swing.side # action)
    <3>1. queued' = NoSignal
      BY <1>2, <2>5 DEF BarSignal
    <3>2. QED
      BY <2>1, <2>2, <3>1, SwingAssumption DEF SwingInv, QueueFits
  <2>6. QED
    BY <2>3, <2>4, <2>5
<1>3. CASE UNCHANGED swingVars
  BY <1>3 DEF swingVars, SwingInv, LedgerFits, QueueFits
<1>4. QED
  BY <1>1, <1>2, <1>3 DEF SwingNext

-----------------------------------------------------------------------------
(***************************************************************************)
(* What the invariant says of a run.                                       *)
(***************************************************************************)
LEMMA LedgerIs ==
  ASSUME SwingInv
  PROVE  \/ /\ swing.side = "flat" /\ swing.left = 0 /\ swing.plan = NoPlan
         \/ /\ swing.side # "flat" /\ swing.side \in Sides /\ swing.plan # NoPlan
            /\ PlanFits(swing.plan)
            /\ swing.plan.side = swing.side /\ swing.plan.left = swing.left
<1>1. CASE swing = Flat(swing.episode)
  BY <1>1, FlatFields
<1>2. CASE PlanFits(swing.plan) /\ swing = Opened(swing.plan, swing.episode)
  BY <1>2, OpenedFields, PlanFields
<1>3. QED
  BY <1>1, <1>2 DEF SwingInv, LedgerFits

LEMMA InvIsTyped == SwingInv => SwingTypeOK
<1> SUFFICES ASSUME SwingInv PROVE SwingTypeOK
  OBVIOUS
<1>1. /\ swing.side \in Sides \cup {"flat"}
      /\ swing.left \in {0, SwingSize \div 2, SwingSize}
      /\ swing.plan # NoPlan => /\ swing.plan.left \in 1..SwingSize
                                /\ swing.plan.stop \in Nat \ {0}
  <2>1. CASE swing.side = "flat" /\ swing.left = 0 /\ swing.plan = NoPlan
    BY <2>1
  <2>2. CASE swing.side \in Sides /\ PlanFits(swing.plan) /\ swing.plan.left = swing.left
    <3>1. swing.plan.left \in {SwingSize \div 2, SwingSize}
      BY <2>2 DEF PlanFits
    <3>2. swing.plan.left \in 1..SwingSize
      BY <3>1, SizeHalves
    <3>3. QED
      BY <2>2, <3>1, <3>2, PlanFields DEF Positive
  <2>3. QED
    BY <2>1, <2>2, LedgerIs
<1>2. swing.episode \in 0..MaxEpisodes
  BY SwingAssumption DEF SwingInv, LedgerFits
<1>3. queued.action \in Sides \cup {"close", "none"} /\ minuteNo \in 0..Minutes
  BY DEF SwingInv, QueueFits, NoSignal
<1>4. QED
  BY <1>1, <1>2, <1>3 DEF SwingTypeOK

LEMMA InvIsRight == SwingInv => CopiesAgree /\ ReplayRight
<1> SUFFICES ASSUME SwingInv PROVE CopiesAgree /\ ReplayRight
  OBVIOUS
<1>1. CopiesAgree
  BY LedgerIs DEF CopiesAgree
<1>2. swing.plan # NoPlan => PlanFits(swing.plan)
  BY LedgerIs
<1>3. ShortcutExact
  BY <1>2, ReplayIs DEF ShortcutExact
<1>4. ReplayFair
  BY <1>2, ReplayIsFair DEF ReplayFair
<1>5. QED
  BY <1>1, <1>3, <1>4 DEF ReplayRight

\* Every variable stays within its type: run_code_backtest keeps a ledger of whole
\* halves, and the stop of every plan it keeps is a price.
THEOREM SwingTypes == SwingSpec => []SwingTypeOK
<1>1. SwingInv => SwingTypeOK
  BY InvIsTyped
<1>2. QED
  BY <1>1, SwingStart, SwingStep, PTL DEF SwingSpec

\* The ledger of run_code_backtest and the plan it replays count the same quantity
\* after every minute, and a flat ledger keeps no plan.
THEOREM CopiesAlwaysAgree == SwingSpec => []CopiesAgree
<1>1. SwingInv => CopiesAgree
  BY InvIsRight
<1>2. QED
  BY <1>1, SwingStart, SwingStep, PTL DEF SwingSpec

\* What replay_candle tells of a candle is what its two paths would have told, and
\* fair to the plan, for every candle and every plan of a run.
THEOREM ReplayIsRight == SwingSpec => []ReplayRight
<1>1. SwingInv => ReplayRight
  BY InvIsRight
<1>2. QED
  BY <1>1, SwingStart, SwingStep, PTL DEF SwingSpec
=============================================================================
