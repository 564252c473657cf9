------------------------------ MODULE BooksProofs ------------------------------
(***************************************************************************)
(* Proofs about the broker of the Pine engine (PineBroker), for any trade  *)
(* ids, exit ids, quantities and pyramiding cap: what the exit brackets of a*)
(* trade reserve, and that the exchange holds what the engine believes in. *)
(* Then the report of the entries (EntryCompleteness): that its layers agree*)
(* on any rows and that what it settled stays, by inductions over the rows.*)
(* Then the books side by side, as MCBooks puts them.                      *)
(***************************************************************************)
EXTENDS MCBooks, OrderLedgerProofs, SwingRiskProofs, SumProofs

(***************************************************************************)
(* The queue of market intents.                                            *)
(***************************************************************************)
\* One intent of the queue, when name is cancelled.
Kept(name, keep, i) ==
  IF i.kind # "close_all" /\ i.id = name THEN keep
  ELSE Append(keep, [i EXCEPT !.exits = WithoutExit(@, name)])
LeftOf(name, q) ==
  FoldLeft(LAMBDA keep, i :
             IF i.kind # "close_all" /\ i.id = name THEN keep
             ELSE Append(keep, [i EXCEPT !.exits = WithoutExit(@, name)]), <<>>, q)

LEMMA CancelledIsTyped ==
  ASSUME NEW q \in Seq(MarketIntents), NEW name
  PROVE  LeftOf(name, q) \in Seq(MarketIntents) /\ (q = <<>> => LeftOf(name, q) = <<>>)
<1> DEFINE D == DOMAIN q
           V == Seq(MarketIntents)
           P(u) == u = [s \in SUBSET D |->
                     IF s = {} THEN <<>> ELSE Kept(name, u[s \ {Max(s)}], q[Max(s)])]
           it == CHOOSE u : P(u)
<1>1. LeftOf(name, q) = it[D]
  BY DEF LeftOf, Kept, FoldLeft, MapThenFoldSet
<1>2. D = 1..Len(q) /\ \A n \in D : q[n] \in MarketIntents
  OBVIOUS
<1>3. IsFiniteSet(D) /\ D \subseteq Int
  <2>1. Len(q) \in Int
    OBVIOUS
  <2>2. QED
    BY <1>2, <2>1, FS_Interval
<1> HIDE DEF D
<1>4. \A keep \in V, n \in D : Kept(name, keep, q[n]) \in V
  <2>1. SUFFICES ASSUME NEW keep \in V, NEW n \in D
                 PROVE  Kept(name, keep, q[n]) \in V
    OBVIOUS
  <2> DEFINE i == q[n]
  <2>2. i \in MarketIntents
    BY <1>2
  <2> HIDE DEF i
  <2>3. WithoutExit(i.exits, name) \in [ExitIds -> 0..MaxQty]
    BY <2>2, BrokerAssumption DEF MarketIntents, WithoutExit
  <2>4. [i EXCEPT !.exits = WithoutExit(@, name)] \in MarketIntents
    BY <2>2, <2>3 DEF MarketIntents
  <2>5. Kept(name, keep, i) \in V
    BY <2>4 DEF Kept
  <2>6. QED
    BY <2>5 DEF i
<1> DEFINE g == [p \in V \X D |-> Kept(name, p[1], q[p[2]])]
<1>5. \A keep \in V, n \in D : g[<<keep, n>>] = Kept(name, keep, q[n])
  OBVIOUS
<1>6. <<>> \in V
  OBVIOUS
<1> HIDE DEF g, V
<1>7. PICK w : StepsOf(D, V, <<>>, g, w)
  <2>1. \A keep \in V, n \in D : g[<<keep, n>>] \in V
    BY <1>4, <1>5
  <2>2. QED
    BY <1>3, <1>6, <2>1, StepsExist
<1>8. \A s \in SUBSET D : s # {} => Max(s) \in D
  <2>1. SUFFICES ASSUME NEW s \in SUBSET D, s # {} PROVE Max(s) \in D
    OBVIOUS
  <2>2. IsFiniteSet(s) /\ s \subseteq Int
    BY <1>3, FS_Subset
  <2>3. QED
    BY <2>1, <2>2, HasLargest
<1>9. P(w)
  <2>1. ASSUME NEW s \in SUBSET D
        PROVE  w[s] = IF s = {} THEN <<>> ELSE Kept(name, w[s \ {Max(s)}], q[Max(s)])
    <3>1. s # {} => w[s \ {Max(s)}] \in V /\ Max(s) \in D
      BY <1>7, <1>8 DEF StepsOf
    <3>2. s # {} => g[<<w[s \ {Max(s)}], Max(s)>>] = Kept(name, w[s \ {Max(s)}], q[Max(s)])
      BY <1>5, <3>1
    <3>3. QED
      BY <1>7, <3>2 DEF StepsOf
  <2>2. w = [s \in SUBSET D |-> w[s]]
    BY <1>7 DEF StepsOf
  <2>3. QED
    BY <2>1, <2>2
<1>10. P(it)
  <2> HIDE DEF P
  <2>1. QED
    BY <1>9
<1> HIDE DEF it
<1>11. \A s \in SUBSET D : it[s] =
         IF s = {} THEN <<>> ELSE Kept(name, it[s \ {Max(s)}], q[Max(s)])
  BY <1>10
<1>12. it[{}] = <<>>
  <2>1. {} \in SUBSET D
    OBVIOUS
  <2>2. QED
    BY <1>11, <2>1
<1>13. \A s \in SUBSET D : s # {} /\ it[s \ {Max(s)}] \in V => it[s] \in V
  BY <1>4, <1>8, <1>11
<1>14. it[D] \in V
  BY <1>3, <1>6, <1>12, <1>13, StepsStay
<1>15. q = <<>> => D = {}
  BY <1>2
<1>16. QED
  BY <1>1, <1>12, <1>14, <1>15 DEF V

-----------------------------------------------------------------------------
(***************************************************************************)
(* What a step does to the trades and their brackets.                      *)
(***************************************************************************)
Amounts == (-MaxQty)..MaxQty
Trades == [TradeIds -> Amounts]
Reservations == [ExitIds -> 0..MaxQty]
Brackets == [TradeIds -> Reservations]

\* The trades stay typed and their brackets fit; a live replay signals the change.
Books ==
  /\ open' \in Trades /\ exits' \in Brackets /\ due' \in Int
  /\ BracketsFit'
  /\ mode.live => due' = due + Position(open') - Position(open)

LEMMA BrokerSets ==
  /\ MaxQty \in Nat /\ MaxQty > 0 /\ IsFiniteSet(TradeIds) /\ IsFiniteSet(ExitIds)
  /\ \A q \in Quantities : q \in Amounts /\ q # 0
  /\ Amounts \subseteq Int /\ 0 \in Amounts /\ \A q \in Amounts : -q \in Amounts
  /\ NoTrades \in Trades /\ NoExits \in Reservations
BY BrokerAssumption DEF Amounts, Trades, Reservations, NoTrades, NoExits

LEMMA SizeIs ==
  ASSUME NEW q \in Amounts
  PROVE  Size(q) \in 0..MaxQty /\ (Size(q) = 0 <=> q = 0)
BY BrokerSets DEF Size, Amounts

LEMMA PositionIs ==
  /\ \A trades \in Trades : Position(trades) \in Int
  /\ Position(NoTrades) = 0
<1>1. ASSUME NEW trades \in Trades
      PROVE  Position(trades) \in Int
  <2>1. trades \in [TradeIds -> Int]
    BY BrokerSets DEF Trades
  <2>2. QED
    BY <2>1, BrokerSets, SumIsInt DEF Position
<1>2. Position(NoTrades) = 0
  BY BrokerSets, SumOfZeros DEF Position, NoTrades
<1>3. QED
  BY <1>1, <1>2

LEMMA PositionUpdated ==
  ASSUME NEW trades \in Trades, NEW id \in TradeIds, NEW q \in Amounts
  PROVE  /\ [trades EXCEPT ![id] = q] \in Trades
         /\ Position([trades EXCEPT ![id] = q]) = Position(trades) - trades[id] + q
<1>1. trades \in [TradeIds -> Int] /\ q \in Int
  BY BrokerSets DEF Trades
<1>2. IsFiniteSet(TradeIds)
  BY BrokerSets
<1> DEFINE changed == [trades EXCEPT ![id] = q]
<1>3. SumFunction(changed) = SumFunction(trades) - trades[id] + q
  <2>1. Changed(TradeIds, trades, id, q, changed)
    BY <1>1 DEF Changed
  <2> HIDE DEF changed
  <2>2. QED
    BY <1>1, <1>2, <2>1, SumUpdated
<1>4. QED
  BY <1>3 DEF Trades, Position

LEMMA ReservedIs ==
  /\ \A plan \in Reservations : Reserved(plan) \in Int
  /\ Reserved(NoExits) = 0
<1>1. ASSUME NEW plan \in Reservations
      PROVE  Reserved(plan) \in Int
  <2>1. plan \in [ExitIds -> Int]
    BY DEF Reservations
  <2>2. QED
    BY <2>1, BrokerSets, SumIsInt DEF Reserved
<1>2. Reserved(NoExits) = 0
  BY BrokerSets, SumOfZeros DEF Reserved, NoExits
<1>3. QED
  BY <1>1, <1>2

LEMMA ReservedUpdated ==
  ASSUME NEW plan \in Reservations, NEW x \in ExitIds, NEW n \in 0..MaxQty
  PROVE  /\ [plan EXCEPT ![x] = n] \in Reservations
         /\ Reserved([plan EXCEPT ![x] = n]) = Reserved(plan) - plan[x] + n
<1>1. plan \in [ExitIds -> Int] /\ n \in Int
  BY DEF Reservations
<1>2. IsFiniteSet(ExitIds)
  BY BrokerSets
<1> DEFINE changed == [plan EXCEPT ![x] = n]
<1>3. SumFunction(changed) = SumFunction(plan) - plan[x] + n
  <2>1. Changed(ExitIds, plan, x, n, changed)
    BY <1>1 DEF Changed
  <2> HIDE DEF changed
  <2>2. QED
    BY <1>1, <1>2, <2>1, SumUpdated
<1>4. QED
  BY <1>3 DEF Reservations, Reserved

\* place_exit reserves no more than the other exit ids leave.
LEMMA ReserveFits ==
  ASSUME NEW trade \in Amounts, NEW plan \in Reservations, Reserved(plan) <= Size(trade),
         NEW x \in ExitIds, NEW wanted \in 0..MaxQty
  PROVE  /\ Reserve(plan, trade, x, wanted) \in Reservations
         /\ Reserved(Reserve(plan, trade, x, wanted)) <= Size(trade)
<1> DEFINE others == Reserved(plan) - plan[x]
           n == AtMost(wanted, Size(trade) - others)
<1>1. plan[x] \in 0..MaxQty /\ Reserved(plan) \in Int /\ Size(trade) \in 0..MaxQty
      /\ MaxQty \in Nat
  BY BrokerSets, ReservedIs, SizeIs DEF Reservations
<1>2. others \in Int /\ others <= Size(trade)
  BY <1>1
<1>3. others = Reserved(plan) - plan[x]
  OBVIOUS
<1> HIDE DEF others
<1>4. n \in 0..MaxQty /\ n <= Size(trade) - others
  BY <1>1, <1>2 DEF AtMost
<1>5. Reserve(plan, trade, x, wanted) = [plan EXCEPT ![x] = n]
  BY DEF Reserve, others
<1> HIDE DEF n
<1>6. Reserved([plan EXCEPT ![x] = n]) = Reserved(plan) - plan[x] + n
      /\ [plan EXCEPT ![x] = n] \in Reservations
  BY <1>4, ReservedUpdated
<1>7. Reserved([plan EXCEPT ![x] = n]) <= Size(trade)
  BY <1>1, <1>2, <1>3, <1>4, <1>6
<1>8. QED
  BY <1>5, <1>6, <1>7

\* What the templates of an intent reserve fits the trade that the intent opens.
LEMMA ReserveAllFits ==
  ASSUME NEW q \in Amounts, NEW templates \in Reservations, NEW plan \in ReserveAll(q, templates)
  PROVE  plan \in Reservations /\ Reserved(plan) <= Size(q)
<1> DEFINE ids == {x \in ExitIds : templates[x] > 0}
           N == Cardinality(ids)
           Before(turn, x) ==
             [y \in ExitIds |-> IF y \in ids /\ turn[y] < turn[x] THEN plan[y] ELSE 0]
<1>1. PICK turn \in Injection(ids, 1..N) :
        \A x \in ExitIds :
          plan[x] = IF x \in ids THEN Reserve(Before(turn, x), q, x, templates[x])[x] ELSE 0
  BY DEF ReserveAll
<1>2. plan \in Reservations
  BY DEF ReserveAll, Reservations
<1>3. IsFiniteSet(ids) /\ N \in Nat
  <2>1. IsFiniteSet(ids)
    BY BrokerSets, FS_Subset
  <2>2. QED
    BY <2>1, FS_CardinalityType
<1>4. CASE ids = {}
  <2>1. plan = NoExits
    BY <1>1, <1>2, <1>4 DEF Reservations, NoExits
  <2>2. QED
    BY <1>2, <2>1, ReservedIs, SizeIs, BrokerSets
<1>5. CASE ids # {}
  <2>1. turn \in Surjection(ids, 1..N)
    <3>1. IsFiniteSet(1..N) /\ Cardinality(1..N) = N
      BY <1>3, FS_Interval
    <3>2. QED
      BY <3>1, FS_Injection
  <2>2. N >= 1
    BY <1>3, <1>5, FS_EmptySet
  <2>3. PICK x \in ids : turn[x] = N
    <3> HIDE DEF ids, N
    <3>1. N \in 1..N
      BY <1>3, <2>2
    <3>2. QED
      BY <2>1, <3>1 DEF Surjection
  <2> DEFINE b == Before(turn, x)
             n == AtMost(templates[x], Size(q) - (Reserved(b) - b[x]))
  <2>4. b = [plan EXCEPT ![x] = 0]
    <3>1. ASSUME NEW y \in ExitIds
          PROVE  b[y] = IF y = x THEN 0 ELSE plan[y]
      <4>1. CASE y = x
        BY <1>3, <2>3, <4>1
      <4>2. CASE y # x /\ y \in ids
        <5>1. turn[y] \in 1..N /\ turn[y] # turn[x]
          <6> HIDE DEF ids, N
          <6>1. QED
            BY <2>3, <4>2 DEF Injection, IsInjective
        <5>2. turn[y] < turn[x]
          BY <1>3, <2>3, <5>1
        <5>3. QED
          BY <4>2, <5>2
      <4>3. CASE y \notin ids
        BY <1>1, <2>3, <4>3
      <4>4. QED
        BY <4>1, <4>2, <4>3
    <3> HIDE DEF ids
    <3>2. plan = [y \in ExitIds |-> plan[y]]
      BY <1>2 DEF Reservations
    <3>3. QED
      BY <3>1, <3>2
  <2>5. plan[x] = Reserve(b, q, x, templates[x])[x]
    BY <1>1, <2>3
  <2> HIDE DEF b
  <2>6. x \in ExitIds /\ templates[x] \in 0..MaxQty /\ plan[x] \in 0..MaxQty
    BY <1>2, <2>3 DEF Reservations
  <2> HIDE DEF ids
  <2>7. b \in Reservations /\ Reserved(b) = Reserved(plan) - plan[x] + 0 /\ b[x] = 0
    <3>1. [plan EXCEPT ![x] = 0] \in Reservations
          /\ Reserved([plan EXCEPT ![x] = 0]) = Reserved(plan) - plan[x] + 0
      BY <1>2, <2>6, BrokerSets, ReservedUpdated
    <3>2. [plan EXCEPT ![x] = 0][x] = 0
      BY <1>2, <2>6 DEF Reservations
    <3>3. QED
      BY <2>4, <3>1, <3>2
  <2>8. plan[x] = n
    BY <2>5, <2>6, <2>7 DEF Reserve, Reservations
  <2>9. Reserved(plan) \in Int /\ Size(q) \in Int
    BY <1>2, ReservedIs, SizeIs
  <2>10. n <= Size(q) - Reserved(b)
    BY <2>6, <2>7, <2>9 DEF AtMost
  <2> HIDE DEF n
  <2>11. Reserved(plan) <= Size(q)
    BY <2>6, <2>7, <2>8, <2>9, <2>10
  <2>12. QED
    BY <1>2, <2>11
<1>6. QED
  BY <1>4, <1>5

-----------------------------------------------------------------------------
(***************************************************************************)
(* The parts of the steps that change trades.                              *)
(***************************************************************************)
\* A live replay signals what changed; one that is not live has nothing due.
LEMMA SignalBooks ==
  ASSUME BrokerTypeOK, NEW trades \in Trades, open' = trades, Signal(trades)
  PROVE  due' \in Int /\ (mode.live => due' = due + Position(open') - Position(open))
<1>1. open \in Trades /\ due \in Int
  BY DEF BrokerTypeOK, Trades, Amounts
<1>2. Position(trades) \in Int /\ Position(open) \in Int
  BY <1>1, PositionIs
<1>3. QED
  BY <1>1, <1>2 DEF Signal

LEMMA OpenIs ==
  ASSUME BrokerTypeOK
  PROVE  /\ open \in Trades /\ exits \in Brackets /\ orders \in Trades /\ due \in Int
         /\ \A id \in TradeIds : /\ open[id] \in Amounts /\ orders[id] \in Amounts
                                 /\ exits[id] \in Reservations
BY DEF BrokerTypeOK, Trades, Amounts, Brackets, Reservations

LEMMA ClearedIs ==
  ASSUME BrokerTypeOK, BracketsFit, NEW id, NEW q \in Amounts
  PROVE  /\ Cleared(id, q) \in Trades /\ ExitsKept(id, q) \in Brackets
         /\ \A t \in TradeIds :
              /\ Reserved(ExitsKept(id, q)[t]) <= Size(Cleared(id, q)[t])
              /\ t = id => Cleared(id, q)[t] = 0 /\ ExitsKept(id, q)[t] = NoExits
<1>1. ASSUME NEW t \in TradeIds
      PROVE  /\ Cleared(id, q)[t] \in Amounts /\ ExitsKept(id, q)[t] \in Reservations
             /\ Reserved(ExitsKept(id, q)[t]) <= Size(Cleared(id, q)[t])
             /\ t = id => Cleared(id, q)[t] = 0 /\ ExitsKept(id, q)[t] = NoExits
  <2>1. /\ open[t] \in Amounts /\ exits[t] \in Reservations
        /\ NoExits \in Reservations /\ 0 \in Amounts
        /\ Reserved(NoExits) = 0 /\ Size(0) = 0
    BY OpenIs, BrokerSets, ReservedIs, SizeIs
  <2>2. CASE t = id \/ open[t] * q < 0
    <3>1. Cleared(id, q)[t] = 0 /\ ExitsKept(id, q)[t] = NoExits
      BY <2>2 DEF Cleared, ExitsKept
    <3>2. QED
      BY <2>1, <3>1
  <2>3. CASE ~(t = id \/ open[t] * q < 0)
    <3>1. Cleared(id, q)[t] = open[t] /\ ExitsKept(id, q)[t] = exits[t]
      BY <2>3 DEF Cleared, ExitsKept
    <3>2. QED
      BY <2>1, <2>3, <3>1 DEF BracketsFit
  <2>4. QED
    BY <2>2, <2>3
<1>2. Cleared(id, q) \in Trades
  <2>1. Cleared(id, q) = [t \in TradeIds |-> Cleared(id, q)[t]]
    BY DEF Cleared
  <2>2. QED
    BY <1>1, <2>1 DEF Trades
<1>3. ExitsKept(id, q) \in Brackets
  <2>1. ExitsKept(id, q) = [t \in TradeIds |-> ExitsKept(id, q)[t]]
    BY DEF ExitsKept
  <2>2. QED
    BY <1>1, <2>1 DEF Brackets
<1>4. QED
  BY <1>1, <1>2, <1>3

\* Closes first, then a trade of its own with the brackets that wait for it.
LEMMA EnteredFits ==
  ASSUME BrokerTypeOK, BracketsFit, NEW id \in TradeIds, NEW q \in Amounts,
         NEW plan \in Reservations, Reserved(plan) <= Size(q),
         NEW trades, trades = [Cleared(id, q) EXCEPT ![id] = q],
         NEW kept, kept = [ExitsKept(id, q) EXCEPT ![id] = plan]
  PROVE  /\ trades \in Trades /\ kept \in Brackets
         /\ \A t \in TradeIds : Reserved(kept[t]) <= Size(trades[t])
<1> DEFINE cleared == Cleared(id, q)
           before == ExitsKept(id, q)
<1>1. /\ cleared \in Trades /\ before \in Brackets
      /\ \A t \in TradeIds : Reserved(before[t]) <= Size(cleared[t])
  BY ClearedIs
<1>2. trades = [cleared EXCEPT ![id] = q] /\ kept = [before EXCEPT ![id] = plan]
  OBVIOUS
<1> HIDE DEF cleared, before
<1>3. trades \in Trades /\ kept \in Brackets
  BY <1>1, <1>2 DEF Trades, Brackets
<1>4. ASSUME NEW t \in TradeIds
      PROVE  Reserved(kept[t]) <= Size(trades[t])
  <2>1. CASE t = id
    BY <1>1, <1>2, <2>1 DEF Trades, Brackets
  <2>2. CASE t # id
    <3>1. trades[t] = cleared[t] /\ kept[t] = before[t]
      BY <1>1, <1>2, <2>2 DEF Trades, Brackets
    <3>2. QED
      BY <1>1, <3>1
  <2>3. QED
    BY <2>1, <2>2
<1>5. QED
  BY <1>3, <1>4

LEMMA EnterBooks ==
  ASSUME BrokerTypeOK, BracketsFit, NEW id \in TradeIds, NEW q \in Quantities,
         NEW templates \in Reservations, EnterAtMarket(id, q, templates)
  PROVE  Books
<1> DEFINE cleared == Cleared(id, q)
           kept == ExitsKept(id, q)
<1>1. q \in Amounts
  BY BrokerSets
<1>2. CASE UNCHANGED <<open, exits, due>>
  <2>1. open \in Trades /\ exits \in Brackets /\ due \in Int /\ Position(open) \in Int
    BY OpenIs, PositionIs
  <2>2. open' = open /\ exits' = exits /\ due' = due
    BY <1>2
  <2>3. BracketsFit'
    BY <2>2 DEF BracketsFit
  <2>4. Position(open') = Position(open)
    BY <2>2
  <2>5. QED
    BY <2>1, <2>2, <2>3, <2>4 DEF Books
<1>3. CASE open' = cleared /\ exits' = kept /\ Signal(cleared)
  <2>1. /\ cleared \in Trades /\ kept \in Brackets
        /\ \A t \in TradeIds : Reserved(kept[t]) <= Size(cleared[t])
    BY <1>1, ClearedIs
  <2> HIDE DEF cleared, kept
  <2>2. due' \in Int /\ (mode.live => due' = due + Position(open') - Position(open))
    BY <1>3, <2>1, SignalBooks
  <2>3. QED
    BY <1>3, <2>1, <2>2 DEF Books, BracketsFit
<1>4. ASSUME open' = [cleared EXCEPT ![id] = q], NEW plan \in ReserveAll(q, templates),
             exits' = [kept EXCEPT ![id] = plan], Signal(open')
      PROVE  Books
  <2>1. plan \in Reservations /\ Reserved(plan) <= Size(q)
    BY <1>1, ReserveAllFits
  <2>2. /\ open' \in Trades /\ exits' \in Brackets
        /\ \A t \in TradeIds : Reserved(exits'[t]) <= Size(open'[t])
    BY <1>1, <1>4, <2>1, EnteredFits
  <2>3. due' \in Int /\ (mode.live => due' = due + Position(open') - Position(open))
    BY <1>4, <2>2, SignalBooks
  <2>4. QED
    BY <2>2, <2>3 DEF Books, BracketsFit
<1>5. QED
  BY <1>2, <1>3, <1>4 DEF EnterAtMarket

LEMMA CloseBooks ==
  ASSUME BrokerTypeOK, BracketsFit, NEW trades \in Trades,
         \A t \in TradeIds : trades[t] \in {0, open[t]}, CloseAtMarket(trades)
  PROVE  Books
<1>1. open' = trades /\ exits' = ExitsOf(trades) /\ Signal(trades)
  BY DEF CloseAtMarket
<1>2. due' \in Int /\ (mode.live => due' = due + Position(open') - Position(open))
  BY <1>1, SignalBooks
<1>3. ASSUME NEW t \in TradeIds
      PROVE  ExitsOf(trades)[t] \in Reservations /\ Reserved(ExitsOf(trades)[t]) <= Size(trades[t])
  <2>1. /\ exits[t] \in Reservations /\ NoExits \in Reservations
        /\ Reserved(NoExits) = 0 /\ Size(0) = 0
    BY OpenIs, BrokerSets, ReservedIs, SizeIs
  <2>2. ExitsOf(trades)[t] = IF trades[t] = 0 THEN NoExits ELSE exits[t]
    BY DEF ExitsOf
  <2>3. CASE trades[t] = 0
    BY <2>1, <2>2, <2>3
  <2>4. CASE trades[t] # 0
    BY <2>1, <2>2, <2>4 DEF BracketsFit
  <2>5. QED
    BY <2>3, <2>4
<1>4. exits' \in Brackets
  <2>1. ExitsOf(trades) = [t \in TradeIds |-> ExitsOf(trades)[t]]
    BY DEF ExitsOf
  <2>2. QED
    BY <1>1, <1>3, <2>1 DEF Brackets
<1>5. QED
  BY <1>1, <1>2, <1>3, <1>4 DEF Books, BracketsFit

\* A bracket that fills takes its own reservation off the trade.
LEMMA ExitBooks ==
  ASSUME BrokerTypeOK, BracketsFit, NEW id \in TradeIds, NEW x \in ExitIds, ExitFills(id, x)
  PROVE  Books
<1> DEFINE plan == exits[id]
           out == AtMost(plan[x], Size(open[id]))
           left == IF open[id] > 0 THEN open[id] - out ELSE open[id] + out
           trades == [open EXCEPT ![id] = left]
           rest == IF left = 0 THEN NoExits ELSE [plan EXCEPT ![x] = 0]
<1>1. /\ open \in Trades /\ exits \in Brackets /\ open[id] \in Amounts /\ plan \in Reservations
      /\ plan[x] \in 0..MaxQty /\ MaxQty \in Nat
  BY OpenIs, BrokerSets DEF Reservations
<1>2. left \in Amounts /\ (left # 0 => Size(left) = Size(open[id]) - plan[x])
  BY <1>1 DEF AtMost, Size, Amounts
<1>3. open' = trades /\ Signal(trades) /\ exits' = [exits EXCEPT ![id] = rest]
  BY DEF ExitFills
<1> HIDE DEF left
<1>4. trades \in Trades
  BY <1>1, <1>2 DEF Trades
<1>5. rest \in Reservations /\ Reserved(rest) <= Size(left)
  <2>1. CASE left = 0
    BY <1>2, <2>1, BrokerSets, ReservedIs, SizeIs
  <2>2. CASE left # 0
    <3> DEFINE p == [plan EXCEPT ![x] = 0]
    <3>1. p \in Reservations /\ Reserved(p) = Reserved(plan) - plan[x] + 0
      BY <1>1, ReservedUpdated
    <3>2. Reserved(plan) \in Int /\ Reserved(plan) <= Size(open[id]) /\ Size(open[id]) \in Int
      BY <1>1, ReservedIs, SizeIs DEF BracketsFit
    <3> HIDE DEF p, plan
    <3>3. Reserved(p) <= Size(left)
      BY <1>1, <1>2, <2>2, <3>1, <3>2
    <3>4. QED
      BY <2>2, <3>1, <3>3 DEF p
  <2>3. QED
    BY <2>1, <2>2
<1> HIDE DEF rest
<1>6. due' \in Int /\ (mode.live => due' = due + Position(open') - Position(open))
  BY <1>3, <1>4, SignalBooks
<1>7. exits' \in Brackets
  BY <1>1, <1>3, <1>5 DEF Brackets
<1>8. ASSUME NEW t \in TradeIds
      PROVE  Reserved(exits'[t]) <= Size(open'[t])
  <2>1. CASE t = id
    <3>1. exits'[t] = rest /\ open'[t] = left
      BY <1>1, <1>3, <2>1 DEF Brackets, Trades
    <3>2. QED
      BY <1>5, <3>1
  <2>2. CASE t # id
    <3>1. exits'[t] = exits[t] /\ open'[t] = open[t]
      BY <1>1, <1>3, <2>2 DEF Brackets, Trades
    <3>2. QED
      BY <3>1 DEF BracketsFit
  <2>3. QED
    BY <2>1, <2>2
<1>9. QED
  BY <1>3, <1>4, <1>6, <1>7, <1>8 DEF Books, BracketsFit

\* A step of the broker that leaves the trades alone and gives brackets that fit.
LEMMA PlaceBooks ==
  ASSUME BrokerTypeOK, BracketsFit, open' = open, due' = due,
         \A t \in TradeIds : exits'[t] \in Reservations /\ Reserved(exits'[t]) <= Size(open[t]),
         exits' = [t \in TradeIds |-> exits'[t]]
  PROVE  Books
<1>1. open \in Trades /\ due \in Int /\ Position(open) \in Int
  BY OpenIs, PositionIs
<1>2. exits' \in Brackets
  BY DEF Brackets
<1>3. Position(open') = Position(open)
  OBVIOUS
<1>4. QED
  BY <1>1, <1>2, <1>3 DEF Books, BracketsFit

LEMMA ExitCallBooks ==
  ASSUME BrokerTypeOK, BracketsFit, NEW from, NEW x \in ExitIds, NEW wanted \in 1..MaxQty,
         open' = open, due' = due, exits' = Bracketed(from, x, wanted)
  PROVE  Books
<1>1. wanted \in 0..MaxQty
  BY BrokerSets
<1>2. ASSUME NEW t \in TradeIds
      PROVE  exits'[t] \in Reservations /\ Reserved(exits'[t]) <= Size(open[t])
  <2>1. /\ open[t] \in Amounts /\ exits[t] \in Reservations
        /\ Reserved(exits[t]) <= Size(open[t])
    BY OpenIs DEF BracketsFit
  <2>2. exits'[t] \in {Reserve(exits[t], open[t], x, wanted), exits[t]}
    BY DEF Bracketed
  <2>3. QED
    BY <1>1, <2>1, <2>2, ReserveFits
<1>3. exits' = [t \in TradeIds |-> exits'[t]]
  BY DEF Bracketed
<1>4. QED
  BY <1>2, <1>3, PlaceBooks

LEMMA CancelBooks ==
  ASSUME BrokerTypeOK, BracketsFit, NEW name, open' = open, due' = due,
         exits' = [t \in TradeIds |-> WithoutExit(exits[t], name)]
  PROVE  Books
<1>1. ASSUME NEW t \in TradeIds
      PROVE  exits'[t] \in Reservations /\ Reserved(exits'[t]) <= Size(open[t])
  <2> DEFINE plan == exits[t]
  <2>1. open[t] \in Amounts /\ plan \in Reservations /\ Reserved(plan) <= Size(open[t])
    BY OpenIs DEF BracketsFit
  <2>2. exits'[t] = WithoutExit(plan, name)
    OBVIOUS
  <2> HIDE DEF plan
  <2>3. CASE name \in ExitIds
    <3>1. WithoutExit(plan, name) = [plan EXCEPT ![name] = 0]
      BY <2>1, <2>3 DEF WithoutExit, Reservations
    <3>2. /\ [plan EXCEPT ![name] = 0] \in Reservations
          /\ Reserved([plan EXCEPT ![name] = 0]) = Reserved(plan) - plan[name] + 0
      BY <2>1, <2>3, BrokerSets, ReservedUpdated
    <3>3. plan[name] \in 0..MaxQty /\ Reserved(plan) \in Int /\ Size(open[t]) \in Int
      BY <2>1, <2>3, ReservedIs, SizeIs DEF Reservations
    <3>4. Reserved(plan) - plan[name] + 0 <= Size(open[t])
      BY <2>1, <3>3, BrokerSets
    <3>5. QED
      BY <2>2, <3>1, <3>2, <3>4
  <2>4. CASE name \notin ExitIds
    <3>1. WithoutExit(plan, name) = plan
      BY <2>1, <2>4 DEF WithoutExit, Reservations
    <3>2. QED
      BY <2>1, <2>2, <3>1
  <2>5. QED
    BY <2>3, <2>4
<1>2. exits' = [t \in TradeIds |-> exits'[t]]
  OBVIOUS
<1>3. QED
  BY <1>1, <1>2, PlaceBooks

LEMMA CancelAllBooks ==
  ASSUME BrokerTypeOK, BracketsFit, open' = open, due' = due,
         exits' = [t \in TradeIds |-> NoExits]
  PROVE  Books
<1>1. ASSUME NEW t \in TradeIds
      PROVE  exits'[t] \in Reservations /\ Reserved(exits'[t]) <= Size(open[t])
  <2>1. Size(open[t]) \in 0..MaxQty /\ MaxQty \in Nat
    BY OpenIs, SizeIs, BrokerSets
  <2>2. exits'[t] = NoExits
    OBVIOUS
  <2>3. QED
    BY <2>1, <2>2, BrokerSets, ReservedIs
<1>2. exits' = [t \in TradeIds |-> exits'[t]]
  OBVIOUS
<1>3. QED
  BY <1>1, <1>2, PlaceBooks

LEMMA StayBooks ==
  ASSUME BrokerTypeOK, BracketsFit, open' = open, due' = due, exits' = exits
  PROVE  Books
<1>1. ASSUME NEW t \in TradeIds
      PROVE  exits'[t] \in Reservations /\ Reserved(exits'[t]) <= Size(open[t])
  BY OpenIs DEF BracketsFit
<1>2. exits' = [t \in TradeIds |-> exits'[t]]
  BY OpenIs DEF Brackets
<1>3. QED
  BY <1>1, <1>2, PlaceBooks

\* A resting entry that fills: the position it leads to is the one that Target tells.
LEMMA FillBooks ==
  ASSUME BrokerTypeOK, BracketsFit, NEW id \in TradeIds, OpenByFill(id)
  PROVE  /\ open' \in Trades /\ exits' \in Brackets /\ BracketsFit'
         /\ Position(open') = Target(id)
<1> DEFINE q == orders[id]
           cleared == Cleared(id, q)
           kept == ExitsKept(id, q)
           opened == [cleared EXCEPT ![id] = q]
<1>1. q \in Amounts
  BY OpenIs
<1>2. open' = opened /\ exits' = kept
  BY DEF OpenByFill
<1>3. NoExits \in Reservations /\ Reserved(NoExits) <= Size(q)
  <2>1. Size(q) \in 0..MaxQty /\ MaxQty \in Nat
    BY <1>1, SizeIs, BrokerSets
  <2>2. QED
    BY <2>1, BrokerSets, ReservedIs
<1>4. cleared \in Trades /\ kept \in Brackets /\ cleared[id] = 0 /\ kept[id] = NoExits
  BY <1>1, ClearedIs
<1>5. kept = [kept EXCEPT ![id] = NoExits]
  <2> HIDE DEF kept
  <2>1. QED
    BY <1>4 DEF Brackets
<1>6. /\ open' \in Trades /\ exits' \in Brackets
      /\ \A t \in TradeIds : Reserved(exits'[t]) <= Size(open'[t])
  BY <1>1, <1>2, <1>3, <1>5, EnteredFits
<1>7. Target(id) = Position(cleared) + q
  BY DEF Target
<1> HIDE DEF cleared, q
<1>8. Position(opened) = Position(cleared) - cleared[id] + q
  BY <1>1, <1>4, PositionUpdated
<1>9. Position(cleared) \in Int /\ q \in Int
  BY <1>1, <1>4, PositionIs, BrokerSets
<1>10. Position(opened) = Position(cleared) + q
  BY <1>4, <1>8, <1>9
<1>11. QED
  BY <1>2, <1>6, <1>7, <1>10 DEF BracketsFit

-----------------------------------------------------------------------------
(***************************************************************************)
(* The inductive invariant.  VenueFollows speaks of all stages of a bar,   *)
(* but a resting entry that fills moves the exchange by what was published *)
(* at the end of the bar before: until the first fill of a bar nothing     *)
(* else may have touched the trades, and before the epoch bar nothing may  *)
(* have been published.                                                    *)
(***************************************************************************)
QueueIsForOpens == ~mode.nextOpen => intents = <<>>
NothingDueYet == stage \in {"open", "fills"} /\ ~mode.nextOpen => due = 0
NotYetFollowed ==
  mode.live /\ barNo <= EpochBar => venue = 0 /\ \A id \in TradeIds : shown.target[id] = 0
ShownIsMeant ==
  mode.live /\ ~mode.nextOpen /\ stage \in {"open", "fills"} /\ entered = {} =>
    \A id \in TradeIds : shown.target[id] # 0 =>
      shown.target[id] = Target(id) /\ shown.position = venue

BrokerInv ==
  /\ BrokerTypeOK /\ BracketsFit /\ VenueFollows
  /\ QueueIsForOpens /\ NothingDueYet /\ NotYetFollowed /\ ShownIsMeant

\* The variables that are not the trades, their brackets or what is due.
RestTyped ==
  /\ mode \in [nextOpen : BOOLEAN, live : BOOLEAN]
  /\ barNo \in 0..BrokerBars /\ calls \in 0..CallsPerBar /\ inSession \in BOOLEAN
  /\ stage \in {"open", "fills", "liquidations", "exits", "script", "raised"}
  /\ orders \in Trades /\ intents \in Seq(MarketIntents)
  /\ entered \subseteq TradeIds /\ quiet \in BOOLEAN /\ apart \in BOOLEAN
  /\ venue \in Int /\ shown.position \in Int /\ shown.target \in [TradeIds -> Int]

LEMMA TypesAre ==
  BrokerTypeOK <=> RestTyped /\ open \in Trades /\ exits \in Brackets /\ due \in Int
BY DEF BrokerTypeOK, RestTyped, Trades, Brackets, Reservations, Amounts

\* Most steps leave alone what the exchange holds and what it was shown.
Elsewhere ==
  /\ mode' = mode /\ barNo' = barNo /\ venue' = venue /\ shown' = shown
  /\ quiet => quiet' = TRUE
  /\ apart => apart' = TRUE

LEMMA FollowsOn ==
  ASSUME BrokerInv, Books, Elsewhere
  PROVE  VenueFollows' /\ NotYetFollowed'
<1>1. VenueFollows'
  <2>1. SUFFICES ASSUME mode'.live, ~mode'.nextOpen, ~quiet', ~apart', barNo' >= EpochBar
                 PROVE  venue' + due' = Position(open)'
    BY DEF VenueFollows
  <2>2. mode.live /\ ~mode.nextOpen /\ ~quiet /\ ~apart /\ barNo >= EpochBar
    BY <2>1 DEF Elsewhere
  <2>3. venue + due = Position(open)
    BY <2>2 DEF BrokerInv, VenueFollows
  <2>4. due' = due + Position(open') - Position(open)
    BY <2>2 DEF Books
  <2>5. venue \in Int /\ due \in Int /\ Position(open) \in Int /\ Position(open') \in Int
    BY OpenIs, PositionIs DEF BrokerInv, BrokerTypeOK, Books
  <2>6. venue' + due' = Position(open')
    BY <2>3, <2>4, <2>5 DEF Elsewhere
  <2>7. QED
    BY <2>6 DEF Position
<1>2. NotYetFollowed'
  BY DEF BrokerInv, Elsewhere, NotYetFollowed
<1>3. QED
  BY <1>1, <1>2

LEMMA StepKeeps ==
  ASSUME BrokerInv, Books, Elsewhere, RestTyped', QueueIsForOpens',
         NothingDueYet', ShownIsMeant'
  PROVE  BrokerInv'
<1>1. BrokerTypeOK'
  BY TypesAre DEF Books, RestTyped, Trades, Brackets, Reservations, Amounts, BrokerTypeOK
<1>2. BracketsFit'
  BY DEF Books
<1>3. QED
  BY <1>1, <1>2, FollowsOn DEF BrokerInv

\* Once the entries of a bar have had their turn, nothing shown is meant any more.
LEMMA LaterStepKeeps ==
  ASSUME BrokerInv, Books, Elsewhere, RestTyped', QueueIsForOpens',
         stage' \notin {"open", "fills"}
  PROVE  BrokerInv'
<1>1. NothingDueYet' /\ ShownIsMeant'
  BY DEF NothingDueYet, ShownIsMeant
<1>2. QED
  BY <1>1, StepKeeps

LEMMA BrokerStart == BrokerInit => BrokerInv
<1> SUFFICES ASSUME BrokerInit PROVE BrokerInv
  OBVIOUS
<1>1. /\ barNo \in 0..BrokerBars /\ calls \in 0..CallsPerBar /\ EpochBar \in Nat
      /\ intents \in Seq(MarketIntents)
  BY BrokerAssumption DEF BrokerInit
<1>2. /\ NothingShown.position = 0 /\ NothingShown.target = NoTrades
      /\ NoTrades \in [TradeIds -> Int] /\ \A id \in TradeIds : NoTrades[id] = 0
  BY DEF NothingShown, NoTrades
<1>3. RestTyped
  BY <1>1, <1>2, BrokerSets DEF BrokerInit, RestTyped
<1>4. open \in Trades /\ exits \in Brackets /\ due \in Int
  BY BrokerSets DEF BrokerInit, Brackets
<1>5. BracketsFit
  <2>1. ASSUME NEW id \in TradeIds
        PROVE  Reserved(exits[id]) <= Size(open[id])
    <3>1. exits[id] = NoExits /\ open[id] = 0
      BY DEF BrokerInit, NoTrades
    <3>2. QED
      BY <3>1, ReservedIs, SizeIs, BrokerSets
  <2>2. QED
    BY <2>1 DEF BracketsFit
<1>6. VenueFollows
  BY PositionIs DEF BrokerInit, VenueFollows
<1>7. QueueIsForOpens /\ NothingDueYet /\ NotYetFollowed /\ ShownIsMeant
  BY <1>2 DEF BrokerInit, QueueIsForOpens, NothingDueYet, NotYetFollowed, ShownIsMeant
<1>8. QED
  BY <1>3, <1>4, <1>5, <1>6, <1>7, TypesAre DEF BrokerInv

-----------------------------------------------------------------------------
(***************************************************************************)
(* The steps of a bar.                                                     *)
(***************************************************************************)
LEMMA InvTypes ==
  ASSUME BrokerInv
  PROVE  /\ BrokerTypeOK /\ BracketsFit /\ RestTyped
         /\ intents # <<>> => mode.nextOpen = TRUE
BY TypesAre DEF BrokerInv, QueueIsForOpens, RestTyped

LEMMA ClosedIs ==
  ASSUME BrokerTypeOK, NEW id
  PROVE  /\ [open EXCEPT ![id] = 0] \in Trades
         /\ \A t \in TradeIds : [open EXCEPT ![id] = 0][t] \in {0, open[t]}
BY OpenIs, BrokerSets DEF Trades

LEMMA CloseAllBooks ==
  ASSUME BrokerTypeOK, BracketsFit, CloseEverything
  PROVE  Books /\ orders' \in Trades
<1>1. \A t \in TradeIds : NoTrades[t] \in {0, open[t]}
  BY DEF NoTrades
<1>2. QED
  BY <1>1, CloseBooks, BrokerSets DEF CloseEverything

LEMMA IntentKeeps ==
  ASSUME BrokerInv, Intent
  PROVE  BrokerInv'
<1> DEFINE i == Head(intents)
<1>1. /\ intents # <<>> /\ intents \in Seq(MarketIntents) /\ mode.nextOpen = TRUE
      /\ BrokerTypeOK /\ BracketsFit /\ RestTyped
  BY InvTypes DEF Intent, RestTyped
<1>2. i \in MarketIntents /\ intents' \in Seq(MarketIntents)
  <2>1. i \in MarketIntents /\ Tail(intents) \in Seq(MarketIntents)
    BY <1>1
  <2>2. QED
    BY <2>1 DEF Intent
<1>3. Books /\ orders' \in Trades
  <2>1. CASE \E q \in {n \in Quantities : n * i.dir > 0} : EnterAtMarket(i.id, q, i.exits)
             /\ UNCHANGED orders
    <3>1. PICK q \in Quantities : EnterAtMarket(i.id, q, i.exits)
      BY <2>1
    <3>2. i.id \in TradeIds /\ i.exits \in Reservations
      BY <1>2 DEF MarketIntents, Reservations
    <3> HIDE DEF i
    <3>3. Books
      BY <1>1, <3>1, <3>2, EnterBooks
    <3>4. QED
      BY <1>1, <2>1, <3>3 DEF RestTyped
  <2>2. CASE CloseAtMarket([open EXCEPT ![i.id] = 0]) /\ UNCHANGED orders
    <3> HIDE DEF i
    <3>1. Books
      BY <1>1, <2>2, ClosedIs, CloseBooks
    <3>2. QED
      BY <1>1, <2>2, <3>1 DEF RestTyped
  <2>3. CASE CloseEverything
    BY <1>1, <2>3, CloseAllBooks
  <2>4. QED
    BY <2>1, <2>2, <2>3 DEF Intent
<1>4. Elsewhere
  BY <1>1 DEF Intent, Elsewhere, RestTyped
<1>5. RestTyped'
  BY <1>1, <1>2, <1>3 DEF Intent, RestTyped
<1>6. QueueIsForOpens' /\ NothingDueYet' /\ ShownIsMeant'
  BY <1>1 DEF Intent, QueueIsForOpens, NothingDueYet, ShownIsMeant
<1>7. QED
  BY <1>3, <1>4, <1>5, <1>6, StepKeeps

LEMMA IntentsDoneKeeps ==
  ASSUME BrokerInv, IntentsDone
  PROVE  BrokerInv'
<1>1. BrokerTypeOK /\ BracketsFit /\ RestTyped
  BY InvTypes
<1>2. Books
  BY <1>1, StayBooks DEF IntentsDone, book
<1>3. Elsewhere /\ RestTyped'
  BY <1>1 DEF IntentsDone, book, Elsewhere, RestTyped
<1>4. QueueIsForOpens' /\ NothingDueYet'
  BY DEF IntentsDone, book, QueueIsForOpens, NothingDueYet, BrokerInv
<1>5. ShownIsMeant'
  <2>1. stage = "open" /\ UNCHANGED <<mode, entered, shown, venue, open, orders>>
    BY DEF IntentsDone, book
  <2>2. \A id \in TradeIds : Target(id)' = Target(id)
    BY <2>1 DEF Target, Cleared
  <2>3. QED
    BY <2>1, <2>2 DEF ShownIsMeant, BrokerInv
<1>6. QED
  BY <1>2, <1>3, <1>4, <1>5, StepKeeps

LEMMA BarCloseKeeps ==
  ASSUME BrokerInv, BarClose
  PROVE  BrokerInv'
<1>1. BrokerTypeOK /\ BracketsFit /\ RestTyped
  BY InvTypes
<1>2. Books
  BY <1>1, StayBooks DEF BarClose, book
<1>3. Elsewhere /\ RestTyped'
  BY <1>1 DEF BarClose, book, Elsewhere, RestTyped
<1>4. QueueIsForOpens' /\ stage' \notin {"open", "fills"}
  BY DEF BarClose, book, QueueIsForOpens, BrokerInv
<1>5. QED
  BY <1>2, <1>3, <1>4, LaterStepKeeps

\* The exchange moves to what was published, and so does the engine.
LEMMA FillKeeps ==
  ASSUME BrokerInv, NEW id \in TradeIds, Fill(id)
  PROVE  BrokerInv'
<1>1. BrokerTypeOK /\ BracketsFit /\ RestTyped /\ due \in Int
  BY InvTypes, TypesAre
<1>2. /\ open' \in Trades /\ exits' \in Brackets /\ BracketsFit'
      /\ Position(open') = Target(id)
  BY <1>1, FillBooks DEF Fill
<1>3. due' = due /\ entered' = entered \cup {id} /\ entered' # {}
  BY DEF Fill, OpenByFill
<1>4. RestTyped'
  <2>1. orders' \in Trades
    BY <1>1, BrokerSets DEF Fill, RestTyped, Trades
  <2>2. venue' \in Int
    BY <1>1 DEF Fill, RestTyped
  <2>3. entered' \subseteq TradeIds /\ apart' \in BOOLEAN
    BY <1>1, <1>3 DEF Fill, RestTyped
  <2>4. QED
    BY <1>1, <2>1, <2>2, <2>3 DEF Fill, RestTyped
<1>5. BrokerTypeOK'
  BY <1>1, <1>2, <1>3, <1>4, TypesAre
     DEF RestTyped, Trades, Brackets, Reservations, Amounts, BrokerTypeOK
<1>6. VenueFollows'
  <2>1. SUFFICES ASSUME mode.live, ~mode.nextOpen, ~apart'
                 PROVE  venue' + due' = Position(open)'
    BY DEF VenueFollows, Fill
  <2>2. entered = {}
    BY <2>1 DEF Fill
  <2>3. shown.target[id] # 0
    BY <2>1 DEF Fill
  <2>4. shown.target[id] = Target(id) /\ shown.position = venue /\ due = 0
    BY <2>1, <2>2, <2>3 DEF BrokerInv, ShownIsMeant, NothingDueYet, Fill
  <2>5. venue' = venue + shown.target[id] - shown.position
    BY <2>1 DEF Fill
  <2>6. venue \in Int /\ shown.target[id] \in Int
    BY <1>1 DEF RestTyped
  <2>7. venue' + due' = Target(id)
    BY <1>3, <2>4, <2>5, <2>6
  <2>8. QED
    BY <1>2, <2>7 DEF Position
<1>7. NotYetFollowed'
  <2>1. SUFFICES ASSUME mode.live, barNo <= EpochBar
                 PROVE  FALSE
    BY DEF NotYetFollowed, Fill
  <2>2. QED
    BY <2>1 DEF BrokerInv, NotYetFollowed, Fill
<1>8. QueueIsForOpens' /\ NothingDueYet' /\ ShownIsMeant'
  BY <1>3 DEF BrokerInv, QueueIsForOpens, NothingDueYet, ShownIsMeant, Fill
<1>9. QED
  BY <1>2, <1>5, <1>6, <1>7, <1>8 DEF BrokerInv

LEMMA FillRefusedKeeps ==
  ASSUME BrokerInv, NEW id \in TradeIds, FillRefused(id)
  PROVE  BrokerInv'
<1>1. BrokerTypeOK /\ BracketsFit /\ RestTyped
  BY InvTypes
<1>2. Books
  BY <1>1, StayBooks DEF FillRefused
<1>3. orders' \in Trades
  BY <1>1, BrokerSets DEF FillRefused, RestTyped, Trades
<1>4. Elsewhere /\ RestTyped'
  BY <1>1, <1>3 DEF FillRefused, Elsewhere, RestTyped
<1>5. QueueIsForOpens' /\ NothingDueYet' /\ ShownIsMeant'
  BY DEF FillRefused, QueueIsForOpens, NothingDueYet, ShownIsMeant, BrokerInv
<1>6. QED
  BY <1>2, <1>4, <1>5, StepKeeps

LEMMA LiquidateKeeps ==
  ASSUME BrokerInv, NEW id \in TradeIds, Liquidate(id)
  PROVE  BrokerInv'
<1>1. BrokerTypeOK /\ BracketsFit /\ RestTyped
  BY InvTypes
<1>2. Books
  BY <1>1, ClosedIs, CloseBooks DEF Liquidate
<1>3. Elsewhere /\ RestTyped'
  BY <1>1 DEF Liquidate, Elsewhere, RestTyped
<1>4. QueueIsForOpens' /\ stage' \notin {"open", "fills"}
  BY DEF Liquidate, QueueIsForOpens, BrokerInv
<1>5. QED
  BY <1>2, <1>3, <1>4, LaterStepKeeps

LEMMA ExitFillsKeeps ==
  ASSUME BrokerInv, NEW id \in TradeIds, NEW x \in ExitIds, ExitFills(id, x)
  PROVE  BrokerInv'
<1>1. BrokerTypeOK /\ BracketsFit /\ RestTyped
  BY InvTypes
<1>2. Books
  BY <1>1, ExitBooks
<1>3. /\ stage' = "exits" /\ quiet' \in BOOLEAN /\ (quiet => quiet' = TRUE)
      /\ UNCHANGED <<mode, barNo, calls, inSession, orders, intents, entered, shown, venue, apart>>
  BY <1>1 DEF ExitFills, RestTyped
<1>4. Elsewhere /\ RestTyped'
  BY <1>1, <1>3 DEF Elsewhere, RestTyped
<1>5. QueueIsForOpens' /\ stage' \notin {"open", "fills"}
  BY <1>3 DEF QueueIsForOpens, BrokerInv
<1>6. QED
  BY <1>2, <1>4, <1>5, LaterStepKeeps

LEMMA SeedKeeps ==
  ASSUME BrokerInv, NEW id \in TradeIds, SeedFromLedger(id)
  PROVE  BrokerInv'
<1>1. BrokerTypeOK /\ BracketsFit /\ RestTyped /\ exits \in Brackets /\ due \in Int
  BY InvTypes, TypesAre
<1>2. PICK q \in Quantities : open = NoTrades /\ open' = [open EXCEPT ![id] = q]
  BY DEF SeedFromLedger
<1>3. open' \in Trades
  BY <1>2, BrokerSets DEF Trades
<1>4. BracketsFit'
  <2>1. ASSUME NEW t \in TradeIds
        PROVE  Reserved(exits[t]) <= Size(open'[t])
    <3>1. open[t] = 0 /\ Size(open[t]) = 0
      BY <1>2, SizeIs, BrokerSets DEF NoTrades
    <3>2. Reserved(exits[t]) <= 0
      BY <1>1, <3>1 DEF BracketsFit
    <3>3. Reserved(exits[t]) \in Int /\ Size(open'[t]) \in Nat
      <4>1. exits[t] \in Reservations /\ open'[t] \in Amounts
        BY <1>1, <1>3 DEF Brackets, Trades
      <4>2. Size(open'[t]) \in 0..MaxQty /\ MaxQty \in Nat
        BY <4>1, SizeIs, BrokerSets
      <4>3. QED
        BY <4>1, <4>2, ReservedIs
    <3>4. QED
      BY <3>2, <3>3
  <2>2. QED
    BY <2>1 DEF BracketsFit, SeedFromLedger
<1>5. RestTyped'
  BY <1>1 DEF SeedFromLedger, RestTyped
<1>6. BrokerTypeOK'
  BY <1>1, <1>3, <1>5, TypesAre
     DEF SeedFromLedger, RestTyped, Trades, Brackets, Reservations, Amounts, BrokerTypeOK
<1>7. VenueFollows' /\ QueueIsForOpens' /\ NothingDueYet' /\ ShownIsMeant' /\ NotYetFollowed'
  BY DEF BrokerInv, SeedFromLedger, VenueFollows, QueueIsForOpens, NothingDueYet, ShownIsMeant,
         NotYetFollowed
<1>8. QED
  BY <1>4, <1>6, <1>7 DEF BrokerInv

-----------------------------------------------------------------------------
(***************************************************************************)
(* The script's calls.                                                     *)
(***************************************************************************)
\* A call leaves the bar and the exchange alone.
LEMMA CallKeeps ==
  ASSUME BrokerInv, Calling, AfterCall, Books, orders' \in Trades,
         intents' \in Seq(MarketIntents), ~mode.nextOpen => intents' = <<>>,
         quiet' \in BOOLEAN, quiet => quiet' = TRUE, stage' \in {"script", "raised"}
  PROVE  BrokerInv'
<1>1. RestTyped
  BY InvTypes
<1>2. calls' \in 0..CallsPerBar
  BY <1>1, BrokerAssumption DEF Calling, RestTyped
<1>3. RestTyped' /\ Elsewhere
  BY <1>1, <1>2 DEF AfterCall, RestTyped, Elsewhere
<1>4. QueueIsForOpens'
  BY DEF AfterCall, QueueIsForOpens
<1>5. QED
  BY <1>3, <1>4, LaterStepKeeps

LEMMA RaiseKeeps ==
  ASSUME BrokerInv, Calling, AfterCall, Raise
  PROVE  BrokerInv'
<1>1. BrokerTypeOK /\ BracketsFit /\ RestTyped
  BY InvTypes
<1>2. Books
  BY <1>1, StayBooks DEF Raise, book
<1>3. orders' = orders /\ intents' = intents /\ quiet' = quiet /\ stage' = "raised"
  BY DEF Raise, book
<1>4. QED
  BY <1>1, <1>2, <1>3, CallKeeps DEF RestTyped, BrokerInv, QueueIsForOpens

LEMMA EntryCallKeeps ==
  ASSUME BrokerInv, NEW id \in TradeIds, NEW q \in Quantities, EntryCall(id, q)
  PROVE  BrokerInv'
<1>1. BrokerTypeOK /\ BracketsFit /\ RestTyped /\ Calling /\ AfterCall /\ stage = "script"
  BY InvTypes DEF EntryCall, Calling
<1>2. CASE Raise
  BY <1>1, <1>2, RaiseKeeps
<1>3. CASE mode.nextOpen /\ ~Raise
  <2> DEFINE i == [kind |-> "entry", id |-> id, dir |-> IF q > 0 THEN 1 ELSE -1,
                   exits |-> NoExits]
  <2>1. intents' = Append(intents, i) /\ UNCHANGED <<stage, open, exits, orders, quiet, due>>
    BY <1>3 DEF EntryCall
  <2>2. i \in MarketIntents
    BY BrokerSets DEF MarketIntents, Reservations
  <2> HIDE DEF i
  <2>3. intents' \in Seq(MarketIntents)
    BY <1>1, <2>1, <2>2 DEF RestTyped
  <2>4. Books
    BY <1>1, <2>1, StayBooks
  <2>5. QED
    BY <1>1, <1>3, <2>1, <2>3, <2>4, CallKeeps DEF RestTyped
<1>4. CASE ~mode.nextOpen
  <2>1. EnterAtMarket(id, q, NoExits) /\ UNCHANGED <<stage, orders, intents, quiet>>
    BY <1>4 DEF EntryCall
  <2>2. Books
    BY <1>1, <2>1, BrokerSets, EnterBooks
  <2>3. QED
    BY <1>1, <1>4, <2>1, <2>2, CallKeeps DEF RestTyped, BrokerInv, QueueIsForOpens
<1>5. QED
  BY <1>2, <1>3, <1>4

LEMMA RestingEntryCallKeeps ==
  ASSUME BrokerInv, NEW id \in TradeIds, NEW q \in Quantities, NEW limit \in BOOLEAN,
         RestingEntryCall(id, q, limit)
  PROVE  BrokerInv'
<1>1. BrokerTypeOK /\ BracketsFit /\ RestTyped /\ Calling /\ AfterCall /\ stage = "script"
  BY InvTypes DEF RestingEntryCall, Calling
<1>2. CASE Raise
  BY <1>1, <1>2, RaiseKeeps
<1>3. CASE ~Raise
  <2>1. /\ orders' = [orders EXCEPT ![id] = q] /\ quiet' = (quiet \/ limit)
        /\ UNCHANGED <<stage, open, exits, intents, due>>
    BY <1>3 DEF RestingEntryCall
  <2>2. orders' \in Trades /\ quiet' \in BOOLEAN /\ (quiet => quiet' = TRUE)
    BY <1>1, <2>1, BrokerSets DEF RestTyped, Trades
  <2>3. Books
    BY <1>1, <2>1, StayBooks
  <2>4. QED
    BY <1>1, <2>1, <2>2, <2>3, CallKeeps DEF RestTyped, BrokerInv, QueueIsForOpens
<1>4. QED
  BY <1>2, <1>3

LEMMA CloseCallKeeps ==
  ASSUME BrokerInv, NEW id \in TradeIds, CloseCall(id)
  PROVE  BrokerInv'
<1>1. BrokerTypeOK /\ BracketsFit /\ RestTyped /\ Calling /\ AfterCall /\ stage = "script"
      /\ UNCHANGED <<stage, quiet>>
  BY InvTypes DEF CloseCall, Calling
<1>2. CASE mode.nextOpen
  <2> DEFINE i == [kind |-> "close", id |-> id, dir |-> 1, exits |-> NoExits]
  <2>1. intents' = Append(intents, i) /\ UNCHANGED <<open, exits, orders, due>>
    BY <1>2 DEF CloseCall
  <2>2. i \in MarketIntents
    BY BrokerSets DEF MarketIntents, Reservations
  <2> HIDE DEF i
  <2>3. intents' \in Seq(MarketIntents)
    BY <1>1, <2>1, <2>2 DEF RestTyped
  <2>4. Books
    BY <1>1, <2>1, StayBooks
  <2>5. QED
    BY <1>1, <1>2, <2>1, <2>3, <2>4, CallKeeps DEF RestTyped
<1>3. CASE ~mode.nextOpen
  <2>1. CloseAtMarket([open EXCEPT ![id] = 0]) /\ UNCHANGED <<orders, intents>>
    BY <1>3 DEF CloseCall
  <2>2. Books
    BY <1>1, <2>1, ClosedIs, CloseBooks
  <2>3. QED
    BY <1>1, <1>3, <2>1, <2>2, CallKeeps DEF RestTyped, BrokerInv, QueueIsForOpens
<1>4. QED
  BY <1>2, <1>3

LEMMA CloseAllCallKeeps ==
  ASSUME BrokerInv, TradeIds # {}, CloseAllCall
  PROVE  BrokerInv'
<1>1. BrokerTypeOK /\ BracketsFit /\ RestTyped /\ Calling /\ AfterCall /\ stage = "script"
      /\ UNCHANGED <<stage, quiet>>
  BY InvTypes DEF CloseAllCall, Calling
<1>2. CASE mode.nextOpen
  <2> DEFINE i == [kind |-> "close_all", id |-> CHOOSE t \in TradeIds : TRUE, dir |-> 1,
                   exits |-> NoExits]
  <2>1. intents' = Append(intents, i) /\ UNCHANGED <<open, exits, orders, due>>
    BY <1>2 DEF CloseAllCall
  <2>2. i \in MarketIntents
    BY BrokerSets DEF MarketIntents, Reservations
  <2> HIDE DEF i
  <2>3. intents' \in Seq(MarketIntents)
    BY <1>1, <2>1, <2>2 DEF RestTyped
  <2>4. Books
    BY <1>1, <2>1, StayBooks
  <2>5. QED
    BY <1>1, <1>2, <2>1, <2>3, <2>4, CallKeeps DEF RestTyped
<1>3. CASE ~mode.nextOpen
  <2>1. CloseEverything /\ UNCHANGED intents
    BY <1>3 DEF CloseAllCall
  <2>2. Books /\ orders' \in Trades
    BY <1>1, <2>1, CloseAllBooks
  <2>3. QED
    BY <1>1, <1>3, <2>1, <2>2, CallKeeps DEF RestTyped, BrokerInv, QueueIsForOpens
<1>4. QED
  BY <1>2, <1>3

LEMMA ExitCallKeeps ==
  ASSUME BrokerInv, NEW from \in SUBSET TradeIds, NEW x \in ExitIds, NEW wanted \in 1..MaxQty,
         ExitCall(from, x, wanted)
  PROVE  BrokerInv'
<1>1. BrokerTypeOK /\ BracketsFit /\ RestTyped /\ Calling /\ AfterCall /\ stage = "script"
  BY InvTypes DEF ExitCall, Calling
<1>2. CASE Raise
  BY <1>1, <1>2, RaiseKeeps
<1>3. CASE ~Raise
  <2> DEFINE one == Cardinality(from) = 1
             waiting == IF one /\ mode.nextOpen THEN UNION {Queued(t) : t \in from} ELSE {}
             loud == \/ quiet \/ wanted < MaxQty \/ waiting # {}
                     \/ \E t \in from : open[t] # 0 /\ Reserved(exits[t]) # exits[t][x]
  <2>1. /\ exits' = Bracketed(from, x, wanted)
        /\ intents' = [n \in DOMAIN intents |->
                         IF n \in waiting THEN [intents[n] EXCEPT !.exits[x] = wanted]
                         ELSE intents[n]]
        /\ quiet' = loud
        /\ UNCHANGED <<stage, open, orders, due>>
    BY <1>3 DEF ExitCall
  <2> HIDE DEF one, waiting
  <2>2. quiet' \in BOOLEAN /\ (quiet => quiet' = TRUE)
    BY <2>1
  <2>3. intents' \in Seq(MarketIntents)
    <3>1. intents \in Seq(MarketIntents) /\ DOMAIN intents = 1..Len(intents)
          /\ \A n \in DOMAIN intents : intents[n] \in MarketIntents
      BY <1>1 DEF RestTyped
    <3>2. wanted \in 0..MaxQty
      BY BrokerSets
    <3>3. ASSUME NEW i \in MarketIntents
          PROVE  [i EXCEPT !.exits[x] = wanted] \in MarketIntents
      BY <3>2 DEF MarketIntents
    <3>4. \A n \in DOMAIN intents : intents'[n] \in MarketIntents
      BY <2>1, <3>1, <3>3
    <3>5. DOMAIN intents' = 1..Len(intents) /\ Len(intents) \in Nat
          /\ intents' = [n \in 1..Len(intents) |-> intents'[n]]
      BY <2>1, <3>1
    <3>6. QED
      BY <3>1, <3>4, <3>5
  <2>4. ~mode.nextOpen => intents' = <<>>
    <3>1. SUFFICES ASSUME ~mode.nextOpen PROVE intents' = <<>>
      OBVIOUS
    <3>2. intents = <<>>
      BY <3>1 DEF BrokerInv, QueueIsForOpens
    <3>3. DOMAIN intents' = {}
      BY <2>1, <3>2
    <3>4. QED
      BY <2>3, <3>3
  <2>5. Books
    BY <1>1, <2>1, ExitCallBooks
  <2> HIDE DEF loud
  <2>6. QED
    BY <1>1, <2>1, <2>2, <2>3, <2>4, <2>5, CallKeeps DEF RestTyped
<1>4. QED
  BY <1>2, <1>3

LEMMA CancelCallKeeps ==
  ASSUME BrokerInv, NEW name, CancelCall(name)
  PROVE  BrokerInv'
<1>1. BrokerTypeOK /\ BracketsFit /\ RestTyped /\ Calling /\ AfterCall /\ stage = "script"
  BY InvTypes DEF CancelCall, Calling
<1>2. /\ orders' = [t \in TradeIds |-> IF t = name THEN 0 ELSE orders[t]]
      /\ exits' = [t \in TradeIds |-> WithoutExit(exits[t], name)]
      /\ quiet' = TRUE /\ UNCHANGED <<stage, open, due>>
  BY DEF CancelCall
<1>3. intents' = LeftOf(name, intents)
  BY DEF CancelCall, LeftOf
<1>4. orders' \in Trades
  BY <1>1, <1>2, BrokerSets DEF RestTyped, Trades
<1>5. intents' \in Seq(MarketIntents) /\ (intents = <<>> => intents' = <<>>)
  BY <1>1, <1>3, CancelledIsTyped DEF RestTyped
<1>6. Books
  BY <1>1, <1>2, CancelBooks
<1>7. QED
  BY <1>1, <1>2, <1>4, <1>5, <1>6, CallKeeps DEF BrokerInv, QueueIsForOpens

LEMMA CancelAllCallKeeps ==
  ASSUME BrokerInv, CancelAllCall
  PROVE  BrokerInv'
<1>1. BrokerTypeOK /\ BracketsFit /\ RestTyped /\ Calling /\ AfterCall /\ stage = "script"
  BY InvTypes DEF CancelAllCall, Calling
<1>2. /\ orders' = NoTrades /\ intents' = <<>> /\ exits' = [t \in TradeIds |-> NoExits]
      /\ quiet' = TRUE /\ UNCHANGED <<stage, open, due>>
  BY DEF CancelAllCall
<1>3. intents' \in Seq(MarketIntents)
  BY <1>2
<1>4. Books
  BY <1>1, <1>2, CancelAllBooks
<1>5. QED
  BY <1>1, <1>2, <1>3, <1>4, BrokerSets, CallKeeps
\* The end of a bar: the signals are through, and what is shown of a resting
\* entry is where its fill will lead from here.
LEMMA NextBarKeeps ==
  ASSUME BrokerInv, NextBar
  PROVE  BrokerInv'
<1> DEFINE anew == mode.live /\ barNo' = EpochBar
<1>1. /\ BrokerTypeOK /\ BracketsFit /\ RestTyped /\ barNo \in Int /\ EpochBar \in Int
      /\ open \in Trades /\ exits \in Brackets /\ orders \in Trades /\ due \in Int
      /\ venue \in Int /\ mode.live \in BOOLEAN
  BY InvTypes, OpenIs, BrokerAssumption DEF RestTyped
<1>2. /\ stage' = "open" /\ calls' = 0 /\ due' = 0 /\ entered' = {} /\ inSession' \in BOOLEAN
      /\ barNo' = barNo + 1 /\ barNo < BrokerBars
      /\ UNCHANGED <<mode, orders, intents, quiet, apart>>
      /\ venue' = (IF mode.live /\ ~quiet /\ barNo >= EpochBar THEN venue + due ELSE venue)
      /\ shown' = (IF mode.live THEN Published ELSE NothingShown)
  BY DEF NextBar
<1>3. /\ anew => open' = NoTrades /\ exits' = [id \in TradeIds |-> NoExits]
      /\ ~anew => open' = open /\ exits' = exits
  BY DEF NextBar
<1> HIDE DEF anew
<1>4. ASSUME NEW id \in TradeIds PROVE Target(id) \in Int
  <2>1. orders[id] \in Amounts
    BY <1>1, OpenIs
  <2>2. Cleared(id, orders[id]) \in Trades
    BY <1>1, <2>1, ClearedIs
  <2>3. Position(Cleared(id, orders[id])) \in Int /\ orders[id] \in Int
    BY <2>1, <2>2, PositionIs, BrokerSets
  <2>4. QED
    BY <2>3 DEF Target
<1>5. /\ mode.live => shown'.position = venue'
      /\ \A id \in TradeIds : shown'.target[id] # 0 =>
           /\ mode.live /\ barNo >= EpochBar /\ shown'.target[id] = Target(id)
      /\ shown'.target \in [TradeIds -> Int] /\ shown'.position \in Int
  <2>1. venue' \in Int
    BY <1>1, <1>2
  <2>2. CASE mode.live
    <3>1. shown' = Published
      BY <1>2, <2>2
    <3>2. Published.position = venue'
      BY DEF Published
    <3>3. \A id \in TradeIds : Published.target[id] \in {0, Target(id)}
                               /\ (Published.target[id] # 0 => barNo >= EpochBar)
      BY <1>1 DEF Published
    <3>4. Published.target = [id \in TradeIds |-> Published.target[id]]
      BY DEF Published
    <3>5. \A id \in TradeIds : Published.target[id] \in Int
      BY <1>4, <3>3
    <3>6. Published.target \in [TradeIds -> Int]
      BY <3>4, <3>5
    <3>7. QED
      BY <2>1, <2>2, <3>1, <3>2, <3>3, <3>6
  <2>3. CASE ~mode.live
    BY <1>2, <2>3 DEF NothingShown, NoTrades
  <2>4. QED
    BY <2>2, <2>3
<1>6. RestTyped'
  <2>1. barNo' \in 0..BrokerBars /\ calls' \in 0..CallsPerBar
    BY <1>1, <1>2, BrokerAssumption DEF RestTyped
  <2>2. venue' \in Int
    BY <1>1, <1>2
  <2>3. QED
    BY <1>1, <1>2, <1>5, <2>1, <2>2 DEF RestTyped
<1>7. open' \in Trades /\ exits' \in Brackets /\ due' \in Int
  BY <1>1, <1>2, <1>3, BrokerSets DEF Brackets
<1>8. BracketsFit'
  <2>1. CASE anew
    <3>1. ASSUME NEW t \in TradeIds PROVE Reserved(exits'[t]) <= Size(open'[t])
      <4>1. exits'[t] = NoExits /\ open'[t] = 0
        BY <1>3, <2>1 DEF NoTrades
      <4>2. QED
        BY <4>1, ReservedIs, SizeIs, BrokerSets
    <3>2. QED
      BY <3>1 DEF BracketsFit
  <2>2. CASE ~anew
    BY <1>1, <1>3, <2>2 DEF BracketsFit
  <2>3. QED
    BY <2>1, <2>2
<1>9. VenueFollows'
  <2>1. SUFFICES ASSUME mode.live, ~mode.nextOpen, ~quiet, ~apart, barNo' >= EpochBar
                 PROVE  venue' + due' = Position(open')
    BY <1>2 DEF VenueFollows, Position
  <2>2. CASE anew
    <3>1. barNo' = EpochBar /\ barNo < EpochBar
      BY <1>1, <1>2, <2>2 DEF anew
    <3>2. venue' = 0
      BY <1>1, <1>2, <2>1, <3>1 DEF BrokerInv, NotYetFollowed
    <3>3. QED
      BY <1>2, <1>3, <2>2, <3>2, PositionIs
  <2>3. CASE ~anew
    <3>1. barNo >= EpochBar
      BY <1>1, <1>2, <2>1, <2>3 DEF anew
    <3>2. venue + due = Position(open)
      BY <2>1, <3>1 DEF BrokerInv, VenueFollows
    <3>3. venue' = venue + due
      BY <1>2, <2>1, <3>1
    <3>4. QED
      BY <1>1, <1>2, <1>3, <2>3, <3>2, <3>3
  <2>4. QED
    BY <2>2, <2>3
<1>10. QueueIsForOpens' /\ NothingDueYet'
  BY <1>2 DEF BrokerInv, QueueIsForOpens, NothingDueYet
<1>11. NotYetFollowed'
  <2>1. SUFFICES ASSUME mode.live, barNo' <= EpochBar
                 PROVE  venue' = 0 /\ \A id \in TradeIds : shown'.target[id] = 0
    BY <1>2 DEF NotYetFollowed
  <2>2. barNo < EpochBar /\ ~(barNo >= EpochBar)
    BY <1>1, <1>2, <2>1
  <2>3. venue = 0
    BY <1>1, <2>1, <2>2 DEF BrokerInv, NotYetFollowed
  <2>4. QED
    BY <1>2, <1>5, <2>2, <2>3
<1>12. ShownIsMeant'
  <2>1. SUFFICES ASSUME mode.live, NEW id \in TradeIds, shown'.target[id] # 0
                 PROVE  shown'.target[id] = Target(id)' /\ shown'.position = venue'
    BY <1>2 DEF ShownIsMeant
  <2>2. barNo >= EpochBar /\ shown'.target[id] = Target(id)
    BY <1>5, <2>1
  <2>3. open' = open /\ orders' = orders
    BY <1>1, <1>2, <1>3, <2>2 DEF anew
  <2>4. Target(id)' = Target(id)
    BY <2>3 DEF Target, Cleared, Position
  <2>5. QED
    BY <1>5, <2>1, <2>2, <2>4
<1>13. BrokerTypeOK'
  BY <1>6, <1>7, TypesAre
     DEF RestTyped, Trades, Brackets, Reservations, Amounts, BrokerTypeOK
<1>14. QED
  BY <1>8, <1>9, <1>10, <1>11, <1>12, <1>13 DEF BrokerInv

-----------------------------------------------------------------------------
(***************************************************************************)
(* The theorems.                                                           *)
(***************************************************************************)
LEMMA BrokerStep ==
  ASSUME BrokerInv, [BrokerNext]_brokerVars
  PROVE  BrokerInv'
<1>1. CASE UNCHANGED brokerVars
  <2>1. UNCHANGED <<mode, barNo, stage, calls, inSession, open, exits, orders, intents, entered,
                    quiet, due, shown, venue, apart>>
    BY <1>1 DEF brokerVars, book
  <2>2. BrokerTypeOK' /\ BracketsFit' /\ VenueFollows' /\ QueueIsForOpens' /\ NothingDueYet'
        /\ NotYetFollowed'
    BY <2>1 DEF BrokerInv, BrokerTypeOK, BracketsFit, VenueFollows, QueueIsForOpens,
                NothingDueYet, NotYetFollowed, Position
  <2>3. \A id : Target(id)' = Target(id)
    BY <2>1 DEF Target, Cleared, Position
  <2>4. ShownIsMeant'
    BY <2>1, <2>3 DEF BrokerInv, ShownIsMeant
  <2>5. QED
    BY <2>2, <2>4 DEF BrokerInv
<1>2. CASE Intent \/ IntentsDone \/ BarClose \/ NextBar
  BY <1>2, IntentKeeps, IntentsDoneKeeps, BarCloseKeeps, NextBarKeeps
<1>3. CASE \E id \in TradeIds : Fill(id) \/ FillRefused(id) \/ Liquidate(id) \/ SeedFromLedger(id)
  BY <1>3, FillKeeps, FillRefusedKeeps, LiquidateKeeps, SeedKeeps
<1>4. CASE \E id \in TradeIds, x \in ExitIds : ExitFills(id, x)
  BY <1>4, ExitFillsKeeps
<1>5. CASE \E id \in TradeIds, q \in Quantities :
             EntryCall(id, q) \/ \E limit \in BOOLEAN : RestingEntryCall(id, q, limit)
  BY <1>5, EntryCallKeeps, RestingEntryCallKeeps
<1>6. CASE \E id \in TradeIds : CloseCall(id)
  BY <1>6, CloseCallKeeps
<1>7. CASE CloseAllCall \/ CancelAllCall
  BY <1>7, CloseAllCallKeeps, CancelAllCallKeeps, BrokerAssumption
<1>8. CASE \E from \in {TradeIds} \cup {{id} : id \in TradeIds}, x \in ExitIds, n \in 1..MaxQty :
             ExitCall(from, x, n)
  <2>1. {TradeIds} \cup {{id} : id \in TradeIds} \subseteq SUBSET TradeIds
    OBVIOUS
  <2>2. QED
    BY <1>8, <2>1, ExitCallKeeps
<1>9. CASE \E name \in TradeIds \cup ExitIds : CancelCall(name)
  BY <1>9, CancelCallKeeps
<1>10. QED
  BY <1>1, <1>2, <1>3, <1>4, <1>5, <1>6, <1>7, <1>8, <1>9 DEF BrokerNext

LEMMA BrokerHolds == BrokerSpec => []BrokerInv
<1>1. BrokerInit => BrokerInv
  BY BrokerStart
<1>2. BrokerInv /\ [BrokerNext]_brokerVars => BrokerInv'
  BY BrokerStep
<1>3. QED
  BY <1>1, <1>2, PTL DEF BrokerSpec

\* Type correctness of the broker of strategy_state.py and its bar loop.
THEOREM BrokerTypes == BrokerSpec => []BrokerTypeOK
<1>1. BrokerInv => BrokerTypeOK
  BY DEF BrokerInv
<1>2. QED
  BY <1>1, BrokerHolds, PTL

\* However a script places, replaces and cancels its exits, and whatever fills
\* partly, is flipped or liquidated: place_exit and check_exit_fills never let
\* the brackets of a trade reserve more than is left of it.
THEOREM BracketsAlwaysFit == BrokerSpec => []BracketsFit
<1>1. BrokerInv => BracketsFit
  BY DEF BrokerInv
<1>2. QED
  BY <1>1, BrokerHolds, PTL

\* An exchange that executes the signals of run_live and moves to the target
\* published for a resting entry that fills holds what the engine believes in,
\* for every strategy that live trading does not refuse.
THEOREM VenueIsFollowed == BrokerSpec => []VenueFollows
<1>1. BrokerInv => VenueFollows
  BY DEF BrokerInv
<1>2. QED
  BY <1>1, BrokerHolds, PTL

-----------------------------------------------------------------------------
(***************************************************************************)
(* The report of the entries.  Its rows:                                   *)
(***************************************************************************)
TryRow ==
  [no : 1..MaxTries, kind : EntryKinds, created : 0..(Until - 1),
   state : {"submitted", "filled", "cancelled", "rejected"},
   filled : {Unread} \cup 1..EntryQty, origin : Origins \cup {"none"}, ended : 0..LastInstant]

\* An order that rests has no fill, a refused one at most a part, and none if it
\* never reached the exchange; only a refusal names an origin.
Attempts ==
  {t \in TryRow :
     /\ t.created <= t.ended
     /\ t.state = "submitted" => t.filled = Unread
     /\ t.state = "rejected" => t.filled \in {Unread, 1}
     /\ t.origin # "none" => t.state = "rejected"
     /\ t.origin = "local" => t.filled = Unread}
Runs == Seq(Attempts)

-----------------------------------------------------------------------------
(***************************************************************************)
(* The folds of the report, one row after another.                         *)
(***************************************************************************)
KindStep(kept, t, kinds) == IF t.kind \in kinds THEN Append(kept, t) ELSE kept
ReachedStep(kept, t) == IF t.origin # "local" THEN Append(kept, t) ELSE kept
CutStep(acc, t, rule) ==
  IF Closes(t, rule) THEN [done |-> Append(acc.done, Append(acc.run, t)), run |-> <<>>]
  ELSE [acc EXCEPT !.run = Append(@, t)]
EventStep(sorted, t) ==
  LET opened == Insert(sorted, OpenEvent(t))
  IN  IF t.state = "submitted" THEN opened ELSE Insert(opened, CloseEvent(t))
CountStep(acc, e) ==
  LET n == acc.now + e.delta IN [now |-> n, peak |-> IF n > acc.peak THEN n ELSE acc.peak]

Event == [at : Int, order : {0}, delta : {1}] \cup [at : Int, order : {1}, delta : {-1}]
Tallies == [now : Int, peak : Int]
Cuts == [done : Seq(Runs), run : Runs]

LEMMA CutsStay ==
  ASSUME NEW rule, NEW acc \in Cuts, NEW t \in Attempts
  PROVE  CutStep(acc, t, rule) \in Cuts
<1>1. Append(acc.run, t) \in Runs /\ acc.done \in Seq(Runs) /\ <<>> \in Runs
  BY DEF Cuts, Runs
<1> DEFINE run == Append(acc.run, t)
<1> HIDE DEF run
<1>2. Append(acc.done, run) \in Seq(Runs) /\ run \in Runs
  BY <1>1 DEF run
<1>3. QED
  BY <1>1, <1>2 DEF CutStep, Cuts, run

\* Each fold of the report starts from its base, stays in its type, and takes one step
\* for a row that is appended: what the inductions over the rows rest on.
LEMMA KindGrows ==
  ASSUME NEW kinds
  PROVE  /\ OfKind(<<>>, kinds) = <<>>
         /\ \A q \in Seq(Attempts) : OfKind(q, kinds) \in Seq(Attempts)
         /\ \A q \in Seq(Attempts), t \in Attempts :
              OfKind(Append(q, t), kinds) = KindStep(OfKind(q, kinds), t, kinds)
<1> DEFINE V == Seq(Attempts)
           base == <<>>
           g == [p \in V \X Attempts |-> KindStep(p[1], p[2], kinds)]
           fold == [q \in Seq(Attempts) |-> OfKind(q, kinds)]
<1>1. base \in V
  OBVIOUS
<1>2. \A v \in V, t \in Attempts : KindStep(v, t, kinds) \in V
  BY DEF KindStep
<1> HIDE DEF V, base
<1>3. \A v \in V, t \in Attempts : g[<<v, t>>] = KindStep(v, t, kinds) /\ g[<<v, t>>] \in V
  BY <1>2
<1>4. /\ \A q \in Seq(Attempts) : fold[q] = OfKind(q, kinds)
      /\ fold[<<>>] = OfKind(<<>>, kinds)
      /\ \A q \in Seq(Attempts), t \in Attempts :
           fold[Append(q, t)] = OfKind(Append(q, t), kinds)
  <2>1. /\ <<>> \in Seq(Attempts)
        /\ \A q \in Seq(Attempts), t \in Attempts : Append(q, t) \in Seq(Attempts)
    OBVIOUS
  <2>2. QED
    BY <2>1
<1> HIDE DEF g, fold
<1>5. StaysIn(Attempts, V, base, g)
  BY <1>1, <1>3 DEF StaysIn
<1>6. ASSUME NEW q \in Seq(Attempts)
      PROVE  \E it : Iterates(q, base, g, V, it) /\ fold[q] = it[DOMAIN q]
  <2> DEFINE D == DOMAIN q
             P(u) == u = [s \in SUBSET D |->
                       IF s = {} THEN base ELSE KindStep(u[s \ {Max(s)}], q[Max(s)], kinds)]
             it == CHOOSE u : P(u)
  <2>1. OfKind(q, kinds) = it[D]
    BY DEF OfKind, KindStep, FoldLeft, MapThenFoldSet, base
  <2>2. PICK w : FoldOf(q, base, g, V, w)
    BY <1>5, FoldExists
  <2>3. /\ w \in [SUBSET D -> V]
        /\ \A s \in SUBSET D :
              w[s] = IF s = {} THEN base ELSE g[<<w[s \ {Max(s)}], q[Max(s)]>>]
    BY <2>2 DEF FoldOf
  <2>4. \A s \in SUBSET D : s # {} => q[Max(s)] \in Attempts
    BY Indices
  <2> HIDE DEF D
  <2>5. \A s \in SUBSET D :
           w[s] = IF s = {} THEN base ELSE KindStep(w[s \ {Max(s)}], q[Max(s)], kinds)
    BY <1>3, <2>3, <2>4
  <2>6. w = [s \in SUBSET D |-> w[s]]
    BY <2>3
  <2>7. P(w)
    BY <2>5, <2>6
  <2>8. P(it)
    <3> HIDE DEF P
    <3>1. QED
      BY <2>7
  <2> HIDE DEF it
  <2>9. \A s \in SUBSET D :
           it[s] = IF s = {} THEN base ELSE KindStep(it[s \ {Max(s)}], q[Max(s)], kinds)
    BY <2>8
  <2>10. Iterates(q, base, g, V, it)
    BY <1>3, <2>4, <2>9 DEF Iterates, D
  <2>11. QED
    BY <1>4, <2>1, <2>10 DEF D
<1>7. /\ fold[<<>>] = base
      /\ \A q \in Seq(Attempts) : fold[q] \in V
      /\ \A q \in Seq(Attempts), t \in Attempts : fold[Append(q, t)] = g[<<fold[q], t>>]
  <2>1. IsFold(Attempts, V, base, g, fold)
    BY <1>6 DEF IsFold
  <2>2. QED
    BY <1>5, <2>1, FoldGrows
<1>8. \A q \in Seq(Attempts), t \in Attempts :
        OfKind(Append(q, t), kinds) = KindStep(OfKind(q, kinds), t, kinds)
  BY <1>3, <1>4, <1>7
<1>9. \A q \in Seq(Attempts) : OfKind(q, kinds) \in V
  BY <1>4, <1>7
<1>10. QED
  BY <1>4, <1>7, <1>8, <1>9 DEF V, base

LEMMA ReachedGrows ==
  /\ Reached(<<>>) = <<>>
  /\ \A q \in Seq(Attempts) : Reached(q) \in Seq(Attempts)
  /\ \A q \in Seq(Attempts), t \in Attempts :
              Reached(Append(q, t)) = ReachedStep(Reached(q), t)
<1> DEFINE V == Seq(Attempts)
           base == <<>>
           g == [p \in V \X Attempts |-> ReachedStep(p[1], p[2])]
           fold == [q \in Seq(Attempts) |-> Reached(q)]
<1>1. base \in V
  OBVIOUS
<1>2. \A v \in V, t \in Attempts : ReachedStep(v, t) \in V
  BY DEF ReachedStep
<1> HIDE DEF V, base
<1>3. \A v \in V, t \in Attempts : g[<<v, t>>] = ReachedStep(v, t) /\ g[<<v, t>>] \in V
  BY <1>2
<1>4. /\ \A q \in Seq(Attempts) : fold[q] = Reached(q)
      /\ fold[<<>>] = Reached(<<>>)
      /\ \A q \in Seq(Attempts), t \in Attempts :
           fold[Append(q, t)] = Reached(Append(q, t))
  <2>1. /\ <<>> \in Seq(Attempts)
        /\ \A q \in Seq(Attempts), t \in Attempts : Append(q, t) \in Seq(Attempts)
    OBVIOUS
  <2>2. QED
    BY <2>1
<1> HIDE DEF g, fold
<1>5. StaysIn(Attempts, V, base, g)
  BY <1>1, <1>3 DEF StaysIn
<1>6. ASSUME NEW q \in Seq(Attempts)
      PROVE  \E it : Iterates(q, base, g, V, it) /\ fold[q] = it[DOMAIN q]
  <2> DEFINE D == DOMAIN q
             P(u) == u = [s \in SUBSET D |->
                       IF s = {} THEN base ELSE ReachedStep(u[s \ {Max(s)}], q[Max(s)])]
             it == CHOOSE u : P(u)
  <2>1. Reached(q) = it[D]
    BY DEF Reached, ReachedStep, FoldLeft, MapThenFoldSet, base
  <2>2. PICK w : FoldOf(q, base, g, V, w)
    BY <1>5, FoldExists
  <2>3. /\ w \in [SUBSET D -> V]
        /\ \A s \in SUBSET D :
              w[s] = IF s = {} THEN base ELSE g[<<w[s \ {Max(s)}], q[Max(s)]>>]
    BY <2>2 DEF FoldOf
  <2>4. \A s \in SUBSET D : s # {} => q[Max(s)] \in Attempts
    BY Indices
  <2> HIDE DEF D
  <2>5. \A s \in SUBSET D :
           w[s] = IF s = {} THEN base ELSE ReachedStep(w[s \ {Max(s)}], q[Max(s)])
    BY <1>3, <2>3, <2>4
  <2>6. w = [s \in SUBSET D |-> w[s]]
    BY <2>3
  <2>7. P(w)
    BY <2>5, <2>6
  <2>8. P(it)
    <3> HIDE DEF P
    <3>1. QED
      BY <2>7
  <2> HIDE DEF it
  <2>9. \A s \in SUBSET D :
           it[s] = IF s = {} THEN base ELSE ReachedStep(it[s \ {Max(s)}], q[Max(s)])
    BY <2>8
  <2>10. Iterates(q, base, g, V, it)
    BY <1>3, <2>4, <2>9 DEF Iterates, D
  <2>11. QED
    BY <1>4, <2>1, <2>10 DEF D
<1>7. /\ fold[<<>>] = base
      /\ \A q \in Seq(Attempts) : fold[q] \in V
      /\ \A q \in Seq(Attempts), t \in Attempts : fold[Append(q, t)] = g[<<fold[q], t>>]
  <2>1. IsFold(Attempts, V, base, g, fold)
    BY <1>6 DEF IsFold
  <2>2. QED
    BY <1>5, <2>1, FoldGrows
<1>8. \A q \in Seq(Attempts), t \in Attempts :
        Reached(Append(q, t)) = ReachedStep(Reached(q), t)
  BY <1>3, <1>4, <1>7
<1>9. \A q \in Seq(Attempts) : Reached(q) \in V
  BY <1>4, <1>7
<1>10. QED
  BY <1>4, <1>7, <1>8, <1>9 DEF V, base

LEMMA CutGrows ==
  ASSUME NEW rule
  PROVE  /\ Cut(<<>>, rule) = [done |-> <<>>, run |-> <<>>]
         /\ \A q \in Seq(Attempts) : Cut(q, rule) \in Cuts
         /\ \A q \in Seq(Attempts), t \in Attempts :
              Cut(Append(q, t), rule) = CutStep(Cut(q, rule), t, rule)
<1> DEFINE V == Cuts
           base == [done |-> <<>>, run |-> <<>>]
           g == [p \in V \X Attempts |-> CutStep(p[1], p[2], rule)]
           fold == [q \in Seq(Attempts) |-> Cut(q, rule)]
<1>1. base \in V
  BY DEF Cuts, Runs
<1>2. \A v \in V, t \in Attempts : CutStep(v, t, rule) \in V
  BY CutsStay
<1> HIDE DEF V, base
<1>3. \A v \in V, t \in Attempts : g[<<v, t>>] = CutStep(v, t, rule) /\ g[<<v, t>>] \in V
  BY <1>2
<1>4. /\ \A q \in Seq(Attempts) : fold[q] = Cut(q, rule)
      /\ fold[<<>>] = Cut(<<>>, rule)
      /\ \A q \in Seq(Attempts), t \in Attempts :
           fold[Append(q, t)] = Cut(Append(q, t), rule)
  <2>1. /\ <<>> \in Seq(Attempts)
        /\ \A q \in Seq(Attempts), t \in Attempts : Append(q, t) \in Seq(Attempts)
    OBVIOUS
  <2>2. QED
    BY <2>1
<1> HIDE DEF g, fold
<1>5. StaysIn(Attempts, V, base, g)
  BY <1>1, <1>3 DEF StaysIn
<1>6. ASSUME NEW q \in Seq(Attempts)
      PROVE  \E it : Iterates(q, base, g, V, it) /\ fold[q] = it[DOMAIN q]
  <2> DEFINE D == DOMAIN q
             P(u) == u = [s \in SUBSET D |->
                       IF s = {} THEN base ELSE CutStep(u[s \ {Max(s)}], q[Max(s)], rule)]
             it == CHOOSE u : P(u)
  <2>1. Cut(q, rule) = it[D]
    BY DEF Cut, CutStep, FoldLeft, MapThenFoldSet, base
  <2>2. PICK w : FoldOf(q, base, g, V, w)
    BY <1>5, FoldExists
  <2>3. /\ w \in [SUBSET D -> V]
        /\ \A s \in SUBSET D :
              w[s] = IF s = {} THEN base ELSE g[<<w[s \ {Max(s)}], q[Max(s)]>>]
    BY <2>2 DEF FoldOf
  <2>4. \A s \in SUBSET D : s # {} => q[Max(s)] \in Attempts
    BY Indices
  <2> HIDE DEF D
  <2>5. \A s \in SUBSET D :
           w[s] = IF s = {} THEN base ELSE CutStep(w[s \ {Max(s)}], q[Max(s)], rule)
    BY <1>3, <2>3, <2>4
  <2>6. w = [s \in SUBSET D |-> w[s]]
    BY <2>3
  <2>7. P(w)
    BY <2>5, <2>6
  <2>8. P(it)
    <3> HIDE DEF P
    <3>1. QED
      BY <2>7
  <2> HIDE DEF it
  <2>9. \A s \in SUBSET D :
           it[s] = IF s = {} THEN base ELSE CutStep(it[s \ {Max(s)}], q[Max(s)], rule)
    BY <2>8
  <2>10. Iterates(q, base, g, V, it)
    BY <1>3, <2>4, <2>9 DEF Iterates, D
  <2>11. QED
    BY <1>4, <2>1, <2>10 DEF D
<1>7. /\ fold[<<>>] = base
      /\ \A q \in Seq(Attempts) : fold[q] \in V
      /\ \A q \in Seq(Attempts), t \in Attempts : fold[Append(q, t)] = g[<<fold[q], t>>]
  <2>1. IsFold(Attempts, V, base, g, fold)
    BY <1>6 DEF IsFold
  <2>2. QED
    BY <1>5, <2>1, FoldGrows
<1>8. \A q \in Seq(Attempts), t \in Attempts :
        Cut(Append(q, t), rule) = CutStep(Cut(q, rule), t, rule)
  BY <1>3, <1>4, <1>7
<1>9. \A q \in Seq(Attempts) : Cut(q, rule) \in V
  BY <1>4, <1>7
<1>10. QED
  BY <1>4, <1>7, <1>8, <1>9 DEF V, base

LEMMA CountGrows ==
  /\ Concurrent(<<>>) = [now |-> 0, peak |-> 0]
  /\ \A q \in Seq(Event) : Concurrent(q) \in Tallies
  /\ \A q \in Seq(Event), t \in Event :
              Concurrent(Append(q, t)) = CountStep(Concurrent(q), t)
<1> DEFINE V == Tallies
           base == [now |-> 0, peak |-> 0]
           g == [p \in V \X Event |-> CountStep(p[1], p[2])]
           fold == [q \in Seq(Event) |-> Concurrent(q)]
<1>1. base \in V
  BY DEF Tallies
<1>2. \A v \in V, t \in Event : CountStep(v, t) \in V
  BY DEF CountStep, Tallies, Event
<1> HIDE DEF V, base
<1>3. \A v \in V, t \in Event : g[<<v, t>>] = CountStep(v, t) /\ g[<<v, t>>] \in V
  BY <1>2
<1>4. /\ \A q \in Seq(Event) : fold[q] = Concurrent(q)
      /\ fold[<<>>] = Concurrent(<<>>)
      /\ \A q \in Seq(Event), t \in Event :
           fold[Append(q, t)] = Concurrent(Append(q, t))
  <2>1. /\ <<>> \in Seq(Event)
        /\ \A q \in Seq(Event), t \in Event : Append(q, t) \in Seq(Event)
    OBVIOUS
  <2>2. QED
    BY <2>1
<1> HIDE DEF g, fold
<1>5. StaysIn(Event, V, base, g)
  BY <1>1, <1>3 DEF StaysIn
<1>6. ASSUME NEW q \in Seq(Event)
      PROVE  \E it : Iterates(q, base, g, V, it) /\ fold[q] = it[DOMAIN q]
  <2> DEFINE D == DOMAIN q
             P(u) == u = [s \in SUBSET D |->
                       IF s = {} THEN base ELSE CountStep(u[s \ {Max(s)}], q[Max(s)])]
             it == CHOOSE u : P(u)
  <2>1. Concurrent(q) = it[D]
    BY DEF Concurrent, CountStep, FoldLeft, MapThenFoldSet, base
  <2>2. PICK w : FoldOf(q, base, g, V, w)
    BY <1>5, FoldExists
  <2>3. /\ w \in [SUBSET D -> V]
        /\ \A s \in SUBSET D :
              w[s] = IF s = {} THEN base ELSE g[<<w[s \ {Max(s)}], q[Max(s)]>>]
    BY <2>2 DEF FoldOf
  <2>4. \A s \in SUBSET D : s # {} => q[Max(s)] \in Event
    BY Indices
  <2> HIDE DEF D
  <2>5. \A s \in SUBSET D :
           w[s] = IF s = {} THEN base ELSE CountStep(w[s \ {Max(s)}], q[Max(s)])
    BY <1>3, <2>3, <2>4
  <2>6. w = [s \in SUBSET D |-> w[s]]
    BY <2>3
  <2>7. P(w)
    BY <2>5, <2>6
  <2>8. P(it)
    <3> HIDE DEF P
    <3>1. QED
      BY <2>7
  <2> HIDE DEF it
  <2>9. \A s \in SUBSET D :
           it[s] = IF s = {} THEN base ELSE CountStep(it[s \ {Max(s)}], q[Max(s)])
    BY <2>8
  <2>10. Iterates(q, base, g, V, it)
    BY <1>3, <2>4, <2>9 DEF Iterates, D
  <2>11. QED
    BY <1>4, <2>1, <2>10 DEF D
<1>7. /\ fold[<<>>] = base
      /\ \A q \in Seq(Event) : fold[q] \in V
      /\ \A q \in Seq(Event), t \in Event : fold[Append(q, t)] = g[<<fold[q], t>>]
  <2>1. IsFold(Event, V, base, g, fold)
    BY <1>6 DEF IsFold
  <2>2. QED
    BY <1>5, <2>1, FoldGrows
<1>8. \A q \in Seq(Event), t \in Event :
        Concurrent(Append(q, t)) = CountStep(Concurrent(q), t)
  BY <1>3, <1>4, <1>7
<1>9. \A q \in Seq(Event) : Concurrent(q) \in V
  BY <1>4, <1>7
<1>10. QED
  BY <1>4, <1>7, <1>8, <1>9 DEF V, base

-----------------------------------------------------------------------------
(***************************************************************************)
(* A later report: rows that were open have changed.                       *)
(***************************************************************************)
Fades(t, u) == u = t \/ (t.state = "submitted" /\ u.kind = t.kind)
Faded(q, r) == Len(r) = Len(q) /\ \A i \in 1..Len(q) : Fades(q[i], r[i])

LEMMA FadedSplits ==
  ASSUME NEW q \in Runs, NEW t \in Attempts, NEW r \in Runs, Faded(Append(q, t), r)
  PROVE  \E f \in Runs, u \in Attempts : r = Append(f, u) /\ Faded(q, f) /\ Fades(t, u)
<1> USE DEF Runs
<1>1. /\ Len(q) \in Nat /\ Append(q, t) \in Seq(Attempts) /\ Len(Append(q, t)) = Len(q) + 1
      /\ Append(q, t)[Len(q) + 1] = t
      /\ \A i \in 1..Len(q) : Append(q, t)[i] = q[i]
  BY LenProperties, AppendProperties
<1>2. Len(r) = Len(q) + 1 /\ r # <<>>
  BY <1>1 DEF Faded
<1>3. PICK f \in Seq(Attempts), u \in Attempts : r = Append(f, u)
  BY <1>2, SequenceEmptyOrAppend
<1>4. Len(f) = Len(q) /\ r[Len(q) + 1] = u /\ \A i \in 1..Len(q) : r[i] = f[i]
  <2>1. Len(f) \in Nat /\ Len(r) = Len(f) + 1
    BY <1>3, LenProperties, AppendProperties
  <2>2. Len(f) = Len(q)
    BY <1>1, <1>2, <2>1
  <2>3. QED
    BY <1>3, <2>2, AppendProperties
<1>5. Fades(Append(q, t)[Len(q) + 1], r[Len(q) + 1])
  BY <1>1, <1>2 DEF Faded
<1>6. ASSUME NEW i \in 1..Len(q) PROVE Fades(q[i], f[i])
  <2>1. i \in 1..Len(Append(q, t))
    BY <1>1
  <2>2. Fades(Append(q, t)[i], r[i])
    BY <2>1 DEF Faded
  <2>3. QED
    BY <1>1, <1>4, <2>2
<1>7. QED
  BY <1>1, <1>3, <1>4, <1>5, <1>6 DEF Faded

LEMMA FadedGrows ==
  ASSUME NEW q \in Runs, NEW f \in Runs, NEW t \in Attempts, NEW u \in Attempts,
         Faded(q, f), Fades(t, u)
  PROVE  Faded(Append(q, t), Append(f, u))
<1> USE DEF Runs
<1>1. /\ Len(q) \in Nat /\ Len(f) = Len(q)
      /\ Len(Append(q, t)) = Len(q) + 1 /\ Len(Append(f, u)) = Len(q) + 1
      /\ Append(q, t)[Len(q) + 1] = t /\ Append(f, u)[Len(q) + 1] = u
      /\ \A i \in 1..Len(q) : Append(q, t)[i] = q[i] /\ Append(f, u)[i] = f[i]
  <2>1. Len(q) \in Nat /\ Len(f) = Len(q)
    BY LenProperties DEF Faded
  <2>2. QED
    BY <2>1, AppendProperties
<1>2. ASSUME NEW i \in 1..(Len(q) + 1) PROVE Fades(Append(q, t)[i], Append(f, u)[i])
  <2>1. CASE i = Len(q) + 1
    BY <1>1, <2>1
  <2>2. CASE i # Len(q) + 1
    <3>1. i \in 1..Len(q)
      BY <1>1, <2>2
    <3>2. QED
      BY <1>1, <3>1 DEF Faded
  <2>3. QED
    BY <2>1, <2>2
<1>3. QED
  BY <1>1, <1>2 DEF Faded

LEMMA KindFades ==
  ASSUME NEW kinds
  PROVE  \A q, r \in Runs : Faded(q, r) => Faded(OfKind(q, kinds), OfKind(r, kinds))
<1> DEFINE X == {q \in Runs : \A r \in Runs : Faded(q, r) => Faded(OfKind(q, kinds), OfKind(r, kinds))}
<1>1. <<>> \in X
  <2>1. SUFFICES ASSUME NEW r \in Runs, Faded(<<>>, r)
                 PROVE  Faded(OfKind(<<>>, kinds), OfKind(r, kinds))
    BY DEF Runs
  <2>2. r = <<>>
    BY <2>1 DEF Faded, Runs
  <2>3. QED
    BY <2>2, <2>1, KindGrows
<1>2. ASSUME NEW q \in Seq(Attempts), NEW t \in Attempts, q \in X
      PROVE  Append(q, t) \in X
  <2>1. Append(q, t) \in Runs /\ q \in Runs
    BY DEF Runs
  <2>2. SUFFICES ASSUME NEW r \in Runs, Faded(Append(q, t), r)
                 PROVE  Faded(OfKind(Append(q, t), kinds), OfKind(r, kinds))
    BY <2>1
  <2>3. PICK f \in Runs, u \in Attempts : r = Append(f, u) /\ Faded(q, f) /\ Fades(t, u)
    BY <2>1, <2>2, FadedSplits
  <2>4. Faded(OfKind(q, kinds), OfKind(f, kinds))
    BY <1>2, <2>3
  <2>5. /\ OfKind(q, kinds) \in Runs /\ OfKind(f, kinds) \in Runs
        /\ OfKind(Append(q, t), kinds) = KindStep(OfKind(q, kinds), t, kinds)
        /\ OfKind(r, kinds) = KindStep(OfKind(f, kinds), u, kinds)
    BY <2>1, <2>3, KindGrows DEF Runs
  <2>6. u.kind = t.kind
    BY <2>3 DEF Fades
  <2>7. CASE t.kind \in kinds
    BY <2>3, <2>4, <2>5, <2>6, <2>7, FadedGrows DEF KindStep
  <2>8. CASE t.kind \notin kinds
    BY <2>4, <2>5, <2>6, <2>8 DEF KindStep
  <2>9. QED
    BY <2>7, <2>8
<1> HIDE DEF X
<1>3. Seq(Attempts) \subseteq X
  BY <1>1, <1>2, GrowsToAll
<1>4. QED
  BY <1>3 DEF X, Runs

\* A run in which every order has ended.
Ended(run) == \A i \in DOMAIN run : run[i].state # "submitted"
CutsFade(a, b) ==
  /\ \A run \in ToSet(a.done) : Ended(run) => run \in ToSet(b.done)
  /\ Ended(a.run) => b.run = a.run

LEMMA AppendedSet ==
  ASSUME NEW T, NEW q \in Seq(T), NEW t \in T
  PROVE  ToSet(Append(q, t)) = ToSet(q) \cup {t}
<1>1. /\ Len(q) \in Nat /\ Append(q, t)[Len(q) + 1] = t
      /\ DOMAIN q = 1..Len(q) /\ DOMAIN Append(q, t) = 1..(Len(q) + 1)
      /\ \A i \in 1..Len(q) : Append(q, t)[i] = q[i]
  BY LenProperties, AppendProperties
<1>2. DOMAIN Append(q, t) = DOMAIN q \cup {Len(q) + 1}
  BY <1>1
<1>3. QED
  BY <1>1, <1>2 DEF ToSet

LEMMA EndedGrows ==
  ASSUME NEW run \in Runs, NEW t \in Attempts, Ended(Append(run, t))
  PROVE  Ended(run) /\ t.state # "submitted"
<1>1. /\ Len(run) \in Nat /\ Append(run, t)[Len(run) + 1] = t
      /\ DOMAIN run = 1..Len(run) /\ DOMAIN Append(run, t) = 1..(Len(run) + 1)
      /\ \A i \in 1..Len(run) : Append(run, t)[i] = run[i]
  BY LenProperties, AppendProperties DEF Runs
<1>2. Len(run) + 1 \in DOMAIN Append(run, t) /\ DOMAIN run \subseteq DOMAIN Append(run, t)
  BY <1>1
<1>3. QED
  BY <1>1, <1>2 DEF Ended

LEMMA OpenStaysOpen ==
  ASSUME NEW t \in Attempts, NEW rule, t.state = "submitted"
  PROVE  ~Closes(t, rule) /\ Deferred(t) /\ ~HasFill(t)
BY DEF Attempts, Closes, HasFill, CountsAsLoss, Bucket, Deferred, Unread

LEMMA CutFades ==
  ASSUME NEW rule
  PROVE  \A q, r \in Runs : Faded(q, r) => CutsFade(Cut(q, rule), Cut(r, rule))
<1> DEFINE X == {q \in Runs : \A r \in Runs : Faded(q, r) => CutsFade(Cut(q, rule), Cut(r, rule))}
<1>1. <<>> \in X
  <2>1. SUFFICES ASSUME NEW r \in Runs, Faded(<<>>, r)
                 PROVE  CutsFade(Cut(<<>>, rule), Cut(r, rule))
    BY DEF Runs
  <2>2. r = <<>>
    BY <2>1 DEF Faded, Runs
  <2>3. QED
    BY <2>2 DEF CutsFade
<1>2. ASSUME NEW q \in Seq(Attempts), NEW t \in Attempts, q \in X
      PROVE  Append(q, t) \in X
  <2>1. Append(q, t) \in Runs /\ q \in Runs
    BY DEF Runs
  <2>2. SUFFICES ASSUME NEW r \in Runs, Faded(Append(q, t), r)
                 PROVE  CutsFade(Cut(Append(q, t), rule), Cut(r, rule))
    BY <2>1
  <2>3. PICK f \in Runs, u \in Attempts : r = Append(f, u) /\ Faded(q, f) /\ Fades(t, u)
    BY <2>1, <2>2, FadedSplits
  <2> DEFINE a == Cut(q, rule)
             b == Cut(f, rule)
  <2>4. CutsFade(a, b)
    BY <1>2, <2>3
  <2>5. /\ a \in Cuts /\ b \in Cuts
        /\ Cut(Append(q, t), rule) = CutStep(a, t, rule)
        /\ Cut(r, rule) = CutStep(b, u, rule)
    BY <2>1, <2>3, CutGrows DEF Runs
  <2> HIDE DEF a, b
  <2>6. /\ a.run \in Runs /\ b.run \in Runs /\ a.done \in Seq(Runs) /\ b.done \in Seq(Runs)
        /\ Append(a.run, t) \in Runs /\ Append(b.run, u) \in Runs
    BY <2>5 DEF Cuts, Runs
  <2>7. /\ ToSet(Append(a.done, Append(a.run, t))) = ToSet(a.done) \cup {Append(a.run, t)}
        /\ ToSet(Append(b.done, Append(b.run, u))) = ToSet(b.done) \cup {Append(b.run, u)}
    <3> DEFINE ra == Append(a.run, t)
               rb == Append(b.run, u)
    <3>1. a.done \in Seq(Runs) /\ b.done \in Seq(Runs) /\ ra \in Runs /\ rb \in Runs
      BY <2>6
    <3> HIDE DEF ra, rb
    <3>2. /\ ToSet(Append(a.done, ra)) = ToSet(a.done) \cup {ra}
          /\ ToSet(Append(b.done, rb)) = ToSet(b.done) \cup {rb}
      BY <3>1, AppendedSet
    <3>3. QED
      BY <3>2 DEF ra, rb
  <2>8. Ended(Append(a.run, t)) => u = t /\ b.run = a.run
    BY <2>3, <2>4, <2>6, EndedGrows DEF Fades, CutsFade
  <2>9. t.state = "submitted" => ~Closes(t, rule)
    BY OpenStaysOpen
  <2>10. ToSet(b.done) \subseteq ToSet(CutStep(b, u, rule).done)
    BY <2>5, <2>7 DEF CutStep, Cuts
  <2>11. CASE Closes(t, rule)
    <3>1. u = t
      BY <2>3, <2>9, <2>11 DEF Fades
    <3>2. /\ CutStep(a, t, rule).done = Append(a.done, Append(a.run, t))
          /\ CutStep(b, u, rule).done = Append(b.done, Append(b.run, u))
          /\ CutStep(a, t, rule).run = CutStep(b, u, rule).run
      BY <2>11, <3>1 DEF CutStep
    <3>3. QED
      BY <2>4, <2>5, <2>7, <2>8, <3>2 DEF CutsFade
  <2>12. CASE ~Closes(t, rule)
    <3>1. CutStep(a, t, rule).done = a.done /\ CutStep(a, t, rule).run = Append(a.run, t)
      BY <2>5, <2>12 DEF CutStep, Cuts
    <3>2. Ended(Append(a.run, t)) => CutStep(b, u, rule).run = Append(b.run, u)
      BY <2>5, <2>8, <2>12 DEF CutStep, Cuts
    <3>3. QED
      BY <2>4, <2>5, <2>8, <2>10, <3>1, <3>2 DEF CutsFade
  <2>13. QED
    BY <2>11, <2>12
<1> HIDE DEF X
<1>3. Seq(Attempts) \subseteq X
  BY <1>1, <1>2, GrowsToAll
<1>4. QED
  BY <1>3 DEF X, Runs

LEMMA EpisodesFade ==
  ASSUME NEW rule, NEW q \in Runs, NEW r \in Runs, Faded(q, r),
         NEW run \in ToSet(Episodes(q, rule)), Ended(run)
  PROVE  run \in ToSet(Episodes(r, rule))
<1> DEFINE a == Cut(q, rule)
           b == Cut(r, rule)
<1>1. a \in Cuts /\ b \in Cuts /\ CutsFade(a, b)
  BY CutFades, CutGrows DEF Runs
<1>2. /\ Episodes(q, rule) = IF a.run = <<>> THEN a.done ELSE Append(a.done, a.run)
      /\ Episodes(r, rule) = IF b.run = <<>> THEN b.done ELSE Append(b.done, b.run)
  BY DEF Episodes
<1> HIDE DEF a, b
<1>3. /\ ToSet(Append(a.done, a.run)) = ToSet(a.done) \cup {a.run}
      /\ ToSet(Append(b.done, b.run)) = ToSet(b.done) \cup {b.run}
  BY <1>1, AppendedSet DEF Cuts
<1>4. QED
  BY <1>1, <1>2, <1>3 DEF CutsFade

LEMMA EpisodesAreRuns ==
  ASSUME NEW rule, NEW q \in Runs
  PROVE  Episodes(q, rule) \in Seq(Runs)
<1> DEFINE a == Cut(q, rule)
<1>1. a \in Cuts
  BY CutGrows DEF Runs
<1>2. Episodes(q, rule) = IF a.run = <<>> THEN a.done ELSE Append(a.done, a.run)
  BY DEF Episodes
<1> HIDE DEF a
<1>3. a.done \in Seq(Runs) /\ Append(a.done, a.run) \in Seq(Runs)
  BY <1>1 DEF Cuts
<1>4. QED
  BY <1>2, <1>3

LEMMA SettledEnded ==
  ASSUME NEW run \in Runs, ~EpisodeDeferred(run)
  PROVE  Ended(run)
<1>1. ASSUME NEW i \in DOMAIN run PROVE run[i] \in Attempts /\ ~Deferred(run[i])
  BY DEF EpisodeDeferred, Some, Runs
<1>2. QED
  BY <1>1, OpenStaysOpen DEF Ended

LEMMA SettledFades ==
  ASSUME NEW rule, NEW q \in Runs, NEW r \in Runs, Faded(q, r)
  PROVE  Layer(q, rule).settled \subseteq Layer(r, rule).settled
<1> DEFINE c == Conditional(q)
           d == Conditional(r)
<1>1. c \in Runs /\ d \in Runs /\ Faded(c, d)
  BY KindFades, KindGrows DEF Conditional, Runs
<1> DEFINE S(rows) ==
         {[rows |-> [i \in DOMAIN run |-> run[i].no], outcome |-> EpisodeOutcome(run)] :
            run \in {x \in ToSet(Episodes(rows, rule)) : ~EpisodeDeferred(x) /\ EpisodeOutcome(x) # "open"}}
<1>2. Layer(q, rule).settled = S(c) /\ Layer(r, rule).settled = S(d)
  BY DEF Layer
<1> HIDE DEF c, d
<1>3. ASSUME NEW run \in ToSet(Episodes(c, rule)), ~EpisodeDeferred(run)
      PROVE  run \in ToSet(Episodes(d, rule))
  <2>1. run \in Runs
    BY <1>1, EpisodesAreRuns DEF ToSet
  <2>2. QED
    BY <1>1, <1>3, <2>1, SettledEnded, EpisodesFade
<1>4. S(c) \subseteq S(d)
  BY <1>3
<1>5. QED
  BY <1>2, <1>4

-----------------------------------------------------------------------------
(***************************************************************************)
(* What the layers count.                                                  *)
(***************************************************************************)
AnyFill(run) == \E i \in DOMAIN run : HasFill(run[i])
AnyOpen(run) == \E i \in DOMAIN run : Bucket(run[i]) = "open"
AnyLoss(run) == \E i \in DOMAIN run : CountsAsLoss(run[i])

LEMMA BucketIs ==
  ASSUME NEW t \in Attempts
  PROVE  /\ HasFill(t) <=> Bucket(t) = "has_fill"
         /\ CountsAsLoss(t) => ~HasFill(t) /\ Bucket(t) # "open"
         /\ t.origin = "local" => ~HasFill(t) /\ Bucket(t) # "open" /\ ~CountsAsLoss(t)
BY DEF Attempts, HasFill, CountsAsLoss, Bucket, Unread

LEMMA OutcomeIs ==
  ASSUME NEW run \in Runs
  PROVE  EpisodeOutcome(run) = IF AnyFill(run) THEN "won" ELSE IF AnyOpen(run) THEN "open"
                               ELSE IF AnyLoss(run) THEN "lost" ELSE "abandoned"
<1>1. \A i \in DOMAIN run : HasFill(run[i]) <=> Bucket(run[i]) = "has_fill"
  BY BucketIs DEF Runs
<1>2. /\ Some(run, HasFill) <=> AnyFill(run)
      /\ Some(run, LAMBDA t : Bucket(t) = "open") <=> AnyOpen(run)
      /\ Some(run, LAMBDA t : Bucket(t) \in {"has_fill", "open"}) <=> AnyFill(run) \/ AnyOpen(run)
      /\ Some(run, CountsAsLoss) <=> AnyLoss(run)
  BY <1>1 DEF Some, AnyFill, AnyOpen, AnyLoss
<1>3. QED
  BY <1>2 DEF EpisodeOutcome

LEMMA AnyOfGrown ==
  ASSUME NEW run \in Runs, NEW t \in Attempts
  PROVE  /\ AnyFill(Append(run, t)) <=> AnyFill(run) \/ HasFill(t)
         /\ AnyOpen(Append(run, t)) <=> AnyOpen(run) \/ Bucket(t) = "open"
         /\ AnyLoss(Append(run, t)) <=> AnyLoss(run) \/ CountsAsLoss(t)
<1> DEFINE a == Append(run, t)
           n == Len(run) + 1
<1>1. a[n] = t /\ DOMAIN a = DOMAIN run \cup {n} /\ \A i \in DOMAIN run : a[i] = run[i]
  <2>1. /\ Len(run) \in Nat /\ a[n] = t /\ DOMAIN run = 1..Len(run) /\ DOMAIN a = 1..n
        /\ \A i \in 1..Len(run) : a[i] = run[i]
    BY LenProperties, AppendProperties DEF Runs
  <2>2. QED
    BY <2>1
<1> HIDE DEF a, n
<1>2. /\ AnyFill(a) <=> AnyFill(run) \/ HasFill(t)
      /\ AnyOpen(a) <=> AnyOpen(run) \/ Bucket(t) = "open"
      /\ AnyLoss(a) <=> AnyLoss(run) \/ CountsAsLoss(t)
  BY <1>1 DEF AnyFill, AnyOpen, AnyLoss
<1>3. QED
  BY <1>2 DEF a

LEMMA AnyOfNone == ~AnyFill(<<>>) /\ ~AnyOpen(<<>>) /\ ~AnyLoss(<<>>)
BY DEF AnyFill, AnyOpen, AnyLoss

Fills == {t \in Attempts : HasFill(t)}
Losses == {t \in Attempts : CountsAsLoss(t)}
With(outcome) == {run \in Runs : EpisodeOutcome(run) = outcome}
LostOpen == {run \in Runs : EpisodeOutcome(run) = "open" /\ Some(run, CountsAsLoss)}

LEMMA LostOpenIs ==
  ASSUME NEW run \in Runs
  PROVE  run \in LostOpen <=> ~AnyFill(run) /\ AnyOpen(run) /\ AnyLoss(run)
<1>1. Some(run, CountsAsLoss) <=> AnyLoss(run)
  BY DEF Some, AnyLoss
<1>2. QED
  BY <1>1, OutcomeIs DEF LostOpen

LEMMA LayerIs ==
  ASSUME NEW q \in Runs, NEW rule
  PROVE  LET episodes == Episodes(Conditional(q), rule)
             layer == Layer(q, rule)
         IN  /\ episodes \in Seq(Runs)
             /\ layer.won = Count(episodes, With("won"))
             /\ layer.lost = Count(episodes, With("lost"))
             /\ layer.open = Count(episodes, With("open"))
             /\ layer.abandoned = Count(episodes, With("abandoned"))
             /\ layer.openAfterRejection = Count(episodes, LostOpen)
<1> DEFINE c == Conditional(q)
           episodes == Episodes(c, rule)
<1>1. c \in Runs
  BY KindGrows DEF Conditional, Runs
<1> HIDE DEF c
<1>2. episodes \in Seq(Runs)
  BY <1>1, EpisodesAreRuns
<1>3. \A i \in DOMAIN episodes : episodes[i] \in Runs
  BY <1>2
<1> HIDE DEF episodes
<1>4. /\ \A outcome : {i \in DOMAIN episodes : EpisodeOutcome(episodes[i]) = outcome}
                     = {i \in DOMAIN episodes : episodes[i] \in With(outcome)}
      /\ {i \in DOMAIN episodes : EpisodeOutcome(episodes[i]) = "open" /\ Some(episodes[i], CountsAsLoss)}
           = {i \in DOMAIN episodes : episodes[i] \in LostOpen}
  BY <1>3 DEF With, LostOpen
<1>5. /\ Layer(q, rule).won = Count(episodes, With("won"))
      /\ Layer(q, rule).lost = Count(episodes, With("lost"))
      /\ Layer(q, rule).open = Count(episodes, With("open"))
      /\ Layer(q, rule).abandoned = Count(episodes, With("abandoned"))
      /\ Layer(q, rule).openAfterRejection = Count(episodes, LostOpen)
  BY <1>4 DEF Layer, Number, Count, c, episodes
<1>6. QED
  BY <1>2, <1>5 DEF c, episodes

-----------------------------------------------------------------------------
(***************************************************************************)
(* Both rules find a win for each fill, and the second a loss for each     *)
(* lost rejection, or leaves it visible behind an open order.              *)
(***************************************************************************)
Second == "fill_or_rejection_closes"

CutRight(q, rule, a) ==
  /\ Count(a.done, With("won")) = Count(q, Fills)
  /\ ~AnyFill(a.run)
  /\ rule = Second =>
       /\ Count(a.done, With("lost")) + Count(a.done, LostOpen) = Count(q, Losses)
       /\ ~AnyLoss(a.run)

LEMMA CutIsRight ==
  ASSUME NEW rule
  PROVE  \A q \in Runs : CutRight(q, rule, Cut(q, rule))
<1> DEFINE X == {q \in Runs : CutRight(q, rule, Cut(q, rule))}
<1>1. <<>> \in X
  <2>1. /\ Cut(<<>>, rule).done = <<>> /\ Cut(<<>>, rule).run = <<>> /\ <<>> \in Runs
    BY CutGrows DEF Runs
  <2>2. QED
    BY <2>1, CountOfNone, AnyOfNone DEF CutRight
<1>2. ASSUME NEW q \in Seq(Attempts), NEW t \in Attempts, q \in X
      PROVE  Append(q, t) \in X
  <2> DEFINE a == Cut(q, rule)
             b == Cut(Append(q, t), rule)
             run == Append(a.run, t)
  <2>1. a \in Cuts /\ b = CutStep(a, t, rule) /\ Append(q, t) \in Runs /\ CutRight(q, rule, a)
    <3>1. a \in Cuts /\ b = CutStep(a, t, rule)
      BY CutGrows
    <3>2. Append(q, t) \in Runs
      BY DEF Runs
    <3>3. CutRight(q, rule, a)
      BY <1>2
    <3>4. QED
      BY <3>1, <3>2, <3>3
  <2> HIDE DEF a, b
  <2>2. a.run \in Runs /\ run \in Runs /\ a.done \in Seq(Runs)
    BY <2>1 DEF Cuts, Runs
  <2>3. /\ AnyFill(run) <=> HasFill(t)
        /\ AnyOpen(run) <=> AnyOpen(a.run) \/ Bucket(t) = "open"
        /\ rule = Second => (AnyLoss(run) <=> CountsAsLoss(t))
    BY <2>1, <2>2, AnyOfGrown DEF CutRight
  <2> HIDE DEF run
  <2>4. /\ run \in With("won") <=> HasFill(t)
        /\ rule = Second =>
             /\ run \in LostOpen <=> CountsAsLoss(t) /\ AnyOpen(run)
             /\ run \in With("lost") <=> CountsAsLoss(t) /\ ~AnyOpen(run)
    BY <2>2, <2>3, OutcomeIs, LostOpenIs, BucketIs DEF With
  <2>5. /\ Count(Append(q, t), Fills) = Count(q, Fills) + IF HasFill(t) THEN 1 ELSE 0
        /\ Count(Append(q, t), Losses) = Count(q, Losses) + IF CountsAsLoss(t) THEN 1 ELSE 0
        /\ Count(q, Fills) \in Nat /\ Count(q, Losses) \in Nat
    BY CountAppended, CountIsNat DEF Fills, Losses
  <2>6. \A Y : /\ Count(Append(a.done, run), Y) = Count(a.done, Y) + IF run \in Y THEN 1 ELSE 0
               /\ Count(a.done, Y) \in Nat
    BY <2>2, CountAppended, CountIsNat
  <2>7. CutRight(Append(q, t), rule, b)
    <3>1. CASE Closes(t, rule)
      <4>1. b.done = Append(a.done, run) /\ b.run = <<>>
        BY <2>1, <3>1 DEF CutStep, run
      <4>2. Count(b.done, With("won")) = Count(Append(q, t), Fills)
        BY <2>1, <2>4, <2>5, <2>6, <4>1 DEF CutRight
      <4>3. ASSUME rule = Second
            PROVE  Count(b.done, With("lost")) + Count(b.done, LostOpen) = Count(Append(q, t), Losses)
        <5>1. Count(a.done, With("lost")) + Count(a.done, LostOpen) = Count(q, Losses)
          BY <2>1, <4>3 DEF CutRight
        <5>2. Count(b.done, With("lost")) = Count(a.done, With("lost")) + IF run \in With("lost") THEN 1 ELSE 0
          BY <2>6, <4>1
        <5>3. Count(b.done, LostOpen) = Count(a.done, LostOpen) + IF run \in LostOpen THEN 1 ELSE 0
          BY <2>6, <4>1
        <5>4. Count(a.done, With("lost")) \in Nat /\ Count(a.done, LostOpen) \in Nat
          BY <2>6
        <5>5. QED
          BY <2>4, <2>5, <4>3, <5>1, <5>2, <5>3, <5>4
      <4>4. QED
        BY <4>1, <4>2, <4>3, AnyOfNone DEF CutRight
    <3>2. CASE ~Closes(t, rule)
      <4>1. b.done = a.done /\ b.run = run
        BY <2>1, <3>2 DEF CutStep, Cuts, run
      <4>2. ~HasFill(t) /\ (rule = Second => ~CountsAsLoss(t))
        BY <3>2 DEF Closes, Second
      <4>3. QED
        BY <2>1, <2>3, <2>5, <4>1, <4>2 DEF CutRight
    <3>3. QED
      BY <3>1, <3>2
  <2>8. QED
    BY <2>1, <2>7 DEF b
<1> HIDE DEF X
<1>3. Seq(Attempts) \subseteq X
  BY <1>1, <1>2, GrowsToAll
<1>4. QED
  BY <1>3 DEF X, Runs

LEMMA EpisodesAreRight ==
  ASSUME NEW rule, NEW q \in Runs
  PROVE  /\ Count(Episodes(q, rule), With("won")) = Count(q, Fills)
         /\ rule = Second =>
              Count(Episodes(q, rule), With("lost")) + Count(Episodes(q, rule), LostOpen) = Count(q, Losses)
<1> DEFINE a == Cut(q, rule)
<1>1. CutRight(q, rule, a) /\ a \in Cuts
  BY CutIsRight, CutGrows DEF Runs
<1>2. Episodes(q, rule) = IF a.run = <<>> THEN a.done ELSE Append(a.done, a.run)
  BY DEF Episodes
<1> HIDE DEF a
<1>3. a.run \in Runs /\ a.done \in Seq(Runs)
  BY <1>1 DEF Cuts
<1>4. /\ a.run \notin With("won")
      /\ rule = Second => a.run \notin With("lost") /\ a.run \notin LostOpen
  BY <1>1, <1>3, OutcomeIs, LostOpenIs DEF With, CutRight
<1>5. \A Y : /\ Count(Append(a.done, a.run), Y) = Count(a.done, Y) + IF a.run \in Y THEN 1 ELSE 0
             /\ Count(a.done, Y) \in Nat
  BY <1>3, CountAppended, CountIsNat
<1>6. /\ Count(Append(a.done, a.run), With("won")) = Count(a.done, With("won"))
      /\ rule = Second =>
           /\ Count(Append(a.done, a.run), With("lost")) = Count(a.done, With("lost"))
           /\ Count(Append(a.done, a.run), LostOpen) = Count(a.done, LostOpen)
  BY <1>4, <1>5
<1>7. QED
  BY <1>1, <1>2, <1>6 DEF CutRight

-----------------------------------------------------------------------------
(***************************************************************************)
(* The rows of the report.                                                 *)
(***************************************************************************)
TryInv ==
  /\ instant \in 0..LastInstant
  /\ tried \in Runs /\ Len(tried) <= MaxTries
  /\ \A i \in DOMAIN tried : tried[i].no = i /\ tried[i].created <= instant

LEMMA TryInvIsTyped == TryInv => TryTypeOK
<1> SUFFICES ASSUME TryInv PROVE TryTypeOK
  OBVIOUS
<1>1. ASSUME NEW i \in DOMAIN tried
      PROVE  tried[i] \in TryRow /\ tried[i].no = i
  BY DEF TryInv, Runs, Attempts
<1>2. QED
  BY <1>1 DEF TryInv, TryTypeOK, TryRow

LEMMA TryStart == TryInit => TryInv
BY CompletenessAssumption DEF TryInit, TryInv, Runs

\* The end of an order.
LEMMA OneEnds ==
  ASSUME TryInv, TryEnds
  PROVE  \E i \in DOMAIN tried, row \in Attempts :
           /\ tried' = [tried EXCEPT ![i] = row]
           /\ tried[i].state = "submitted" /\ row.kind = tried[i].kind
           /\ row.no = i /\ row.created <= instant
<1> USE CompletenessAssumption
<1>1. PICK i \in DOMAIN tried, e \in Ends :
        /\ tried[i].state = "submitted"
        /\ tried' = [tried EXCEPT ![i] = [@ EXCEPT !.state = e.state, !.filled = e.filled,
                                                !.origin = e.origin, !.ended = instant]]
  BY DEF TryEnds
<1> DEFINE row == [tried[i] EXCEPT !.state = e.state, !.filled = e.filled,
                                   !.origin = e.origin, !.ended = instant]
<1>2. tried[i] \in Attempts /\ tried[i].no = i /\ tried[i].created <= instant
      /\ instant \in 0..LastInstant
  BY DEF TryInv, Runs
<1>3. /\ e.state \in {"filled", "cancelled", "rejected"}
      /\ e.filled \in {Unread} \cup 1..EntryQty /\ e.origin \in Origins \cup {"none"}
      /\ e.state = "rejected" => e.filled \in {Unread, 1}
      /\ e.origin # "none" => e.state = "rejected"
      /\ e.origin = "local" => e.filled = Unread
  BY DEF Ends, Origins, Unread
<1>4. row \in Attempts /\ row.no = i /\ row.created <= instant /\ row.kind = tried[i].kind
  BY <1>2, <1>3 DEF Attempts, TryRow
<1> HIDE DEF row
<1>5. tried' = [tried EXCEPT ![i] = row]
  BY <1>1 DEF row
<1>6. QED
  BY <1>1, <1>4, <1>5

LEMMA TryStep == TryInv /\ [TryNext]_tryVars => TryInv'
<1> SUFFICES ASSUME TryInv, [TryNext]_tryVars PROVE TryInv'
  OBVIOUS
<1> USE CompletenessAssumption
<1>1. CASE UNCHANGED tryVars
  BY <1>1 DEF tryVars, TryInv
<1>2. CASE Try
  <2>1. PICK kind \in EntryKinds :
          tried' = Append(tried, [no |-> Len(tried) + 1, kind |-> kind, created |-> instant,
                                  state |-> "submitted", filled |-> Unread, origin |-> "none",
                                  ended |-> LastInstant])
    BY <1>2 DEF Try
  <2> DEFINE row == [no |-> Len(tried) + 1, kind |-> kind, created |-> instant,
                     state |-> "submitted", filled |-> Unread, origin |-> "none",
                     ended |-> LastInstant]
  <2>2. /\ Len(tried) + 1 \in 1..MaxTries /\ instant \in 0..(Until - 1)
        /\ LastInstant \in 0..LastInstant /\ tried \in Seq(Attempts)
        /\ instant <= LastInstant
    BY <1>2 DEF Try, TryInv, Runs
  <2>3. row \in Attempts /\ row.no = Len(tried) + 1 /\ row.created <= instant
    BY <2>2 DEF TryRow, Attempts, Unread
  <2> HIDE DEF row
  <2>4. tried' = Append(tried, row)
    BY <2>1 DEF row
  <2>5. tried' \in Seq(Attempts) /\ Len(tried') = Len(tried) + 1
    BY <2>2, <2>3, <2>4
  <2>6. \A i \in DOMAIN tried' : tried'[i].no = i /\ tried'[i].created <= instant
    <3>1. SUFFICES ASSUME NEW i \in 1..(Len(tried) + 1)
                   PROVE  tried'[i].no = i /\ tried'[i].created <= instant
      BY <2>5
    <3>2. CASE i = Len(tried) + 1
      BY <2>2, <2>3, <2>4, <3>2
    <3>3. CASE i # Len(tried) + 1
      <4>1. i \in DOMAIN tried /\ tried'[i] = tried[i]
        BY <2>2, <2>4, <3>3
      <4>2. QED
        BY <4>1 DEF TryInv
    <3>4. QED
      BY <3>2, <3>3
  <2>7. QED
    BY <1>2, <2>2, <2>5, <2>6 DEF Try, TryInv, Runs
<1>3. CASE TryEnds
  <2>1. PICK i \in DOMAIN tried, row \in Attempts :
          /\ tried' = [tried EXCEPT ![i] = row]
          /\ row.no = i /\ row.created <= instant
    BY <1>3, OneEnds
  <2>2. tried \in Seq(Attempts)
    BY DEF TryInv, Runs
  <2>3. tried' \in Seq(Attempts) /\ Len(tried') = Len(tried)
    BY <2>1, <2>2
  <2>4. \A j \in DOMAIN tried' : tried'[j].no = j /\ tried'[j].created <= instant
    BY <2>1, <2>2 DEF TryInv
  <2>5. QED
    BY <1>3, <2>3, <2>4 DEF TryEnds, TryInv, Runs
<1>4. CASE InstantPasses
  BY <1>4 DEF InstantPasses, TryInv, Runs, Attempts, TryRow
<1>5. QED
  BY <1>1, <1>2, <1>3, <1>4 DEF TryNext

\* No order is created once the window is over: then a step only ends an open one.
LEMMA StepFades ==
  ASSUME TryInv, [TryNext]_tryVars, instant >= Until
  PROVE  tried \in Runs /\ tried' \in Runs /\ Faded(tried, tried')
<1> USE CompletenessAssumption
<1>1. tried \in Runs /\ tried' \in Runs
  BY TryStep DEF TryInv
<1>2. CASE tried' = tried
  BY <1>1, <1>2 DEF Faded, Fades
<1>3. CASE TryEnds
  <2>1. PICK i \in DOMAIN tried, row \in Attempts :
          /\ tried' = [tried EXCEPT ![i] = row]
          /\ tried[i].state = "submitted" /\ row.kind = tried[i].kind
    BY <1>3, OneEnds
  <2>2. QED
    BY <1>1, <2>1 DEF Faded, Fades, Runs
<1>4. ~Try
  BY DEF Try, TryInv
<1>5. QED
  BY <1>1, <1>2, <1>3, <1>4 DEF TryNext, InstantPasses, tryVars

\* What a report says of the episodes that ended within the window stays in every later
\* report, whatever the orders that were open come to.
THEOREM SettledIsKept == TrySpec => SettledStays
<1>1. TryInv /\ [TryNext]_tryVars =>
        [instant >= Until =>
           \A rule \in Rules : Layer(tried, rule).settled \subseteq Layer(tried', rule).settled]_tryVars
  BY StepFades, SettledFades
<1>2. QED
  BY <1>1, TryStart, TryStep, PTL DEF TrySpec, SettledStays

-----------------------------------------------------------------------------
(***************************************************************************)
(* The most that rested at once.  The events are sorted, whatever the order*)
(* of the rows.                                                            *)
(***************************************************************************)
LEMMA CountGrowsWithSet ==
  ASSUME NEW T, NEW q \in Seq(T), NEW X, NEW Y,
         \A i \in DOMAIN q : q[i] \in X => q[i] \in Y
  PROVE  /\ Count(q, X) <= Count(q, Y)
         /\ (\A i \in DOMAIN q : q[i] \in Y => q[i] \in X) => Count(q, X) = Count(q, Y)
<1> DEFINE A == {i \in DOMAIN q : q[i] \in X}
           B == {i \in DOMAIN q : q[i] \in Y}
<1>1. IsFiniteSet(B) /\ A \subseteq B
  BY Indices, FS_Subset
<1>2. (\A i \in DOMAIN q : q[i] \in Y => q[i] \in X) => A = B
  OBVIOUS
<1> HIDE DEF A, B
<1>3. Cardinality(A) <= Cardinality(B)
  BY <1>1, FS_Subset
<1>4. QED
  BY <1>2, <1>3 DEF Count, A, B

\* A finite set of places from the first is an interval.
LEMMA FromTheFirst ==
  ASSUME NEW n \in Nat, NEW S \in SUBSET (1..n),
         \A i \in S, j \in 1..n : j <= i => j \in S
  PROVE  Cardinality(S) \in 0..n /\ S = 1..Cardinality(S)
<1>1. IsFiniteSet(S) /\ S \subseteq Int
  <2>1. IsFiniteSet(1..n)
    BY FS_Interval
  <2>2. IsFiniteSet(S)
    BY <2>1, FS_Subset
  <2>3. \A i \in S : i \in 1..n
    OBVIOUS
  <2>4. QED
    BY <2>2, <2>3
<1>2. CASE S = {}
  BY <1>2, FS_EmptySet
<1>3. CASE S # {}
  <2> DEFINE m == Max(S)
  <2>1. m \in S /\ \A x \in S : m >= x
    BY <1>1, <1>3, HasLargest
  <2> HIDE DEF m
  <2>2. m \in 1..n
    BY <2>1
  <2>3. S = 1..m
    <3>1. ASSUME NEW j \in 1..m PROVE j \in S
      BY <2>1, <2>2
    <3>2. ASSUME NEW j \in S PROVE j \in 1..m
      BY <2>1, <2>2
    <3>3. QED
      BY <3>1, <3>2
  <2>4. Cardinality(S) = m
    BY <2>2, <2>3, FS_Interval
  <2>5. QED
    BY <2>2, <2>3, <2>4
<1>4. QED
  BY <1>2, <1>3

Sorted(q) == \A i, j \in DOMAIN q : i <= j => NotAfter(q[i], q[j])

LEMMA TotalOrder ==
  /\ \A e \in Event : NotAfter(e, e)
  /\ \A e, f \in Event : NotAfter(e, f) \/ NotAfter(f, e)
  /\ \A e, f, g \in Event : NotAfter(e, f) /\ NotAfter(f, g) => NotAfter(e, g)
<1>1. \A e \in Event : e.at \in Int /\ e.order \in Int
  BY DEF Event
<1>2. QED
  BY <1>1 DEF NotAfter

LEMMA InsertStays ==
  ASSUME NEW q \in Seq(Event), NEW e \in Event
  PROVE  /\ Insert(q, e) \in Seq(Event)
         /\ \A X : Count(Insert(q, e), X) = Count(q, X) + IF e \in X THEN 1 ELSE 0
<1> DEFINE S == {i \in DOMAIN q : NotAfter(q[i], e)}
           k == Cardinality(S) + 1
<1>1. Len(q) \in Nat /\ DOMAIN q = 1..Len(q) /\ IsFiniteSet(DOMAIN q)
  BY Indices
<1>2. Cardinality(1..Len(q)) = Len(q)
  BY <1>1, FS_Interval
<1>3. S \subseteq 1..Len(q) /\ IsFiniteSet(1..Len(q))
  BY <1>1
<1> HIDE DEF S
<1>4. Cardinality(S) \in Nat /\ Cardinality(S) <= Len(q)
  BY <1>2, <1>3, FS_Subset, FS_CardinalityType
<1>5. k \in 1..(Len(q) + 1)
  BY <1>1, <1>4
<1>6. Insert(q, e) = InsertAt(q, k, e)
  BY DEF Insert, S
<1> HIDE DEF k
<1>7. QED
  BY <1>5, <1>6, InsertedAt

LEMMA InsertSorts ==
  ASSUME NEW q \in Seq(Event), NEW e \in Event, Sorted(q)
  PROVE  Sorted(Insert(q, e))
<1> DEFINE n == Len(q)
           S == {i \in DOMAIN q : NotAfter(q[i], e)}
           k == Cardinality(S) + 1
           r == InsertAt(q, k, e)
<1>1. n \in Nat /\ DOMAIN q = 1..n /\ \A i \in DOMAIN q : q[i] \in Event
  BY Indices
<1>2. \A i \in S, j \in 1..n : j <= i => j \in S
  BY <1>1, TotalOrder DEF Sorted
<1>3. S \in SUBSET (1..n) /\ \A i \in 1..n : i \in S <=> NotAfter(q[i], e)
  BY <1>1
<1> HIDE DEF S
<1>4. Cardinality(S) \in 0..n /\ S = 1..Cardinality(S)
  BY <1>1, <1>2, <1>3, FromTheFirst
<1>5. k \in 1..(n + 1) /\ k \in Int /\ \A i \in 1..n : i < k <=> NotAfter(q[i], e)
  BY <1>1, <1>3, <1>4
<1> HIDE DEF k
<1>6. /\ r \in Seq(Event) /\ Len(r) = n + 1
      /\ \A i \in 1..(n + 1) : r[i] = IF i < k THEN q[i] ELSE IF i = k THEN e ELSE q[i - 1]
  BY <1>5, InsertedAt
<1>7. DOMAIN r = 1..(n + 1)
  BY <1>6, Indices
<1>8. Insert(q, e) = r
  BY DEF Insert, k, S
<1> HIDE DEF r, n
<1>9. \A i \in 1..n : i < k => NotAfter(q[i], e)
  BY <1>5
<1>10. \A i \in 1..n : i >= k => NotAfter(e, q[i])
  BY <1>1, <1>5, TotalOrder
<1>11. ASSUME NEW i \in 1..(n + 1), NEW j \in 1..(n + 1), i <= j
       PROVE  NotAfter(r[i], r[j])
  <2>1. \A a, b \in 1..n : a <= b => NotAfter(q[a], q[b])
    BY <1>1 DEF Sorted
  <2>2. CASE j < k
    <3>1. i \in 1..n /\ j \in 1..n /\ r[i] = q[i] /\ r[j] = q[j]
      BY <1>1, <1>5, <1>6, <1>11, <2>2
    <3>2. QED
      BY <1>11, <2>1, <3>1
  <2>3. CASE j = k
    <3>1. r[j] = e
      BY <1>6, <2>3
    <3>2. CASE i = k
      BY <2>3, <3>1, <3>2, TotalOrder
    <3>3. CASE i # k
      <4>1. i \in 1..n /\ i < k /\ r[i] = q[i]
        BY <1>1, <1>5, <1>6, <1>11, <2>3, <3>3
      <4>2. QED
        BY <1>9, <3>1, <4>1
    <3>4. QED
      BY <3>2, <3>3
  <2>4. CASE j > k
    <3>1. r[j] = q[j - 1] /\ j - 1 \in 1..n /\ j - 1 >= k
      BY <1>1, <1>5, <1>6, <2>4
    <3>2. CASE i < k
      <4>1. i \in 1..n /\ r[i] = q[i] /\ i <= j - 1
        BY <1>1, <1>5, <1>6, <2>4, <3>2
      <4>2. QED
        BY <2>1, <3>1, <4>1
    <3>3. CASE i = k
      BY <1>6, <1>10, <3>1, <3>3
    <3>4. CASE i > k
      <4>1. i - 1 \in 1..n /\ r[i] = q[i - 1] /\ i - 1 <= j - 1
        BY <1>1, <1>5, <1>6, <1>11, <3>4
      <4>2. QED
        BY <2>1, <3>1, <4>1
    <3>5. QED
      BY <1>5, <3>2, <3>3, <3>4
  <2>5. QED
    BY <1>5, <2>2, <2>3, <2>4
<1>12. QED
  BY <1>7, <1>8, <1>11 DEF Sorted

LEMMA RowEvents ==
  ASSUME NEW t \in Attempts
  PROVE  OpenEvent(t) \in Event /\ CloseEvent(t) \in Event
<1>1. t.created \in Int /\ t.ended \in Int
  BY CompletenessAssumption DEF Attempts, TryRow
<1>2. QED
  BY <1>1 DEF OpenEvent, CloseEvent, Event

LEMMA EventsStay ==
  ASSUME NEW q \in Seq(Event), NEW t \in Attempts
  PROVE  /\ EventStep(q, t) \in Seq(Event)
         /\ Sorted(q) => Sorted(EventStep(q, t))
         /\ \A X : Count(EventStep(q, t), X) =
                    Count(q, X) + (IF OpenEvent(t) \in X THEN 1 ELSE 0)
                      + (IF t.state # "submitted" /\ CloseEvent(t) \in X THEN 1 ELSE 0)
<1> DEFINE p == Insert(q, OpenEvent(t))
           o == OpenEvent(t)
           c == CloseEvent(t)
<1>1. o \in Event /\ c \in Event
  BY RowEvents
<1> HIDE DEF o, c
<1>2. /\ p \in Seq(Event) /\ (Sorted(q) => Sorted(p))
      /\ \A X : Count(p, X) = Count(q, X) + IF o \in X THEN 1 ELSE 0
  BY <1>1, InsertStays, InsertSorts DEF o
<1> HIDE DEF p
<1>3. /\ Insert(p, c) \in Seq(Event) /\ (Sorted(p) => Sorted(Insert(p, c)))
      /\ \A X : Count(Insert(p, c), X) = Count(p, X) + IF c \in X THEN 1 ELSE 0
  BY <1>1, <1>2, InsertStays, InsertSorts
<1>4. EventStep(q, t) = IF t.state = "submitted" THEN p ELSE Insert(p, c)
  BY DEF EventStep, p, c
<1>5. \A X : Count(q, X) \in Nat
  BY CountIsNat
<1>6. QED
  BY <1>2, <1>3, <1>4, <1>5 DEF o, c

LEMMA EventsGrow ==
  /\ Events(<<>>) = <<>>
  /\ \A q \in Seq(Attempts) : Events(q) \in Seq(Event)
  /\ \A q \in Seq(Attempts), t \in Attempts :
              Events(Append(q, t)) = EventStep(Events(q), t)
<1> DEFINE V == Seq(Event)
           base == <<>>
           g == [p \in V \X Attempts |-> EventStep(p[1], p[2])]
           fold == [q \in Seq(Attempts) |-> Events(q)]
<1>1. base \in V
  OBVIOUS
<1>2. \A v \in V, t \in Attempts : EventStep(v, t) \in V
  BY EventsStay
<1> HIDE DEF V, base
<1>3. \A v \in V, t \in Attempts : g[<<v, t>>] = EventStep(v, t) /\ g[<<v, t>>] \in V
  BY <1>2
<1>4. /\ \A q \in Seq(Attempts) : fold[q] = Events(q)
      /\ fold[<<>>] = Events(<<>>)
      /\ \A q \in Seq(Attempts), t \in Attempts :
           fold[Append(q, t)] = Events(Append(q, t))
  <2>1. /\ <<>> \in Seq(Attempts)
        /\ \A q \in Seq(Attempts), t \in Attempts : Append(q, t) \in Seq(Attempts)
    OBVIOUS
  <2>2. QED
    BY <2>1
<1> HIDE DEF g, fold
<1>5. StaysIn(Attempts, V, base, g)
  BY <1>1, <1>3 DEF StaysIn
<1>6. ASSUME NEW q \in Seq(Attempts)
      PROVE  \E it : Iterates(q, base, g, V, it) /\ fold[q] = it[DOMAIN q]
  <2> DEFINE D == DOMAIN q
             P(u) == u = [s \in SUBSET D |->
                       IF s = {} THEN base ELSE EventStep(u[s \ {Max(s)}], q[Max(s)])]
             it == CHOOSE u : P(u)
  <2>1. Events(q) = it[D]
    BY DEF Events, EventStep, FoldLeft, MapThenFoldSet, base
  <2>2. PICK w : FoldOf(q, base, g, V, w)
    BY <1>5, FoldExists
  <2>3. /\ w \in [SUBSET D -> V]
        /\ \A s \in SUBSET D :
              w[s] = IF s = {} THEN base ELSE g[<<w[s \ {Max(s)}], q[Max(s)]>>]
    BY <2>2 DEF FoldOf
  <2>4. \A s \in SUBSET D : s # {} => q[Max(s)] \in Attempts
    BY Indices
  <2> HIDE DEF D
  <2>5. \A s \in SUBSET D :
           w[s] = IF s = {} THEN base ELSE EventStep(w[s \ {Max(s)}], q[Max(s)])
    BY <1>3, <2>3, <2>4
  <2>6. w = [s \in SUBSET D |-> w[s]]
    BY <2>3
  <2>7. P(w)
    BY <2>5, <2>6
  <2>8. P(it)
    <3> HIDE DEF P
    <3>1. QED
      BY <2>7
  <2> HIDE DEF it
  <2>9. \A s \in SUBSET D :
           it[s] = IF s = {} THEN base ELSE EventStep(it[s \ {Max(s)}], q[Max(s)])
    BY <2>8
  <2>10. Iterates(q, base, g, V, it)
    BY <1>3, <2>4, <2>9 DEF Iterates, D
  <2>11. QED
    BY <1>4, <2>1, <2>10 DEF D
<1>7. /\ fold[<<>>] = base
      /\ \A q \in Seq(Attempts) : fold[q] \in V
      /\ \A q \in Seq(Attempts), t \in Attempts : fold[Append(q, t)] = g[<<fold[q], t>>]
  <2>1. IsFold(Attempts, V, base, g, fold)
    BY <1>6 DEF IsFold
  <2>2. QED
    BY <1>5, <2>1, FoldGrows
<1>8. \A q \in Seq(Attempts), t \in Attempts :
        Events(Append(q, t)) = EventStep(Events(q), t)
  BY <1>3, <1>4, <1>7
<1>9. \A q \in Seq(Attempts) : Events(q) \in V
  BY <1>4, <1>7
<1>10. QED
  BY <1>4, <1>7, <1>8, <1>9 DEF V, base

\* The events that count for what rests at m: an order opens by m, and closes after it.
OpenBy(m) == {e \in Event : e.order = 0 /\ e.at <= m}
ClosedBefore(m) == {e \in Event : e.order = 1 /\ e.at < m}
OpenEvents == {e \in Event : e.order = 0}
CloseEvents == {e \in Event : e.order = 1}
Rest(q, m) == Count(q, OpenBy(m)) - Count(q, ClosedBefore(m))

PeakRight(q, c) ==
  /\ c.now = Count(q, OpenEvents) - Count(q, CloseEvents) /\ c.now <= c.peak
  /\ \A m \in Int : Rest(q, m) <= c.peak
  /\ \E m \in Int : Rest(q, m) = c.peak

LEMMA SortedSplits ==
  ASSUME NEW q \in Seq(Event), NEW t \in Event, Sorted(Append(q, t))
  PROVE  Sorted(q) /\ \A i \in DOMAIN q : NotAfter(q[i], t)
<1> DEFINE a == Append(q, t)
           n == Len(q) + 1
<1>1. a[n] = t /\ DOMAIN a = 1..n /\ DOMAIN q = 1..Len(q) /\ Len(q) \in Nat
  BY AppendProperties, LenProperties
<1>2. \A i \in DOMAIN q : a[i] = q[i]
  BY AppendProperties, LenProperties
<1> HIDE DEF a
<1>3. n \in DOMAIN a /\ \A i \in DOMAIN q : i \in DOMAIN a /\ i <= n
  BY <1>1
<1>4. QED
  BY <1>1, <1>2, <1>3 DEF Sorted, a

LEMMA PeakIsRight ==
  \A q \in Seq(Event) : Sorted(q) => PeakRight(q, Concurrent(q))
<1> DEFINE X == {q \in Seq(Event) : Sorted(q) => PeakRight(q, Concurrent(q))}
<1>1. <<>> \in X
  <2>1. Concurrent(<<>>) = [now |-> 0, peak |-> 0] /\ \A Y : Count(<<>>, Y) = 0
    BY CountGrows, CountOfNone
  <2>2. QED
    BY <2>1 DEF PeakRight, Rest
<1>2. ASSUME NEW q \in Seq(Event), NEW t \in Event, q \in X
      PROVE  Append(q, t) \in X
  <2> DEFINE a == Append(q, t)
             c == Concurrent(q)
             d == Concurrent(a)
             x == t.at
  <2>1. a \in Seq(Event) /\ c \in Tallies /\ d = CountStep(c, t)
    <3>1. c \in Tallies /\ d = CountStep(c, t)
      BY CountGrows
    <3>2. QED
      BY <3>1
  <2>2. SUFFICES ASSUME Sorted(a) PROVE PeakRight(a, d)
    BY <2>1
  <2>3. Sorted(q) /\ \A i \in DOMAIN q : q[i] \in Event /\ NotAfter(q[i], t)
    BY <2>2, SortedSplits
  <2>4. PeakRight(q, c)
    BY <1>2, <2>3
  <2>5. \A Y : /\ Count(a, Y) = Count(q, Y) + IF t \in Y THEN 1 ELSE 0
               /\ Count(q, Y) \in Nat
    BY CountAppended, CountIsNat
  <2> HIDE DEF a, c, d, X
  <2>6. x \in Int /\ c.now \in Int /\ c.peak \in Int
    BY <2>1 DEF Event, Tallies, x
  <2> HIDE DEF x
  <2>7. \A m \in Int : x <= m => Count(q, OpenBy(m)) = Count(q, OpenEvents)
    <3>1. SUFFICES ASSUME NEW m \in Int, x <= m
                   PROVE  Count(q, OpenBy(m)) = Count(q, OpenEvents)
      OBVIOUS
    <3>2. \A i \in DOMAIN q : q[i] \in OpenBy(m) <=> q[i] \in OpenEvents
      BY <2>3, <2>6, <3>1 DEF NotAfter, Event, OpenBy, OpenEvents, x
    <3>3. QED
      BY <3>2, CountGrowsWithSet
  <2>8. \A m \in Int : x < m => Count(q, ClosedBefore(m)) = Count(q, CloseEvents)
    <3>1. SUFFICES ASSUME NEW m \in Int, x < m
                   PROVE  Count(q, ClosedBefore(m)) = Count(q, CloseEvents)
      OBVIOUS
    <3>2. \A i \in DOMAIN q : q[i] \in ClosedBefore(m) <=> q[i] \in CloseEvents
      BY <2>3, <2>6, <3>1 DEF NotAfter, Event, ClosedBefore, CloseEvents, x
    <3>3. QED
      BY <3>2, CountGrowsWithSet
  <2>9. \A m \in Int : Count(q, ClosedBefore(m)) <= Count(q, CloseEvents)
    <3>1. \A m \in Int : \A i \in DOMAIN q : q[i] \in ClosedBefore(m) => q[i] \in CloseEvents
      BY DEF ClosedBefore, CloseEvents
    <3>2. QED
      BY <3>1, CountGrowsWithSet
  <2>10. CASE t.order = 0
    <3>1. t.delta = 1 /\ t \in OpenEvents /\ t \notin CloseEvents
          /\ \A m \in Int : t \notin ClosedBefore(m) /\ (t \in OpenBy(m) <=> x <= m)
      BY <2>6, <2>10 DEF Event, OpenEvents, CloseEvents, OpenBy, ClosedBefore, x
    <3>2. Count(q, ClosedBefore(x)) = Count(q, CloseEvents)
      <4>1. \A i \in DOMAIN q : q[i] \in ClosedBefore(x) <=> q[i] \in CloseEvents
        BY <2>3, <2>6, <2>10 DEF NotAfter, Event, ClosedBefore, CloseEvents, x
      <4>2. QED
        BY <2>6, <4>1, CountGrowsWithSet
    <3>3. /\ d.now = c.now + 1 /\ d.peak = IF c.now + 1 > c.peak THEN c.now + 1 ELSE c.peak
      BY <2>1, <3>1 DEF CountStep
    <3>4. \A m \in Int : Rest(a, m) = IF x <= m THEN Rest(q, m) + 1 ELSE Rest(q, m)
      <4>1. SUFFICES ASSUME NEW m \in Int
                     PROVE  Rest(a, m) = IF x <= m THEN Rest(q, m) + 1 ELSE Rest(q, m)
        OBVIOUS
      <4>2. /\ Count(a, OpenBy(m)) = Count(q, OpenBy(m)) + IF t \in OpenBy(m) THEN 1 ELSE 0
            /\ Count(a, ClosedBefore(m)) = Count(q, ClosedBefore(m)) + IF t \in ClosedBefore(m) THEN 1 ELSE 0
            /\ Count(q, OpenBy(m)) \in Nat /\ Count(q, ClosedBefore(m)) \in Nat
        BY <2>5
      <4>3. QED
        BY <3>1, <4>2 DEF Rest
    <3>5. \A m \in Int : x <= m => Rest(q, m) = c.now
      <4>1. \A m \in Int : x <= m => Count(q, ClosedBefore(m)) = Count(q, CloseEvents)
        BY <2>6, <2>8, <3>2
      <4>2. QED
        BY <2>4, <2>7, <4>1 DEF PeakRight, Rest
    <3>6. d.now = Count(a, OpenEvents) - Count(a, CloseEvents) /\ d.now <= d.peak
      <4>1. /\ Count(a, OpenEvents) = Count(q, OpenEvents) + IF t \in OpenEvents THEN 1 ELSE 0
            /\ Count(a, CloseEvents) = Count(q, CloseEvents) + IF t \in CloseEvents THEN 1 ELSE 0
            /\ Count(q, OpenEvents) \in Nat /\ Count(q, CloseEvents) \in Nat
        BY <2>5
      <4>2. c.now = Count(q, OpenEvents) - Count(q, CloseEvents) /\ c.now <= c.peak
        BY <2>4 DEF PeakRight
      <4>3. QED
        BY <2>6, <3>1, <3>3, <4>1, <4>2
    <3>7. \A m \in Int : Rest(q, m) \in Int
      BY <2>5 DEF Rest
    <3>8. \A m \in Int : Rest(a, m) <= d.peak
      <4>1. SUFFICES ASSUME NEW m \in Int PROVE Rest(a, m) <= d.peak
        OBVIOUS
      <4>2. Rest(q, m) \in Int /\ Rest(q, m) <= c.peak
        BY <2>4, <3>7 DEF PeakRight
      <4>3. d.peak \in Int /\ d.peak >= c.now + 1 /\ d.peak >= c.peak
        BY <2>6, <3>3
      <4>4. QED
        BY <2>6, <3>4, <3>5, <4>2, <4>3
    <3>9. \E m \in Int : Rest(a, m) = d.peak
      <4>1. CASE c.now + 1 > c.peak
        BY <2>6, <3>3, <3>4, <3>5, <4>1
      <4>2. CASE ~(c.now + 1 > c.peak)
        <5>1. PICK m \in Int : Rest(q, m) = c.peak
          BY <2>4 DEF PeakRight
        <5>2. ~(x <= m)
          BY <2>6, <3>5, <4>2, <5>1
        <5>3. QED
          BY <3>3, <3>4, <4>2, <5>1, <5>2
      <4>3. QED
        BY <4>1, <4>2
    <3>10. QED
      BY <3>6, <3>8, <3>9 DEF PeakRight
  <2>11. CASE t.order = 1
    <3>1. t.delta = -1 /\ t \in CloseEvents /\ t \notin OpenEvents
          /\ \A m \in Int : t \notin OpenBy(m) /\ (t \in ClosedBefore(m) <=> x < m)
      BY <2>6, <2>11 DEF Event, OpenEvents, CloseEvents, OpenBy, ClosedBefore, x
    <3>2. \A m \in Int : Rest(q, m) \in Int
      BY <2>5 DEF Rest
    <3>3. d.now = c.now - 1 /\ d.peak = c.peak
      BY <2>1, <2>4, <2>6, <3>1 DEF CountStep, PeakRight
    <3>4. \A m \in Int : Rest(a, m) = IF x < m THEN Rest(q, m) - 1 ELSE Rest(q, m)
      <4>1. SUFFICES ASSUME NEW m \in Int
                     PROVE  Rest(a, m) = IF x < m THEN Rest(q, m) - 1 ELSE Rest(q, m)
        OBVIOUS
      <4>2. /\ Count(a, OpenBy(m)) = Count(q, OpenBy(m)) + IF t \in OpenBy(m) THEN 1 ELSE 0
            /\ Count(a, ClosedBefore(m)) = Count(q, ClosedBefore(m)) + IF t \in ClosedBefore(m) THEN 1 ELSE 0
            /\ Count(q, OpenBy(m)) \in Nat /\ Count(q, ClosedBefore(m)) \in Nat
        BY <2>5
      <4>3. QED
        BY <3>1, <4>2 DEF Rest
    <3>5. d.now = Count(a, OpenEvents) - Count(a, CloseEvents) /\ d.now <= d.peak
      <4>1. /\ Count(a, OpenEvents) = Count(q, OpenEvents) + IF t \in OpenEvents THEN 1 ELSE 0
            /\ Count(a, CloseEvents) = Count(q, CloseEvents) + IF t \in CloseEvents THEN 1 ELSE 0
            /\ Count(q, OpenEvents) \in Nat /\ Count(q, CloseEvents) \in Nat
        BY <2>5
      <4>2. c.now = Count(q, OpenEvents) - Count(q, CloseEvents) /\ c.now <= c.peak
        BY <2>4 DEF PeakRight
      <4>3. QED
        BY <2>6, <3>1, <3>3, <4>1, <4>2
    <3>6. \A m \in Int : Rest(a, m) <= d.peak
      <4>1. SUFFICES ASSUME NEW m \in Int PROVE Rest(a, m) <= d.peak
        OBVIOUS
      <4>2. Rest(q, m) \in Int /\ Rest(q, m) <= c.peak
        BY <2>4, <3>2 DEF PeakRight
      <4>3. QED
        BY <2>6, <3>3, <3>4, <4>2
    <3>7. \E m \in Int : Rest(a, m) = d.peak
      <4>1. PICK m \in Int : Rest(q, m) = c.peak
        BY <2>4 DEF PeakRight
      <4>2. CASE m <= x
        BY <2>6, <3>3, <3>4, <4>1, <4>2
      <4>3. CASE ~(m <= x)
        <5>1. Rest(q, m) = c.now
          BY <2>4, <2>6, <2>7, <2>8, <4>3 DEF PeakRight, Rest
        <5>2. Rest(q, x) >= c.now
          BY <2>4, <2>5, <2>6, <2>7, <2>9 DEF PeakRight, Rest
        <5>3. Rest(q, x) = c.peak
          BY <2>4, <2>6, <3>2, <4>1, <5>1, <5>2 DEF PeakRight
        <5>4. QED
          BY <2>6, <3>3, <3>4, <5>3
      <4>4. QED
        BY <4>2, <4>3
    <3>8. QED
      BY <3>5, <3>6, <3>7 DEF PeakRight
  <2>12. t.order \in {0, 1}
    BY DEF Event
  <2>13. QED
    BY <2>10, <2>11, <2>12
<1> HIDE DEF X
<1>3. Seq(Event) \subseteq X
  BY <1>1, <1>2, GrowsToAll
<1>4. QED
  BY <1>3 DEF X

\* The rows that rest at m.
RestsAt(m) == {t \in Attempts : t.created <= m /\ (t.state = "submitted" \/ m <= t.ended)}

LEMMA OverIs ==
  ASSUME NEW q \in Runs
  PROVE  \A m \in Int : Over(q, m) = Count(q, RestsAt(m))
<1>1. ASSUME NEW m \in Int
      PROVE  {i \in DOMAIN q : q[i].created <= m /\ (q[i].state = "submitted" \/ m <= q[i].ended)}
               = {i \in DOMAIN q : q[i] \in RestsAt(m)}
  BY DEF RestsAt, Runs
<1>2. QED
  BY <1>1 DEF Over, Number, Count

LEMMA EventsAreRight ==
  \A q \in Runs :
    /\ Events(q) \in Seq(Event) /\ Sorted(Events(q))
    /\ \A m \in Int : Rest(Events(q), m) = Count(q, RestsAt(m))
<1> DEFINE X == {q \in Runs : /\ Sorted(Events(q))
                              /\ \A m \in Int : Rest(Events(q), m) = Count(q, RestsAt(m))}
<1>1. <<>> \in X
  <2>1. Events(<<>>) = <<>> /\ \A Y : Count(<<>>, Y) = 0
    BY EventsGrow, CountOfNone
  <2>2. QED
    BY <2>1 DEF Sorted, Rest, Runs
<1>2. ASSUME NEW q \in Seq(Attempts), NEW t \in Attempts, q \in X
      PROVE  Append(q, t) \in X
  <2> DEFINE a == Append(q, t)
             e == Events(q)
             f == Events(a)
  <2>1. e \in Seq(Event) /\ f = EventStep(e, t) /\ Sorted(e)
    <3>1. e \in Seq(Event) /\ f = EventStep(e, t)
      BY EventsGrow
    <3>2. QED
      BY <1>2, <3>1
  <2>2. a \in Runs
    BY DEF Runs
  <2>3. \A m \in Int : Rest(e, m) = Count(q, RestsAt(m))
    BY <1>2
  <2>4. ASSUME NEW m \in Int
        PROVE  Count(a, RestsAt(m)) = Count(q, RestsAt(m)) + IF t \in RestsAt(m) THEN 1 ELSE 0
    BY CountAppended
  <2> HIDE DEF a, e, f, X
  <2>5. Sorted(f)
    BY <2>1, EventsStay
  <2>6. ASSUME NEW m \in Int
        PROVE  Rest(f, m) = Count(a, RestsAt(m))
    <3> DEFINE o == OpenEvent(t)
               c == CloseEvent(t)
    <3>1. \A Y : /\ Count(f, Y) = Count(e, Y) + (IF o \in Y THEN 1 ELSE 0)
                                    + (IF t.state # "submitted" /\ c \in Y THEN 1 ELSE 0)
                 /\ Count(e, Y) \in Nat
      BY <2>1, EventsStay, CountIsNat
    <3>2. t.created \in Int /\ t.ended \in Int /\ t.created <= t.ended
      BY CompletenessAssumption DEF Attempts, TryRow
    <3>3. o \in Event /\ c \in Event
      BY RowEvents
    <3>4. /\ o \in OpenBy(m) <=> t.created <= m
          /\ o \notin ClosedBefore(m) /\ c \notin OpenBy(m)
          /\ c \in ClosedBefore(m) <=> t.ended < m
      BY <3>3 DEF OpenEvent, CloseEvent, OpenBy, ClosedBefore
    <3>5. t \in RestsAt(m) <=> t.created <= m /\ (t.state = "submitted" \/ m <= t.ended)
      BY DEF RestsAt
    <3> HIDE DEF o, c
    <3>6. /\ Count(f, OpenBy(m)) = Count(e, OpenBy(m)) + IF t.created <= m THEN 1 ELSE 0
          /\ Count(f, ClosedBefore(m)) =
               Count(e, ClosedBefore(m)) + IF t.state # "submitted" /\ t.ended < m THEN 1 ELSE 0
          /\ Count(e, OpenBy(m)) \in Nat /\ Count(e, ClosedBefore(m)) \in Nat
      <4>1. /\ Count(f, OpenBy(m)) = Count(e, OpenBy(m)) + (IF o \in OpenBy(m) THEN 1 ELSE 0)
                                    + (IF t.state # "submitted" /\ c \in OpenBy(m) THEN 1 ELSE 0)
            /\ Count(f, ClosedBefore(m)) = Count(e, ClosedBefore(m)) + (IF o \in ClosedBefore(m) THEN 1 ELSE 0)
                                    + (IF t.state # "submitted" /\ c \in ClosedBefore(m) THEN 1 ELSE 0)
            /\ Count(e, OpenBy(m)) \in Nat /\ Count(e, ClosedBefore(m)) \in Nat
        BY <3>1
      <4>2. QED
        BY <3>4, <4>1
    <3>7. Rest(f, m) = Rest(e, m) + IF t \in RestsAt(m) THEN 1 ELSE 0
      BY <3>2, <3>5, <3>6 DEF Rest
    <3>8. QED
      BY <2>3, <2>4, <3>7
  <2>7. QED
    BY <2>2, <2>5, <2>6 DEF X, a, f
<1>3. Runs \subseteq X
  <2> HIDE DEF X
  <2>1. Seq(Attempts) \subseteq X
    BY <1>1, <1>2, GrowsToAll
  <2>2. QED
    BY <2>1 DEF Runs
<1>4. \A q \in Runs : Events(q) \in Seq(Event)
  BY EventsGrow DEF Runs
<1>5. QED
  BY <1>3, <1>4

\* The peak of the report is the most that rest at an instant of the window.
LEMMA PeakIsReached ==
  ASSUME NEW q \in Runs
  PROVE  /\ \A m \in 0..LastInstant : Over(q, m) <= Peak(q)
         /\ q # <<>> => \E m \in 0..LastInstant : Over(q, m) = Peak(q)
<1> USE CompletenessAssumption
<1>1. \A m \in Int : Over(q, m) <= Peak(q) /\ Over(q, m) \in Nat
  <2>1. \A m \in Int : Rest(Events(q), m) <= Peak(q)
    BY EventsAreRight, PeakIsRight DEF PeakRight, Peak
  <2>2. \A m \in Int : Rest(Events(q), m) = Count(q, RestsAt(m)) /\ Over(q, m) = Count(q, RestsAt(m))
    BY EventsAreRight, OverIs
  <2>3. \A m \in Int : Count(q, RestsAt(m)) \in Nat
    BY CountIsNat DEF Runs
  <2>4. QED
    BY <2>1, <2>2, <2>3
<1>2. PICK m \in Int : Over(q, m) = Peak(q)
  <2>1. PICK m \in Int : Rest(Events(q), m) = Peak(q)
    BY EventsAreRight, PeakIsRight DEF PeakRight, Peak
  <2>2. Rest(Events(q), m) = Count(q, RestsAt(m)) /\ Over(q, m) = Count(q, RestsAt(m))
    BY EventsAreRight, OverIs
  <2>3. QED
    BY <2>1, <2>2
<1>3. ASSUME q # <<>>
      PROVE  \E k \in 0..LastInstant : Over(q, k) = Peak(q)
  <2>1. \A i \in DOMAIN q : q[i] \in Attempts
    BY DEF Runs
  <2>2. 1 \in DOMAIN q
    <3>1. DOMAIN q = 1..Len(q) /\ Len(q) \in Nat /\ Len(q) # 0
      BY <1>3, LenProperties, EmptySeq DEF Runs
    <3>2. QED
      BY <3>1
  <2>3. CASE m < 0
    <3>1. \A i \in DOMAIN q : q[i] \notin RestsAt(m)
      BY <2>1, <2>3 DEF RestsAt, Attempts, TryRow
    <3>2. {i \in DOMAIN q : q[i] \in RestsAt(m)} = {}
      BY <3>1
    <3>3. Over(q, m) = 0
      BY <3>2, OverIs, FS_EmptySet DEF Count
    <3>4. PICK k \in 0..LastInstant : q[1] \in RestsAt(k)
      <4>1. q[1] \in Attempts /\ q[1].created \in 0..LastInstant
        BY <2>1, <2>2 DEF Attempts, TryRow
      <4>2. q[1] \in RestsAt(q[1].created)
        BY <4>1 DEF RestsAt, Attempts
      <4>3. QED
        BY <4>1, <4>2
    <3>5. Over(q, k) # 0
      <4> DEFINE S == {i \in DOMAIN q : q[i] \in RestsAt(k)}
      <4>1. IsFiniteSet(S) /\ S # {}
        BY <2>2, <3>4, Indices, FS_Subset DEF Runs
      <4> HIDE DEF S
      <4>2. Cardinality(S) # 0
        BY <4>1, FS_EmptySet
      <4>3. QED
        BY <4>2, OverIs DEF Count, S
    <3>6. QED
      BY <1>1, <1>2, <3>3, <3>5
  <2>4. CASE m > LastInstant
    <3>1. \A i \in DOMAIN q : q[i] \in RestsAt(m) => q[i] \in RestsAt(LastInstant)
      <4>1. \A t \in Attempts : t \in RestsAt(m) => t \in RestsAt(LastInstant)
        BY <2>4 DEF RestsAt, Attempts, TryRow
      <4>2. QED
        BY <4>1, <2>1
    <3>2. Count(q, RestsAt(m)) <= Count(q, RestsAt(LastInstant))
      BY <3>1, CountGrowsWithSet DEF Runs
    <3>3. Over(q, m) <= Over(q, LastInstant)
      BY <3>2, OverIs
    <3>4. LastInstant \in 0..LastInstant
      OBVIOUS
    <3>5. Over(q, LastInstant) <= Peak(q) /\ Over(q, LastInstant) \in Nat /\ Over(q, m) \in Nat
      BY <1>1
    <3>6. QED
      BY <1>2, <3>3, <3>4, <3>5
  <2>5. CASE m \in 0..LastInstant
    BY <1>2, <2>5
  <2>6. QED
    BY <2>3, <2>4, <2>5
<1>4. QED
  BY <1>1, <1>3

-----------------------------------------------------------------------------
(***************************************************************************)
(* A failure that never reached the exchange changes nothing but one       *)
(* abandoned episode at the end.                                           *)
(***************************************************************************)
LEMMA ReachedOfKind ==
  ASSUME NEW kinds
  PROVE  \A q \in Runs : OfKind(Reached(q), kinds) = Reached(OfKind(q, kinds))
<1> DEFINE X == {q \in Runs : OfKind(Reached(q), kinds) = Reached(OfKind(q, kinds))}
<1>1. <<>> \in X
  BY KindGrows, ReachedGrows DEF Runs
<1>2. ASSUME NEW q \in Seq(Attempts), NEW t \in Attempts, q \in X
      PROVE  Append(q, t) \in X
  <2> DEFINE a == Append(q, t)
             k == OfKind(q, kinds)
             r == Reached(q)
  <2>1. a \in Runs /\ k \in Seq(Attempts) /\ r \in Seq(Attempts)
    <3>1. k \in Seq(Attempts) /\ r \in Seq(Attempts)
      BY KindGrows, ReachedGrows
    <3>2. a \in Runs
      BY DEF Runs
    <3>3. QED
      BY <3>1, <3>2
  <2>2. OfKind(a, kinds) = KindStep(k, t, kinds) /\ Reached(a) = ReachedStep(r, t)
    BY KindGrows, ReachedGrows
  <2>3. OfKind(r, kinds) = Reached(k)
    BY <1>2
  <2> HIDE DEF a, k, r, X
  <2>4. /\ OfKind(Append(r, t), kinds) = KindStep(OfKind(r, kinds), t, kinds)
        /\ Reached(Append(k, t)) = ReachedStep(Reached(k), t)
    BY <2>1, KindGrows, ReachedGrows
  <2>5. OfKind(Reached(a), kinds) = Reached(OfKind(a, kinds))
    BY <2>2, <2>3, <2>4 DEF KindStep, ReachedStep
  <2>6. QED
    BY <2>1, <2>5 DEF X, a
<1>3. Seq(Attempts) \subseteq X
  <2> HIDE DEF X
  <2>1. QED
    BY <1>1, <1>2, GrowsToAll
<1>4. QED
  BY <1>3 DEF Runs

LEMMA ReachedOutcome ==
  \A q \in Runs : /\ Reached(q) \in Runs
                  /\ EpisodeOutcome(Reached(q)) = EpisodeOutcome(q)
<1> DEFINE X == {q \in Runs : /\ AnyFill(Reached(q)) <=> AnyFill(q)
                              /\ AnyOpen(Reached(q)) <=> AnyOpen(q)
                              /\ AnyLoss(Reached(q)) <=> AnyLoss(q)}
<1>1. <<>> \in X
  BY ReachedGrows DEF Runs
<1>2. ASSUME NEW q \in Seq(Attempts), NEW t \in Attempts, q \in X
      PROVE  Append(q, t) \in X
  <2> DEFINE a == Append(q, t)
             r == Reached(q)
  <2>1. a \in Runs /\ r \in Runs /\ q \in Runs
    BY ReachedGrows DEF Runs
  <2>2. Reached(a) = ReachedStep(r, t)
    BY ReachedGrows
  <2>3. /\ AnyFill(r) <=> AnyFill(q)
        /\ AnyOpen(r) <=> AnyOpen(q)
        /\ AnyLoss(r) <=> AnyLoss(q)
    BY <1>2
  <2>4. /\ AnyFill(a) <=> AnyFill(q) \/ HasFill(t)
        /\ AnyOpen(a) <=> AnyOpen(q) \/ Bucket(t) = "open"
        /\ AnyLoss(a) <=> AnyLoss(q) \/ CountsAsLoss(t)
    BY <2>1, AnyOfGrown
  <2> HIDE DEF a, r, X
  <2>5. /\ AnyFill(Append(r, t)) <=> AnyFill(r) \/ HasFill(t)
        /\ AnyOpen(Append(r, t)) <=> AnyOpen(r) \/ Bucket(t) = "open"
        /\ AnyLoss(Append(r, t)) <=> AnyLoss(r) \/ CountsAsLoss(t)
    BY <2>1, AnyOfGrown
  <2>6. t.origin = "local" => ~HasFill(t) /\ Bucket(t) # "open" /\ ~CountsAsLoss(t)
    BY BucketIs
  <2>7. CASE t.origin = "local"
    <3>1. Reached(a) = r
      BY <2>2, <2>7 DEF ReachedStep
    <3>2. QED
      BY <2>1, <2>3, <2>4, <2>6, <2>7, <3>1 DEF X, a
  <2>8. CASE t.origin # "local"
    <3>1. Reached(a) = Append(r, t)
      BY <2>2, <2>8 DEF ReachedStep
    <3>2. QED
      BY <2>1, <2>3, <2>4, <2>5, <3>1 DEF X, a
  <2>9. QED
    BY <2>7, <2>8
<1>3. Runs \subseteq X
  <2> HIDE DEF X
  <2>1. Seq(Attempts) \subseteq X
    BY <1>1, <1>2, GrowsToAll
  <2>2. QED
    BY <2>1 DEF Runs
<1>4. \A q \in Runs : Reached(q) \in Runs
  BY ReachedGrows DEF Runs
<1>5. ASSUME NEW q \in Runs
      PROVE  EpisodeOutcome(Reached(q)) = EpisodeOutcome(q)
  <2>1. q \in X /\ Reached(q) \in Runs
    BY <1>3, <1>4
  <2>2. QED
    BY <2>1, OutcomeIs
<1>6. QED
  BY <1>4, <1>5

\* What is left of the rows when nothing of them reached the exchange.
LastIsLocal(q) == q # <<>> /\ q[Len(q)].origin = "local"

LEMMA NoneReached ==
  ASSUME NEW q \in Runs, q # <<>>, Reached(q) = <<>>
  PROVE  LastIsLocal(q)
<1>1. PICK p \in Seq(Attempts), t \in Attempts : q = Append(p, t)
  BY SequenceEmptyOrAppend DEF Runs
<1>2. Reached(q) = ReachedStep(Reached(p), t) /\ Reached(p) \in Seq(Attempts)
  BY <1>1, ReachedGrows
<1>3. t.origin = "local"
  BY <1>2 DEF ReachedStep
<1>4. q[Len(q)] = t
  BY <1>1, AppendProperties
<1>5. QED
  BY <1>3, <1>4 DEF LastIsLocal

CutReached(q, a, b) ==
  /\ b.run = Reached(a.run)
  /\ \A o : Count(a.done, With(o)) = Count(b.done, With(o))
  /\ a.run # <<>> => a.run[Len(a.run)] = q[Len(q)]

LEMMA CutOfReached ==
  ASSUME NEW rule
  PROVE  \A q \in Runs : CutReached(q, Cut(q, rule), Cut(Reached(q), rule))
<1> DEFINE X == {q \in Runs : CutReached(q, Cut(q, rule), Cut(Reached(q), rule))}
<1>1. <<>> \in X
  <2>1. /\ Reached(<<>>) = <<>> /\ <<>> \in Runs
        /\ Cut(<<>>, rule).done = <<>> /\ Cut(<<>>, rule).run = <<>>
    BY CutGrows, ReachedGrows DEF Runs
  <2>2. QED
    BY <2>1 DEF CutReached
<1>2. ASSUME NEW q \in Seq(Attempts), NEW t \in Attempts, q \in X
      PROVE  Append(q, t) \in X
  <2> DEFINE p == Append(q, t)
             r == Reached(q)
             a == Cut(q, rule)
             b == Cut(r, rule)
             run == Append(a.run, t)
             left == Append(b.run, t)
  <2>1. p \in Runs /\ r \in Seq(Attempts) /\ p[Len(p)] = t
    <3>1. p[Len(p)] = t
      BY AppendProperties
    <3>2. QED
      BY <3>1, ReachedGrows DEF Runs
  <2>2. Reached(p) = ReachedStep(r, t) /\ a \in Cuts /\ Cut(p, rule) = CutStep(a, t, rule)
    BY ReachedGrows, CutGrows
  <2>3. CutReached(q, a, b)
    BY <1>2
  <2> HIDE DEF p, r, a, X
  <2>4. b \in Cuts /\ Cut(Append(r, t), rule) = CutStep(b, t, rule)
    BY <2>1, CutGrows
  <2> HIDE DEF b
  <2>5. /\ a.run \in Runs /\ run \in Runs /\ a.done \in Seq(Runs)
        /\ b.run \in Runs /\ left \in Runs /\ b.done \in Seq(Runs)
    BY <2>2, <2>4 DEF Cuts, Runs
  <2>6. run[Len(run)] = t
    BY <2>5, AppendProperties DEF Runs
  <2>7. Reached(run) = ReachedStep(Reached(a.run), t)
    BY <2>5, ReachedGrows DEF Runs
  <2> HIDE DEF run, left
  <2>8. /\ \A Y : Count(Append(a.done, run), Y) = Count(a.done, Y) + IF run \in Y THEN 1 ELSE 0
        /\ \A Y : Count(Append(b.done, left), Y) = Count(b.done, Y) + IF left \in Y THEN 1 ELSE 0
    BY <2>5, CountAppended
  <2>9. CASE t.origin = "local"
    <3>1. ~Closes(t, rule)
      BY <2>9, BucketIs DEF Closes
    <3>2. Cut(p, rule).done = a.done /\ Cut(p, rule).run = run
      BY <2>2, <3>1 DEF CutStep, Cuts, run
    <3>3. Reached(p) = r /\ Reached(run) = Reached(a.run)
      BY <2>2, <2>7, <2>9 DEF ReachedStep
    <3>4. CutReached(p, Cut(p, rule), Cut(Reached(p), rule))
      BY <2>1, <2>3, <2>6, <3>2, <3>3 DEF CutReached, b
    <3>5. QED
      BY <2>1, <3>4 DEF X, p
  <2>10. CASE t.origin # "local"
    <3>1. Reached(p) = Append(r, t) /\ Reached(run) = Append(Reached(a.run), t)
      BY <2>2, <2>7, <2>10 DEF ReachedStep
    <3>2. Reached(run) = left
      BY <2>3, <3>1 DEF CutReached, left
    <3>3. Cut(Reached(p), rule) = CutStep(b, t, rule)
      BY <2>4, <3>1
    <3>4. CASE Closes(t, rule)
      <4>1. /\ Cut(p, rule).done = Append(a.done, run) /\ Cut(p, rule).run = <<>>
            /\ Cut(Reached(p), rule).done = Append(b.done, left) /\ Cut(Reached(p), rule).run = <<>>
        BY <2>2, <3>3, <3>4 DEF CutStep, run, left
      <4>2. \A o : run \in With(o) <=> left \in With(o)
        BY <2>5, <3>2, ReachedOutcome DEF With
      <4>3. \A o : Count(Append(a.done, run), With(o)) = Count(Append(b.done, left), With(o))
        BY <2>3, <2>8, <4>2 DEF CutReached
      <4>4. CutReached(p, Cut(p, rule), Cut(Reached(p), rule))
        BY <4>1, <4>3, ReachedGrows DEF CutReached
      <4>5. QED
        BY <2>1, <4>4 DEF X, p
    <3>5. CASE ~Closes(t, rule)
      <4>1. /\ Cut(p, rule).done = a.done /\ Cut(p, rule).run = run
            /\ Cut(Reached(p), rule).done = b.done /\ Cut(Reached(p), rule).run = left
        BY <2>2, <2>4, <3>3, <3>5 DEF CutStep, Cuts, run, left
      <4>2. CutReached(p, Cut(p, rule), Cut(Reached(p), rule))
        BY <2>1, <2>3, <2>6, <3>2, <4>1 DEF CutReached
      <4>3. QED
        BY <2>1, <4>2 DEF X, p
    <3>6. QED
      BY <3>4, <3>5
  <2>11. QED
    BY <2>9, <2>10
<1>3. Seq(Attempts) \subseteq X
  <2> HIDE DEF X
  <2>1. QED
    BY <1>1, <1>2, GrowsToAll
<1>4. QED
  BY <1>3 DEF Runs

LEMMA EpisodesOfReached ==
  ASSUME NEW rule, NEW q \in Runs
  PROVE  LET e == Episodes(q, rule)
             f == Episodes(Reached(q), rule)
         IN  /\ \A o : o # "abandoned" => Count(e, With(o)) = Count(f, With(o))
             /\ Count(e, With("abandoned")) # Count(f, With("abandoned")) =>
                  /\ Count(e, With("abandoned")) = Count(f, With("abandoned")) + 1
                  /\ q[Len(q)].origin = "local"
<1> DEFINE a == Cut(q, rule)
           b == Cut(Reached(q), rule)
           e == Episodes(q, rule)
           f == Episodes(Reached(q), rule)
<1>1. CutReached(q, a, b) /\ a \in Cuts /\ b \in Cuts
  BY CutOfReached, CutGrows, ReachedGrows DEF Runs
<1>2. /\ e = IF a.run = <<>> THEN a.done ELSE Append(a.done, a.run)
      /\ f = IF b.run = <<>> THEN b.done ELSE Append(b.done, b.run)
  BY DEF Episodes
<1> HIDE DEF a, b, e, f
<1>3. a.run \in Runs /\ a.done \in Seq(Runs) /\ b.run \in Runs /\ b.done \in Seq(Runs)
  BY <1>1 DEF Cuts
<1>4. /\ \A Y : Count(Append(a.done, a.run), Y) = Count(a.done, Y) + IF a.run \in Y THEN 1 ELSE 0
      /\ \A Y : Count(Append(b.done, b.run), Y) = Count(b.done, Y) + IF b.run \in Y THEN 1 ELSE 0
      /\ \A Y : Count(a.done, Y) \in Nat
  BY <1>3, CountAppended, CountIsNat
<1>5. \A o : Count(a.done, With(o)) = Count(b.done, With(o))
  BY <1>1 DEF CutReached
<1>6. b.run = Reached(a.run) /\ \A o : a.run \in With(o) <=> b.run \in With(o)
  BY <1>1, <1>3, ReachedOutcome DEF CutReached, With
<1>7. CASE a.run = <<>>
  <2>1. b.run = <<>>
    BY <1>6, <1>7, ReachedGrows
  <2>2. QED
    BY <1>2, <1>5, <1>7, <2>1 DEF e, f
<1>8. CASE a.run # <<>> /\ b.run # <<>>
  <2>1. \A o : Count(e, With(o)) = Count(f, With(o))
    BY <1>2, <1>4, <1>5, <1>6, <1>8
  <2>2. QED
    BY <2>1 DEF e, f
<1>9. CASE a.run # <<>> /\ b.run = <<>>
  <2>1. EpisodeOutcome(b.run) = "abandoned"
    BY <1>3, <1>9, AnyOfNone, OutcomeIs
  <2>2. \A o : a.run \in With(o) <=> o = "abandoned"
    BY <1>3, <1>6, <2>1 DEF With
  <2>3. q[Len(q)].origin = "local"
    BY <1>1, <1>3, <1>6, <1>9, NoneReached DEF CutReached, LastIsLocal
  <2>4. e = Append(a.done, a.run) /\ f = b.done
    BY <1>2, <1>9
  <2>5. \A o : o # "abandoned" => Count(e, With(o)) = Count(f, With(o))
    <3>1. SUFFICES ASSUME NEW o, o # "abandoned" PROVE Count(e, With(o)) = Count(f, With(o))
      OBVIOUS
    <3>2. Count(e, With(o)) = Count(a.done, With(o)) + 0 /\ Count(a.done, With(o)) \in Nat
      BY <1>4, <2>2, <2>4, <3>1
    <3>3. QED
      BY <1>5, <2>4, <3>2
  <2>6. Count(e, With("abandoned")) = Count(f, With("abandoned")) + 1
    <3>1. Count(e, With("abandoned")) = Count(a.done, With("abandoned")) + 1
      BY <1>4, <2>2, <2>4
    <3>2. QED
      BY <1>5, <2>4, <3>1
  <2>7. QED
    BY <2>3, <2>5, <2>6 DEF e, f
<1>10. QED
  BY <1>7, <1>8, <1>9

LEMMA LayersCount ==
  ASSUME NEW q \in Runs
  PROVE  /\ \A rule : Layer(q, rule).won = Number(Conditional(q), HasFill)
         /\ Layer(q, Second).lost + Layer(q, Second).openAfterRejection
              = Number(Conditional(q), CountsAsLoss)
<1> DEFINE c == Conditional(q)
<1>1. c \in Runs
  BY KindGrows DEF Conditional, Runs
<1>2. \A i \in DOMAIN c : c[i] \in Attempts
  <2> HIDE DEF c
  <2>1. QED
    BY <1>1 DEF Runs
<1>3. \A rule : /\ Layer(q, rule).won = Count(Episodes(c, rule), With("won"))
                /\ Layer(q, rule).lost = Count(Episodes(c, rule), With("lost"))
                /\ Layer(q, rule).openAfterRejection = Count(Episodes(c, rule), LostOpen)
  BY LayerIs
<1> HIDE DEF c
<1>4. /\ {i \in DOMAIN c : HasFill(c[i])} = {i \in DOMAIN c : c[i] \in Fills}
      /\ {i \in DOMAIN c : CountsAsLoss(c[i])} = {i \in DOMAIN c : c[i] \in Losses}
  BY <1>2 DEF Fills, Losses
<1>5. Number(c, HasFill) = Count(c, Fills) /\ Number(c, CountsAsLoss) = Count(c, Losses)
  BY <1>4 DEF Number, Count
<1>6. QED
  BY <1>1, <1>3, <1>5, EpisodesAreRight DEF c

LEMMA LayersReached ==
  ASSUME NEW q \in Runs, NEW rule
  PROVE  LET all == Layer(q, rule)
             without == Layer(Reached(q), rule)
             rows == Conditional(q)
         IN  /\ all.lost = without.lost /\ all.open = without.open
             /\ all.abandoned # without.abandoned =>
                  /\ all.abandoned = without.abandoned + 1
                  /\ rows[Len(rows)].origin = "local"
<1> DEFINE c == Conditional(q)
           r == Reached(q)
           e == Episodes(c, rule)
           f == Episodes(Conditional(r), rule)
<1>1. c \in Runs /\ r \in Runs
  BY KindGrows, ReachedGrows DEF Conditional, Runs
<1>2. Conditional(r) = Reached(c)
  BY ReachedOfKind DEF Conditional
<1>3. /\ Layer(q, rule).lost = Count(e, With("lost"))
      /\ Layer(q, rule).open = Count(e, With("open"))
      /\ Layer(q, rule).abandoned = Count(e, With("abandoned"))
  BY LayerIs
<1>4. /\ Layer(r, rule).lost = Count(f, With("lost"))
      /\ Layer(r, rule).open = Count(f, With("open"))
      /\ Layer(r, rule).abandoned = Count(f, With("abandoned"))
  BY <1>1, LayerIs
<1>5. /\ \A o : o # "abandoned" => Count(e, With(o)) = Count(f, With(o))
      /\ Count(e, With("abandoned")) # Count(f, With("abandoned")) =>
           /\ Count(e, With("abandoned")) = Count(f, With("abandoned")) + 1
           /\ c[Len(c)].origin = "local"
  BY <1>1, <1>2, EpisodesOfReached
<1> HIDE DEF e, f
<1>6. Count(e, With("lost")) = Count(f, With("lost")) /\ Count(e, With("open")) = Count(f, With("open"))
  BY <1>5
<1>7. QED
  BY <1>3, <1>4, <1>5, <1>6

\* A lost race is a loss unless it kept a fill.
LEMMA RaceIsLoss ==
  ASSUME NEW t \in Attempts, C1(t) = "matched"
  PROVE  CountsAsLoss(t) \/ C3(t) = "matched"
<1>1. t.state = "rejected" /\ t.origin = "race"
  BY DEF C1, Attempts
<1>2. t.filled \in {Unread, 1}
  BY <1>1 DEF Attempts
<1>3. CASE t.filled = Unread
  BY <1>1, <1>3 DEF CountsAsLoss, Bucket, HasFill, Unread
<1>4. CASE t.filled = 1
  BY <1>1, <1>4, CompletenessAssumption DEF C3, Unread
<1>5. QED
  BY <1>2, <1>3, <1>4

LEMMA LayersAgreeOf == TryInv => LayersAgree
<1> SUFFICES ASSUME TryInv PROVE LayersAgree
  OBVIOUS
<1> DEFINE rows == Conditional(tried)
           resting == Resting(tried)
<1>1. tried \in Runs /\ rows \in Runs /\ resting \in Runs
  BY KindGrows DEF TryInv, Conditional, Resting, Runs
<1>2. \A i \in DOMAIN rows : C1(rows[i]) = "matched" => CountsAsLoss(rows[i]) \/ C3(rows[i]) = "matched"
  <2> HIDE DEF rows
  <2>1. \A i \in DOMAIN rows : rows[i] \in Attempts
    BY <1>1 DEF Runs
  <2>2. QED
    BY <2>1, RaceIsLoss
<1>3. /\ \A m \in 0..LastInstant : Over(resting, m) <= Peak(resting)
      /\ resting # <<>> => \E m \in 0..LastInstant : Over(resting, m) = Peak(resting)
  BY <1>1, PeakIsReached
<1>4. /\ Layer(tried, "fill_closes").won = Number(rows, HasFill)
      /\ Layer(tried, "fill_or_rejection_closes").won = Number(rows, HasFill)
      /\ Layer(tried, "fill_or_rejection_closes").lost
           + Layer(tried, "fill_or_rejection_closes").openAfterRejection = Number(rows, CountsAsLoss)
  BY <1>1, LayersCount DEF Second
<1>5. \A rule \in Rules :
        LET all == Layer(tried, rule)
            without == Layer(Reached(tried), rule)
        IN  /\ all.lost = without.lost /\ all.open = without.open
            /\ all.abandoned # without.abandoned =>
                 /\ all.abandoned = without.abandoned + 1
                 /\ rows[Len(rows)].origin = "local"
  BY <1>1, LayersReached
<1> HIDE DEF rows, resting
<1>6. QED
  BY <1>2, <1>3, <1>4, <1>5 DEF LayersAgree, rows, resting

\* The layers of a report agree, whatever rows it is made of: each fill is a win under
\* both rules, each lost rejection a loss or visible behind an open order, and so on.
THEOREM LayersAlwaysAgree == TrySpec => []LayersAgree
BY LayersAgreeOf, TryStart, TryStep, PTL DEF TrySpec

-----------------------------------------------------------------------------
(***************************************************************************)
(* The books side by side: a behaviour that follows one of them leaves the *)
(* variables of the others as they begin.                                  *)
(***************************************************************************)
LEMMA BooksSteps ==
  [LedgerFollowed \/ EngineFollowed \/ CodeFollowed \/ TriesFollowed]_booksVars =>
    /\ [Next]_vars /\ [BrokerNext]_brokerVars
    /\ [SwingNext]_swingVars /\ [TryNext]_tryVars
BY DEF LedgerFollowed, EngineFollowed, CodeFollowed, TriesFollowed, booksVars

LEMMA BooksAreKept ==
  BooksSpec => Spec /\ BrokerSpec /\ SwingSpec /\ TrySpec
<1>1. BooksInit => Init /\ BrokerInit /\ SwingInit /\ TryInit
  BY DEF BooksInit
<1>2. QED
  BY <1>1, BooksSteps, PTL DEF BooksSpec, Spec, BrokerSpec, SwingSpec, TrySpec

\* Type correctness of the report and of all the books.
THEOREM BooksTypes == BooksSpec => []BooksTypeOK
<1>1. TrySpec => []TryTypeOK
  BY TryStart, TryStep, TryInvIsTyped, PTL DEF TrySpec
<1>2. TypeOK /\ BrokerTypeOK /\ SwingTypeOK /\ TryTypeOK => BooksTypeOK
  BY DEF BooksTypeOK
<1>3. QED
  BY <1>1, <1>2, BooksAreKept, TypeCorrect, BrokerTypes, SwingTypes, PTL

\* What is checked of the books side by side holds of every instance of them: the
\* order ledger sends an order once and lets no cancelled one live or end twice; the
\* engine's brackets fit and its exchange follows; the ledger of a backtest of
\* code agrees with the plan it replays rightly; and the layers of a report of the
\* entries agree, and keep what they settled.
THEOREM BooksAreRight ==
  BooksSpec =>
    /\ []AtMostOneCreate /\ []CancelledIsNotLive /\ TerminalIsFinal
    /\ []BracketsFit /\ []VenueFollows
    /\ []ReplayRight /\ []CopiesAgree
    /\ []LayersAgree /\ SettledStays
<1>1. Spec => []AtMostOneCreate /\ []CancelledIsNotLive /\ TerminalIsFinal
  BY CreatedOnce, CancelIsSafe, EndIsFinal
<1>2. BrokerSpec => []BracketsFit /\ []VenueFollows
  BY BracketsAlwaysFit, VenueIsFollowed
<1>3. SwingSpec => []ReplayRight /\ []CopiesAgree
  BY ReplayIsRight, CopiesAlwaysAgree
<1>4. TrySpec => []LayersAgree /\ SettledStays
  BY LayersAlwaysAgree, SettledIsKept
<1>5. QED
  BY <1>1, <1>2, <1>3, <1>4, BooksAreKept
================================================================================
