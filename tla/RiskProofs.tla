-------------------------------- MODULE RiskProofs --------------------------------
(***************************************************************************)
(* Proofs about what a fill at the exchange sets going (MCRisk), for any   *)
(* drains, sweeps, faults and quantities: an entry of a code strategy is   *)
(* prepared on a clear venue only, the amount that an order realized is    *)
(* proven, the trailing stop is set on the position of its own entry.      *)
(***************************************************************************)
EXTENDS MCRisk, SumProofs

(***************************************************************************)
(* The inductive invariant of the position of a code strategy.             *)
(***************************************************************************)
LedgerFields ==
  {"generation", "cumulative", "position", "tp", "terminal", "close", "reversal", "blocked",
   "reason", "unsettled", "confirmed", "desired", "desiredTp", "applied", "exits"}
OrderFields == {"row", "venue", "want", "filled"}
DrainFields == {"step", "on", "seen", "cmd", "order", "terminal"}

\* The fields of the rows, whatever they hold.
Shapes ==
  /\ DOMAIN riskLedger = LedgerFields
  /\ {Entry, Sl} \subseteq DOMAIN riskOrders
  /\ \A o \in DOMAIN riskOrders : DOMAIN riskOrders[o] = OrderFields
  /\ \A k \in DOMAIN riskCommands : DOMAIN riskCommands[k] = {"status", "qty"}
  /\ DOMAIN drain = Drains
  /\ \A d \in Drains : DOMAIN drain[d] = DrainFields

\* A drain that is in the middle of a command holds the one that is running.
Active(d) == drain[d].step \in {"run", "child", "create", "sent", "flat"}
Leased ==
  /\ \A d \in Drains : Active(d) => drain[d].cmd \in Running
  /\ \A k, j \in Running : k = j
  /\ \A d, e \in Drains : Active(d) /\ Active(e) => d = e

\* Once the entry has ended in the ledger it is not created any more.
EntryOver ==
  riskLedger.terminal =>
    \/ riskOrders[Entry].venue \in VenueEnds
    \/ /\ riskOrders[Entry].row = "ended"
       /\ \A d \in Drains : drain[d].step = "create" => drain[d].order # Entry

\* A take-profit is made for a position that was there when it was asked for.
ProtectsPosition ==
  \A d \in Drains :
    drain[d].step = "run" /\ drain[d].cmd[1] = "apply_protection" => drain[d].seen # 0

\* What was confirmed stays so.
ConfirmedIsClear == riskLedger.confirmed => riskLedger.terminal /\ VenueClear

RiskInv ==
  Shapes /\ Leased /\ EntryOver /\ ProtectsPosition /\ ConfirmedIsClear /\ EntryOnlyWhenFlat

-----------------------------------------------------------------------------
(***************************************************************************)
(* The operators of the ledger: none confirms, none reopens the entry.     *)
(***************************************************************************)
IsLedger(l) == DOMAIN l = LedgerFields

\* m may follow l in the ledger without an end of the entry.
Keeps(l, m) ==
  /\ IsLedger(m)
  /\ m.confirmed => l.confirmed
  /\ m.terminal <=> l.terminal

LEMMA KeepsAll ==
  ASSUME NEW l, NEW m, NEW n, Keeps(l, m), Keeps(m, n)
  PROVE  Keeps(l, n)
BY DEF Keeps

LEMMA FailKeeps ==
  ASSUME NEW l, IsLedger(l), NEW why
  PROVE  Keeps(l, Fail(l, why))
BY DEF IsLedger, LedgerFields, Keeps, Fail

LEMMA CloseKeeps ==
  ASSUME NEW l, IsLedger(l)
  PROVE  Keeps(l, l) /\ Keeps(l, RequestClose(l)) /\ Keeps(l, RequestReversal(l))
BY DEF IsLedger, LedgerFields, Keeps, RequestClose, RequestReversal

LEMMA DesireKeeps ==
  ASSUME NEW l, IsLedger(l)
  PROVE  Keeps(l, Desire(l))
BY DEF IsLedger, LedgerFields, Keeps, Desire

LEMMA BookKeeps ==
  ASSUME NEW l, IsLedger(l), NEW o, NEW fill
  PROVE  Keeps(l, Book(l, o, fill))
BY DEF IsLedger, LedgerFields, Keeps, Book

LEMMA AcknowledgedKeeps ==
  ASSUME NEW l, IsLedger(l), NEW token
  PROVE  Keeps(l, Acknowledged(l, token))
BY DEF IsLedger, LedgerFields, Keeps, Acknowledged

\* The end of the entry reaches the ledger with a fill of the entry only.
EndsWith(l, m, ended) ==
  /\ IsLedger(m)
  /\ m.confirmed => l.confirmed
  /\ l.terminal => m.terminal
  /\ m.terminal => l.terminal \/ ended

LEMMA EndsWithKept ==
  ASSUME NEW l, NEW m, NEW n, NEW ended, EndsWith(l, m, ended), Keeps(m, n)
  PROVE  EndsWith(l, n, ended)
BY DEF Keeps, EndsWith

LEMMA KeepsIsEnd ==
  ASSUME NEW l, NEW m, NEW ended, Keeps(l, m)
  PROVE  EndsWith(l, m, ended)
BY DEF Keeps, EndsWith

LEMMA EntryFillEnds ==
  ASSUME NEW l, IsLedger(l), NEW qty, NEW ended
  PROVE  EndsWith(l, EntryFill(l, qty, ended), ended)
<1> DEFINE more == [l EXCEPT !.position = @ + qty - l.cumulative, !.cumulative = qty]
           next == [more EXCEPT !.terminal = @ \/ ended]
<1>1. Keeps(l, more)
  BY DEF IsLedger, LedgerFields, Keeps
<1>2. EndsWith(l, next, ended)
  BY <1>1 DEF IsLedger, LedgerFields, Keeps, EndsWith
<1>3. EndsWith(l, Fail(more, "other"), ended) /\ EndsWith(l, l, ended)
  BY <1>1, FailKeeps, CloseKeeps, KeepsAll, KeepsIsEnd DEF Keeps
<1> HIDE DEF more, next
<1>4. EndsWith(l, Fail(next, "other"), ended) /\ EndsWith(l, Desire(next), ended)
  <2>1. Keeps(next, Fail(next, "other")) /\ Keeps(next, Desire(next))
    BY <1>2, FailKeeps, DesireKeeps DEF EndsWith
  <2>2. QED
    BY <1>2, <2>1, EndsWithKept
<1>5. EntryFill(l, qty, ended) \in {l, Fail(more, "other"), Fail(next, "other"), Desire(next), next}
  BY DEF EntryFill, more, next
<1>6. QED
  BY <1>2, <1>3, <1>4, <1>5

LEMMA SettleKeeps ==
  ASSUME NEW l, IsLedger(l), NEW o, NEW delta, NEW ended
  PROVE  Keeps(l, Settle(l, o, delta, ended))
<1> DEFINE owed == l.exits[o].owed + delta
           credit == IF ended THEN Min({l.unsettled, owed}) ELSE 0
           rest == [Book(l, o, [l.exits[o] EXCEPT !.owed = owed - credit])
                      EXCEPT !.unsettled = @ - credit]
<1>1. Keeps(l, rest)
  <2>1. Keeps(l, Book(l, o, [l.exits[o] EXCEPT !.owed = owed - credit]))
    BY BookKeeps
  <2>2. QED
    BY <2>1 DEF IsLedger, LedgerFields, Keeps
<1> HIDE DEF rest, owed, credit
<1>2. Keeps(rest, [rest EXCEPT !.blocked = FALSE, !.reason = "none"])
  BY <1>1 DEF IsLedger, LedgerFields, Keeps
<1>3. Settle(l, o, delta, ended) \in {rest, [rest EXCEPT !.blocked = FALSE, !.reason = "none"]}
  BY DEF Settle, rest, owed, credit
<1>4. QED
  BY <1>1, <1>2, <1>3, KeepsAll

LEMMA ExitFillKeeps ==
  ASSUME NEW l, IsLedger(l), NEW o, NEW qty, NEW ended
  PROVE  Keeps(l, ExitFill(l, o, qty, ended))
<1> DEFINE prior == Booked(l, o)
           delta == qty - prior.qty
           late == l.position = 0 /\ l.terminal
           booked == [Book(l, o, [prior EXCEPT !.qty = qty]) EXCEPT
                        !.position = Reduced(l, delta),
                        !.tp = IF o = Tp THEN @ + delta ELSE @,
                        !.close = @ \/ o # Tp]
           next == IF late /\ l.unsettled > 0 THEN Settle(booked, o, delta, ended) ELSE booked
<1>1. Keeps(l, booked)
  <2>1. Keeps(l, Book(l, o, [prior EXCEPT !.qty = qty]))
    BY BookKeeps
  <2>2. QED
    BY <2>1 DEF IsLedger, LedgerFields, Keeps
<1> HIDE DEF booked
<1>2. Keeps(l, next)
  BY <1>1, SettleKeeps, KeepsAll DEF Keeps
<1> HIDE DEF next
<1>3. Keeps(next, [next EXCEPT !.confirmed = FALSE])
  BY <1>2 DEF IsLedger, LedgerFields, Keeps
<1>4. ExitFill(l, o, qty, ended)
        \in {l, Fail(booked, "other"), Desire(next), [next EXCEPT !.confirmed = FALSE], next}
  BY DEF ExitFill, next, booked
<1>5. Keeps(l, l) /\ Keeps(booked, Fail(booked, "other")) /\ Keeps(next, Desire(next))
  BY <1>1, <1>2, FailKeeps, CloseKeeps, DesireKeeps DEF Keeps
<1>6. Keeps(l, Fail(booked, "other"))
  BY <1>1, <1>5, KeepsAll
<1>7. Keeps(l, Desire(next)) /\ Keeps(l, [next EXCEPT !.confirmed = FALSE])
  BY <1>2, <1>3, <1>5, KeepsAll
<1>8. QED
  BY <1>2, <1>4, <1>5, <1>6, <1>7

LEMMA ObservedEnds ==
  ASSUME NEW l, IsLedger(l), NEW o, NEW rest
  PROVE  EndsWith(l, Observed(l, o, rest), o = Entry /\ Ended(Entry))
<1> DEFINE filled == ExitFill(l, o, riskOrders[o].filled, Ended(o))
<1>1. Keeps(l, filled)
  BY ExitFillKeeps
<1> HIDE DEF filled
<1>2. Keeps(l, Fail(filled, "other")) /\ Keeps(l, Book(l, o, [qty |-> 0, owed |-> 0]))
  BY <1>1, FailKeeps, BookKeeps, KeepsAll DEF Keeps
<1>3. CASE o = Entry
  <2>1. Observed(l, o, rest) = EntryFill(l, riskOrders[o].filled, Ended(o))
    BY <1>3 DEF Observed
  <2>2. QED
    BY <1>3, <2>1, EntryFillEnds DEF EndsWith
<1>4. CASE o # Entry
  <2>1. Observed(l, o, rest)
          \in {filled, Fail(filled, "other"), Book(l, o, [qty |-> 0, owed |-> 0])}
    BY <1>4 DEF Observed, filled
  <2>2. QED
    BY <1>1, <1>2, <2>1, KeepsIsEnd
<1>5. QED
  BY <1>3, <1>4

LEMMA SeesStopKeeps ==
  ASSUME NEW l, IsLedger(l)
  PROVE  Keeps(l, SeesStop(l))
<1>1. Keeps(l, Observed(l, Sl, TRUE))
  <2>1. Sl # Entry
    BY DEF Sl, Entry
  <2>2. EndsWith(l, Observed(l, Sl, TRUE), Sl = Entry /\ Ended(Entry))
    BY ObservedEnds
  <2>3. QED
    BY <2>1, <2>2 DEF Keeps, EndsWith
<1>2. QED
  BY <1>1, CloseKeeps DEF SeesStop

\* A confirmation that the venue is clear is the only one.
LEMMA ConfirmFlatKeeps ==
  ASSUME NEW l, IsLedger(l), NEW unexplained
  PROVE  /\ Keeps(l, ConfirmFlat(l, FALSE, unexplained))
         /\ IsLedger(ConfirmFlat(l, TRUE, unexplained))
         /\ ConfirmFlat(l, TRUE, unexplained).terminal <=> l.terminal
         /\ ConfirmFlat(l, TRUE, unexplained).confirmed => l.terminal
<1> DEFINE gone == IF unexplained /\ l.position > 0
                     THEN [RequestClose(l) EXCEPT
                             !.unsettled = @ + l.position, !.blocked = TRUE,
                             !.reason = IF @ = "none" THEN "unsettled" ELSE @]
                     ELSE l
<1>1. Keeps(l, gone)
  <2>1. Keeps(l, RequestClose(l)) /\ Keeps(l, l)
    BY CloseKeeps
  <2>2. QED
    BY <2>1 DEF IsLedger, LedgerFields, Keeps
<1> HIDE DEF gone
<1>2. ASSUME NEW c
      PROVE  ConfirmFlat(l, c, unexplained)
               = [gone EXCEPT !.position = 0, !.confirmed = c /\ l.terminal]
  BY DEF ConfirmFlat, gone
<1>3. QED
  BY <1>1, <1>2 DEF IsLedger, LedgerFields, Keeps

LEMMA CancelSeenEnds ==
  ASSUME IsLedger(riskLedger), NEW o
  PROVE  EndsWith(riskLedger, CancelSeen(o), o = Entry)
<1>1. Keeps(riskLedger, riskLedger)
  BY CloseKeeps
<1>2. Keeps(riskLedger, ExitFill(riskLedger, o, riskOrders[o].filled, TRUE))
  BY ExitFillKeeps
<1>3. EndsWith(riskLedger, EntryFill(riskLedger, 0, TRUE), TRUE)
  BY EntryFillEnds
<1>4. EndsWith(riskLedger, EntryFill(riskLedger, riskOrders[o].filled, TRUE), TRUE)
  BY EntryFillEnds
<1>5. CASE o = Entry
  BY <1>3, <1>4, <1>5 DEF CancelSeen, EndsWith
<1>6. CASE o # Entry
  BY <1>1, <1>2, <1>6 DEF CancelSeen, EndsWith, Keeps
<1>7. QED
  BY <1>5, <1>6

-----------------------------------------------------------------------------
(***************************************************************************)
(* The commands: saving the ledger leaves the one that runs alone.         *)
(***************************************************************************)
CommandShape(c) == \A k \in DOMAIN c : DOMAIN c[k] = {"status", "qty"}
RunningOf(c) == {k \in DOMAIN c : c[k].status = "running"}

LEMMA Saved ==
  ASSUME NEW c, CommandShape(c), NEW l, Save(l, c)
  PROVE  riskLedger' = l /\ CommandShape(riskCommands') /\ Running' = RunningOf(c)
BY DEF Save, Enqueue, Kept, CommandShape, RunningOf, Running

LEMMA ShapesAre ==
  Shapes => IsLedger(riskLedger) /\ CommandShape(riskCommands) /\ Running = RunningOf(riskCommands)
BY DEF Shapes, IsLedger, CommandShape, RunningOf, Running

-----------------------------------------------------------------------------
(***************************************************************************)
(* The kinds of steps of the drains.                                       *)
(***************************************************************************)
\* At most drain d moves, and to where it holds no command.
Rests(d) ==
  /\ DOMAIN drain' = Drains
  /\ \A e \in Drains :
       /\ DOMAIN drain'[e] = DrainFields
       /\ drain'[e] = drain[e] \/ (e = d /\ drain'[e].step \in {"idle", "fetched", "loop"})

\* Drain d goes on with its command.
GoesOn(d, s) ==
  /\ Active(d) /\ s \in {"child", "create", "sent", "flat"}
  /\ DOMAIN drain' = Drains
  /\ \A e \in Drains :
       /\ DOMAIN drain'[e] = DrainFields
       /\ IF e = d THEN drain'[e].step = s /\ drain'[e].cmd = drain[e].cmd
          ELSE drain'[e] = drain[e]

\* Drain d begins command k.
Begins(d, k) ==
  /\ DOMAIN drain' = Drains
  /\ \A e \in Drains :
       /\ DOMAIN drain'[e] = DrainFields
       /\ IF e = d THEN /\ drain'[e].step = "run" /\ drain'[e].cmd = k
                        /\ k[1] = "apply_protection" => drain'[e].seen # 0
          ELSE drain'[e] = drain[e]

LeaseStep(d) ==
  \/ Rests(d) /\ Running' = Running
  \/ Rests(d) /\ Active(d) /\ ~Active(d)' /\ Running' = Running \ {drain[d].cmd}
  \/ (\E s \in {"child", "create", "sent", "flat"} : GoesOn(d, s)) /\ Running' = Running
  \/ Running = {} /\ \E k : Begins(d, k) /\ Running' = {k}
  \/ /\ UNCHANGED drain
     /\ \E k \in Running : (\A e \in Drains : drain[e].cmd # k) /\ Running' = Running \ {k}

LEMMA LeasedKept ==
  ASSUME Leased, NEW d \in Drains, LeaseStep(d)
  PROVE  Leased'
<1>1. CASE Rests(d) /\ Running' = Running
  <2>1. \A e \in Drains : Active(e)' => Active(e) /\ drain'[e].cmd = drain[e].cmd
    BY <1>1 DEF Rests, Active
  <2>2. QED
    BY <1>1, <2>1 DEF Leased
<1>2. CASE Rests(d) /\ Active(d) /\ ~Active(d)' /\ Running' = Running \ {drain[d].cmd}
  <2>1. \A e \in Drains : ~Active(e)'
    BY <1>2 DEF Rests, Active, Leased
  <2>2. QED
    BY <1>2, <2>1 DEF Leased
<1>3. CASE (\E s \in {"child", "create", "sent", "flat"} : GoesOn(d, s)) /\ Running' = Running
  <2>1. \A e \in Drains : Active(e)' => Active(e) /\ drain'[e].cmd = drain[e].cmd
    BY <1>3 DEF GoesOn, Active
  <2>2. QED
    BY <1>3, <2>1 DEF Leased
<1>4. CASE Running = {} /\ \E k : Begins(d, k) /\ Running' = {k}
  <2>1. \A e \in Drains : ~Active(e)
    BY <1>4 DEF Leased
  <2>2. \A e \in Drains \ {d} : ~Active(e)'
    BY <1>4, <2>1 DEF Begins, Active
  <2>3. QED
    BY <1>4, <2>2 DEF Leased, Begins
<1>5. CASE /\ UNCHANGED drain
           /\ \E k \in Running : (\A e \in Drains : drain[e].cmd # k) /\ Running' = Running \ {k}
  <2>1. \A e \in Drains : ~Active(e)'
    BY <1>5 DEF Leased, Active
  <2>2. QED
    BY <1>5, <2>1 DEF Leased
<1>6. QED
  BY <1>1, <1>2, <1>3, <1>4, <1>5 DEF LeaseStep

LEMMA ProtectionKept ==
  ASSUME ProtectsPosition, NEW d \in Drains, LeaseStep(d)
  PROVE  ProtectsPosition'
<1>1. ASSUME NEW e \in Drains, drain'[e].step = "run"
      PROVE  drain'[e] = drain[e] \/ (drain'[e].cmd[1] = "apply_protection" => drain'[e].seen # 0)
  BY <1>1 DEF LeaseStep, Rests, GoesOn, Begins
<1>2. QED
  BY <1>1 DEF ProtectsPosition

\* A drain that stops or goes on.
LEMMA DrainStops ==
  ASSUME Shapes, NEW d \in Drains, EndDrain(d) \/ Loop(d)
  PROVE  Rests(d) /\ ~Active(d)'
<1> DEFINE next == [IdleDrain EXCEPT !.step = "loop", !.on = drain[d].on]
<1>1. DOMAIN IdleDrain = DrainFields /\ IdleDrain.step = "idle"
  BY DEF IdleDrain, DrainFields
<1>2. DOMAIN next = DrainFields /\ next.step = "loop"
  BY <1>1 DEF DrainFields
<1>3. CASE EndDrain(d)
  BY <1>1, <1>3 DEF Shapes, EndDrain, Rests, Active
<1>4. CASE Loop(d)
  <2> HIDE DEF next
  <2>1. drain' = [drain EXCEPT ![d] = next]
    BY <1>4 DEF Loop, next
  <2>2. QED
    BY <1>2, <2>1 DEF Shapes, Rests, Active
<1>5. QED
  BY <1>3, <1>4

LEMMA DrainGoes ==
  ASSUME Shapes, NEW d \in Drains, Active(d), NEW s \in {"child", "create", "sent", "flat"},
         DrainGo(d, s) \/ \E o : DrainFor(d, s, o)
  PROVE  GoesOn(d, s)
BY DEF Shapes, DrainFields, DrainGo, DrainFor, GoesOn

\* The end of a command, whatever the ledger l that goes with it.
LEMMA CommandOver ==
  ASSUME Shapes, NEW d \in Drains, Active(d), drain[d].cmd \in Running,
         NEW l, IsLedger(l), Applied(d, l) \/ Retry(d, l) \/ Failed(d, l)
  PROVE  /\ Keeps(l, riskLedger') /\ CommandShape(riskCommands')
         /\ Rests(d) /\ ~Active(d)' /\ Running' = Running \ {drain[d].cmd}
<1>1. ASSUME NEW m, NEW status \in {"applied", "pending", "failed"}, Save(m, Finished(d, status))
      PROVE  riskLedger' = m /\ CommandShape(riskCommands') /\ Running' = Running \ {drain[d].cmd}
  <2>1. /\ CommandShape(Finished(d, status))
        /\ RunningOf(Finished(d, status)) = Running \ {drain[d].cmd}
    BY DEF Shapes, Finished, Mine, CommandShape, RunningOf, Running
  <2>2. QED
    BY <1>1, <2>1, Saved
<1>2. Keeps(l, l) /\ Keeps(l, Fail(l, "other"))
  BY CloseKeeps, FailKeeps
<1>3. CASE Applied(d, l) \/ Retry(d, l)
  BY <1>1, <1>2, <1>3, DrainStops DEF Applied, Retry
<1>4. CASE Failed(d, l)
  <2>1. (EndDrain(d) \/ Loop(d))
        /\ \E m \in {l, Fail(l, "other")}, status \in {"pending", "failed"} : Save(m, Finished(d, status))
    BY <1>4 DEF Failed, Retry
  <2>2. QED
    BY <1>1, <1>2, <2>1, DrainStops
<1>5. QED
  BY <1>3, <1>4

-----------------------------------------------------------------------------
(***************************************************************************)
(* The kinds of steps of the orders.                                       *)
(***************************************************************************)
\* The exchange cancels at most, and a row that ended stays so.
OrdersStay ==
  /\ DOMAIN riskOrders' = DOMAIN riskOrders
  /\ \A o \in DOMAIN riskOrders :
       /\ DOMAIN riskOrders'[o] = OrderFields
       /\ riskOrders'[o].filled = riskOrders[o].filled
       /\ \/ riskOrders'[o].venue = riskOrders[o].venue
          \/ riskOrders[o].venue = "open" /\ riskOrders'[o].venue = "done"
       /\ riskOrders[o].row = "ended" => riskOrders'[o].row = "ended"

\* Any other step of the orders finds the venue not clear, or nothing to reduce.
OrdersMove ==
  /\ DOMAIN riskOrders \subseteq DOMAIN riskOrders'
  /\ \A o \in DOMAIN riskOrders' : DOMAIN riskOrders'[o] = OrderFields
  /\ riskOrders[Entry].venue \in VenueEnds => riskOrders'[Entry].venue \in VenueEnds
  /\ riskOrders[Entry].row = "ended" => riskOrders'[Entry].row = "ended"
  /\ riskLedger.confirmed => (VenueClear => VenueClear')

LEMMA StayingMoves ==
  ASSUME Shapes, OrdersStay
  PROVE  OrdersMove
<1>1. Children' = Children /\ ChildFills' = ChildFills
  BY DEF OrdersStay, Children, ChildFills
<1>2. riskOrders'[Entry].filled = riskOrders[Entry].filled
  BY DEF Shapes, OrdersStay
<1>3. VenuePosition' = VenuePosition
  BY <1>1, <1>2 DEF VenuePosition
<1>4. VenueClear => VenueClear'
  BY <1>3 DEF VenueClear, OrdersStay
<1>5. QED
  BY <1>4 DEF Shapes, OrdersStay, OrdersMove, VenueEnds

\* The answer about an order is written to its row.
LEMMA ObservedStays ==
  ASSUME Shapes, NEW o, riskOrders' = [riskOrders EXCEPT ![o] = ObservedRow(o)]
  PROVE  OrdersStay
BY DEF Shapes, OrderFields, ObservedRow, OrdersStay

LEMMA CancelledStays ==
  ASSUME Shapes, NEW o, riskOrders' = Cancelled(o)
  PROVE  OrdersStay
BY DEF Shapes, OrderFields, Cancelled, OrdersStay

LEMMA StopRowStays ==
  ASSUME Shapes, riskOrders' = StopRow(riskLedger)
  PROVE  OrdersStay
BY DEF Shapes, OrderFields, StopRow, OrdersStay, Sl

LEMMA SameStays ==
  ASSUME Shapes, UNCHANGED riskOrders
  PROVE  OrdersStay
BY DEF Shapes, OrdersStay

\* The exchange ends an order that is open there, or stops a position out.
LEMMA VenueMoves ==
  ASSUME Shapes, NEW o \in DOMAIN riskOrders, NEW n, riskOrders' = Ends(o, n),
         riskOrders[o].venue = "open" \/ (o = Sl /\ VenuePosition > 0)
  PROVE  OrdersMove
<1>1. ~VenueClear
  <2>1. CASE riskOrders[o].venue = "open"
    BY <2>1 DEF VenueClear
  <2>2. CASE VenuePosition > 0
    BY <2>2 DEF VenueClear
  <2>3. QED
    BY <2>1, <2>2
<1>2. QED
  BY <1>1 DEF Shapes, OrderFields, Ends, OrdersMove, VenueEnds

\* An order is created: with nothing to reduce only the entry can open.
LEMMA CreationMoves ==
  ASSUME Shapes, NEW o, NEW venue, riskOrders' = Created(o, venue),
         o = Entry => ~riskLedger.confirmed \/ riskOrders[Entry].venue # "absent"
  PROVE  OrdersMove
<1>1. /\ DOMAIN riskOrders' = DOMAIN riskOrders
      /\ \A p \in DOMAIN riskOrders :
           /\ DOMAIN riskOrders'[p] = OrderFields
           /\ riskOrders'[p].filled = riskOrders[p].filled
           /\ riskOrders'[p].row = riskOrders[p].row
           /\ riskOrders[p].venue # "absent" => riskOrders'[p].venue = riskOrders[p].venue
  BY DEF Shapes, OrderFields, Created
<1>2. ASSUME riskLedger.confirmed, VenueClear
      PROVE  VenueClear'
  <2>1. Children' = Children /\ ChildFills' = ChildFills
    BY <1>1 DEF Children, ChildFills
  <2>2. VenuePosition' = VenuePosition
    BY <1>1, <2>1 DEF VenuePosition, Shapes
  <2>3. \A p \in DOMAIN riskOrders :
          \/ riskOrders'[p].venue = riskOrders[p].venue
          \/ riskOrders'[p].venue = "rejected"
    <3>1. CASE o = Entry
      BY <1>2, <3>1 DEF Shapes, OrderFields, Created
    <3>2. CASE o # Entry
      BY <1>2, <3>2 DEF Shapes, OrderFields, Created, VenueClear
    <3>3. QED
      BY <3>1, <3>2
  <2>4. QED
    BY <1>1, <1>2, <2>2, <2>3 DEF VenueClear
<1>3. QED
  BY <1>1, <1>2 DEF Shapes, OrdersMove, VenueEnds

-----------------------------------------------------------------------------
(***************************************************************************)
(* The invariant is kept by every step within a generation.                *)
(***************************************************************************)
EntryEnded ==
  \/ riskOrders[Entry].venue \in VenueEnds
  \/ /\ riskOrders[Entry].row = "ended"
     /\ \A d \in Drains : drain[d].step = "create" => drain[d].order # Entry

LedgerMoves ==
  /\ IsLedger(riskLedger')
  /\ riskLedger'.confirmed => riskLedger.confirmed
  /\ riskLedger.terminal => riskLedger'.terminal
  /\ riskLedger'.terminal => riskLedger.terminal \/ EntryEnded'

\* The entry is created where its row had not ended.
NoNewCreation ==
  \A d \in Drains : drain'[d].step = "create" /\ drain'[d].order = Entry =>
    \/ drain[d].step = "create" /\ drain[d].order = Entry
    \/ riskOrders[Entry].row # "ended"

DrainsMove ==
  /\ DOMAIN drain' = Drains /\ \A d \in Drains : DOMAIN drain'[d] = DrainFields
  /\ CommandShape(riskCommands')
  /\ Leased' /\ ProtectsPosition' /\ NoNewCreation

Framed == LedgerMoves /\ OrdersMove /\ DrainsMove /\ UNCHANGED residue

LEMMA FramedKept ==
  ASSUME RiskInv, Framed
  PROVE  RiskInv'
<1> USE DEF RiskInv, Framed
<1>1. Shapes'
  BY DEF Shapes, LedgerMoves, IsLedger, OrdersMove, DrainsMove, CommandShape
<1>2. EntryOver'
  BY DEF EntryOver, EntryEnded, LedgerMoves, OrdersMove, DrainsMove, NoNewCreation
<1>3. ConfirmedIsClear'
  BY DEF ConfirmedIsClear, LedgerMoves, OrdersMove
<1>4. Leased' /\ ProtectsPosition' /\ EntryOnlyWhenFlat'
  BY DEF DrainsMove, EntryOnlyWhenFlat
<1>5. QED
  BY <1>1, <1>2, <1>3, <1>4

LEMMA LedgerKeeps ==
  ASSUME Keeps(riskLedger, riskLedger')
  PROVE  LedgerMoves
BY DEF Keeps, LedgerMoves

LEMMA LedgerEnds ==
  ASSUME NEW e, EndsWith(riskLedger, riskLedger', e), e => EntryEnded'
  PROVE  LedgerMoves
BY DEF EndsWith, LedgerMoves

LEMMA DrainsStay ==
  ASSUME RiskInv, UNCHANGED drain, CommandShape(riskCommands'), Running' = Running
  PROVE  DrainsMove
BY DEF RiskInv, Shapes, Leased, Active, ProtectsPosition, NoNewCreation, DrainsMove

LEMMA DrainMoves ==
  ASSUME RiskInv, CommandShape(riskCommands'), NEW d \in Drains, LeaseStep(d),
         drain'[d].step = "create" /\ drain'[d].order = Entry =>
           drain'[d] = drain[d] \/ riskOrders[Entry].row # "ended"
  PROVE  DrainsMove
<1>1. Leased' /\ ProtectsPosition'
  BY LeasedKept, ProtectionKept DEF RiskInv
<1>2. DOMAIN drain' = Drains /\ \A e \in Drains : DOMAIN drain'[e] = DrainFields
  BY DEF RiskInv, Shapes, LeaseStep, Rests, GoesOn, Begins
<1>3. \A e \in Drains \ {d} : drain'[e] = drain[e]
  BY DEF LeaseStep, Rests, GoesOn, Begins
<1>4. NoNewCreation
  BY <1>3 DEF NoNewCreation
<1>5. QED
  BY <1>1, <1>2, <1>4 DEF DrainsMove

LEMMA DrainRests ==
  ASSUME RiskInv, CommandShape(riskCommands'), NEW d \in Drains, LeaseStep(d), Rests(d)
  PROVE  DrainsMove
BY DrainMoves DEF Rests

\* The exchange acts.
LEMMA VenueFrames ==
  ASSUME RiskInv,
         \/ EntryFills \/ TpFills \/ TpDropped \/ StopTriggers
         \/ \E o \in Children : CloseFills(o)
  PROVE  Framed
<1>1. Shapes
  BY DEF RiskInv
<1>2. OrdersMove /\ UNCHANGED <<riskLedger, riskCommands, drain, residue>>
  <2>1. CASE EntryFills
    BY <1>1, <2>1, VenueMoves DEF EntryFills, VenueStep, Shapes
  <2>2. CASE TpFills \/ TpDropped
    BY <1>1, <2>2, VenueMoves DEF TpFills, TpDropped, VenueStep, Children
  <2>3. CASE StopTriggers
    BY <1>1, <2>3, VenueMoves DEF StopTriggers, VenueStep, Shapes
  <2>4. CASE \E o \in Children : CloseFills(o)
    BY <1>1, <2>4, VenueMoves DEF CloseFills, VenueStep, Children
  <2>5. QED
    BY <2>1, <2>2, <2>3, <2>4
<1>3. LedgerMoves
  BY <1>1, <1>2, CloseKeeps, LedgerKeeps, ShapesAre
<1>4. Running' = Running
  BY <1>2 DEF Running
<1>5. QED
  BY <1>1, <1>2, <1>3, <1>4, DrainsStay, ShapesAre DEF Framed

\* The stream sees, an evaluation wants out, the session is stopped.
LEMMA LedgerFrames ==
  ASSUME RiskInv,
         \/ \E o \in DOMAIN riskOrders : StreamSees(o)
         \/ StreamSeesStop \/ Intent \/ MarkPrice \/ StopCodeSession
  PROVE  Framed
<1>1. Shapes /\ IsLedger(riskLedger) /\ CommandShape(riskCommands)
  BY ShapesAre DEF RiskInv
<1>2. ASSUME NEW l, Save(l, riskCommands)
      PROVE  riskLedger' = l /\ CommandShape(riskCommands') /\ Running' = Running
  BY <1>1, <1>2, Saved, ShapesAre
<1>3. ASSUME NEW o \in DOMAIN riskOrders, StreamSees(o)
      PROVE  Framed
  <2>1. OrdersStay
    BY <1>1, <1>3, ObservedStays DEF StreamSees
  <2>2. EndsWith(riskLedger, riskLedger', o = Entry /\ Ended(Entry))
    <3>1. riskLedger' = Observed(riskLedger, o, FALSE)
      BY <1>2, <1>3 DEF StreamSees
    <3>2. EndsWith(riskLedger, Observed(riskLedger, o, FALSE), o = Entry /\ Ended(Entry))
      BY <1>1, ObservedEnds
    <3>3. QED
      BY <3>1, <3>2
  <2>3. Ended(Entry) => EntryEnded'
    BY <1>1, <2>1 DEF Shapes, OrdersStay, Ended, VenueEnds, EntryEnded
  <2>4. LedgerMoves
    BY <2>2, <2>3, LedgerEnds
  <2>5. QED
    BY <1>1, <1>2, <1>3, <2>1, <2>4, StayingMoves, DrainsStay DEF StreamSees, Framed
<1>4. CASE StreamSeesStop
  <2>1. OrdersMove
    BY <1>1, <1>4, StopRowStays, StayingMoves DEF StreamSeesStop
  <2>2. LedgerMoves
    BY <1>1, <1>2, <1>4, SeesStopKeeps, LedgerKeeps DEF StreamSeesStop
  <2>3. QED
    BY <1>2, <1>4, <2>1, <2>2, DrainsStay DEF StreamSeesStop, Framed
<1>5. CASE Intent \/ StopCodeSession
  <2>1. OrdersMove
    BY <1>1, <1>5, SameStays, StayingMoves DEF Intent, StopCodeSession
  <2>2. /\ \E l \in {riskLedger, RequestClose(riskLedger), RequestReversal(riskLedger)} : riskLedger' = l
        /\ CommandShape(riskCommands') /\ Running' = Running
    <3>1. CASE UNCHANGED <<riskLedger, riskCommands>>
      BY <1>1, <3>1 DEF Running
    <3>2. CASE Save(RequestClose(riskLedger), riskCommands) \/ Save(RequestReversal(riskLedger), riskCommands)
      BY <1>2, <3>2
    <3>3. QED
      BY <1>5, <3>1, <3>2 DEF Intent, StopCodeSession
  <2>3. LedgerMoves
    BY <1>1, <2>2, CloseKeeps, LedgerKeeps
  <2>4. UNCHANGED <<drain, residue>>
    BY <1>5 DEF Intent, StopCodeSession
  <2>5. QED
    BY <2>1, <2>2, <2>3, <2>4, DrainsStay DEF Framed
<1>6. CASE MarkPrice
  <2>1. OrdersMove
    BY <1>1, <1>6, SameStays, StayingMoves DEF MarkPrice
  <2>2. LedgerMoves
    BY <1>1, <1>2, <1>6, DesireKeeps, LedgerKeeps DEF MarkPrice
  <2>3. QED
    BY <1>2, <1>6, <2>1, <2>2, DrainsStay DEF MarkPrice, Framed
<1>7. QED
  BY <1>3, <1>4, <1>5, <1>6

\* A drain reconciles, or has nothing to do.
LEMMA ReconcileFrames ==
  ASSUME RiskInv, NEW d \in Drains,
         \/ \E o \in DOMAIN riskOrders : SyncOrder(d, o)
         \/ FetchVenue(d) \/ JudgePosition(d) \/ NothingToClaim(d) \/ DrainDies(d)
  PROVE  Framed
<1>1. Shapes /\ IsLedger(riskLedger) /\ CommandShape(riskCommands)
  BY ShapesAre DEF RiskInv
<1>2. ASSUME NEW l, Save(l, riskCommands)
      PROVE  riskLedger' = l /\ CommandShape(riskCommands') /\ Running' = Running
  BY <1>1, <1>2, Saved, ShapesAre
<1>3. Keeps(riskLedger, riskLedger)
  BY <1>1, CloseKeeps
<1>4. ASSUME NEW o \in DOMAIN riskOrders, SyncOrder(d, o)
      PROVE  Framed
  <2>1. OrdersStay
    BY <1>1, <1>4, ObservedStays DEF SyncOrder
  <2>2. EndsWith(riskLedger, riskLedger', o = Entry /\ Ended(Entry))
    <3>1. riskLedger' = Observed(riskLedger, o, TRUE)
      BY <1>2, <1>4 DEF SyncOrder
    <3>2. EndsWith(riskLedger, Observed(riskLedger, o, TRUE), o = Entry /\ Ended(Entry))
      BY <1>1, ObservedEnds
    <3>3. QED
      BY <3>1, <3>2
  <2>3. Ended(Entry) => EntryEnded'
    BY <1>1, <2>1 DEF Shapes, OrdersStay, Ended, VenueEnds, EntryEnded
  <2>4. LedgerMoves
    BY <2>2, <2>3, LedgerEnds
  <2>5. QED
    BY <1>1, <1>2, <1>4, <2>1, <2>4, StayingMoves, DrainsStay DEF SyncOrder, Framed
<1>5. CASE FetchVenue(d) \/ NothingToClaim(d) \/ DrainDies(d)
  <2>1. Rests(d)
    <3>1. CASE FetchVenue(d)
      <4> DEFINE next == [IdleDrain EXCEPT !.step = "fetched", !.on = sessionOn,
                                           !.seen = VenuePosition]
      <4>1. DOMAIN next = DrainFields /\ next.step = "fetched"
        BY DEF IdleDrain, DrainFields
      <4>2. drain' = [drain EXCEPT ![d] = next]
        BY <3>1 DEF FetchVenue
      <4> HIDE DEF next
      <4>3. QED
        BY <1>1, <4>1, <4>2 DEF Shapes, Rests
    <3>2. CASE NothingToClaim(d) \/ DrainDies(d)
      BY <1>1, <3>2, DrainStops DEF NothingToClaim, DrainDies
    <3>3. QED
      BY <1>5, <3>1, <3>2
  <2>2. UNCHANGED <<riskLedger, riskOrders, riskCommands, residue>>
    BY <1>5 DEF FetchVenue, NothingToClaim, DrainDies
  <2>3. LeaseStep(d)
    BY <2>1, <2>2 DEF LeaseStep, Running
  <2>4. QED
    BY <1>1, <1>3, <2>1, <2>2, <2>3, DrainRests, LedgerKeeps, SameStays, StayingMoves DEF Framed
<1>6. CASE JudgePosition(d)
  <2>1. Keeps(riskLedger, SeesStop(riskLedger))
    BY <1>1, SeesStopKeeps
  <2>2. PICK l \in {SeesStop(riskLedger), riskLedger} :
          \/ Save(l, riskCommands) /\ EndDrain(d)
          \/ /\ Loop(d)
             /\ \E m \in {l, ConfirmFlat(l, FALSE, TRUE), Fail(l, "other")} : Save(m, riskCommands)
    BY <1>6 DEF JudgePosition
  <2>3. Keeps(riskLedger, l)
    BY <1>3, <2>1
  <2>4. Keeps(l, l) /\ Keeps(l, ConfirmFlat(l, FALSE, TRUE)) /\ Keeps(l, Fail(l, "other"))
    BY <2>3, CloseKeeps, ConfirmFlatKeeps, FailKeeps DEF Keeps
  <2>5. PICK m : Save(m, riskCommands) /\ Keeps(l, m)
    BY <2>2, <2>4
  <2>6. Keeps(riskLedger, riskLedger') /\ CommandShape(riskCommands') /\ Running' = Running
    BY <1>2, <2>3, <2>5, KeepsAll
  <2>7. Rests(d) /\ LeaseStep(d)
    BY <1>1, <2>2, <2>6, DrainStops DEF LeaseStep
  <2>8. OrdersMove /\ UNCHANGED residue
    BY <1>1, <1>6, StopRowStays, SameStays, StayingMoves DEF JudgePosition
  <2>9. QED
    BY <2>6, <2>7, <2>8, LedgerKeeps, DrainRests DEF Framed
<1>7. QED
  BY <1>4, <1>5, <1>6

\* A command is claimed, or its lease ends.
LEMMA ClaimFrames ==
  ASSUME RiskInv,
         \/ \E d \in Drains, k \in Claimables : ClaimCommand(d, k)
         \/ \E k \in Running : LeaseEnds(k)
  PROVE  Framed
<1>1. Shapes /\ IsLedger(riskLedger) /\ CommandShape(riskCommands)
  BY ShapesAre DEF RiskInv
<1>2. Keeps(riskLedger, riskLedger)
  BY <1>1, CloseKeeps
<1>3. ASSUME NEW k \in Running, LeaseEnds(k)
      PROVE  Framed
  <2>1. CommandShape(riskCommands') /\ Running' = Running \ {k}
    BY <1>1, <1>3 DEF LeaseEnds, CommandShape, Running
  <2>2. \A e \in Drains : ~Active(e)
    BY <1>3 DEF RiskInv, Leased, LeaseEnds
  <2>3. Leased' /\ UNCHANGED <<riskLedger, riskOrders, drain, residue>>
    BY <1>3, <2>1, <2>2 DEF RiskInv, Leased, LeaseEnds, Active
  <2>4. DrainsMove
    BY <1>1, <2>1, <2>3 DEF RiskInv, Shapes, ProtectsPosition, NoNewCreation, DrainsMove
  <2>5. QED
    BY <1>1, <1>2, <2>3, <2>4, LedgerKeeps, SameStays, StayingMoves DEF Framed
<1>4. ASSUME NEW d \in Drains, NEW k \in Claimables, ClaimCommand(d, k)
      PROVE  Framed
  <2>1. Running = {} /\ k \in DOMAIN riskCommands /\ riskCommands[k].status = "pending"
    BY DEF Claimables, Pending
  <2>2. UNCHANGED <<riskLedger, riskOrders, residue>>
    BY <1>4 DEF ClaimCommand
  <2>3. CASE k \notin Wanted(riskLedger)
    <3>1. riskCommands' = [riskCommands EXCEPT ![k].status = "superseded"] /\ UNCHANGED drain
      BY <1>4, <2>3 DEF ClaimCommand
    <3>2. CommandShape(riskCommands') /\ Running' = Running
      BY <1>1, <2>1, <3>1 DEF CommandShape, Running
    <3>3. QED
      BY <1>1, <1>2, <2>2, <3>1, <3>2, LedgerKeeps, SameStays, StayingMoves, DrainsStay DEF Framed
  <2>4. CASE k \in Wanted(riskLedger)
    <3>1. CommandShape(riskCommands') /\ Running' = {k}
      <4>1. riskCommands' = [riskCommands EXCEPT ![k].status = "running"]
        BY <1>4, <2>4 DEF ClaimCommand
      <4>2. QED
        BY <1>1, <2>1, <4>1 DEF CommandShape, Running
    <3>2. k[1] = "apply_protection" => riskLedger.position # 0
      BY <2>4 DEF Wanted
    <3>3. Begins(d, k)
      <4> DEFINE seen == IF k[1] = "apply_protection" THEN riskLedger.position ELSE 0
                 last == k[1] = "apply_protection" /\ riskLedger.terminal
      <4>1. drain' = [drain EXCEPT ![d].step = "run", ![d].cmd = k, ![d].seen = seen,
                                   ![d].terminal = last]
        BY <1>4, <2>4 DEF ClaimCommand
      <4>2. k[1] = "apply_protection" => seen # 0
        BY <3>2
      <4> HIDE DEF seen, last
      <4>3. QED
        BY <1>1, <4>1, <4>2 DEF Shapes, DrainFields, Begins
    <3>4. LeaseStep(d) /\ drain'[d].step = "run"
      BY <2>1, <3>1, <3>3 DEF LeaseStep, Begins
    <3>5. DrainsMove
      BY <3>1, <3>4, DrainMoves
    <3>6. QED
      BY <1>1, <1>2, <2>2, <3>5, LedgerKeeps, SameStays, StayingMoves DEF Framed
  <2>5. QED
    BY <2>3, <2>4
<1>5. QED
  BY <1>3, <1>4

\* The end of a command, when nothing but rows changes.
LEMMA OverFrames ==
  ASSUME RiskInv, NEW d \in Drains, Active(d), NEW l, Keeps(riskLedger, l),
         Applied(d, l) \/ Retry(d, l) \/ Failed(d, l)
  PROVE  LedgerMoves /\ DrainsMove
<1>1. Shapes /\ drain[d].cmd \in Running /\ IsLedger(l)
  BY DEF RiskInv, Leased, Keeps
<1>2. /\ Keeps(l, riskLedger') /\ CommandShape(riskCommands')
      /\ Rests(d) /\ ~Active(d)' /\ Running' = Running \ {drain[d].cmd}
  BY <1>1, CommandOver
<1>3. LedgerMoves
  BY <1>2, KeepsAll, LedgerKeeps
<1>4. LeaseStep(d)
  BY <1>2 DEF LeaseStep
<1>5. QED
  BY <1>2, <1>3, <1>4, DrainRests

\* orders is riskOrders, with a new child perhaps.
Extends(orders) ==
  /\ DOMAIN riskOrders \subseteq DOMAIN orders
  /\ \A p \in DOMAIN orders : DOMAIN orders[p] = OrderFields
  /\ \A p \in DOMAIN riskOrders : orders[p] = riskOrders[p]
  /\ DOMAIN orders # DOMAIN riskOrders => ~VenueClear

LEMMA ChildExtends ==
  ASSUME Shapes, NEW o, NEW n, o \in DOMAIN riskOrders \/ ~VenueClear
  PROVE  Extends(WithChild(o, n))
BY DEF Shapes, OrderFields, Extends, WithChild, NewOrder

LEMMA SameExtends ==
  ASSUME Shapes
  PROVE  Extends(riskOrders)
BY DEF Shapes, Extends

LEMMA ExtendedMoves ==
  ASSUME Shapes, NEW orders, Extends(orders), NEW o,
         riskOrders' = orders \/ riskOrders' = [orders EXCEPT ![o].row = "submitted"],
         riskOrders' # orders => orders[o].row # "ended"
  PROVE  OrdersMove
<1>1. /\ DOMAIN riskOrders' = DOMAIN orders
      /\ \A p \in DOMAIN orders :
           /\ DOMAIN riskOrders'[p] = OrderFields
           /\ riskOrders'[p].filled = orders[p].filled
           /\ riskOrders'[p].venue = orders[p].venue
           /\ orders[p].row = "ended" => riskOrders'[p].row = "ended"
  BY DEF Extends, OrderFields
<1>2. CASE DOMAIN orders = DOMAIN riskOrders
  <2>1. OrdersStay
    BY <1>1, <1>2 DEF Extends, OrdersStay
  <2>2. QED
    BY <2>1, StayingMoves
<1>3. CASE DOMAIN orders # DOMAIN riskOrders
  BY <1>1, <1>3 DEF Shapes, Extends, OrdersMove
<1>4. QED
  BY <1>2, <1>3

\* An order is sent, found at the exchange, or has ended.
LEMMA SubmitFrames ==
  ASSUME RiskInv, NEW d \in Drains, Active(d), NEW o, Submit(d, o), UNCHANGED residue
  PROVE  Framed
<1>1. Shapes /\ IsLedger(riskLedger) /\ CommandShape(riskCommands)
  BY ShapesAre DEF RiskInv
<1>2. Keeps(riskLedger, riskLedger) /\ Keeps(riskLedger, EndOf(d, riskLedger))
  BY <1>1, CloseKeeps, AcknowledgedKeeps DEF EndOf
<1>3. OrdersMove
  BY <1>1, SameExtends, ExtendedMoves DEF Submit, Applied
<1>4. CASE Applied(d, EndOf(d, riskLedger))
  BY <1>1, <1>2, <1>3, <1>4, OverFrames DEF Framed
<1>5. CASE /\ UNCHANGED <<riskLedger, riskCommands>>
           /\ DrainFor(d, "sent", o)
  <2>1. GoesOn(d, "sent")
    BY <1>1, <1>5, DrainGoes
  <2>2. LeaseStep(d) /\ drain'[d].step = "sent"
    BY <1>5, <2>1 DEF LeaseStep, GoesOn, Running
  <2>3. DrainsMove
    BY <1>1, <1>5, <2>2, DrainMoves
  <2>4. QED
    BY <1>2, <1>3, <1>5, <2>3, LedgerKeeps DEF Framed
<1>6. CASE /\ UNCHANGED <<riskLedger, riskCommands>> /\ riskOrders[o].row # "ended"
           /\ DrainFor(d, "create", o)
  <2>1. GoesOn(d, "create")
    BY <1>1, <1>6, DrainGoes
  <2>2. LeaseStep(d)
    BY <1>6, <2>1 DEF LeaseStep, Running
  <2>3. drain'[d].order = o
    BY <1>1, <1>6 DEF Shapes, DrainFields, DrainFor
  <2>4. DrainsMove
    BY <1>1, <1>6, <2>2, <2>3, DrainMoves
  <2>5. QED
    BY <1>2, <1>3, <1>6, <2>4, LedgerKeeps DEF Framed
<1>7. QED
  BY <1>4, <1>5, <1>6 DEF Submit

\* A child is there before it is sent.
LEMMA ChildFrames ==
  ASSUME RiskInv, NEW d \in Drains, Active(d), NEW o, NEW n, SaveChild(d, o, n), ~VenueClear,
         UNCHANGED <<riskLedger, riskCommands, residue>>
  PROVE  Framed
<1>1. Shapes /\ IsLedger(riskLedger) /\ CommandShape(riskCommands)
  BY ShapesAre DEF RiskInv
<1>2. OrdersMove
  <2>1. Extends(WithChild(o, n)) /\ riskOrders' = WithChild(o, n)
    BY <1>1, ChildExtends DEF SaveChild
  <2>2. QED
    BY <1>1, <2>1, ExtendedMoves
<1>3. GoesOn(d, "child")
  BY <1>1, DrainGoes DEF SaveChild
<1>4. LeaseStep(d) /\ drain'[d].step = "child"
  BY <1>3 DEF LeaseStep, GoesOn, Running
<1>5. DrainsMove
  BY <1>1, <1>4, DrainMoves
<1>6. QED
  BY <1>1, <1>2, <1>5, CloseKeeps, LedgerKeeps DEF Framed

LEMMA RunFrames ==
  ASSUME RiskInv, NEW d \in Drains,
         \/ RunSubmit(d) \/ RunReversal(d) \/ RunFlatten(d) \/ FlattenFoundFlat(d)
         \/ RunProtection(d) \/ SubmitChild(d)
  PROVE  Framed
<1>1. Shapes /\ IsLedger(riskLedger) /\ CommandShape(riskCommands) /\ Active(d)
  BY ShapesAre
     DEF RiskInv, Active, RunSubmit, RunReversal, RunFlatten, FlattenFoundFlat, RunProtection,
         SubmitChild, Doing, DrainAt
<1>2. Keeps(riskLedger, riskLedger) /\ Keeps(riskLedger, EndOf(d, riskLedger))
      /\ Keeps(riskLedger, ConfirmFlat(riskLedger, FALSE, TRUE))
  BY <1>1, CloseKeeps, AcknowledgedKeeps, ConfirmFlatKeeps DEF EndOf
<1>3. UNCHANGED riskOrders => OrdersMove
  BY <1>1, SameStays, StayingMoves
<1>4. UNCHANGED residue
  BY DEF RunSubmit, RunReversal, RunFlatten, FlattenFoundFlat, RunProtection, SubmitChild
<1>5. CASE RunSubmit(d) \/ RunReversal(d)
  <2>1. CASE Submit(d, Entry)
    BY <1>1, <1>4, <2>1, SubmitFrames
  <2>2. CASE (Failed(d, riskLedger) \/ Applied(d, riskLedger)) /\ UNCHANGED riskOrders
    BY <1>1, <1>2, <1>3, <1>4, <2>2, OverFrames DEF Framed
  <2>3. QED
    BY <1>5, <2>1, <2>2 DEF RunSubmit, RunReversal
<1>6. CASE RunFlatten(d)
  <2>1. CASE VenuePosition = 0
    <3>1. DrainGo(d, "flat") /\ UNCHANGED <<riskLedger, riskOrders, riskCommands>>
      BY <1>6, <2>1 DEF RunFlatten
    <3>2. GoesOn(d, "flat")
      BY <1>1, <3>1, DrainGoes
    <3>3. LeaseStep(d) /\ drain'[d].step = "flat"
      BY <3>1, <3>2 DEF LeaseStep, GoesOn, Running
    <3>4. DrainsMove
      BY <1>1, <3>1, <3>3, DrainMoves
    <3>5. QED
      BY <1>2, <1>3, <1>4, <3>1, <3>4, LedgerKeeps DEF Framed
  <2>2. CASE VenuePosition # 0
    <3>1. \E n : SaveChild(d, Mine(d), n)
      BY <1>6, <2>2 DEF RunFlatten
    <3>2. ~VenueClear /\ UNCHANGED <<riskLedger, riskCommands>>
      BY <1>6, <2>2 DEF RunFlatten, VenueClear
    <3>3. QED
      BY <1>1, <1>4, <3>1, <3>2, ChildFrames
  <2>3. QED
    BY <2>1, <2>2
<1>7. CASE FlattenFoundFlat(d)
  BY <1>1, <1>2, <1>3, <1>4, <1>7, OverFrames DEF FlattenFoundFlat, Framed
<1>8. CASE RunProtection(d)
  <2>1. drain[d].seen # 0
    BY <1>8 DEF RiskInv, ProtectsPosition, RunProtection, Doing, DrainAt, Mine
  <2>2. CASE /\ VenuePosition = drain[d].seen /\ UNCHANGED <<riskLedger, riskCommands>>
             /\ \E n : SaveChild(d, Tp, n)
    <3>1. ~VenueClear
      BY <2>1, <2>2 DEF VenueClear
    <3>2. QED
      BY <1>1, <1>4, <2>2, <3>1, ChildFrames
  <2>3. CASE /\ UNCHANGED riskOrders
             /\ \/ Retry(d, riskLedger) \/ Failed(d, riskLedger)
                \/ Applied(d, EndOf(d, riskLedger))
    BY <1>1, <1>2, <1>3, <1>4, <2>3, OverFrames DEF Framed
  <2>4. QED
    BY <1>8, <2>2, <2>3 DEF RunProtection
<1>9. CASE SubmitChild(d)
  BY <1>1, <1>4, <1>9, SubmitFrames DEF SubmitChild
<1>10. QED
  BY <1>5, <1>6, <1>7, <1>8, <1>9

\* The end of a command that brings the end of the entry perhaps: nobody is
\* about to create an order then.
LEMMA OverEnds ==
  ASSUME RiskInv, NEW d \in Drains, Active(d), NEW e, NEW l, EndsWith(riskLedger, l, e),
         Applied(d, l) \/ Retry(d, l) \/ Failed(d, l),
         e => \/ riskOrders'[Entry].venue \in VenueEnds
              \/ riskOrders'[Entry].row = "ended"
  PROVE  LedgerMoves /\ DrainsMove
<1>1. Shapes /\ drain[d].cmd \in Running /\ IsLedger(l)
  BY DEF RiskInv, Leased, EndsWith
<1>2. /\ Keeps(l, riskLedger') /\ CommandShape(riskCommands')
      /\ Rests(d) /\ ~Active(d)' /\ Running' = Running \ {drain[d].cmd}
  BY <1>1, CommandOver
<1>3. \A f \in Drains : ~Active(f)'
  BY <1>2 DEF RiskInv, Leased, Rests, Active
<1>4. e => EntryEnded'
  BY <1>3 DEF EntryEnded, Active
<1>5. LedgerMoves
  BY <1>2, <1>4, EndsWithKept, LedgerEnds
<1>6. LeaseStep(d)
  BY <1>2 DEF LeaseStep
<1>7. QED
  BY <1>2, <1>5, <1>6, DrainRests

LEMMA AnswerFrames ==
  ASSUME RiskInv, NEW d \in Drains, CreateOrder(d) \/ Synced(d) \/ CallFails(d)
  PROVE  Framed
<1>1. Shapes /\ IsLedger(riskLedger) /\ CommandShape(riskCommands) /\ Active(d)
  BY ShapesAre DEF RiskInv, Active, CreateOrder, Synced, CallFails, DrainAt
<1>2. Keeps(riskLedger, riskLedger)
  BY <1>1, CloseKeeps
<1>3. UNCHANGED riskOrders => OrdersMove
  BY <1>1, SameStays, StayingMoves
<1>4. UNCHANGED residue
  BY DEF CreateOrder, Synced, CallFails
<1>5. CASE CreateOrder(d)
  <2> DEFINE o == drain[d].order
  <2>1. o = Entry => ~riskLedger.confirmed \/ riskOrders[Entry].venue # "absent"
    BY <1>5 DEF RiskInv, ConfirmedIsClear, EntryOver, VenueEnds, CreateOrder, DrainAt
  <2>2. \A venue : riskOrders' = Created(o, venue) => OrdersMove
    BY <1>1, <2>1, CreationMoves
  <2>3. OrdersMove
    BY <1>3, <1>5, <2>2 DEF CreateOrder
  <2>4. CASE DrainGo(d, "sent") /\ UNCHANGED <<riskLedger, riskCommands>>
    <3>1. GoesOn(d, "sent")
      BY <1>1, <2>4, DrainGoes
    <3>2. LeaseStep(d) /\ drain'[d].step = "sent"
      BY <2>4, <3>1 DEF LeaseStep, GoesOn, Running
    <3>3. DrainsMove
      BY <1>1, <2>4, <3>2, DrainMoves
    <3>4. QED
      BY <1>2, <1>4, <2>3, <2>4, <3>3, LedgerKeeps DEF Framed
  <2>5. CASE Failed(d, riskLedger)
    BY <1>1, <1>2, <1>4, <2>3, <2>5, OverFrames DEF Framed
  <2>6. QED
    BY <1>5, <2>4, <2>5 DEF CreateOrder
<1>6. CASE Synced(d)
  <2> DEFINE o == drain[d].order
             l == Observed(riskLedger, o, TRUE)
  <2>1. riskOrders' = [riskOrders EXCEPT ![o] = ObservedRow(o)]
    BY <1>6 DEF Synced
  <2>2. OrdersStay
    BY <1>1, <2>1, ObservedStays
  <2>3. EndsWith(riskLedger, l, o = Entry /\ Ended(Entry))
    BY <1>1, ObservedEnds
  <2>4. Ended(Entry) => riskOrders'[Entry].venue \in VenueEnds
    BY <1>1, <2>2 DEF Shapes, OrdersStay, Ended, VenueEnds
  <2>5. \E m \in {l, EndOf(d, l)} : Applied(d, m) \/ Failed(d, m)
    BY <1>6 DEF Synced
  <2>6. \A m \in {l, EndOf(d, l)} : EndsWith(riskLedger, m, o = Entry /\ Ended(Entry))
    <3>1. Keeps(l, l) /\ Keeps(l, EndOf(d, l))
      BY <2>3, CloseKeeps, AcknowledgedKeeps DEF EndsWith, EndOf
    <3>2. QED
      BY <2>3, <3>1, EndsWithKept
  <2>7. LedgerMoves /\ DrainsMove
    BY <1>1, <2>4, <2>5, <2>6, OverEnds
  <2>8. QED
    BY <1>1, <1>4, <2>2, <2>7, StayingMoves DEF Framed
<1>7. CASE CallFails(d)
  BY <1>1, <1>2, <1>3, <1>4, <1>7, OverFrames DEF CallFails, Framed
<1>8. QED
  BY <1>5, <1>6, <1>7

LEMMA CancelFrames ==
  ASSUME RiskInv, NEW d \in Drains,
         RunCancelEntry(d) \/ \E o \in OpenRows : RunCancelChild(d, o)
  PROVE  Framed
<1>1. Shapes /\ IsLedger(riskLedger) /\ CommandShape(riskCommands) /\ Active(d)
  BY ShapesAre DEF RiskInv, Active, RunCancelEntry, RunCancelChild, Doing, DrainAt
<1>2. Keeps(riskLedger, riskLedger)
  BY <1>1, CloseKeeps
<1>3. UNCHANGED riskOrders => OrdersMove
  BY <1>1, SameStays, StayingMoves
<1>4. UNCHANGED residue
  BY DEF RunCancelEntry, RunCancelChild
<1>5. CASE (Applied(d, riskLedger) \/ Retry(d, riskLedger)) /\ UNCHANGED riskOrders
  BY <1>1, <1>2, <1>3, <1>4, <1>5, OverFrames DEF Framed
<1>6. CASE Applied(d, CancelSeen(Entry)) /\ riskOrders' = Cancelled(Entry)
  <2>1. OrdersMove
    BY <1>1, <1>6, CancelledStays, StayingMoves
  <2>2. riskOrders'[Entry].row = "ended"
    BY <1>1, <1>6 DEF Shapes, OrderFields, Cancelled
  <2>3. EndsWith(riskLedger, CancelSeen(Entry), TRUE)
    BY <1>1, CancelSeenEnds DEF EndsWith
  <2>4. LedgerMoves /\ DrainsMove
    BY <1>1, <1>6, <2>2, <2>3, OverEnds
  <2>5. QED
    BY <1>4, <2>1, <2>4 DEF Framed
<1>7. ASSUME NEW o \in OpenRows, Save(CancelSeen(o), riskCommands), riskOrders' = Cancelled(o),
             UNCHANGED drain
      PROVE  Framed
  <2>1. OrdersMove
    BY <1>1, <1>7, CancelledStays, StayingMoves
  <2>2. riskLedger' = CancelSeen(o) /\ CommandShape(riskCommands') /\ Running' = Running
    BY <1>1, <1>7, Saved, ShapesAre
  <2>3. EndsWith(riskLedger, CancelSeen(o), o = Entry) /\ o # Entry
    BY <1>1, CancelSeenEnds DEF OpenRows, Children
  <2>4. LedgerMoves
    BY <2>2, <2>3 DEF EndsWith, LedgerMoves
  <2>5. QED
    BY <1>4, <1>7, <2>1, <2>2, <2>4, DrainsStay DEF Framed
<1>8. QED
  BY <1>5, <1>6, <1>7 DEF RunCancelEntry, RunCancelChild

-----------------------------------------------------------------------------
(***************************************************************************)
(* The two steps that are left: the confirmation, and the next entry.      *)
(***************************************************************************)
LEMMA ConfirmationKeeps ==
  ASSUME RiskInv, NEW d \in Drains, ChildrenCancelled(d)
  PROVE  RiskInv'
<1>1. Shapes /\ IsLedger(riskLedger) /\ CommandShape(riskCommands) /\ Active(d)
      /\ drain[d].cmd \in Running
  BY ShapesAre DEF RiskInv, Leased, Active, ChildrenCancelled, Doing, DrainAt
<1>2. OrdersMove /\ UNCHANGED <<riskOrders, residue>>
  BY <1>1, SameStays, StayingMoves DEF ChildrenCancelled
<1>3. CASE ~ChildrenGone(d)
  <2>1. Retry(d, riskLedger)
    BY <1>3 DEF ChildrenCancelled
  <2>2. Framed
    BY <1>1, <1>2, <2>1, CloseKeeps, OverFrames DEF Framed
  <2>3. QED
    BY <2>2, FramedKept
<1>4. CASE ChildrenGone(d)
  <2> DEFINE l == ConfirmFlat(riskLedger, TRUE, FALSE)
  <2>1. Applied(d, l)
    BY <1>4 DEF ChildrenCancelled
  <2>2. IsLedger(l) /\ (l.terminal <=> riskLedger.terminal) /\ (l.confirmed => riskLedger.terminal)
    BY <1>1, ConfirmFlatKeeps
  <2> HIDE DEF l
  <2>3. /\ Keeps(l, riskLedger') /\ CommandShape(riskCommands')
        /\ Rests(d) /\ ~Active(d)' /\ Running' = Running \ {drain[d].cmd}
    BY <1>1, <2>1, <2>2, CommandOver
  <2>4. DrainsMove
    <3>1. LeaseStep(d)
      BY <1>1, <2>3 DEF LeaseStep
    <3>2. QED
      BY <2>3, <3>1, DrainRests
  <2>5. VenueClear'
    BY <1>2, <1>4 DEF ChildrenGone, VenueClear, VenuePosition, ChildFills, Children
  <2>6. Shapes'
    BY <1>1, <1>2, <2>3, <2>4 DEF Shapes, Keeps, IsLedger, DrainsMove, CommandShape
  <2>7. ConfirmedIsClear'
    BY <2>2, <2>3, <2>5 DEF ConfirmedIsClear, Keeps
  <2>8. EntryOver'
    BY <1>2, <2>2, <2>3, <2>4 DEF RiskInv, EntryOver, Keeps, DrainsMove, NoNewCreation
  <2>9. QED
    BY <1>2, <2>4, <2>6, <2>7, <2>8 DEF RiskInv, DrainsMove, EntryOnlyWhenFlat
<1>5. QED
  BY <1>3, <1>4

LEMMA FreshIs ==
  ASSUME NEW g
  PROVE  /\ IsLedger(FreshLedger(g))
         /\ ~FreshLedger(g).confirmed /\ ~FreshLedger(g).terminal
BY DEF FreshLedger, IsLedger, LedgerFields

LEMMA FreshCommands ==
  ASSUME NEW l
  PROVE  /\ CommandShape(Enqueue([k \in {} |-> {}], l))
         /\ RunningOf(Enqueue([k \in {} |-> {}], l)) = {}
BY DEF CommandShape, RunningOf, Enqueue, Kept

\* Both begin a generation: an entry that waits, and drains without a command.
Begun ==
  /\ \E g : riskLedger = FreshLedger(g)
  /\ riskCommands = Enqueue([k \in {} |-> {}], riskLedger)
  /\ riskOrders = [o \in {Entry, Sl} |-> IF o = Entry THEN NewOrder(EntryUnits) ELSE NoOrder]
  /\ DOMAIN drain = Drains
  /\ \A d \in Drains :
       DOMAIN drain[d] = DrainFields /\ drain[d].step \in {"idle", "fetched", "loop"}
  /\ ~residue

LEMMA BegunHolds == Begun => RiskInv
<1> SUFFICES ASSUME Begun PROVE RiskInv
  OBVIOUS
<1>1. IsLedger(riskLedger) /\ ~riskLedger.confirmed /\ ~riskLedger.terminal
  BY FreshIs DEF Begun
<1>2. CommandShape(riskCommands) /\ RunningOf(riskCommands) = {}
  BY FreshCommands DEF Begun
<1>3. /\ DOMAIN drain = Drains
      /\ \A d \in Drains :
           DOMAIN drain[d] = DrainFields /\ drain[d].step \in {"idle", "fetched", "loop"}
  BY DEF Begun
<1>4. {Entry, Sl} \subseteq DOMAIN riskOrders
      /\ \A o \in DOMAIN riskOrders : DOMAIN riskOrders[o] = OrderFields
  BY DEF Begun, NewOrder, NoOrder, OrderFields
<1>5. Shapes
  BY <1>1, <1>2, <1>3, <1>4 DEF Shapes, IsLedger, CommandShape
<1>6. Leased
  BY <1>2, <1>3 DEF Leased, Active, RunningOf, Running
<1>7. QED
  BY <1>1, <1>3, <1>5, <1>6
     DEF Begun, RiskInv, EntryOver, ProtectsPosition, ConfirmedIsClear, EntryOnlyWhenFlat

LEMMA StartBegins == RiskInit => Begun
BY DEF RiskInit, Begun, IdleDrain, DrainFields

LEMMA RiskStart == RiskInit => RiskInv
BY StartBegins, BegunHolds

LEMMA PreparationBegins ==
  ASSUME RiskInv, PrepareGeneration
  PROVE  Begun'
<1>1. VenueClear /\ ~residue
  BY DEF RiskInv, ConfirmedIsClear, EntryOnlyWhenFlat, PrepareGeneration, MayEnter
<1>2. \A d \in Drains : DOMAIN drain[d] = DrainFields
  BY DEF RiskInv, Shapes
<1>3. ASSUME NEW d \in Drains
      PROVE  DOMAIN Survivor(d) = DrainFields /\ Survivor(d).step \in {"idle", "fetched", "loop"}
  BY <1>2 DEF Survivor, IdleDrain, DrainFields
<1>4. QED
  BY <1>1, <1>3 DEF PrepareGeneration, Begun

LEMMA PreparationKeeps ==
  ASSUME RiskInv, PrepareGeneration
  PROVE  RiskInv'
<1>1. Begun'
  BY PreparationBegins
<1>2. Begun' => RiskInv'
  BY BegunHolds, PTL
<1>3. QED
  BY <1>1, <1>2

LEMMA RiskStepKeeps == RiskInv /\ [RiskNext]_riskVars => RiskInv'
<1> SUFFICES ASSUME RiskInv, [RiskNext]_riskVars PROVE RiskInv'
  OBVIOUS
<1>1. ASSUME NEW d \in Drains, DrainStep(d) \/ CallFails(d) \/ DrainDies(d)
      PROVE  RiskInv'
  BY <1>1, ReconcileFrames, ClaimFrames, RunFrames, AnswerFrames, CancelFrames, FramedKept,
     ConfirmationKeeps
     DEF DrainStep
<1>2. CASE \E k \in Running : LeaseEnds(k)
  BY <1>2, ClaimFrames, FramedKept
<1>3. CASE \/ \E o \in DOMAIN riskOrders : StreamSees(o)
           \/ StreamSeesStop \/ Intent \/ MarkPrice \/ StopCodeSession
  BY <1>3, LedgerFrames, FramedKept
<1>4. CASE TpFills \/ TpDropped \/ StopTriggers \/ MarketStep
  BY <1>4, VenueFrames, FramedKept DEF MarketStep
<1>5. CASE PrepareGeneration
  BY <1>5, PreparationKeeps
<1>6. CASE UNCHANGED riskVars
  <2>1. Framed
    <3>1. Shapes /\ IsLedger(riskLedger) /\ CommandShape(riskCommands)
      BY ShapesAre DEF RiskInv
    <3>2. UNCHANGED <<riskLedger, riskOrders, riskCommands, drain, residue>>
      BY <1>6 DEF riskVars
    <3>3. Running' = Running
      BY <3>2 DEF Running
    <3>4. QED
      BY <3>1, <3>2, <3>3, CloseKeeps, LedgerKeeps, SameStays, StayingMoves, DrainsStay DEF Framed
  <2>2. QED
    BY <2>1, FramedKept
<1>7. QED
  BY <1>1, <1>2, <1>3, <1>4, <1>5, <1>6 DEF RiskNext, RiskStep

\* A new entry of a code strategy is prepared only when the exchange holds no
\* position of the session and none of its orders is open there, whatever
\* crashes, fails or is delivered late between the drains, the stream and the
\* exchange.
THEOREM EntryIsPreparedFlat == RiskSpec => []EntryOnlyWhenFlat
<1>1. RiskInv => EntryOnlyWhenFlat
  BY DEF RiskInv
<1>2. QED
  BY <1>1, RiskStart, RiskStepKeeps, PTL DEF RiskSpec

-----------------------------------------------------------------------------
(***************************************************************************)
(* The quantities of a position.                                           *)
(***************************************************************************)
\* The quantities of ledger l, whose exits are orders of known.
Measured(l, known) ==
  /\ IsLedger(l)
  /\ l.cumulative \in 0..EntryUnits /\ l.position \in 0..l.cumulative
  /\ l.tp \in Int /\ l.desiredTp \in Nat /\ l.unsettled \in Int
  /\ DOMAIN l.exits \subseteq known
  /\ \A o \in DOMAIN l.exits : /\ DOMAIN l.exits[o] = {"qty", "owed"}
                               /\ l.exits[o].qty \in Int /\ l.exits[o].owed \in Int

\* m may follow l in a generation.
Measures(l, known, m) == Measured(m, known) /\ m.generation = l.generation

LEMMA LeastOfTwo ==
  ASSUME NEW a \in Int, NEW b \in Int
  PROVE  Min({a, b}) \in {a, b} /\ Min({a, b}) <= a /\ Min({a, b}) <= b
<1>1. \E m \in {a, b} : \A x \in {a, b} : m <= x
  OBVIOUS
<1>2. QED
  BY <1>1 DEF Min

LEMMA LargestOfTwo ==
  ASSUME NEW a \in Int, NEW b \in Int
  PROVE  Max({a, b}) \in {a, b} /\ Max({a, b}) >= a /\ Max({a, b}) >= b
<1>1. \E m \in {a, b} : \A x \in {a, b} : m >= x
  OBVIOUS
<1>2. QED
  BY <1>1 DEF Max

LEMMA MeasuresAll ==
  ASSUME NEW l, NEW known, NEW m, NEW n, Measures(l, known, m), Measures(m, known, n)
  PROVE  Measures(l, known, n)
BY DEF Measures

LEMMA FlagsMeasure ==
  ASSUME NEW l, NEW known, Measured(l, known), NEW why, NEW token
  PROVE  /\ Measures(l, known, l)
         /\ Measures(l, known, Fail(l, why))
         /\ Measures(l, known, RequestClose(l)) /\ Measures(l, known, RequestReversal(l))
         /\ Measures(l, known, Acknowledged(l, token))
BY DEF Measured, Measures, IsLedger, LedgerFields, Fail, RequestClose, RequestReversal, Acknowledged

LEMMA DesireMeasures ==
  ASSUME NEW l, NEW known, Measured(l, known)
  PROVE  Measures(l, known, Desire(l))
<1> DEFINE half == HalfOf(l.cumulative) - l.tp
           wish == IF ~l.terminal THEN 0 ELSE Min({l.position, Max({0, half})})
<1>1. half \in Int /\ l.position \in Nat
  BY RiskAssumption DEF Measured, HalfOf
<1> HIDE DEF half, wish
<1>2. Max({0, half}) \in Nat
  BY <1>1, LargestOfTwo
<1>3. Min({l.position, Max({0, half})}) \in Nat
  <2>1. ASSUME NEW a \in Nat, NEW b \in Nat
        PROVE  Min({a, b}) \in Nat
    <3>1. a \in Int /\ b \in Int
      OBVIOUS
    <3>2. Min({a, b}) \in {a, b}
      BY <3>1, LeastOfTwo
    <3>3. QED
      BY <3>2
  <2>2. QED
    BY <1>1, <1>2, <2>1
<1>4. wish \in Nat
  BY <1>3 DEF wish
<1>5. Desire(l) = [l EXCEPT !.desired = @ + 1, !.confirmed = FALSE, !.desiredTp = wish]
  BY DEF Desire, half, wish
<1>6. QED
  BY <1>4, <1>5 DEF Measured, Measures, IsLedger, LedgerFields

LEMMA BookMeasures ==
  ASSUME NEW l, NEW known, Measured(l, known), NEW o \in known, NEW fill,
         DOMAIN fill = {"qty", "owed"}, fill.qty \in Int, fill.owed \in Int
  PROVE  /\ Measures(l, known, Book(l, o, fill))
         /\ o \in DOMAIN Book(l, o, fill).exits
         /\ Book(l, o, fill).position = l.position /\ Book(l, o, fill).tp = l.tp
         /\ Book(l, o, fill).cumulative = l.cumulative /\ Book(l, o, fill).unsettled = l.unsettled
<1> DEFINE exits == [p \in DOMAIN l.exits \cup {o} |-> IF p = o THEN fill ELSE l.exits[p]]
<1>1. /\ DOMAIN exits \subseteq known /\ o \in DOMAIN exits
      /\ \A p \in DOMAIN exits : /\ DOMAIN exits[p] = {"qty", "owed"}
                                 /\ exits[p].qty \in Int /\ exits[p].owed \in Int
  BY DEF Measured
<1>2. Book(l, o, fill) = [l EXCEPT !.exits = exits]
  BY DEF Book
<1> HIDE DEF exits
<1>3. QED
  BY <1>1, <1>2 DEF Measured, Measures, IsLedger, LedgerFields

LEMMA EntryFillMeasures ==
  ASSUME NEW l, NEW known, Measured(l, known), NEW qty \in 0..EntryUnits, NEW ended
  PROVE  Measures(l, known, EntryFill(l, qty, ended))
<1> DEFINE more == [l EXCEPT !.position = @ + qty - l.cumulative, !.cumulative = qty]
           next == [more EXCEPT !.terminal = @ \/ ended]
<1>1. l.cumulative \in Nat /\ qty \in Nat /\ l.position \in Nat /\ l.position <= l.cumulative
  BY RiskAssumption DEF Measured
<1>2. CASE ~(qty >= l.cumulative)
  <2>1. EntryFill(l, qty, ended) = l
    BY <1>1, <1>2 DEF EntryFill
  <2>2. QED
    BY <2>1, FlagsMeasure
<1>3. CASE qty >= l.cumulative
  <2>1. Measures(l, known, more)
    <3>1. l.position + qty - l.cumulative \in 0..qty
      BY <1>1, <1>3
    <3>2. QED
      BY <3>1 DEF Measured, Measures, IsLedger, LedgerFields
  <2>2. Measures(l, known, next)
    BY <2>1 DEF Measured, Measures, IsLedger, LedgerFields
  <2> HIDE DEF more, next
  <2>3. Measures(more, known, Fail(more, "other"))
    BY <2>1, FlagsMeasure DEF Measures
  <2>4. Measures(next, known, Fail(next, "other")) /\ Measures(next, known, Desire(next))
    BY <2>2, FlagsMeasure, DesireMeasures DEF Measures
  <2>5. EntryFill(l, qty, ended)
          \in {l, Fail(more, "other"), Fail(next, "other"), Desire(next), next}
    BY DEF EntryFill, more, next
  <2>6. Measures(l, known, l)
    BY FlagsMeasure
  <2>7. QED
    BY <2>1, <2>2, <2>3, <2>4, <2>5, <2>6, MeasuresAll
<1>4. QED
  BY <1>2, <1>3

LEMMA SettleMeasures ==
  ASSUME NEW l, NEW known, Measured(l, known), NEW o \in DOMAIN l.exits, NEW delta \in Int,
         NEW ended
  PROVE  Measures(l, known, Settle(l, o, delta, ended))
<1> DEFINE owed == l.exits[o].owed + delta
           credit == IF ended THEN Min({l.unsettled, owed}) ELSE 0
           fill == [l.exits[o] EXCEPT !.owed = owed - credit]
           book == Book(l, o, fill)
           rest == [book EXCEPT !.unsettled = @ - credit]
<1>1. owed \in Int /\ l.unsettled \in Int /\ o \in known
  BY DEF Measured
<1>2. credit \in Int
  <2> HIDE DEF owed
  <2>1. Min({l.unsettled, owed}) \in {l.unsettled, owed}
    BY <1>1, LeastOfTwo
  <2>2. QED
    BY <1>1, <2>1
<1> HIDE DEF owed, credit
<1>3. DOMAIN fill = {"qty", "owed"} /\ fill.qty \in Int /\ fill.owed \in Int
  BY <1>1, <1>2 DEF Measured
<1> HIDE DEF fill
<1>4. Measures(l, known, book)
  BY <1>1, <1>3, BookMeasures
<1> HIDE DEF book
<1>5. Measures(l, known, rest)
  BY <1>2, <1>4 DEF Measured, Measures, IsLedger, LedgerFields
<1> HIDE DEF rest
<1>6. Measures(rest, known, [rest EXCEPT !.blocked = FALSE, !.reason = "none"])
  BY <1>5 DEF Measured, Measures, IsLedger, LedgerFields
<1>7. Settle(l, o, delta, ended) \in {rest, [rest EXCEPT !.blocked = FALSE, !.reason = "none"]}
  BY DEF Settle, rest, book, fill, owed, credit
<1>8. QED
  BY <1>5, <1>6, <1>7, MeasuresAll

LEMMA ExitFillMeasures ==
  ASSUME NEW l, NEW known, Measured(l, known), NEW o \in known, NEW qty \in Int, NEW ended
  PROVE  Measures(l, known, ExitFill(l, o, qty, ended))
<1> DEFINE prior == Booked(l, o)
           delta == qty - prior.qty
           late == l.position = 0 /\ l.terminal
           fill == [prior EXCEPT !.qty = qty]
           book == Book(l, o, fill)
           booked == [book EXCEPT
                        !.position = Reduced(l, delta),
                        !.tp = IF o = Tp THEN @ + delta ELSE @,
                        !.close = @ \/ o # Tp]
           next == IF late /\ l.unsettled > 0 THEN Settle(booked, o, delta, ended) ELSE booked
<1>1. DOMAIN prior = {"qty", "owed"} /\ prior.qty \in Int /\ prior.owed \in Int
  BY DEF Measured, Booked
<1> HIDE DEF prior
<1>2. delta \in Int
  BY <1>1
<1>3. DOMAIN fill = {"qty", "owed"} /\ fill.qty \in Int /\ fill.owed \in Int
  BY <1>1
<1> HIDE DEF delta, fill
<1>4. /\ Measures(l, known, book) /\ o \in DOMAIN book.exits
      /\ book.position = l.position /\ book.tp = l.tp /\ book.cumulative = l.cumulative
  BY <1>3, BookMeasures
<1> HIDE DEF book
<1>5. CASE delta < 0
  <2>1. ExitFill(l, o, qty, ended) = l
    BY <1>5 DEF ExitFill, delta, prior
  <2>2. QED
    BY <2>1, FlagsMeasure
<1>6. CASE ~(delta < 0)
  <2>1. Reduced(l, delta) \in 0..l.cumulative
    <3>1. l.position \in 0..l.cumulative /\ l.cumulative \in Nat
      BY RiskAssumption DEF Measured
    <3>2. ASSUME NEW n \in Int
          PROVE  Max({0, n}) \in {0, n} /\ Max({0, n}) >= 0
      BY LargestOfTwo
    <3>3. /\ Max({0, l.position - delta}) \in {0, l.position - delta}
          /\ Max({0, l.position - delta}) >= 0
      <4>1. l.position - delta \in Int
        BY <1>2, <3>1
      <4>2. QED
        BY <3>2, <4>1
    <3>4. QED
      BY <1>2, <1>6, <3>1, <3>3 DEF Reduced
  <2>2. Measures(l, known, booked) /\ o \in DOMAIN booked.exits
    <3>1. l.tp + delta \in Int
      BY <1>2 DEF Measured
    <3>2. QED
      BY <1>4, <2>1, <3>1 DEF Measured, Measures, IsLedger, LedgerFields
  <2> HIDE DEF booked
  <2>3. Measures(l, known, next)
    <3>1. Measures(booked, known, Settle(booked, o, delta, ended))
      BY <1>2, <2>2, SettleMeasures DEF Measures
    <3>2. QED
      BY <2>2, <3>1, MeasuresAll
  <2> HIDE DEF next
  <2>4. Measures(next, known, [next EXCEPT !.confirmed = FALSE])
    BY <2>3 DEF Measured, Measures, IsLedger, LedgerFields
  <2>5. ExitFill(l, o, qty, ended)
          \in {l, Fail(booked, "other"), Desire(next), [next EXCEPT !.confirmed = FALSE], next}
    BY DEF ExitFill, next, booked, book, fill, late, delta, prior
  <2>6. Measures(booked, known, Fail(booked, "other")) /\ Measures(l, known, l)
    BY <2>2, FlagsMeasure DEF Measures
  <2>7. Measures(next, known, Desire(next))
    BY <2>3, DesireMeasures DEF Measures
  <2>8. QED
    BY <2>2, <2>3, <2>4, <2>5, <2>6, <2>7, MeasuresAll
<1>7. QED
  BY <1>5, <1>6

LEMMA ConfirmFlatMeasures ==
  ASSUME NEW l, NEW known, Measured(l, known), NEW cancelled, NEW unexplained
  PROVE  Measures(l, known, ConfirmFlat(l, cancelled, unexplained))
<1> DEFINE gone == IF unexplained /\ l.position > 0
                     THEN [RequestClose(l) EXCEPT
                             !.unsettled = @ + l.position, !.blocked = TRUE,
                             !.reason = IF @ = "none" THEN "unsettled" ELSE @]
                     ELSE l
<1>1. Measures(l, known, gone)
  <2>1. Measures(l, known, RequestClose(l)) /\ Measures(l, known, l)
    BY FlagsMeasure
  <2>2. l.position \in Int
    BY RiskAssumption DEF Measured
  <2>3. QED
    BY <2>1, <2>2 DEF Measured, Measures, IsLedger, LedgerFields
<1>2. ConfirmFlat(l, cancelled, unexplained)
        = [gone EXCEPT !.position = 0, !.confirmed = cancelled /\ l.terminal]
  BY DEF ConfirmFlat, gone
<1> HIDE DEF gone
<1>3. QED
  BY <1>1, <1>2, RiskAssumption DEF Measured, Measures, IsLedger, LedgerFields

LEMMA ObservedMeasures ==
  ASSUME NEW l, NEW known, Measured(l, known), NEW o, o \in known \/ o = Entry, NEW rest,
         riskOrders[o].filled \in 0..EntryUnits
  PROVE  Measures(l, known, Observed(l, o, rest))
<1> DEFINE filled == ExitFill(l, o, riskOrders[o].filled, Ended(o))
           none == [qty |-> 0, owed |-> 0]
<1>1. riskOrders[o].filled \in Int
  BY RiskAssumption
<1>2. CASE o = Entry
  <2>1. Observed(l, o, rest) = EntryFill(l, riskOrders[o].filled, Ended(o))
    BY <1>2 DEF Observed
  <2>2. QED
    BY <2>1, EntryFillMeasures
<1>3. CASE o # Entry
  <2>1. o \in known
    BY <1>3
  <2>2. Measures(l, known, filled)
    BY <1>1, <2>1, ExitFillMeasures
  <2> HIDE DEF filled
  <2>3. Measures(filled, known, Fail(filled, "other"))
    BY <2>2, FlagsMeasure DEF Measures
  <2>4. Measures(l, known, Book(l, o, none))
    BY <2>1, BookMeasures
  <2>5. Observed(l, o, rest) \in {filled, Fail(filled, "other"), Book(l, o, none)}
    BY <1>3 DEF Observed, filled
  <2>6. QED
    BY <2>2, <2>3, <2>4, <2>5, MeasuresAll
<1>4. QED
  BY <1>2, <1>3

LEMMA SeesStopMeasures ==
  ASSUME NEW l, NEW known, Measured(l, known), Sl \in known,
         riskOrders[Sl].filled \in 0..EntryUnits
  PROVE  Measures(l, known, SeesStop(l))
<1>1. Measures(l, known, Observed(l, Sl, TRUE))
  BY ObservedMeasures
<1>2. QED
  BY <1>1, FlagsMeasure DEF SeesStop

LEMMA CancelSeenMeasures ==
  ASSUME NEW known, Measured(riskLedger, known), NEW o, o \in known \/ o = Entry,
         riskOrders[o].filled \in 0..EntryUnits
  PROVE  Measures(riskLedger, known, CancelSeen(o))
<1>1. riskOrders[o].filled \in Int /\ 0 \in 0..EntryUnits
  BY RiskAssumption
<1>2. Measures(riskLedger, known, riskLedger)
  BY FlagsMeasure
<1>3. CASE o = Entry
  BY <1>1, <1>2, <1>3, EntryFillMeasures DEF CancelSeen
<1>4. CASE o # Entry
  BY <1>1, <1>2, <1>4, ExitFillMeasures DEF CancelSeen
<1>5. QED
  BY <1>3, <1>4

\* Orders that are added do no harm.
LEMMA MeasuredStill ==
  ASSUME NEW l, NEW known, Measured(l, known), NEW more, known \subseteq more
  PROVE  Measured(l, more)
BY DEF Measured

-----------------------------------------------------------------------------
(***************************************************************************)
(* The quantities of the commands.                                         *)
(***************************************************************************)
CommandsMeasured(c) == \A k \in DOMAIN c : c[k].qty \in Nat

LEMMA EnqueueMeasures ==
  ASSUME NEW c, CommandsMeasured(c), NEW l, NEW known, Measured(l, known)
  PROVE  CommandsMeasured(Enqueue(c, l))
<1> DEFINE Want(k) == IF k[1] = "apply_protection" THEN l.desiredTp
                      ELSE IF l.terminal THEN l.position ELSE Max({l.position, EntryUnits})
<1>1. l.desiredTp \in Nat /\ l.position \in Nat
  BY RiskAssumption DEF Measured
<1>2. Max({l.position, EntryUnits}) \in Nat
  <2>1. ASSUME NEW a \in Nat, NEW b \in Nat
        PROVE  Max({a, b}) \in Nat
    <3>1. Max({a, b}) \in {a, b}
      BY LargestOfTwo
    <3>2. QED
      BY <3>1
  <2>2. QED
    BY <1>1, <2>1, RiskAssumption
<1>3. \A k : Want(k) \in Nat
  BY <1>1, <1>2
<1>4. Enqueue(c, l) = [k \in Kept(c, l) \cup Wanted(l) |->
        IF k \in DOMAIN c THEN c[k] ELSE [status |-> "pending", qty |-> Want(k)]]
  BY DEF Enqueue
<1> HIDE DEF Want
<1>5. QED
  BY <1>3, <1>4 DEF CommandsMeasured

\* Whatever becomes of a command, its quantity stays.
LEMMA StatusMeasures ==
  ASSUME NEW c, CommandsMeasured(c), CommandShape(c), NEW k, NEW status
  PROVE  CommandsMeasured([c EXCEPT ![k].status = status])
BY DEF CommandsMeasured, CommandShape

-----------------------------------------------------------------------------
(***************************************************************************)
(* The quantities of the orders.                                           *)
(***************************************************************************)
\* What was filled has ended at the exchange.
OrderMeasured(o, r) ==
  /\ DOMAIN r = OrderFields
  /\ r.row \in OrderRows \cup {"none"} /\ r.venue \in VenueEnds \cup {"absent", "open"}
  /\ r.filled \in 0..EntryUnits /\ r.want \in Nat
  /\ r.venue # "done" => r.filled = 0
  /\ o = Entry => r.want = EntryUnits

\* The children close no more than the entry opened.
OrdersFit ==
  /\ IsFiniteSet(DOMAIN riskOrders)
  /\ \A o \in DOMAIN riskOrders : OrderMeasured(o, riskOrders[o])
  /\ VenuePosition \in 0..riskOrders[Entry].filled

\* Rows are written and orders added, and nothing is filled.
OrdersRewritten ==
  /\ DOMAIN riskOrders \subseteq DOMAIN riskOrders' /\ IsFiniteSet(DOMAIN riskOrders')
  /\ \A o \in DOMAIN riskOrders' : OrderMeasured(o, riskOrders'[o])
  /\ \A o \in DOMAIN riskOrders : riskOrders'[o].filled = riskOrders[o].filled
  /\ \A o \in DOMAIN riskOrders' \ DOMAIN riskOrders : riskOrders'[o].filled = 0

LEMMA FillsAre ==
  ASSUME OrdersFit
  PROVE  IsFiniteSet(Children) /\ ChildFills \in [Children -> Int]
<1>1. IsFiniteSet(Children)
  BY FS_Subset DEF OrdersFit, Children
<1>2. \A o \in Children : riskOrders[o].filled \in Int
  BY RiskAssumption DEF OrdersFit, OrderMeasured, Children
<1>3. QED
  BY <1>1, <1>2 DEF ChildFills

LEMMA RewrittenFits ==
  ASSUME Shapes, OrdersFit, OrdersRewritten
  PROVE  OrdersFit' /\ Children \subseteq Children' /\ DOMAIN riskOrders \subseteq DOMAIN riskOrders'
<1> DEFINE S == Children
           T == DOMAIN riskOrders' \ {Entry}
           f == ChildFills
           g == [o \in T |-> riskOrders'[o].filled]
<1>1. IsFiniteSet(T) /\ S \subseteq T
  BY FS_Subset DEF OrdersRewritten, Children
<1>2. IsFiniteSet(S) /\ f \in [S -> Int]
  BY FillsAre
<1>3. Extended(S, f, T, g)
  <2>1. \A o \in T : riskOrders'[o].filled \in Int
    BY RiskAssumption DEF OrdersRewritten, OrderMeasured
  <2>2. \A o \in S : g[o] = f[o]
    BY <1>1 DEF OrdersRewritten, Children, ChildFills
  <2>3. \A o \in T \ S : g[o] = 0
    BY DEF OrdersRewritten, Children
  <2>4. g \in [T -> Int]
    BY <2>1
  <2> HIDE DEF S, T, f, g
  <2>5. QED
    BY <1>1, <1>2, <2>2, <2>3, <2>4 DEF Extended
<1>4. SumFunction(g) = SumFunction(f)
  <2> HIDE DEF S, T, f, g
  <2>1. QED
    BY <1>1, <1>3, SumExtended
<1>5. Children' = T /\ ChildFills' = g
  BY DEF Children, ChildFills
<1>6. VenuePosition' = riskOrders'[Entry].filled - SumFunction(g)
  BY <1>5 DEF VenuePosition
<1>7. riskOrders'[Entry].filled = riskOrders[Entry].filled
  BY DEF Shapes, OrdersRewritten
<1>8. VenuePosition' = VenuePosition
  BY <1>4, <1>6, <1>7 DEF VenuePosition
<1>9. OrdersFit'
  BY <1>7, <1>8 DEF OrdersFit, OrdersRewritten
<1>10. QED
  BY <1>1, <1>5, <1>9 DEF OrdersRewritten

\* An order is filled at the exchange: the entry once, a child within the position.
LEMMA FilledFits ==
  ASSUME Shapes, OrdersFit, NEW o \in DOMAIN riskOrders, riskOrders[o].venue # "done",
         NEW n \in Nat, riskOrders' = Ends(o, n),
         o = Entry => n <= EntryUnits, o # Entry => n <= VenuePosition
  PROVE  OrdersFit' /\ Children' = Children /\ DOMAIN riskOrders' = DOMAIN riskOrders
<1>1. /\ DOMAIN riskOrders' = DOMAIN riskOrders
      /\ \A p \in DOMAIN riskOrders :
           IF p = o THEN /\ DOMAIN riskOrders'[p] = OrderFields
                         /\ riskOrders'[p].row = riskOrders[p].row
                         /\ riskOrders'[p].want = riskOrders[p].want
                         /\ riskOrders'[p].venue = "done" /\ riskOrders'[p].filled = n
           ELSE riskOrders'[p] = riskOrders[p]
  BY DEF Shapes, OrderFields, Ends
<1>2. Entry \in DOMAIN riskOrders /\ riskOrders[o].filled = 0
  BY DEF Shapes, OrdersFit, OrderMeasured
<1>3. Children' = Children
  BY <1>1 DEF Children
<1>4. /\ IsFiniteSet(Children) /\ ChildFills \in [Children -> Int]
      /\ SumFunction(ChildFills) \in Int
  BY FillsAre, SumIsInt
<1>5. /\ VenuePosition = riskOrders[Entry].filled - SumFunction(ChildFills)
      /\ VenuePosition' = riskOrders'[Entry].filled - SumFunction(ChildFills')
  BY DEF VenuePosition
<1>6. /\ riskOrders[Entry].filled \in 0..EntryUnits
      /\ VenuePosition \in 0..riskOrders[Entry].filled
      /\ EntryUnits \in Nat
  BY <1>2, RiskAssumption DEF OrdersFit, OrderMeasured
<1>7. CASE o = Entry
  <2>1. ChildFills' = ChildFills
    BY <1>1, <1>3, <1>7 DEF ChildFills, Children
  <2>2. VenuePosition' = n /\ riskOrders'[Entry].filled = n
    <3>1. riskOrders'[Entry].filled = n /\ riskOrders[Entry].filled = 0
      BY <1>1, <1>2, <1>7
    <3>2. SumFunction(ChildFills) = 0
      BY <1>4, <1>5, <1>6, <3>1
    <3>3. QED
      BY <1>5, <2>1, <3>1, <3>2
  <2>3. n \in 0..EntryUnits
    BY <1>6, <1>7
  <2>4. \A p \in DOMAIN riskOrders' : OrderMeasured(p, riskOrders'[p])
    BY <1>1, <2>3 DEF OrdersFit, OrderMeasured, VenueEnds
  <2>5. QED
    BY <1>1, <1>3, <2>2, <2>3, <2>4 DEF OrdersFit
<1>8. CASE o # Entry
  <2>1. o \in Children /\ riskOrders'[Entry] = riskOrders[Entry]
    BY <1>1, <1>2, <1>8 DEF Children
  <2>2. ChildFills' = [ChildFills EXCEPT ![o] = n]
    BY <1>1, <1>3, <2>1 DEF ChildFills, Children
  <2>3. Changed(Children, ChildFills, o, n, ChildFills')
    BY <1>4, <2>2 DEF Changed
  <2>4. SumFunction(ChildFills') = SumFunction(ChildFills) - ChildFills[o] + n
    BY <1>4, <2>1, <2>3, SumUpdated
  <2>5. ChildFills[o] = 0
    BY <1>2, <2>1 DEF ChildFills
  <2>6. VenuePosition' \in 0..riskOrders'[Entry].filled
    BY <1>4, <1>5, <1>6, <1>8, <2>1, <2>4, <2>5
  <2>7. n \in 0..EntryUnits
    BY <1>6, <1>8
  <2>8. \A p \in DOMAIN riskOrders' : OrderMeasured(p, riskOrders'[p])
    BY <1>1, <1>8, <2>7 DEF OrdersFit, OrderMeasured, VenueEnds
  <2>9. QED
    BY <1>1, <1>3, <2>6, <2>8 DEF OrdersFit
<1>9. QED
  BY <1>7, <1>8

LEMMA SameRewrites ==
  ASSUME OrdersFit, UNCHANGED riskOrders
  PROVE  OrdersRewritten
BY DEF OrdersFit, OrdersRewritten

LEMMA ObservedRewrites ==
  ASSUME OrdersFit, NEW o, riskOrders' = [riskOrders EXCEPT ![o] = ObservedRow(o)]
  PROVE  OrdersRewritten
BY DEF OrdersFit, OrderMeasured, OrderFields, OrderRows, ObservedRow, OrdersRewritten

LEMMA CancelledRewrites ==
  ASSUME OrdersFit, NEW o, riskOrders' = Cancelled(o)
  PROVE  OrdersRewritten
BY DEF OrdersFit, OrderMeasured, OrderFields, OrderRows, VenueEnds, Cancelled, OrdersRewritten

LEMMA StopRowRewrites ==
  ASSUME OrdersFit, riskOrders' = StopRow(riskLedger)
  PROVE  OrdersRewritten
BY DEF OrdersFit, OrderMeasured, OrderFields, OrderRows, StopRow, OrdersRewritten

LEMMA CreatedRewrites ==
  ASSUME OrdersFit, NEW o, NEW venue \in {"open", "rejected"}, riskOrders' = Created(o, venue)
  PROVE  OrdersRewritten
BY DEF OrdersFit, OrderMeasured, OrderFields, VenueEnds, Created, OrdersRewritten

\* A child is added perhaps, and its row or another one marked as sent.
LEMMA ChildRewrites ==
  ASSUME Shapes, OrdersFit, NEW o, NEW n \in Nat, NEW orders, orders \in {riskOrders, WithChild(o, n)},
         NEW p, riskOrders' = orders \/ riskOrders' = [orders EXCEPT ![p].row = "submitted"]
  PROVE  OrdersRewritten
<1>1. CASE orders = riskOrders
  BY <1>1 DEF OrdersFit, OrderMeasured, OrderFields, OrderRows, OrdersRewritten
<1>2. CASE orders # riskOrders
  <2>1. o \notin DOMAIN riskOrders /\ o # Entry
    BY <1>2 DEF WithChild, Shapes
  <2>2. orders = [q \in DOMAIN riskOrders \cup {o} |-> IF q = o THEN NewOrder(n) ELSE riskOrders[q]]
    BY <1>2, <2>1 DEF WithChild
  <2>3. IsFiniteSet(DOMAIN orders)
    <3>1. IsFiniteSet(DOMAIN riskOrders \cup {o})
      BY FS_AddElement DEF OrdersFit
    <3>2. QED
      BY <2>2, <3>1
  <2>4. OrderMeasured(o, NewOrder(n)) /\ NewOrder(n).filled = 0
    BY <2>1, RiskAssumption DEF OrderMeasured, NewOrder, OrderFields, OrderRows
  <2>5. \A q \in DOMAIN orders : OrderMeasured(q, orders[q])
    BY <2>2, <2>4 DEF OrdersFit
  <2>6. /\ DOMAIN riskOrders \subseteq DOMAIN orders
        /\ \A q \in DOMAIN riskOrders : orders[q].filled = riskOrders[q].filled
        /\ \A q \in DOMAIN orders \ DOMAIN riskOrders : orders[q].filled = 0
    BY <2>1, <2>2, <2>4
  <2>7. /\ DOMAIN riskOrders' = DOMAIN orders
        /\ \A q \in DOMAIN orders :
             OrderMeasured(q, riskOrders'[q]) /\ riskOrders'[q].filled = orders[q].filled
    BY <2>5 DEF OrderMeasured, OrderFields, OrderRows
  <2>8. QED
    BY <2>3, <2>6, <2>7 DEF OrdersRewritten
<1>3. QED
  BY <1>1, <1>2

-----------------------------------------------------------------------------
(***************************************************************************)
(* The quantities are kept by every step within a generation.              *)
(***************************************************************************)
\* An order that a drain sends is one of this generation.
SendsOwn ==
  \A d \in Drains :
    drain[d].step \in {"child", "create", "sent"} => drain[d].order \in DOMAIN riskOrders

Quantities ==
  /\ Measured(riskLedger, Children)
  /\ OrdersFit
  /\ CommandsMeasured(riskCommands)
  /\ SendsOwn

\* A step that keeps them, and the generation.
StepFits ==
  /\ Measures(riskLedger, Children, riskLedger')
  /\ OrdersFit' /\ Children \subseteq Children'
  /\ CommandsMeasured(riskCommands')
  /\ SendsOwn'

LEMMA StepFitsKept ==
  ASSUME StepFits
  PROVE  Quantities' /\ riskLedger'.generation = riskLedger.generation
BY MeasuredStill DEF StepFits, Quantities, Measures

LEMMA QuantitiesAre ==
  ASSUME RiskInv, Quantities
  PROVE  /\ Shapes /\ OrdersFit /\ CommandShape(riskCommands)
         /\ Measured(riskLedger, Children) /\ CommandsMeasured(riskCommands)
         /\ \A o \in DOMAIN riskOrders : /\ riskOrders[o].filled \in 0..EntryUnits
                                         /\ o \in Children \/ o = Entry
         /\ Entry \in DOMAIN riskOrders /\ Sl \in Children
BY ShapesAre DEF RiskInv, Shapes, Quantities, OrdersFit, OrderMeasured, Children, Sl, Entry

LEMMA SavedMeasures ==
  ASSUME NEW c, CommandsMeasured(c), NEW l, NEW known, Measured(l, known), Save(l, c)
  PROVE  riskLedger' = l /\ CommandsMeasured(riskCommands')
BY EnqueueMeasures DEF Save

LEMMA SendsStill ==
  ASSUME SendsOwn, DOMAIN riskOrders \subseteq DOMAIN riskOrders',
         UNCHANGED drain \/ \E d \in Drains : Rests(d)
  PROVE  SendsOwn'
BY DEF SendsOwn, Rests

\* Drain d goes on, with an order of its own.
LEMMA SendsMore ==
  ASSUME SendsOwn, DOMAIN riskOrders \subseteq DOMAIN riskOrders', NEW d \in Drains,
         \A e \in Drains : e # d => drain'[e] = drain[e],
         drain'[d].step \in {"child", "create", "sent"} => drain'[d].order \in DOMAIN riskOrders'
  PROVE  SendsOwn'
BY DEF SendsOwn

\* The end of a command.
LEMMA OverMeasures ==
  ASSUME RiskInv, Quantities, NEW d \in Drains, Active(d),
         NEW l, Measures(riskLedger, Children, l),
         Applied(d, l) \/ Retry(d, l) \/ Failed(d, l)
  PROVE  /\ Measures(riskLedger, Children, riskLedger') /\ CommandsMeasured(riskCommands')
         /\ Rests(d)
<1>1. Shapes /\ CommandShape(riskCommands) /\ CommandsMeasured(riskCommands)
  BY QuantitiesAre
<1>2. Measured(l, Children)
  BY DEF Measures
<1>3. Measures(l, Children, Fail(l, "other")) /\ Measures(l, Children, l)
  BY <1>2, FlagsMeasure
<1>4. PICK m \in {l, Fail(l, "other")}, status \in {"applied", "pending", "failed"} :
        Save(m, Finished(d, status)) /\ (EndDrain(d) \/ Loop(d))
  BY DEF Applied, Retry, Failed
<1>5. CommandsMeasured(Finished(d, status))
  BY <1>1, StatusMeasures DEF Finished
<1>6. Measures(riskLedger, Children, m)
  BY <1>3, <1>4, MeasuresAll
<1>7. riskLedger' = m /\ CommandsMeasured(riskCommands')
  BY <1>4, <1>5, <1>6, SavedMeasures DEF Measures
<1>8. QED
  BY <1>1, <1>4, <1>6, <1>7, DrainStops

\* The exchange acts.
LEMMA VenueFits ==
  ASSUME RiskInv, Quantities,
         \/ EntryFills \/ TpFills \/ TpDropped \/ StopTriggers
         \/ \E o \in Children : CloseFills(o)
  PROVE  StepFits
<1>1. /\ Shapes /\ OrdersFit /\ Measured(riskLedger, Children) /\ CommandsMeasured(riskCommands)
      /\ Entry \in DOMAIN riskOrders /\ Sl \in Children
  BY QuantitiesAre
<1>2. /\ \A o \in DOMAIN riskOrders : riskOrders[o].want \in Nat
      /\ riskOrders[Entry].want = EntryUnits
      /\ VenuePosition \in Nat /\ EntryUnits \in Nat
  BY <1>1, RiskAssumption DEF OrdersFit, OrderMeasured
<1>3. PICK o \in DOMAIN riskOrders, n \in Nat :
        /\ riskOrders[o].venue # "done"
        /\ o = Entry => n <= EntryUnits
        /\ o # Entry => n <= VenuePosition
        /\ VenueStep(Ends(o, n))
  <2>1. CASE EntryFills
    <3>1. PICK n \in 0..riskOrders[Entry].want : VenueStep(Ends(Entry, n))
      BY <2>1 DEF EntryFills
    <3>2. n \in Nat /\ n <= EntryUnits
      BY <1>2, <3>1
    <3>3. riskOrders[Entry].venue # "done"
      BY <2>1 DEF EntryFills
    <3>4. QED
      BY <1>1, <3>1, <3>2, <3>3
  <2>2. CASE TpFills
    <3>1. /\ Tp \in DOMAIN riskOrders /\ Tp # Entry /\ riskOrders[Tp].venue # "done"
          /\ VenuePosition >= riskOrders[Tp].want /\ VenueStep(Ends(Tp, riskOrders[Tp].want))
      BY <2>2 DEF TpFills, Children
    <3>2. riskOrders[Tp].want \in Nat /\ riskOrders[Tp].want <= VenuePosition
      BY <1>2, <3>1
    <3>3. QED
      BY <3>1, <3>2
  <2>3. CASE TpDropped
    <3>1. /\ Tp \in DOMAIN riskOrders /\ Tp # Entry /\ riskOrders[Tp].venue # "done"
          /\ VenueStep(Ends(Tp, 0))
      BY <2>3 DEF TpDropped, Children
    <3>2. 0 \in Nat /\ 0 <= VenuePosition
      BY <1>2
    <3>3. QED
      BY <3>1, <3>2
  <2>4. CASE StopTriggers
    <3>1. /\ Sl \in DOMAIN riskOrders /\ Sl # Entry /\ riskOrders[Sl].venue # "done"
          /\ VenueStep(Ends(Sl, VenuePosition))
      BY <1>1, <2>4 DEF StopTriggers, Children
    <3>2. VenuePosition <= VenuePosition
      BY <1>2
    <3>3. QED
      BY <1>2, <3>1, <3>2
  <2>5. CASE \E o \in Children : CloseFills(o)
    <3>1. PICK o \in Children : CloseFills(o)
      BY <2>5
    <3>2. PICK n \in 0..Min({riskOrders[o].want, VenuePosition}) : VenueStep(Ends(o, n))
      BY <3>1 DEF CloseFills
    <3>3. o \in DOMAIN riskOrders /\ o # Entry /\ riskOrders[o].venue # "done"
      BY <3>1 DEF CloseFills, Children
    <3>4. /\ Min({riskOrders[o].want, VenuePosition}) \in {riskOrders[o].want, VenuePosition}
          /\ Min({riskOrders[o].want, VenuePosition}) <= VenuePosition
      <4>1. riskOrders[o].want \in Int /\ VenuePosition \in Int
        BY <1>2, <3>3
      <4>2. QED
        BY <4>1, LeastOfTwo
    <3>5. n \in Nat /\ n <= VenuePosition
      BY <1>2, <3>2, <3>3, <3>4
    <3>6. QED
      BY <3>2, <3>3, <3>5
  <2>6. QED
    BY <2>1, <2>2, <2>3, <2>4, <2>5
<1>4. riskOrders' = Ends(o, n) /\ UNCHANGED <<riskLedger, riskCommands, drain>>
  BY <1>3 DEF VenueStep
<1>5. OrdersFit' /\ Children' = Children /\ DOMAIN riskOrders' = DOMAIN riskOrders
  BY <1>1, <1>3, <1>4, FilledFits
<1>6. SendsOwn'
  BY <1>4, <1>5, SendsStill DEF Quantities
<1>7. Measures(riskLedger, Children, riskLedger)
  BY <1>1, FlagsMeasure
<1>8. QED
  BY <1>1, <1>4, <1>5, <1>6, <1>7 DEF StepFits

\* A handler is run on the ledger, and its answer written to the orders.
LEMMA HandlerFits ==
  ASSUME RiskInv, Quantities, NEW l, Measures(riskLedger, Children, l),
         riskLedger' = l /\ CommandsMeasured(riskCommands'),
         OrdersRewritten, UNCHANGED drain \/ \E d \in Drains : Rests(d)
  PROVE  StepFits
<1>1. OrdersFit' /\ Children \subseteq Children' /\ DOMAIN riskOrders \subseteq DOMAIN riskOrders'
  BY QuantitiesAre, RewrittenFits
<1>2. SendsOwn'
  BY <1>1, SendsStill DEF Quantities
<1>3. QED
  BY <1>1, <1>2 DEF StepFits

\* The stream sees, an evaluation wants out, the session is stopped.
LEMMA LedgerFits ==
  ASSUME RiskInv, Quantities,
         \/ \E o \in DOMAIN riskOrders : StreamSees(o)
         \/ StreamSeesStop \/ Intent \/ MarkPrice \/ StopCodeSession
  PROVE  StepFits
<1>1. /\ OrdersFit /\ Measured(riskLedger, Children) /\ CommandsMeasured(riskCommands)
      /\ Sl \in Children
      /\ \A o \in DOMAIN riskOrders : /\ riskOrders[o].filled \in 0..EntryUnits
                                      /\ o \in Children \/ o = Entry
  BY QuantitiesAre
<1>2. ASSUME NEW l, Measures(riskLedger, Children, l), Save(l, riskCommands)
      PROVE  riskLedger' = l /\ CommandsMeasured(riskCommands')
  BY <1>1, <1>2, SavedMeasures DEF Measures
<1>3. ASSUME NEW o \in DOMAIN riskOrders, StreamSees(o)
      PROVE  StepFits
  <2>1. Measures(riskLedger, Children, Observed(riskLedger, o, FALSE))
    BY <1>1, ObservedMeasures
  <2>2. OrdersRewritten
    BY <1>1, <1>3, ObservedRewrites DEF StreamSees
  <2>3. QED
    BY <1>2, <1>3, <2>1, <2>2, HandlerFits DEF StreamSees
<1>4. CASE StreamSeesStop
  <2>1. Measures(riskLedger, Children, SeesStop(riskLedger))
    BY <1>1, SeesStopMeasures DEF Children
  <2>2. OrdersRewritten
    BY <1>1, <1>4, StopRowRewrites DEF StreamSeesStop
  <2>3. QED
    BY <1>2, <1>4, <2>1, <2>2, HandlerFits DEF StreamSeesStop
<1>5. CASE Intent \/ StopCodeSession
  <2>1. OrdersRewritten /\ UNCHANGED drain
    BY <1>1, <1>5, SameRewrites DEF Intent, StopCodeSession
  <2>2. /\ Measures(riskLedger, Children, riskLedger)
        /\ Measures(riskLedger, Children, RequestClose(riskLedger))
        /\ Measures(riskLedger, Children, RequestReversal(riskLedger))
    BY <1>1, FlagsMeasure
  <2>3. CASE UNCHANGED <<riskLedger, riskCommands>>
    BY <1>1, <2>1, <2>2, <2>3, HandlerFits
  <2>4. CASE Save(RequestClose(riskLedger), riskCommands)
    BY <1>2, <2>1, <2>2, <2>4, HandlerFits
  <2>5. CASE Save(RequestReversal(riskLedger), riskCommands)
    BY <1>2, <2>1, <2>2, <2>5, HandlerFits
  <2>6. QED
    BY <1>5, <2>3, <2>4, <2>5 DEF Intent, StopCodeSession
<1>6. CASE MarkPrice
  <2>1. OrdersRewritten /\ UNCHANGED drain
    BY <1>1, <1>6, SameRewrites DEF MarkPrice
  <2>2. Measures(riskLedger, Children, Desire(riskLedger))
    BY <1>1, DesireMeasures
  <2>3. QED
    BY <1>2, <1>6, <2>1, <2>2, HandlerFits DEF MarkPrice
<1>7. QED
  BY <1>3, <1>4, <1>5, <1>6

\* A drain reconciles, or has nothing to do.
LEMMA ReconcileFits ==
  ASSUME RiskInv, Quantities, NEW d \in Drains,
         \/ \E o \in DOMAIN riskOrders : SyncOrder(d, o)
         \/ FetchVenue(d) \/ JudgePosition(d) \/ NothingToClaim(d) \/ DrainDies(d)
  PROVE  StepFits
<1>1. /\ Shapes /\ OrdersFit /\ Measured(riskLedger, Children) /\ CommandsMeasured(riskCommands)
      /\ Sl \in Children
      /\ \A o \in DOMAIN riskOrders : /\ riskOrders[o].filled \in 0..EntryUnits
                                      /\ o \in Children \/ o = Entry
  BY QuantitiesAre
<1>2. ASSUME NEW l, Measures(riskLedger, Children, l), Save(l, riskCommands)
      PROVE  riskLedger' = l /\ CommandsMeasured(riskCommands')
  BY <1>1, <1>2, SavedMeasures DEF Measures
<1>3. Measures(riskLedger, Children, riskLedger)
  BY <1>1, FlagsMeasure
<1>4. ASSUME NEW o \in DOMAIN riskOrders, SyncOrder(d, o)
      PROVE  StepFits
  <2>1. Measures(riskLedger, Children, Observed(riskLedger, o, TRUE))
    BY <1>1, ObservedMeasures
  <2>2. OrdersRewritten
    BY <1>1, <1>4, ObservedRewrites DEF SyncOrder
  <2>3. QED
    BY <1>2, <1>4, <2>1, <2>2, HandlerFits DEF SyncOrder
<1>5. CASE FetchVenue(d) \/ NothingToClaim(d) \/ DrainDies(d)
  <2>1. Rests(d)
    <3>1. CASE FetchVenue(d)
      <4> DEFINE next == [IdleDrain EXCEPT !.step = "fetched", !.on = sessionOn,
                                           !.seen = VenuePosition]
      <4>1. DOMAIN next = DrainFields /\ next.step = "fetched"
        BY DEF IdleDrain, DrainFields
      <4>2. drain' = [drain EXCEPT ![d] = next]
        BY <3>1 DEF FetchVenue
      <4> HIDE DEF next
      <4>3. QED
        BY <1>1, <4>1, <4>2 DEF Shapes, Rests
    <3>2. CASE NothingToClaim(d) \/ DrainDies(d)
      BY <1>1, <3>2, DrainStops DEF NothingToClaim, DrainDies
    <3>3. QED
      BY <1>5, <3>1, <3>2
  <2>2. UNCHANGED <<riskLedger, riskOrders, riskCommands>>
    BY <1>5 DEF FetchVenue, NothingToClaim, DrainDies
  <2>3. QED
    BY <1>1, <1>3, <2>1, <2>2, SameRewrites, HandlerFits
<1>6. CASE JudgePosition(d)
  <2>1. Measures(riskLedger, Children, SeesStop(riskLedger))
    BY <1>1, SeesStopMeasures DEF Children
  <2>2. PICK l \in {SeesStop(riskLedger), riskLedger} :
          \/ Save(l, riskCommands) /\ EndDrain(d)
          \/ /\ Loop(d)
             /\ \E m \in {l, ConfirmFlat(l, FALSE, TRUE), Fail(l, "other")} : Save(m, riskCommands)
    BY <1>6 DEF JudgePosition
  <2>3. Measures(riskLedger, Children, l)
    BY <1>3, <2>1
  <2>4. /\ Measures(l, Children, l) /\ Measures(l, Children, ConfirmFlat(l, FALSE, TRUE))
        /\ Measures(l, Children, Fail(l, "other"))
    <3>1. Measured(l, Children)
      BY <2>3 DEF Measures
    <3>2. QED
      BY <3>1, FlagsMeasure, ConfirmFlatMeasures
  <2>5. PICK m : Save(m, riskCommands) /\ Measures(l, Children, m)
    BY <2>2, <2>4
  <2>6. Measures(riskLedger, Children, m)
    BY <2>3, <2>5, MeasuresAll
  <2>7. Rests(d)
    BY <1>1, <2>2, DrainStops
  <2>8. OrdersRewritten
    BY <1>1, <1>6, StopRowRewrites, SameRewrites DEF JudgePosition
  <2>9. QED
    BY <1>2, <2>5, <2>6, <2>7, <2>8, HandlerFits
<1>7. QED
  BY <1>4, <1>5, <1>6

\* A command is claimed, or its lease ends.
LEMMA ClaimFits ==
  ASSUME RiskInv, Quantities,
         \/ \E d \in Drains, k \in Claimables : ClaimCommand(d, k)
         \/ \E k \in Running : LeaseEnds(k)
  PROVE  StepFits
<1>1. /\ Shapes /\ OrdersFit /\ CommandShape(riskCommands)
      /\ Measured(riskLedger, Children) /\ CommandsMeasured(riskCommands)
  BY QuantitiesAre
<1>2. /\ UNCHANGED <<riskLedger, riskOrders>>
      /\ \E k, status : riskCommands' = [riskCommands EXCEPT ![k].status = status]
  BY DEF ClaimCommand, LeaseEnds
<1>3. CommandsMeasured(riskCommands')
  <2>1. PICK k, status : riskCommands' = [riskCommands EXCEPT ![k].status = status]
    BY <1>2
  <2>2. CommandsMeasured([riskCommands EXCEPT ![k].status = status])
    BY <1>1, StatusMeasures
  <2>3. QED
    BY <2>1, <2>2
<1>4. OrdersRewritten
  BY <1>1, <1>2, SameRewrites
<1>5. OrdersFit' /\ Children \subseteq Children' /\ DOMAIN riskOrders \subseteq DOMAIN riskOrders'
  BY <1>1, <1>4, RewrittenFits
<1>6. SendsOwn'
  <2>1. CASE UNCHANGED drain
    BY <1>5, <2>1, SendsStill DEF Quantities
  <2>2. ASSUME NEW d \in Drains, NEW k, NEW seen, NEW last,
               drain' = [drain EXCEPT ![d].step = "run", ![d].cmd = k, ![d].seen = seen,
                                      ![d].terminal = last]
        PROVE  SendsOwn'
    <3>1. drain'[d].step = "run" /\ \A e \in Drains : e # d => drain'[e] = drain[e]
      BY <1>1, <2>2 DEF Shapes, DrainFields
    <3>2. QED
      BY <1>5, <3>1, SendsMore DEF Quantities
  <2>3. ASSUME NEW d \in Drains, NEW k \in Claimables, ClaimCommand(d, k)
        PROVE  SendsOwn'
    <3> DEFINE seen == IF k[1] = "apply_protection" THEN riskLedger.position ELSE 0
               last == k[1] = "apply_protection" /\ riskLedger.terminal
    <3>1. CASE k \notin Wanted(riskLedger)
      BY <2>1, <2>3, <3>1 DEF ClaimCommand
    <3>2. CASE k \in Wanted(riskLedger)
      <4>1. drain' = [drain EXCEPT ![d].step = "run", ![d].cmd = k, ![d].seen = seen,
                                   ![d].terminal = last]
        BY <2>3, <3>2 DEF ClaimCommand
      <4> HIDE DEF seen, last
      <4>2. QED
        BY <2>2, <4>1
    <3>3. QED
      BY <3>1, <3>2
  <2>4. QED
    BY <2>1, <2>3 DEF LeaseEnds
<1>7. Measures(riskLedger, Children, riskLedger)
  BY <1>1, FlagsMeasure
<1>8. QED
  BY <1>2, <1>3, <1>5, <1>6, <1>7 DEF StepFits

\* An order is sent, found at the exchange, or has ended.
LEMMA SubmitFits ==
  ASSUME RiskInv, Quantities, NEW d \in Drains, Active(d), NEW o \in DOMAIN riskOrders, Submit(d, o)
  PROVE  StepFits
<1>1. /\ Shapes /\ OrdersFit
      /\ Measured(riskLedger, Children) /\ CommandsMeasured(riskCommands)
  BY QuantitiesAre
<1>2. /\ Measures(riskLedger, Children, riskLedger)
      /\ Measures(riskLedger, Children, EndOf(d, riskLedger))
  BY <1>1, FlagsMeasure DEF EndOf
<1>3. OrdersRewritten
  BY <1>1, ChildRewrites DEF Submit, Applied
<1>4. OrdersFit' /\ Children \subseteq Children' /\ DOMAIN riskOrders \subseteq DOMAIN riskOrders'
  BY <1>1, <1>3, RewrittenFits
<1>5. CASE Applied(d, EndOf(d, riskLedger))
  <2>1. /\ Measures(riskLedger, Children, riskLedger') /\ CommandsMeasured(riskCommands')
        /\ Rests(d)
    BY <1>1, <1>2, <1>5, OverMeasures
  <2>2. QED
    BY <1>3, <2>1, HandlerFits
<1>6. CASE /\ UNCHANGED <<riskLedger, riskCommands>>
           /\ \E s \in {"sent", "create"} : DrainFor(d, s, o)
  <2>1. drain'[d].order = o /\ \A e \in Drains : e # d => drain'[e] = drain[e]
    BY <1>1, <1>6 DEF Shapes, DrainFields, DrainFor
  <2>2. SendsOwn'
    BY <1>4, <2>1, SendsMore DEF Quantities
  <2>3. QED
    BY <1>1, <1>2, <1>4, <1>6, <2>2 DEF StepFits
<1>7. QED
  BY <1>5, <1>6 DEF Submit

\* A child is there before it is sent.
LEMMA ChildFits ==
  ASSUME RiskInv, Quantities, NEW d \in Drains, NEW o, NEW n \in Nat, SaveChild(d, o, n),
         UNCHANGED <<riskLedger, riskCommands>>
  PROVE  StepFits
<1>1. /\ Shapes /\ OrdersFit
      /\ Measured(riskLedger, Children) /\ CommandsMeasured(riskCommands)
  BY QuantitiesAre
<1>2. riskOrders' = WithChild(o, n) /\ DrainFor(d, "child", o)
  BY DEF SaveChild
<1>3. OrdersRewritten
  BY <1>1, <1>2, ChildRewrites
<1>4. OrdersFit' /\ Children \subseteq Children' /\ DOMAIN riskOrders \subseteq DOMAIN riskOrders'
  BY <1>1, <1>3, RewrittenFits
<1>5. drain'[d].order = o /\ \A e \in Drains : e # d => drain'[e] = drain[e]
  BY <1>1, <1>2 DEF Shapes, DrainFields, DrainFor
<1>6. o \in DOMAIN riskOrders'
  BY <1>2 DEF WithChild
<1>7. SendsOwn'
  BY <1>4, <1>5, <1>6, SendsMore DEF Quantities
<1>8. QED
  BY <1>1, <1>4, <1>7, FlagsMeasure DEF StepFits

LEMMA RunFits ==
  ASSUME RiskInv, Quantities, NEW d \in Drains,
         \/ RunSubmit(d) \/ RunReversal(d) \/ RunFlatten(d) \/ FlattenFoundFlat(d)
         \/ RunProtection(d) \/ SubmitChild(d)
  PROVE  StepFits
<1>1. /\ Shapes /\ OrdersFit /\ Active(d) /\ Entry \in DOMAIN riskOrders
      /\ Measured(riskLedger, Children) /\ CommandsMeasured(riskCommands)
  BY QuantitiesAre
     DEF Active, RunSubmit, RunReversal, RunFlatten, FlattenFoundFlat, RunProtection,
         SubmitChild, Doing, DrainAt
<1>2. /\ Measures(riskLedger, Children, riskLedger)
      /\ Measures(riskLedger, Children, EndOf(d, riskLedger))
      /\ Measures(riskLedger, Children, ConfirmFlat(riskLedger, FALSE, TRUE))
  BY <1>1, FlagsMeasure, ConfirmFlatMeasures DEF EndOf
<1>3. UNCHANGED riskOrders => OrdersRewritten
  BY <1>1, SameRewrites
\* The quantity of the command, and the position, are quantities of an order.
<1>4. /\ riskCommands[Mine(d)].qty \in Nat /\ VenuePosition \in Nat
      /\ Min({VenuePosition, riskCommands[Mine(d)].qty}) \in Nat
  <2>1. drain[d].cmd \in DOMAIN riskCommands
    BY <1>1 DEF RiskInv, Leased, Running
  <2>2. riskCommands[Mine(d)].qty \in Nat /\ VenuePosition \in Nat
    BY <1>1, <2>1, RiskAssumption DEF CommandsMeasured, OrdersFit, OrderMeasured, Mine
  <2>3. ASSUME NEW a \in Nat, NEW b \in Nat
        PROVE  Min({a, b}) \in Nat
    <3>1. a \in Int /\ b \in Int
      OBVIOUS
    <3>2. Min({a, b}) \in {a, b}
      BY <3>1, LeastOfTwo
    <3>3. QED
      BY <3>2
  <2>4. QED
    BY <2>2, <2>3
<1>5. ASSUME NEW l, Measures(riskLedger, Children, l),
             Applied(d, l) \/ Retry(d, l) \/ Failed(d, l), UNCHANGED riskOrders
      PROVE  StepFits
  <2>1. /\ Measures(riskLedger, Children, riskLedger') /\ CommandsMeasured(riskCommands')
        /\ Rests(d)
    BY <1>1, <1>5, OverMeasures
  <2>2. QED
    BY <1>3, <1>5, <2>1, HandlerFits
<1>6. CASE RunSubmit(d) \/ RunReversal(d)
  <2>1. CASE Submit(d, Entry)
    BY <1>1, <2>1, SubmitFits
  <2>2. CASE (Failed(d, riskLedger) \/ Applied(d, riskLedger)) /\ UNCHANGED riskOrders
    BY <1>2, <1>5, <2>2
  <2>3. QED
    BY <1>6, <2>1, <2>2 DEF RunSubmit, RunReversal
<1>7. CASE RunFlatten(d)
  <2>1. CASE VenuePosition = 0
    <3>1. DrainGo(d, "flat") /\ UNCHANGED <<riskLedger, riskOrders, riskCommands>>
      BY <1>7, <2>1 DEF RunFlatten
    <3>2. drain'[d].step = "flat" /\ \A e \in Drains : e # d => drain'[e] = drain[e]
      BY <1>1, <3>1 DEF DrainGo, Shapes, DrainFields
    <3>3. OrdersFit' /\ Children \subseteq Children' /\ DOMAIN riskOrders \subseteq DOMAIN riskOrders'
      BY <1>1, <1>3, <3>1, RewrittenFits
    <3>4. SendsOwn'
      BY <3>2, <3>3, SendsMore DEF Quantities
    <3>5. QED
      BY <1>1, <1>2, <3>1, <3>3, <3>4 DEF StepFits
  <2>2. CASE VenuePosition # 0
    <3>1. /\ SaveChild(d, Mine(d), Min({VenuePosition, riskCommands[Mine(d)].qty}))
          /\ UNCHANGED <<riskLedger, riskCommands>>
      BY <1>7, <2>2 DEF RunFlatten
    <3>2. QED
      BY <1>4, <3>1, ChildFits
  <2>3. QED
    BY <2>1, <2>2
<1>8. CASE FlattenFoundFlat(d)
  BY <1>2, <1>5, <1>8 DEF FlattenFoundFlat
<1>9. CASE RunProtection(d)
  <2>1. CASE /\ SaveChild(d, Tp, riskCommands[Mine(d)].qty)
             /\ UNCHANGED <<riskLedger, riskCommands>>
    BY <1>4, <2>1, ChildFits
  <2>2. CASE /\ UNCHANGED riskOrders
             /\ \/ Retry(d, riskLedger) \/ Failed(d, riskLedger)
                \/ Applied(d, EndOf(d, riskLedger))
    BY <1>2, <1>5, <2>2
  <2>3. QED
    BY <1>9, <2>1, <2>2 DEF RunProtection
<1>10. CASE SubmitChild(d)
  <2>1. drain[d].order \in DOMAIN riskOrders
    BY <1>10 DEF Quantities, SendsOwn, SubmitChild, DrainAt
  <2>2. QED
    BY <1>1, <1>10, <2>1, SubmitFits DEF SubmitChild
<1>11. QED
  BY <1>6, <1>7, <1>8, <1>9, <1>10

\* The exchange answers, or does not.
LEMMA AnswerFits ==
  ASSUME RiskInv, Quantities, NEW d \in Drains, CreateOrder(d) \/ Synced(d) \/ CallFails(d)
  PROVE  StepFits
<1>1. /\ Shapes /\ OrdersFit /\ Active(d)
      /\ Measured(riskLedger, Children) /\ CommandsMeasured(riskCommands)
      /\ \A o \in DOMAIN riskOrders : /\ riskOrders[o].filled \in 0..EntryUnits
                                      /\ o \in Children \/ o = Entry
  BY QuantitiesAre DEF Active, CreateOrder, Synced, CallFails, DrainAt
<1>2. Measures(riskLedger, Children, riskLedger)
  BY <1>1, FlagsMeasure
<1>3. UNCHANGED riskOrders => OrdersRewritten
  BY <1>1, SameRewrites
<1>4. ASSUME NEW l, Measures(riskLedger, Children, l),
             Applied(d, l) \/ Retry(d, l) \/ Failed(d, l), OrdersRewritten
      PROVE  StepFits
  <2>1. /\ Measures(riskLedger, Children, riskLedger') /\ CommandsMeasured(riskCommands')
        /\ Rests(d)
    BY <1>1, <1>4, OverMeasures
  <2>2. QED
    BY <1>4, <2>1, HandlerFits
<1>5. CASE CreateOrder(d)
  <2> DEFINE o == drain[d].order
  <2>1. OrdersRewritten
    BY <1>1, <1>3, <1>5, CreatedRewrites DEF CreateOrder
  <2>2. CASE DrainGo(d, "sent") /\ UNCHANGED <<riskLedger, riskCommands>>
    <3>1. drain'[d].order = o /\ \A e \in Drains : e # d => drain'[e] = drain[e]
      BY <1>1, <2>2 DEF DrainGo, Shapes, DrainFields
    <3>2. OrdersFit' /\ Children \subseteq Children' /\ DOMAIN riskOrders \subseteq DOMAIN riskOrders'
      BY <1>1, <2>1, RewrittenFits
    <3>3. o \in DOMAIN riskOrders
      BY <1>5 DEF Quantities, SendsOwn, CreateOrder, DrainAt
    <3>4. SendsOwn'
      BY <3>1, <3>2, <3>3, SendsMore DEF Quantities
    <3>5. QED
      BY <1>1, <1>2, <2>2, <3>2, <3>4 DEF StepFits
  <2>3. CASE Failed(d, riskLedger)
    BY <1>2, <1>4, <2>1, <2>3
  <2>4. QED
    BY <1>5, <2>2, <2>3 DEF CreateOrder
<1>6. CASE Synced(d)
  <2> DEFINE o == drain[d].order
             l == Observed(riskLedger, o, TRUE)
  <2>1. OrdersRewritten
    BY <1>1, <1>6, ObservedRewrites DEF Synced
  <2>2. o \in DOMAIN riskOrders
    BY <1>6 DEF Quantities, SendsOwn, Synced, DrainAt
  <2>3. Measures(riskLedger, Children, l)
    BY <1>1, <2>2, ObservedMeasures
  <2>4. \E m \in {l, EndOf(d, l)} : Applied(d, m) \/ Failed(d, m)
    BY <1>6 DEF Synced
  <2> HIDE DEF l, o
  <2>5. Measured(l, Children)
    BY <2>3 DEF Measures
  <2>6. Measures(l, Children, l) /\ Measures(l, Children, EndOf(d, l))
    BY <2>5, FlagsMeasure DEF EndOf
  <2>7. Measures(riskLedger, Children, EndOf(d, l))
    BY <2>3, <2>6, MeasuresAll
  <2>8. QED
    BY <1>4, <2>1, <2>3, <2>4, <2>7
<1>7. CASE CallFails(d)
  BY <1>2, <1>3, <1>4, <1>7 DEF CallFails
<1>8. QED
  BY <1>5, <1>6, <1>7

\* Orders are cancelled, and the row is confirmed.
LEMMA CancelFits ==
  ASSUME RiskInv, Quantities, NEW d \in Drains,
         RunCancelEntry(d) \/ (\E o \in OpenRows : RunCancelChild(d, o)) \/ ChildrenCancelled(d)
  PROVE  StepFits
<1>1. /\ Shapes /\ OrdersFit /\ Active(d) /\ Entry \in DOMAIN riskOrders
      /\ Measured(riskLedger, Children) /\ CommandsMeasured(riskCommands)
      /\ \A o \in DOMAIN riskOrders : /\ riskOrders[o].filled \in 0..EntryUnits
                                      /\ o \in Children \/ o = Entry
  BY QuantitiesAre DEF Active, RunCancelEntry, RunCancelChild, ChildrenCancelled, Doing, DrainAt
<1>2. /\ Measures(riskLedger, Children, riskLedger)
      /\ Measures(riskLedger, Children, ConfirmFlat(riskLedger, TRUE, FALSE))
      /\ \A o \in DOMAIN riskOrders : Measures(riskLedger, Children, CancelSeen(o))
  BY <1>1, FlagsMeasure, ConfirmFlatMeasures, CancelSeenMeasures
<1>3. UNCHANGED riskOrders => OrdersRewritten
  BY <1>1, SameRewrites
<1>4. ASSUME NEW l, Measures(riskLedger, Children, l),
             Applied(d, l) \/ Retry(d, l) \/ Failed(d, l), OrdersRewritten
      PROVE  StepFits
  <2>1. /\ Measures(riskLedger, Children, riskLedger') /\ CommandsMeasured(riskCommands')
        /\ Rests(d)
    BY <1>1, <1>4, OverMeasures
  <2>2. QED
    BY <1>4, <2>1, HandlerFits
<1>5. CASE (Applied(d, riskLedger) \/ Retry(d, riskLedger)) /\ UNCHANGED riskOrders
  BY <1>2, <1>3, <1>4, <1>5
<1>6. CASE Applied(d, CancelSeen(Entry)) /\ riskOrders' = Cancelled(Entry)
  BY <1>1, <1>2, <1>4, <1>6, CancelledRewrites
<1>7. ASSUME NEW o \in OpenRows, Save(CancelSeen(o), riskCommands), riskOrders' = Cancelled(o),
             UNCHANGED drain
      PROVE  StepFits
  <2>1. OrdersRewritten
    BY <1>1, <1>7, CancelledRewrites
  <2>2. Measures(riskLedger, Children, CancelSeen(o))
    BY <1>2 DEF OpenRows, Children
  <2>3. riskLedger' = CancelSeen(o) /\ CommandsMeasured(riskCommands')
    BY <1>1, <1>7, <2>2, SavedMeasures DEF Measures
  <2>4. QED
    BY <1>7, <2>1, <2>2, <2>3, HandlerFits
<1>8. CASE ChildrenCancelled(d)
  BY <1>2, <1>3, <1>4, <1>8 DEF ChildrenCancelled
<1>9. QED
  BY <1>5, <1>6, <1>7, <1>8 DEF RunCancelEntry, RunCancelChild

\* A generation begins with quantities of its own.
LEMMA BegunMeasures == Begun => Quantities
<1> SUFFICES ASSUME Begun PROVE Quantities
  OBVIOUS
<1>1. \A g, known : Measured(FreshLedger(g), known)
  BY RiskAssumption DEF Measured, FreshLedger, IsLedger, LedgerFields
<1>2. Measured(riskLedger, Children)
  BY <1>1 DEF Begun
<1>3. CommandsMeasured(riskCommands)
  <2>1. CommandsMeasured([k \in {} |-> {}])
    BY DEF CommandsMeasured
  <2>2. QED
    BY <1>2, <2>1, EnqueueMeasures DEF Begun
<1>4. OrdersFit
  <2>1. Sl # Entry
    BY DEF Sl, Entry
  <2>2. /\ DOMAIN riskOrders = {Entry, Sl}
        /\ riskOrders[Entry] = NewOrder(EntryUnits) /\ riskOrders[Sl] = NoOrder
    BY <2>1 DEF Begun
  <2>3. OrderMeasured(Entry, NewOrder(EntryUnits)) /\ OrderMeasured(Sl, NoOrder)
    BY <2>1, RiskAssumption DEF OrderMeasured, NewOrder, NoOrder, OrderFields, OrderRows
  <2>4. NewOrder(EntryUnits).filled = 0 /\ NoOrder.filled = 0
    BY DEF NewOrder, NoOrder
  <2>5. Children = {Sl} /\ ChildFills = [o \in {Sl} |-> 0]
    BY <2>1, <2>2, <2>4 DEF Children, ChildFills
  <2>6. IsFiniteSet({Sl}) /\ IsFiniteSet({Entry, Sl})
    BY FS_Singleton, FS_AddElement, FS_EmptySet
  <2>7. SumFunction(ChildFills) = 0
    BY <2>5, <2>6, SumOfZeros
  <2>8. VenuePosition = 0
    BY <2>2, <2>4, <2>7 DEF VenuePosition
  <2>9. QED
    BY <2>2, <2>3, <2>4, <2>6, <2>8 DEF OrdersFit
<1>5. SendsOwn
  BY DEF Begun, SendsOwn, IdleDrain
<1>6. QED
  BY <1>2, <1>3, <1>4, <1>5 DEF Quantities

-----------------------------------------------------------------------------
(***************************************************************************)
(* Every variable of the position stays within its type.                   *)
(***************************************************************************)
LastIsFollowed == riskLedger.generation \in 1..(MaxGenerations + 1)
Switches == sessionOn \in BOOLEAN /\ residue \in BOOLEAN /\ riskFaults \in 0..MaxRiskFaults
RiskTyped == RiskInv /\ Quantities /\ LastIsFollowed /\ Switches

LEMMA RiskTypedStart == RiskInit => RiskTyped
<1> SUFFICES ASSUME RiskInit PROVE RiskTyped
  OBVIOUS
<1>1. Begun
  BY StartBegins
<1>2. riskLedger.generation = 1
  BY DEF RiskInit, FreshLedger
<1>3. LastIsFollowed /\ Switches
  <2>1. 1 \in 1..(MaxGenerations + 1) /\ MaxRiskFaults \in 0..MaxRiskFaults
    BY RiskAssumption
  <2>2. QED
    BY <1>2, <2>1 DEF RiskInit, LastIsFollowed, Switches
<1>4. QED
  BY <1>1, <1>3, BegunHolds, BegunMeasures DEF RiskTyped

LEMMA PreparationMeasures ==
  ASSUME RiskInv, LastIsFollowed, Followed, PrepareGeneration
  PROVE  Quantities' /\ LastIsFollowed'
<1>1. Begun'
  BY PreparationBegins
<1>2. Begun' => Quantities'
  BY BegunMeasures, PTL
<1>3. riskLedger'.generation = riskLedger.generation + 1
  BY DEF PrepareGeneration, FreshLedger
<1>4. LastIsFollowed'
  BY <1>3, RiskAssumption DEF LastIsFollowed, Followed
<1>5. QED
  BY <1>1, <1>2, <1>4

LEMMA SwitchesKept == RiskInv /\ Switches /\ RiskStep => Switches'
<1> SUFFICES ASSUME RiskInv, Switches, RiskStep PROVE Switches'
  OBVIOUS
<1>1. RiskFault \/ UNCHANGED riskFaults => riskFaults' \in 0..MaxRiskFaults
  BY RiskAssumption DEF Switches, RiskFault
<1>2. CASE PrepareGeneration
  <2>1. VenueClear
    BY <1>2 DEF RiskInv, ConfirmedIsClear, PrepareGeneration, MayEnter
  <2>2. residue' = residue /\ UNCHANGED <<sessionOn, riskFaults>>
    BY <1>2, <2>1 DEF RiskInv, EntryOnlyWhenFlat, Switches, PrepareGeneration
  <2>3. QED
    BY <2>2 DEF Switches
<1>3. CASE StopCodeSession
  BY <1>3 DEF Switches, StopCodeSession
<1>4. CASE UNCHANGED <<sessionOn, residue>> /\ (RiskFault \/ UNCHANGED riskFaults)
  BY <1>1, <1>4 DEF Switches
<1>5. ASSUME NEW d \in Drains, DrainStep(d) \/ CallFails(d) \/ DrainDies(d)
      PROVE  UNCHANGED <<sessionOn, residue>> /\ (RiskFault \/ UNCHANGED riskFaults)
  BY <1>5
     DEF DrainStep, CallFails, DrainDies, SyncOrder, FetchVenue, JudgePosition, NothingToClaim,
         ClaimCommand, RunSubmit, RunReversal, RunFlatten, FlattenFoundFlat, RunProtection,
         SubmitChild, CreateOrder, Synced, RunCancelEntry, RunCancelChild, ChildrenCancelled
<1>6. CASE TpFills \/ TpDropped \/ StopTriggers \/ MarketStep
  <2>1. UNCHANGED <<sessionOn, residue>> /\ (RiskFault \/ UNCHANGED riskFaults)
    BY <1>6 DEF TpFills, TpDropped, StopTriggers, MarketStep, EntryFills, CloseFills, VenueStep
  <2>2. QED
    BY <1>4, <2>1
<1>7. CASE \/ \E k \in Running : LeaseEnds(k)
           \/ \E o \in DOMAIN riskOrders : StreamSees(o)
           \/ StreamSeesStop \/ Intent \/ MarkPrice
  <2>1. UNCHANGED <<sessionOn, residue, riskFaults>>
    BY <1>7 DEF LeaseEnds, StreamSees, StreamSeesStop, Intent, MarkPrice
  <2>2. QED
    BY <1>4, <2>1
<1>8. QED
  BY <1>2, <1>3, <1>4, <1>5, <1>6, <1>7 DEF RiskStep

LEMMA RiskTypedStep == RiskTyped /\ [RiskNext]_riskVars => RiskTyped'
<1> SUFFICES ASSUME RiskTyped, [RiskNext]_riskVars PROVE RiskTyped'
  OBVIOUS
<1>1. RiskInv /\ Quantities /\ LastIsFollowed /\ Switches /\ RiskInv'
  BY RiskStepKeeps DEF RiskTyped
<1>2. StepFits => Quantities' /\ LastIsFollowed'
  BY <1>1, StepFitsKept DEF LastIsFollowed
<1>3. CASE RiskNext
  <2>1. Switches'
    BY <1>1, <1>3, SwitchesKept DEF RiskNext
  <2>2. ASSUME NEW d \in Drains, DrainStep(d) \/ CallFails(d) \/ DrainDies(d)
        PROVE  StepFits
    BY <1>1, <2>2, ReconcileFits, ClaimFits, RunFits, AnswerFits, CancelFits DEF DrainStep
  <2>3. CASE \E k \in Running : LeaseEnds(k)
    BY <1>1, <1>2, <2>1, <2>3, ClaimFits DEF RiskTyped
  <2>4. CASE \/ \E o \in DOMAIN riskOrders : StreamSees(o)
             \/ StreamSeesStop \/ Intent \/ MarkPrice \/ StopCodeSession
    BY <1>1, <1>2, <2>1, <2>4, LedgerFits DEF RiskTyped
  <2>5. CASE TpFills \/ TpDropped \/ StopTriggers \/ MarketStep
    BY <1>1, <1>2, <2>1, <2>5, VenueFits DEF MarketStep, RiskTyped
  <2>6. CASE PrepareGeneration
    BY <1>1, <1>3, <2>1, <2>6, PreparationMeasures DEF RiskNext, RiskTyped
  <2>7. QED
    BY <1>1, <1>2, <1>3, <2>1, <2>2, <2>3, <2>4, <2>5, <2>6 DEF RiskNext, RiskStep, RiskTyped
<1>4. CASE UNCHANGED riskVars
  BY <1>1, <1>4
     DEF riskVars, Quantities, OrdersFit, VenuePosition, ChildFills, Children, SendsOwn,
         LastIsFollowed, Switches, RiskTyped
<1>5. QED
  BY <1>3, <1>4

LEMMA RiskTypedIs == RiskTyped => RiskTypeOK
<1> SUFFICES ASSUME RiskTyped PROVE RiskTypeOK
  OBVIOUS
<1>1. /\ Measured(riskLedger, Children) /\ OrdersFit /\ Entry \in DOMAIN riskOrders
      /\ EntryUnits \in Nat
  BY QuantitiesAre, RiskAssumption DEF RiskTyped
<1>2. riskLedger.cumulative \in 0..EntryUnits /\ riskLedger.position \in 0..EntryUnits
  BY <1>1 DEF Measured
<1>3. VenuePosition \in 0..EntryUnits
  BY <1>1 DEF OrdersFit, OrderMeasured
<1>4. QED
  BY <1>1, <1>2, <1>3
     DEF RiskTyped, LastIsFollowed, Switches, RiskTypeOK, Measured, OrdersFit, OrderMeasured

\* No exit, however late or repeated, drives the ledger's position or the
\* exchange's below zero, and neither exceeds the entry.
THEOREM RiskTypes == RiskSpec => []RiskTypeOK
<1>1. QED
  BY RiskTypedStart, RiskTypedStep, RiskTypedIs, PTL DEF RiskSpec

-----------------------------------------------------------------------------
(***************************************************************************)
(* The amount that an order realized.                                      *)
(***************************************************************************)
PricedFields == {"kind", "recorded", "synced", "pnl", "evidence", "observed", "conflict"}
IsPriced(o) == DOMAIN o = PricedFields

\* What a sweep has read is of the order, and it reads only orders of code.
SweepFits(w) ==
  /\ DOMAIN w = {"pc", "read", "matched", "mode", "sum"}
  /\ DOMAIN w.read = {"raws", "complete"} /\ w.read.raws \subseteq Raws
  /\ w.pc = "read" => priced.kind = "code"

\* Everything that is read is a raw of the order.
PnlShapes ==
  /\ IsPriced(priced)
  /\ priced.evidence \subseteq Raws /\ priced.observed \subseteq Raws
  /\ published \subseteq Raws /\ listing \subseteq Raws /\ exitRows \subseteq Raws
  /\ refresh.read.raws \subseteq Raws /\ DOMAIN refresh = {"pc", "read", "tries"}
  /\ DOMAIN sweep = Sweepers /\ \A s \in Sweepers : SweepFits(sweep[s])

LEMMA OneIsAll ==
  ASSUME NEW S, IsFiniteSet(S), ~(Cardinality(S) > 1), NEW r \in S
  PROVE  S = {r}
<1>1. IsFiniteSet(S \ {r}) /\ Cardinality(S \ {r}) = Cardinality(S) - 1
  BY FS_RemoveElement
<1>2. Cardinality(S) \in Nat /\ Cardinality(S \ {r}) \in Nat
  BY <1>1, FS_CardinalityType
<1>3. Cardinality(S \ {r}) = 0
  BY <1>1, <1>2
<1>4. S \ {r} = {}
  BY <1>1, <1>3, FS_EmptySet
<1>5. QED
  BY <1>4

\* What a mark leaves of a row: everything but what is known, and the conflict.
LEMMA MarkedIs ==
  ASSUME NEW o, IsPriced(o), NEW raws, NEW invalid, NEW table
  PROVE  LET m == Marked(o, raws, invalid, table)
             known == raws \cup o.observed \cup o.evidence \cup table
         IN  /\ IsPriced(m)
             /\ m.kind = o.kind /\ m.pnl = o.pnl /\ m.synced = o.synced
             /\ m.recorded = o.recorded /\ m.evidence = o.evidence
             /\ m.observed \in {o.observed, known}
             /\ o.conflict => m.conflict
             /\ o.kind = "code" /\ ~m.conflict =>
                  ~(Cardinality(known) > 1) /\ ~invalid /\ m.observed = known
             /\ o.kind # "code" => m = o
BY DEF Marked, IsPriced, PricedFields

\* What an amount that is written leaves of a row.
LEMMA WrittenIs ==
  ASSUME NEW o, IsPriced(o), NEW amount, NEW allowed, NEW proof,
         NEW m \in {Backfilled(o, amount, allowed, proof), Resynced(o, amount, allowed, proof),
                    Witnessed(o, amount, allowed, proof)}
  PROVE  /\ IsPriced(m)
         /\ m.kind = o.kind /\ m.observed = o.observed
         /\ m.conflict = o.conflict
         /\ m = o \/ (allowed /\ m.evidence = proof)
         /\ \/ m.pnl = o.pnl /\ m.synced = o.synced
            \/ allowed /\ o.kind # "native" /\ m.pnl = amount
BY DEF IsPriced, PricedFields, Backfilled, Resynced, Witnessed

\* An order of a code strategy is priced by the one raw that is known of it.
LEMMA AppliedIs ==
  ASSUME PnlShapes, NEW read, read.raws \subseteq Raws, NEW mode, priced.kind = "code"
  PROVE  LET m == CodeApplied(read, mode)
         IN  /\ IsPriced(m) /\ m.kind = "code"
             /\ m.evidence \subseteq Raws /\ m.observed \subseteq Raws
             /\ priced.conflict =>
                  /\ m.conflict /\ m.pnl = priced.pnl /\ m.synced = priced.synced
                  /\ m.evidence = priced.evidence
             /\ \/ m.pnl = priced.pnl /\ m.synced = priced.synced
                \/ \E r \in Fitting :
                     m.evidence = {r} /\ m.pnl = Amount[r] /\ Known(m, exitRows) = {r}
<1> DEFINE proof  == Proof(read)
           marked == Marked(priced, read.raws, ~(proof \subseteq Fitting), exitRows)
           known  == read.raws \cup priced.observed \cup priced.evidence \cup exitRows
           amount == Amount[CHOOSE r \in proof : TRUE]
           ok     == Proven(marked, proof)
           seen   == Witnessed(marked, amount, ok, proof)
           m      == CodeApplied(read, mode)
<1>1. proof \subseteq read.raws
  BY DEF Proof
<1>2. known \subseteq Raws /\ IsFiniteSet(known)
  BY FS_Subset, PnlAssumption DEF PnlShapes
<1>3. /\ IsPriced(marked) /\ marked.kind = "code"
      /\ marked.pnl = priced.pnl /\ marked.synced = priced.synced
      /\ marked.evidence = priced.evidence /\ marked.observed \in {priced.observed, known}
      /\ priced.conflict => marked.conflict
      /\ ~marked.conflict => ~(Cardinality(known) > 1) /\ marked.observed = known
  <2> DEFINE invalid == ~(proof \subseteq Fitting)
  <2>1. marked = Marked(priced, read.raws, invalid, exitRows)
    OBVIOUS
  <2> HIDE DEF invalid, marked
  <2>2. IsPriced(priced)
    BY DEF PnlShapes
  <2>3. QED
    BY <2>1, <2>2 DEF Marked, IsPriced, PricedFields
<1>4. ok => /\ ~marked.conflict
            /\ \E r \in Fitting : proof = {r} /\ known = {r} /\ amount = Amount[r]
  <2> SUFFICES ASSUME ok
               PROVE  /\ ~marked.conflict
                      /\ \E r \in Fitting : proof = {r} /\ known = {r} /\ amount = Amount[r]
    OBVIOUS
  <2>1. proof # {} /\ proof \subseteq Fitting /\ ~marked.conflict
    BY DEF Proven
  <2>2. PICK r \in proof : TRUE
    BY <2>1
  <2>3. known = {r}
    BY <1>1, <1>2, <1>3, <2>1, <2>2, OneIsAll
  <2>4. proof = {r}
    BY <1>1, <2>2, <2>3
  <2>5. (CHOOSE x \in proof : TRUE) = r
    BY <2>4
  <2>6. QED
    BY <2>1, <2>2, <2>3, <2>4, <2>5
<1>5. m \in {Backfilled(seen, amount, ok, proof), Resynced(seen, amount, ok, proof)}
  BY DEF CodeApplied
<1> HIDE DEF proof, marked, known, amount, ok, m
<1>6. /\ IsPriced(seen) /\ seen.kind = "code" /\ seen.observed = marked.observed
      /\ seen.conflict = marked.conflict
      /\ seen = marked \/ (ok /\ seen.evidence = proof)
      /\ \/ seen.pnl = marked.pnl /\ seen.synced = marked.synced
         \/ ok /\ seen.pnl = amount
  BY <1>3, WrittenIs
<1>7. seen.pnl = marked.pnl /\ seen.synced = marked.synced
  BY <1>3 DEF Witnessed, IsPriced, PricedFields
<1> HIDE DEF seen
<1>8. /\ IsPriced(m) /\ m.kind = "code" /\ m.observed = marked.observed
      /\ m.conflict = marked.conflict
      /\ m = seen \/ (ok /\ m.evidence = proof)
      /\ \/ m.pnl = seen.pnl /\ m.synced = seen.synced
         \/ ok /\ m.pnl = amount
  BY <1>5, <1>6, WrittenIs
<1>9. m.evidence \in {priced.evidence, proof} /\ m.observed \in {priced.observed, known}
  BY <1>3, <1>6, <1>8
<1>10. m.evidence \subseteq Raws /\ m.observed \subseteq Raws
  BY <1>1, <1>2, <1>9 DEF PnlShapes
<1>11. priced.conflict =>
         /\ m.conflict /\ m.pnl = priced.pnl /\ m.synced = priced.synced
         /\ m.evidence = priced.evidence
  BY <1>3, <1>4, <1>6, <1>7, <1>8
<1>12. ASSUME ok, m.evidence = proof
       PROVE  \E r \in Fitting :
                m.evidence = {r} /\ amount = Amount[r] /\ Known(m, exitRows) = {r}
  <2>1. PICK r \in Fitting : proof = {r} /\ known = {r} /\ amount = Amount[r]
    BY <1>4, <1>12
  <2>2. m.observed = known
    BY <1>3, <1>4, <1>8, <1>12
  <2>3. exitRows \subseteq known
    BY DEF known
  <2>4. QED
    BY <1>12, <2>1, <2>2, <2>3 DEF Known
<1>13. \/ m.pnl = priced.pnl /\ m.synced = priced.synced
       \/ ok /\ m.evidence = proof /\ m.pnl = amount
  BY <1>3, <1>5, <1>6, <1>7, <1>8 DEF Backfilled, Resynced, IsPriced, PricedFields
<1>14. QED
  BY <1>8, <1>10, <1>11, <1>12, <1>13 DEF m

\* What one step may make of the amount: PnlProven, of a step.
AmountMove ==
  /\ priced.kind = "code" /\ priced.conflict =>
       /\ priced'.conflict
       /\ priced'.pnl = priced.pnl /\ priced'.synced = priced.synced
       /\ priced'.evidence = priced.evidence
  /\ priced.kind = "code" /\ <<priced'.pnl, priced'.synced>> # <<priced.pnl, priced.synced>> =>
       \E r \in Fitting :
         /\ priced'.evidence = {r} /\ priced'.pnl = Amount[r]
         /\ Known(priced', exitRows') = {r}
  /\ priced.kind = "native" /\ <<priced'.pnl, priced'.synced>> # <<priced.pnl, priced.synced>> =>
       ~priced.synced /\ priced'.pnl = NativeAmount

\* The shape of the row after a step.
PricedKept ==
  /\ IsPriced(priced') /\ priced'.kind = priced.kind
  /\ priced'.evidence \subseteq Raws /\ priced'.observed \subseteq Raws

LEMMA SameAmount ==
  PnlShapes /\ UNCHANGED priced => AmountMove /\ PricedKept
BY DEF AmountMove, PricedKept, PnlShapes

\* The steps that write the row, one by one.
LEMMA CodeAmount ==
  ASSUME PnlShapes, priced.kind = "code", NEW read, read.raws \subseteq Raws, NEW mode,
         priced' = CodeApplied(read, mode), UNCHANGED exitRows
  PROVE  AmountMove /\ PricedKept
BY AppliedIs DEF AmountMove, PricedKept

LEMMA LegacyAmount ==
  ASSUME PnlShapes, priced.kind \in LegacyKinds, NEW amount,
         \/ priced' = priced
         \/ priced' = [priced EXCEPT !.synced = TRUE, !.pnl = amount, !.evidence = {}]
         \/ priced' = [priced EXCEPT !.pnl = amount, !.evidence = {}]
  PROVE  AmountMove /\ PricedKept
<1>1. /\ IsPriced(priced') /\ priced'.kind = priced.kind /\ priced'.observed = priced.observed
      /\ priced' = priced \/ priced'.evidence = {}
  BY DEF PnlShapes, IsPriced, PricedFields
<1>2. QED
  BY <1>1 DEF AmountMove, PricedKept, PnlShapes, LegacyKinds

LEMMA MarkedAmount ==
  ASSUME PnlShapes, NEW raws, raws \subseteq Raws, NEW table, table \subseteq Raws,
         priced' = Marked(priced, raws, FALSE, table)
  PROVE  AmountMove /\ PricedKept
<1>1. IsPriced(priced)
  BY DEF PnlShapes
<1>2. /\ IsPriced(priced')
      /\ priced'.kind = priced.kind /\ priced'.pnl = priced.pnl
      /\ priced'.synced = priced.synced /\ priced'.evidence = priced.evidence
      /\ priced'.observed \in {priced.observed,
                               raws \cup priced.observed \cup priced.evidence \cup table}
      /\ priced.conflict => priced'.conflict
  BY <1>1 DEF Marked, IsPriced, PricedFields
<1>3. QED
  BY <1>2 DEF AmountMove, PricedKept, PnlShapes

LEMMA RowSteps ==
  PnlShapes /\ (RecordFill \/ NativeObserved) => AmountMove /\ PricedKept
BY DEF PnlShapes, RecordFill, NativeObserved, AmountMove, PricedKept, IsPriced, PricedFields

LEMMA RefreshAmount ==
  PnlShapes /\ RefreshApplies => AmountMove /\ PricedKept
<1> SUFFICES ASSUME PnlShapes, RefreshApplies
             PROVE  AmountMove /\ PricedKept
  OBVIOUS
<1>1. CASE /\ priced.kind \in LegacyKinds
           /\ priced' = Backfilled(priced, Worth(refresh.read.raws), TRUE, {})
  BY <1>1, LegacyAmount DEF Backfilled
<1>2. CASE priced.kind = "code" /\ priced' = CodeApplied(refresh.read, "initial")
  <2>1. refresh.read.raws \subseteq Raws /\ UNCHANGED exitRows
    BY DEF PnlShapes, RefreshApplies
  <2>2. QED
    BY <1>2, <2>1, CodeAmount
<1>3. QED
  BY <1>1, <1>2 DEF RefreshApplies

LEMMA SweepAmount ==
  ASSUME PnlShapes, NEW s \in Sweepers,
         SweepStores(s) \/ SweepCorrects(s) \/ SweepAppliesCode(s)
  PROVE  AmountMove /\ PricedKept
<1>1. SweepFits(sweep[s])
  BY DEF PnlShapes
<1>2. CASE SweepStores(s)
  <2>1. CASE UNCHANGED priced
    BY <2>1, SameAmount
  <2>2. CASE priced' = Marked(priced, sweep[s].read.raws, FALSE, exitRows')
    <3>1. exitRows' \subseteq Raws
      BY <1>1, <1>2 DEF SweepStores, SweepFits, PnlShapes
    <3>2. QED
      BY <1>1, <2>2, <3>1, MarkedAmount DEF SweepFits
  <2>3. QED
    BY <1>2, <2>1, <2>2 DEF SweepStores
<1>3. CASE SweepCorrects(s)
  BY <1>3, LegacyAmount DEF SweepCorrects, Backfilled, Resynced
<1>4. CASE SweepAppliesCode(s)
  BY <1>1, <1>4, CodeAmount DEF SweepAppliesCode, SweepAt, SweepFits
<1>5. QED
  BY <1>2, <1>3, <1>4

LEMMA AmountMoves ==
  PnlShapes /\ PnlNext => AmountMove /\ PricedKept
<1> SUFFICES ASSUME PnlShapes, PnlNext
             PROVE  AmountMove /\ PricedKept
  OBVIOUS
<1>1. CASE RecordFill \/ NativeObserved
  BY <1>1, RowSteps
<1>2. CASE RefreshApplies
  BY <1>2, RefreshAmount
<1>3. CASE \E s \in Sweepers : SweepStores(s) \/ SweepCorrects(s) \/ SweepAppliesCode(s)
  BY <1>3, SweepAmount
<1>4. CASE UNCHANGED priced
  BY <1>4, SameAmount
<1>5. CASE \/ Publish \/ WindowPasses \/ MeasureReversal
           \/ RefreshFindsLegacy \/ RefreshFindsCode \/ RefreshFails
  BY <1>4, <1>5 DEF Publish, WindowPasses, MeasureReversal,
     RefreshFindsLegacy, RefreshFindsCode, RefreshFails
<1>6. CASE \E s \in Sweepers : \/ SweepFetches(s) \/ SweepMatches(s) \/ SweepLists(s)
                               \/ SweepReadsCode(s) \/ SweepFails(s)
  BY <1>4, <1>6 DEF SweepFetches, SweepMatches, SweepLists, SweepReadsCode, SweepFails
<1>7. QED
  BY <1>1, <1>2, <1>3, <1>5, <1>6 DEF PnlNext, SweepStep

\* The lists and the task of the refresh.
LEMMA ReadsAreRaws ==
  PnlShapes => \A read \in CodeReads :
                 DOMAIN read = {"raws", "complete"} /\ read.raws \subseteq Raws
<1> SUFFICES ASSUME PnlShapes, NEW read \in CodeReads
             PROVE  DOMAIN read = {"raws", "complete"} /\ read.raws \subseteq Raws
  OBVIOUS
<1>1. InWindow \subseteq Raws
  BY DEF PnlShapes, InWindow
<1>2. \/ read = [raws |-> InWindow, complete |-> TRUE]
      \/ read \in [raws : SUBSET InWindow \ {{}}, complete : {FALSE}]
  BY DEF CodeReads
<1>3. CASE read = [raws |-> InWindow, complete |-> TRUE]
  BY <1>1, <1>3
<1>4. CASE read \in [raws : SUBSET InWindow \ {{}}, complete : {FALSE}]
  <2>1. DOMAIN read = {"raws", "complete"} /\ read.raws \in SUBSET InWindow \ {{}}
    BY <1>4
  <2>2. QED
    BY <1>1, <2>1
<1>5. QED
  BY <1>2, <1>3, <1>4

LEMMA ListsKept ==
  ASSUME PnlShapes, PnlNext
  PROVE  published' \subseteq Raws /\ listing' \subseteq Raws /\ exitRows' \subseteq Raws
<1>1. CASE Publish
  BY <1>1 DEF Publish, PnlShapes
<1>2. CASE \E s \in Sweepers : SweepStores(s)
  BY <1>2 DEF SweepStores, PnlShapes, SweepFits
<1>3. CASE UNCHANGED <<published, listing, exitRows>>
  BY <1>3 DEF PnlShapes
<1>4. CASE \/ WindowPasses \/ RecordFill \/ MeasureReversal \/ NativeObserved
           \/ RefreshFindsLegacy \/ RefreshFindsCode \/ RefreshApplies \/ RefreshFails
  BY <1>3, <1>4 DEF WindowPasses, RecordFill, MeasureReversal, NativeObserved,
     RefreshFindsLegacy, RefreshFindsCode, RefreshApplies, RefreshFails
<1>5. CASE \E s \in Sweepers :
             \/ SweepFetches(s) \/ SweepMatches(s) \/ SweepLists(s) \/ SweepCorrects(s)
             \/ SweepReadsCode(s) \/ SweepAppliesCode(s) \/ SweepFails(s)
  BY <1>3, <1>5 DEF SweepFetches, SweepMatches, SweepLists, SweepCorrects,
     SweepReadsCode, SweepAppliesCode, SweepFails
<1>6. QED
  BY <1>1, <1>2, <1>4, <1>5 DEF PnlNext, SweepStep

RefreshFits(t) == t.read.raws \subseteq Raws /\ DOMAIN t = {"pc", "read", "tries"}

LEMMA TriesFit ==
  RefreshFits(refresh) => RefreshFits(TriedAgain) /\ RefreshFits(RefreshDone)
BY DEF RefreshFits, TriedAgain, RefreshDone, NoRead

LEMMA RefreshKept ==
  ASSUME PnlShapes, PnlNext
  PROVE  RefreshFits(refresh')
<1>1. RefreshFits(refresh)
  BY DEF PnlShapes, RefreshFits
<1>2. CASE refresh' \in {refresh, TriedAgain, RefreshDone}
  BY <1>1, <1>2, TriesFit
<1>3. CASE RecordFill \/ MeasureReversal
  BY <1>1, <1>3 DEF RecordFill, MeasureReversal, RefreshFits
<1>4. CASE RefreshFindsLegacy
  <2>1. PICK raws \in SUBSET InWindow :
          \/ refresh' = [refresh EXCEPT !.pc = "read",
                                        !.read = [raws |-> raws, complete |-> TRUE]]
          \/ refresh' \in {TriedAgain, RefreshDone}
    BY <1>4 DEF RefreshFindsLegacy
  <2>2. raws \subseteq Raws
    BY DEF PnlShapes, InWindow
  <2>3. RefreshFits([refresh EXCEPT !.pc = "read",
                                    !.read = [raws |-> raws, complete |-> TRUE]])
    BY <1>1, <2>2 DEF RefreshFits
  <2>4. QED
    BY <1>2, <2>1, <2>3
<1>5. CASE RefreshFindsCode
  <2>1. PICK read \in CodeReads :
          refresh' = [refresh EXCEPT !.pc = "read", !.read = read]
    BY <1>5 DEF RefreshFindsCode
  <2>2. read.raws \subseteq Raws
    BY ReadsAreRaws
  <2>3. QED
    BY <1>1, <2>1, <2>2 DEF RefreshFits
<1>6. CASE RefreshApplies
  BY <1>2, <1>6 DEF RefreshApplies
<1>7. CASE RefreshFails
  <2>1. CASE refresh' = TriedAgain
    BY <1>2, <2>1
  <2>2. CASE refresh' = [refresh EXCEPT !.pc = "queued", !.read = NoRead]
    BY <1>1, <2>2 DEF RefreshFits, NoRead
  <2>3. QED
    BY <1>7, <2>1, <2>2 DEF RefreshFails
<1>8. CASE UNCHANGED refresh
  BY <1>2, <1>8
<1>9. CASE Publish \/ WindowPasses \/ NativeObserved
  BY <1>8, <1>9 DEF Publish, WindowPasses, NativeObserved
<1>10. CASE \E s \in Sweepers : SweepStep(s) \/ SweepFails(s)
  BY <1>8, <1>10 DEF SweepStep, SweepFetches, SweepMatches, SweepStores, SweepLists,
     SweepCorrects, SweepReadsCode, SweepAppliesCode, SweepFails
<1>11. QED
  BY <1>3, <1>4, <1>5, <1>6, <1>7, <1>9, <1>10 DEF PnlNext

\* A sweep moves itself alone.
LEMMA SweepMoves ==
  ASSUME PnlShapes, NEW s \in Sweepers, SweepStep(s) \/ SweepFails(s)
  PROVE  \E w : SweepFits(w) /\ sweep' = [sweep EXCEPT ![s] = w]
<1>1. SweepFits(sweep[s])
  BY DEF PnlShapes
<1>2. SweepFits(Resting)
  BY DEF SweepFits, Resting, NoRead
<1>3. CASE SweepFetches(s)
  <2>1. PICK raws \in SUBSET InWindow :
          sweep' = [sweep EXCEPT ![s].pc = "fetched", ![s].read.raws = raws]
    BY <1>3 DEF SweepFetches
  <2> DEFINE w == [sweep[s] EXCEPT !.pc = "fetched", !.read.raws = raws]
  <2>2. sweep' = [sweep EXCEPT ![s] = w]
    BY <2>1 DEF PnlShapes
  <2>3. raws \subseteq Raws
    BY DEF PnlShapes, InWindow
  <2>4. SweepFits(w)
    BY <1>1, <2>3 DEF SweepFits
  <2>5. QED
    BY <2>2, <2>4
<1>4. CASE SweepMatches(s)
  <2> DEFINE w == [sweep[s] EXCEPT !.pc = "matched",
                     !.matched = priced.recorded /\ sweep[s].read.raws # {}]
  <2>1. sweep' = [sweep EXCEPT ![s] = w]
    BY <1>4 DEF SweepMatches, PnlShapes
  <2>2. SweepFits(w)
    BY <1>1 DEF SweepFits
  <2>3. QED
    BY <2>1, <2>2
<1>5. CASE SweepStores(s)
  <2> DEFINE w == [Resting EXCEPT !.pc = "stored"]
  <2>1. SweepFits(w) /\ sweep' = [sweep EXCEPT ![s] = w]
    BY <1>5 DEF SweepStores, SweepFits, Resting, NoRead
  <2>2. QED
    BY <2>1
<1>6. CASE SweepLists(s)
  <2> DEFINE w == [Resting EXCEPT !.pc = "listed", !.sum = Worth(exitRows),
                                  !.mode = IF priced.synced THEN "resync" ELSE "initial"]
  <2>1. SweepFits(w)
    BY DEF SweepFits, Resting, NoRead
  <2>2. sweep' = [sweep EXCEPT ![s] = w] \/ sweep' = [sweep EXCEPT ![s] = Resting]
    BY <1>6 DEF SweepLists, SweepRests
  <2>3. QED
    BY <1>2, <2>1, <2>2
<1>7. CASE SweepReadsCode(s)
  <2>1. PICK read \in CodeReads : sweep' = [sweep EXCEPT ![s].pc = "read", ![s].read = read]
    BY <1>7 DEF SweepReadsCode
  <2> DEFINE w == [sweep[s] EXCEPT !.pc = "read", !.read = read]
  <2>2. sweep' = [sweep EXCEPT ![s] = w]
    BY <2>1 DEF PnlShapes
  <2>3. SweepFits(w)
    BY <1>1, <1>7, ReadsAreRaws DEF SweepFits, SweepReadsCode
  <2>4. QED
    BY <2>2, <2>3
<1>8. CASE SweepRests(s)
  BY <1>2, <1>8 DEF SweepRests
<1>9. QED
  BY <1>3, <1>4, <1>5, <1>6, <1>7, <1>8 DEF SweepStep, SweepCorrects, SweepAppliesCode, SweepFails

LEMMA SweepsKept ==
  ASSUME PnlShapes, PnlNext, priced'.kind = priced.kind
  PROVE  DOMAIN sweep' = Sweepers /\ \A s \in Sweepers : SweepFits(sweep[s])'
<1>1. CASE UNCHANGED sweep
  BY <1>1 DEF PnlShapes, SweepFits
<1>2. CASE \E s \in Sweepers : SweepStep(s) \/ SweepFails(s)
  <2>1. PICK s \in Sweepers : SweepStep(s) \/ SweepFails(s)
    BY <1>2
  <2>2. PICK w : SweepFits(w) /\ sweep' = [sweep EXCEPT ![s] = w]
    BY <2>1, SweepMoves
  <2>3. DOMAIN sweep' = Sweepers
    BY <2>2 DEF PnlShapes
  <2>4. ASSUME NEW t \in Sweepers
        PROVE  SweepFits(sweep[t])'
    <3>1. sweep'[t] = IF t = s THEN w ELSE sweep[t]
      BY <2>2 DEF PnlShapes
    <3>2. SweepFits(sweep'[t])
      BY <2>2, <3>1 DEF PnlShapes
    <3>3. QED
      BY <3>2 DEF SweepFits
  <2>5. QED
    BY <2>3, <2>4
<1>3. CASE ~\E s \in Sweepers : SweepStep(s) \/ SweepFails(s)
  BY <1>1, <1>3 DEF PnlNext, Publish, WindowPasses, RecordFill, MeasureReversal,
     NativeObserved, RefreshFindsLegacy, RefreshFindsCode, RefreshApplies, RefreshFails
<1>4. QED
  BY <1>2, <1>3

LEMMA PnlStart == PnlInit => PnlShapes
<1> SUFFICES ASSUME PnlInit
             PROVE  PnlShapes
  OBVIOUS
<1>1. /\ IsPriced(priced) /\ priced.evidence = {} /\ priced.observed = {}
  BY DEF PnlInit, IsPriced, PricedFields
<1>2. SweepFits(Resting)
  BY DEF SweepFits, Resting, NoRead
<1>3. QED
  BY <1>1, <1>2 DEF PnlInit, PnlShapes, NoRead

LEMMA PnlStepKeeps == PnlShapes /\ [PnlNext]_pnlVars => PnlShapes'
<1> SUFFICES ASSUME PnlShapes, PnlNext \/ UNCHANGED pnlVars
             PROVE  PnlShapes'
  OBVIOUS
<1>1. CASE PnlNext
  <2>1. PricedKept
    BY <1>1, AmountMoves
  <2>2. published' \subseteq Raws /\ listing' \subseteq Raws /\ exitRows' \subseteq Raws
    BY <1>1, ListsKept
  <2>3. RefreshFits(refresh')
    BY <1>1, RefreshKept
  <2>4. DOMAIN sweep' = Sweepers /\ \A s \in Sweepers : SweepFits(sweep[s])'
    BY <1>1, <2>1, SweepsKept DEF PricedKept
  <2>5. QED
    BY <2>1, <2>2, <2>3, <2>4 DEF PnlShapes, PricedKept, RefreshFits, IsPriced
<1>2. CASE UNCHANGED pnlVars
  BY <1>2 DEF pnlVars, PnlShapes, SweepFits, IsPriced
<1>3. QED
  BY <1>1, <1>2

\* The amount of a code order moves only to that of one fitting raw that is all
\* that is known of the order and that the row names; a conflict stays and
\* freezes it; a native child is priced once, by the stream
\* (CodePnlEvidenceService.apply and the three compare-and-swaps it ends in).
THEOREM AmountIsProven == PnlSpec => PnlProven
<1>1. PnlShapes /\ [PnlNext]_pnlVars => [AmountMove]_pnlVars
  BY AmountMoves
<1>2. QED
  BY <1>1, PnlStart, PnlStepKeeps, PTL DEF PnlSpec, PnlProven, AmountMove

-----------------------------------------------------------------------------
(***************************************************************************)
(* Every variable of the amount stays within its type.                     *)
(***************************************************************************)
\* A sum of amounts is an amount.
LEMMA WorthIsInt ==
  ASSUME NEW raws, raws \subseteq Raws
  PROVE  Worth(raws) \in Int
<1> DEFINE it == CHOOSE u : Chosen(Amount, raws, u)
<1>1. Worth(raws) = it[raws]
  BY DEF Worth, MapThenSumSet, MapThenFoldSet, Chosen, FirstOf
<1>2. IsFiniteSet(raws) /\ \A r \in raws : Amount[r] \in Int
  BY PnlAssumption, FS_Subset
<1>3. PICK t : Tally(Amount, raws, t)
  BY <1>2, TallyExists
<1>4. Chosen(Amount, raws, t)
  BY <1>3, TallyIsChosen
<1>5. Chosen(Amount, raws, it)
  BY <1>4
<1> HIDE DEF it
<1>6. it[raws] = t[raws]
  <2>1. raws \in SUBSET raws /\ \A r \in raws : Amount[r] = Amount[r]
    OBVIOUS
  <2>2. QED
    BY <1>2, <1>4, <1>5, <2>1, ChosenAgree
<1>7. QED
  BY <1>1, <1>3, <1>6 DEF Tally

\* A set of at most one raw.
AtMostOne(raws) == raws \subseteq Raws /\ Cardinality(raws) <= 1

LEMMA NoneIsAtMostOne == AtMostOne({})
BY FS_EmptySet DEF AtMostOne

LEMMA OneOrMany ==
  ASSUME NEW raws, raws \subseteq Raws
  PROVE  ~(Cardinality(raws) > 1) => AtMostOne(raws)
<1>1. Cardinality(raws) \in Nat
  BY FS_Subset, FS_CardinalityType, PnlAssumption
<1>2. QED
  BY <1>1 DEF AtMostOne

PricedTyped(o) ==
  /\ o \in [kind : Kinds, recorded : BOOLEAN, synced : BOOLEAN, pnl : Int,
            evidence : SUBSET Raws, observed : SUBSET Raws, conflict : BOOLEAN]
  /\ AtMostOne(o.evidence) /\ AtMostOne(o.observed)

LEMMA MarkedTyped ==
  ASSUME NEW o, PricedTyped(o), NEW raws \in SUBSET Raws, NEW invalid, NEW table \in SUBSET Raws
  PROVE  PricedTyped(Marked(o, raws, invalid, table))
<1> DEFINE known == raws \cup o.observed \cup o.evidence \cup table
<1>1. known \subseteq Raws
  BY DEF PricedTyped
<1>2. CASE o.kind # "code"
  BY <1>2 DEF Marked
<1>3. CASE o.kind = "code" /\ (Cardinality(known) > 1 \/ invalid)
  <2>1. Marked(o, raws, invalid, table) = [o EXCEPT !.conflict = TRUE]
    BY <1>3 DEF Marked
  <2>2. QED
    BY <2>1 DEF PricedTyped
<1>4. CASE o.kind = "code" /\ ~(Cardinality(known) > 1) /\ ~invalid
  <2>1. Marked(o, raws, invalid, table) = [o EXCEPT !.observed = known]
    BY <1>4 DEF Marked
  <2>2. AtMostOne(known)
    BY <1>1, <1>4, OneOrMany
  <2> HIDE DEF known
  <2>3. QED
    BY <1>1, <2>1, <2>2 DEF PricedTyped
<1>5. QED
  BY <1>2, <1>3, <1>4

\* An amount is written with a proof, if it may be.
LEMMA WrittenTyped ==
  ASSUME NEW o, PricedTyped(o), NEW allowed, NEW proof, AtMostOne(proof),
         NEW amount, allowed => amount \in Int
  PROVE  /\ PricedTyped(Backfilled(o, amount, allowed, proof))
         /\ PricedTyped(Resynced(o, amount, allowed, proof))
         /\ PricedTyped(Witnessed(o, amount, allowed, proof))
<1>1. proof \in SUBSET Raws
  BY DEF AtMostOne
<1>2. PricedTyped(Backfilled(o, amount, allowed, proof))
  BY <1>1 DEF PricedTyped, Backfilled
<1>3. PricedTyped(Resynced(o, amount, allowed, proof))
  BY <1>1 DEF PricedTyped, Resynced
<1>4. PricedTyped(Witnessed(o, amount, allowed, proof))
  BY <1>1 DEF PricedTyped, Witnessed
<1>5. QED
  BY <1>2, <1>3, <1>4

LEMMA CodeAppliedTyped ==
  ASSUME PricedTyped(priced), exitRows \subseteq Raws, NEW read, read.raws \subseteq Raws, NEW mode
  PROVE  PricedTyped(CodeApplied(read, mode))
<1> DEFINE proof  == Proof(read)
           invalid == ~(proof \subseteq Fitting)
           marked == Marked(priced, read.raws, invalid, exitRows)
           amount == Amount[CHOOSE r \in proof : TRUE]
           ok     == Proven(marked, proof)
           seen   == Witnessed(marked, amount, ok, proof)
<1>1. AtMostOne(proof)
  <2>1. CASE proof = {}
    BY <2>1, NoneIsAtMostOne
  <2>2. CASE proof # {}
    <3>1. proof = read.raws /\ Cardinality(read.raws) = 1
      BY <2>2 DEF Proof
    <3>2. QED
      BY <3>1 DEF AtMostOne
  <2>3. QED
    BY <2>1, <2>2
<1>2. PricedTyped(marked)
  <2> HIDE DEF invalid
  <2>1. QED
    BY MarkedTyped
<1>3. ok => amount \in Int
  <2>1. proof # {} => (CHOOSE r \in proof : TRUE) \in proof
    OBVIOUS
  <2>2. proof \subseteq Raws
    BY <1>1 DEF AtMostOne
  <2>3. QED
    BY <2>1, <2>2, PnlAssumption DEF Proven
<1>4. CodeApplied(read, mode)
        \in {Backfilled(seen, amount, ok, proof), Resynced(seen, amount, ok, proof)}
  BY DEF CodeApplied
<1> HIDE DEF proof, marked, amount, ok
<1>5. PricedTyped(seen)
  BY <1>1, <1>2, <1>3, WrittenTyped
<1> HIDE DEF seen
<1>6. QED
  BY <1>1, <1>3, <1>4, <1>5, WrittenTyped

-----------------------------------------------------------------------------
\* What a sweep has read, the list has shown.
SweepTyped(w) ==
  /\ w \in [pc : {"idle", "fetched", "matched", "stored", "listed", "read"},
            read : Reads, matched : BOOLEAN, mode : {"none", "initial", "resync"}, sum : Int]
  /\ w.read.raws \subseteq published

RefreshTyped(t) ==
  t \in [pc : {"none", "queued", "read", "done"}, read : Reads, tries : 0..MaxRefreshTries]

ListsTyped ==
  /\ listing \subseteq published /\ published \subseteq Raws /\ windowOpen \in BOOLEAN
  /\ exitRows \subseteq published

PnlTyped ==
  /\ PricedTyped(priced) /\ ListsTyped /\ RefreshTyped(refresh)
  /\ sweep = [s \in Sweepers |-> sweep[s]]
  /\ \A s \in Sweepers : SweepTyped(sweep[s])
  /\ pnlFaults \in 0..MaxPnlFaults

LEMMA PnlTypedIs == PnlTyped => PnlTypeOK
BY DEF PnlTyped, PricedTyped, ListsTyped, RefreshTyped, SweepTyped, AtMostOne, PnlTypeOK

LEMMA NoReadIs == NoRead \in Reads /\ NoRead.raws = {}
BY DEF NoRead, Reads

LEMMA RestingTyped == SweepTyped(Resting)
BY NoReadIs DEF SweepTyped, Resting

LEMMA PnlTypedStart == PnlInit => PnlTyped
<1> SUFFICES ASSUME PnlInit PROVE PnlTyped
  OBVIOUS
<1>1. PricedTyped(priced)
  <2>1. priced.evidence = {} /\ priced.observed = {}
    BY DEF PnlInit
  <2>2. priced \in [kind : Kinds, recorded : BOOLEAN, synced : BOOLEAN, pnl : Int,
                    evidence : SUBSET Raws, observed : SUBSET Raws, conflict : BOOLEAN]
    <3>1. CASE priced \in [kind : Kinds, recorded : {FALSE}, synced : {FALSE}, pnl : {0},
                           evidence : {{}}, observed : {{}}, conflict : {FALSE}]
      <4>1. PICK k \in Kinds :
              priced = [kind |-> k, recorded |-> FALSE, synced |-> FALSE, pnl |-> 0,
                        evidence |-> {}, observed |-> {}, conflict |-> FALSE]
        BY <3>1
      <4>2. QED
        BY <4>1
    <3>2. CASE priced \in [kind : {"code"}, recorded : {TRUE}, synced : {TRUE},
                           pnl : {Amount[r] : r \in Raws},
                           evidence : {{}}, observed : {{}}, conflict : {FALSE}]
      BY <3>2, PnlAssumption DEF Kinds
    <3>3. QED
      BY <3>1, <3>2 DEF PnlInit
  <2>3. QED
    BY <2>1, <2>2, NoneIsAtMostOne DEF PricedTyped
<1>2. RefreshTyped(refresh)
  BY NoReadIs, PnlAssumption DEF PnlInit, RefreshTyped
<1>3. QED
  BY <1>1, <1>2, RestingTyped, PnlAssumption DEF PnlInit, PnlTyped, ListsTyped

LEMMA ReadsTyped ==
  ASSUME ListsTyped
  PROVE  /\ InWindow \subseteq listing
         /\ \A read \in CodeReads : read \in Reads /\ read.raws \subseteq listing
<1>1. InWindow \subseteq listing
  BY DEF InWindow
<1>2. ASSUME NEW read \in CodeReads
      PROVE  read \in Reads /\ read.raws \subseteq listing
  <2>1. \/ read = [raws |-> InWindow, complete |-> TRUE]
        \/ read \in [raws : SUBSET InWindow \ {{}}, complete : {FALSE}]
    BY DEF CodeReads
  <2>2. PICK raws \in SUBSET InWindow, full \in BOOLEAN : read = [raws |-> raws, complete |-> full]
    <3>1. CASE read = [raws |-> InWindow, complete |-> TRUE]
      BY <3>1
    <3>2. CASE read \in [raws : SUBSET InWindow \ {{}}, complete : {FALSE}]
      <4>1. read = [raws |-> read.raws, complete |-> read.complete]
            /\ read.raws \in SUBSET InWindow /\ read.complete = FALSE
        BY <3>2
      <4>2. QED
        BY <4>1
    <3>3. QED
      BY <2>1, <3>1, <3>2
  <2>3. raws \subseteq listing /\ raws \subseteq Raws
    BY <1>1 DEF ListsTyped
  <2>4. QED
    BY <2>2, <2>3 DEF Reads
<1>3. QED
  BY <1>1, <1>2

LEMMA PricedStaysTyped == PnlTyped /\ PnlNext => PricedTyped(priced')
<1> SUFFICES ASSUME PnlTyped, PnlNext PROVE PricedTyped(priced')
  OBVIOUS
<1>1. /\ PricedTyped(priced) /\ ListsTyped /\ RefreshTyped(refresh)
      /\ \A s \in Sweepers : SweepTyped(sweep[s])
      /\ exitRows \subseteq Raws
  BY DEF PnlTyped, ListsTyped
<1>2. AtMostOne({})
  BY NoneIsAtMostOne
<1>3. CASE RecordFill
  <2>1. priced' = [priced EXCEPT !.recorded = TRUE]
    BY <1>3 DEF RecordFill
  <2>2. QED
    BY <1>1, <2>1 DEF PricedTyped
<1>4. CASE NativeObserved
  <2>1. priced' = [priced EXCEPT !.synced = TRUE, !.pnl = NativeAmount]
    BY <1>4 DEF NativeObserved
  <2>2. QED
    BY <1>1, <2>1, PnlAssumption DEF PricedTyped
<1>5. CASE RefreshApplies
  <2>1. refresh.read.raws \subseteq Raws
    BY <1>1 DEF RefreshTyped, Reads
  <2>2. Worth(refresh.read.raws) \in Int
    BY <2>1, WorthIsInt
  <2>3. PricedTyped(Backfilled(priced, Worth(refresh.read.raws), TRUE, {}))
    BY <1>1, <1>2, <2>2, WrittenTyped
  <2>4. PricedTyped(CodeApplied(refresh.read, "initial"))
    BY <1>1, <2>1, CodeAppliedTyped
  <2>5. QED
    BY <1>5, <2>3, <2>4 DEF RefreshApplies
<1>6. ASSUME NEW s \in Sweepers, SweepStores(s)
      PROVE  PricedTyped(priced')
  <2>1. sweep[s].read.raws \in SUBSET Raws /\ exitRows' \in SUBSET Raws
    BY <1>1, <1>6 DEF SweepTyped, ListsTyped, SweepStores
  <2>2. PricedTyped(Marked(priced, sweep[s].read.raws, FALSE, exitRows'))
    BY <1>1, <2>1, MarkedTyped
  <2>3. QED
    BY <1>1, <1>6, <2>2 DEF SweepStores
<1>7. ASSUME NEW s \in Sweepers, SweepCorrects(s)
      PROVE  PricedTyped(priced')
  <2>1. sweep[s].sum \in Int
    BY <1>1 DEF SweepTyped
  <2>2. /\ PricedTyped(Backfilled(priced, sweep[s].sum, TRUE, {}))
        /\ PricedTyped(Resynced(priced, sweep[s].sum, TRUE, {}))
    BY <1>1, <1>2, <2>1, WrittenTyped
  <2>3. QED
    BY <1>7, <2>2 DEF SweepCorrects
<1>8. ASSUME NEW s \in Sweepers, SweepAppliesCode(s)
      PROVE  PricedTyped(priced')
  <2>1. sweep[s].read.raws \subseteq Raws
    BY <1>1 DEF SweepTyped, ListsTyped
  <2>2. PricedTyped(CodeApplied(sweep[s].read, sweep[s].mode))
    BY <1>1, <2>1, CodeAppliedTyped
  <2>3. QED
    BY <1>8, <2>2 DEF SweepAppliesCode
<1>9. CASE \/ Publish \/ WindowPasses \/ MeasureReversal
           \/ RefreshFindsLegacy \/ RefreshFindsCode \/ RefreshFails
           \/ \E s \in Sweepers : \/ SweepFetches(s) \/ SweepMatches(s) \/ SweepLists(s)
                                  \/ SweepReadsCode(s) \/ SweepFails(s)
  <2>1. UNCHANGED priced
    BY <1>9 DEF Publish, WindowPasses, MeasureReversal, RefreshFindsLegacy, RefreshFindsCode,
       RefreshFails, SweepFetches, SweepMatches, SweepLists, SweepReadsCode, SweepFails
  <2>2. QED
    BY <1>1, <2>1
<1>10. QED
  BY <1>3, <1>4, <1>5, <1>6, <1>7, <1>8, <1>9 DEF PnlNext, SweepStep

LEMMA ListsStayTyped == PnlTyped /\ PnlNext => ListsTyped' /\ published \subseteq published'
<1> SUFFICES ASSUME PnlTyped, PnlNext PROVE ListsTyped' /\ published \subseteq published'
  OBVIOUS
<1>1. ListsTyped /\ \A s \in Sweepers : SweepTyped(sweep[s])
  BY DEF PnlTyped
<1>2. CASE Publish
  BY <1>1, <1>2 DEF Publish, ListsTyped
<1>3. CASE WindowPasses
  BY <1>1, <1>3 DEF WindowPasses, ListsTyped
<1>4. CASE \E s \in Sweepers : SweepStores(s)
  BY <1>1, <1>4 DEF SweepStores, ListsTyped, SweepTyped
<1>5. CASE \/ RecordFill \/ MeasureReversal \/ NativeObserved
           \/ RefreshFindsLegacy \/ RefreshFindsCode \/ RefreshApplies \/ RefreshFails
           \/ \E s \in Sweepers : \/ SweepFetches(s) \/ SweepMatches(s) \/ SweepLists(s)
                                  \/ SweepCorrects(s) \/ SweepReadsCode(s)
                                  \/ SweepAppliesCode(s) \/ SweepFails(s)
  <2>1. UNCHANGED <<published, listing, windowOpen, exitRows>>
    BY <1>5 DEF RecordFill, MeasureReversal, NativeObserved, RefreshFindsLegacy,
       RefreshFindsCode, RefreshApplies, RefreshFails, SweepFetches, SweepMatches, SweepLists,
       SweepCorrects, SweepReadsCode, SweepAppliesCode, SweepFails
  <2>2. QED
    BY <1>1, <2>1 DEF ListsTyped
<1>6. QED
  BY <1>2, <1>3, <1>4, <1>5 DEF PnlNext, SweepStep

LEMMA RefreshStaysTyped == PnlTyped /\ PnlNext => RefreshTyped(refresh')
<1> SUFFICES ASSUME PnlTyped, PnlNext PROVE RefreshTyped(refresh')
  OBVIOUS
<1>1. RefreshTyped(refresh) /\ ListsTyped
  BY DEF PnlTyped
<1>2. RefreshTyped(TriedAgain) /\ RefreshTyped(RefreshDone)
  <2>1. RefreshTyped(RefreshDone)
    BY <1>1, NoReadIs DEF RefreshTyped, RefreshDone
  <2>2. refresh.tries < MaxRefreshTries => refresh.tries + 1 \in 0..MaxRefreshTries
    BY <1>1, PnlAssumption DEF RefreshTyped
  <2>3. QED
    BY <2>1, <2>2, NoReadIs DEF RefreshTyped, TriedAgain, RefreshDone
<1>3. CASE RecordFill \/ MeasureReversal
  <2>1. refresh' \in {refresh, [refresh EXCEPT !.pc = "queued"]}
    BY <1>3 DEF RecordFill, MeasureReversal
  <2>2. QED
    BY <1>1, <2>1 DEF RefreshTyped
<1>4. CASE RefreshFindsLegacy
  <2>1. PICK raws \in SUBSET InWindow :
          refresh' \in {TriedAgain, RefreshDone,
                        [refresh EXCEPT !.pc = "read", !.read = [raws |-> raws, complete |-> TRUE]]}
    BY <1>4 DEF RefreshFindsLegacy
  <2>2. raws \subseteq Raws
    BY <1>1, ReadsTyped DEF ListsTyped
  <2>3. [raws |-> raws, complete |-> TRUE] \in Reads
    BY <2>2 DEF Reads
  <2>4. QED
    BY <1>1, <1>2, <2>1, <2>3 DEF RefreshTyped
<1>5. CASE RefreshFindsCode
  <2>1. PICK read \in CodeReads : refresh' = [refresh EXCEPT !.pc = "read", !.read = read]
    BY <1>5 DEF RefreshFindsCode
  <2>2. read \in Reads
    BY <1>1, ReadsTyped
  <2>3. QED
    BY <1>1, <2>1, <2>2 DEF RefreshTyped
<1>6. CASE RefreshApplies
  BY <1>2, <1>6 DEF RefreshApplies
<1>7. CASE RefreshFails
  <2>1. refresh' \in {TriedAgain, [refresh EXCEPT !.pc = "queued", !.read = NoRead]}
    BY <1>7 DEF RefreshFails
  <2>2. QED
    BY <1>1, <1>2, <2>1, NoReadIs DEF RefreshTyped
<1>8. CASE Publish \/ WindowPasses \/ NativeObserved
  BY <1>1, <1>8 DEF Publish, WindowPasses, NativeObserved
<1>9. CASE \E s \in Sweepers : SweepStep(s) \/ SweepFails(s)
  <2>1. UNCHANGED refresh
    BY <1>9 DEF SweepStep, SweepFetches, SweepMatches, SweepStores, SweepLists,
       SweepCorrects, SweepReadsCode, SweepAppliesCode, SweepFails
  <2>2. QED
    BY <1>1, <2>1
<1>10. QED
  BY <1>3, <1>4, <1>5, <1>6, <1>7, <1>8, <1>9 DEF PnlNext

\* A sweep moves itself alone.
LEMMA SweepGoesTyped ==
  ASSUME PnlTyped, NEW s \in Sweepers, SweepStep(s) \/ SweepFails(s)
  PROVE  \E w : SweepTyped(w) /\ sweep' = [sweep EXCEPT ![s] = w]
<1>1. /\ SweepTyped(sweep[s]) /\ ListsTyped /\ DOMAIN sweep = Sweepers
      /\ PricedTyped(priced)
  BY DEF PnlTyped
<1>2. SweepTyped(Resting)
  BY RestingTyped
<1>3. CASE SweepFetches(s)
  <2>1. PICK raws \in SUBSET InWindow :
          sweep' = [sweep EXCEPT ![s].pc = "fetched", ![s].read.raws = raws]
    BY <1>3 DEF SweepFetches
  <2> DEFINE w == [sweep[s] EXCEPT !.pc = "fetched", !.read.raws = raws]
  <2>2. sweep' = [sweep EXCEPT ![s] = w]
    BY <1>1, <2>1
  <2>3. raws \subseteq published /\ raws \subseteq Raws
    BY <1>1, ReadsTyped DEF ListsTyped
  <2>4. SweepTyped(w)
    <3> DEFINE read == [sweep[s].read EXCEPT !.raws = raws]
    <3>1. read \in Reads /\ read.raws = raws
      BY <1>1, <2>3 DEF SweepTyped, Reads
    <3>2. w = [sweep[s] EXCEPT !.pc = "fetched", !.read = read]
      BY <1>1 DEF SweepTyped
    <3> HIDE DEF w, read
    <3>3. QED
      BY <1>1, <2>3, <3>1, <3>2 DEF SweepTyped
  <2> HIDE DEF w
  <2>5. QED
    BY <2>2, <2>4
<1>4. CASE SweepMatches(s)
  <2> DEFINE some == priced.recorded /\ sweep[s].read.raws # {}
             w == [sweep[s] EXCEPT !.pc = "matched", !.matched = some]
  <2>1. sweep' = [sweep EXCEPT ![s] = w]
    BY <1>1, <1>4 DEF SweepMatches
  <2>2. some \in BOOLEAN
    BY <1>1 DEF PricedTyped
  <2> HIDE DEF some
  <2>3. SweepTyped(w)
    BY <1>1, <2>2 DEF SweepTyped
  <2> HIDE DEF w
  <2>4. QED
    BY <2>1, <2>3
<1>5. CASE SweepStores(s)
  <2> DEFINE w == [Resting EXCEPT !.pc = "stored"]
  <2>1. SweepTyped(w)
    BY <1>2 DEF SweepTyped
  <2>2. sweep' = [sweep EXCEPT ![s] = w]
    BY <1>5 DEF SweepStores
  <2>3. QED
    BY <2>1, <2>2
<1>6. CASE SweepLists(s)
  <2> DEFINE sum == Worth(exitRows)
             mode == IF priced.synced THEN "resync" ELSE "initial"
             w == [Resting EXCEPT !.pc = "listed", !.sum = sum, !.mode = mode]
  <2>1. sum \in Int
    BY <1>1, WorthIsInt DEF ListsTyped
  <2>2. mode \in {"resync", "initial"}
    OBVIOUS
  <2>3. sweep' = [sweep EXCEPT ![s] = w] \/ sweep' = [sweep EXCEPT ![s] = Resting]
    BY <1>6 DEF SweepLists, SweepRests
  <2> HIDE DEF sum, mode
  <2>4. SweepTyped(w)
    BY <2>1, <2>2, NoReadIs DEF SweepTyped, Resting
  <2> HIDE DEF w
  <2>5. QED
    BY <1>2, <2>3, <2>4
<1>7. CASE SweepReadsCode(s)
  <2>1. PICK read \in CodeReads : sweep' = [sweep EXCEPT ![s].pc = "read", ![s].read = read]
    BY <1>7 DEF SweepReadsCode
  <2> DEFINE w == [sweep[s] EXCEPT !.pc = "read", !.read = read]
  <2>2. sweep' = [sweep EXCEPT ![s] = w]
    BY <1>1, <2>1
  <2>3. read \in Reads /\ read.raws \subseteq published
    BY <1>1, ReadsTyped DEF ListsTyped
  <2>4. SweepTyped(w)
    BY <1>1, <2>3 DEF SweepTyped
  <2> HIDE DEF w
  <2>5. QED
    BY <2>2, <2>4
<1>8. CASE SweepRests(s)
  BY <1>2, <1>8 DEF SweepRests
<1>9. QED
  BY <1>3, <1>4, <1>5, <1>6, <1>7, <1>8
     DEF SweepStep, SweepCorrects, SweepAppliesCode, SweepFails

LEMMA SweepsStayTyped ==
  ASSUME PnlTyped, PnlNext, published \subseteq published'
  PROVE  sweep' = [s \in Sweepers |-> sweep'[s]] /\ \A s \in Sweepers : SweepTyped(sweep[s])'
<1>1. sweep = [s \in Sweepers |-> sweep[s]] /\ \A s \in Sweepers : SweepTyped(sweep[s])
  BY DEF PnlTyped
\* What the list has shown stays shown.
<1>2. ASSUME NEW s \in Sweepers, SweepTyped(sweep'[s])
      PROVE  SweepTyped(sweep[s])'
  BY <1>2 DEF SweepTyped
<1>3. CASE UNCHANGED sweep
  <2>1. \A s \in Sweepers : SweepTyped(sweep'[s])
    BY <1>1, <1>3
  <2>2. QED
    BY <1>1, <1>2, <1>3, <2>1
<1>4. CASE \E s \in Sweepers : SweepStep(s) \/ SweepFails(s)
  <2>1. PICK s \in Sweepers : SweepStep(s) \/ SweepFails(s)
    BY <1>4
  <2>2. PICK w : SweepTyped(w) /\ sweep' = [sweep EXCEPT ![s] = w]
    BY <2>1, SweepGoesTyped
  <2>3. \A t \in Sweepers : SweepTyped(sweep'[t])
    BY <1>1, <2>2
  <2>4. sweep' = [t \in Sweepers |-> sweep'[t]]
    BY <1>1, <2>2
  <2>5. QED
    BY <1>2, <2>3, <2>4
<1>5. CASE ~\E s \in Sweepers : SweepStep(s) \/ SweepFails(s)
  BY <1>3, <1>5 DEF PnlNext, Publish, WindowPasses, RecordFill, MeasureReversal,
     NativeObserved, RefreshFindsLegacy, RefreshFindsCode, RefreshApplies, RefreshFails
<1>6. QED
  BY <1>4, <1>5

LEMMA PnlFaultsKept == PnlTyped /\ PnlNext => pnlFaults' \in 0..MaxPnlFaults
<1> SUFFICES ASSUME PnlTyped, PnlNext PROVE pnlFaults' \in 0..MaxPnlFaults
  OBVIOUS
<1>1. PnlFault \/ UNCHANGED pnlFaults => pnlFaults' \in 0..MaxPnlFaults
  BY PnlAssumption DEF PnlTyped, PnlFault
<1>2. PnlFault \/ UNCHANGED pnlFaults
  <2>1. CASE \/ Publish \/ WindowPasses \/ RecordFill \/ MeasureReversal \/ NativeObserved
             \/ RefreshFindsLegacy \/ RefreshFindsCode \/ RefreshApplies \/ RefreshFails
    BY <2>1 DEF Publish, WindowPasses, RecordFill, MeasureReversal, NativeObserved,
       RefreshFindsLegacy, RefreshFindsCode, RefreshApplies, RefreshFails, ReadFault
  <2>2. CASE \E s \in Sweepers : SweepStep(s) \/ SweepFails(s)
    BY <2>2 DEF SweepStep, SweepFetches, SweepMatches, SweepStores, SweepLists,
       SweepCorrects, SweepReadsCode, SweepAppliesCode, SweepFails, ReadFault
  <2>3. QED
    BY <2>1, <2>2 DEF PnlNext
<1>3. QED
  BY <1>1, <1>2

LEMMA PnlTypedStep == PnlTyped /\ [PnlNext]_pnlVars => PnlTyped'
<1> SUFFICES ASSUME PnlTyped, [PnlNext]_pnlVars PROVE PnlTyped'
  OBVIOUS
<1>1. CASE PnlNext
  <2>1. PricedTyped(priced') /\ ListsTyped' /\ published \subseteq published'
    BY <1>1, PricedStaysTyped, ListsStayTyped
  <2>2. RefreshTyped(refresh') /\ pnlFaults' \in 0..MaxPnlFaults
    BY <1>1, RefreshStaysTyped, PnlFaultsKept
  <2>3. sweep' = [s \in Sweepers |-> sweep'[s]] /\ \A s \in Sweepers : SweepTyped(sweep[s])'
    BY <1>1, <2>1, SweepsStayTyped
  <2>4. QED
    BY <2>1, <2>2, <2>3 DEF PnlTyped, PricedTyped, RefreshTyped
<1>2. CASE UNCHANGED pnlVars
  BY <1>2 DEF pnlVars, PnlTyped, PricedTyped, ListsTyped, RefreshTyped, SweepTyped
<1>3. QED
  BY <1>1, <1>2

\* The row of an order names one raw at most as its evidence and one as what was
\* seen, the table holds what the list has shown, and all variables of the amount
\* stay within their types.
THEOREM PnlTypes == PnlSpec => []PnlTypeOK
<1>1. QED
  BY PnlTypedStart, PnlTypedStep, PnlTypedIs, PTL DEF PnlSpec

-----------------------------------------------------------------------------
(***************************************************************************)
(* The trailing stop of an entry: the inductive invariant.                 *)
(***************************************************************************)
TaskFields == {"pc", "tries", "due", "saw", "stamped", "outcome"}
Sent == trailTask.pc \in {"queued", "looked", "ended"}

\* A task that goes on to set the stop has found a position that was not opened
\* after the recorded fill, or that the exchange gave no time of; and it was due.
LookedIsOwn ==
  trailTask.pc = "looked" =>
    /\ trailTask.due <= tick
    /\ trailTask.stamped => trailTask.saw.since <= trailFilledAt + Tolerance

\* The position of the entry is there from the start, and its fill is recorded no
\* earlier than the clocks allow.
EntryIsFirst ==
  /\ netPosition.of = "entry" => netPosition.side = "same" /\ netPosition.since = 0
  /\ trailTask.pc = "none" => trailTask.tries = 0
  /\ trailTask.pc # "none" => trailFilledAt >= -Skew

\* The delays add up: by the last look for a position the lag is over.
DelaysFit ==
  Sent =>
    /\ trailTask.tries <= FlatRetryLimit =>
         trailTask.due >= NotBeyond(Countdown + RetryDelay[trailTask.tries] - RetryDelay[0])
    /\ trailTask.tries >= FlatRetryLimit => trailTask.due >= Lag

\* OwnIsTrailed, of a state.
EndIsTrailed ==
  trailTask.pc = "ended" /\ netPosition.of = "entry" =>
    netPosition.trail \/ trailTask.outcome \in {"alerted", "unsupported"}

TrailInv ==
  /\ TrailTypeOK /\ DOMAIN trailTask = TaskFields
  /\ LookedIsOwn /\ EntryIsFirst /\ DelaysFit /\ EndIsTrailed

-----------------------------------------------------------------------------
LEMMA TrailConstants ==
  /\ Countdown \in Nat /\ MaxRetries \in Nat /\ FlatRetryLimit \in Nat /\ Tolerance \in Nat
  /\ Skew \in Nat /\ Lag \in Nat /\ LastTick \in Nat /\ LastRecord \in Nat
  /\ MaxTrailFaults \in Nat
  /\ Skew <= Tolerance /\ FlatRetryLimit < MaxRetries /\ Lag <= LastTick
  /\ \A k \in 0..MaxRetries : RetryDelay[k] \in Nat
  /\ \A k \in 0..(MaxRetries - 1) : RetryDelay[k + 1] = 2 * RetryDelay[k]
  /\ Lag <= Countdown + RetryDelay[FlatRetryLimit] - RetryDelay[0]
BY TrailAssumption

LEMMA NotBeyondIs ==
  ASSUME NEW t \in Nat
  PROVE  /\ NotBeyond(t) \in 0..LastTick
         /\ NotBeyond(t) = t \/ (NotBeyond(t) = LastTick /\ t >= LastTick)
BY TrailConstants DEF NotBeyond

LEMMA PositionIs ==
  TrailTypeOK =>
    /\ DOMAIN netPosition = {"of", "side", "since", "trail"}
    /\ netPosition.since \in Int /\ netPosition.trail \in BOOLEAN
    /\ netPosition # NoPosition <=> netPosition.of \in {"entry", "other"}
<1> SUFFICES ASSUME TrailTypeOK
             PROVE  /\ DOMAIN netPosition = {"of", "side", "since", "trail"}
                    /\ netPosition.since \in Int /\ netPosition.trail \in BOOLEAN
                    /\ netPosition # NoPosition <=> netPosition.of \in {"entry", "other"}
  OBVIOUS
<1>1. CASE netPosition = NoPosition
  BY <1>1 DEF NoPosition
<1>2. CASE netPosition \in [of : {"entry", "other"}, side : {"same", "opposite"},
                            since : 0..LastTick, trail : BOOLEAN]
  <2>1. /\ DOMAIN netPosition = {"of", "side", "since", "trail"}
        /\ netPosition.of \in {"entry", "other"} /\ netPosition.since \in 0..LastTick
        /\ netPosition.trail \in BOOLEAN
    BY <1>2
  <2>2. NoPosition.of = "none"
    BY DEF NoPosition
  <2>3. QED
    BY <2>1, <2>2, TrailConstants
<1>3. QED
  BY <1>1, <1>2 DEF TrailTypeOK

LEMMA TrailStart == TrailInit => TrailInv
BY TrailConstants DEF TrailInit, TrailInv, TrailTypeOK, LookedIsOwn, EntryIsFirst, DelaysFit,
   EndIsTrailed, TaskFields, Sent, Opened, NoPosition, Never, Intents, Outcomes

\* What a retry makes of the task.
LEMMA RetriedIs ==
  ASSUME TrailInv, Sent, trailTask.due <= tick, trailTask.tries < MaxRetries
  PROVE  LET r == Retried(trailTask)
         IN  /\ DOMAIN r = TaskFields /\ r.pc = "queued" /\ r.outcome = trailTask.outcome
             /\ r.tries = trailTask.tries + 1 /\ r.due \in 0..LastTick
             /\ r.tries <= FlatRetryLimit =>
                  r.due >= NotBeyond(Countdown + RetryDelay[r.tries] - RetryDelay[0])
             /\ r.tries >= FlatRetryLimit => r.due >= Lag
<1> DEFINE n == trailTask.tries
           r == Retried(trailTask)
<1>1. /\ DOMAIN r = TaskFields /\ r.pc = "queued" /\ r.outcome = trailTask.outcome
      /\ r.tries = n + 1 /\ r.due = NotBeyond(tick + RetryDelay[n])
  BY DEF TrailInv, TaskFields, Retried, AsIfNew
<1>2. /\ n \in 0..(MaxRetries - 1) /\ tick \in Nat /\ tick <= LastTick
      /\ trailTask.due \in Nat /\ RetryDelay[n] \in Nat /\ RetryDelay[0] \in Nat
      /\ RetryDelay[n + 1] = 2 * RetryDelay[n] /\ RetryDelay[n + 1] \in Nat
      /\ RetryDelay[FlatRetryLimit] \in Nat
  BY TrailConstants DEF TrailInv, TrailTypeOK
<1>3. /\ n <= FlatRetryLimit =>
           trailTask.due >= NotBeyond(Countdown + RetryDelay[n] - RetryDelay[0])
      /\ n >= FlatRetryLimit => trailTask.due >= Lag
  BY DEF TrailInv, DelaysFit
<1> HIDE DEF r, n
<1>4. r.due \in 0..LastTick
  BY <1>1, <1>2, NotBeyondIs
<1>5. n + 1 <= FlatRetryLimit => r.due >= NotBeyond(Countdown + RetryDelay[n + 1] - RetryDelay[0])
  BY <1>1, <1>2, <1>3, TrailConstants DEF NotBeyond
<1>6. n + 1 >= FlatRetryLimit => r.due >= Lag
  <2>1. CASE n >= FlatRetryLimit
    BY <1>1, <1>2, <1>3, <2>1, TrailConstants DEF NotBeyond
  <2>2. CASE n + 1 = FlatRetryLimit
    BY <1>1, <1>2, <1>3, <2>2, TrailConstants DEF NotBeyond
  <2>3. QED
    BY <1>2, <2>1, <2>2, TrailConstants
<1>7. QED
  BY <1>1, <1>4, <1>5, <1>6 DEF r, n

LEMMA EndedIs ==
  ASSUME TrailInv, NEW outcome
  PROVE  LET e == TrailEnded(trailTask, outcome)
         IN  /\ DOMAIN e = TaskFields /\ e.pc = "ended" /\ e.outcome = outcome
             /\ e.tries = trailTask.tries /\ e.due = trailTask.due
BY DEF TrailInv, TaskFields, TrailEnded, AsIfNew

\* An attempt is over; the stop may be on the position by now.
AttemptOver(outcomes) ==
  /\ Sent /\ trailTask.due <= tick
  /\ UNCHANGED <<tick, intent, trailFilledAt>> /\ trailFaults' \in 0..MaxTrailFaults
  /\ \/ UNCHANGED netPosition
     \/ netPosition # NoPosition /\ netPosition' = [netPosition EXCEPT !.trail = TRUE]
  /\ \/ trailTask.tries < MaxRetries /\ trailTask' = Retried(trailTask)
     \/ \E outcome \in outcomes : trailTask' = TrailEnded(trailTask, outcome)

\* Its ends tell what they left undone, or the position is not that of the entry.
LEMMA AttemptKeeps ==
  ASSUME TrailInv, NEW outcomes \in SUBSET Outcomes, AttemptOver(outcomes),
         netPosition'.of = "entry" =>
           netPosition'.trail \/ outcomes \subseteq {"alerted", "unsupported"}
  PROVE  TrailInv'
<1>1. /\ DOMAIN trailTask' = TaskFields
      /\ trailTask'.pc \in {"queued", "ended"} /\ trailTask'.tries \in 0..MaxRetries
      /\ trailTask'.due \in 0..LastTick /\ trailTask'.outcome \in Outcomes \cup {"none"}
      /\ trailTask'.pc = "ended" => trailTask'.outcome \in outcomes
      /\ trailTask'.tries <= FlatRetryLimit =>
           trailTask'.due >= NotBeyond(Countdown + RetryDelay[trailTask'.tries] - RetryDelay[0])
      /\ trailTask'.tries >= FlatRetryLimit => trailTask'.due >= Lag
  <2>1. CASE trailTask.tries < MaxRetries /\ trailTask' = Retried(trailTask)
    BY <2>1, RetriedIs, TrailConstants DEF AttemptOver, TrailInv, TrailTypeOK
  <2>2. CASE \E outcome \in outcomes : trailTask' = TrailEnded(trailTask, outcome)
    BY <2>2, EndedIs DEF AttemptOver, TrailInv, TrailTypeOK, DelaysFit
  <2>3. QED
    BY <2>1, <2>2 DEF AttemptOver
<1>2. /\ netPosition'.of = netPosition.of /\ netPosition'.side = netPosition.side
      /\ netPosition'.since = netPosition.since
      /\ netPosition' = NoPosition \/
         netPosition' \in [of : {"entry", "other"}, side : {"same", "opposite"},
                           since : 0..LastTick, trail : BOOLEAN]
  BY DEF AttemptOver, TrailInv, TrailTypeOK
<1>3. TrailTypeOK'
  BY <1>1, <1>2 DEF AttemptOver, TrailInv, TrailTypeOK
<1>4. EntryIsFirst'
  BY <1>1, <1>2 DEF AttemptOver, TrailInv, EntryIsFirst, Sent
<1>5. LookedIsOwn' /\ DelaysFit' /\ EndIsTrailed'
  BY <1>1, <1>2 DEF LookedIsOwn, DelaysFit, NotBeyond, EndIsTrailed
<1>6. QED
  BY <1>1, <1>3, <1>4, <1>5 DEF TrailInv

LEMMA ExchangeKeeps ==
  TrailInv /\ (Tick \/ PositionCloses \/ OtherOpens) => TrailInv' /\ OnOwnPosition
<1> SUFFICES ASSUME TrailInv, Tick \/ PositionCloses \/ OtherOpens
             PROVE  TrailInv' /\ OnOwnPosition
  OBVIOUS
<1>1. /\ UNCHANGED <<intent, trailFilledAt, trailTask, trailFaults>>
      /\ tick' \in 0..LastTick /\ tick <= tick'
  BY TrailConstants DEF Tick, PositionCloses, OtherOpens, TrailInv, TrailTypeOK
<1>2. \/ netPosition' = netPosition
      \/ netPosition' = NoPosition
      \/ \E side \in {"same", "opposite"} : netPosition' = Opened("other", side)
  BY DEF Tick, PositionCloses, OtherOpens
<1>3. \/ netPosition' = netPosition
      \/ netPosition'.of # "entry" /\ ~netPosition'.trail
  BY <1>2 DEF NoPosition, Opened
<1>4. TrailTypeOK'
  <2>1. ASSUME NEW side \in {"same", "opposite"}
        PROVE  Opened("other", side) \in [of : {"entry", "other"}, side : {"same", "opposite"},
                                         since : 0..LastTick, trail : BOOLEAN]
    BY DEF Opened, TrailInv, TrailTypeOK
  <2>2. QED
    BY <1>1, <1>2, <2>1 DEF TrailInv, TrailTypeOK
<1>5. LookedIsOwn' /\ EntryIsFirst' /\ DelaysFit' /\ EndIsTrailed'
  BY <1>1, <1>3, TrailConstants DEF TrailInv, TrailTypeOK, LookedIsOwn, EntryIsFirst, DelaysFit,
     EndIsTrailed, Sent, NotBeyond
<1>6. OnOwnPosition
  BY <1>3 DEF OnOwnPosition, SetNow
<1>7. QED
  BY <1>1, <1>4, <1>5, <1>6 DEF TrailInv

LEMMA FillKeeps ==
  TrailInv /\ TrailFill => TrailInv' /\ OnOwnPosition
<1> SUFFICES ASSUME TrailInv, TrailFill
             PROVE  TrailInv' /\ OnOwnPosition
  OBVIOUS
<1>1. /\ UNCHANGED <<tick, netPosition, intent>> /\ trailFaults' \in 0..MaxTrailFaults
      /\ tick \in 0..LastTick /\ tick <= LastRecord
  BY TrailConstants DEF TrailFill, TrailFault, TrailInv, TrailTypeOK
<1>2. /\ trailFilledAt' \in (-Skew)..(LastRecord + Skew) /\ trailFilledAt' >= -Skew
  BY <1>1, TrailConstants DEF TrailFill
<1>3. \/ trailTask' = [trailTask EXCEPT !.pc = "queued", !.due = NotBeyond(tick + Countdown)]
      \/ trailTask' = [trailTask EXCEPT !.pc = "lost"]
  BY DEF TrailFill
<1>4. /\ DOMAIN trailTask' = TaskFields /\ trailTask'.tries = 0
      /\ trailTask'.outcome = trailTask.outcome
      /\ \/ trailTask'.pc = "queued" /\ trailTask'.due = NotBeyond(tick + Countdown)
         \/ trailTask'.pc = "lost" /\ trailTask'.due = trailTask.due
  BY <1>3 DEF TrailFill, TrailInv, EntryIsFirst, TaskFields
<1>5. trailTask'.due \in 0..LastTick
  BY <1>1, <1>4, TrailConstants, NotBeyondIs DEF TrailInv, TrailTypeOK
<1>6. TrailTypeOK'
  BY <1>1, <1>2, <1>4, <1>5, TrailConstants DEF TrailInv, TrailTypeOK
<1>7. DelaysFit'
  <2>1. RetryDelay[0] \in Nat /\ RetryDelay[FlatRetryLimit] \in Nat
    BY TrailConstants
  <2>2. trailTask'.pc = "queued" => trailTask'.due >= NotBeyond(Countdown)
    BY <1>1, <1>4, TrailConstants DEF NotBeyond
  <2>3. trailTask'.pc = "queued" /\ FlatRetryLimit = 0 => trailTask'.due >= Lag
    BY <1>1, <1>4, <2>1, TrailConstants DEF NotBeyond
  <2>4. Countdown + RetryDelay[0] - RetryDelay[0] = Countdown
    BY <2>1, TrailConstants
  <2>5. QED
    BY <1>4, <2>2, <2>3, <2>4, TrailConstants DEF DelaysFit, Sent, NotBeyond
<1>8. LookedIsOwn' /\ EntryIsFirst' /\ EndIsTrailed'
  BY <1>1, <1>2, <1>4 DEF TrailInv, LookedIsOwn, EntryIsFirst, EndIsTrailed
<1>9. OnOwnPosition
  BY <1>1 DEF OnOwnPosition, SetNow
<1>10. QED
  BY <1>4, <1>6, <1>7, <1>8, <1>9 DEF TrailInv

\* The look: a task ends here when the position is not, or not to be seen as, that
\* of the entry; the lag is over by the look that concedes.
LEMMA LookKeeps ==
  TrailInv /\ TrailLook => TrailInv' /\ OnOwnPosition
<1> SUFFICES ASSUME TrailInv, TrailLook
             PROVE  TrailInv' /\ OnOwnPosition
  OBVIOUS
<1>1. /\ UNCHANGED <<tick, netPosition, intent, trailFilledAt, trailFaults>>
      /\ trailTask.pc = "queued" /\ trailTask.due <= tick
  BY DEF TrailLook, Due
<1>2. OnOwnPosition
  BY <1>1 DEF OnOwnPosition, SetNow
<1>3. ASSUME NEW outcome \in Outcomes, trailTask' = TrailEnded(trailTask, outcome),
             netPosition.of = "entry" => outcome \in {"alerted", "unsupported"}
      PROVE  TrailInv'
  <2>1. AttemptOver({outcome})
    BY <1>1, <1>3 DEF AttemptOver, Sent, TrailInv, TrailTypeOK
  <2>2. QED
    BY <1>1, <1>3, <2>1, AttemptKeeps
<1>4. CASE trailTask' = TrailEnded(trailTask, "unsupported")
  BY <1>2, <1>3, <1>4 DEF Outcomes
<1>5. CASE /\ netPosition = NoPosition \/ tick < netPosition.since + Lag
           /\ trailTask' = Unseen(trailTask)
  <2>1. CASE trailTask.tries < FlatRetryLimit
    <3>1. AttemptOver({})
      BY <1>1, <1>5, <2>1, TrailConstants DEF AttemptOver, Sent, TrailInv, TrailTypeOK, Unseen
    <3>2. QED
      BY <1>2, <3>1, AttemptKeeps
  <2>2. CASE ~(trailTask.tries < FlatRetryLimit)
    <3>1. trailTask.due >= Lag
      BY <1>1, <2>2, TrailConstants DEF TrailInv, TrailTypeOK, DelaysFit, Sent
    <3>2. netPosition.of # "entry"
      BY <1>1, <1>5, <3>1, TrailConstants DEF TrailInv, TrailTypeOK, EntryIsFirst, NoPosition
    <3>3. QED
      BY <1>2, <1>3, <1>5, <2>2, <3>2 DEF Unseen, Outcomes
  <2>3. QED
    BY <2>1, <2>2
<1>6. CASE netPosition.side # "same" /\ trailTask' = TrailEnded(trailTask, "mismatch")
  BY <1>2, <1>3, <1>6 DEF TrailInv, EntryIsFirst, Outcomes
<1>7. CASE /\ netPosition.since > trailFilledAt + Tolerance
           /\ trailTask' = TrailEnded(trailTask, "reopened")
  <2>1. netPosition.of # "entry"
    BY <1>1, <1>7, TrailConstants DEF TrailInv, TrailTypeOK, EntryIsFirst, Never
  <2>2. QED
    BY <1>2, <1>3, <1>7, <2>1 DEF Outcomes
<1>8. CASE \E stamped \in BOOLEAN :
             /\ netPosition # NoPosition /\ ~Reopened(netPosition, stamped)
             /\ trailTask' = [trailTask EXCEPT !.pc = "looked", !.saw = netPosition,
                                               !.stamped = stamped]
  <2>1. PICK stamped \in BOOLEAN :
             /\ ~Reopened(netPosition, stamped)
             /\ trailTask' = [trailTask EXCEPT !.pc = "looked", !.saw = netPosition,
                                               !.stamped = stamped]
    BY <1>8
  <2>2. /\ DOMAIN trailTask' = TaskFields /\ trailTask'.pc = "looked"
        /\ trailTask'.tries = trailTask.tries /\ trailTask'.due = trailTask.due
        /\ trailTask'.outcome = trailTask.outcome
        /\ trailTask'.saw = netPosition /\ trailTask'.stamped = stamped
    BY <2>1 DEF TrailInv, TaskFields
  <2>3. LookedIsOwn'
    <3>1. netPosition.since \in Int /\ trailFilledAt + Tolerance \in Int
      BY PositionIs, TrailConstants DEF TrailInv, TrailTypeOK, Never
    <3>2. stamped => netPosition.since <= trailFilledAt + Tolerance
      BY <2>1, <3>1 DEF Reopened
    <3>3. QED
      BY <1>1, <2>2, <3>2 DEF LookedIsOwn
  <2>4. TrailTypeOK'
    BY <1>1, <2>2 DEF TrailInv, TrailTypeOK
  <2>5. EntryIsFirst' /\ DelaysFit' /\ EndIsTrailed'
    BY <1>1, <2>2 DEF TrailInv, EntryIsFirst, DelaysFit, EndIsTrailed, Sent, NotBeyond
  <2>6. QED
    BY <1>2, <2>2, <2>3, <2>4, <2>5 DEF TrailInv
<1>9. QED
  BY <1>2, <1>4, <1>5, <1>6, <1>7, <1>8 DEF TrailLook, Reopened

\* The call, and what may go wrong with it.
LEMMA SetKeeps ==
  TrailInv /\ (TrailSet \/ TrailCallFails) => TrailInv' /\ OnOwnPosition
<1> SUFFICES ASSUME TrailInv, TrailSet \/ TrailCallFails
             PROVE  TrailInv' /\ OnOwnPosition
  OBVIOUS
<1>1. /\ UNCHANGED <<tick, intent, trailFilledAt>> /\ trailFaults' \in 0..MaxTrailFaults
      /\ trailTask.pc \in {"queued", "looked"} /\ trailTask.due <= tick
  BY TrailConstants DEF TrailSet, TrailCallFails, TrailFault, Due, TrailInv, TrailTypeOK,
     LookedIsOwn
<1>2. \/ UNCHANGED netPosition
      \/ /\ trailTask.pc = "looked" /\ netPosition # NoPosition
         /\ netPosition' = [netPosition EXCEPT !.trail = TRUE]
  BY DEF TrailSet, TrailCallFails
<1>3. OnOwnPosition
  BY <1>2 DEF OnOwnPosition, SetNow, TrailInv, LookedIsOwn
<1>4. PICK outcomes \in SUBSET Outcomes :
        /\ \/ trailTask.tries < MaxRetries /\ trailTask' = Retried(trailTask)
           \/ \E outcome \in outcomes : trailTask' = TrailEnded(trailTask, outcome)
        /\ \/ outcomes = {"alerted"}
           \/ netPosition' = NoPosition
           \/ netPosition # NoPosition /\ netPosition' = [netPosition EXCEPT !.trail = TRUE]
  <2>1. CASE TrailCallFails
    <3>1. \/ trailTask.tries < MaxRetries /\ trailTask' = Retried(trailTask)
          \/ trailTask' = TrailEnded(trailTask, "alerted")
      BY <2>1, TrailConstants DEF TrailCallFails, TaskFailed, TrailInv, TrailTypeOK
    <3>2. {"alerted"} \in SUBSET Outcomes
      BY DEF Outcomes
    <3>3. QED
      BY <3>1, <3>2
  <2>2. CASE TrailSet
    <3>1. \/ trailTask' = TrailEnded(trailTask, "alerted")
          \/ trailTask' = TrailEnded(trailTask, "zero") /\ netPosition' = NoPosition
          \/ /\ trailTask' = TrailEnded(trailTask, "placed") /\ netPosition # NoPosition
             /\ netPosition' = [netPosition EXCEPT !.trail = TRUE]
      BY <2>2 DEF TrailSet
    <3>2. {"alerted"} \in SUBSET Outcomes /\ {"zero"} \in SUBSET Outcomes
          /\ {"placed"} \in SUBSET Outcomes
      BY DEF Outcomes
    <3>3. QED
      BY <3>1, <3>2
  <2>3. QED
    BY <2>1, <2>2
<1>5. netPosition'.of = "entry" => netPosition'.trail \/ outcomes \subseteq {"alerted", "unsupported"}
  BY <1>4, PositionIs DEF NoPosition, TrailInv
<1>6. AttemptOver(outcomes)
  BY <1>1, <1>2, <1>4 DEF AttemptOver, Sent
<1>7. QED
  BY <1>3, <1>5, <1>6, AttemptKeeps

LEMMA RedeliveryKeeps ==
  TrailInv /\ TrailRedelivered => TrailInv' /\ OnOwnPosition
<1> SUFFICES ASSUME TrailInv, TrailRedelivered
             PROVE  TrailInv' /\ OnOwnPosition
  OBVIOUS
<1>1. /\ UNCHANGED <<tick, netPosition, intent, trailFilledAt>>
      /\ trailFaults' \in 0..MaxTrailFaults
  BY TrailConstants DEF TrailRedelivered, TrailFault, TrailInv, TrailTypeOK
<1>2. /\ DOMAIN trailTask' = TaskFields /\ trailTask'.pc = "queued"
      /\ trailTask'.tries = trailTask.tries /\ trailTask'.due = trailTask.due
      /\ trailTask'.outcome = "none" /\ Sent
  BY DEF TrailRedelivered, AsIfNew, TrailInv, TaskFields, Sent
<1>3. TrailTypeOK'
  BY <1>1, <1>2 DEF TrailInv, TrailTypeOK
<1>4. LookedIsOwn' /\ EntryIsFirst' /\ DelaysFit' /\ EndIsTrailed'
  BY <1>1, <1>2 DEF TrailInv, LookedIsOwn, EntryIsFirst, DelaysFit, EndIsTrailed, Sent, NotBeyond
<1>5. OnOwnPosition
  BY <1>1 DEF OnOwnPosition, SetNow
<1>6. QED
  BY <1>2, <1>3, <1>4, <1>5 DEF TrailInv

LEMMA TrailStepKeeps ==
  TrailInv /\ [TrailNext]_trailVars => TrailInv' /\ [OnOwnPosition]_trailVars
<1> SUFFICES ASSUME TrailInv, TrailNext \/ UNCHANGED trailVars
             PROVE  TrailInv' /\ (OnOwnPosition \/ UNCHANGED trailVars)
  OBVIOUS
<1>1. CASE TrailNext
  BY <1>1, ExchangeKeeps, FillKeeps, LookKeeps, SetKeeps, RedeliveryKeeps DEF TrailNext, TrailWork
<1>2. CASE UNCHANGED trailVars
  BY <1>2 DEF trailVars, TrailInv, TrailTypeOK, LookedIsOwn, EntryIsFirst, DelaysFit,
     EndIsTrailed, Sent, NotBeyond
<1>3. QED
  BY <1>1, <1>2

\* The variables of place_trailing_stop_task and of the position it watches stay
\* within their types.
THEOREM TrailTypes == TrailSpec => []TrailTypeOK
<1>1. TrailInv => TrailTypeOK
  BY DEF TrailInv
<1>2. QED
  BY <1>1, TrailStart, TrailStepKeeps, PTL DEF TrailSpec

\* The stop of an entry is set on the position of another one in no other case than
\* those that place_trailing_stop_task leaves open, and a task that ends has set it
\* on its own position, or told that it did not.
THEOREM TrailIsRight == TrailSpec => TrailFits
<1>1. TrailInv' => OwnIsTrailed
  BY DEF TrailInv, EndIsTrailed, OwnIsTrailed
<1>2. TrailInv /\ [TrailNext]_trailVars => [OnOwnPosition /\ OwnIsTrailed]_trailVars
  BY <1>1, TrailStepKeeps
<1>3. QED
  BY <1>2, TrailStart, TrailStepKeeps, PTL DEF TrailSpec, TrailFits

-----------------------------------------------------------------------------
\* The same of a behaviour that follows one of the three (MCRisk), which leaves the
\* variables of the others as they begin.
THEOREM TracedIsSafe ==
  TracedSpec => []EntryOnlyWhenFlat /\ PnlProven /\ TrailFits
<1>1. TracedInit => RiskInv /\ PnlShapes /\ TrailInv
  BY RiskStart, PnlStart, TrailStart DEF TracedInit
<1>2. [TracedNext]_tracedVars =>
        [RiskNext]_riskVars /\ [PnlNext]_pnlVars /\ [TrailNext]_trailVars
  BY DEF TracedNext, PositionTraced, AmountTraced, TrailTraced, tracedVars
<1>3. RiskInv => EntryOnlyWhenFlat
  BY DEF RiskInv
<1>4. PnlShapes /\ [PnlNext]_pnlVars => [AmountMove]_pnlVars
  BY AmountMoves
<1>5. TrailInv' => OwnIsTrailed
  BY DEF TrailInv, EndIsTrailed, OwnIsTrailed
<1>6. TrailInv /\ [TrailNext]_trailVars => [OnOwnPosition /\ OwnIsTrailed]_trailVars
  BY <1>5, TrailStepKeeps
<1>7. QED
  BY <1>1, <1>2, <1>3, <1>4, <1>6, RiskStepKeeps, PnlStepKeeps, TrailStepKeeps, PTL
     DEF TracedSpec, PnlProven, AmountMove, TrailFits

\* No quantity of the position goes below zero or beyond the entry, at most one raw
\* is the evidence of an amount, and every variable of the three stays within its
\* type, whichever of them a behaviour follows.
THEOREM TracedTypes == TracedSpec => []TracedTypeOK
<1>1. TracedInit => RiskTyped /\ PnlTyped /\ TrailInv
  BY RiskTypedStart, PnlTypedStart, TrailStart DEF TracedInit
<1>2. [TracedNext]_tracedVars =>
        [RiskNext]_riskVars /\ [PnlNext]_pnlVars /\ [TrailNext]_trailVars
  BY DEF TracedNext, PositionTraced, AmountTraced, TrailTraced, tracedVars
<1>3. RiskTyped /\ PnlTyped /\ TrailInv => TracedTypeOK
  BY RiskTypedIs, PnlTypedIs DEF TrailInv, TracedTypeOK
<1>4. QED
  BY <1>1, <1>2, <1>3, RiskTypedStep, PnlTypedStep, TrailStepKeeps, PTL DEF TracedSpec
=============================================================================
