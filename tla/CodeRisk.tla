------------------------------ MODULE CodeRisk ------------------------------
(***************************************************************************)
(* The position of one code_v1 session: the risk ledger (one row, compare  *)
(* and swap on its revision), the outbox of commands derived from it, the  *)
(* drains that carry commands out (stream events, the five second recovery *)
(* and evaluations run them at once; a lease lets one command run at a     *)
(* time) and the exchange, which fills, cancels and stops out on its own.  *)
(*                                                                         *)
(* A ledger handler reads and writes back under its revision; a loser of   *)
(* that race changes nothing and its caller comes again, so a handler is   *)
(* one step.  A drain is cut at every call to the exchange.  Quantities    *)
(* are small naturals; prices, R and the plan's numbers are left out, and  *)
(* so are other sessions of the account and the halt command, which only   *)
(* marks itself applied.  An order of the past generation is dropped: that *)
(* nothing of it is left is what EntryOnlyWhenFlat says.                   *)
(***************************************************************************)
EXTENDS Integers, FiniteSets, FiniteSetsExt

CONSTANTS
  Drains,          \* tasks that run CodeRiskExecutor.drain
  EntryUnits,      \* quantity of an entry, a multiple of two minimum units
  MaxGenerations,  \* bound: entries of the session
  MaxTokens,       \* bound: a price moves the stop while fewer tokens are out
  MaxRiskFaults    \* bound on all faults together

ASSUME RiskAssumption ==
  /\ EntryUnits \in Nat \ {0} /\ EntryUnits % 2 = 0
  /\ MaxGenerations \in Nat \ {0} /\ MaxTokens \in Nat /\ MaxRiskFaults \in Nat

VARIABLES
  riskLedger,    \* the LiveRiskState row
  riskOrders,    \* orders of this generation: our row and the exchange's state
  riskCommands,  \* code_risk_commands of this generation, by key
  drain,         \* drain[d]: where executor d is and what it has read
  sessionOn,     \* live_signal_sessions.is_active
  residue,       \* history: an entry was prepared while the venue was not clear
  riskFaults

riskVars == <<riskLedger, riskOrders, riskCommands, drain, sessionOn, residue, riskFaults>>

Entry == <<"entry">>
Tp == <<"tp">>
Sl == <<"sl">>
OrderRows == {"pending", "submitted", "ended"}
VenueEnds == {"done", "rejected"}
NoOrder == [row |-> "none", venue |-> "absent", want |-> 0, filled |-> 0]
NewOrder(n) == [row |-> "pending", venue |-> "absent", want |-> n, filled |-> 0]

FreshLedger(g) ==
  [generation |-> g, cumulative |-> 0, position |-> 0, tp |-> 0, terminal |-> FALSE,
   close |-> FALSE, reversal |-> FALSE, blocked |-> FALSE, reason |-> "none",
   unsettled |-> 0, confirmed |-> FALSE, desired |-> 0, desiredTp |-> 0, applied |-> 0,
   exits |-> [o \in {} |-> [qty |-> 0, owed |-> 0]]]

IdleDrain == [step |-> "idle", on |-> TRUE, seen |-> 0, cmd |-> <<>>,
              order |-> <<>>, terminal |-> FALSE]

-----------------------------------------------------------------------------
(* The exchange's side.                                                    *)

Children == DOMAIN riskOrders \ {Entry}
ChildFills == [o \in Children |-> riskOrders[o].filled]
VenuePosition == riskOrders[Entry].filled - SumFunction(ChildFills)
VenueClear == VenuePosition = 0 /\ \A o \in DOMAIN riskOrders : riskOrders[o].venue # "open"

-----------------------------------------------------------------------------
(* What the handlers of CodeRiskService do to the row.                     *)

HalfOf(n) == n \div 2
Fail(l, why) == [l EXCEPT !.blocked = TRUE, !.reason = why, !.close = TRUE, !.reversal = FALSE]
RequestClose(l) == [l EXCEPT !.close = TRUE, !.reversal = FALSE]
RequestReversal(l) == [l EXCEPT !.close = TRUE, !.reversal = TRUE]

\* _desire_protection: a new token; a half take-profit once the plan is final.
Desire(l) ==
  [l EXCEPT !.desired = @ + 1, !.confirmed = FALSE,
            !.desiredTp = IF ~l.terminal THEN 0
                          ELSE Min({l.position, Max({0, HalfOf(l.cumulative) - l.tp})})]

\* record_entry_fill: cumulative and monotone; a fill that cannot be halved
\* or comes after the end fails the session.
EntryFill(l, qty, ended) ==
  LET more == [l EXCEPT !.position = @ + qty - l.cumulative, !.cumulative = qty]
      next == [more EXCEPT !.terminal = @ \/ ended]
  IN  CASE qty < l.cumulative \/ (qty = l.cumulative /\ (~ended \/ l.terminal)) -> l
        [] l.terminal /\ qty > l.cumulative -> Fail(more, "other")
        [] OTHER ->
             IF next.terminal /\ qty > 0 /\ qty % 2 # 0 THEN Fail(next, "other")
             ELSE IF next.position > 0 THEN Desire(next) ELSE next

Booked(l, o) == IF o \in DOMAIN l.exits THEN l.exits[o] ELSE [qty |-> 0, owed |-> 0]
Book(l, o, fill) == [l EXCEPT !.exits = [p \in DOMAIN @ \cup {o} |-> IF p = o THEN fill ELSE @[p]]]
Exited(l) == FoldSet(LAMBDA o, n : n + l.exits[o].qty, 0, DOMAIN l.exits)

\* An exit that arrives after the row was set flat settles what that left
\* unexplained, and nothing more (record_exit_fill).
Settle(l, o, delta, ended) ==
  LET owed == l.exits[o].owed + delta
      credit == IF ended THEN Min({l.unsettled, owed}) ELSE 0
      rest == [Book(l, o, [l.exits[o] EXCEPT !.owed = owed - credit])
                 EXCEPT !.unsettled = @ - credit]
  IN  IF rest.unsettled = 0 /\ rest.reason = "unsettled"
        THEN [rest EXCEPT !.blocked = FALSE, !.reason = "none"]
        ELSE rest

ReducedBlindly(l, delta) == l.position - delta
Reduced(l, delta) == Max({0, l.position - delta})

ExitFill(l, o, qty, ended) ==
  LET prior == Booked(l, o)
      delta == qty - prior.qty
      late == l.position = 0 /\ l.terminal
      booked == [Book(l, o, [prior EXCEPT !.qty = qty]) EXCEPT
                   !.position = Reduced(l, delta),
                   !.tp = IF o = Tp THEN @ + delta ELSE @,
                   !.close = @ \/ o # Tp]
      next == IF late /\ l.unsettled > 0 THEN Settle(booked, o, delta, ended) ELSE booked
  IN  IF delta < 0 \/ (delta = 0 /\ ~(ended /\ prior.owed > 0)) THEN l
      ELSE IF \/ delta > l.position /\ ~late
              \/ Exited(booked) > l.cumulative
              \/ 2 * booked.tp > l.cumulative THEN Fail(booked, "other")
      ELSE IF next.position > 0 THEN Desire(next)
      ELSE IF ~late THEN [next EXCEPT !.confirmed = FALSE]
      ELSE next

\* confirm_flat_and_cancelled with flat = TRUE: a position the exchange no
\* longer has and no exit explains is kept as unsettled.
ConfirmFlat(l, cancelled, unexplained) ==
  LET gone == IF unexplained /\ l.position > 0
                THEN [RequestClose(l) EXCEPT
                        !.unsettled = @ + l.position, !.blocked = TRUE,
                        !.reason = IF @ = "none" THEN "unsettled" ELSE @]
                ELSE l
  IN  [gone EXCEPT !.position = 0, !.confirmed = cancelled /\ l.terminal]

\* _commands: what the row asks for now.
Wanted(l) ==
  (IF l.close /\ ~l.terminal THEN {<<"cancel_entry">>} ELSE {}) \cup
  CASE l.close /\ (l.position > 0 \/ ~l.terminal) ->
         {<<"flatten", l.cumulative, l.position, Cardinality(DOMAIN l.exits)>>}
    [] l.position > 0 /\ ~l.close ->
         IF l.desired # l.applied THEN {<<"apply_protection", l.desired>>} ELSE {}
    [] l.position = 0 /\ l.terminal ->
         IF ~l.confirmed THEN {<<"cancel_children">>}
         ELSE IF l.reversal /\ ~l.blocked THEN {<<"ready_reversal">>} ELSE {}
    [] OTHER -> IF l.cumulative = 0 /\ ~l.close THEN {<<"submit_entry">>} ELSE {}

\* A command is stored under its key once and for all.  A key the row can only
\* ask for once, or made of its counters, is left out when it asks for something
\* else: it does not come back, and a claim would supersede it.
Recurs(k) == k[1] \in {"cancel_children", "ready_reversal"}
Kept(commands, l) ==
  {k \in DOMAIN commands : Recurs(k) \/ commands[k].status = "running" \/ k \in Wanted(l)}
Enqueue(commands, l) ==
  [k \in Kept(commands, l) \cup Wanted(l) |->
     IF k \in DOMAIN commands THEN commands[k]
     ELSE [status |-> "pending",
           qty |-> IF k[1] = "apply_protection" THEN l.desiredTp
                   ELSE IF l.terminal THEN l.position ELSE Max({l.position, EntryUnits})]]

Save(l, commands) == riskLedger' = l /\ riskCommands' = Enqueue(commands, riskLedger')

-----------------------------------------------------------------------------
(* Observations of an order, by the stream or by REST.                     *)

Ended(o) == riskOrders[o].venue \in VenueEnds

Observed(l, o, rest) ==
  LET order == riskOrders[o]
      filled == ExitFill(l, o, order.filled, Ended(o))
  IN  IF o = Entry THEN EntryFill(l, order.filled, Ended(o))
      ELSE IF rest /\ o = Tp /\ Ended(o) /\ order.filled < order.want
              /\ filled.position > 0 /\ ~filled.close THEN Fail(filled, "other")
      ELSE IF rest /\ o \notin {Tp, Sl} /\ Ended(o) /\ order.filled = 0
              /\ o \notin DOMAIN l.exits THEN Book(l, o, [qty |-> 0, owed |-> 0])
      ELSE filled

ObservedRow(o) == [riskOrders[o] EXCEPT !.row = IF Ended(o) THEN "ended" ELSE @]

\* A stop of the exchange's own is bound to its parent entry, once that has
\* ended in the ledger; before, the session is told to close.
CanBind(l) == l.terminal /\ 0 < l.cumulative /\ riskOrders[Sl].filled <= l.cumulative
SeesStop(l) ==
  IF riskOrders[Sl].filled = 0 THEN l
  ELSE IF CanBind(l) THEN Observed(l, Sl, TRUE) ELSE RequestClose(l)
StopRow(l) ==
  [riskOrders EXCEPT ![Sl].row = IF riskOrders[Sl].filled > 0 /\ CanBind(l) THEN "ended" ELSE @]

Observable(o) == o # Sl /\ riskOrders[o].row # "pending" /\ riskOrders[o].venue # "absent"

\* handle_order_event of the private stream.
StreamSees(o) ==
  /\ Observable(o)
  /\ Save(Observed(riskLedger, o, FALSE), riskCommands)
  /\ riskOrders' = [riskOrders EXCEPT ![o] = ObservedRow(o)]
  /\ UNCHANGED <<drain, sessionOn, residue, riskFaults>>

StreamSeesStop ==
  /\ riskOrders[Sl].filled > 0
  /\ Save(SeesStop(riskLedger), riskCommands)
  /\ riskOrders' = StopRow(riskLedger)
  /\ UNCHANGED <<drain, sessionOn, residue, riskFaults>>

-----------------------------------------------------------------------------
(* The exchange acts on its own.                                           *)

VenueStep(orders) ==
  /\ riskOrders' = orders
  /\ UNCHANGED <<riskLedger, riskCommands, drain, sessionOn, residue>>
RiskFault == riskFaults > 0 /\ riskFaults' = riskFaults - 1
Ends(o, filled) == [riskOrders EXCEPT ![o].venue = "done", ![o].filled = filled]

\* A market entry ends with its fill: all of it or, as a fault, less.
EntryFills ==
  /\ riskOrders[Entry].venue = "open"
  /\ \E n \in 0..riskOrders[Entry].want :
       /\ VenueStep(Ends(Entry, n))
       /\ IF n = riskOrders[Entry].want THEN UNCHANGED riskFaults ELSE RiskFault

\* A reduce-only market order closes what is there, or less of it.
CloseFills(o) ==
  /\ o \notin {Entry, Tp, Sl} /\ riskOrders[o].venue = "open"
  /\ \E n \in 0..Min({riskOrders[o].want, VenuePosition}) :
       /\ VenueStep(Ends(o, n))
       /\ IF n = Min({riskOrders[o].want, VenuePosition})
            THEN UNCHANGED riskFaults ELSE RiskFault

TpFills ==
  /\ Tp \in Children /\ riskOrders[Tp].venue = "open" /\ VenuePosition >= riskOrders[Tp].want
  /\ VenueStep(Ends(Tp, riskOrders[Tp].want))
  /\ UNCHANGED riskFaults

\* The exchange drops a take-profit that has nothing left to close, or as a
\* fault one that has.
TpDropped ==
  /\ Tp \in Children /\ riskOrders[Tp].venue = "open"
  /\ VenueStep(Ends(Tp, 0))
  /\ IF VenuePosition = 0 THEN UNCHANGED riskFaults ELSE RiskFault

\* The attached stop closes all that is open, after a market entry has ended.
StopTriggers ==
  /\ riskOrders[Sl].venue = "absent" /\ VenuePosition > 0 /\ Ended(Entry)
  /\ VenueStep(Ends(Sl, VenuePosition))
  /\ UNCHANGED riskFaults

-----------------------------------------------------------------------------
(* The drain.                                                              *)

DrainAt(d, s) == drain[d].step = s
DrainGo(d, s) == drain' = [drain EXCEPT ![d].step = s]
DrainFor(d, s, o) == drain' = [drain EXCEPT ![d].step = s, ![d].order = o]
EndDrain(d) == drain' = [drain EXCEPT ![d] = IdleDrain]
Loop(d) == drain' = [drain EXCEPT ![d] = [IdleDrain EXCEPT !.step = "loop", !.on = drain[d].on]]
Mine(d) == drain[d].cmd
Finished(d, status) == [riskCommands EXCEPT ![Mine(d)].status = status]

\* reconcile, first part: every order that was sent is asked for by its id and
\* the answer applied; the position is fetched when none brings news.
News(o) ==
  Observable(o) /\ (Observed(riskLedger, o, TRUE) # riskLedger \/ ObservedRow(o) # riskOrders[o])
SyncOrder(d, o) ==
  /\ DrainAt(d, "idle") /\ News(o)
  /\ Save(Observed(riskLedger, o, TRUE), riskCommands)
  /\ riskOrders' = [riskOrders EXCEPT ![o] = ObservedRow(o)]
  /\ UNCHANGED <<drain, sessionOn, residue, riskFaults>>

\* Second part: the position, of which the next step judges an old copy.
FetchVenue(d) ==
  /\ DrainAt(d, "idle") /\ \A o \in DOMAIN riskOrders : ~News(o)
  /\ drain' = [drain EXCEPT ![d] = [IdleDrain EXCEPT !.step = "fetched", !.on = sessionOn,
                                                     !.seen = VenuePosition]]
  /\ UNCHANGED <<riskLedger, riskOrders, riskCommands, sessionOn, residue, riskFaults>>

\* A difference makes it look for stops of the exchange first; a search that
\* fails is passed over.  A position smaller than the ledger's ends the drain.
JudgePosition(d) ==
  /\ DrainAt(d, "fetched")
  /\ LET seen == drain[d].seen
         differs == riskLedger.unsettled > 0 \/ seen # riskLedger.position
         stopped == differs /\ riskOrders[Sl].filled > 0
     IN  \E found \in {stopped, FALSE} :
           LET l == IF found THEN SeesStop(riskLedger) ELSE riskLedger
           IN  /\ riskOrders' = IF found THEN StopRow(riskLedger) ELSE riskOrders
               /\ IF found = stopped THEN UNCHANGED riskFaults ELSE RiskFault
               /\ IF l.terminal /\ l.position > seen /\ seen > 0
                    THEN Save(l, riskCommands) /\ EndDrain(d)
                    ELSE /\ Loop(d)
                         /\ Save(IF ~l.terminal \/ l.position \in {0, seen} THEN l
                                 ELSE IF seen = 0 THEN ConfirmFlat(l, FALSE, TRUE)
                                 ELSE Fail(l, "other"), riskCommands)
  /\ UNCHANGED <<sessionOn, residue>>

\* claim_command: one running command per session, reductions first.
Running == {k \in DOMAIN riskCommands : riskCommands[k].status = "running"}
Pending == {k \in DOMAIN riskCommands : riskCommands[k].status = "pending"}
Rank(k) == CASE k[1] = "flatten" -> 0 [] k[1] = "cancel_entry" -> 1 [] OTHER -> 2
Claimables == IF Running # {} THEN {} ELSE {k \in Pending : \A j \in Pending : Rank(k) <= Rank(j)}

NothingToClaim(d) ==
  /\ DrainAt(d, "loop") /\ Claimables = {}
  /\ EndDrain(d)
  /\ UNCHANGED <<riskLedger, riskOrders, riskCommands, sessionOn, residue, riskFaults>>

\* A command the row does not ask for any more is superseded.
ClaimCommand(d, k) ==
  /\ DrainAt(d, "loop") /\ k \in Claimables
  /\ IF k \notin Wanted(riskLedger)
       THEN /\ riskCommands' = [riskCommands EXCEPT ![k].status = "superseded"]
            /\ UNCHANGED drain
       ELSE /\ riskCommands' = [riskCommands EXCEPT ![k].status = "running"]
            /\ drain' = [drain EXCEPT ![d].step = "run", ![d].cmd = k,
                           ![d].seen = IF k[1] = "apply_protection" THEN riskLedger.position ELSE 0,
                           ![d].terminal = k[1] = "apply_protection" /\ riskLedger.terminal]
  /\ UNCHANGED <<riskLedger, riskOrders, sessionOn, residue, riskFaults>>

\* The end of a command: applied; CodeRiskReconciliationPending, which waits
\* for the next drain; any other exception, which fails protection and entry for
\* good and leaves the rest pending.
Applied(d, l) == Save(l, Finished(d, "applied")) /\ Loop(d)
Retry(d, l) == Save(l, Finished(d, "pending")) /\ EndDrain(d)
FailedForGood(d, l) == Save(l, Finished(d, "failed")) /\ Loop(d)
Failed(d, l) ==
  CASE Mine(d)[1] = "apply_protection" ->
         /\ Save(IF l.desired = Mine(d)[2] THEN Fail(l, "other") ELSE l, Finished(d, "failed"))
         /\ Loop(d)
    [] Mine(d)[1] \in {"submit_entry", "ready_reversal"} ->
         Save(Fail(l, "other"), Finished(d, "failed")) /\ EndDrain(d)
    [] OTHER -> Retry(d, l)

Doing(d, kind) == DrainAt(d, "run") /\ Mine(d)[1] = kind
Acknowledged(l, token) == IF l.desired = token THEN [l EXCEPT !.applied = token] ELSE l
EndOf(d, l) ==
  IF Mine(d)[1] = "apply_protection" THEN Acknowledged(l, Mine(d)[2]) ELSE l

\* _submit: look for the id first; if it is not there, mark the row and commit.
Submit(d, o) ==
  IF riskOrders[o].venue # "absent"
    THEN /\ DrainFor(d, "sent", o)
         /\ UNCHANGED <<riskLedger, riskOrders, riskCommands>>
  ELSE IF riskOrders[o].row = "ended"
    THEN Applied(d, EndOf(d, riskLedger)) /\ UNCHANGED riskOrders
  ELSE /\ DrainFor(d, "create", o)
       /\ riskOrders' = [riskOrders EXCEPT ![o].row = "submitted"]
       /\ UNCHANGED <<riskLedger, riskCommands>>

WithChild(o, n) ==
  IF o \in DOMAIN riskOrders THEN riskOrders
  ELSE [p \in DOMAIN riskOrders \cup {o} |-> IF p = o THEN NewOrder(n) ELSE riskOrders[p]]
SaveChild(d, o, n) == riskOrders' = WithChild(o, n) /\ DrainFor(d, "child", o)

\* An entry or a reversal of a session that was off when the drain began fails.
RunSubmit(d) ==
  /\ Doing(d, "submit_entry")
  /\ IF drain[d].on THEN Submit(d, Entry)
     ELSE Failed(d, riskLedger) /\ UNCHANGED riskOrders
  /\ UNCHANGED <<sessionOn, residue, riskFaults>>

RunReversal(d) ==
  /\ Doing(d, "ready_reversal")
  /\ IF drain[d].on THEN Applied(d, riskLedger) ELSE Failed(d, riskLedger)
  /\ UNCHANGED <<riskOrders, sessionOn, residue, riskFaults>>

RunFlatten(d) ==
  /\ Doing(d, "flatten")
  /\ IF VenuePosition = 0
       THEN DrainGo(d, "flat") /\ UNCHANGED riskOrders
       ELSE SaveChild(d, Mine(d), Min({VenuePosition, riskCommands[Mine(d)].qty}))
  /\ UNCHANGED <<riskLedger, riskCommands, sessionOn, residue, riskFaults>>

\* The exchange was flat when it was asked; the row is set flat as it is now.
FlattenFoundFlat(d) ==
  /\ DrainAt(d, "flat")
  /\ Applied(d, ConfirmFlat(riskLedger, FALSE, TRUE))
  /\ UNCHANGED <<riskOrders, sessionOn, residue, riskFaults>>

\* The position must be the one the command was claimed for.
RunProtection(d) ==
  /\ Doing(d, "apply_protection")
  /\ LET late == \/ VenuePosition < drain[d].seen
                 \/ ~drain[d].terminal /\ drain[d].seen < VenuePosition
         qty == riskCommands[Mine(d)].qty
     IN  IF late THEN Retry(d, riskLedger) /\ UNCHANGED riskOrders
         ELSE IF VenuePosition # drain[d].seen THEN Failed(d, riskLedger) /\ UNCHANGED riskOrders
         ELSE IF qty > 0 THEN SaveChild(d, Tp, qty) /\ UNCHANGED <<riskLedger, riskCommands>>
         ELSE Applied(d, EndOf(d, riskLedger)) /\ UNCHANGED riskOrders
  /\ UNCHANGED <<sessionOn, residue, riskFaults>>

\* The child is a row of its own commit before _submit asks the exchange for it.
SubmitChild(d) ==
  /\ DrainAt(d, "child")
  /\ Submit(d, drain[d].order)
  /\ UNCHANGED <<sessionOn, residue, riskFaults>>

\* create_order: a reduce-only order with nothing to reduce is rejected.  A
\* call that fails may have created the order; an entry may be refused.
Created(o, venue) ==
  [riskOrders EXCEPT ![o].venue = IF @ # "absent" THEN @
                                  ELSE IF o # Entry /\ VenuePosition = 0 THEN "rejected"
                                  ELSE venue]
CreateOrder(d) ==
  /\ DrainAt(d, "create")
  /\ LET o == drain[d].order
     IN  \/ /\ riskOrders' = Created(o, "open") /\ DrainGo(d, "sent")
            /\ UNCHANGED <<riskLedger, riskCommands, riskFaults>>
         \/ /\ o = Entry /\ RiskFault
            /\ riskOrders' = Created(o, "rejected") /\ DrainGo(d, "sent")
            /\ UNCHANGED <<riskLedger, riskCommands>>
         \/ /\ RiskFault /\ Failed(d, riskLedger)
            /\ riskOrders' \in {riskOrders, Created(o, "open")}
  /\ UNCHANGED <<sessionOn, residue>>

\* The answer is applied; a rejection, or a take-profit that was cancelled, is
\* an error of the command.
Refused(o) ==
  \/ riskOrders[o].venue = "rejected"
  \/ o = Tp /\ Ended(Tp) /\ riskOrders[Tp].filled < riskOrders[Tp].want
Synced(d) ==
  /\ DrainAt(d, "sent")
  /\ LET o == drain[d].order
         l == Observed(riskLedger, o, TRUE)
     IN  /\ IF Refused(o) THEN Failed(d, l) ELSE Applied(d, EndOf(d, l))
         /\ riskOrders' = [riskOrders EXCEPT ![o] = ObservedRow(o)]
  /\ UNCHANGED <<sessionOn, residue, riskFaults>>

\* _cancel_confirm.  A row that was never sent just ends; one that was sent
\* and is not found stays unconfirmed; an open one is cancelled and read again.
Cancelled(o) ==
  [riskOrders EXCEPT ![o].row = "ended",
                     ![o].venue = IF @ = "open" THEN "done" ELSE @]
NeverSent(o) == riskOrders[o].row = "pending"
NotFound(o) == riskOrders[o].row = "submitted" /\ riskOrders[o].venue = "absent"
CancelSeen(o) ==
  IF NeverSent(o) THEN IF o = Entry THEN EntryFill(riskLedger, 0, TRUE) ELSE riskLedger
  ELSE IF o = Entry THEN EntryFill(riskLedger, riskOrders[o].filled, TRUE)
  ELSE ExitFill(riskLedger, o, riskOrders[o].filled, TRUE)

RunCancelEntry(d) ==
  /\ Doing(d, "cancel_entry")
  /\ IF riskOrders[Entry].row = "ended" THEN Applied(d, riskLedger) /\ UNCHANGED riskOrders
     ELSE IF NotFound(Entry) THEN Retry(d, riskLedger) /\ UNCHANGED riskOrders
     ELSE Applied(d, CancelSeen(Entry)) /\ riskOrders' = Cancelled(Entry)
  /\ UNCHANGED <<sessionOn, residue, riskFaults>>

\* cancel_children: every child in turn, then the position must be gone; a
\* clear venue stays clear until the next entry.
OpenRows == {o \in Children \ {Sl} : riskOrders[o].row # "ended"}

RunCancelChild(d, o) ==
  /\ Doing(d, "cancel_children") /\ o \in OpenRows
  /\ IF NotFound(o) THEN Retry(d, riskLedger) /\ UNCHANGED riskOrders
     ELSE /\ riskOrders' = Cancelled(o)
          /\ Save(CancelSeen(o), riskCommands)
          /\ UNCHANGED drain
  /\ UNCHANGED <<sessionOn, residue, riskFaults>>

ChildrenGone(d) == VenueClear
ChildrenCancelled(d) ==
  /\ Doing(d, "cancel_children") /\ OpenRows = {}
  /\ IF ChildrenGone(d) THEN Applied(d, ConfirmFlat(riskLedger, TRUE, FALSE))
     ELSE Retry(d, riskLedger)
  /\ UNCHANGED <<riskOrders, sessionOn, residue, riskFaults>>

\* A call that fails while a command runs; a process that dies: the lease of
\* its command ends after 60 s, longer than any call may take (45 s).
CallFails(d) ==
  /\ drain[d].step \in {"run", "child", "sent"}
  /\ RiskFault
  /\ Failed(d, riskLedger)
  /\ UNCHANGED <<riskOrders, sessionOn, residue>>

DrainDies(d) ==
  /\ ~DrainAt(d, "idle")
  /\ RiskFault
  /\ EndDrain(d)
  /\ UNCHANGED <<riskLedger, riskOrders, riskCommands, sessionOn, residue>>

LeaseEnds(k) ==
  /\ k \in Running
  /\ \A d \in Drains : drain[d].cmd # k
  /\ riskCommands' = [riskCommands EXCEPT ![k].status = "pending"]
  /\ UNCHANGED <<riskLedger, riskOrders, drain, sessionOn, residue, riskFaults>>

-----------------------------------------------------------------------------
(* Intents of an evaluation, and the end of the session.                   *)

\* on_intent for an open position: a close or a reversal.
Intent ==
  /\ riskLedger.position > 0 \/ ~riskLedger.terminal
  /\ \E next \in {RequestClose(riskLedger), RequestReversal(riskLedger)} : Save(next, riskCommands)
  /\ UNCHANGED <<riskOrders, drain, sessionOn, residue, riskFaults>>

\* mark_price, which on_intent calls with the price of the bar: once it has come
\* far enough the stop follows, and the protection is to be applied anew.
MarkPrice ==
  /\ riskLedger.terminal /\ riskLedger.position > 0 /\ ~riskLedger.close
  /\ riskLedger.desired < MaxTokens
  /\ Save(Desire(riskLedger), riskCommands)
  /\ UNCHANGED <<riskOrders, drain, sessionOn, residue, riskFaults>>

\* on_intent for a flat ledger: order, ledger and outbox in one transaction.
MayEnterUnconfirmed(l) ==
  l.position = 0 /\ l.terminal /\ ~l.blocked /\ l.unsettled = 0
MayEnter(l) ==
  l.position = 0 /\ l.terminal /\ l.confirmed /\ ~l.blocked /\ l.unsettled = 0

\* A drain in flight goes on into the new generation, with what it has fetched.
\* A command of the old one that it still carries out is none of the new
\* ledger's (_load), and so over.
Survivor(d) ==
  IF drain[d].step \in {"idle", "fetched", "loop"} THEN drain[d]
  ELSE [IdleDrain EXCEPT !.step = "loop", !.on = drain[d].on]

PrepareGeneration ==
  /\ sessionOn /\ MayEnter(riskLedger)
  /\ LET l == FreshLedger(riskLedger.generation + 1)
     IN  /\ riskLedger' = l
         /\ riskCommands' = Enqueue([k \in {} |-> {}], l)
  /\ riskOrders' = [o \in {Entry, Sl} |-> IF o = Entry THEN NewOrder(EntryUnits) ELSE NoOrder]
  /\ residue' = (residue \/ ~VenueClear)
  /\ drain' = [d \in Drains |-> Survivor(d)]
  /\ UNCHANGED <<sessionOn, riskFaults>>

\* deactivate: the wish to close is saved first; other deactivations only
\* switch the session off.
StopCodeSession ==
  /\ sessionOn
  /\ sessionOn' = FALSE
  /\ Save(RequestClose(riskLedger), riskCommands) \/ UNCHANGED <<riskLedger, riskCommands>>
  /\ UNCHANGED <<riskOrders, drain, residue, riskFaults>>

-----------------------------------------------------------------------------
RiskInit ==
  /\ riskLedger = FreshLedger(1)
  /\ riskOrders = [o \in {Entry, Sl} |-> IF o = Entry THEN NewOrder(EntryUnits) ELSE NoOrder]
  /\ riskCommands = Enqueue([k \in {} |-> {}], FreshLedger(1))
  /\ drain = [d \in Drains |-> IdleDrain]
  /\ sessionOn = TRUE /\ residue = FALSE /\ riskFaults = MaxRiskFaults

DrainStep(d) ==
  \/ \E o \in DOMAIN riskOrders : SyncOrder(d, o)
  \/ FetchVenue(d) \/ JudgePosition(d) \/ NothingToClaim(d)
  \/ \E k \in Claimables : ClaimCommand(d, k)
  \/ RunSubmit(d) \/ RunReversal(d) \/ RunFlatten(d) \/ FlattenFoundFlat(d)
  \/ RunProtection(d) \/ SubmitChild(d) \/ CreateOrder(d) \/ Synced(d) \/ RunCancelEntry(d)
  \/ \E o \in OpenRows : RunCancelChild(d, o)
  \/ ChildrenCancelled(d)

MarketStep == EntryFills \/ \E o \in Children : CloseFills(o)

RiskStep ==
  \/ \E d \in Drains : DrainStep(d) \/ CallFails(d) \/ DrainDies(d)
  \/ \E k \in Running : LeaseEnds(k)
  \/ \E o \in DOMAIN riskOrders : StreamSees(o)
  \/ StreamSeesStop \/ TpFills \/ TpDropped \/ StopTriggers \/ MarketStep
  \/ Intent \/ MarkPrice \/ PrepareGeneration \/ StopCodeSession

\* The life of an entry is followed up to the generation of the bound.
Followed == riskLedger.generation <= MaxGenerations
RiskNext == Followed /\ RiskStep

\* The five second recovery starts a drain again and again, a live drain goes
\* on, a market order is filled or ended.
RiskFairness ==
  /\ \A d \in Drains : WF_riskVars(Followed /\ DrainStep(d) /\ UNCHANGED riskFaults)
  /\ WF_riskVars(Followed /\ MarketStep /\ UNCHANGED riskFaults)
  /\ WF_riskVars(Followed /\ \E k \in Running : LeaseEnds(k))

RiskSpec == RiskInit /\ [][RiskNext]_riskVars /\ RiskFairness

-----------------------------------------------------------------------------
\* The ledger's quantities and the exchange's position stay within the entry:
\* no exit, however late or repeated, drives either below zero.
RiskTypeOK ==
  /\ riskLedger.cumulative \in 0..EntryUnits /\ riskLedger.position \in 0..EntryUnits
  /\ riskLedger.generation \in 1..(MaxGenerations + 1)
  /\ DOMAIN riskLedger.exits \subseteq Children
  /\ \A o \in DOMAIN riskOrders :
       /\ riskOrders[o].row \in OrderRows \cup {"none"}
       /\ riskOrders[o].venue \in VenueEnds \cup {"absent", "open"}
       /\ riskOrders[o].filled \in 0..EntryUnits
  /\ VenuePosition \in 0..EntryUnits
  /\ sessionOn \in BOOLEAN /\ residue \in BOOLEAN /\ riskFaults \in 0..MaxRiskFaults

\* A new entry is prepared only when the exchange holds no position of the
\* session and none of its orders is open there.
EntryOnlyWhenFlat == ~residue

\* Whatever happens, a session that wants out ends without a position, or its
\* account is locked by an unsettled exit.
CloseEndsFlatOrLocked ==
  <>[](riskLedger.close => VenuePosition = 0 \/ riskLedger.unsettled > 0)

\* What docs/domain/code-risk-execution.md says of a close: the actual position
\* is reduced until it is gone.
CloseEndsFlat == riskLedger.close ~> VenuePosition = 0
=============================================================================
