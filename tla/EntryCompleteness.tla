--------------------------- MODULE EntryCompleteness ---------------------------
(***************************************************************************)
(* How much of what a live session tried to enter was lost: the report that*)
(* build_report makes of the orders created in a window.  The rows are     *)
(* counted as attempts, as episodes under two rules (a fill ends one; a    *)
(* fill or a lost rejection does), and by the channel of their loss.  The  *)
(* rows go on living while reports are made: an order that was open in one *)
(* has ended in the next.                                                  *)
(*                                                                         *)
(* One trade id of one session, by which the code groups first.  The rows  *)
(* are in the order of their bars, in which they are created.  The channel *)
(* C4 (the price crossed the trigger of an order that was cancelled) is    *)
(* left out: it asks the bars of the market.                               *)
(*                                                                         *)
(* A definition directly above another of a similar name is a plausible    *)
(* mistake of the code, used by no action: see the mutants of PROJECT.json.*)
(***************************************************************************)
EXTENDS Integers, Sequences, FiniteSets, SequencesExt

CONSTANTS
  Until,       \* end of the window
  LastInstant, \* bound: the last instant at which an order ends
  MaxTries,    \* bound: orders of the trade id
  EntryQty     \* quantity of an entry

ASSUME CompletenessAssumption ==
  /\ {Until, LastInstant, MaxTries} \subseteq Nat /\ Until <= LastInstant
  /\ EntryQty \in Nat \ {0, 1}

VARIABLES
  instant,     \* the time
  tried        \* the entry orders that were created in the window, as they are now

tryVars == <<instant, tried>>

EntryKinds == {"cond", "condmkt", "entry"}
Unread == -1                             \* filled_quantity IS NULL
Origins == {"race", "refused", "local", "unknown"}

\* What an entry order may come to: an end that is not a fill may keep a part of one,
\* and a refusal names its origin (the code of a lost race, another code of the
\* exchange, a failure before the exchange was reached, no code).
Ends ==
  [state : {"filled"}, filled : {Unread, 1, EntryQty}, origin : {"none"}]
    \cup [state : {"cancelled"}, filled : {Unread, 1}, origin : {"none"}]
    \cup [state : {"rejected"}, filled : {Unread}, origin : Origins]
    \cup [state : {"rejected"}, filled : {1}, origin : Origins \ {"local"}]

-----------------------------------------------------------------------------
\* Attempts

HasFill(t) == t.filled > 0
Bucket(t) ==
  CASE HasFill(t) -> "has_fill"
    [] ~HasFill(t) /\ t.state \in {"rejected", "cancelled"} -> t.state
    [] OTHER -> "open"
CountsAsLoss(t) == Bucket(t) = "rejected" /\ t.origin # "local"

\* The code also defers a row that ended before the window and one without
\* terminal_at; tried has neither, as its rows end in the window or after it.
Deferred(t) == Bucket(t) = "open" \/ t.ended >= Until

OfKind(rows, kinds) ==
  FoldLeft(LAMBDA kept, t : IF t.kind \in kinds THEN Append(kept, t) ELSE kept, <<>>, rows)
Conditional(rows) == OfKind(rows, {"cond", "condmkt"})

\* How many rows of the table have property P.
Number(rows, P(_)) == Cardinality({i \in DOMAIN rows : P(rows[i])})

-----------------------------------------------------------------------------
\* Episodes

Rules == {"fill_closes", "fill_or_rejection_closes"}

ClosesOnAnyRejection(t, rule) ==
  HasFill(t) \/ (rule = "fill_or_rejection_closes" /\ Bucket(t) = "rejected")
Closes(t, rule) == HasFill(t) \/ (rule = "fill_or_rejection_closes" /\ CountsAsLoss(t))

Some(run, P(_)) == \E i \in DOMAIN run : P(run[i])
EpisodeOutcome(run) ==
  CASE Some(run, HasFill) -> "won"
    [] ~Some(run, HasFill) /\ Some(run, LAMBDA t : Bucket(t) = "open") -> "open"
    [] ~Some(run, LAMBDA t : Bucket(t) \in {"has_fill", "open"}) /\ Some(run, CountsAsLoss) -> "lost"
    [] OTHER -> "abandoned"
EpisodeDeferredIfAll(run) == \A i \in DOMAIN run : Deferred(run[i])
EpisodeDeferred(run) == Some(run, Deferred)

\* The rows in order, cut behind each that closes an episode.
Cut(rows, rule) ==
  FoldLeft(LAMBDA acc, t :
             IF Closes(t, rule) THEN [done |-> Append(acc.done, Append(acc.run, t)), run |-> <<>>]
             ELSE [acc EXCEPT !.run = Append(@, t)],
           [done |-> <<>>, run |-> <<>>], rows)
Episodes(rows, rule) ==
  LET all == Cut(rows, rule)
  IN  IF all.run = <<>> THEN all.done ELSE Append(all.done, all.run)

\* One layer of the report (build_episode_layer).
Layer(rows, rule) ==
  LET episodes == Episodes(Conditional(rows), rule)
      With(outcome) == Number(episodes, LAMBDA run : EpisodeOutcome(run) = outcome)
  IN  [won |-> With("won"), lost |-> With("lost"), abandoned |-> With("abandoned"),
       open |-> With("open"),
       openAfterRejection |->
         Number(episodes, LAMBDA run : EpisodeOutcome(run) = "open" /\ Some(run, CountsAsLoss)),
       settled |->
         {[rows |-> [i \in DOMAIN run |-> run[i].no], outcome |-> EpisodeOutcome(run)] :
            run \in {r \in ToSet(episodes) : ~EpisodeDeferred(r) /\ EpisodeOutcome(r) # "open"}}]

Resolved(layer) == layer.won + layer.lost + layer.abandoned

-----------------------------------------------------------------------------
\* Channels, and the most that rested at once

C1(t) ==
  CASE t.state # "rejected" -> "none"
    [] t.origin = "unknown" -> "unmeasured"
    [] t.origin = "race" -> "matched"
    [] OTHER -> "not_matched"

C3(t) ==
  CASE t.state = "submitted" -> "none"
    [] t.state = "filled" /\ t.filled = Unread -> "unmeasured"
    [] 0 < t.filled /\ t.filled < EntryQty -> "matched"
    [] OTHER -> "not_matched"

Resting(rows) == OfKind(rows, {"cond"})

\* The two events of an order.  At one time what opens comes before what closes.
OpenEventLast(t) == [at |-> t.created, order |-> 2, delta |-> 1]
OpenEvent(t) == [at |-> t.created, order |-> 0, delta |-> 1]
CloseEvent(t) == [at |-> t.ended, order |-> 1, delta |-> -1]
NotAfter(e, f) == e.at < f.at \/ (e.at = f.at /\ e.order <= f.order)

\* The events in order of time.
Insert(events, e) ==
  InsertAt(events, Cardinality({i \in DOMAIN events : NotAfter(events[i], e)}) + 1, e)
Events(rows) ==
  FoldLeft(LAMBDA events, t :
             LET opened == Insert(events, OpenEvent(t))
             IN  IF t.state = "submitted" THEN opened ELSE Insert(opened, CloseEvent(t)),
           <<>>, rows)

Concurrent(events) ==
  FoldLeft(LAMBDA acc, e : LET n == acc.now + e.delta
                           IN  [now |-> n, peak |-> IF n > acc.peak THEN n ELSE acc.peak],
           [now |-> 0, peak |-> 0], events)
Peak(rows) == Concurrent(Events(rows)).peak

-----------------------------------------------------------------------------

TryInit == instant = 0 /\ tried = <<>>

\* An entry order is created in the window.
Try ==
  /\ instant < Until /\ Len(tried) < MaxTries
  /\ \E kind \in EntryKinds :
       tried' = Append(tried, [no |-> Len(tried) + 1, kind |-> kind, created |-> instant,
                               state |-> "submitted", filled |-> Unread, origin |-> "none",
                               ended |-> LastInstant])
  /\ UNCHANGED instant

\* An order ends; filled_at is the time of any end.
TryEnds ==
  /\ \E i \in DOMAIN tried, e \in Ends :
       /\ tried[i].state = "submitted"
       /\ tried' = [tried EXCEPT ![i] = [@ EXCEPT !.state = e.state, !.filled = e.filled,
                                                  !.origin = e.origin, !.ended = instant]]
  /\ UNCHANGED instant

InstantPasses == instant < LastInstant /\ instant' = instant + 1 /\ UNCHANGED tried

TryNext == Try \/ TryEnds \/ InstantPasses

TrySpec == TryInit /\ [][TryNext]_tryVars

-----------------------------------------------------------------------------
\* Properties

\* Every variable stays within its type.
TryTypeOK ==
  /\ instant \in 0..LastInstant
  /\ Len(tried) <= MaxTries
  /\ \A i \in DOMAIN tried :
       LET t == tried[i]
       IN  /\ t.no = i /\ t.kind \in EntryKinds /\ t.created \in 0..(Until - 1)
           /\ t.state \in {"submitted", "filled", "cancelled", "rejected"}
           /\ t.filled \in {Unread} \cup 1..EntryQty /\ t.origin \in Origins \cup {"none"}
           /\ t.ended \in 0..LastInstant

\* The orders that reached the exchange, and those that rested there at m.
Reached(rows) ==
  FoldLeft(LAMBDA kept, t : IF t.origin # "local" THEN Append(kept, t) ELSE kept, <<>>, rows)
Over(rows, m) ==
  Number(rows, LAMBDA t : t.created <= m /\ (t.state = "submitted" \/ m <= t.ended))

\* The layers of a report are different counts of the same rows, and each says of the
\* others what the code promises: both rules find a win for every attempt with a fill
\* and no other; under the second every lost rejection is a loss or stays visible behind
\* an open order; a failure that never reached the exchange changes nothing but one
\* abandoned episode at the end; a lost race is a loss unless it kept a fill; and the
\* most that rested at once is the number of resting intervals over some instant.
LayersAgree == tried # <<>> =>
  LET rows == Conditional(tried)
      first == Layer(tried, "fill_closes")
      second == Layer(tried, "fill_or_rejection_closes")
      resting == Resting(tried)
  IN  /\ first.won = Number(rows, HasFill) /\ second.won = first.won
      /\ second.lost + second.openAfterRejection = Number(rows, CountsAsLoss)
      /\ \A rule \in Rules :
           LET all == Layer(tried, rule)
               without == Layer(Reached(tried), rule)
           IN  /\ all.lost = without.lost /\ all.open = without.open
               /\ all.abandoned # without.abandoned =>
                    /\ all.abandoned = without.abandoned + 1
                    /\ rows[Len(rows)].origin = "local"
      /\ \A i \in DOMAIN rows :
           C1(rows[i]) = "matched" => CountsAsLoss(rows[i]) \/ C3(rows[i]) = "matched"
      /\ \A m \in 0..LastInstant : Over(resting, m) <= Peak(resting)
      /\ resting # <<>> => \E m \in 0..LastInstant : Over(resting, m) = Peak(resting)

\* What a report says of the episodes that ended within the window stays: every later
\* report has them, with the same orders and the same outcome.  (It may have more of
\* them: a late fill of an open order may cut its episode in two.)
SettledStays ==
  [][instant >= Until =>
       \A rule \in Rules : Layer(tried, rule).settled \subseteq Layer(tried', rule).settled]_tryVars
=============================================================================
