----------------------------- MODULE TrailingStop -----------------------------
(***************************************************************************)
(* The trailing stop that is set on the position of an entry after its     *)
(* fill was recorded (place_trailing_stop_task).  At the exchange it is a  *)
(* property of the whole position, so the task must know that the position *)
(* it finds is still the one of its entry: it asks for the position, looks *)
(* at its side and at the time it was opened, and then sets the stop.  The *)
(* position may be closed and another opened at any time.                  *)
(*                                                                         *)
(* Time is counted in ticks.  A fetch may miss a position for a while after*)
(* it was opened; what was recorded as the time of the fill is the time of *)
(* a worker's clock when the fill was recorded, which may be late.         *)
(*                                                                         *)
(* A definition directly above another of a similar name is a plausible    *)
(* mistake of the code, used by no action: see the mutants of PROJECT.json.*)
(***************************************************************************)
EXTENDS Integers

CONSTANTS
  Countdown,      \* delay of the first attempt
  MaxRetries,     \* _TRAILING_MAX_RETRIES
  RetryDelay,     \* of each retry: _TRAILING_RETRY_BASE_SECONDS * 2 ** retries
  FlatRetryLimit, \* _TRAILING_FLAT_RETRY_LIMIT
  Tolerance,      \* _TRAILING_REOPEN_TOLERANCE
  Skew,           \* how far the clock of a worker is from the exchange's
  Lag,            \* how long a fetch may miss a position
  LastTick,       \* bound: no time passes after it, and all is due at it
  LastRecord,     \* bound: the fill is recorded by then
  MaxTrailFaults  \* bound: crashes and failed calls

ASSUME TrailAssumption ==
  /\ {Countdown, MaxRetries, FlatRetryLimit, Tolerance, Skew, Lag} \subseteq Nat
  /\ {LastTick, LastRecord, MaxTrailFaults} \subseteq Nat
  /\ Skew <= Tolerance
  /\ FlatRetryLimit < MaxRetries
  /\ RetryDelay \in [0..MaxRetries -> Nat]
  /\ \A k \in 0..(MaxRetries - 1) : RetryDelay[k + 1] = 2 * RetryDelay[k]
  \* The looks for a position that is not to be seen outlast the lag.
  /\ Lag <= Countdown + RetryDelay[FlatRetryLimit] - RetryDelay[0] /\ Lag <= LastTick

VARIABLES
  tick,         \* the time at the exchange
  netPosition,  \* position of the exchange on the symbol
  intent,       \* of the order: can a trailing stop be set for it?
  trailFilledAt,\* filled_at of the order
  trailTask,    \* the task of the order
  trailFaults

trailVars == <<tick, netPosition, intent, trailFilledAt, trailTask, trailFaults>>

Never == -LastTick - 1
NoPosition == [of |-> "none", side |-> "none", since |-> 0, trail |-> FALSE]
Opened(of, side) == [of |-> of, side |-> side, since |-> tick, trail |-> FALSE]

\* The order's account and distance: set, refused as a breach of contract, not supported.
Intents == {"valid", "breach", "unsupported"}
Outcomes == {"placed", "mismatch", "reopened", "zero", "conceded", "alerted", "unsupported"}

TrailTypeOK ==
  /\ tick \in 0..LastTick
  /\ netPosition = NoPosition \/
     netPosition \in [of : {"entry", "other"}, side : {"same", "opposite"},
                      since : 0..LastTick, trail : BOOLEAN]
  /\ intent \in Intents
  /\ trailFilledAt \in {Never} \cup (-Skew)..(LastRecord + Skew)
  /\ trailTask.pc \in {"none", "lost", "queued", "looked", "ended"}
  /\ trailTask.tries \in 0..MaxRetries /\ trailTask.due \in 0..LastTick
  /\ trailTask.outcome \in Outcomes \cup {"none"}
  /\ trailFaults \in 0..MaxTrailFaults

TrailInit ==
  /\ tick = 0
  /\ netPosition = Opened("entry", "same")
  /\ intent \in Intents
  /\ trailFilledAt = Never
  /\ trailTask = [pc |-> "none", tries |-> 0, due |-> 0, saw |-> NoPosition,
                  stamped |-> FALSE, outcome |-> "none"]
  /\ trailFaults = 0

TrailFault == trailFaults < MaxTrailFaults /\ trailFaults' = trailFaults + 1
NotBeyond(t) == IF t < LastTick THEN t ELSE LastTick

-----------------------------------------------------------------------------
\* The exchange

Tick ==
  /\ tick < LastTick /\ tick' = tick + 1
  /\ UNCHANGED <<netPosition, intent, trailFilledAt, trailTask, trailFaults>>

PositionCloses ==
  /\ netPosition # NoPosition /\ netPosition' = NoPosition
  /\ UNCHANGED <<tick, intent, trailFilledAt, trailTask, trailFaults>>

\* Another entry: it opens a position, or an opposite one turns the position over.
OtherOpens ==
  /\ \E side \in {"same", "opposite"} :
       /\ netPosition.side # side
       /\ netPosition' = Opened("other", side)
  /\ UNCHANGED <<tick, intent, trailFilledAt, trailTask, trailFaults>>

-----------------------------------------------------------------------------
\* The ledger

\* The winner of the transition records the time of its own clock, commits, and
\* sends the task; if its process dies in between, nobody sends it.
TrailFill ==
  /\ trailTask.pc = "none" /\ tick <= LastRecord
  /\ \E t \in (tick - Skew)..(tick + Skew) : trailFilledAt' = t
  /\ \/ /\ trailTask' = [trailTask EXCEPT !.pc = "queued", !.due = NotBeyond(tick + Countdown)]
        /\ UNCHANGED trailFaults
     \/ trailTask' = [trailTask EXCEPT !.pc = "lost"] /\ TrailFault
  /\ UNCHANGED <<tick, netPosition, intent>>

-----------------------------------------------------------------------------
\* The task

AsIfNew(task) == [task EXCEPT !.saw = NoPosition, !.stamped = FALSE]
Retried(task) ==
  [AsIfNew(task) EXCEPT !.pc = "queued", !.tries = @ + 1,
                        !.due = NotBeyond(tick + RetryDelay[task.tries])]
TrailEnded(task, outcome) == [AsIfNew(task) EXCEPT !.pc = "ended", !.outcome = outcome]

\* Any exception: retried with a growing delay, and told at last.
TaskFailed(task) == IF task.tries >= MaxRetries THEN TrailEnded(task, "alerted") ELSE Retried(task)

\* A position that is not to be seen may be closed or not yet shown.
UnseenIsFlat(task) == TrailEnded(task, "conceded")
Unseen(task) ==
  IF task.tries < FlatRetryLimit THEN Retried(task) ELSE TrailEnded(task, "conceded")

\* The position was opened after the fill, so it is not the one of the order.
ReopenedNever(position, stamped) == FALSE
Reopened(position, stamped) == stamped /\ position.since > trailFilledAt + Tolerance

Due == trailTask.pc = "queued" /\ trailTask.due <= tick

\* fetch_position and what is concluded from its answer.
TrailLook ==
  /\ Due
  /\ \/ intent = "unsupported" /\ trailTask' = TrailEnded(trailTask, "unsupported")
     \/ /\ intent # "unsupported"
        /\ netPosition = NoPosition \/ tick < netPosition.since + Lag
        /\ trailTask' = Unseen(trailTask)
     \/ /\ intent # "unsupported" /\ netPosition # NoPosition
        /\ \E stamped \in BOOLEAN :
             trailTask' =
               IF netPosition.side # "same" THEN TrailEnded(trailTask, "mismatch")
               ELSE IF Reopened(netPosition, stamped) THEN TrailEnded(trailTask, "reopened")
               ELSE [trailTask EXCEPT !.pc = "looked", !.saw = netPosition, !.stamped = stamped]
  /\ UNCHANGED <<tick, netPosition, intent, trailFilledAt, trailFaults>>

\* set_trading_stop, on whatever position there is by now.
TrailSet ==
  /\ trailTask.pc = "looked"
  /\ CASE intent = "breach" -> /\ trailTask' = TrailEnded(trailTask, "alerted")
                               /\ UNCHANGED netPosition
       [] netPosition = NoPosition -> /\ trailTask' = TrailEnded(trailTask, "zero")
                                      /\ UNCHANGED netPosition
       [] OTHER -> /\ trailTask' = TrailEnded(trailTask, "placed")
                   /\ netPosition' = [netPosition EXCEPT !.trail = TRUE]
  /\ UNCHANGED <<tick, intent, trailFilledAt, trailFaults>>

\* A call fails, or it did its work and only the answer is lost.
TrailCallFails ==
  /\ Due \/ trailTask.pc = "looked"
  /\ TrailFault
  /\ trailTask' = TaskFailed(trailTask)
  /\ \/ UNCHANGED netPosition
     \/ /\ trailTask.pc = "looked" /\ intent = "valid" /\ netPosition # NoPosition
        /\ netPosition' = [netPosition EXCEPT !.trail = TRUE]
  /\ UNCHANGED <<tick, intent, trailFilledAt>>

\* The worker dies before it acknowledges the message, which is delivered again
\* (task_acks_late) with the number of retries that it has.
TrailRedelivered ==
  /\ trailTask.pc \in {"queued", "looked", "ended"}
  /\ TrailFault
  /\ trailTask' = [AsIfNew(trailTask) EXCEPT !.pc = "queued", !.outcome = "none"]
  /\ UNCHANGED <<tick, netPosition, intent, trailFilledAt>>

TrailWork == TrailLook \/ TrailSet

TrailNext ==
  \/ Tick \/ PositionCloses \/ OtherOpens \/ TrailFill
  \/ TrailWork \/ TrailCallFails \/ TrailRedelivered

\* Time passes, and a worker takes the task when it is due; nothing is assumed of the
\* exchange.  As the ticks are bounded, one condition says both.
TrailFairness == WF_trailVars(Tick \/ TrailWork)

TrailSpec == TrailInit /\ [][TrailNext]_trailVars /\ TrailFairness

-----------------------------------------------------------------------------
\* Properties

\* The position on which the stop is set in this step.
SetNow == ~netPosition.trail /\ netPosition'.trail

\* The trailing stop of an entry is set on the position of another one in no other
\* case than those that the code names as left open: the position was opened within
\* the tolerance of the recorded time (or that was recorded late), the exchange gave
\* no time, or the position changed between the look and the call.
OnOwnPosition ==
  SetNow /\ netPosition.of = "other" =>
    \/ netPosition.since <= trailFilledAt + Tolerance
    \/ ~trailTask.stamped
    \/ netPosition # trailTask.saw

\* A task that ends while the position of its entry is open has set the stop or told
\* that it did not, whatever the lag of the fetch and the failures in between.
OwnIsTrailed ==
  trailTask'.pc = "ended" /\ netPosition'.of = "entry" =>
    netPosition'.trail \/ trailTask'.outcome \in {"alerted", "unsupported"}

TrailFits == [][OnOwnPosition /\ OwnIsTrailed]_trailVars

\* A task that was sent comes to an end, and so does one that was delivered again.
TrailSettled == trailTask.pc \notin {"queued", "looked"}
TrailEnds == <>[]TrailSettled
=============================================================================
