---------------------------- MODULE BarEvaluation ----------------------------
(***************************************************************************)
(* The evaluation of one live session: beat starts a task every minute, a  *)
(* Redis lock keeps two workers apart as long as its heartbeat is on time, *)
(* and the claim of a bar (a conditional UPDATE of the session row) is the *)
(* authority when it does not.  Claim, signal events and report commit     *)
(* together; a session that cannot be trusted is deactivated in that same  *)
(* transaction.                                                            *)
(*                                                                         *)
(* Bars are numbered; every bar carries one signal.  The replay engine,    *)
(* the exchange's position and the ledger's unreconciled entries are       *)
(* answers the environment chooses.  Left out: the order of reads within a *)
(* step that no other actor can see, metrics, the sizing of signals.       *)
(***************************************************************************)
EXTENDS Integers, FiniteSets

CONSTANTS
  Evaluators,     \* worker processes that run evaluate_live_signals
  NoOne, Gone,    \* nobody holds a lock; a holder that is gone
  MaxBar,         \* bound: bars the market closes
  CatchUp,        \* _MAX_CATCHUP_WALL_CLOCK_GAP, in bars; 0 for bars of over 5 minutes
  MaxDefers,      \* _MAX_GAP_RESYNC_DEFERS
  StrikeMaxBars,  \* _DIRECTION_STRIKE_MAX_BARS
  MaxEvalFaults   \* bound on lost locks, failed transactions and dead workers

ASSUME EvaluationAssumption ==
  /\ NoOne \notin Evaluators /\ Gone \notin Evaluators /\ NoOne # Gone
  /\ MaxBar \in Nat \ {0} /\ CatchUp \in Nat /\ MaxDefers \in Nat
  /\ StrikeMaxBars \in Nat \ {0} /\ MaxEvalFaults \in Nat

VARIABLES
  active,         \* live_signal_sessions.is_active
  offReason,      \* deactivated_reason
  lastEvaluated,  \* last_evaluated_bar_time, 0 for NULL
  report,         \* what the state row's report carries from bar to bar
  signalEvents,   \* bars with a row in live_signal_events
  marketBar,      \* the newest closed bar
  evalLock,       \* holder of the Redis lock live:eval:<session>
  rowLock,        \* evaluator whose uncommitted UPDATE holds the session row
  task,           \* task[w]: the evaluation of w and what it has read
  verdict,        \* history: the judgement committed with each bar
  passedOver,     \* history: bars a first evaluation or a gap resync did not replay
  overlapped,     \* history: a lock expired under an evaluation that went on
  evalFaults

sessionVars == <<active, offReason, lastEvaluated, report, signalEvents>>
historyVars == <<verdict, passedOver, overlapped>>
lockVars == <<evalLock, rowLock>>
evalVars == <<sessionVars, lockVars, historyVars, marketBar, task, evalFaults>>

Bars == 1..MaxBar
Reasons == {"none", "user", "preflight", "run_live_error", "runtime", "gap", "direction"}
Reports == [mismatch : BOOLEAN, strike : 0..MaxBar, defers : 0..MaxDefers]
FreshReport == [mismatch |-> FALSE, strike |-> 0, defers |-> 0]
Steps == {"idle", "locked", "read", "fetched", "ready", "claimed"}
Tasks == [step : Steps, last : 0..MaxBar, bar : 0..MaxBar, report : Reports]
IdleTask == [step |-> "idle", last |-> 0, bar |-> 0, report |-> FreshReport]

BarTypeOK ==
  /\ active \in BOOLEAN /\ offReason \in Reasons
  /\ lastEvaluated \in 0..MaxBar /\ report \in Reports
  /\ signalEvents \subseteq Bars /\ marketBar \in Bars
  /\ evalLock \in Evaluators \cup {NoOne, Gone}
  /\ rowLock \in Evaluators \cup {NoOne}
  /\ task \in [Evaluators -> Tasks]
  /\ verdict \in [Bars -> {"none", "unknown", "match", "mismatch"}]
  /\ passedOver \subseteq Bars /\ overlapped \in BOOLEAN /\ evalFaults \in 0..MaxEvalFaults

BarInit ==
  /\ active = TRUE /\ offReason = "none"
  /\ lastEvaluated = 0 /\ report = FreshReport /\ signalEvents = {}
  /\ marketBar = 1
  /\ evalLock = NoOne /\ rowLock = NoOne
  /\ task = [w \in Evaluators |-> IdleTask]
  /\ verdict = [b \in Bars |-> "none"] /\ passedOver = {} /\ overlapped = FALSE
  /\ evalFaults = MaxEvalFaults

-----------------------------------------------------------------------------
Step(w, s) == task[w].step = s
Advance(w, next) == task' = [task EXCEPT ![w] = next]
EvalFault == evalFaults > 0 /\ evalFaults' = evalFaults - 1

\* The end of a task, by whatever way: its transaction is over, the lock is
\* released under its own token.
Leave(w) ==
  /\ Advance(w, IdleTask)
  /\ evalLock' = IF evalLock = w THEN NoOne ELSE evalLock
  /\ rowLock' = IF rowLock = w THEN NoOne ELSE rowLock

\* The jump from the last evaluated bar to this one is more than is caught up.
\* With a CatchUp of 0 (15m and 1h bars) every bar but the first is such a jump.
NeedsResync(w) == task[w].last > 0 /\ task[w].bar - task[w].last > CatchUp

\* The bars whose signals the replay emits.
Emitted(w) == IF task[w].last = 0 \/ NeedsResync(w)
                THEN {task[w].bar}
                ELSE task[w].last + 1..task[w].bar

MarketCloses ==
  /\ marketBar < MaxBar
  /\ marketBar' = marketBar + 1
  /\ UNCHANGED <<sessionVars, lockVars, historyVars, task, evalFaults>>

\* A due session: no lock, no evaluation (a Redis that fails looks the same).
TakeEvalLock(w) ==
  /\ Step(w, "idle") /\ evalLock = NoOne /\ active
  /\ lastEvaluated < marketBar
  /\ evalLock' = w
  /\ Advance(w, [IdleTask EXCEPT !.step = "locked"])
  /\ UNCHANGED <<sessionVars, rowLock, historyVars, marketBar, evalFaults>>

ReadSession(w) ==
  /\ Step(w, "locked")
  /\ IF active
       THEN /\ Advance(w, [task[w] EXCEPT !.step = "read", !.last = lastEvaluated])
            /\ UNCHANGED lockVars
       ELSE Leave(w)
  /\ UNCHANGED <<sessionVars, historyVars, marketBar, evalFaults>>

SwitchOffAgain(w, reason) ==
  /\ rowLock \in {NoOne, w}
  /\ active' = FALSE /\ offReason' = reason
  /\ lastEvaluated' = IF rowLock = w THEN task[w].bar ELSE lastEvaluated
  /\ UNCHANGED <<report, signalEvents>>

\* Every deactivation: UPDATE ... WHERE is_active, then commit.  The claim
\* made in the same transaction, if any, commits with it.
SwitchOff(w, reason) ==
  /\ rowLock \in {NoOne, w}
  /\ IF active THEN active' = FALSE /\ offReason' = reason ELSE UNCHANGED <<active, offReason>>
  /\ lastEvaluated' = IF rowLock = w THEN task[w].bar ELSE lastEvaluated
  /\ UNCHANGED <<report, signalEvents>>

\* Coverage, degraded calls or a missing baseline, and an exhausted equity.
BlockPreflight(w) ==
  /\ Step(w, "read") \/ Step(w, "fetched")
  /\ SwitchOff(w, "preflight")
  /\ Leave(w)
  /\ UNCHANGED <<historyVars, marketBar, evalFaults>>

FetchBars(w) ==
  /\ Step(w, "read")
  /\ IF marketBar <= task[w].last
       THEN Leave(w)
       ELSE /\ Advance(w, [task[w] EXCEPT !.step = "fetched", !.bar = marketBar])
            /\ UNCHANGED lockVars
  /\ UNCHANGED <<sessionVars, historyVars, marketBar, evalFaults>>

\* One read of the report serves the whole evaluation.
ReadReport(w) ==
  /\ Step(w, "fetched")
  /\ Advance(w, [task[w] EXCEPT !.step = "ready", !.report = report])
  /\ UNCHANGED <<sessionVars, lockVars, historyVars, marketBar, evalFaults>>

\* A gap with conditional entries whose fills the ledger does not know yet:
\* wait for the ledger, MaxDefers times at most.  A count that cannot be
\* written is logged and lost.
DeferredUncounted(w) == task[w].report
Deferred(w) == [task[w].report EXCEPT !.defers = @ + 1]

MayDeferOnceMore(w) == task[w].report.defers <= MaxDefers
MayDefer(w) == task[w].report.defers < MaxDefers

DeferResync(w) ==
  /\ Step(w, "ready") /\ NeedsResync(w) /\ MayDefer(w)
  /\ \/ report' = Deferred(w) /\ UNCHANGED evalFaults
     \/ UNCHANGED report /\ EvalFault
  /\ Leave(w)
  /\ UNCHANGED <<active, offReason, lastEvaluated, signalEvents, historyVars, marketBar>>

\* try_claim_bar: the UPDATE waits for a row that is locked, and compares
\* what is committed then.
Claimable(w) == active /\ lastEvaluated < task[w].bar

ClaimAtOnce(w) ==
  /\ Step(w, "ready") /\ rowLock = NoOne
  /\ IF Claimable(w)
       THEN /\ lastEvaluated' = task[w].bar
            /\ Advance(w, [task[w] EXCEPT !.step = "claimed"])
            /\ UNCHANGED lockVars
       ELSE Leave(w) /\ UNCHANGED lastEvaluated
  /\ UNCHANGED <<active, offReason, report, signalEvents, historyVars, marketBar, evalFaults>>

Claim(w) ==
  /\ Step(w, "ready") /\ rowLock = NoOne
  /\ IF Claimable(w)
       THEN /\ rowLock' = w
            /\ Advance(w, [task[w] EXCEPT !.step = "claimed"])
            /\ UNCHANGED evalLock
       ELSE Leave(w)
  /\ UNCHANGED <<sessionVars, historyVars, marketBar, evalFaults>>

\* The engine raises or reports errors, or the position after a gap does not
\* agree with the exchange.
BlockClaimed(w) ==
  /\ Step(w, "claimed")
  /\ \E reason \in {"run_live_error", "runtime"} \cup (IF NeedsResync(w) THEN {"gap"} ELSE {}) :
       SwitchOff(w, reason)
  /\ Leave(w)
  /\ UNCHANGED <<historyVars, marketBar, evalFaults>>

\* _judge_direction_strike: this evaluation sees engine and exchange on
\* opposite sides.  It is the second strike only if the evaluations are
\* consecutive and the first is not too old.  Left out: a strike stored before
\* its bar time was kept (it counts, whatever its age), and the age of one whose
\* interval has no known length (no session has such an interval).
EvaluationIsGapped(w) == task[w].last > 0 /\ task[w].bar - task[w].last > 1
StrikeIgnoresGap(w) ==
  /\ task[w].report.mismatch
  /\ task[w].bar - task[w].report.strike <= StrikeMaxBars
SecondStrike(w) ==
  /\ task[w].report.mismatch
  /\ ~EvaluationIsGapped(w)
  /\ task[w].bar - task[w].report.strike <= StrikeMaxBars

BlockDirection(w) ==
  /\ Step(w, "claimed") /\ SecondStrike(w)
  /\ SwitchOff(w, "direction")
  /\ verdict' = [verdict EXCEPT ![task[w].bar] = "mismatch"]
  /\ Leave(w)
  /\ UNCHANGED <<passedOver, overlapped, marketBar, evalFaults>>

\* What the next evaluation finds in the report: a probe that failed or was
\* not made keeps the old mark.
NextReport(w, seen) ==
  CASE seen = "unknown"  -> [task[w].report EXCEPT !.defers = 0]
    [] seen = "match"    -> FreshReport
    [] seen = "mismatch" -> [mismatch |-> TRUE, strike |-> task[w].bar, defers |-> 0]

\* Events (those not there yet), report and claim in one commit.
CommitBar(w, seen) ==
  /\ Step(w, "claimed")
  /\ seen = "mismatch" => ~SecondStrike(w)
  /\ signalEvents' = signalEvents \cup Emitted(w)
  /\ report' = NextReport(w, seen)
  /\ lastEvaluated' = task[w].bar
  /\ verdict' = [verdict EXCEPT ![task[w].bar] = seen]
  /\ passedOver' = IF task[w].last = 0 \/ NeedsResync(w)
                     THEN passedOver \cup (task[w].last + 1..task[w].bar - 1)
                     ELSE passedOver
  /\ Leave(w)
  /\ UNCHANGED <<active, offReason, overlapped, marketBar, evalFaults>>

\* An exception, a dead worker or a lost connection: the transaction rolls
\* back, the lock of a dead worker stays until its TTL.
Abort(w) ==
  /\ ~Step(w, "idle")
  /\ EvalFault
  /\ \/ Leave(w)
     \/ /\ Advance(w, IdleTask)
        /\ evalLock' = IF evalLock = w THEN Gone ELSE evalLock
        /\ rowLock' = IF rowLock = w THEN NoOne ELSE rowLock
  /\ UNCHANGED <<sessionVars, historyVars, marketBar>>

\* The lock's TTL ends; the evaluation of a live holder goes on.
EvalLockExpires ==
  /\ evalLock # NoOne
  /\ evalLock' = NoOne
  /\ IF evalLock = Gone
       THEN UNCHANGED <<overlapped, evalFaults>>
       ELSE overlapped' = TRUE /\ EvalFault
  /\ UNCHANGED <<sessionVars, rowLock, verdict, passedOver, marketBar, task>>

\* LiveSessionService.deactivate and the deactivation of an owner.
UserStops ==
  /\ active /\ rowLock = NoOne
  /\ active' = FALSE /\ offReason' = "user"
  /\ UNCHANGED <<lastEvaluated, report, signalEvents, lockVars, historyVars, marketBar,
                 task, evalFaults>>

Evaluate(w) ==
  \/ TakeEvalLock(w) \/ ReadSession(w) \/ BlockPreflight(w) \/ FetchBars(w)
  \/ ReadReport(w) \/ DeferResync(w) \/ Claim(w) \/ BlockClaimed(w)
  \/ BlockDirection(w) \/ \E seen \in {"unknown", "match", "mismatch"} : CommitBar(w, seen)

BarNext ==
  \/ \E w \in Evaluators : Evaluate(w) \/ Abort(w)
  \/ MarketCloses \/ EvalLockExpires \/ UserStops

\* A live worker runs its task, beat starts the next one, Redis expires keys.
BarFairness ==
  /\ \A w \in Evaluators : WF_evalVars(Evaluate(w) /\ UNCHANGED evalFaults)
  /\ WF_evalVars(evalLock = Gone /\ EvalLockExpires)

BarSpec == BarInit /\ [][BarNext]_evalVars /\ BarFairness

-----------------------------------------------------------------------------
\* No bar up to the claimed one is lost: its signals are stored, or an
\* evaluation that found no earlier claim, or engine and exchange aligned after
\* a gap, passed over it on purpose.  Claim and events share a commit, and a
\* claim that another worker overtook commits nothing, whatever fails.
NoBarLost == active => 1..lastEvaluated \subseteq signalEvents \cup passedOver

\* A session that is off claims no bar, stores no event and keeps its reason,
\* though evaluations that read it as active are still running.
OffIsSilent ==
  [][~active => UNCHANGED <<active, offReason, lastEvaluated, signalEvents>>]_evalVars

\* A session dies of a wrong direction only if a bar not too long before was
\* judged wrong too.  As long as no evaluation outlived its lock, that was the
\* last judgement and the bar just before this one was evaluated; without the
\* lock an old report may be read late or written back by a deferral.
JudgedBefore(bar) == {b \in Bars : b < bar /\ verdict[b] \in {"match", "mismatch"}}
DirectionNeedsTwo ==
  [][offReason # "direction" /\ offReason' = "direction" =>
       \E b \in JudgedBefore(lastEvaluated') :
         /\ verdict[b] = "mismatch" /\ lastEvaluated' - b <= StrikeMaxBars
         /\ ~overlapped => /\ \A c \in JudgedBefore(lastEvaluated') : c <= b
                           /\ verdict[lastEvaluated' - 1] # "none"]_evalVars

\* A session that stays active is evaluated up to the newest bar: a deferred
\* resync, a lost lock or a dead worker only delays it.
KeepsUp == <>[](active => lastEvaluated = marketBar)
=============================================================================
