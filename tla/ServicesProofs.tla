--------------------------- MODULE ServicesProofs ---------------------------
(***************************************************************************)
(* Proofs about the components around the ledgers, for any workers, bars,  *)
(* owners, sessions, caps, thresholds and faults: the private stream       *)
(* (StreamLease), the evaluation of a live session (BarEvaluation), the    *)
(* registry (SessionRegistry) and the conditional entries                  *)
(* (ConditionalEntries).  Then all of them side by side, as MCServices puts*)
(* them.                                                                   *)
(***************************************************************************)
EXTENDS MCServices, FiniteSetTheorems, TLAPS

(***************************************************************************)
(* The private stream.                                                     *)
(***************************************************************************)
\* A lease is held by a task that is between acquiring and releasing it.
LeaseAtWork == \A w \in StreamWorkers : leaseKey = w => streamStep[w] \in HasLease

StreamInv == StreamTypeOK /\ LeaseAtWork

Flags ==
  /\ leaseLost \in [StreamWorkers -> BOOLEAN]
  /\ supervisorUp \in [StreamWorkers -> BOOLEAN]
  /\ blocked \in BOOLEAN
Counts ==
  /\ leaseKey \in StreamWorkers \cup {NoWorker, Ghost}
  /\ streamStep \in [StreamWorkers -> {"idle", "checked"} \cup HasLease]
  /\ jobs \in 0..MaxJobs
  /\ failures \in Nat
  /\ streamFaults \in 0..MaxFaults

LEMMA StreamTypeIs ==
  (StreamTypeOK <=> Flags /\ Counts) /\ (StreamTypeOK' <=> Flags' /\ Counts')
BY DEF StreamTypeOK, Flags, Counts

LEMMA FlagSet ==
  ASSUME NEW S, NEW f \in [S -> BOOLEAN], NEW x, NEW b \in BOOLEAN
  PROVE  [f EXCEPT ![x] = b] \in [S -> BOOLEAN]
OBVIOUS

LEMMA StreamStart ==
  ASSUME StreamInit
  PROVE  StreamInv
<1>1. Flags
  BY Zenon DEF StreamInit, Flags
<1>2. Counts /\ LeaseAtWork
  BY StreamAssumption DEF StreamInit, Counts, LeaseAtWork, HasLease
<1>3. QED
  BY <1>1, <1>2, StreamTypeIs DEF StreamInv

LEMMA FlagsKept ==
  ASSUME Flags, StreamNext
  PROVE  Flags'
<1>1. ASSUME NEW w \in StreamWorkers,
             CheckCircuit(w) \/ AcquireLease(w) \/ UNCHANGED <<leaseLost, supervisorUp, blocked>>
      PROVE  Flags'
  BY <1>1, Zenon DEF Flags, CheckCircuit, AcquireLease, breakerVars
<1>2. ASSUME NEW w \in StreamWorkers,
             Connected(w) \/ Heartbeat(w) \/ StopOnLost(w) \/ ReleaseLease(w)
      PROVE  Flags'
  BY <1>2, FlagSet, Zenon DEF Flags, Connected, Heartbeat, StopOnLost, ReleaseLease, breakerVars
<1>3. ASSUME NEW w \in StreamWorkers, AuthRejected(w) \/ ConnectTimeout(w)
      PROVE  Flags'
  BY <1>3, Zenon
     DEF Flags, AuthRejected, ConnectTimeout, NotConnected, RecordAuthFailure, RecordNetworkFailure,
         breakerVars
<1>4. ASSUME NEW w \in StreamWorkers,
             \/ ReconnectRejected(w) \/ SupervisorCrash(w) \/ StreamShutdown(w)
             \/ StreamWorkerDies(w)
      PROVE  Flags'
  BY <1>4, FlagSet, Zenon
     DEF Flags, ReconnectRejected, SupervisorCrash, StreamShutdown, StreamWorkerDies, breakerVars
<1>5. ASSUME ReconcileStreams \/ LeaseExpires \/ BlockExpires \/ FailuresExpire
      PROVE  Flags'
  BY <1>5, Zenon
     DEF Flags, ReconcileStreams, LeaseExpires, BlockExpires, FailuresExpire, breakerVars
<1>6. QED
  BY <1>1, <1>2, <1>3, <1>4, <1>5 DEF StreamNext, StreamWork

LEMMA StreamCountsKept ==
  ASSUME Counts, LeaseAtWork, StreamNext
  PROVE  Counts' /\ LeaseAtWork'
<1> USE StreamAssumption DEF Counts, LeaseAtWork, HasLease, StreamFault, GoTo
<1>1. ASSUME NEW w \in StreamWorkers, CheckCircuit(w) \/ AcquireLease(w) \/ Connected(w)
      PROVE  Counts' /\ LeaseAtWork'
  BY <1>1 DEF CheckCircuit, AcquireLease, Connected, Redis, breakerVars
<1>2. ASSUME NEW w \in StreamWorkers, Heartbeat(w) \/ StopOnLost(w) \/ ReleaseLease(w)
      PROVE  Counts' /\ LeaseAtWork'
  BY <1>2 DEF Heartbeat, StopOnLost, ReleaseLease, UnlockOwn, Redis, breakerVars
<1>3. ASSUME NEW w \in StreamWorkers, AuthRejected(w) \/ ConnectTimeout(w)
      PROVE  Counts' /\ LeaseAtWork'
  BY <1>3
     DEF AuthRejected, ConnectTimeout, NotConnected, RecordAuthFailure, RecordNetworkFailure,
         breakerVars
<1>4. ASSUME NEW w \in StreamWorkers,
             ReconnectRejected(w) \/ SupervisorCrash(w) \/ StreamShutdown(w)
      PROVE  Counts' /\ LeaseAtWork'
  BY <1>4 DEF ReconnectRejected, SupervisorCrash, StreamShutdown, breakerVars
<1>5. ASSUME NEW w \in StreamWorkers, StreamWorkerDies(w)
      PROVE  Counts' /\ LeaseAtWork'
  BY <1>5 DEF StreamWorkerDies, breakerVars
<1>6. ASSUME ReconcileStreams \/ LeaseExpires \/ BlockExpires \/ FailuresExpire
      PROVE  Counts' /\ LeaseAtWork'
  BY <1>6 DEF ReconcileStreams, LeaseExpires, BlockExpires, FailuresExpire, breakerVars
<1>7. QED
  BY <1>1, <1>2, <1>3, <1>4, <1>5, <1>6 DEF StreamNext, StreamWork

LEMMA StreamStep ==
  ASSUME StreamInv, [StreamNext]_streamVars
  PROVE  StreamInv'
<1>1. CASE StreamNext
  BY <1>1, FlagsKept, StreamCountsKept, StreamTypeIs DEF StreamInv
<1>2. CASE UNCHANGED streamVars
  BY <1>2 DEF streamVars, StreamInv, StreamTypeOK, LeaseAtWork
<1>3. QED
  BY <1>1, <1>2

\* Every reachable state of the stream is of its type: the lease is of a worker,
\* of one that is gone, or of nobody, and the queue keeps its bound.
THEOREM StreamTypes == StreamSpec => []StreamTypeOK
<1>1. StreamInv => StreamTypeOK
  BY DEF StreamInv
<1>2. QED
  BY <1>1, StreamStart, StreamStep, PTL DEF StreamSpec

LEMMA ReleaseStep ==
  ASSUME StreamInv, StreamNext, NEW w \in StreamWorkers, leaseKey = w, leaseKey' # w
  PROVE  streamStep'[w] = "idle" \/ UNCHANGED streamStep
<1> USE StreamAssumption DEF StreamInv, StreamTypeOK, GoTo
<1>1. CASE LeaseExpires
  BY <1>1 DEF LeaseExpires
<1>2. ASSUME NEW v \in StreamWorkers, ReleaseLease(v) \/ StreamWorkerDies(v)
      PROVE  streamStep'[w] = "idle"
  BY <1>2 DEF ReleaseLease, StreamWorkerDies, UnlockOwn, Redis
<1>3. ASSUME NEW v \in StreamWorkers, AcquireLease(v)
      PROVE  FALSE
  BY <1>3 DEF AcquireLease, Redis
<1>4. QED
  BY <1>1, <1>2, <1>3
     DEF StreamNext, StreamWork, CheckCircuit, Connected, Heartbeat, StopOnLost, AuthRejected,
         ConnectTimeout, NotConnected, ReconnectRejected, SupervisorCrash, StreamShutdown, ReconcileStreams,
         BlockExpires, FailuresExpire

\* A held lease is given up by its holder's own end, or by its TTL while every
\* task stays where it is: whatever else ends, dies or unlocks late.
THEOREM LeaseIsOwn == StreamSpec => ReleasedByHolder
<1>1. StreamInv /\ [StreamNext]_streamVars
        => [\A w \in StreamWorkers : leaseKey = w /\ leaseKey' # w =>
              streamStep'[w] = "idle" \/ UNCHANGED streamStep]_streamVars
  BY ReleaseStep
<1>2. QED
  BY <1>1, StreamStart, StreamStep, PTL DEF StreamSpec, ReleasedByHolder

-----------------------------------------------------------------------------
(***************************************************************************)
(* The evaluation of a session: the inductive invariant.                   *)
(***************************************************************************)
\* The uncommitted UPDATE of a claim is the only thing that locks the row; it
\* was made on an active session whose last bar is older, and both stay so.
ClaimHolds ==
  \A w \in Evaluators :
    /\ Step(w, "claimed") <=> rowLock = w
    /\ Step(w, "claimed") => active /\ lastEvaluated < task[w].bar

\* What a task read of the session row is not newer than the row.
ReadsOld ==
  \A w \in Evaluators :
    /\ task[w].last <= lastEvaluated
    /\ task[w].step \in {"fetched", "ready", "claimed"} => task[w].bar > task[w].last

\* Judgements are of committed bars; an active session was judged at its last
\* bar; a mark in a report, read or stored, is the judgement of its bar.
JudgedPast == \A b \in Bars : verdict[b] # "none" => b <= lastEvaluated
JudgedLast == active /\ lastEvaluated > 0 => verdict[lastEvaluated] # "none"
Marked(rep) == rep.mismatch => rep.strike \in Bars /\ verdict[rep.strike] = "mismatch"
MarksTrue == Marked(report) /\ \A w \in Evaluators : Marked(task[w].report)

\* As long as no evaluation outlived its lock there is one at a time, and what
\* it read is what the row still says.
OneAtATime ==
  ~overlapped =>
    /\ \A w \in Evaluators :
         /\ ~Step(w, "idle") => evalLock = w
         /\ task[w].step \in {"read", "fetched", "ready", "claimed"}
              => task[w].last = lastEvaluated
         /\ task[w].step \in {"ready", "claimed"} => task[w].report = report
    /\ active /\ report.mismatch =>
         \A b \in Bars : verdict[b] \in {"match", "mismatch"} => b <= report.strike

BarInv ==
  /\ BarTypeOK /\ ClaimHolds /\ ReadsOld /\ NoBarLost
  /\ JudgedPast /\ JudgedLast /\ MarksTrue /\ OneAtATime

-----------------------------------------------------------------------------
(***************************************************************************)
(* What a step of an evaluation does to its task, and to the session.      *)
(***************************************************************************)
Same == UNCHANGED <<sessionVars, historyVars>>

\* The task goes on.
GoesOn(w) ==
  /\ task' = [task EXCEPT ![w] = task'[w]]
  /\ Same
  /\ \/ /\ Step(w, "idle") /\ evalLock = NoOne /\ evalLock' = w /\ UNCHANGED rowLock
        /\ task'[w] = [IdleTask EXCEPT !.step = "locked"]
     \/ /\ Step(w, "locked") /\ UNCHANGED lockVars
        /\ task'[w] = [task[w] EXCEPT !.step = "read", !.last = lastEvaluated]
     \/ /\ Step(w, "read") /\ UNCHANGED lockVars
        /\ task[w].last < marketBar
        /\ task'[w] = [task[w] EXCEPT !.step = "fetched", !.bar = marketBar]
     \/ /\ Step(w, "fetched") /\ UNCHANGED lockVars
        /\ task'[w] = [task[w] EXCEPT !.step = "ready", !.report = report]
     \/ /\ Step(w, "ready") /\ rowLock = NoOne /\ rowLock' = w /\ UNCHANGED evalLock
        /\ Claimable(w)
        /\ task'[w] = [task[w] EXCEPT !.step = "claimed"]

\* The task ends; a dead worker's lock stays.
Ends(w) ==
  /\ task' = [task EXCEPT ![w] = IdleTask]
  /\ evalLock' = evalLock \/ (evalLock = w /\ evalLock' \in {NoOne, Gone})
  /\ evalLock' # w
  /\ rowLock' = IF rowLock = w THEN NoOne ELSE rowLock
  /\ ~Step(w, "idle")
  /\ UNCHANGED overlapped

Defers(w) ==
  /\ Step(w, "ready")
  /\ report' = Deferred(w) /\ task[w].report.defers < MaxDefers
  /\ UNCHANGED <<active, offReason, lastEvaluated, signalEvents, verdict, passedOver>>

Off(w) ==
  /\ ~Step(w, "idle")
  /\ rowLock \in {NoOne, w} /\ active' = FALSE
  /\ UNCHANGED <<report, signalEvents, passedOver>>
  /\ lastEvaluated' = IF rowLock = w THEN task[w].bar ELSE lastEvaluated
  /\ IF active THEN offReason' \in Reasons ELSE offReason' = offReason
  /\ \/ verdict' = verdict
     \/ /\ Step(w, "claimed")
        /\ verdict' = [verdict EXCEPT ![task[w].bar] = "mismatch"]

LEMMA EvaluatorSteps ==
  ASSUME BarTypeOK, NEW w \in Evaluators, Evaluate(w) \/ Abort(w)
  PROVE  \/ GoesOn(w)
         \/ /\ Ends(w)
            /\ \/ Same \/ Defers(w) \/ Off(w)
               \/ \E seen \in {"unknown", "match", "mismatch"} : CommitBar(w, seen)
<1> USE EvaluationAssumption
<1>1. task' = [task EXCEPT ![w] = task'[w]] \/ ~(\E next : Advance(w, next))
  BY DEF Advance, BarTypeOK
<1>2. Leave(w) /\ ~Step(w, "idle") /\ UNCHANGED overlapped => Ends(w)
  BY DEF Leave, Ends, Advance
<1>3. ASSUME TakeEvalLock(w) \/ ReadSession(w)
      PROVE  GoesOn(w) \/ (Ends(w) /\ Same)
  BY <1>1, <1>2, <1>3
     DEF TakeEvalLock, ReadSession, GoesOn, Same, Advance, BarTypeOK, lockVars, Step, historyVars
<1>4. ASSUME BlockPreflight(w)
      PROVE  Ends(w) /\ Off(w)
  BY <1>2, <1>4 DEF BlockPreflight, SwitchOff, Off, Step, historyVars, Reasons
<1>5. ASSUME FetchBars(w) \/ ReadReport(w)
      PROVE  GoesOn(w) \/ (Ends(w) /\ Same)
  <2>1. CASE ReadReport(w)
    BY <1>1, <2>1
       DEF ReadReport, GoesOn, Same, Advance, BarTypeOK, lockVars, Step, historyVars
  <2>2. task[w].last \in Nat /\ marketBar \in Nat
    BY DEF BarTypeOK, Tasks, Bars
  <2>3. FetchBars(w) => (Leave(w) \/ (task[w].last < marketBar /\ ~Leave(w)))
    BY <2>2 DEF FetchBars
  <2>4. CASE FetchBars(w) /\ Leave(w)
    BY <1>2, <2>4 DEF FetchBars, Same, Step, historyVars
  <2>5. CASE FetchBars(w) /\ ~Leave(w)
    BY <1>1, <2>3, <2>5 DEF FetchBars, GoesOn, Same, Advance, BarTypeOK, lockVars, Step, historyVars
  <2>6. QED
    BY <1>5, <2>1, <2>4, <2>5
<1>6. ASSUME DeferResync(w)
      PROVE  Ends(w) /\ (Same \/ Defers(w))
  BY <1>2, <1>6 DEF DeferResync, MayDefer, Defers, Same, Step, historyVars, sessionVars
<1>7. ASSUME Claim(w)
      PROVE  GoesOn(w) \/ (Ends(w) /\ Same)
  BY <1>1, <1>2, <1>7 DEF Claim, GoesOn, Same, Advance, BarTypeOK, Step, historyVars
<1>8. ASSUME BlockClaimed(w)
      PROVE  Ends(w) /\ Off(w)
  BY <1>2, <1>8 DEF BlockClaimed, SwitchOff, Off, Step, historyVars, Reasons
<1>9. ASSUME BlockDirection(w)
      PROVE  Ends(w) /\ Off(w)
  BY <1>2, <1>9 DEF BlockDirection, SwitchOff, Off, Step, Reasons
<1>10. ASSUME NEW seen \in {"unknown", "match", "mismatch"}, CommitBar(w, seen)
       PROVE  Ends(w)
  BY <1>2, <1>10 DEF CommitBar, Step
<1>11. ASSUME Abort(w)
       PROVE  Ends(w) /\ Same
  BY <1>2, <1>11 DEF Abort, Ends, Advance, Same, historyVars
<1>12. QED
  BY <1>3, <1>4, <1>5, <1>6, <1>7, <1>8, <1>9, <1>10, <1>11 DEF Evaluate

LEMMA FaultsKept ==
  ASSUME BarTypeOK, BarNext
  PROVE  evalFaults' \in 0..MaxEvalFaults /\ marketBar' \in Bars
<1> USE EvaluationAssumption DEF BarTypeOK, Bars
<1>1. ASSUME NEW w \in Evaluators, Evaluate(w)
      PROVE  /\ evalFaults' = evalFaults \/ EvalFault
             /\ marketBar' = marketBar
  <2>1. CASE DeferResync(w)
    BY <2>1 DEF DeferResync
  <2>2. CASE \E seen \in {"unknown", "match", "mismatch"} : CommitBar(w, seen)
    BY <2>2 DEF CommitBar
  <2>3. CASE ~DeferResync(w) /\ ~\E seen \in {"unknown", "match", "mismatch"} : CommitBar(w, seen)
    BY <1>1, <2>3
       DEF Evaluate, TakeEvalLock, ReadSession, BlockPreflight, FetchBars, ReadReport, Claim,
           BlockClaimed, BlockDirection
  <2>4. QED
    BY <2>1, <2>2, <2>3
<1>2. ASSUME NEW w \in Evaluators, Abort(w)
      PROVE  evalFaults' = evalFaults - 1 /\ evalFaults > 0 /\ marketBar' = marketBar
  BY <1>2 DEF Abort, EvalFault
<1>3. ASSUME MarketCloses \/ EvalLockExpires \/ UserStops
      PROVE  evalFaults' \in 0..MaxEvalFaults /\ marketBar' \in Bars
  BY <1>3 DEF MarketCloses, EvalLockExpires, UserStops, EvalFault
<1>4. QED
  BY <1>1, <1>2, <1>3 DEF BarNext, EvalFault

LEMMA TaskFields ==
  ASSUME BarTypeOK, NEW w \in Evaluators
  PROVE  /\ task[w] \in Tasks
         /\ task[w].step \in Steps
         /\ task[w].last \in 0..MaxBar /\ task[w].last \in Nat
         /\ task[w].bar \in 0..MaxBar /\ task[w].bar \in Nat
         /\ task[w].report \in Reports
         /\ lastEvaluated \in Nat /\ marketBar \in Nat
BY EvaluationAssumption DEF BarTypeOK, Tasks, Bars

LEMMA FreshBar ==
  /\ FreshReport \in Reports /\ IdleTask \in Tasks
  /\ IdleTask.step = "idle" /\ IdleTask.last = 0 /\ IdleTask.bar = 0
  /\ IdleTask.report.mismatch = FALSE /\ FreshReport.mismatch = FALSE
BY EvaluationAssumption DEF FreshReport, Reports, IdleTask, Tasks, Steps

\* Where the task stands and what it knows after it went on.
LEMMA GoneOn ==
  ASSUME BarTypeOK, NEW w \in Evaluators, GoesOn(w)
  PROVE  /\ task'[w] \in Tasks
         /\ \A v \in Evaluators \ {w} : task'[v] = task[v]
         /\ task' \in [Evaluators -> Tasks]
<1>1. task'[w] \in Tasks
  <2>1. CASE task'[w] = [IdleTask EXCEPT !.step = "locked"]
    BY <2>1, FreshBar DEF Tasks, Steps
  <2>2. CASE task'[w] = [task[w] EXCEPT !.step = "read", !.last = lastEvaluated]
    BY <2>2, TaskFields DEF Tasks, Steps, BarTypeOK
  <2>3. CASE task'[w] = [task[w] EXCEPT !.step = "fetched", !.bar = marketBar]
    <3>1. marketBar \in 0..MaxBar
      BY EvaluationAssumption DEF BarTypeOK, Bars
    <3>2. QED
      BY <2>3, <3>1, TaskFields DEF Tasks, Steps
  <2>4. CASE task'[w] = [task[w] EXCEPT !.step = "ready", !.report = report]
    BY <2>4, TaskFields DEF Tasks, Steps, BarTypeOK
  <2>5. CASE task'[w] = [task[w] EXCEPT !.step = "claimed"]
    BY <2>5, TaskFields DEF Tasks, Steps
  <2>6. QED
    BY <2>1, <2>2, <2>3, <2>4, <2>5 DEF GoesOn
<1>2. QED
  BY <1>1 DEF GoesOn, BarTypeOK

LEMMA Ended ==
  ASSUME BarTypeOK, NEW w \in Evaluators, Ends(w)
  PROVE  /\ task' \in [Evaluators -> Tasks] /\ task'[w] = IdleTask
         /\ \A v \in Evaluators \ {w} : task'[v] = task[v]
         /\ evalLock' \in Evaluators \cup {NoOne, Gone}
         /\ rowLock' \in Evaluators \cup {NoOne}
         /\ \A v \in Evaluators \ {w} : /\ rowLock' = v <=> rowLock = v
                                        /\ evalLock' = v <=> evalLock = v
         /\ rowLock' # w
BY FreshBar, EvaluationAssumption DEF Ends, BarTypeOK

LEMMA ReportFits ==
  ASSUME BarTypeOK, NEW w \in Evaluators
  PROVE  /\ Defers(w) => report' \in Reports
         /\ \A seen \in {"unknown", "match", "mismatch"} : NextReport(w, seen) \in Reports
<1>1. task[w].report \in Reports /\ task[w].bar \in 0..MaxBar
  BY TaskFields
<1>2. Defers(w) => report' \in Reports
  BY <1>1, EvaluationAssumption DEF Defers, Deferred, Reports
<1>3. [task[w].report EXCEPT !.defers = 0] \in Reports
  BY <1>1, EvaluationAssumption DEF Reports
<1>4. [mismatch |-> TRUE, strike |-> task[w].bar, defers |-> 0] \in Reports
  BY <1>1, EvaluationAssumption DEF Reports
<1>5. QED
  BY <1>2, <1>3, <1>4, FreshBar DEF NextReport

LEMMA EmittedBars ==
  ASSUME BarTypeOK, ReadsOld, NEW w \in Evaluators,
         task[w].step \in {"fetched", "ready", "claimed"}
  PROVE  /\ task[w].bar \in Bars
         /\ Emitted(w) \subseteq Bars
         /\ task[w].last + 1..task[w].bar - 1 \subseteq Bars
BY TaskFields, EvaluationAssumption DEF ReadsOld, Emitted, Bars

LEMMA BarTypesKept ==
  ASSUME BarTypeOK, ReadsOld, BarNext
  PROVE  BarTypeOK'
<1> USE FaultsKept
<1>1. ASSUME NEW w \in Evaluators, GoesOn(w)
      PROVE  BarTypeOK'
  <2>1. task' \in [Evaluators -> Tasks]
    BY <1>1, GoneOn
  <2>2. evalLock' \in Evaluators \cup {NoOne, Gone} /\ rowLock' \in Evaluators \cup {NoOne}
    BY <1>1 DEF GoesOn, BarTypeOK, lockVars
  <2>3. QED
    BY <1>1, <2>1, <2>2 DEF GoesOn, Same, BarTypeOK, sessionVars, historyVars
<1>2. ASSUME NEW w \in Evaluators, Ends(w), Same \/ Defers(w) \/ Off(w)
      PROVE  BarTypeOK'
  <2>1. lastEvaluated' \in 0..MaxBar
    BY <1>2, TaskFields DEF Same, Defers, Off, sessionVars, BarTypeOK
  <2>2. report' \in Reports /\ signalEvents' \subseteq Bars /\ passedOver' \subseteq Bars
    BY <1>2, ReportFits DEF Same, Defers, Off, sessionVars, historyVars, BarTypeOK
  <2>3. active' \in BOOLEAN /\ offReason' \in Reasons
    BY <1>2 DEF Same, Defers, Off, sessionVars, BarTypeOK
  <2>4. verdict' \in [Bars -> {"none", "unknown", "match", "mismatch"}]
    BY <1>2 DEF Same, Defers, Off, historyVars, BarTypeOK
  <2>5. QED
    BY <1>2, <2>1, <2>2, <2>3, <2>4, Ended DEF BarTypeOK, Ends
<1>3. ASSUME NEW w \in Evaluators, Ends(w), NEW seen \in {"unknown", "match", "mismatch"},
             CommitBar(w, seen)
      PROVE  BarTypeOK'
  <2>1. task[w].step = "claimed"
    BY <1>3 DEF CommitBar, Step
  <2>2. lastEvaluated' \in 0..MaxBar /\ report' \in Reports
    BY <1>3, ReportFits, TaskFields DEF CommitBar
  <2>3. signalEvents' \subseteq Bars /\ passedOver' \subseteq Bars
    BY <1>3, <2>1, EmittedBars DEF CommitBar, BarTypeOK
  <2>4. verdict' \in [Bars -> {"none", "unknown", "match", "mismatch"}]
    BY <1>3 DEF CommitBar, BarTypeOK
  <2>5. QED
    BY <1>3, <2>2, <2>3, <2>4, Ended DEF BarTypeOK, CommitBar
<1>4. ASSUME MarketCloses \/ EvalLockExpires \/ UserStops
      PROVE  BarTypeOK'
  BY <1>4
     DEF MarketCloses, EvalLockExpires, UserStops, BarTypeOK, sessionVars, historyVars, lockVars,
         Reasons
<1>5. QED
  BY <1>1, <1>2, <1>3, <1>4, EvaluatorSteps DEF BarNext

-----------------------------------------------------------------------------
(***************************************************************************)
(* The claim, and the bars.                                                *)
(***************************************************************************)
\* How the session's own columns move: never back, and only by who may.
Moves ==
  /\ active' => active
  /\ lastEvaluated <= lastEvaluated'
  /\ \A b \in Bars : verdict'[b] # verdict[b] =>
       lastEvaluated < b /\ b = lastEvaluated' /\ verdict'[b] # "none"

LEMMA SessionMoves ==
  ASSUME BarTypeOK, BarTypeOK', ClaimHolds, ReadsOld, BarNext
  PROVE  Moves
<1> USE EvaluationAssumption
<1>1. CASE Same
  BY <1>1, TaskFields DEF Same, Moves, sessionVars, historyVars, BarTypeOK
<1>2. ASSUME NEW w \in Evaluators, Defers(w)
      PROVE  Moves
  BY <1>2, TaskFields DEF Defers, Moves, BarTypeOK
<1>3. ASSUME NEW w \in Evaluators, Off(w)
      PROVE  Moves
  <2>1. rowLock = w => lastEvaluated < task[w].bar
    BY DEF ClaimHolds
  <2>2. Step(w, "claimed") => rowLock = w
    BY DEF ClaimHolds
  <2>3. \A b \in Bars : verdict'[b] # verdict[b] =>
          Step(w, "claimed") /\ b = task[w].bar /\ verdict'[b] = "mismatch"
    BY <1>3 DEF Off, BarTypeOK
  <2>4. QED
    BY <1>3, <2>1, <2>2, <2>3, TaskFields DEF Off, Moves, BarTypeOK
<1>4. ASSUME NEW w \in Evaluators, NEW seen \in {"unknown", "match", "mismatch"},
             CommitBar(w, seen)
      PROVE  Moves
  <2>1. lastEvaluated < task[w].bar
    BY <1>4 DEF ClaimHolds, CommitBar
  <2>2. \A b \in Bars : verdict'[b] # verdict[b] => b = task[w].bar /\ verdict'[b] = seen
    BY <1>4 DEF CommitBar, BarTypeOK
  <2>3. QED
    BY <1>4, <2>1, <2>2, TaskFields DEF CommitBar, Moves
<1>5. ASSUME MarketCloses \/ EvalLockExpires \/ UserStops
      PROVE  Moves
  BY <1>5, TaskFields
     DEF MarketCloses, EvalLockExpires, UserStops, Moves, sessionVars, historyVars, BarTypeOK
<1>6. QED
  BY <1>1, <1>2, <1>3, <1>4, <1>5, EvaluatorSteps DEF BarNext, GoesOn

LEMMA ClaimKept ==
  ASSUME BarTypeOK, ClaimHolds, BarNext
  PROVE  ClaimHolds'
<1> USE EvaluationAssumption
<1>1. ASSUME NEW w \in Evaluators, GoesOn(w), NEW v \in Evaluators
      PROVE  /\ task'[v].step = "claimed" <=> rowLock' = v
             /\ task'[v].step = "claimed" => active' /\ lastEvaluated' < task'[v].bar
  <2>1. UNCHANGED <<active, lastEvaluated>>
    BY <1>1 DEF GoesOn, Same, sessionVars
  <2>2. CASE v # w
    <3>1. task'[v] = task[v]
      BY <1>1, <2>2, GoneOn
    <3>2. rowLock' = v <=> rowLock = v
      BY <1>1, <2>2 DEF GoesOn, lockVars
    <3>3. QED
      BY <2>1, <3>1, <3>2 DEF ClaimHolds, Step
  <2>3. CASE v = w
    <3>1. CASE task'[w] = [task[w] EXCEPT !.step = "claimed"] /\ rowLock' = w /\ Claimable(w)
      BY <2>1, <2>3, <3>1, TaskFields DEF Claimable, Tasks
    <3>2. CASE ~(task'[w] = [task[w] EXCEPT !.step = "claimed"] /\ rowLock' = w /\ Claimable(w))
      <4>1. rowLock' = rowLock /\ ~Step(w, "claimed")
        BY <1>1, <3>2 DEF GoesOn, lockVars, Step
      <4>2. task'[w].step # "claimed"
        BY <1>1, <3>2, TaskFields, FreshBar DEF GoesOn, Tasks, Steps
      <4>3. QED
        BY <2>3, <4>1, <4>2 DEF ClaimHolds
    <3>3. QED
      BY <3>1, <3>2
  <2>4. QED
    BY <2>2, <2>3
<1>2. ASSUME NEW w \in Evaluators, Ends(w),
             \/ Same \/ Defers(w) \/ Off(w)
             \/ \E seen \in {"unknown", "match", "mismatch"} : CommitBar(w, seen),
             NEW v \in Evaluators
      PROVE  /\ task'[v].step = "claimed" <=> rowLock' = v
             /\ task'[v].step = "claimed" => active' /\ lastEvaluated' < task'[v].bar
  <2>1. CASE v = w
    BY <1>2, <2>1, Ended, FreshBar
  <2>2. CASE v # w
    <3>1. task'[v] = task[v] /\ (rowLock' = v <=> rowLock = v)
      BY <1>2, <2>2, Ended
    <3>2. rowLock = v => UNCHANGED <<active, lastEvaluated>>
      <4>1. CASE Same \/ Defers(w)
        BY <4>1 DEF Same, Defers, sessionVars
      <4>2. CASE Off(w)
        BY <2>2, <4>2 DEF Off
      <4>3. CASE \E seen \in {"unknown", "match", "mismatch"} : CommitBar(w, seen)
        BY <2>2, <4>3 DEF CommitBar, ClaimHolds
      <4>4. QED
        BY <1>2, <4>1, <4>2, <4>3
    <3>3. QED
      BY <3>1, <3>2 DEF ClaimHolds, Step
  <2>3. QED
    BY <2>1, <2>2
<1>3. ASSUME MarketCloses \/ EvalLockExpires \/ UserStops
      PROVE  ClaimHolds'
  BY <1>3
     DEF MarketCloses, EvalLockExpires, UserStops, ClaimHolds, Step, sessionVars, lockVars
<1>4. QED
  BY <1>1, <1>2, <1>3, EvaluatorSteps DEF BarNext, ClaimHolds, Step

LEMMA ReadsKept ==
  ASSUME BarTypeOK, BarTypeOK', ReadsOld, Moves, BarNext
  PROVE  ReadsOld'
<1> USE EvaluationAssumption
<1>1. lastEvaluated \in Nat /\ lastEvaluated' \in Nat /\ lastEvaluated <= lastEvaluated'
  BY DEF BarTypeOK, Moves
<1>2. ASSUME NEW v \in Evaluators, task'[v] = task[v] \/ task'[v] = IdleTask
      PROVE  /\ task'[v].last <= lastEvaluated'
             /\ task'[v].step \in {"fetched", "ready", "claimed"} => task'[v].bar > task'[v].last
  BY <1>1, <1>2, TaskFields, FreshBar DEF ReadsOld
<1>3. ASSUME NEW w \in Evaluators, GoesOn(w)
      PROVE  /\ task'[w].last <= lastEvaluated'
             /\ task'[w].step \in {"fetched", "ready", "claimed"} => task'[w].bar > task'[w].last
  <2>1. lastEvaluated' = lastEvaluated
    BY <1>3 DEF GoesOn, Same, sessionVars
  <2>2. CASE task'[w] = [IdleTask EXCEPT !.step = "locked"]
    BY <1>1, <2>2, FreshBar DEF Tasks
  <2>3. CASE task'[w] = [task[w] EXCEPT !.step = "read", !.last = lastEvaluated]
    BY <1>1, <2>1, <2>3, TaskFields DEF Tasks
  <2>4. CASE task'[w] = [task[w] EXCEPT !.step = "fetched", !.bar = marketBar]
             /\ task[w].last < marketBar
    BY <1>1, <2>1, <2>4, TaskFields DEF Tasks, ReadsOld
  <2>5. CASE /\ Step(w, "fetched")
             /\ task'[w] = [task[w] EXCEPT !.step = "ready", !.report = report]
    BY <1>1, <2>1, <2>5, TaskFields DEF Tasks, ReadsOld, Step
  <2>6. CASE Step(w, "ready") /\ task'[w] = [task[w] EXCEPT !.step = "claimed"]
    BY <1>1, <2>1, <2>6, TaskFields DEF Tasks, ReadsOld, Step
  <2>7. QED
    BY <1>3, <2>2, <2>3, <2>4, <2>5, <2>6 DEF GoesOn
<1>4. ASSUME MarketCloses \/ EvalLockExpires \/ UserStops
      PROVE  task' = task
  BY <1>4 DEF MarketCloses, EvalLockExpires, UserStops
<1>5. ASSUME NEW w \in Evaluators, Evaluate(w) \/ Abort(w), NEW v \in Evaluators
      PROVE  /\ task'[v].last <= lastEvaluated'
             /\ task'[v].step \in {"fetched", "ready", "claimed"} => task'[v].bar > task'[v].last
  BY <1>2, <1>3, <1>5, EvaluatorSteps, GoneOn, Ended
<1>6. QED
  BY <1>2, <1>4, <1>5 DEF BarNext, ReadsOld

\* The bars of a commit: those before the task's last one are accounted for,
\* and the commit accounts for the rest.
LEMMA CommitCovers ==
  ASSUME BarTypeOK, ReadsOld, NoBarLost, active, NEW w \in Evaluators,
         NEW seen \in {"unknown", "match", "mismatch"}, CommitBar(w, seen)
  PROVE  1..task[w].bar \subseteq signalEvents' \cup passedOver'
<1>1. /\ task[w].last <= lastEvaluated /\ task[w].last < task[w].bar
      /\ task[w].last \in Nat /\ task[w].bar \in Nat /\ lastEvaluated \in Nat
  BY TaskFields DEF ReadsOld, CommitBar, Step
<1>2. 1..task[w].last \subseteq signalEvents \cup passedOver
  BY <1>1 DEF NoBarLost
<1>3. signalEvents \subseteq signalEvents' /\ passedOver \subseteq passedOver'
  BY DEF CommitBar
<1>4. task[w].last + 1..task[w].bar \subseteq signalEvents' \cup passedOver'
  <2>1. CASE task[w].last = 0 \/ NeedsResync(w)
    BY <1>1, <2>1 DEF CommitBar, Emitted
  <2>2. CASE ~(task[w].last = 0 \/ NeedsResync(w))
    BY <2>2 DEF CommitBar, Emitted
  <2>3. QED
    BY <2>1, <2>2
<1>5. QED
  BY <1>1, <1>2, <1>3, <1>4

LEMMA BarsKept ==
  ASSUME BarTypeOK, ReadsOld, NoBarLost, BarNext
  PROVE  NoBarLost'
<1>1. CASE Same
  BY <1>1 DEF Same, NoBarLost, sessionVars, historyVars
<1>2. ASSUME NEW w \in Evaluators, Defers(w) \/ Off(w)
      PROVE  NoBarLost'
  BY <1>2 DEF Defers, Off, NoBarLost
<1>3. ASSUME NEW w \in Evaluators, NEW seen \in {"unknown", "match", "mismatch"},
             CommitBar(w, seen)
      PROVE  NoBarLost'
  BY <1>3, CommitCovers DEF NoBarLost, CommitBar
<1>4. ASSUME MarketCloses \/ EvalLockExpires \/ UserStops
      PROVE  NoBarLost'
  BY <1>4 DEF MarketCloses, EvalLockExpires, UserStops, NoBarLost, sessionVars, historyVars
<1>5. QED
  BY <1>1, <1>2, <1>3, <1>4, EvaluatorSteps DEF BarNext, GoesOn

-----------------------------------------------------------------------------
(***************************************************************************)
(* The judgements.                                                         *)
(***************************************************************************)
LEMMA PastKept ==
  ASSUME BarTypeOK, BarTypeOK', JudgedPast, Moves
  PROVE  JudgedPast'
<1>1. lastEvaluated \in Nat /\ lastEvaluated' \in Nat /\ lastEvaluated <= lastEvaluated'
  BY EvaluationAssumption DEF BarTypeOK, Moves
<1>2. ASSUME NEW b \in Bars, verdict'[b] # "none"
      PROVE  b <= lastEvaluated'
  <2>1. CASE verdict'[b] = verdict[b]
    <3>1. b <= lastEvaluated /\ b \in Nat
      BY <1>2, <2>1, EvaluationAssumption DEF JudgedPast, Bars
    <3>2. QED
      BY <1>1, <3>1
  <2>2. CASE verdict'[b] # verdict[b]
    BY <1>1, <2>2 DEF Moves
  <2>3. QED
    BY <2>1, <2>2
<1>3. QED
  BY <1>2 DEF JudgedPast

LEMMA LastKept ==
  ASSUME BarTypeOK, BarTypeOK', JudgedLast, Moves, ReadsOld, BarNext
  PROVE  JudgedLast'
<1>1. ASSUME active', lastEvaluated' # lastEvaluated
      PROVE  verdict'[lastEvaluated'] # "none"
  <2>1. PICK w \in Evaluators, seen \in {"unknown", "match", "mismatch"} : CommitBar(w, seen)
    BY <1>1, EvaluatorSteps
       DEF BarNext, GoesOn, Same, Defers, Off, MarketCloses, EvalLockExpires, UserStops, sessionVars
  <2>2. task[w].bar \in Bars
    BY <2>1, EmittedBars DEF CommitBar, Step
  <2>3. QED
    BY <2>1, <2>2 DEF CommitBar, BarTypeOK
<1>2. ASSUME active', lastEvaluated' = lastEvaluated, lastEvaluated' > 0
      PROVE  verdict'[lastEvaluated'] # "none"
  <2>1. lastEvaluated \in Bars /\ active
    BY <1>2, EvaluationAssumption DEF BarTypeOK, Bars, Moves
  <2>2. verdict[lastEvaluated] # "none"
    BY <1>2, <2>1 DEF JudgedLast
  <2>3. QED
    BY <1>2, <2>1, <2>2 DEF Moves
<1>3. QED
  BY <1>1, <1>2 DEF JudgedLast

\* A judgement is never revised, so a mark that was true stays true.
LEMMA MarkStays ==
  ASSUME BarTypeOK, BarTypeOK', JudgedPast, Moves, NEW rep, Marked(rep)
  PROVE  Marked(rep)'
<1>1. ASSUME rep.mismatch
      PROVE  rep.strike \in Bars /\ verdict'[rep.strike] = "mismatch"
  <2>1. rep.strike \in Bars /\ verdict[rep.strike] = "mismatch"
    BY <1>1 DEF Marked
  <2>2. rep.strike <= lastEvaluated /\ rep.strike \in Nat /\ lastEvaluated \in Nat
    BY <2>1, EvaluationAssumption DEF JudgedPast, Bars, BarTypeOK
  <2>3. QED
    BY <2>1, <2>2 DEF Moves
<1>2. QED
  BY <1>1 DEF Marked

LEMMA MarksKept ==
  ASSUME BarTypeOK, BarTypeOK', JudgedPast, Moves, MarksTrue, ReadsOld, BarNext
  PROVE  MarksTrue'
<1>1. \A rep : Marked(rep) => (rep.mismatch =>
                 rep.strike \in Bars /\ verdict'[rep.strike] = "mismatch")
  BY MarkStays DEF Marked
<1>2. ASSUME NEW w \in Evaluators, NEW seen \in {"unknown", "match", "mismatch"},
             CommitBar(w, seen)
      PROVE  report'.mismatch => report'.strike \in Bars /\ verdict'[report'.strike] = "mismatch"
  <2>1. task[w].bar \in Bars
    BY <1>2, EmittedBars DEF CommitBar, Step
  <2>2. CASE seen = "unknown"
    <3>1. report'.mismatch = task[w].report.mismatch /\ report'.strike = task[w].report.strike
      BY <1>2, <2>2, TaskFields DEF CommitBar, NextReport, Reports
    <3>2. QED
      BY <1>1, <3>1 DEF MarksTrue
  <2>3. CASE seen = "match"
    BY <1>2, <2>3, FreshBar DEF CommitBar, NextReport
  <2>4. CASE seen = "mismatch"
    BY <1>2, <2>1, <2>4 DEF CommitBar, NextReport, BarTypeOK
  <2>5. QED
    BY <2>2, <2>3, <2>4
<1>3. ASSUME NEW w \in Evaluators, Defers(w)
      PROVE  report'.mismatch => report'.strike \in Bars /\ verdict'[report'.strike] = "mismatch"
  <2>1. report'.mismatch = task[w].report.mismatch /\ report'.strike = task[w].report.strike
    BY <1>3, TaskFields DEF Defers, Deferred, Reports
  <2>2. QED
    BY <1>1, <2>1 DEF MarksTrue
<1>4. ASSUME report' = report
      PROVE  report'.mismatch => report'.strike \in Bars /\ verdict'[report'.strike] = "mismatch"
  BY <1>1, <1>4 DEF MarksTrue
<1>5. report'.mismatch => report'.strike \in Bars /\ verdict'[report'.strike] = "mismatch"
  BY <1>2, <1>3, <1>4, EvaluatorSteps
     DEF BarNext, GoesOn, Same, Off, MarketCloses, EvalLockExpires, UserStops, sessionVars
<1>6. ASSUME NEW v \in Evaluators
      PROVE  \/ task'[v].report \in {task[v].report, report}
             \/ task'[v].report.mismatch = FALSE
  <2>1. ASSUME NEW w \in Evaluators, GoesOn(w)
        PROVE  task'[w].report \in {task[w].report, report} \/ task'[w].report.mismatch = FALSE
    BY <2>1, TaskFields, FreshBar DEF GoesOn, Tasks
  <2>2. ASSUME MarketCloses \/ EvalLockExpires \/ UserStops
        PROVE  task' = task
    BY <2>2 DEF MarketCloses, EvalLockExpires, UserStops
  <2>3. QED
    BY <2>1, <2>2, EvaluatorSteps, GoneOn, Ended, FreshBar DEF BarNext
<1>7. QED
  BY <1>1, <1>5, <1>6 DEF MarksTrue, Marked

-----------------------------------------------------------------------------
(***************************************************************************)
(* One evaluation at a time, while no lock is overrun.                     *)
(***************************************************************************)
Reading(v) ==
  /\ ~Step(v, "idle") => evalLock = v
  /\ task[v].step \in {"read", "fetched", "ready", "claimed"} => task[v].last = lastEvaluated
  /\ task[v].step \in {"ready", "claimed"} => task[v].report = report
Newest ==
  active /\ report.mismatch =>
    \A b \in Bars : verdict[b] \in {"match", "mismatch"} => b <= report.strike

LEMMA ReadingOn ==
  ASSUME BarTypeOK, \A v \in Evaluators : Reading(v), NEW w \in Evaluators, GoesOn(w),
         NEW v \in Evaluators
  PROVE  Reading(v)'
<1> USE EvaluationAssumption
<1>1. UNCHANGED <<lastEvaluated, report>>
  BY DEF GoesOn, Same, sessionVars
<1>2. CASE v # w
  <2>1. task'[v] = task[v]
    BY <1>2, GoneOn
  <2>2. ~Step(v, "idle") => evalLock' = v
    BY <1>2 DEF GoesOn, Reading, lockVars
  <2>3. QED
    BY <1>1, <2>1, <2>2 DEF Reading, Step
<1>3. CASE v = w
  <2>1. CASE evalLock' = w /\ task'[w] = [IdleTask EXCEPT !.step = "locked"]
    BY <1>3, <2>1, FreshBar DEF Reading, Step, Tasks
  <2>2. CASE /\ Step(w, "locked") /\ UNCHANGED lockVars
             /\ task'[w] = [task[w] EXCEPT !.step = "read", !.last = lastEvaluated]
    BY <1>1, <1>3, <2>2, TaskFields DEF Reading, Step, Tasks, lockVars
  <2>3. CASE /\ Step(w, "read") /\ UNCHANGED lockVars
             /\ task'[w] = [task[w] EXCEPT !.step = "fetched", !.bar = marketBar]
    BY <1>1, <1>3, <2>3, TaskFields DEF Reading, Step, Tasks, lockVars
  <2>4. CASE /\ Step(w, "fetched") /\ UNCHANGED lockVars
             /\ task'[w] = [task[w] EXCEPT !.step = "ready", !.report = report]
    BY <1>1, <1>3, <2>4, TaskFields DEF Reading, Step, Tasks, lockVars
  <2>5. CASE /\ Step(w, "ready") /\ UNCHANGED evalLock
             /\ task'[w] = [task[w] EXCEPT !.step = "claimed"]
    BY <1>1, <1>3, <2>5, TaskFields DEF Reading, Step, Tasks
  <2>6. QED
    BY <2>1, <2>2, <2>3, <2>4, <2>5 DEF GoesOn
<1>4. QED
  BY <1>2, <1>3

LEMMA NewestKept ==
  ASSUME BarTypeOK, BarTypeOK', ReadsOld, JudgedPast', Moves, NEW w \in Evaluators, Reading(w), Newest,
         Same \/ Defers(w) \/ Off(w)
           \/ \E seen \in {"unknown", "match", "mismatch"} : CommitBar(w, seen)
  PROVE  Newest'
<1>1. CASE Same
  BY <1>1 DEF Same, Newest, sessionVars, historyVars
<1>2. CASE Defers(w)
  <2>1. report'.mismatch = report.mismatch /\ report'.strike = report.strike
    BY <1>2, TaskFields DEF Defers, Deferred, Reports, Reading, Step
  <2>2. QED
    BY <1>2, <2>1 DEF Defers, Newest
<1>3. CASE Off(w)
  BY <1>3 DEF Off, Newest
<1>4. ASSUME NEW seen \in {"unknown", "match", "mismatch"}, CommitBar(w, seen)
      PROVE  Newest'
  <2>1. task[w].bar \in Bars /\ task[w].report = report /\ active' = active
    BY <1>4, EmittedBars DEF CommitBar, Step, Reading
  <2>2. verdict' = [verdict EXCEPT ![task[w].bar] = seen]
    BY <1>4 DEF CommitBar
  <2>3. CASE seen = "unknown"
    <3>1. report'.mismatch = report.mismatch /\ report'.strike = report.strike
      BY <1>4, <2>1, <2>3, TaskFields DEF CommitBar, NextReport, Reports
    <3>2. \A b \in Bars : verdict'[b] \in {"match", "mismatch"} => verdict'[b] = verdict[b]
      BY <2>2, <2>3 DEF BarTypeOK
    <3>3. QED
      BY <2>1, <3>1, <3>2 DEF Newest
  <2>4. CASE seen = "match"
    BY <1>4, <2>4, FreshBar DEF CommitBar, NextReport, Newest
  <2>5. CASE seen = "mismatch"
    <3>1. report'.strike = lastEvaluated'
      BY <1>4, <2>5 DEF CommitBar, NextReport
    <3>2. QED
      BY <3>1 DEF JudgedPast, Newest
  <2>6. QED
    BY <2>3, <2>4, <2>5
<1>5. QED
  BY <1>1, <1>2, <1>3, <1>4

LEMMA OneKept ==
  ASSUME BarTypeOK, BarTypeOK', ReadsOld, JudgedPast', Moves, OneAtATime, BarNext
  PROVE  OneAtATime'
<1> USE EvaluationAssumption
<1>1. OneAtATime <=> (~overlapped => Newest /\ \A v \in Evaluators : Reading(v))
  BY DEF OneAtATime, Newest, Reading
<1>2. SUFFICES ASSUME ~overlapped'
               PROVE  Newest' /\ \A v \in Evaluators : Reading(v)'
  BY DEF OneAtATime, Newest, Reading
<1>3. ASSUME NEW w \in Evaluators, Evaluate(w) \/ Abort(w)
      PROVE  Newest' /\ \A v \in Evaluators : Reading(v)'
  <2>1. CASE GoesOn(w)
    <3>1. ~overlapped /\ Same
      BY <1>2, <2>1 DEF GoesOn, Same, historyVars
    <3>2. QED
      BY <1>1, <2>1, <3>1, ReadingOn, NewestKept
  <2>2. CASE Ends(w) /\ (\/ Same \/ Defers(w) \/ Off(w)
                         \/ \E seen \in {"unknown", "match", "mismatch"} : CommitBar(w, seen))
    <3>1. ~overlapped /\ evalLock = w
      BY <1>1, <1>2, <2>2 DEF Ends, Reading
    <3>2. \A v \in Evaluators : task'[v].step = "idle"
      BY <1>1, <2>2, <3>1, Ended, FreshBar DEF Reading, Step
    <3>3. \A v \in Evaluators : Reading(v)'
      BY <3>2 DEF Reading, Step
    <3>4. QED
      BY <1>1, <2>2, <3>1, <3>3, NewestKept
  <2>3. QED
    BY <1>3, <2>1, <2>2, EvaluatorSteps
<1>4. CASE MarketCloses \/ UserStops
  <2>1. ~overlapped /\ UNCHANGED <<task, evalLock, lastEvaluated, report, verdict>>
        /\ (active' => active)
    BY <1>2, <1>4 DEF MarketCloses, UserStops, sessionVars, historyVars, lockVars
  <2>2. QED
    BY <1>1, <2>1 DEF Reading, Newest, Step
<1>5. CASE EvalLockExpires
  <2>1. ~overlapped /\ evalLock = Gone /\ UNCHANGED <<task, lastEvaluated, report, verdict, active>>
    BY <1>2, <1>5 DEF EvalLockExpires, sessionVars
  <2>2. \A v \in Evaluators : Step(v, "idle")
    BY <1>1, <2>1 DEF Reading
  <2>3. QED
    BY <1>1, <2>1, <2>2 DEF Reading, Newest, Step
<1>6. QED
  BY <1>3, <1>4, <1>5 DEF BarNext

-----------------------------------------------------------------------------
(***************************************************************************)
(* The theorems.                                                           *)
(***************************************************************************)
LEMMA BarStart ==
  ASSUME BarInit
  PROVE  BarInv
<1> USE EvaluationAssumption, FreshBar
<1>1. BarTypeOK
  <2>1. 0 \in 0..MaxBar /\ 1 \in Bars /\ MaxEvalFaults \in 0..MaxEvalFaults
    BY DEF Bars
  <2>2. verdict \in [Bars -> {"none", "unknown", "match", "mismatch"}]
    BY DEF BarInit
  <2>3. task \in [Evaluators -> Tasks]
    BY DEF BarInit
  <2>4. QED
    BY <2>1, <2>2, <2>3 DEF BarInit, BarTypeOK, Reasons
<1>2. \A w \in Evaluators : task[w] = IdleTask
  BY DEF BarInit
<1>3. ClaimHolds /\ ReadsOld /\ OneAtATime
  BY <1>2 DEF BarInit, ClaimHolds, ReadsOld, OneAtATime, Step
<1>4. NoBarLost /\ JudgedPast /\ JudgedLast
  BY DEF BarInit, NoBarLost, JudgedPast, JudgedLast
<1>5. MarksTrue
  BY <1>2 DEF BarInit, MarksTrue, Marked
<1>6. QED
  BY <1>1, <1>3, <1>4, <1>5 DEF BarInv

LEMMA BarStep ==
  ASSUME BarInv, [BarNext]_evalVars
  PROVE  BarInv'
<1>1. CASE BarNext
  <2>1. BarTypeOK'
    BY <1>1, BarTypesKept DEF BarInv
  <2>2. Moves
    BY <1>1, <2>1, SessionMoves DEF BarInv
  <2>3. ClaimHolds' /\ ReadsOld' /\ NoBarLost'
    BY <1>1, <2>1, <2>2, ClaimKept, ReadsKept, BarsKept DEF BarInv
  <2>4. JudgedPast' /\ JudgedLast' /\ MarksTrue'
    BY <1>1, <2>1, <2>2, PastKept, LastKept, MarksKept DEF BarInv
  <2>5. OneAtATime'
    BY <1>1, <2>1, <2>2, <2>4, OneKept DEF BarInv
  <2>6. QED
    BY <2>1, <2>3, <2>4, <2>5 DEF BarInv
<1>2. CASE UNCHANGED evalVars
  <2> USE <1>2 DEF evalVars, sessionVars, historyVars, lockVars
  <2>1. BarTypeOK' /\ ClaimHolds' /\ ReadsOld' /\ NoBarLost'
    BY DEF BarInv, BarTypeOK, ClaimHolds, ReadsOld, NoBarLost, Step
  <2>2. JudgedPast' /\ JudgedLast' /\ MarksTrue' /\ OneAtATime'
    BY DEF BarInv, JudgedPast, JudgedLast, MarksTrue, Marked, OneAtATime, Step
  <2>3. QED
    BY <2>1, <2>2 DEF BarInv
<1>3. QED
  BY <1>1, <1>2

\* Every reachable state of an evaluation is of its type.
THEOREM BarTypes == BarSpec => []BarTypeOK
<1>1. BarInv => BarTypeOK
  BY DEF BarInv
<1>2. QED
  BY <1>1, BarStart, BarStep, PTL DEF BarSpec

\* Whatever locks are lost, transactions fail or workers die, an active session
\* has the signals of every bar up to the one it claims last, but for those it
\* passed over on purpose.
THEOREM BarsAreKept == BarSpec => []NoBarLost
<1>1. BarInv => NoBarLost
  BY DEF BarInv
<1>2. QED
  BY <1>1, BarStart, BarStep, PTL DEF BarSpec

LEMMA OffStep ==
  ASSUME BarInv, BarNext, ~active
  PROVE  UNCHANGED <<active, offReason, lastEvaluated, signalEvents>>
<1> USE DEF BarInv
<1>1. \A w \in Evaluators : ~Step(w, "claimed") /\ rowLock # w
  BY DEF ClaimHolds
<1>2. active = FALSE
  BY DEF BarTypeOK
<1>3. CASE Same
  BY <1>3 DEF Same, sessionVars
<1>4. ASSUME NEW w \in Evaluators, Defers(w) \/ Off(w)
      PROVE  UNCHANGED <<active, offReason, lastEvaluated, signalEvents>>
  BY <1>1, <1>2, <1>4 DEF Defers, Off
<1>5. ASSUME NEW w \in Evaluators, NEW seen \in {"unknown", "match", "mismatch"},
             CommitBar(w, seen)
      PROVE  FALSE
  BY <1>1, <1>5 DEF CommitBar
<1>6. ASSUME MarketCloses \/ EvalLockExpires \/ UserStops
      PROVE  UNCHANGED <<active, offReason, lastEvaluated, signalEvents>>
  BY <1>6 DEF MarketCloses, EvalLockExpires, UserStops, sessionVars
<1>7. QED
  BY <1>3, <1>4, <1>5, <1>6, EvaluatorSteps DEF BarNext, GoesOn

\* A session that is off stays as it is: no evaluation that read it as active
\* claims a bar, stores an event or replaces the reason afterwards.
THEOREM OffStaysSilent == BarSpec => OffIsSilent
<1>1. BarInv /\ [BarNext]_evalVars
        => [~active => UNCHANGED <<active, offReason, lastEvaluated, signalEvents>>]_evalVars
  BY OffStep
<1>2. QED
  BY <1>1, BarStart, BarStep, PTL DEF BarSpec, OffIsSilent

\* The second strike and the first: where a session dies of its direction.
LEMMA DirectionStep ==
  ASSUME BarInv, BarNext, offReason # "direction", offReason' = "direction"
  PROVE  \E b \in JudgedBefore(lastEvaluated') :
           /\ verdict[b] = "mismatch" /\ lastEvaluated' - b <= StrikeMaxBars
           /\ ~overlapped => /\ \A c \in JudgedBefore(lastEvaluated') : c <= b
                             /\ verdict[lastEvaluated' - 1] # "none"
<1> USE EvaluationAssumption DEF BarInv
<1>1. PICK w \in Evaluators : BlockDirection(w)
  <2>1. ASSUME NEW w \in Evaluators, Evaluate(w), ~BlockDirection(w)
        PROVE  FALSE
    BY <2>1
       DEF Evaluate, TakeEvalLock, ReadSession, BlockPreflight, FetchBars, ReadReport,
           DeferResync, Claim, BlockClaimed, CommitBar, SwitchOff, sessionVars
  <2>2. QED
    BY <2>1 DEF BarNext, Abort, MarketCloses, EvalLockExpires, UserStops, sessionVars
<1> DEFINE now == task[w].bar
           strike == task[w].report.strike
<1>2. /\ task[w].step = "claimed" /\ rowLock = w /\ active /\ lastEvaluated < now
      /\ lastEvaluated' = now
      /\ task[w].report.mismatch /\ now - strike <= StrikeMaxBars
      /\ ~(task[w].last > 0 /\ now - task[w].last > 1)
  BY <1>1 DEF BlockDirection, SecondStrike, EvaluationIsGapped, SwitchOff, ClaimHolds, Step
<1>3. /\ strike \in Bars /\ verdict[strike] = "mismatch"
      /\ strike <= lastEvaluated /\ strike \in Nat /\ now \in Nat /\ lastEvaluated \in Nat
  BY <1>2, TaskFields DEF MarksTrue, Marked, JudgedPast, Bars
<1>4. strike \in JudgedBefore(now)
  BY <1>2, <1>3 DEF JudgedBefore
<1>5. ASSUME ~overlapped
      PROVE  /\ \A c \in JudgedBefore(now) : c <= strike
             /\ verdict[now - 1] # "none"
  <2>1. task[w].report = report /\ task[w].last = lastEvaluated
    BY <1>2, <1>5 DEF OneAtATime
  <2>2. \A c \in JudgedBefore(now) : c <= strike
    BY <1>2, <1>5, <2>1 DEF OneAtATime, JudgedBefore
  <2>3. lastEvaluated > 0 /\ now - 1 = lastEvaluated
    BY <1>2, <1>3, <2>1, TaskFields DEF Bars
  <2>4. QED
    BY <1>2, <2>2, <2>3 DEF JudgedLast
<1>6. QED
  BY <1>2, <1>3, <1>4, <1>5

\* A session dies of a wrong direction only on a second strike: a bar not too
\* long before was judged wrong too, and while no evaluation outlived its lock
\* that was the last judgement, one bar after the other.
THEOREM TwoStrikes == BarSpec => DirectionNeedsTwo
<1>1. BarInv /\ [BarNext]_evalVars
        => [offReason # "direction" /\ offReason' = "direction" =>
              \E b \in JudgedBefore(lastEvaluated') :
                /\ verdict[b] = "mismatch" /\ lastEvaluated' - b <= StrikeMaxBars
                /\ ~overlapped => /\ \A c \in JudgedBefore(lastEvaluated') : c <= b
                                  /\ verdict[lastEvaluated' - 1] # "none"]_evalVars
  BY DirectionStep
<1>2. QED
  BY <1>1, BarStart, BarStep, PTL DEF BarSpec, DirectionNeedsTwo

-----------------------------------------------------------------------------
(***************************************************************************)
(* The registry of live sessions: the inductive invariant.                 *)
(***************************************************************************)
\* A task has what the step it is at reads.
Furnished(r) ==
  /\ request[r].at \in {"checked", "counted", "admitted"} => request[r].owner \in Owners
  /\ request[r].at \in {"entry", "preparing", "claimed", "sending", "submitting"}
       => request[r].entry \in EntryIds
  /\ request[r].at = "preparing" => request[r].slot \in Slots

\* A registration past its second count holds the lock of its user, and the
\* count it took is still below the cap.
Counted(r) ==
  request[r].at \in {"counted", "admitted"} =>
    /\ quotaLock[request[r].owner] = r
    /\ Cardinality(ActiveOf(request[r].owner)) < SessionCap

\* Between the admission and the commit a task holds the lock of the symbol.
Admitted(r) ==
  request[r].at \in {"admitted", "entry", "preparing", "submitting"} => symbolLock = r

NoCode == \A s \in Slots : ~sessions[s].code
Vacant == \A s \in Slots : ~sessions[s].up /\ ~sessions[s].unfinished
NothingOpen == \A e \in EntryIds : ~Open(e)
Own(s) ==
  /\ \A t \in Slots \ {s} : ~sessions[t].up /\ ~sessions[t].unfinished
  /\ \A e \in EntryIds : Open(e) => entries[e].by = s

\* What the admission of a task found is true until it commits.
StillTrue(r) ==
  /\ request[r].at = "admitted" =>
       IF request[r].code THEN Vacant /\ NothingOpen ELSE NoCode
  /\ request[r].at = "entry" => NoCode
  /\ request[r].at = "preparing" =>
       /\ Own(request[r].slot)
       /\ sessions[request[r].slot].code \/ sessions[request[r].slot] = NoSession

\* A row that is kept says why.
KeptRows ==
  \A s \in Slots : /\ sessions[s].code => sessions[s].up \/ sessions[s].unfinished
                   /\ sessions[s].unfinished => sessions[s].code

RegistryInv ==
  /\ RegistryTypeOK /\ QuotaHolds /\ CodeAlone /\ KeptRows
  /\ \A r \in Requests : Furnished(r) /\ Counted(r) /\ Admitted(r) /\ StillTrue(r)

\* What a step does to the rows when it admits nothing: sessions stop, ledgers
\* end, entries end or move on.
Shrinks ==
  /\ \A s \in Slots :
       /\ sessions'[s].up => sessions[s].up /\ sessions'[s].owner = sessions[s].owner
       /\ sessions'[s].unfinished => sessions[s].unfinished
       /\ sessions'[s].code = sessions[s].code \/ sessions'[s] = NoSession
       /\ sessions[s] = NoSession => sessions'[s] = NoSession
  /\ \A e \in EntryIds : Open(e)' => Open(e) /\ entries'[e].by = entries[e].by

\* What a step of task r leaves to the other tasks.
Spares(r) ==
  \A t \in Requests \ {r} :
    /\ request'[t] = request[t]
    /\ \A u \in Owners : quotaLock[u] = t => quotaLock'[u] = t
    /\ symbolLock = t => symbolLock' = t

Quiet == UNCHANGED <<request, quotaLock, symbolLock>>

-----------------------------------------------------------------------------
(***************************************************************************)
(* Types.                                                                  *)
(***************************************************************************)
LEMMA SessionFields ==
  ASSUME RegistryTypeOK, NEW s \in Slots
  PROVE  /\ sessions[s] \in Sessions
         /\ sessions[s].owner \in Owners \cup {NoTask}
         /\ sessions[s].code \in BOOLEAN
         /\ sessions[s].up \in BOOLEAN
         /\ sessions[s].unfinished \in BOOLEAN
BY DEF RegistryTypeOK, Sessions

LEMMA RequestFields ==
  ASSUME RegistryTypeOK, NEW r \in Requests
  PROVE  /\ request[r] \in Places
         /\ request[r].at \in RequestSteps
         /\ request[r].owner \in Owners \cup {NoTask}
         /\ request[r].code \in BOOLEAN
         /\ request[r].slot \in Slots \cup {Legacy}
         /\ request[r].entry \in EntryIds \cup {NoTask}
BY DEF RegistryTypeOK, Places

LEMMA Blanks ==
  /\ NoSession \in Sessions /\ NoEntry \in Entries /\ IdleRequest \in Places
  /\ NoSession.up = FALSE /\ NoSession.unfinished = FALSE /\ NoSession.code = FALSE
  /\ NoEntry.state = "none" /\ IdleRequest.at = "idle"
BY DEF NoSession, NoEntry, IdleRequest, Sessions, Entries, Places, RequestSteps, Legacy, NoTask

LEMMA DownIs ==
  ASSUME RegistryTypeOK, NEW s \in Slots
  PROVE  /\ Down(s) \in Sessions
         /\ ~Down(s).up
         /\ Down(s).unfinished <=> sessions[s].unfinished
         /\ Down(s).code = sessions[s].code \/ Down(s) = NoSession
         /\ Down(s).code => Down(s).unfinished
<1>1. CASE sessions[s].unfinished
  <2>1. Down(s) = [sessions[s] EXCEPT !.up = FALSE]
    BY <1>1 DEF Down
  <2>2. QED
    BY <1>1, <2>1, SessionFields DEF Sessions
<1>2. CASE ~sessions[s].unfinished
  <2>1. Down(s) = NoSession
    BY <1>2 DEF Down
  <2>2. QED
    BY <1>2, <2>1, Blanks
<1>3. QED
  BY <1>1, <1>2

LEMMA Leaves ==
  ASSUME RegistryTypeOK, NEW r \in Requests
  PROVE  /\ Unlock(r) => /\ quotaLock' \in [Owners -> Requests \cup {NoTask}]
                         /\ symbolLock' \in Requests \cup {NoTask}
                         /\ \A t \in Requests \ {r} :
                              /\ \A u \in Owners : quotaLock[u] = t => quotaLock'[u] = t
                              /\ symbolLock = t => symbolLock' = t
         /\ EndRequest(r) => Unlock(r) /\ Spares(r) /\ request'[r] = IdleRequest
                             /\ request' \in [Requests -> Places]
<1>1. Unlock(r) => /\ quotaLock' \in [Owners -> Requests \cup {NoTask}]
                   /\ symbolLock' \in Requests \cup {NoTask}
                   /\ \A t \in Requests \ {r} :
                        /\ \A u \in Owners : quotaLock[u] = t => quotaLock'[u] = t
                        /\ symbolLock = t => symbolLock' = t
  BY DEF Unlock, RegistryTypeOK
<1>2. EndRequest(r) => /\ request'[r] = IdleRequest
                       /\ request' \in [Requests -> Places]
                       /\ \A t \in Requests \ {r} : request'[t] = request[t]
  BY Blanks DEF EndRequest, RegistryTypeOK
<1>3. QED
  BY <1>1, <1>2 DEF EndRequest, Spares

LEMMA Goes ==
  ASSUME RegistryTypeOK, NEW r \in Requests, NEW step \in RequestSteps, Go(r, step)
  PROVE  /\ request' \in [Requests -> Places]
         /\ request'[r] = [request[r] EXCEPT !.at = step]
         /\ request'[r].at = step
         /\ request'[r].owner = request[r].owner
         /\ request'[r].code = request[r].code
         /\ request'[r].slot = request[r].slot
         /\ request'[r].entry = request[r].entry
         /\ \A t \in Requests \ {r} : request'[t] = request[t]
<1>1. request[r] \in Places /\ request \in [Requests -> Places]
  BY DEF RegistryTypeOK
<1>2. [request[r] EXCEPT !.at = step] \in Places
  BY <1>1 DEF Places
<1>3. QED
  BY <1>1, <1>2 DEF Go, Places

LEMMA Begins ==
  ASSUME RegistryTypeOK, NEW r \in Requests, NEW q \in Places,
         request' = [request EXCEPT ![r] = q]
  PROVE  /\ request' \in [Requests -> Places]
         /\ request'[r] = q
         /\ \A t \in Requests \ {r} : request'[t] = request[t]
BY DEF RegistryTypeOK

-----------------------------------------------------------------------------
(***************************************************************************)
(* One step: what it leaves alone.                                         *)
(***************************************************************************)
Listed(r) ==
  \/ \E u \in Owners, strat \in Strategies, c \in BOOLEAN : AskSession(r, u, strat, c)
  \/ RefuseSession(r) \/ CountUnderLock(r) \/ AdmitSession(r)
  \/ \E u \in Owners, e \in EntryIds : AskEntry(r, u, e)
  \/ RecheckEntry(r) \/ SubmitEntry(r) \/ SendEntry(r)
  \/ \E e \in EntryIds : ClaimEntry(r, e) \/ AdmitSubmit(r, e)
  \/ \E s \in Slots, e \in EntryIds : AdmitIntent(r, s, e)

Saves(r) == SaveEntry(r) \/ PrepareEntry(r) \/ \E s \in Slots : SaveSession(r, s)

Alone ==
  \/ \E s \in Slots : StopSession(s) \/ FinishRisk(s)
  \/ \E u \in Owners : Withdraw(u)
  \/ \E e \in EntryIds : EndEntry(e)

LEMMA StepCases ==
  ASSUME RegistryNext
  PROVE  Alone \/ \E r \in Requests : Listed(r) \/ Saves(r)
BY DEF RegistryNext, Alone, Listed, Saves

LEMMA SparesOthers ==
  ASSUME RegistryTypeOK, NEW r \in Requests, Listed(r) \/ Saves(r)
  PROVE  Spares(r)
<1>1. CASE \/ \E u \in Owners, strat \in Strategies, c \in BOOLEAN : AskSession(r, u, strat, c)
           \/ \E e \in EntryIds : ClaimEntry(r, e)
           \/ RecheckEntry(r) \/ SendEntry(r)
  BY <1>1 DEF AskSession, ClaimEntry, RecheckEntry, SendEntry, Spares, Go, Locks, Rows,
              RegistryTypeOK
<1>2. CASE \/ \E u \in Owners, e \in EntryIds : AskEntry(r, u, e)
           \/ \E e \in EntryIds : AdmitSubmit(r, e)
           \/ \E s \in Slots, e \in EntryIds : AdmitIntent(r, s, e)
  BY <1>2, RegistryAssumption
     DEF AskEntry, AdmitSubmit, AdmitIntent, Spares, RegistryTypeOK, NoTask
<1>3. CASE RefuseSession(r) \/ Saves(r)
  BY <1>3, Leaves DEF RefuseSession, Saves, SaveEntry, PrepareEntry, SaveSession
<1>4. CASE CountUnderLock(r)
  <2>1. CASE EndRequest(r)
    BY <2>1, Leaves
  <2>2. CASE ~EndRequest(r)
    BY <1>4, <2>2, RegistryAssumption
       DEF CountUnderLock, Spares, Go, RegistryTypeOK, NoTask
  <2>3. QED
    BY <2>1, <2>2
<1>5. CASE AdmitSession(r)
  <2>1. CASE EndRequest(r)
    BY <2>1, Leaves
  <2>2. CASE ~EndRequest(r)
    BY <1>5, <2>2, RegistryAssumption
       DEF AdmitSession, Spares, Go, RegistryTypeOK, NoTask
  <2>3. QED
    BY <2>1, <2>2
<1>6. CASE SubmitEntry(r)
  <2>1. CASE EndRequest(r)
    BY <2>1, Leaves
  <2>2. CASE Go(r, "sending") /\ Unlock(r)
    BY <2>2, Leaves DEF Spares, Go, RegistryTypeOK
  <2>3. QED
    BY <1>6, <2>1, <2>2 DEF SubmitEntry
<1>7. QED
  BY <1>1, <1>2, <1>3, <1>4, <1>5, <1>6 DEF Listed

LEMMA RowsShrink ==
  ASSUME RegistryTypeOK, Alone \/ \E r \in Requests : Listed(r)
  PROVE  Shrinks
<1>1. CASE UNCHANGED <<sessions, entries>>
  BY <1>1 DEF Shrinks, Open
<1>2. ASSUME NEW s \in Slots, StopSession(s)
      PROVE  Shrinks
  <2>1. sessions[s] # NoSession
    BY <1>2, Blanks DEF StopSession
  <2>2. QED
    BY <1>2, <2>1, DownIs DEF StopSession, Shrinks, Open, RegistryTypeOK
<1>3. ASSUME NEW u \in Owners, Withdraw(u)
      PROVE  Shrinks
  <2>1. \A s \in ActiveOf(u) : sessions[s] # NoSession
    BY Blanks DEF ActiveOf
  <2>2. QED
    BY <1>3, <2>1, DownIs DEF Withdraw, Shrinks, Open, RegistryTypeOK
<1>4. ASSUME NEW s \in Slots, FinishRisk(s)
      PROVE  Shrinks
  <2>1. sessions' = [sessions EXCEPT ![s] = sessions'[s]] /\ entries' = entries
    BY <1>4 DEF FinishRisk, RegistryTypeOK
  <2>2. sessions'[s] = NoSession \/ sessions'[s] = [sessions[s] EXCEPT !.unfinished = FALSE]
    BY <1>4 DEF FinishRisk, RegistryTypeOK
  <2>3. sessions[s] # NoSession
    BY <1>4, Blanks DEF FinishRisk
  <2>4. QED
    BY <2>1, <2>2, <2>3, SessionFields, Blanks DEF Shrinks, Open, RegistryTypeOK, Sessions
<1>5. ASSUME NEW e \in EntryIds, EndEntry(e)
      PROVE  Shrinks
  BY <1>5, Blanks DEF EndEntry, Shrinks, Open, RegistryTypeOK, Locks
<1>6. ASSUME NEW r \in Requests, NEW e \in EntryIds, ClaimEntry(r, e)
      PROVE  Shrinks
  BY <1>6, Blanks DEF ClaimEntry, Shrinks, Open, RegistryTypeOK, Entries
<1>7. ASSUME NEW r \in Requests, RecheckEntry(r) \/ SendEntry(r) \/ SubmitEntry(r)
      PROVE  Shrinks
  <2>1. CASE RecheckEntry(r)
    BY <2>1, Blanks DEF RecheckEntry, Shrinks, Open, RegistryTypeOK
  <2>2. CASE SendEntry(r)
    BY <2>2 DEF SendEntry, Shrinks, Open, RegistryTypeOK, Entries
  <2>3. CASE SubmitEntry(r)
    BY <2>3 DEF SubmitEntry, Shrinks, Open, RegistryTypeOK, Entries
  <2>4. QED
    BY <1>7, <2>1, <2>2, <2>3
<1>8. ASSUME NEW r \in Requests, Listed(r)
      PROVE  Shrinks
  BY <1>1, <1>6, <1>7, <1>8
     DEF Listed, AskSession, RefuseSession, CountUnderLock, AdmitSession, AskEntry,
         AdmitSubmit, AdmitIntent, Rows
<1>9. QED
  BY <1>2, <1>3, <1>4, <1>5, <1>8 DEF Alone

LEMMA RegistryTypesKept ==
  ASSUME RegistryTypeOK, \A r \in Requests : Furnished(r), RegistryNext
  PROVE  RegistryTypeOK'
<1>1. ASSUME Alone
      PROVE  RegistryTypeOK'
  <2>1. CASE \E s \in Slots : StopSession(s)
    BY <2>1, DownIs DEF StopSession, RegistryTypeOK, Locks
  <2>2. CASE \E u \in Owners : Withdraw(u)
    BY <2>2, DownIs DEF Withdraw, RegistryTypeOK, Locks
  <2>3. ASSUME NEW s \in Slots, FinishRisk(s)
        PROVE  RegistryTypeOK'
    <3>1. sessions' \in [Slots -> Sessions]
      BY <2>3, Blanks DEF FinishRisk, RegistryTypeOK, Sessions
    <3>2. QED
      BY <2>3, <3>1 DEF FinishRisk, RegistryTypeOK, Locks
  <2>4. CASE \E e \in EntryIds : EndEntry(e)
    BY <2>4, Blanks DEF EndEntry, RegistryTypeOK, Locks
  <2>5. QED
    BY <1>1, <2>1, <2>2, <2>3, <2>4 DEF Alone
<1>2. ASSUME NEW r \in Requests, NEW u \in Owners, NEW strat \in Strategies, NEW c \in BOOLEAN,
             AskSession(r, u, strat, c)
      PROVE  RegistryTypeOK'
  <2>1. [IdleRequest EXCEPT !.at = "checked", !.owner = u, !.strategy = strat, !.code = c]
          \in Places
    BY DEF IdleRequest, Places, RequestSteps, Legacy, NoTask
  <2>2. QED
    BY <1>2, <2>1 DEF AskSession, RegistryTypeOK, Rows, Locks
<1>3. ASSUME NEW r \in Requests, RefuseSession(r) \/ CountUnderLock(r) \/ AdmitSession(r)
      PROVE  RegistryTypeOK'
  <2>1. UNCHANGED Rows
    BY <1>3 DEF RefuseSession, CountUnderLock, AdmitSession
  <2>2. CASE EndRequest(r)
    BY <2>1, <2>2, Leaves DEF RegistryTypeOK, Rows
  <2>3. ASSUME NEW step \in RequestSteps, Go(r, step)
        PROVE  request' \in [Requests -> Places]
    BY <2>3, Goes
  <2>4. CASE ~EndRequest(r)
    <3>1. request' \in [Requests -> Places]
      BY <1>3, <2>3, <2>4
         DEF RefuseSession, CountUnderLock, AdmitSession, RequestSteps
    <3>2. QED
      BY <1>3, <2>1, <2>4, <3>1
         DEF RefuseSession, CountUnderLock, AdmitSession, RegistryTypeOK, Rows
  <2>5. QED
    BY <2>2, <2>4
<1>4. ASSUME NEW r \in Requests, NEW s \in Slots, SaveSession(r, s)
      PROVE  RegistryTypeOK'
  <2>1. sessions' \in [Slots -> Sessions]
    <3>1. [owner |-> request[r].owner, strategy |-> request[r].strategy,
           code |-> request[r].code, up |-> TRUE, unfinished |-> FALSE] \in Sessions
      BY DEF RegistryTypeOK, Places, Sessions
    <3>2. QED
      BY <1>4, <3>1 DEF SaveSession, RegistryTypeOK
  <2>2. QED
    BY <1>4, <2>1, Leaves DEF SaveSession, RegistryTypeOK
<1>5. ASSUME NEW r \in Requests, NEW u \in Owners, NEW e \in EntryIds, AskEntry(r, u, e)
      PROVE  RegistryTypeOK'
  <2>1. [IdleRequest EXCEPT !.at = "entry", !.owner = u, !.entry = e] \in Places
    BY DEF IdleRequest, Places, RequestSteps, Legacy, NoTask
  <2>2. QED
    BY <1>5, <2>1 DEF AskEntry, RegistryTypeOK, Rows
<1>6. ASSUME NEW r \in Requests, SaveEntry(r)
      PROVE  RegistryTypeOK'
  <2>1. [NoEntry EXCEPT !.owner = request[r].owner, !.state = "pending"] \in Entries
    BY RequestFields DEF NoEntry, Entries, Legacy
  <2>2. QED
    BY <1>6, <2>1, Leaves DEF SaveEntry, RegistryTypeOK
<1>7. ASSUME NEW r \in Requests, NEW e \in EntryIds, ClaimEntry(r, e)
      PROVE  RegistryTypeOK'
  <2>1. [IdleRequest EXCEPT !.at = "claimed", !.owner = entries[e].owner, !.entry = e] \in Places
    BY DEF IdleRequest, Places, RequestSteps, Legacy, NoTask, RegistryTypeOK, Entries
  <2>2. [entries[e] EXCEPT !.state = "submitted"] \in Entries
    BY DEF RegistryTypeOK, Entries
  <2>3. QED
    BY <1>7, <2>1, <2>2, Blanks DEF ClaimEntry, RegistryTypeOK, Locks
<1>8. ASSUME NEW r \in Requests, RecheckEntry(r)
      PROVE  RegistryTypeOK'
  BY <1>8, Blanks, Goes DEF RecheckEntry, RegistryTypeOK, Locks, RequestSteps
<1>9. ASSUME NEW r \in Requests, NEW s \in Slots, NEW e \in EntryIds, AdmitIntent(r, s, e)
      PROVE  RegistryTypeOK'
  <2>1. [IdleRequest EXCEPT !.at = "preparing", !.owner = sessions[s].owner, !.slot = s,
                            !.entry = e] \in Places
    BY SessionFields DEF IdleRequest, Places, RequestSteps, NoTask
  <2>2. QED
    BY <1>9, <2>1 DEF AdmitIntent, RegistryTypeOK, Rows
<1>10. ASSUME NEW r \in Requests, PrepareEntry(r)
       PROVE  RegistryTypeOK'
  <2>1. [NoEntry EXCEPT !.owner = request[r].owner, !.by = request[r].slot,
                        !.state = "pending"] \in Entries
    BY RequestFields DEF NoEntry, Entries
  <2>2. [NoSession EXCEPT !.owner = request[r].owner, !.code = TRUE, !.unfinished = TRUE]
          \in Sessions
    BY RequestFields DEF NoSession, Sessions, NoTask
  <2>3. [sessions[request[r].slot] EXCEPT !.unfinished = TRUE] \in Sessions
    BY <1>10, SessionFields DEF PrepareEntry, At, Furnished, Sessions
  <2>4. sessions' \in [Slots -> Sessions] /\ entries' \in [EntryIds -> Entries]
    BY <1>10, <2>1, <2>2, <2>3 DEF PrepareEntry, RegistryTypeOK
  <2>5. QED
    BY <1>10, <2>4, Leaves DEF PrepareEntry, RegistryTypeOK
<1>11. ASSUME NEW r \in Requests, NEW e \in EntryIds, AdmitSubmit(r, e)
       PROVE  RegistryTypeOK'
  <2>1. [IdleRequest EXCEPT !.at = "submitting", !.owner = entries[e].owner,
                            !.slot = entries[e].by, !.entry = e] \in Places
    BY DEF IdleRequest, Places, RequestSteps, NoTask, RegistryTypeOK, Entries
  <2>2. QED
    BY <1>11, <2>1 DEF AdmitSubmit, RegistryTypeOK, Rows
<1>12. ASSUME NEW r \in Requests, SubmitEntry(r)
       PROVE  RegistryTypeOK'
  <2>1. entries' \in [EntryIds -> Entries]
    BY <1>12 DEF SubmitEntry, RegistryTypeOK, Entries
  <2>2. request' \in [Requests -> Places] /\ Unlock(r)
    BY <1>12, Goes, Leaves DEF SubmitEntry, RequestSteps
  <2>3. QED
    BY <1>12, <2>1, <2>2, Leaves DEF SubmitEntry, RegistryTypeOK
<1>13. ASSUME NEW r \in Requests, SendEntry(r)
       PROVE  RegistryTypeOK'
  <2>1. entries' \in [EntryIds -> Entries]
    BY <1>13 DEF SendEntry, RegistryTypeOK, Entries
  <2>2. QED
    BY <1>13, <2>1, Blanks DEF SendEntry, RegistryTypeOK, Locks
<1>14. QED
  BY <1>1, <1>2, <1>3, <1>4, <1>5, <1>6, <1>7, <1>8, <1>9, <1>10, <1>11, <1>12, <1>13, StepCases
     DEF Listed, Saves

LEMMA AloneIsQuiet ==
  ASSUME Alone
  PROVE  Quiet
BY DEF Alone, Quiet, StopSession, FinishRisk, Withdraw, EndEntry, Locks

\* Where the task itself stands after its step.
NowAsked(r) == request'[r].at = "checked" /\ request'[r].owner \in Owners
NowCounted(r) ==
  /\ request[r].at = "checked" /\ request'[r].at = "counted"
  /\ quotaLock[request[r].owner] = NoTask /\ UNCHANGED sessions
  /\ request'[r].owner = request[r].owner
  /\ quotaLock' = [quotaLock EXCEPT ![request[r].owner] = r]
  /\ Cardinality(ActiveOf(request[r].owner)) < SessionCap
NowAdmitted(r) ==
  /\ request[r].at = "counted" /\ request'[r].at = "admitted"
  /\ request'[r].owner = request[r].owner /\ request'[r].code = request[r].code
  /\ Admits(request[r].code, Legacy)
  /\ symbolLock' = r /\ UNCHANGED <<quotaLock, sessions, entries>>
NowEntry(r) ==
  /\ request'[r].at = "entry" /\ request'[r].entry \in EntryIds
  /\ Admits(FALSE, Legacy)
  /\ symbolLock' = r /\ UNCHANGED <<sessions, entries>>
NowPreparing(r) ==
  /\ request'[r].at = "preparing"
  /\ request'[r].slot \in Slots /\ request'[r].entry \in EntryIds
  /\ sessions[request'[r].slot].code /\ Admits(TRUE, request'[r].slot)
  /\ symbolLock' = r /\ UNCHANGED <<sessions, entries>>
NowSubmitting(r) ==
  /\ request'[r].at = "submitting" /\ request'[r].entry \in EntryIds
  /\ symbolLock' = r
NowAtExchange(r) ==
  request'[r].at \in {"claimed", "sending"} /\ request'[r].entry \in EntryIds

LEMMA Arrives ==
  ASSUME RegistryTypeOK, NEW r \in Requests, Furnished(r), Listed(r) \/ Saves(r)
  PROVE  \/ request'[r].at = "idle"
         \/ NowAsked(r) \/ NowCounted(r) \/ NowAdmitted(r)
         \/ NowEntry(r) \/ NowPreparing(r) \/ NowSubmitting(r) \/ NowAtExchange(r)
<1>1. CASE \E u \in Owners, strat \in Strategies, c \in BOOLEAN : AskSession(r, u, strat, c)
  BY <1>1 DEF AskSession, RegistryTypeOK, IdleRequest, NowAsked
<1>2. CASE RefuseSession(r) \/ Saves(r)
  BY <1>2, Leaves, Blanks DEF RefuseSession, Saves, SaveEntry, PrepareEntry, SaveSession
<1>3. CASE CountUnderLock(r)
  <2>1. CASE EndRequest(r)
    BY <2>1, Leaves, Blanks
  <2>2. CASE ~EndRequest(r)
    <3>1. /\ Go(r, "counted")
          /\ quotaLock' = [quotaLock EXCEPT ![request[r].owner] = r]
          /\ ~(Cardinality(ActiveOf(request[r].owner)) >= SessionCap)
      BY <1>3, <2>2 DEF CountUnderLock
    <3>2. Cardinality(ActiveOf(request[r].owner)) \in Nat /\ SessionCap \in Nat
      BY RegistryAssumption, FS_Subset, FS_CardinalityType DEF ActiveOf
    <3>3. Cardinality(ActiveOf(request[r].owner)) < SessionCap
      BY <3>1, <3>2
    <3>4. /\ request[r].at = "checked" /\ UNCHANGED sessions
          /\ quotaLock[request[r].owner] = NoTask
      BY <1>3 DEF CountUnderLock, At, Rows
    <3>5. request'[r].at = "counted" /\ request'[r].owner = request[r].owner
      BY <3>1, Goes DEF RequestSteps
    <3>6. QED
      BY <3>1, <3>3, <3>4, <3>5 DEF NowCounted
  <2>3. QED
    BY <2>1, <2>2
<1>4. CASE AdmitSession(r)
  <2>1. CASE EndRequest(r)
    BY <2>1, Leaves, Blanks
  <2>2. CASE ~EndRequest(r)
    BY <1>4, <2>2, Goes DEF AdmitSession, RequestSteps, NowAdmitted, At, Rows
  <2>3. QED
    BY <2>1, <2>2
<1>5. CASE \E u \in Owners, e \in EntryIds : AskEntry(r, u, e)
  BY <1>5 DEF AskEntry, RegistryTypeOK, IdleRequest, NowEntry, Rows
<1>6. CASE RecheckEntry(r)
  <2>1. request[r].entry \in EntryIds
    BY <1>6 DEF RecheckEntry, At, Furnished
  <2>2. QED
    BY <1>6, <2>1, Goes, Blanks DEF RecheckEntry, RequestSteps, RegistryTypeOK, NowAtExchange
<1>7. CASE SubmitEntry(r)
  <2>1. request[r].entry \in EntryIds
    BY <1>7 DEF SubmitEntry, At, Furnished
  <2>2. QED
    BY <1>7, <2>1, Goes, Leaves, Blanks DEF SubmitEntry, RequestSteps, NowAtExchange
<1>8. CASE SendEntry(r)
  BY <1>8, Blanks DEF SendEntry, RegistryTypeOK
<1>9. CASE \E e \in EntryIds : ClaimEntry(r, e)
  BY <1>9 DEF ClaimEntry, RegistryTypeOK, IdleRequest, NowAtExchange, At
<1>10. CASE \E e \in EntryIds : AdmitSubmit(r, e)
  BY <1>10 DEF AdmitSubmit, RegistryTypeOK, IdleRequest, NowSubmitting
<1>11. ASSUME NEW s \in Slots, NEW e \in EntryIds, AdmitIntent(r, s, e)
       PROVE  NowPreparing(r)
  <2>1. /\ request'[r].at = "preparing" /\ request'[r].slot = s /\ request'[r].entry = e
    BY <1>11 DEF AdmitIntent, RegistryTypeOK, IdleRequest
  <2>2. QED
    BY <1>11, <2>1 DEF AdmitIntent, NowPreparing, Rows
<1>12. QED
  BY <1>1, <1>2, <1>3, <1>4, <1>5, <1>6, <1>7, <1>8, <1>9, <1>10, <1>11 DEF Listed

LEMMA FurnishedKept ==
  ASSUME RegistryTypeOK, \A r \in Requests : Furnished(r), RegistryNext
  PROVE  \A r \in Requests : Furnished(r)'
<1>1. CASE Alone
  BY <1>1, AloneIsQuiet DEF Quiet, Furnished
<1>2. ASSUME NEW r \in Requests, Listed(r) \/ Saves(r), NEW t \in Requests
      PROVE  Furnished(t)'
  <2>1. CASE t # r
    BY <1>2, <2>1, SparesOthers DEF Spares, Furnished
  <2>2. CASE t = r
    <3>1. CASE request'[r].at = "idle" \/ NowAsked(r) \/ NowSubmitting(r) \/ NowAtExchange(r)
      BY <2>2, <3>1 DEF Furnished, NowAsked, NowSubmitting, NowAtExchange
    <3>2. CASE NowCounted(r) \/ NowAdmitted(r) \/ NowEntry(r) \/ NowPreparing(r)
      BY <2>2, <3>2 DEF Furnished, NowCounted, NowAdmitted, NowEntry, NowPreparing
    <3>3. QED
      BY <1>2, <3>1, <3>2, Arrives
  <2>3. QED
    BY <2>1, <2>2
<1>3. QED
  BY <1>1, <1>2, StepCases

-----------------------------------------------------------------------------
(***************************************************************************)
(* The quota of a user.                                                    *)
(***************************************************************************)
LEMMA ActiveIsFinite ==
  ASSUME NEW u
  PROVE  /\ IsFiniteSet(ActiveOf(u)) /\ Cardinality(ActiveOf(u)) \in Nat
         /\ IsFiniteSet(ActiveOf(u)') /\ Cardinality(ActiveOf(u)') \in Nat
<1>1. ActiveOf(u) \subseteq Slots /\ ActiveOf(u)' \subseteq Slots
  BY DEF ActiveOf
<1>2. IsFiniteSet(ActiveOf(u)) /\ IsFiniteSet(ActiveOf(u)')
  BY <1>1, RegistryAssumption, FS_Subset
<1>3. QED
  BY <1>2, FS_CardinalityType

\* Sessions that no step brings up keep every count at or below what it was.
LEMMA ActiveFalls ==
  ASSUME NEW u,
         \A s \in Slots :
           sessions'[s].up => \/ sessions[s].up /\ sessions'[s].owner = sessions[s].owner
                              \/ sessions'[s].owner # u
  PROVE  Cardinality(ActiveOf(u)') <= Cardinality(ActiveOf(u))
<1>1. ActiveOf(u)' \subseteq ActiveOf(u)
  BY DEF ActiveOf
<1>2. QED
  BY <1>1, ActiveIsFinite, FS_Subset

LEMMA ActiveRises ==
  ASSUME RegistryTypeOK, NEW r \in Requests, NEW s \in Slots, SaveSession(r, s), NEW u
  PROVE  /\ Cardinality(ActiveOf(u)') <= Cardinality(ActiveOf(u)) + 1
         /\ u # request[r].owner => Cardinality(ActiveOf(u)') <= Cardinality(ActiveOf(u))
<1>1. \A t \in Slots : t # s => sessions'[t] = sessions[t]
  BY DEF SaveSession, RegistryTypeOK
<1>2. sessions'[s] = sessions[s] \/ sessions'[s].owner = request[r].owner
  BY DEF SaveSession, RegistryTypeOK
<1>3. Cardinality(ActiveOf(u)') <= Cardinality(ActiveOf(u)) + 1
  <2>1. ActiveOf(u)' \subseteq ActiveOf(u) \cup {s}
    BY <1>1 DEF ActiveOf
  <2>2. /\ IsFiniteSet(ActiveOf(u) \cup {s})
        /\ Cardinality(ActiveOf(u) \cup {s}) <= Cardinality(ActiveOf(u)) + 1
        /\ Cardinality(ActiveOf(u) \cup {s}) \in Nat
    <3>1. IsFiniteSet(ActiveOf(u) \cup {s})
          /\ Cardinality(ActiveOf(u) \cup {s})
               = IF s \in ActiveOf(u) THEN Cardinality(ActiveOf(u))
                 ELSE Cardinality(ActiveOf(u)) + 1
      BY ActiveIsFinite, FS_AddElement
    <3>2. QED
      BY <3>1, ActiveIsFinite
  <2>3. Cardinality(ActiveOf(u)') <= Cardinality(ActiveOf(u) \cup {s})
    BY <2>1, <2>2, FS_Subset
  <2>4. QED
    BY <2>2, <2>3, ActiveIsFinite
<1>4. u # request[r].owner => Cardinality(ActiveOf(u)') <= Cardinality(ActiveOf(u))
  BY <1>1, <1>2, ActiveFalls
<1>5. QED
  BY <1>3, <1>4

\* Only the INSERT of a session brings one up.
LEMMA OnlySaveRaises ==
  ASSUME RegistryTypeOK, \A r \in Requests : Furnished(r), RegistryNext,
         ~\E r \in Requests, s \in Slots : SaveSession(r, s), NEW u
  PROVE  Cardinality(ActiveOf(u)') <= Cardinality(ActiveOf(u))
<1>1. CASE Shrinks
  BY <1>1, ActiveFalls DEF Shrinks
<1>2. ASSUME NEW r \in Requests, SaveEntry(r)
      PROVE  Cardinality(ActiveOf(u)') <= Cardinality(ActiveOf(u))
  BY <1>2, ActiveFalls DEF SaveEntry
<1>3. ASSUME NEW r \in Requests, PrepareEntry(r)
      PROVE  Cardinality(ActiveOf(u)') <= Cardinality(ActiveOf(u))
  <2>1. request[r].slot \in Slots
    BY <1>3 DEF PrepareEntry, At, Furnished
  <2>2. /\ \A s \in Slots : s # request[r].slot => sessions'[s] = sessions[s]
        /\ sessions[request[r].slot] = NoSession
             => sessions'[request[r].slot].up = FALSE
        /\ sessions[request[r].slot] # NoSession
             => /\ sessions'[request[r].slot].up = sessions[request[r].slot].up
                /\ sessions'[request[r].slot].owner = sessions[request[r].slot].owner
    BY <1>3, <2>1 DEF PrepareEntry, RegistryTypeOK, Sessions, NoSession
  <2>3. QED
    BY <2>2, ActiveFalls
<1>4. QED
  BY <1>1, <1>2, <1>3, StepCases, RowsShrink DEF Saves

LEMMA CountsKept ==
  ASSUME RegistryTypeOK, \A r \in Requests : Furnished(r) /\ Counted(r), QuotaHolds,
         RegistryNext
  PROVE  QuotaHolds' /\ \A r \in Requests : Counted(r)'
<1> USE ActiveIsFinite, RegistryAssumption
<1>1. ASSUME NEW r \in Requests, NEW s \in Slots, SaveSession(r, s)
      PROVE  QuotaHolds' /\ \A t \in Requests : Counted(t)'
  <2>1. /\ request[r].at = "admitted" /\ request[r].owner \in Owners
        /\ quotaLock[request[r].owner] = r
        /\ Cardinality(ActiveOf(request[r].owner)) < SessionCap
    BY <1>1 DEF SaveSession, At, Furnished, Counted
  <2>2. Spares(r) /\ request'[r].at = "idle"
    BY <1>1, Leaves, Blanks DEF SaveSession
  <2>3. QuotaHolds'
    BY <1>1, <2>1, ActiveRises DEF QuotaHolds
  <2>4. ASSUME NEW t \in Requests, t # r, request[t].at \in {"counted", "admitted"}
        PROVE  Counted(t)'
    <3>1. PICK u \in Owners : u = request[t].owner
      BY <2>4 DEF Furnished
    <3>2. quotaLock[u] = t /\ Cardinality(ActiveOf(u)) < SessionCap
      BY <2>4, <3>1 DEF Counted
    <3>3. Cardinality(ActiveOf(u)') <= Cardinality(ActiveOf(u))
      BY <1>1, <2>1, <2>4, <3>2, ActiveRises
    <3>4. request'[t] = request[t] /\ quotaLock'[u] = t
      BY <2>2, <2>4, <3>2 DEF Spares
    <3>5. u = request'[t].owner
      BY <3>1, <3>4
    <3>6. Cardinality(ActiveOf(u)') < SessionCap
      BY <3>2, <3>3
    <3>7. ActiveOf(request[t].owner)' = ActiveOf(u)'
      BY <3>5 DEF ActiveOf
    <3>8. QED
      BY <3>4, <3>5, <3>6, <3>7 DEF Counted
  <2>5. \A t \in Requests : Counted(t)'
    BY <2>2, <2>4 DEF Counted, Spares
  <2>6. QED
    BY <2>3, <2>5
<1>2. ASSUME ~\E r \in Requests, s \in Slots : SaveSession(r, s)
      PROVE  QuotaHolds' /\ \A t \in Requests : Counted(t)'
  <2>1. \A u : Cardinality(ActiveOf(u)') <= Cardinality(ActiveOf(u))
    BY <1>2, OnlySaveRaises
  <2>2. QuotaHolds'
    BY <2>1 DEF QuotaHolds
  <2>3. ASSUME NEW t \in Requests, request[t].at \in {"counted", "admitted"},
               request'[t].at \in {"counted", "admitted"},
               request'[t].owner = request[t].owner,
               \A u \in Owners : quotaLock[u] = t => quotaLock'[u] = t
        PROVE  Counted(t)'
    <3>1. PICK u \in Owners : u = request[t].owner
      BY <2>3 DEF Furnished
    <3>2. /\ quotaLock'[u] = t
          /\ Cardinality(ActiveOf(u)) < SessionCap
      BY <2>3, <3>1 DEF Counted
    <3>3. Cardinality(ActiveOf(u)') < SessionCap
      BY <2>1, <3>2
    <3>4. u = request'[t].owner /\ ActiveOf(request[t].owner)' = ActiveOf(u)'
      BY <2>3, <3>1 DEF ActiveOf
    <3>5. QED
      BY <3>2, <3>3, <3>4 DEF Counted
  <2>4. ASSUME NEW r \in Requests, NowCounted(r)
        PROVE  Counted(r)'
    <3>1. PICK u \in Owners : u = request[r].owner
      BY <2>4 DEF NowCounted, Furnished
    <3>2. quotaLock'[u] = r /\ Cardinality(ActiveOf(u)') < SessionCap
      BY <2>1, <2>4, <3>1 DEF NowCounted, RegistryTypeOK
    <3>3. u = request'[r].owner /\ ActiveOf(request[r].owner)' = ActiveOf(u)'
      BY <2>4, <3>1 DEF NowCounted, ActiveOf
    <3>4. QED
      BY <3>2, <3>3 DEF Counted
  <2>5. CASE Alone
    BY <2>2, <2>3, <2>5, AloneIsQuiet DEF Quiet, Counted
  <2>6. ASSUME NEW r \in Requests, Listed(r) \/ Saves(r), NEW t \in Requests
        PROVE  Counted(t)'
    <3>1. CASE t # r
      BY <2>3, <2>6, <3>1, SparesOthers DEF Spares, Counted
    <3>2. CASE t = r
      <4>1. CASE NowAdmitted(r)
        BY <2>3, <3>2, <4>1 DEF NowAdmitted
      <4>2. CASE ~NowAdmitted(r) /\ ~NowCounted(r)
        BY <2>6, <3>2, <4>2, Arrives
           DEF Counted, NowAsked, NowEntry, NowPreparing, NowSubmitting, NowAtExchange
      <4>3. QED
        BY <2>4, <3>2, <4>1, <4>2
    <3>3. QED
      BY <3>1, <3>2
  <2>7. QED
    BY <2>2, <2>5, <2>6, StepCases
<1>3. QED
  BY <1>1, <1>2

-----------------------------------------------------------------------------
(***************************************************************************)
(* The lock of the symbol and what is admitted under it.                   *)
(***************************************************************************)
LEMMA LocksKept ==
  ASSUME RegistryTypeOK, \A r \in Requests : Furnished(r) /\ Admitted(r), RegistryNext
  PROVE  \A r \in Requests : Admitted(r)'
<1>1. CASE Alone
  BY <1>1, AloneIsQuiet DEF Quiet, Admitted
<1>2. ASSUME NEW r \in Requests, Listed(r) \/ Saves(r), NEW t \in Requests
      PROVE  Admitted(t)'
  <2>1. CASE t # r
    BY <1>2, <2>1, SparesOthers DEF Spares, Admitted
  <2>2. CASE t = r
    BY <1>2, <2>2, Arrives
       DEF Admitted, NowAsked, NowCounted, NowAdmitted, NowEntry, NowPreparing, NowSubmitting,
           NowAtExchange
  <2>3. QED
    BY <2>1, <2>2
<1>3. QED
  BY <1>1, <1>2, StepCases

\* What acquire_code_symbol_admission lets through.
LEMMA LetThrough ==
  ASSUME RegistryTypeOK, KeptRows, RegistryAssumption
  PROVE  /\ Admits(TRUE, Legacy) => Vacant /\ NothingOpen
         /\ Admits(FALSE, Legacy) => NoCode
         /\ \A s \in Slots : Admits(TRUE, s) => Own(s)
<1>1. \A s \in Slots : /\ s # Legacy
                       /\ s \notin Taken => /\ ~sessions[s].up /\ ~sessions[s].unfinished
                                            /\ ~sessions[s].code
  BY RegistryAssumption, Blanks DEF Taken, Legacy
<1>2. Admits(TRUE, Legacy) => Vacant /\ NothingOpen
  BY <1>1 DEF Admits, Blocking, BlockingEntries, Vacant, NothingOpen, KeptRows, Taken
<1>3. Admits(FALSE, Legacy) => NoCode
  BY <1>1 DEF Admits, Blocking, NoCode, KeptRows, Taken
<1>4. ASSUME NEW s \in Slots, Admits(TRUE, s)
      PROVE  Own(s)
  BY <1>1, <1>4 DEF Admits, Blocking, BlockingEntries, Own, KeptRows, Taken
<1>5. QED
  BY <1>2, <1>3, <1>4

LEMMA StillTrueStays ==
  ASSUME RegistryTypeOK, Shrinks, NEW r \in Requests, Furnished(r), StillTrue(r),
         request'[r] = request[r]
  PROVE  StillTrue(r)'
<1>1. (Vacant => Vacant') /\ (NothingOpen => NothingOpen') /\ (NoCode => NoCode')
  BY Blanks DEF Shrinks, Vacant, NothingOpen, NoCode
<1>2. ASSUME request[r].at = "preparing"
      PROVE  /\ Own(request[r].slot)'
             /\ (sessions[request[r].slot].code \/ sessions[request[r].slot] = NoSession)'
  <2>1. PICK s \in Slots : s = request[r].slot
    BY <1>2 DEF Furnished
  <2>2. Own(s) /\ (sessions[s].code \/ sessions[s] = NoSession)
    BY <1>2, <2>1 DEF StillTrue
  <2>3. \A t \in Slots \ {s} : ~sessions'[t].up /\ ~sessions'[t].unfinished
    BY <2>2 DEF Own, Shrinks
  <2>4. \A e \in EntryIds : Open(e)' => entries'[e].by = s
    BY <2>2 DEF Own, Shrinks
  <2>5. sessions'[s].code \/ sessions'[s] = NoSession
    BY <2>2 DEF Shrinks
  <2>6. QED
    BY <2>1, <2>3, <2>4, <2>5 DEF Own
<1>3. QED
  BY <1>1, <1>2 DEF StillTrue

LEMMA KeptRowsKept ==
  ASSUME RegistryTypeOK, \A r \in Requests : Furnished(r) /\ StillTrue(r), KeptRows, RegistryNext
  PROVE  KeptRows'
<1> USE Blanks
<1>1. CASE UNCHANGED sessions
  BY <1>1 DEF KeptRows
<1>2. ASSUME NEW s \in Slots, StopSession(s)
      PROVE  KeptRows'
  BY <1>2, DownIs DEF StopSession, KeptRows, RegistryTypeOK
<1>3. ASSUME NEW u \in Owners, Withdraw(u)
      PROVE  KeptRows'
  BY <1>3, DownIs DEF Withdraw, KeptRows, RegistryTypeOK
<1>4. ASSUME NEW s \in Slots, FinishRisk(s)
      PROVE  KeptRows'
  <2>1. \A t \in Slots : t # s => sessions'[t] = sessions[t]
    BY <1>4 DEF FinishRisk, RegistryTypeOK
  <2>2. \/ sessions'[s] = NoSession
        \/ /\ sessions[s].up
           /\ sessions'[s] = [sessions[s] EXCEPT !.unfinished = FALSE]
    BY <1>4 DEF FinishRisk, RegistryTypeOK
  <2>3. QED
    BY <2>1, <2>2, SessionFields DEF KeptRows, Sessions
<1>5. ASSUME NEW r \in Requests, NEW s \in Slots, SaveSession(r, s)
      PROVE  KeptRows'
  <2>1. \A t \in Slots : t # s => sessions'[t] = sessions[t]
    BY <1>5 DEF SaveSession, RegistryTypeOK
  <2>2. \/ sessions'[s] = sessions[s]
        \/ sessions'[s].up = TRUE /\ sessions'[s].unfinished = FALSE
    BY <1>5 DEF SaveSession, RegistryTypeOK
  <2>3. QED
    BY <2>1, <2>2 DEF KeptRows
<1>6. ASSUME NEW r \in Requests, PrepareEntry(r)
      PROVE  KeptRows'
  <2>1. PICK s \in Slots : s = request[r].slot
    BY <1>6 DEF PrepareEntry, At, Furnished
  <2>2. \A t \in Slots : t # s => sessions'[t] = sessions[t]
    BY <1>6, <2>1 DEF PrepareEntry, RegistryTypeOK
  <2>3. sessions[s].code \/ sessions[s] = NoSession
    BY <1>6, <2>1 DEF PrepareEntry, At, StillTrue
  <2>4. sessions'[s].code /\ sessions'[s].unfinished = TRUE
    BY <1>6, <2>1, <2>3, SessionFields DEF PrepareEntry, RegistryTypeOK, Sessions, NoSession
  <2>5. QED
    BY <2>2, <2>4 DEF KeptRows
<1>7. QED
  BY <1>1, <1>2, <1>3, <1>4, <1>5, <1>6, StepCases
     DEF Alone, EndEntry, Listed, Saves, SaveEntry, AskSession, RefuseSession, CountUnderLock,
         AdmitSession, AskEntry, RecheckEntry, SubmitEntry, SendEntry, ClaimEntry, AdmitSubmit,
         AdmitIntent, Rows

LEMMA StillTrueKept ==
  ASSUME RegistryTypeOK, \A r \in Requests : Furnished(r) /\ Admitted(r) /\ StillTrue(r), KeptRows,
         RegistryNext
  PROVE  \A r \in Requests : StillTrue(r)'
<1>1. CASE Alone
  BY <1>1, AloneIsQuiet, RowsShrink, StillTrueStays DEF Quiet
<1>2. ASSUME NEW r \in Requests, Listed(r) \/ Saves(r), NEW t \in Requests, t # r
      PROVE  StillTrue(t)'
  <2>1. request'[t] = request[t]
    BY <1>2, SparesOthers DEF Spares
  <2>2. CASE Listed(r)
    BY <2>1, <2>2, RowsShrink, StillTrueStays
  <2>3. CASE Saves(r)
    <3>1. symbolLock = r
      BY <2>3 DEF Saves, SaveEntry, PrepareEntry, SaveSession, At, Admitted
    <3>2. request[t].at \notin {"admitted", "entry", "preparing"}
      BY <1>2, <3>1 DEF Admitted
    <3>3. QED
      BY <2>1, <3>2 DEF StillTrue
  <2>4. QED
    BY <1>2, <2>2, <2>3
<1>3. ASSUME NEW r \in Requests, Listed(r) \/ Saves(r)
      PROVE  StillTrue(r)'
  <2>1. CASE NowAdmitted(r)
    <3>1. request'[r].at = "admitted" /\ request'[r].code \in BOOLEAN
          /\ Admits(request'[r].code, Legacy) /\ UNCHANGED <<sessions, entries>>
      BY <2>1, RequestFields DEF NowAdmitted
    <3>2. CASE request'[r].code = TRUE
      <4>1. Vacant /\ NothingOpen
        BY <3>1, <3>2, LetThrough, RegistryAssumption
      <4>2. Vacant' /\ NothingOpen'
        BY <3>1, <4>1 DEF Vacant, NothingOpen, Open
      <4>3. QED
        BY <3>1, <3>2, <4>2 DEF StillTrue
    <3>3. CASE request'[r].code = FALSE
      <4>1. NoCode
        BY <3>1, <3>3, LetThrough, RegistryAssumption
      <4>2. NoCode'
        BY <3>1, <4>1 DEF NoCode
      <4>3. QED
        BY <3>1, <3>3, <4>2 DEF StillTrue
    <3>4. QED
      BY <3>1, <3>2, <3>3
  <2>2. CASE NowEntry(r)
    <3>1. NoCode'
      BY <2>2, LetThrough, RegistryAssumption DEF NowEntry, NoCode
    <3>2. QED
      BY <2>2, <3>1 DEF NowEntry, StillTrue
  <2>3. CASE NowPreparing(r)
    <3>1. PICK s \in Slots : s = request'[r].slot
      BY <2>3 DEF NowPreparing
    <3>2. Own(s) /\ sessions[s].code /\ UNCHANGED <<sessions, entries>>
      BY <2>3, <3>1, LetThrough, RegistryAssumption DEF NowPreparing
    <3>3. Own(s)' /\ sessions'[s].code
      BY <3>2 DEF Own, Open
    <3>4. Own(request[r].slot)'
      BY <3>1, <3>3 DEF Own
    <3>5. QED
      BY <2>3, <3>1, <3>3, <3>4 DEF NowPreparing, StillTrue
  <2>4. CASE ~NowAdmitted(r) /\ ~NowEntry(r) /\ ~NowPreparing(r)
    BY <1>3, <2>4, Arrives DEF StillTrue, NowAsked, NowCounted, NowSubmitting, NowAtExchange
  <2>5. QED
    BY <2>1, <2>2, <2>3, <2>4
<1>4. QED
  BY <1>1, <1>2, <1>3, StepCases

LEMMA AloneKept ==
  ASSUME RegistryTypeOK, \A r \in Requests : Furnished(r) /\ StillTrue(r), KeptRows, CodeAlone,
         RegistryNext
  PROVE  CodeAlone'
<1> USE Blanks
<1>1. CASE Shrinks
  BY <1>1 DEF Shrinks, CodeAlone
<1>2. ASSUME NEW r \in Requests, NEW s \in Slots, SaveSession(r, s)
      PROVE  CodeAlone'
  <2>1. /\ \A t \in Slots : t # s => sessions'[t] = sessions[t]
        /\ entries' = entries
    BY <1>2 DEF SaveSession, RegistryTypeOK
  <2>2. CASE sessions' = sessions
    BY <2>1, <2>2 DEF CodeAlone, Open
  <2>3. CASE sessions' # sessions
    <3>1. sessions'[s].code = request[r].code
      BY <1>2, <2>3 DEF SaveSession, RegistryTypeOK
    <3>2. CASE request[r].code
      <4>1. Vacant /\ NothingOpen
        BY <1>2, <3>2 DEF SaveSession, At, StillTrue
      <4>2. \A t \in Slots : sessions[t].code = FALSE
        BY <4>1, SessionFields DEF KeptRows, Vacant
      <4>3. QED
        BY <2>1, <4>1, <4>2 DEF CodeAlone, Vacant, NothingOpen, Open
    <3>3. CASE ~request[r].code
      <4>1. NoCode
        BY <1>2, <3>3 DEF SaveSession, At, StillTrue
      <4>2. QED
        BY <2>1, <3>1, <3>3, <4>1 DEF CodeAlone, NoCode
    <3>4. QED
      BY <3>2, <3>3
  <2>4. QED
    BY <2>2, <2>3
<1>3. ASSUME NEW r \in Requests, SaveEntry(r)
      PROVE  CodeAlone'
  BY <1>3 DEF SaveEntry, At, StillTrue, NoCode, CodeAlone
<1>4. ASSUME NEW r \in Requests, PrepareEntry(r)
      PROVE  CodeAlone'
  <2>1. PICK s \in Slots : s = request[r].slot
    BY <1>4 DEF PrepareEntry, At, Furnished
  <2>2. Own(s)
    BY <1>4, <2>1 DEF PrepareEntry, At, StillTrue
  <2>3. \A t \in Slots : t # s => sessions'[t] = sessions[t]
    BY <1>4, <2>1 DEF PrepareEntry, RegistryTypeOK
  <2>4. \A t \in Slots : t # s => sessions'[t].code = FALSE
    BY <2>2, <2>3, SessionFields DEF Own, KeptRows
  <2>5. \A e \in EntryIds : Open(e)' => entries'[e].by = s
    <3>1. request[r].entry \in EntryIds
      BY <1>4 DEF PrepareEntry, At, Furnished
    <3>2. \A e \in EntryIds : e # request[r].entry => entries'[e] = entries[e]
      BY <1>4, <3>1 DEF PrepareEntry, RegistryTypeOK
    <3>3. entries'[request[r].entry].by = s
      BY <1>4, <2>1, <3>1 DEF PrepareEntry, RegistryTypeOK, NoEntry
    <3>4. QED
      BY <2>2, <3>2, <3>3 DEF Own, Open
  <2>6. QED
    BY <2>2, <2>3, <2>4, <2>5 DEF CodeAlone, Own
<1>5. QED
  BY <1>1, <1>2, <1>3, <1>4, RowsShrink, StepCases DEF Saves

-----------------------------------------------------------------------------
(***************************************************************************)
(* The theorems.                                                           *)
(***************************************************************************)
LEMMA RegistryStart ==
  ASSUME RegistryInit
  PROVE  RegistryInv
<1> USE Blanks DEF RegistryInit
<1>1. RegistryTypeOK
  BY DEF RegistryTypeOK
<1>2. QuotaHolds
  <2>1. \A u \in Owners : ActiveOf(u) = {}
    BY DEF ActiveOf
  <2>2. QED
    BY <2>1, FS_EmptySet, RegistryAssumption DEF QuotaHolds
<1>3. CodeAlone /\ KeptRows
  BY DEF CodeAlone, KeptRows
<1>4. \A r \in Requests : request[r].at = "idle"
  OBVIOUS
<1>5. QED
  BY <1>1, <1>2, <1>3, <1>4 DEF RegistryInv, Furnished, Counted, Admitted, StillTrue

LEMMA RegistryStep ==
  ASSUME RegistryInv, [RegistryNext]_registryVars
  PROVE  RegistryInv'
<1>1. CASE RegistryNext
  BY <1>1, RegistryTypesKept, FurnishedKept, CountsKept, LocksKept, KeptRowsKept, StillTrueKept,
     AloneKept DEF RegistryInv
<1>2. CASE UNCHANGED registryVars
  <2> USE <1>2 DEF registryVars
  <2>1. \A u : ActiveOf(u)' = ActiveOf(u)
    BY DEF ActiveOf
  <2>2. QuotaHolds' /\ \A r \in Requests : Counted(r)'
    BY <2>1 DEF RegistryInv, QuotaHolds, Counted, ActiveOf
  <2>3. RegistryTypeOK' /\ CodeAlone' /\ KeptRows'
    BY DEF RegistryInv, RegistryTypeOK, CodeAlone, KeptRows, Open
  <2>4. \A r \in Requests : Furnished(r)' /\ Admitted(r)'
    BY DEF RegistryInv, Furnished, Admitted
  <2>5. \A r \in Requests : StillTrue(r)'
    BY DEF RegistryInv, StillTrue, Own, Vacant, NothingOpen, NoCode, Open
  <2>6. QED
    BY <2>2, <2>3, <2>4, <2>5 DEF RegistryInv
<1>3. QED
  BY <1>1, <1>2

\* Every reachable state of the registry is of its type.
THEOREM RegistryTypes == RegistrySpec => []RegistryTypeOK
<1>1. RegistryInv => RegistryTypeOK
  BY DEF RegistryInv
<1>2. QED
  BY <1>1, RegistryStart, RegistryStep, PTL DEF RegistrySpec

\* However many registrations of one user overlap, and whoever stops or
\* withdraws meanwhile, the sessions of that user stay within the cap: the count
\* that decides is taken under the lock of the user and is still below the cap
\* when the row is inserted.
THEOREM QuotaIsHeld == RegistrySpec => []QuotaHolds
<1>1. RegistryInv => QuotaHolds
  BY DEF RegistryInv
<1>2. QED
  BY <1>1, RegistryStart, RegistryStep, PTL DEF RegistrySpec

\* A code session that is active or whose risk ledger is unfinished has its
\* account and symbol for itself: no other session, and no entry but its own,
\* waiting, on the way or at the exchange.
THEOREM CodeIsAlone == RegistrySpec => []CodeAlone
<1>1. RegistryInv => CodeAlone
  BY DEF RegistryInv
<1>2. QED
  BY <1>1, RegistryStart, RegistryStep, PTL DEF RegistrySpec

\* Both together: what the admission of sessions and entries keeps.
THEOREM AdmissionIsKept == RegistrySpec => []AdmissionHolds
<1>1. RegistryInv => AdmissionHolds
  BY DEF RegistryInv, AdmissionHolds
<1>2. QED
  BY <1>1, RegistryStart, RegistryStep, PTL DEF RegistrySpec

-----------------------------------------------------------------------------
(***************************************************************************)
(* The conditional entries: the inductive invariant.  Everything that may  *)
(* still change the position, and the position itself, is counted as one   *)
(* thing (OneAtMost); what a tick that is going to place has read covers   *)
(* all of it (TickSees).                                                   *)
(***************************************************************************)
RowFields == {"row", "level", "known", "venue", "worker"}
TickFields == {"at", "want", "pos", "rows", "known", "actual", "drop", "halted", "place"}

\* What the row says of an order and what the exchange does go together.
RowFits(o) ==
  /\ DOMAIN o = RowFields
  /\ o.row \in RowStates /\ o.venue \in VenueStates /\ o.known \in BOOLEAN
  /\ o.worker \in {"none", "claimed", "created"}
  /\ o.row = "none" => o.venue = "absent" /\ o.worker = "none"
  /\ o.row = "pending" => o.venue = "absent" /\ o.worker = "none"
  /\ o.worker = "claimed" => o.row = "submitted" /\ o.venue = "absent"
  /\ o.worker = "created" \/ o.known => o.venue # "absent"
  /\ o.venue = "open" => o.row = "submitted"

RowsFit ==
  /\ DOMAIN stops = BarTimes /\ DOMAIN markets = BarTimes
  /\ \A b \in BarTimes : RowFits(stops[b]) /\ RowFits(markets[b])

TickTyped ==
  /\ DOMAIN tick = TickFields
  /\ tick.at \in {"idle", "list", "probe", "plan", "cancel", "convert"}
  /\ tick.place \in {"none", "stop", "market"} /\ tick.halted \in BOOLEAN
  /\ tick.pos \in Nat

Scalars ==
  /\ live \in BOOLEAN /\ midair \in BOOLEAN
  /\ bar \in 0..Ticks /\ price \in Prices /\ held \in Nat /\ entryFaults \in 0..MaxEntryFaults
  /\ recovery \in [BarTimes -> {"none", "queued", "ready"}]

Ticking == tick.at # "idle"

\* Nothing has been placed yet by the tick of a bar that has not ended.
Fresh(b) ==
  ~Exposed(stops[b]) /\ stops[b].row = "none" /\ markets[b].row = "none" /\ recovery[b] = "none"
AheadIsFresh ==
  /\ \A b \in BarTimes : b > bar \/ (b = bar /\ Ticking) => Fresh(b)
  /\ Ticking => bar \in BarTimes

ExposedStops == {b \in BarTimes : Exposed(stops[b])}
Ready == {b \in BarTimes : recovery[b] = "ready"}

\* The position, an exposed stop, a conversion and a recovery that is about to
\* place one: there is at most one of them.
OneAtMost ==
  /\ held \in {0, 1}
  /\ held = 1 => ExposedStops = {} /\ Unsettled = {} /\ Ready = {}
  /\ ExposedStops = {} \/ Unsettled = {}
  /\ ExposedStops = {} \/ Ready = {}
  /\ Unsettled = {} \/ Ready = {}
  /\ \A b, c \in ExposedStops : b = c
  /\ \A b, c \in Unsettled : b = c

\* Conversions and ticks keep apart.
Apart ==
  /\ \A b \in Ready : b = bar /\ ~Ticking
  /\ Ticking => Unsettled = {}

\* A refused stop of the latest bar was the only thing there was.
RefusedAlone ==
  \A b \in BarTimes :
    b = bar /\ recovery[b] = "queued" /\ ~Ticking =>
      held = 0 /\ ExposedStops = {} /\ Unsettled = {}

\* The orders that the tick has still to deal with before it places anything.
Looking == tick.at \in {"list", "probe", "plan"}
Placing == tick.at \in {"cancel", "convert"} /\ tick.place # "none"
Left ==
  CASE tick.at = "list" -> tick.rows
    [] tick.at \in {"probe", "plan"} -> tick.actual
    [] OTHER -> tick.drop

\* They cover whatever is exposed, and a fill that the tick's position misses.
TickSees ==
  /\ Looking \/ (Placing /\ ~tick.halted) => ExposedStops \subseteq Left
  /\ Looking /\ held > 0 =>
       tick.pos > 0 \/ tick.halted \/ \E b \in Left : b \in BarTimes /\ stops[b].venue = "filled"
  /\ Placing /\ held > 0 =>
       tick.halted \/ \E b \in Left : b \in BarTimes /\ stops[b].venue = "filled"
  /\ tick.at = "convert" => tick.drop = {} /\ ~tick.halted /\ tick.place # "none"

Exclusive == OneAtMost /\ Apart /\ RefusedAlone
EntriesInv ==
  /\ Scalars /\ TickTyped /\ RowsFit /\ AheadIsFresh
  /\ ~midair => Exclusive /\ TickSees

-----------------------------------------------------------------------------
LEMMA EntryConstants ==
  /\ Ticks \in Nat /\ Ticks >= 1 /\ MaxEntryFaults \in Nat
  /\ 0 \in Prices
<1>1. PICK n \in Levels : \A m \in Levels : m <= n
  BY EntriesAssumption
<1>2. (CHOOSE k \in Levels : \A m \in Levels : m <= k) \in Levels
  BY <1>1
<1> DEFINE top == CHOOSE k \in Levels : \A m \in Levels : m <= k
<1>3. Prices = 0..top
  BY DEF Prices
<1>4. top \in Nat
  BY <1>2, EntriesAssumption
<1> HIDE DEF top
<1>5. 0 \in Prices
  BY <1>3, <1>4
<1>6. QED
  BY <1>5, EntriesAssumption

LEMMA EntriesStart == EntriesInit => EntriesInv
<1> SUFFICES ASSUME EntriesInit
             PROVE  EntriesInv
  OBVIOUS
<1>1. RowFits(NoRow) /\ ~Exposed(NoRow) /\ NoRow.row = "none"
  BY DEF RowFits, RowFields, NoRow, RowStates, VenueStates, Exposed
<1>2. RowsFit /\ ExposedStops = {} /\ Unsettled = {} /\ Ready = {}
  BY <1>1 DEF EntriesInit, RowsFit, ExposedStops, Unsettled, Ready
<1>3. TickTyped /\ ~Ticking
  BY DEF EntriesInit, TickTyped, TickFields, IdleTick, Ticking
<1>4. Scalars
  <2>1. bar \in 0..Ticks /\ held \in Nat /\ entryFaults \in 0..MaxEntryFaults
    BY EntryConstants DEF EntriesInit
  <2>2. recovery \in [BarTimes -> {"none", "queued", "ready"}]
    BY DEF EntriesInit
  <2>3. live \in BOOLEAN /\ midair \in BOOLEAN /\ price \in Prices
    BY EntryConstants DEF EntriesInit
  <2>4. QED
    BY <2>1, <2>2, <2>3 DEF Scalars
<1>5. AheadIsFresh
  BY <1>1, <1>3 DEF EntriesInit, AheadIsFresh, Fresh
<1>6. Exclusive /\ TickSees
  BY <1>2, <1>3 DEF EntriesInit, Exclusive, OneAtMost, Apart, RefusedAlone, TickSees, Looking,
     Placing, Ticking
<1>7. QED
  BY <1>2, <1>3, <1>4, <1>5, <1>6 DEF EntriesInv

-----------------------------------------------------------------------------
(***************************************************************************)
(* Most steps only take from what is exposed.                              *)
(***************************************************************************)
Shrunk ==
  /\ RowsFit'
  /\ \A c \in BarTimes :
       /\ Exposed(stops'[c]) => Exposed(stops[c])
       /\ stops[c].venue = "filled" => stops'[c].venue = "filled"
       /\ stops[c].row = "none" => stops'[c].row = "none"
       /\ Exposed(markets'[c]) => Exposed(markets[c])
       /\ markets[c].row = "none" => markets'[c].row = "none"

\* What one row may become.
Follows(o, n) ==
  /\ RowFits(n)
  /\ Exposed(n) => Exposed(o)
  /\ o.venue = "filled" => n.venue = "filled"
  /\ o.row = "none" => n.row = "none"

LEMMA SameRows == RowsFit /\ UNCHANGED <<stops, markets>> => Shrunk
BY DEF RowsFit, Shrunk

LEMMA StopMoves ==
  ASSUME RowsFit, NEW b \in BarTimes, NEW n, Follows(stops[b], n),
         stops' = [stops EXCEPT ![b] = n], UNCHANGED markets
  PROVE  Shrunk
<1>1. \A c \in BarTimes : stops'[c] = IF c = b THEN n ELSE stops[c]
  BY DEF RowsFit
<1>2. RowsFit'
  BY <1>1 DEF RowsFit, Follows
<1>3. QED
  BY <1>1, <1>2 DEF Shrunk, Follows

LEMMA MarketMoves ==
  ASSUME RowsFit, NEW b \in BarTimes, NEW n, Follows(markets[b], n),
         markets' = [markets EXCEPT ![b] = n], UNCHANGED stops
  PROVE  Shrunk
<1>1. \A c \in BarTimes : markets'[c] = IF c = b THEN n ELSE markets[c]
  BY DEF RowsFit
<1>2. RowsFit'
  BY <1>1 DEF RowsFit, Follows
<1>3. QED
  BY <1>1, <1>2 DEF Shrunk, Follows

LEMMA ShrunkSets ==
  Shrunk => ExposedStops' \subseteq ExposedStops /\ Unsettled' \subseteq Unsettled
BY DEF Shrunk, ExposedStops, Unsettled

LEMMA AheadKept ==
  ASSUME AheadIsFresh, Shrunk, UNCHANGED <<bar, recovery>>, Ticking' => Ticking
  PROVE  AheadIsFresh'
BY DEF AheadIsFresh, Fresh, Shrunk

LEMMA ExclusiveKept ==
  ASSUME AheadIsFresh, Exclusive, Shrunk, UNCHANGED <<bar, recovery>>, held' \in {held, 0},
         Ticking' => Ticking
  PROVE  Exclusive'
<1>1. ExposedStops' \subseteq ExposedStops /\ Unsettled' \subseteq Unsettled /\ Ready' = Ready
  BY ShrunkSets DEF Ready
<1>2. OneAtMost'
  BY <1>1 DEF Exclusive, OneAtMost
<1>3. Apart'
  BY <1>1 DEF Exclusive, Apart
<1>4. RefusedAlone'
  BY <1>1 DEF Exclusive, RefusedAlone, AheadIsFresh, Fresh
<1>5. QED
  BY <1>2, <1>3, <1>4 DEF Exclusive

LEMMA SeesKept ==
  ASSUME TickSees, Scalars, Shrunk, UNCHANGED tick, held' \in {held, 0}
  PROVE  TickSees'
<1>1. ExposedStops' \subseteq ExposedStops
  BY ShrunkSets
<1>2. Left' = Left /\ (Looking' <=> Looking) /\ (Placing' <=> Placing)
  BY DEF Left, Looking, Placing
<1>3. held' > 0 => held > 0
  BY DEF Scalars
<1>4. \A b \in BarTimes : stops[b].venue = "filled" => stops'[b].venue = "filled"
  BY DEF Shrunk
<1>5. QED
  BY <1>1, <1>2, <1>3, <1>4 DEF TickSees

\* A step outside the tick.
LEMMA WorldKeeps ==
  ASSUME EntriesInv, Shrunk, Scalars', UNCHANGED <<bar, recovery, midair, tick>>,
         held' \in {held, 0}
  PROVE  EntriesInv'
<1>1. Ticking' <=> Ticking
  BY DEF Ticking
<1>2. TickTyped'
  BY DEF EntriesInv, TickTyped
<1>3. AheadIsFresh'
  BY <1>1, AheadKept DEF EntriesInv
<1>4. ~midair' => Exclusive' /\ TickSees'
  BY <1>1, ExclusiveKept, SeesKept DEF EntriesInv
<1>5. RowsFit'
  BY DEF Shrunk
<1>6. QED
  BY <1>2, <1>3, <1>4, <1>5 DEF EntriesInv

\* A step of the tick that places nothing.
LEMMA TickKeeps ==
  ASSUME EntriesInv, Shrunk, Scalars', UNCHANGED <<bar, recovery, midair, held>>, Ticking,
         TickTyped', ~midair => TickSees'
  PROVE  EntriesInv'
<1>1. AheadIsFresh'
  BY AheadKept DEF EntriesInv
<1>2. ~midair' => Exclusive'
  BY ExclusiveKept DEF EntriesInv
<1>3. RowsFit'
  BY DEF Shrunk
<1>4. QED
  BY <1>1, <1>2, <1>3 DEF EntriesInv

LEMMA EntryFaultsFit ==
  Scalars /\ (Fault \/ UNCHANGED entryFaults) => entryFaults' \in 0..MaxEntryFaults
BY EntryConstants DEF Scalars, Fault

-----------------------------------------------------------------------------
(***************************************************************************)
(* The worker, the exchange, and the tasks that keep the rows.             *)
(***************************************************************************)
LEMMA SettledFollows ==
  ASSUME NEW o, RowFits(o), o.venue \in {"filled", "cancelled"}
  PROVE  Follows(o, Settled(o))
BY DEF RowFits, RowFields, Follows, Settled, Exposed, RowStates, VenueStates

LEMMA WorkerKeeps ==
  ASSUME EntriesInv, NEW b \in BarTimes,
         \/ ClaimStop(b) \/ AttachStop(b) \/ ClaimMarket(b) \/ WorkerDies(b)
         \/ CreateStop(b) /\ UNCHANGED recovery
  PROVE  EntriesInv'
<1>1. RowsFit /\ Scalars /\ RowFits(stops[b]) /\ RowFits(markets[b])
  BY DEF EntriesInv, RowsFit
<1>2. CASE ClaimStop(b)
  <2> DEFINE n == [stops[b] EXCEPT !.row = "submitted", !.worker = "claimed"]
  <2>1. stops' = [stops EXCEPT ![b] = n] /\ UNCHANGED markets
    BY <1>1, <1>2 DEF ClaimStop, RowsFit
  <2>2. Follows(stops[b], n)
    BY <1>1, <1>2 DEF ClaimStop, Follows, RowFits, RowFields, Exposed, RowStates, VenueStates
  <2> HIDE DEF n
  <2>3. Shrunk
    BY <1>1, <2>1, <2>2, StopMoves
  <2>4. Scalars' /\ UNCHANGED <<bar, recovery, midair, tick, held>>
    BY <1>1, <1>2 DEF ClaimStop, Scalars, World, Rest
  <2>5. QED
    BY <2>3, <2>4, WorldKeeps
<1>3. CASE AttachStop(b)
  <2> DEFINE n == [stops[b] EXCEPT !.worker = "none", !.known = stops[b].row = "submitted"]
  <2>1. stops' = [stops EXCEPT ![b] = n] /\ UNCHANGED markets
    BY <1>1, <1>3 DEF AttachStop, RowsFit
  <2>2. Follows(stops[b], n)
    BY <1>1, <1>3 DEF AttachStop, Follows, RowFits, RowFields, Exposed, RowStates, VenueStates
  <2> HIDE DEF n
  <2>3. Shrunk
    BY <1>1, <2>1, <2>2, StopMoves
  <2>4. Scalars' /\ UNCHANGED <<bar, recovery, midair, tick, held>>
    BY <1>1, <1>3 DEF AttachStop, Scalars, World, Rest
  <2>5. QED
    BY <2>3, <2>4, WorldKeeps
<1>4. CASE ClaimMarket(b)
  <2> DEFINE n == [markets[b] EXCEPT !.row = "submitted", !.worker = "claimed"]
  <2>1. markets' = [markets EXCEPT ![b] = n] /\ UNCHANGED stops
    BY <1>1, <1>4 DEF ClaimMarket, RowsFit
  <2>2. Follows(markets[b], n)
    BY <1>1, <1>4 DEF ClaimMarket, Follows, RowFits, RowFields, Exposed, RowStates, VenueStates
  <2> HIDE DEF n
  <2>3. Shrunk
    BY <1>1, <2>1, <2>2, MarketMoves
  <2>4. Scalars' /\ UNCHANGED <<bar, recovery, midair, tick, held>>
    BY <1>1, <1>4 DEF ClaimMarket, Scalars, World, Rest
  <2>5. QED
    BY <2>3, <2>4, WorldKeeps
<1>5. CASE WorkerDies(b)
  <2> DEFINE n == [stops[b] EXCEPT !.worker = "none"]
  <2>1. stops' = [stops EXCEPT ![b] = n] /\ UNCHANGED markets
    BY <1>1, <1>5 DEF WorkerDies, RowsFit
  <2>2. Follows(stops[b], n)
    BY <1>1, <1>5 DEF WorkerDies, Follows, RowFits, RowFields, Exposed, RowStates, VenueStates
  <2> HIDE DEF n
  <2>3. Shrunk
    BY <1>1, <2>1, <2>2, StopMoves
  <2>4. Scalars' /\ UNCHANGED <<bar, recovery, midair, tick, held>>
    BY <1>1, <1>5, EntryFaultsFit DEF WorkerDies, Scalars, World, Rest
  <2>5. QED
    BY <2>3, <2>4, WorldKeeps
<1>6. CASE CreateStop(b) /\ UNCHANGED recovery
  <2>1. CASE Breached(stops[b].level)
    <3> DEFINE n == [stops[b] EXCEPT !.worker = "none", !.row = "rejected"]
    <3>1. stops' = [stops EXCEPT ![b] = n] /\ UNCHANGED markets
      BY <1>1, <1>6, <2>1 DEF CreateStop, RowsFit
    <3>2. Follows(stops[b], n)
      BY <1>1, <1>6 DEF CreateStop, Follows, RowFits, RowFields, Exposed, RowStates, VenueStates
    <3> HIDE DEF n
    <3>3. Shrunk
      BY <1>1, <3>1, <3>2, StopMoves
    <3>4. Scalars' /\ UNCHANGED <<bar, recovery, midair, tick, held>>
      BY <1>1, <1>6 DEF CreateStop, Scalars, World
    <3>5. QED
      BY <3>3, <3>4, WorldKeeps
  <2>2. CASE ~Breached(stops[b].level)
    <3> DEFINE n == [stops[b] EXCEPT !.worker = "created", !.venue = "open"]
    <3>1. stops' = [stops EXCEPT ![b] = n] /\ UNCHANGED markets
      BY <1>1, <1>6, <2>2 DEF CreateStop, RowsFit
    <3>2. Follows(stops[b], n)
      BY <1>1, <1>6 DEF CreateStop, Follows, RowFits, RowFields, Exposed, RowStates, VenueStates
    <3> HIDE DEF n
    <3>3. Shrunk
      BY <1>1, <3>1, <3>2, StopMoves
    <3>4. Scalars' /\ UNCHANGED <<bar, recovery, midair, tick, held>>
      BY <1>1, <1>6 DEF CreateStop, Scalars, World
    <3>5. QED
      BY <3>3, <3>4, WorldKeeps
  <2>3. QED
    BY <2>1, <2>2
<1>7. QED
  BY <1>2, <1>3, <1>4, <1>5, <1>6

LEMMA TasksKeep ==
  ASSUME EntriesInv, NEW b \in BarTimes, StreamEnd(b) \/ SweepStop(b) \/ JanitorStop(b)
  PROVE  EntriesInv'
<1>1. RowsFit /\ Scalars /\ RowFits(stops[b])
  BY DEF EntriesInv, RowsFit
<1>2. Scalars' /\ UNCHANGED <<bar, recovery, midair, tick, held, markets>>
  BY <1>1 DEF StreamEnd, SweepStop, JanitorStop, Scalars, World, Rest
<1>3. ASSUME NEW n, stops' = [stops EXCEPT ![b] = n], Follows(stops[b], n)
      PROVE  EntriesInv'
  BY <1>1, <1>2, <1>3, StopMoves, WorldKeeps
<1>4. CASE stops' = [stops EXCEPT ![b] = Settled(stops[b])] /\ stops[b].venue \in {"filled", "cancelled"}
  BY <1>1, <1>3, <1>4, SettledFollows
<1>5. CASE StreamEnd(b)
  BY <1>4, <1>5 DEF StreamEnd
<1>6. CASE SweepStop(b)
  <2>1. stops[b].venue # "absent"
    BY <1>1, <1>6 DEF SweepStop, RowFits
  <2>2. CASE stops[b].venue = "open"
    <3> DEFINE n == [stops[b] EXCEPT !.venue = "cancelled", !.row = "cancelled"]
    <3>1. stops' = [stops EXCEPT ![b] = n]
      BY <1>6, <2>2 DEF SweepStop
    <3>2. Follows(stops[b], n)
      BY <1>1, <2>2 DEF Follows, RowFits, RowFields, Exposed, RowStates, VenueStates
    <3>3. QED
      BY <1>3, <3>1, <3>2
  <2>3. CASE stops[b].venue # "open"
    <3>1. stops' = [stops EXCEPT ![b] = Settled(stops[b])]
      BY <1>6, <2>3 DEF SweepStop
    <3>2. stops[b].venue \in {"filled", "cancelled"}
      BY <1>1, <2>1, <2>3 DEF RowFits, VenueStates
    <3>3. QED
      BY <1>4, <3>1, <3>2
  <2>4. QED
    BY <2>2, <2>3
<1>7. CASE JanitorStop(b)
  <2>1. CASE stops[b].venue = "absent"
    <3> DEFINE n == [stops[b] EXCEPT !.row = "rejected"]
    <3>1. stops' = [stops EXCEPT ![b] = n]
      BY <1>7, <2>1 DEF JanitorStop
    <3>2. Follows(stops[b], n)
      BY <1>1, <1>7, <2>1 DEF JanitorStop, Follows, RowFits, RowFields, Exposed, RowStates, VenueStates
    <3>3. QED
      BY <1>3, <3>1, <3>2
  <2>2. CASE stops[b].venue = "open"
    <3> DEFINE n == FoundOpen(stops[b])
    <3>1. stops' = [stops EXCEPT ![b] = n]
      BY <1>7, <2>2 DEF JanitorStop
    <3>2. Follows(stops[b], n)
      BY <1>1, <1>7, <2>2 DEF JanitorStop, FoundOpen, Follows, RowFits, RowFields, Exposed,
         RowStates, VenueStates
    <3>3. QED
      BY <1>3, <3>1, <3>2
  <2>3. CASE stops[b].venue \in {"filled", "cancelled"}
    <3>1. stops' = [stops EXCEPT ![b] = Settled(stops[b])]
      BY <1>7, <2>3 DEF JanitorStop
    <3>2. QED
      BY <1>4, <2>3, <3>1
  <2>4. QED
    BY <1>1, <2>1, <2>2, <2>3 DEF RowFits, VenueStates
<1>8. QED
  BY <1>5, <1>6, <1>7

LEMMA OutsideKeeps ==
  ASSUME EntriesInv, ClosePosition \/ SessionStops \/ \E p \in Prices : MovePrice(p)
  PROVE  EntriesInv'
<1>1. UNCHANGED <<bar, recovery, midair, tick, stops, markets, entryFaults>>
  BY DEF ClosePosition, SessionStops, MovePrice, Rest
<1>2. live' \in BOOLEAN /\ price' \in Prices /\ held' \in Nat /\ held' \in {held, 0}
  <2>1. live \in BOOLEAN /\ price \in Prices /\ held \in Nat
    BY DEF EntriesInv, Scalars
  <2>2. CASE ClosePosition
    BY <2>1, <2>2 DEF ClosePosition
  <2>3. CASE SessionStops
    BY <2>1, <2>3 DEF SessionStops
  <2>4. CASE \E p \in Prices : MovePrice(p)
    BY <2>1, <2>4 DEF MovePrice
  <2>5. QED
    BY <2>2, <2>3, <2>4
<1>3. Scalars'
  BY <1>1, <1>2 DEF EntriesInv, Scalars
<1>4. QED
  BY <1>1, <1>2, <1>3, SameRows, WorldKeeps DEF EntriesInv

-----------------------------------------------------------------------------
(***************************************************************************)
(* The tick.                                                               *)
(***************************************************************************)
LEMMA IdleIs ==
  /\ DOMAIN IdleTick = TickFields /\ IdleTick.at = "idle" /\ IdleTick.pos = 0
  /\ IdleTick.place = "none" /\ IdleTick.halted = FALSE
BY DEF IdleTick, TickFields

LEMMA IdleSees ==
  tick' = IdleTick => TickTyped' /\ TickSees' /\ ~Ticking'
<1> SUFFICES ASSUME tick' = IdleTick
             PROVE  TickTyped' /\ TickSees' /\ ~Ticking'
  OBVIOUS
<1>1. /\ DOMAIN tick' = TickFields /\ tick'.at = "idle" /\ tick'.pos = 0
      /\ tick'.place = "none" /\ tick'.halted = FALSE
  BY IdleIs
<1>2. TickTyped'
  <2>1. tick'.halted \in BOOLEAN
    BY <1>1
  <2>2. tick'.pos \in Nat
    BY <1>1
  <2>3. QED
    BY <1>1, <2>1, <2>2 DEF TickTyped
<1>3. ~Looking' /\ ~Placing' /\ ~Ticking'
  BY <1>1 DEF Looking, Placing, Ticking
<1>4. TickSees'
  BY <1>1, <1>3 DEF TickSees
<1>5. QED
  BY <1>2, <1>3, <1>4

\* A tick that ends without placing anything.
LEMMA TickEnds ==
  ASSUME EntriesInv, Ticking, tick' = IdleTick, UNCHANGED <<World, Rest, stops, markets>>,
         Fault \/ UNCHANGED entryFaults
  PROVE  EntriesInv'
<1>1. Shrunk
  BY SameRows DEF EntriesInv
<1>2. Scalars'
  BY EntryFaultsFit DEF EntriesInv, Scalars, World, Rest
<1>3. QED
  BY <1>1, <1>2, IdleSees, TickKeeps DEF World, Rest

LEMMA FetchListKeeps ==
  ASSUME EntriesInv, NEW listed, FetchList(listed)
  PROVE  EntriesInv'
<1>1. Shrunk /\ Ticking /\ tick.at = "list"
  BY SameRows DEF EntriesInv, FetchList, Ticking
<1>2. Scalars' /\ UNCHANGED <<bar, recovery, midair, held, stops>>
  BY EntryFaultsFit DEF EntriesInv, FetchList, Scalars, World, Rest
<1>3. /\ tick'.at = "probe" /\ tick'.actual = tick.rows \cup listed
      /\ tick'.pos = tick.pos /\ tick'.halted = tick.halted /\ tick'.place = tick.place
      /\ DOMAIN tick' = TickFields
  BY DEF EntriesInv, TickTyped, TickFields, FetchList, TickGo
<1>4. TickTyped'
  BY <1>3 DEF EntriesInv, TickTyped
<1>5. TickSees => TickSees'
  BY <1>1, <1>2, <1>3 DEF TickSees, Looking, Placing, Left, ExposedStops
<1>6. QED
  BY <1>1, <1>2, <1>4, <1>5, TickKeeps DEF EntriesInv

\* An order that is asked for and has ended is not exposed, and its fill halts the tick.
LEMMA ProbeMissingKeeps ==
  ASSUME EntriesInv, NEW b \in BarTimes, ProbeMissing(b)
  PROVE  EntriesInv'
<1> DEFINE ended == stops[b].venue \in {"filled", "cancelled"}
<1>1. RowsFit /\ RowFits(stops[b]) /\ Ticking /\ tick.at = "probe"
  BY DEF EntriesInv, RowsFit, ProbeMissing, Ticking
<1>2. Shrunk
  <2>1. CASE ended
    BY <1>1, <2>1, SettledFollows, StopMoves DEF ProbeMissing
  <2>2. CASE ~ended
    <3>1. stops' = [stops EXCEPT ![b] = IF ended THEN Settled(stops[b]) ELSE stops[b]]
          /\ UNCHANGED markets
      BY DEF ProbeMissing
    <3>2. stops' = [stops EXCEPT ![b] = stops[b]]
      BY <2>2, <3>1
    <3>3. Follows(stops[b], stops[b])
      BY <1>1 DEF Follows
    <3>4. QED
      BY <1>1, <3>1, <3>2, <3>3, StopMoves
  <2>3. QED
    BY <2>1, <2>2
<1>3. Scalars' /\ UNCHANGED <<bar, recovery, midair, held>>
  BY DEF EntriesInv, ProbeMissing, Scalars, World, Rest
<1>4. /\ tick'.at = "probe" /\ tick'.actual = IF ended THEN tick.actual \ {b} ELSE tick.actual
      /\ tick'.halted = (tick.halted \/ stops[b].venue = "filled")
      /\ tick'.pos = tick.pos /\ tick'.place = tick.place /\ DOMAIN tick' = TickFields
  BY DEF EntriesInv, TickTyped, TickFields, ProbeMissing
<1>5. TickTyped'
  BY <1>4 DEF EntriesInv, TickTyped
<1>6. ended => ~Exposed(stops[b])
  BY DEF Exposed
<1>7. ASSUME TickSees
      PROVE  TickSees'
  <2>1. ExposedStops' \subseteq tick'.actual
    BY <1>1, <1>2, <1>4, <1>6, <1>7 DEF TickSees, Looking, Left, ExposedStops, Shrunk
  <2>2. held' > 0 => tick'.pos > 0 \/ tick'.halted
                     \/ \E c \in tick'.actual : c \in BarTimes /\ stops'[c].venue = "filled"
    <3> SUFFICES ASSUME held > 0, ~(tick.pos > 0), ~tick'.halted
                 PROVE  \E c \in tick'.actual : c \in BarTimes /\ stops'[c].venue = "filled"
      BY <1>3, <1>4
    <3>1. PICK c \in tick.actual : c \in BarTimes /\ stops[c].venue = "filled"
      BY <1>1, <1>4, <1>7 DEF TickSees, Looking, Left
    <3>2. c # b
      BY <1>4, <3>1
    <3>3. c \in tick'.actual /\ stops'[c].venue = "filled"
      BY <1>2, <1>4, <3>1, <3>2 DEF Shrunk
    <3>4. QED
      BY <3>1, <3>3
  <2>3. QED
    BY <1>4, <2>1, <2>2 DEF TickSees, Looking, Placing, Left
<1>8. QED
  BY <1>1, <1>2, <1>3, <1>5, <1>7, TickKeeps DEF EntriesInv

LEMMA ProbeOtherKeeps ==
  ASSUME EntriesInv, \/ \E b \in BarTimes : ProbeFails(b)
                     \/ \E n \in 0..Target + 1 : FetchPosition(n)
  PROVE  EntriesInv'
<1>1. Shrunk /\ Ticking /\ tick.at = "probe"
  BY SameRows DEF EntriesInv, ProbeFails, FetchPosition, Ticking
<1>2. Scalars' /\ UNCHANGED <<bar, recovery, midair, held, stops>>
  BY EntryFaultsFit DEF EntriesInv, ProbeFails, FetchPosition, Scalars, World, Rest
<1>3. /\ tick'.at \in {"probe", "plan"} /\ tick'.actual = tick.actual
      /\ tick'.pos \in {tick.pos, held}
      /\ tick'.halted = tick.halted /\ tick'.place = tick.place /\ DOMAIN tick' = TickFields
  BY <1>1 DEF EntriesInv, TickTyped, TickFields, ProbeFails, FetchPosition, TickGo
<1>4. TickTyped'
  BY <1>3 DEF EntriesInv, TickTyped, Scalars
<1>5. ASSUME TickSees
      PROVE  TickSees'
  BY <1>1, <1>2, <1>3, <1>5 DEF TickSees, Looking, Placing, Left, ExposedStops
<1>6. QED
  BY <1>1, <1>2, <1>4, <1>5, TickKeeps DEF EntriesInv

\* Whatever is placed was planned without a position, and after every order that
\* is left was cancelled.
LEMMA PlanIs ==
  ASSUME NEW actual, NEW want, NEW pos \in Nat, NEW convertible \in BOOLEAN
  PROVE  LET plan == Plan(actual, want, pos, convertible)
         IN  /\ plan[2] \in {"none", "stop", "market"}
             /\ plan[2] # "none" => plan[1] = actual /\ pos = 0
<1> DEFINE fired == \E b \in actual : Breached(stops[b].level)
           same == {b \in actual : stops[b].level = want}
           stood == Breached(want) /\ (fired \/ ~convertible)
           last == IF Breached(want) THEN <<actual, "market">>
                   ELSE IF Cardinality(actual) = 1 /\ same = actual THEN <<{}, "none">>
                   ELSE <<actual, "stop">>
           plan == Plan(actual, want, pos, convertible)
<1>1. \/ plan = <<actual, "none">>
      \/ plan = last /\ ~(pos >= Target)
  BY DEF Plan
<1>2. last \in {<<actual, "market">>, <<{}, "none">>, <<actual, "stop">>}
  OBVIOUS
<1> HIDE DEF last, plan
<1>3. pos >= Target \/ pos = 0
  BY DEF Target
<1>4. QED
  BY <1>1, <1>2, <1>3 DEF plan

LEMMA MakePlanKeeps ==
  ASSUME EntriesInv, NEW convertible \in BOOLEAN, MakePlan(convertible)
  PROVE  EntriesInv'
<1>1. Shrunk /\ Ticking /\ tick.at = "plan" /\ tick.pos \in Nat
  BY SameRows DEF EntriesInv, TickTyped, MakePlan, Ticking
<1>2. Scalars' /\ UNCHANGED <<bar, recovery, midair, held, stops>>
  BY EntryFaultsFit DEF EntriesInv, MakePlan, Scalars, World, Rest
<1> DEFINE plan == Plan(tick.actual, tick.want, tick.pos, convertible)
<1>3. plan[2] \in {"none", "stop", "market"} /\ (plan[2] # "none" => plan[1] = tick.actual /\ tick.pos = 0)
  BY <1>1, PlanIs
<1>4. tick' = [[tick EXCEPT !.drop = plan[1], !.place = plan[2]] EXCEPT !.at = "cancel"]
  BY DEF MakePlan, TickGo
<1> HIDE DEF plan
<1>5. /\ tick'.at = "cancel" /\ tick'.drop = plan[1] /\ tick'.place = plan[2]
      /\ tick'.pos = tick.pos /\ tick'.halted = tick.halted /\ DOMAIN tick' = TickFields
  BY <1>4 DEF EntriesInv, TickTyped, TickFields
<1>6. TickTyped'
  BY <1>3, <1>5 DEF EntriesInv, TickTyped
<1>7. ASSUME TickSees
      PROVE  TickSees'
  BY <1>1, <1>2, <1>3, <1>5, <1>7 DEF TickSees, Looking, Placing, Left, ExposedStops
<1>8. QED
  BY <1>1, <1>2, <1>6, <1>7, TickKeeps DEF EntriesInv

\* An order that is cancelled is not exposed any more, or the tick halts.
LEMMA CancelSees ==
  ASSUME TickTyped, TickSees, Shrunk, NEW b \in BarTimes, tick.at = "cancel",
         tick'.at = "cancel", tick'.drop = tick.drop \ {b}, tick'.place = tick.place,
         UNCHANGED held,
         \/ tick'.halted
         \/ ~tick.halted /\ ~Exposed(stops'[b]) /\ stops[b].venue # "filled"
  PROVE  TickSees'
<1>1. Placing' /\ ~tick'.halted => ExposedStops' \subseteq tick'.drop
  BY DEF TickSees, Placing, Left, ExposedStops, Shrunk
<1>2. Placing' /\ held' > 0 =>
        tick'.halted \/ \E c \in tick'.drop : c \in BarTimes /\ stops'[c].venue = "filled"
  <2> SUFFICES ASSUME Placing', held > 0, ~tick'.halted
               PROVE  \E c \in tick'.drop : c \in BarTimes /\ stops'[c].venue = "filled"
    OBVIOUS
  <2>1. PICK c \in tick.drop : c \in BarTimes /\ stops[c].venue = "filled"
    BY DEF TickSees, Placing, Left
  <2>2. c # b
    BY <2>1
  <2>3. QED
    BY <2>1, <2>2 DEF Shrunk
<1>3. QED
  BY <1>1, <1>2 DEF TickSees, Looking, Placing, Left

LEMMA CancelKeeps ==
  ASSUME EntriesInv, NEW b \in BarTimes,
         CancelLocal(b) \/ CancelAtVenue(b) \/ \E done \in BOOLEAN : CancelFails(b, done)
  PROVE  EntriesInv'
<1>1. RowsFit /\ RowFits(stops[b]) /\ Ticking /\ tick.at = "cancel"
  BY DEF EntriesInv, RowsFit, CancelLocal, CancelAtVenue, CancelFails, Ticking
<1>2. Scalars' /\ UNCHANGED <<bar, recovery, midair, held, markets>>
  BY EntryFaultsFit DEF EntriesInv, CancelLocal, CancelAtVenue, CancelFails, Scalars, World, Rest
<1>3. /\ tick'.at = "cancel" /\ tick'.drop = tick.drop \ {b} /\ tick'.place = tick.place
      /\ tick'.pos = tick.pos /\ tick'.halted \in BOOLEAN /\ DOMAIN tick' = TickFields
      /\ tick.halted => tick'.halted
  BY <1>1 DEF EntriesInv, TickTyped, TickFields, CancelLocal, CancelAtVenue, CancelFails
<1>4. TickTyped'
  BY <1>3 DEF EntriesInv, TickTyped
<1>5. /\ Shrunk
      /\ tick'.halted \/ (~Exposed(stops'[b]) /\ stops[b].venue # "filled")
  <2>1. CASE CancelLocal(b)
    <3>1. CASE stops[b].row = "pending"
      <4> DEFINE n == [stops[b] EXCEPT !.row = "cancelled"]
      <4>1. stops' = [stops EXCEPT ![b] = n]
        BY <1>1, <2>1, <3>1 DEF CancelLocal, RowsFit
      <4>2. Follows(stops[b], n) /\ ~Exposed(n) /\ stops[b].venue # "filled"
        BY <1>1, <3>1 DEF Follows, RowFits, RowFields, Exposed, RowStates, VenueStates
      <4> HIDE DEF n
      <4>3. Shrunk /\ stops'[b] = n
        BY <1>1, <1>2, <4>1, <4>2, StopMoves DEF RowsFit
      <4>4. QED
        BY <4>2, <4>3
    <3>2. CASE stops[b].row # "pending"
      <4>1. tick'.halted /\ UNCHANGED stops
        BY <2>1, <3>2 DEF CancelLocal, EntriesInv, TickTyped, TickFields
      <4>2. QED
        BY <1>1, <1>2, <4>1, SameRows
    <3>3. QED
      BY <3>1, <3>2
  <2>2. CASE CancelAtVenue(b)
    <3>1. CASE stops[b].venue = "open"
      <4> DEFINE n == [stops[b] EXCEPT !.venue = "cancelled",
                         !.row = IF RowOpen(stops[b]) THEN "cancelled" ELSE stops[b].row]
      <4>1. stops' = [stops EXCEPT ![b] = n]
        BY <1>1, <2>2, <3>1 DEF CancelAtVenue, RowsFit
      <4>2. Follows(stops[b], n) /\ ~Exposed(n) /\ stops[b].venue # "filled"
        BY <1>1, <3>1 DEF Follows, RowFits, RowFields, Exposed, RowOpen, RowStates, VenueStates
      <4> HIDE DEF n
      <4>3. Shrunk /\ stops'[b] = n
        BY <1>1, <1>2, <4>1, <4>2, StopMoves DEF RowsFit
      <4>4. QED
        BY <4>2, <4>3
    <3>2. CASE stops[b].venue # "open"
      <4>1. tick'.halted /\ UNCHANGED stops
        BY <2>2, <3>2 DEF CancelAtVenue, EntriesInv, TickTyped, TickFields
      <4>2. QED
        BY <1>1, <1>2, <4>1, SameRows
    <3>3. QED
      BY <3>1, <3>2
  <2>3. CASE \E done \in BOOLEAN : CancelFails(b, done)
    <3>1. PICK done \in BOOLEAN : CancelFails(b, done)
      BY <2>3
    <3>2. tick'.halted
      BY <3>1 DEF CancelFails, EntriesInv, TickTyped, TickFields
    <3> DEFINE n == [stops[b] EXCEPT !.venue = IF done /\ stops[b].venue = "open" THEN "cancelled"
                                               ELSE stops[b].venue]
    <3>3. stops' = [stops EXCEPT ![b] = n]
      BY <1>1, <3>1 DEF CancelFails, RowsFit
    <3>4. Follows(stops[b], n)
      BY <1>1 DEF Follows, RowFits, RowFields, Exposed, RowStates, VenueStates
    <3> HIDE DEF n
    <3>5. QED
      BY <1>1, <1>2, <3>2, <3>3, <3>4, StopMoves
  <2>4. QED
    BY <2>1, <2>2, <2>3
<1>6. TickSees => TickSees'
  BY <1>1, <1>2, <1>3, <1>5, CancelSees DEF EntriesInv
<1>7. QED
  BY <1>1, <1>2, <1>4, <1>5, <1>6, TickKeeps DEF EntriesInv

LEMMA CheckConversionKeeps ==
  EntriesInv /\ CheckConversion => EntriesInv'
<1> SUFFICES ASSUME EntriesInv, CheckConversion
             PROVE  EntriesInv'
  OBVIOUS
<1>1. Shrunk /\ Ticking /\ tick.at = "cancel" /\ tick.drop = {} /\ ~tick.halted /\ tick.place = "market"
  BY SameRows DEF EntriesInv, CheckConversion, Ticking, Halted
<1>2. Scalars' /\ UNCHANGED <<World, Rest, stops, markets, entryFaults>>
  BY DEF EntriesInv, CheckConversion, Scalars, World, Rest
<1>3. CASE tick' = IdleTick
  BY <1>1, <1>2, <1>3, TickEnds
<1>4. CASE TickGo("convert", tick)
  <2>1. /\ tick'.at = "convert" /\ tick'.drop = {} /\ tick'.place = "market"
        /\ tick'.pos = tick.pos /\ tick'.halted = tick.halted /\ DOMAIN tick' = TickFields
    BY <1>1, <1>4 DEF TickGo, EntriesInv, TickTyped, TickFields
  <2>2. TickTyped'
    BY <2>1 DEF EntriesInv, TickTyped
  <2>3. TickSees => TickSees'
    BY <1>1, <1>2, <2>1 DEF TickSees, Looking, Placing, Left, ExposedStops, World
  <2>4. QED
    BY <1>1, <1>2, <2>2, <2>3, TickKeeps DEF EntriesInv, World, Rest
<1>5. QED
  BY <1>3, <1>4 DEF CheckConversion

-----------------------------------------------------------------------------
(***************************************************************************)
(* The steps that add to what is exposed, or turn one thing into another.  *)
(***************************************************************************)
\* A bar begins; beside a conversion it is midair from now on.
LEMMA StartTickKeeps ==
  ASSUME EntriesInv, NEW want \in Levels \cup {0}, StartTick(want)
  PROVE  EntriesInv'
<1>1. RowsFit /\ Scalars /\ ~Ticking
  BY DEF EntriesInv, StartTick, Ticking
<1>2. /\ UNCHANGED <<live, price, held, stops, markets, recovery, entryFaults>>
      /\ bar < Ticks /\ bar' = bar + 1 /\ midair' = (midair \/ Converting)
  BY DEF StartTick, World
<1>3. Scalars' /\ RowsFit' /\ bar' \in BarTimes /\ bar \in Nat
  BY <1>1, <1>2, EntryConstants DEF Scalars, RowsFit, BarTimes
<1>4. \/ tick' = IdleTick
      \/ tick' = [IdleTick EXCEPT !.at = "list", !.want = want, !.pos = held, !.rows = Snapshot,
                                  !.known = {b \in Snapshot : stops[b].known}]
  BY DEF StartTick
<1>5. \/ ~Ticking' /\ TickTyped' /\ TickSees'
      \/ /\ tick'.at = "list" /\ tick'.pos = held /\ tick'.rows = Snapshot
         /\ tick'.place = "none" /\ TickTyped'
  <2>1. CASE tick' = IdleTick
    BY <2>1, IdleSees
  <2>2. CASE tick' = [IdleTick EXCEPT !.at = "list", !.want = want, !.pos = held,
                        !.rows = Snapshot, !.known = {b \in Snapshot : stops[b].known}]
    BY <1>1, <2>2, IdleIs DEF TickTyped, TickFields, Scalars
  <2>3. QED
    BY <1>4, <2>1, <2>2
<1>6. AheadIsFresh'
  BY <1>2, <1>3 DEF EntriesInv, AheadIsFresh, Fresh, BarTimes
<1>7. ASSUME ~midair'
      PROVE  Exclusive' /\ TickSees'
  <2>1. Exclusive /\ ~Converting
    BY <1>2, <1>7 DEF EntriesInv
  <2>2. Unsettled = {} /\ Ready = {}
    BY <2>1 DEF Converting, Ready
  <2>3. ExposedStops' = ExposedStops /\ Unsettled' = {} /\ Ready' = {}
    BY <1>2, <2>2 DEF ExposedStops, Unsettled, Ready
  <2>4. OneAtMost' /\ Apart'
    BY <1>2, <2>1, <2>3 DEF Exclusive, OneAtMost, Apart
  <2>5. RefusedAlone'
    BY <1>1, <1>2, <1>3 DEF EntriesInv, RefusedAlone, AheadIsFresh, Fresh
  <2>6. TickSees'
    <3>1. ExposedStops \subseteq Snapshot
      BY <1>1 DEF ExposedStops, Snapshot, Exposed, RowOpen, RowsFit, RowFits
    <3>2. QED
      BY <1>2, <1>5, <2>3, <3>1 DEF TickSees, Looking, Placing, Left
  <2>7. QED
    BY <2>4, <2>5, <2>6 DEF Exclusive
<1>8. QED
  BY <1>3, <1>5, <1>6, <1>7, IdleSees DEF EntriesInv

\* What a tick places has nothing beside it.
LEMMA NothingLeft ==
  ASSUME EntriesInv, ~midair, ~tick.halted, tick.drop = {}, tick.at \in {"cancel", "convert"},
         tick.place # "none"
  PROVE  /\ held = 0 /\ ExposedStops = {} /\ Unsettled = {} /\ Ready = {}
<1>1. TickSees /\ Apart /\ Ticking /\ held \in {0, 1}
  BY DEF EntriesInv, Exclusive, OneAtMost, Ticking
<1>2. held = 0 /\ ExposedStops = {}
  BY <1>1 DEF TickSees, Placing, Left
<1>3. QED
  BY <1>1, <1>2 DEF Apart

LEMMA NewRowIs ==
  ASSUME NEW n
  PROVE  RowFits(NewRow(n)) /\ Exposed(NewRow(n)) /\ NewRow(n).row = "pending"
BY DEF RowFits, RowFields, NewRow, NoRow, Exposed, RowStates, VenueStates

LEMMA PlaceStopKeeps ==
  EntriesInv /\ PlaceStop => EntriesInv'
<1> SUFFICES ASSUME EntriesInv, PlaceStop
             PROVE  EntriesInv'
  OBVIOUS
<1>1. /\ tick.at = "cancel" /\ tick.drop = {} /\ ~tick.halted /\ tick.place = "stop"
      /\ tick' = IdleTick /\ stops' = [stops EXCEPT ![bar] = NewRow(tick.want)]
      /\ UNCHANGED <<live, price, held, bar, recovery, midair, markets, entryFaults>>
  BY DEF PlaceStop, Halted, World, Rest
<1>2. Ticking /\ bar \in BarTimes /\ RowsFit /\ AheadIsFresh /\ Scalars
  BY <1>1 DEF Ticking, EntriesInv, AheadIsFresh
<1>3. \A b \in BarTimes : stops'[b] = IF b = bar THEN NewRow(tick.want) ELSE stops[b]
  BY <1>1, <1>2 DEF RowsFit
<1>4. Scalars' /\ RowsFit'
  BY <1>1, <1>2, <1>3, NewRowIs DEF Scalars, RowsFit
<1>5. TickTyped' /\ TickSees' /\ ~Ticking'
  BY <1>1, IdleSees
<1>6. AheadIsFresh'
  BY <1>1, <1>2, <1>3, <1>5 DEF AheadIsFresh, Fresh, Scalars, BarTimes
<1>7. ASSUME ~midair'
      PROVE  Exclusive'
  <2>1. held = 0 /\ ExposedStops = {} /\ Unsettled = {} /\ Ready = {}
    BY <1>1, <1>7, NothingLeft
  <2>2. \A b \in ExposedStops' : b = bar
    BY <1>3, <2>1 DEF ExposedStops
  <2>3. Unsettled' = {} /\ Ready' = {}
    BY <1>1, <2>1 DEF Unsettled, Ready
  <2>4. OneAtMost' /\ Apart'
    BY <1>1, <2>1, <2>2, <2>3 DEF OneAtMost, Apart
  <2>5. RefusedAlone'
    BY <1>1, <1>2 DEF RefusedAlone, AheadIsFresh, Fresh
  <2>6. QED
    BY <2>4, <2>5 DEF Exclusive
<1>8. QED
  BY <1>4, <1>5, <1>6, <1>7 DEF EntriesInv

LEMMA PlaceMarketKeeps ==
  EntriesInv /\ PlaceMarket => EntriesInv'
<1> SUFFICES ASSUME EntriesInv, PlaceMarket
             PROVE  EntriesInv'
  OBVIOUS
<1>1. /\ tick.at = "convert"
      /\ tick' = IdleTick /\ markets' = [markets EXCEPT ![bar] = NewRow(tick.want)]
      /\ UNCHANGED <<live, price, held, bar, recovery, midair, stops, entryFaults>>
  BY DEF PlaceMarket, World, Rest
<1>2. Ticking /\ bar \in BarTimes /\ RowsFit /\ AheadIsFresh /\ Scalars
  BY <1>1 DEF Ticking, EntriesInv, AheadIsFresh
<1>3. \A b \in BarTimes : markets'[b] = IF b = bar THEN NewRow(tick.want) ELSE markets[b]
  BY <1>1, <1>2 DEF RowsFit
<1>4. Scalars' /\ RowsFit'
  BY <1>1, <1>2, <1>3, NewRowIs DEF Scalars, RowsFit
<1>5. TickTyped' /\ TickSees' /\ ~Ticking'
  BY <1>1, IdleSees
<1>6. AheadIsFresh'
  BY <1>1, <1>2, <1>3, <1>5 DEF AheadIsFresh, Fresh, Scalars, BarTimes
<1>7. ASSUME ~midair'
      PROVE  Exclusive'
  <2>1. tick.drop = {} /\ ~tick.halted /\ tick.place # "none"
    BY <1>1, <1>7 DEF EntriesInv, TickSees
  <2>2. held = 0 /\ ExposedStops = {} /\ Unsettled = {} /\ Ready = {}
    BY <1>1, <1>7, <2>1, NothingLeft
  <2>3. \A b \in Unsettled' : b = bar
    BY <1>3, <2>2 DEF Unsettled
  <2>4. ExposedStops' = {} /\ Ready' = {}
    BY <1>1, <2>2 DEF ExposedStops, Ready
  <2>5. OneAtMost' /\ Apart'
    BY <1>1, <1>5, <2>2, <2>3, <2>4 DEF OneAtMost, Apart
  <2>6. RefusedAlone'
    BY <1>1, <1>2 DEF RefusedAlone, AheadIsFresh, Fresh
  <2>7. QED
    BY <2>5, <2>6 DEF Exclusive
<1>8. QED
  BY <1>4, <1>5, <1>6, <1>7 DEF EntriesInv

\* The exchange refuses a stop: it was all there was, and its recovery is queued.
LEMMA RefuseKeeps ==
  ASSUME EntriesInv, NEW b \in BarTimes, CreateStop(b), Breached(stops[b].level)
  PROVE  EntriesInv'
<1>1. RowsFit /\ Scalars /\ AheadIsFresh /\ RowFits(stops[b])
  BY DEF EntriesInv, RowsFit
<1>2. /\ recovery' = [recovery EXCEPT ![b] = "queued"]
      /\ UNCHANGED <<live, price, held, bar, midair, markets, tick, entryFaults>>
      /\ Exposed(stops[b])
  BY <1>1 DEF CreateStop, World, Exposed, RowFits
<1> DEFINE n == [stops[b] EXCEPT !.worker = "none", !.row = "rejected"]
<1>3. stops' = [stops EXCEPT ![b] = n]
  BY <1>1 DEF CreateStop, RowsFit
<1>4. Follows(stops[b], n) /\ ~Exposed(n)
  BY <1>1 DEF CreateStop, Follows, RowFits, RowFields, Exposed, RowStates, VenueStates
<1> HIDE DEF n
<1>5. Shrunk /\ ~Exposed(stops'[b])
  BY <1>1, <1>2, <1>3, <1>4, StopMoves DEF RowsFit
<1>6. \A c \in BarTimes : recovery'[c] = IF c = b THEN "queued" ELSE recovery[c]
  BY <1>1, <1>2 DEF Scalars
<1>7. Scalars' /\ TickTyped' /\ RowsFit' /\ (Ticking' <=> Ticking)
  BY <1>1, <1>2, <1>5 DEF Scalars, Shrunk, EntriesInv, TickTyped, Ticking
<1>8. AheadIsFresh'
  BY <1>1, <1>2, <1>5, <1>6, <1>7 DEF AheadIsFresh, Fresh, Shrunk
<1>9. ASSUME ~midair'
      PROVE  Exclusive' /\ TickSees'
  <2>1. Exclusive /\ TickSees /\ b \in ExposedStops
    BY <1>2, <1>9 DEF EntriesInv, ExposedStops
  <2>2. held = 0 /\ Unsettled = {} /\ Ready = {} /\ \A c \in ExposedStops : c = b
    BY <2>1 DEF Exclusive, OneAtMost
  <2>3. ExposedStops' = {} /\ Unsettled' = {}
    BY <1>5, <2>2, ShrunkSets DEF ExposedStops
  <2>4. Ready' = {}
    BY <1>6, <2>2 DEF Ready
  <2>5. Exclusive'
    BY <1>2, <2>2, <2>3, <2>4 DEF Exclusive, OneAtMost, Apart, RefusedAlone
  <2>6. TickSees'
    BY <1>1, <1>2, <1>5, <2>1, SeesKept
  <2>7. QED
    BY <2>5, <2>6
<1>10. QED
  BY <1>7, <1>8, <1>9 DEF EntriesInv

\* A conversion fills at once: no tick and nothing else is there beside it.
LEMMA CreateMarketKeeps ==
  ASSUME EntriesInv, NEW b \in BarTimes, CreateMarket(b)
  PROVE  EntriesInv'
<1>1. RowsFit /\ Scalars /\ AheadIsFresh /\ RowFits(markets[b])
  BY DEF EntriesInv, RowsFit
<1>2. /\ held' = held + 1 /\ Exposed(markets[b])
      /\ UNCHANGED <<live, price, bar, recovery, midair, stops, tick, entryFaults>>
  BY <1>1 DEF CreateMarket, Rest, Exposed, RowFits
<1> DEFINE n == [markets[b] EXCEPT !.row = "filled", !.worker = "none", !.venue = "filled"]
<1>3. markets' = [markets EXCEPT ![b] = n]
  BY <1>1 DEF CreateMarket, RowsFit
<1>4. Follows(markets[b], n) /\ ~Exposed(n)
  BY <1>1 DEF CreateMarket, Follows, RowFits, RowFields, Exposed, RowStates, VenueStates
<1> HIDE DEF n
<1>5. Shrunk /\ ~Exposed(markets'[b])
  BY <1>1, <1>2, <1>3, <1>4, MarketMoves DEF RowsFit
<1>6. Scalars' /\ TickTyped' /\ RowsFit' /\ (Ticking' <=> Ticking)
  BY <1>1, <1>2, <1>5 DEF Scalars, Shrunk, EntriesInv, TickTyped, Ticking
<1>7. AheadIsFresh'
  BY <1>1, <1>2, <1>5, <1>6, AheadKept
<1>8. ASSUME ~midair'
      PROVE  Exclusive' /\ TickSees'
  <2>1. Exclusive /\ b \in Unsettled
    BY <1>2, <1>8 DEF EntriesInv, Unsettled
  <2>2. held = 0 /\ ExposedStops = {} /\ Ready = {} /\ ~Ticking /\ \A c \in Unsettled : c = b
    BY <2>1 DEF Exclusive, OneAtMost, Apart
  <2>3. ExposedStops' = {} /\ Unsettled' = {}
    BY <1>5, <2>2, ShrunkSets DEF Unsettled
  <2>4. Ready' = {}
    BY <1>2, <2>2 DEF Ready
  <2>5. OneAtMost' /\ Apart'
    BY <1>2, <2>2, <2>3, <2>4 DEF OneAtMost, Apart
  <2>6. RefusedAlone'
    BY <1>2, <1>6, <2>1 DEF Exclusive, RefusedAlone
  <2>7. TickSees'
    BY <1>6, <2>2 DEF TickSees, Ticking, Looking, Placing
  <2>8. QED
    BY <2>5, <2>6, <2>7 DEF Exclusive
<1>9. QED
  BY <1>6, <1>7, <1>8 DEF EntriesInv

\* The recovery looks: what it finds ready had nothing beside it.
LEMMA CheckRecoveryKeeps ==
  ASSUME EntriesInv, NEW b \in BarTimes, CheckRecovery(b)
  PROVE  EntriesInv'
<1> DEFINE ready == live /\ b = bar /\ ~Converted /\ Breached(stops[b].level)
<1>1. RowsFit /\ Scalars /\ AheadIsFresh /\ recovery[b] = "queued"
  BY DEF EntriesInv, CheckRecovery
<1>2. /\ recovery' = [recovery EXCEPT ![b] = IF ready THEN "ready" ELSE "none"]
      /\ midair' = (midair \/ (ready /\ Ticking))
      /\ UNCHANGED <<live, price, held, bar, stops, markets, tick, entryFaults>>
  BY DEF CheckRecovery, World, Ticking
<1>3. ready => b = bar
  OBVIOUS
<1> HIDE DEF ready
<1>4. \A c \in BarTimes : recovery'[c] =
        IF c = b THEN (IF ready THEN "ready" ELSE "none") ELSE recovery[c]
  BY <1>1, <1>2 DEF Scalars
<1>5. midair' \in BOOLEAN /\ recovery' \in [BarTimes -> {"none", "queued", "ready"}]
  BY <1>1, <1>2 DEF Scalars
<1>6. Scalars' /\ TickTyped' /\ RowsFit' /\ (Ticking' <=> Ticking)
  BY <1>1, <1>2, <1>5 DEF Scalars, RowsFit, EntriesInv, TickTyped, Ticking
<1>7. ExposedStops' = ExposedStops /\ Unsettled' = Unsettled
  BY <1>2 DEF ExposedStops, Unsettled
<1>8. AheadIsFresh'
  BY <1>1, <1>2, <1>4, <1>6 DEF AheadIsFresh, Fresh
<1>9. ASSUME ~midair'
      PROVE  Exclusive' /\ TickSees'
  <2>1. Exclusive /\ TickSees /\ ~(ready /\ Ticking)
    BY <1>2, <1>9 DEF EntriesInv
  <2>2. ready => held = 0 /\ ExposedStops = {} /\ Unsettled = {} /\ b = bar /\ ~Ticking
    BY <1>1, <1>3, <2>1 DEF Exclusive, RefusedAlone
  <2>3. ~ready => Ready' \subseteq Ready
    BY <1>4 DEF Ready
  <2>4. Apart'
    BY <1>2, <1>4, <1>6, <1>7, <2>1, <2>2 DEF Exclusive, Apart, Ready
  <2>5. OneAtMost'
    BY <1>2, <1>7, <2>1, <2>2, <2>3 DEF Exclusive, OneAtMost
  <2>6. RefusedAlone'
    BY <1>2, <1>4, <1>6, <1>7, <2>1 DEF Exclusive, RefusedAlone
  <2>7. TickSees'
    BY <1>1, <1>2, <2>1, SameRows, SeesKept
  <2>8. QED
    BY <2>4, <2>5, <2>6, <2>7 DEF Exclusive
<1>10. QED
  BY <1>6, <1>8, <1>9 DEF EntriesInv

\* It places the conversion, in the place of its own readiness.
LEMMA PlaceRecoveryKeeps ==
  ASSUME EntriesInv, NEW b \in BarTimes, PlaceRecovery(b)
  PROVE  EntriesInv'
<1>1. RowsFit /\ Scalars /\ AheadIsFresh /\ recovery[b] = "ready"
  BY DEF EntriesInv, PlaceRecovery
<1>2. /\ recovery' = [recovery EXCEPT ![b] = "none"]
      /\ UNCHANGED <<live, price, held, bar, midair, stops, tick, entryFaults>>
  BY DEF PlaceRecovery, World
<1>3. \A c \in BarTimes : recovery'[c] = IF c = b THEN "none" ELSE recovery[c]
  BY <1>1, <1>2 DEF Scalars
<1>4. /\ DOMAIN markets' = BarTimes /\ RowFits(markets'[b])
      /\ \A c \in BarTimes : c # b => markets'[c] = markets[c]
  <2>1. CASE markets[b].row = "none"
    <3>1. markets' = [markets EXCEPT ![b] = NewRow(stops[b].level)]
      BY <2>1 DEF PlaceRecovery
    <3>2. QED
      BY <1>1, <3>1, NewRowIs DEF RowsFit
  <2>2. CASE markets[b].row # "none"
    <3>1. markets' = markets
      BY <2>2 DEF PlaceRecovery
    <3>2. QED
      BY <1>1, <3>1 DEF RowsFit
  <2>3. QED
    BY <2>1, <2>2
<1>5. Scalars' /\ TickTyped' /\ RowsFit' /\ (Ticking' <=> Ticking)
  BY <1>1, <1>2, <1>4 DEF Scalars, RowsFit, EntriesInv, TickTyped, Ticking
<1>6. AheadIsFresh'
  BY <1>1, <1>2, <1>3, <1>4, <1>5 DEF AheadIsFresh, Fresh
<1>7. ASSUME ~midair'
      PROVE  Exclusive' /\ TickSees'
  <2>1. Exclusive /\ b \in Ready
    BY <1>1, <1>2, <1>7 DEF EntriesInv, Ready
  <2>2. held = 0 /\ ExposedStops = {} /\ Unsettled = {} /\ b = bar /\ ~Ticking
    BY <2>1 DEF Exclusive, OneAtMost, Apart
  <2>3. Ready' = {}
    BY <1>3, <2>1, <2>2 DEF Exclusive, Apart, Ready
  <2>4. ExposedStops' = {} /\ \A c \in Unsettled' : c = b
    BY <1>2, <1>4, <2>2 DEF ExposedStops, Unsettled
  <2>5. OneAtMost' /\ Apart'
    BY <1>2, <1>5, <2>2, <2>3, <2>4 DEF OneAtMost, Apart
  <2>6. RefusedAlone'
    BY <1>2, <1>3, <2>2 DEF RefusedAlone
  <2>7. TickSees'
    BY <1>5, <2>2 DEF TickSees, Ticking, Looking, Placing
  <2>8. QED
    BY <2>5, <2>6, <2>7 DEF Exclusive
<1>8. QED
  BY <1>5, <1>6, <1>7 DEF EntriesInv

\* A stop fills: the tick has it before it, or gives up.
LEMMA TriggerKeeps ==
  ASSUME EntriesInv, NEW b \in BarTimes, TriggerStop(b)
  PROVE  EntriesInv'
<1>1. RowsFit /\ Scalars /\ AheadIsFresh /\ RowFits(stops[b])
  BY DEF EntriesInv, RowsFit
<1>2. /\ held' = held + 1 /\ Exposed(stops[b])
      /\ UNCHANGED <<live, price, bar, recovery, midair, markets, tick, entryFaults>>
  BY DEF TriggerStop, Rest, Exposed
<1> DEFINE n == [stops[b] EXCEPT !.venue = "filled"]
<1>3. stops' = [stops EXCEPT ![b] = n]
  BY <1>1 DEF TriggerStop, RowsFit
<1>4. Follows(stops[b], n) /\ ~Exposed(n) /\ n.venue = "filled"
  BY <1>1 DEF TriggerStop, Follows, RowFits, RowFields, Exposed, RowStates, VenueStates
<1> HIDE DEF n
<1>5. Shrunk /\ ~Exposed(stops'[b]) /\ stops'[b].venue = "filled"
  BY <1>1, <1>2, <1>3, <1>4, StopMoves DEF RowsFit
<1>6. Scalars' /\ TickTyped' /\ RowsFit' /\ (Ticking' <=> Ticking)
  BY <1>1, <1>2, <1>5 DEF Scalars, Shrunk, EntriesInv, TickTyped, Ticking
<1>7. AheadIsFresh'
  BY <1>1, <1>2, <1>5, <1>6, AheadKept
<1>8. ASSUME ~midair'
      PROVE  Exclusive' /\ TickSees'
  <2>1. Exclusive /\ TickSees /\ b \in ExposedStops
    BY <1>2, <1>8 DEF EntriesInv, ExposedStops
  <2>2. held = 0 /\ Unsettled = {} /\ Ready = {} /\ \A c \in ExposedStops : c = b
    BY <2>1 DEF Exclusive, OneAtMost
  <2>3. ExposedStops' = {} /\ Unsettled' = {}
    BY <1>5, <2>2, ShrunkSets DEF ExposedStops
  <2>4. Ready' = {}
    BY <1>2, <2>2 DEF Ready
  <2>5. OneAtMost' /\ Apart'
    BY <1>2, <2>2, <2>3, <2>4 DEF OneAtMost, Apart
  <2>6. RefusedAlone'
    BY <1>2, <1>6, <2>1 DEF Exclusive, RefusedAlone
  <2>7. Left' = Left /\ (Looking' <=> Looking) /\ (Placing' <=> Placing)
    BY <1>2 DEF Left, Looking, Placing
  <2>8. Looking \/ (Placing /\ ~tick.halted) => b \in Left
    BY <2>1 DEF TickSees
  <2>9. TickSees'
    BY <1>2, <1>5, <2>1, <2>3, <2>7, <2>8 DEF TickSees
  <2>10. QED
    BY <2>5, <2>6, <2>9 DEF Exclusive
<1>9. QED
  BY <1>6, <1>7, <1>8 DEF EntriesInv

-----------------------------------------------------------------------------
LEMMA EntriesStutter ==
  EntriesInv /\ UNCHANGED entryVars => EntriesInv'
<1> SUFFICES ASSUME EntriesInv, UNCHANGED entryVars
             PROVE  EntriesInv'
  OBVIOUS
<1>1. UNCHANGED <<live, bar, price, held, stops, markets, tick, recovery, midair, entryFaults>>
  BY DEF entryVars
<1>2. Shrunk /\ Scalars'
  BY <1>1, SameRows DEF EntriesInv, Scalars
<1>3. QED
  BY <1>1, <1>2, WorldKeeps

LEMMA TickStepKeeps ==
  EntriesInv /\ (TickStep \/ TickFault) => EntriesInv'
<1> SUFFICES ASSUME EntriesInv, TickStep \/ TickFault
             PROVE  EntriesInv'
  OBVIOUS
<1>1. CASE \E listed \in SUBSET BarTimes : FetchList(listed)
  BY <1>1, FetchListKeeps
<1>2. CASE \E b \in BarTimes : ProbeMissing(b) \/ CancelLocal(b) \/ CancelAtVenue(b)
  BY <1>2, ProbeMissingKeeps, CancelKeeps
<1>3. CASE (\E n \in 0..Target + 1 : FetchPosition(n)) \/ \E b \in BarTimes : ProbeFails(b)
  BY <1>3, ProbeOtherKeeps
<1>4. CASE MakePlan(TRUE) \/ MakePlan(FALSE)
  BY <1>4, MakePlanKeeps
<1>5. CASE PlaceStop \/ CheckConversion \/ PlaceMarket
  BY <1>5, PlaceStopKeeps, CheckConversionKeeps, PlaceMarketKeeps
<1>6. CASE EndTick \/ AbortTick
  <2>1. /\ Ticking /\ tick' = IdleTick /\ UNCHANGED <<World, Rest, stops, markets>>
        /\ Fault \/ UNCHANGED entryFaults
    BY <1>6 DEF EndTick, AbortTick, Ticking
  <2>2. QED
    BY <2>1, TickEnds
<1>7. CASE \E b \in BarTimes : \E done \in BOOLEAN : CancelFails(b, done)
  BY <1>7, CancelKeeps
<1>8. QED
  BY <1>1, <1>2, <1>3, <1>4, <1>5, <1>6, <1>7 DEF TickStep, TickFault

LEMMA EntriesStepKeeps ==
  EntriesInv /\ [EntriesNext]_entryVars => EntriesInv'
<1> SUFFICES ASSUME EntriesInv, [EntriesNext]_entryVars
             PROVE  EntriesInv'
  OBVIOUS
<1>1. CASE \E want \in Levels \cup {0} : StartTick(want)
  BY <1>1, StartTickKeeps
<1>2. CASE TickStep \/ TickFault
  BY <1>2, TickStepKeeps
<1>3. ASSUME NEW b \in BarTimes, WorkerStep(b) \/ WorkerDies(b)
      PROVE  EntriesInv'
  <2>1. CASE CreateStop(b)
    <3>1. CASE Breached(stops[b].level)
      BY <2>1, <3>1, RefuseKeeps
    <3>2. CASE ~Breached(stops[b].level)
      <4>1. UNCHANGED recovery
        BY <2>1, <3>2 DEF CreateStop
      <4>2. QED
        BY <2>1, <4>1, WorkerKeeps
    <3>3. QED
      BY <3>1, <3>2
  <2>2. CASE CreateMarket(b)
    BY <2>2, CreateMarketKeeps
  <2>3. CASE ClaimStop(b) \/ AttachStop(b) \/ ClaimMarket(b) \/ WorkerDies(b)
    BY <2>3, WorkerKeeps
  <2>4. QED
    BY <1>3, <2>1, <2>2, <2>3 DEF WorkerStep
<1>4. ASSUME NEW b \in BarTimes,
             \/ CheckRecovery(b) \/ PlaceRecovery(b) \/ TriggerStop(b)
             \/ StreamEnd(b) \/ SweepStop(b) \/ JanitorStop(b)
      PROVE  EntriesInv'
  BY <1>4, CheckRecoveryKeeps, PlaceRecoveryKeeps, TriggerKeeps, TasksKeep
<1>5. CASE ClosePosition \/ SessionStops \/ \E p \in Prices : MovePrice(p)
  BY <1>5, OutsideKeeps
<1>6. CASE UNCHANGED entryVars
  BY <1>6, EntriesStutter
<1>7. QED
  BY <1>1, <1>2, <1>3, <1>4, <1>5, <1>6 DEF EntriesNext

LEMMA EntriesTyped == EntriesInv => EntriesTypeOK
BY DEF EntriesInv, Scalars, RowsFit, RowFits, TickTyped, EntriesTypeOK

LEMMA ExclusiveFits == OneAtMost => held + Cardinality(ExposedStops) + Cardinality(Unsettled) <= 1
<1> SUFFICES ASSUME OneAtMost
             PROVE  held + Cardinality(ExposedStops) + Cardinality(Unsettled) <= 1
  OBVIOUS
<1>1. ASSUME NEW S, \A x, y \in S : x = y
      PROVE  \/ S = {} /\ Cardinality(S) = 0
             \/ S # {} /\ Cardinality(S) = 1
  <2>1. CASE S = {}
    BY <2>1, FS_EmptySet
  <2>2. CASE S # {}
    <3>1. PICK x \in S : S = {x}
      BY <1>1, <2>2
    <3>2. QED
      BY <2>2, <3>1, FS_Singleton
  <2>3. QED
    BY <2>1, <2>2
<1>2. \/ ExposedStops = {} /\ Cardinality(ExposedStops) = 0
      \/ ExposedStops # {} /\ Cardinality(ExposedStops) = 1
  BY <1>1 DEF OneAtMost
<1>3. \/ Unsettled = {} /\ Cardinality(Unsettled) = 0
      \/ Unsettled # {} /\ Cardinality(Unsettled) = 1
  BY <1>1 DEF OneAtMost
<1>4. QED
  BY <1>2, <1>3 DEF OneAtMost

\* Every step of the conditional entries keeps the types of their state.
THEOREM EntriesTypes == EntriesSpec => []EntriesTypeOK
BY EntriesStart, EntriesStepKeeps, EntriesTyped, PTL DEF EntriesSpec

\* DoubledOnlyMidair: for every number of bars, every set of prices and any number
\* of faults, what is held and what may still fill is one unit at most, as long as
\* no tick ran beside a market conversion in flight.
THEOREM OneEntryAtMost == EntriesSpec => []DoubledOnlyMidair
<1>1. EntriesInv => DoubledOnlyMidair
  BY ExclusiveFits DEF EntriesInv, Exclusive, DoubledOnlyMidair, ExposedStops, Target
<1>2. QED
  BY <1>1, EntriesStart, EntriesStepKeeps, PTL DEF EntriesSpec

-----------------------------------------------------------------------------
(***************************************************************************)
(* The components side by side: a behaviour that follows one of them       *)
(* leaves the variables of the others as they begin.                       *)
(***************************************************************************)
LEMMA ServicesSteps ==
  [ServicesNext]_servicesVars =>
    /\ [StreamNext]_streamVars /\ [BarNext]_evalVars
    /\ [RegistryNext]_registryVars /\ [EntriesNext]_entryVars
BY DEF ServicesNext, StreamFocus, BarFocus, RegistryFocus, EntriesFocus, servicesVars

\* Every variable of the private stream, the evaluation of bars, the session
\* registry and the conditional entries stays within its type.
THEOREM ServicesTypes == ServicesSpec => []ServicesTypeOK
<1>1. ServicesInit => StreamInv /\ BarInv /\ RegistryInv /\ EntriesInv
  BY StreamStart, BarStart, RegistryStart, EntriesStart DEF ServicesInit
<1>2. StreamInv /\ BarInv /\ RegistryInv /\ EntriesInv => ServicesTypeOK
  BY EntriesTyped DEF StreamInv, BarInv, RegistryInv, ServicesTypeOK
<1>3. QED
  BY <1>1, <1>2, ServicesSteps, StreamStep, BarStep, RegistryStep, EntriesStepKeeps, PTL
     DEF ServicesSpec

\* What the four keep, of a behaviour that follows one of them: no bar is lost, what
\* admission promised holds, an entry is doubled by a conversion in flight only, a
\* lease is given back by who holds it, and a session that is off stays silent.
THEOREM ServicesAreSafe ==
  ServicesSpec => /\ []NoBarLost /\ []AdmissionHolds /\ []DoubledOnlyMidair
                  /\ ReleasedByHolder /\ OffIsSilent /\ DirectionNeedsTwo
<1>1. ServicesInit => StreamInv /\ BarInv /\ RegistryInv /\ EntriesInv
  BY StreamStart, BarStart, RegistryStart, EntriesStart DEF ServicesInit
<1>2. BarInv /\ RegistryInv /\ EntriesInv => NoBarLost /\ AdmissionHolds /\ DoubledOnlyMidair
  BY ExclusiveFits DEF BarInv, RegistryInv, AdmissionHolds, EntriesInv, Exclusive,
     DoubledOnlyMidair, ExposedStops, Target
<1>3. StreamInv /\ [StreamNext]_streamVars
        => [\A w \in StreamWorkers : leaseKey = w /\ leaseKey' # w =>
              streamStep'[w] = "idle" \/ UNCHANGED streamStep]_streamVars
  BY ReleaseStep
<1>4. BarInv /\ [BarNext]_evalVars
        => [~active => UNCHANGED <<active, offReason, lastEvaluated, signalEvents>>]_evalVars
  BY OffStep
<1>5. BarInv /\ [BarNext]_evalVars
        => [offReason # "direction" /\ offReason' = "direction" =>
              \E b \in JudgedBefore(lastEvaluated') :
                /\ verdict[b] = "mismatch" /\ lastEvaluated' - b <= StrikeMaxBars
                /\ ~overlapped => /\ \A c \in JudgedBefore(lastEvaluated') : c <= b
                                  /\ verdict[lastEvaluated' - 1] # "none"]_evalVars
  BY DirectionStep
<1>6. QED
  BY <1>1, <1>2, <1>3, <1>4, <1>5, ServicesSteps, StreamStep, BarStep, RegistryStep,
     EntriesStepKeeps, PTL
     DEF ServicesSpec, ReleasedByHolder, OffIsSilent, DirectionNeedsTwo
=============================================================================
