----------------------------- MODULE JobProofs -----------------------------
(***************************************************************************)
(* Proofs about the jobs of the Celery workers, for any rows, workers and  *)
(* faults: backtests (BacktestJob, which implements BacktestLifecycle) and *)
(* the optimization runs and stress tests made of them (ResearchJob).      *)
(***************************************************************************)
EXTENDS MCJobs, FiniteSetTheorems, TLAPS

(***************************************************************************)
(* The inductive invariant of a backtest.                                  *)
(***************************************************************************)
Holds(w, j, pcs) == hand[w] # Idle /\ hand[w].pc \in pcs /\ hand[w].job = j

\* A row that is not committed yet has no status; a worker never holds one.
Uncommitted ==
  \A j \in Jobs : request[j] \in {"none", "published"} => status[j] = "none"

\* One worker at most claims a job, runs it at most once, and does so only
\* after the row has left queued for good.
OneRunner ==
  \A j \in Jobs :
    /\ runs[j] \in {0, 1}
    /\ status[j] \in {"none", "queued"} => runs[j] = 0
    /\ \A w \in Workers :
         /\ Holds(w, j, {"claimed", "engine"}) =>
              /\ status[j] \notin {"none", "queued"}
              /\ \A v \in Workers : Holds(v, j, {"claimed", "engine"}) => v = w
         /\ Holds(w, j, {"claimed"}) => runs[j] = 0
         /\ Holds(w, j, {"engine"}) => runs[j] = 1

\* The trades are there exactly while the job is completed.
TradesFit == \A j \in Jobs : trades[j] = IF status[j] = "completed" THEN 1 ELSE 0

\* One worker at most has a push to send, and none after it was sent.
OnePusher ==
  \A j \in Jobs :
    /\ pushes[j] \in {0, 1}
    /\ pushes[j] = 1 => status[j] \in {"completed", "failed", "deleted"}
    /\ \A w \in Workers : Holds(w, j, {"ended"}) =>
         /\ status[j] \in {"completed", "failed", "deleted"}
         /\ pushes[j] = 0
         /\ \A v \in Workers : Holds(v, j, {"ended"}) => v = w

JobInv == TypeOK /\ Uncommitted /\ OneRunner /\ TradesFit /\ OnePusher

-----------------------------------------------------------------------------
(***************************************************************************)
(* Types.                                                                  *)
(***************************************************************************)
JobFlags ==
  /\ started \in [Jobs -> BOOLEAN]
  /\ taskId \in [Jobs -> BOOLEAN]
  /\ cancel \in [Jobs -> BOOLEAN]
JobRows ==
  /\ status \in [Jobs -> Statuses]
  /\ request \in [Jobs -> {"none", "published", "committed", "dispatched", "done"}]
  /\ queue \subseteq Jobs
  /\ revoked \subseteq Jobs
  /\ hand \in [Workers -> {Idle} \cup Busy]
  /\ runs \in [Jobs -> Nat]
  /\ trades \in [Jobs -> Nat]
  /\ pushes \in [Jobs -> Nat]
  /\ faults \in Nat

LEMMA JobTypeIs ==
  (TypeOK <=> JobFlags /\ JobRows) /\ (TypeOK' <=> JobFlags' /\ JobRows')
BY DEF TypeOK, JobFlags, JobRows

LEMMA FlagSet ==
  ASSUME NEW S, NEW f \in [S -> BOOLEAN], NEW x, NEW b \in BOOLEAN
  PROVE  [f EXCEPT ![x] = b] \in [S -> BOOLEAN]
OBVIOUS

LEMMA JobFlagsKept ==
  ASSUME JobFlags, Next
  PROVE  JobFlags'
<1> USE DEF JobFlags
<1>1. CASE UNCHANGED <<started, taskId, cancel>>
  BY <1>1
<1>2. ASSUME NEW j \in Jobs, CommitPublished(j) \/ StoreTaskId(j)
      PROVE  JobFlags'
  BY <1>2, FlagSet, Zenon DEF CommitPublished, StoreTaskId
<1>3. ASSUME NEW j \in Jobs, StartCancel(j) \/ RequestCancel(j) \/ LoseCancel(j)
      PROVE  JobFlags'
  BY <1>3, FlagSet, Zenon DEF StartCancel, RequestCancel, LoseCancel
<1>4. ASSUME NEW w \in Workers, Claim(w)
      PROVE  JobFlags'
  BY <1>4, FlagSet, Zenon DEF Claim
<1>5. ASSUME NEW j \in Jobs,
             \/ PublishBeforeCommit(j) \/ CommitRow(j) \/ DispatchCommitted(j)
             \/ DispatchFailed(j) \/ LoseRequest(j) \/ Delete(j) \/ Redeliver(j) \/ Reclaim(j)
      PROVE  UNCHANGED <<started, taskId, cancel>>
  BY <1>5, Zenon
     DEF PublishBeforeCommit, CommitRow, DispatchCommitted, DispatchFailed, LoseRequest, Delete,
         Redeliver, Reclaim
<1>6. ASSUME NEW w \in Workers, NEW j \in Jobs, TakeNext(w, j)
      PROVE  UNCHANGED <<started, taskId, cancel>>
  BY <1>6, Zenon DEF TakeNext, Drop, FinalizeAtPickup, Pickup
<1>7. ASSUME NEW w \in Workers,
             \/ FailBeforeRunning(w) \/ StartEngine(w) \/ Complete(w) \/ FailRunning(w)
             \/ Push(w) \/ Crash(w)
      PROVE  UNCHANGED <<started, taskId, cancel>>
  BY <1>7, Zenon DEF FailBeforeRunning, StartEngine, Complete, FailRunning, Push, Crash
<1>8. QED
  BY <1>1, <1>2, <1>3, <1>4, <1>5, <1>6, <1>7 DEF Next, SubmitNext, CancelNext, RunNext

LEMMA HandFields ==
  ASSUME JobRows, NEW w \in Workers
  PROVE  /\ hand[w] \in {Idle} \cup Busy
         /\ hand[w] = Idle <=> hand[w].pc = "idle"
         /\ hand[w].pc # "idle" => /\ hand[w] \in Busy /\ hand[w].job \in Jobs
                                   /\ hand[w].pc \in {"read", "claimed", "engine", "ended"}
                                   /\ JobOf(w) = hand[w].job /\ JobOf(w) \in Jobs
BY DEF JobRows, Idle, Busy, JobOf

LEMMA HandSet ==
  ASSUME JobRows, NEW w \in Workers, NEW h \in {Idle} \cup Busy, Goto(w, h)
  PROVE  /\ hand' \in [Workers -> {Idle} \cup Busy]
         /\ hand'[w] = h
         /\ \A v \in Workers \ {w} : hand'[v] = hand[v]
BY DEF JobRows, Goto

LEMMA AtBusy ==
  ASSUME NEW j \in Jobs, NEW s \in Statuses, NEW pc \in {"read", "claimed", "engine", "ended"}
  PROVE  /\ At(pc, j, s) \in Busy /\ At(pc, j, s).pc = pc /\ At(pc, j, s).job = j
         /\ At(pc, j, s) # Idle
BY DEF At, Busy, Idle

LEMMA StatusSet ==
  ASSUME JobRows, NEW j \in Jobs, NEW s \in Statuses, SetStatus(j, s)
  PROVE  status' \in [Jobs -> Statuses]
BY DEF JobRows, SetStatus

LEMMA Finalized ==
  ASSUME JobRows, NEW j \in Jobs, FinalizeCancelled(j)
  PROVE  /\ status' \in [Jobs -> Statuses]
         /\ \/ status' = status
            \/ status[j] = "cancelling" /\ status' = [status EXCEPT ![j] = "cancelled"]
BY DEF JobRows, FinalizeCancelled, SetStatus, Statuses, Ended

-----------------------------------------------------------------------------
(***************************************************************************)
(* The kinds of steps.                                                     *)
(***************************************************************************)
\* No worker comes to hold a job but to read its row.
HandsOff ==
  /\ hand' \in [Workers -> {Idle} \cup Busy]
  /\ \A w \in Workers : hand'[w] = hand[w] \/ hand'[w].pc \in {"idle", "read"}

\* A row moves without an engine: it is inserted, fails, is cancelled, or goes.
RowMoves(j) ==
  \/ /\ status[j] = "none" /\ status' = [status EXCEPT ![j] = "queued"]
     /\ request'[j] \notin {"none", "published"} /\ trades' = trades
  \/ /\ status[j] \in {"queued", "running"} /\ trades' = trades
     /\ \E s \in {"failed", "cancelling"} : status' = [status EXCEPT ![j] = s]
  \/ /\ status[j] = "cancelling" /\ trades' = trades
     /\ status' = [status EXCEPT ![j] = "cancelled"]
  \/ /\ status[j] \in Ended
     /\ status' = [status EXCEPT ![j] = "deleted"] /\ trades' = [trades EXCEPT ![j] = 0]

Aside ==
  /\ HandsOff
  /\ UNCHANGED <<runs, pushes>>
  /\ UNCHANGED <<status, trades>> \/ \E j \in Jobs : RowMoves(j)

HandMoves(w, pc) ==
  /\ hand' \in [Workers -> {Idle} \cup Busy]
  /\ hand'[w].pc = pc /\ hand'[w].job = hand[w].job
  /\ \A v \in Workers \ {w} : hand'[v] = hand[v]

Claims(w) ==
  /\ hand[w].pc = "read" /\ HandMoves(w, "claimed")
  /\ status[hand[w].job] = "queued"
  /\ status' = [status EXCEPT ![hand[w].job] = "running"]
  /\ UNCHANGED <<runs, trades, pushes>>

Executes(w) ==
  /\ hand[w].pc = "claimed" /\ HandMoves(w, "engine")
  /\ runs' = [runs EXCEPT ![hand[w].job] = @ + 1]
  /\ UNCHANGED <<status, trades, pushes>>

Wins(w) ==
  /\ HandMoves(w, "ended")
  /\ \/ /\ hand[w].pc = "engine" /\ status[hand[w].job] = "running"
        /\ status' = [status EXCEPT ![hand[w].job] = "completed"]
        /\ trades' = [trades EXCEPT ![hand[w].job] = @ + 1]
     \/ /\ \/ hand[w].pc = "read" /\ status[hand[w].job] = "queued"
           \/ hand[w].pc = "engine" /\ status[hand[w].job] = "running"
        /\ status' = [status EXCEPT ![hand[w].job] = "failed"]
        /\ UNCHANGED trades
  /\ UNCHANGED <<runs, pushes>>

Pushes(w) ==
  /\ hand[w].pc = "ended" /\ hand' = [hand EXCEPT ![w] = Idle]
  /\ \/ UNCHANGED pushes
     \/ /\ status[hand[w].job] # "deleted"
        /\ pushes' = [pushes EXCEPT ![hand[w].job] = @ + 1]
  /\ UNCHANGED <<status, runs, trades>>

LEMMA JobSteps ==
  ASSUME JobRows, Uncommitted, Next
  PROVE  Aside \/ \E w \in Workers : Claims(w) \/ Executes(w) \/ Wins(w) \/ Pushes(w)
<1>1. UNCHANGED hand => HandsOff
  BY DEF HandsOff, JobRows
<1>2. ASSUME NEW w \in Workers, Goto(w, Idle)
      PROVE  HandsOff
  BY <1>2, HandSet DEF HandsOff, Idle
<1>3. ASSUME NEW j \in Jobs, SubmitNext(j)
      PROVE  Aside
  <2>1. CASE CommitPublished(j) \/ CommitRow(j)
    BY <1>1, <2>1
       DEF CommitPublished, CommitRow, SetStatus, Aside, RowMoves, Uncommitted, JobRows
  <2>2. CASE DispatchFailed(j)
    <3>1. CASE FailableUnstarted(j)
      BY <1>1, <2>2, <3>1 DEF DispatchFailed, SetStatus, Aside, RowMoves, FailableUnstarted
    <3>2. CASE ~FailableUnstarted(j)
      BY <1>1, <2>2, <3>2 DEF DispatchFailed, SetStatus, Aside, JobRows
    <3>3. QED
      BY <3>1, <3>2
  <2>3. QED
    BY <1>1, <1>3, <2>1, <2>2
       DEF SubmitNext, PublishBeforeCommit, DispatchCommitted, StoreTaskId, LoseRequest, Aside
<1>4. ASSUME NEW j \in Jobs, StartCancel(j)
      PROVE  Aside
  BY <1>1, <1>4 DEF StartCancel, Aside, HandsOff, JobRows, Idle
<1>5. ASSUME NEW j \in Jobs, RequestCancel(j) \/ LoseCancel(j)
      PROVE  Aside
  <2>1. CASE RequestCancel(j) /\ Cancellable(j)
    BY <1>1, <2>1 DEF RequestCancel, SetStatus, Aside, RowMoves, Cancellable
  <2>2. CASE RequestCancel(j) /\ ~Cancellable(j)
    BY <1>1, <2>2 DEF RequestCancel, SetStatus, Aside, JobRows
  <2>3. QED
    BY <1>1, <1>5, <2>1, <2>2 DEF LoseCancel, Aside
<1>6. ASSUME NEW j \in Jobs, Delete(j) \/ Redeliver(j) \/ Reclaim(j)
      PROVE  Aside
  BY <1>1, <1>6 DEF Delete, Redeliver, Reclaim, SetStatus, Aside, RowMoves, ReclaimableCancelling
<1>7. ASSUME NEW w \in Workers, NEW j \in Jobs, TakeNext(w, j)
      PROVE  Aside
  <2>1. CASE Drop(w, j)
    BY <1>1, <2>1 DEF Drop, Aside
  <2>2. CASE FinalizeAtPickup(w, j)
    BY <1>1, <2>2, Finalized DEF FinalizeAtPickup, Aside, RowMoves
  <2>3. CASE Pickup(w, j)
    <3>1. At("read", j, status[j]) \in Busy /\ At("read", j, status[j]).pc = "read"
      BY AtBusy DEF JobRows
    <3>2. HandsOff
      BY <2>3, <3>1, HandSet DEF Pickup, HandsOff
    <3>3. QED
      BY <2>3, <3>2 DEF Pickup, Aside
  <2>4. QED
    BY <1>7, <2>1, <2>2, <2>3 DEF TakeNext
<1>8. ASSUME NEW w \in Workers, NEW pc \in {"read", "claimed", "engine", "ended"},
             NEW s \in Statuses, hand[w].pc # "idle", Goto(w, At(pc, JobOf(w), s))
      PROVE  HandMoves(w, pc)
  BY <1>8, HandFields, AtBusy, HandSet DEF HandMoves
<1>9. ASSUME NEW w \in Workers, FailBeforeRunning(w)
      PROVE  Aside \/ Wins(w)
  <2>1. JobOf(w) \in Jobs /\ JobOf(w) = hand[w].job /\ hand[w].pc = "read"
    BY <1>9, HandFields DEF FailBeforeRunning
  <2>2. CASE Goto(w, Idle) /\ UNCHANGED status
    BY <1>2, <1>9, <2>2 DEF FailBeforeRunning, Aside
  <2>3. CASE /\ FailableUnstarted(JobOf(w)) /\ SetStatus(JobOf(w), "failed")
             /\ Goto(w, At("ended", JobOf(w), "failed"))
    BY <1>8, <1>9, <2>1, <2>3
       DEF FailBeforeRunning, FailableUnstarted, SetStatus, Wins, Statuses, Ended
  <2>4. QED
    BY <1>9, <2>2, <2>3 DEF FailBeforeRunning
<1>10. ASSUME NEW w \in Workers, Claim(w)
       PROVE  Aside \/ Claims(w)
  <2>1. JobOf(w) \in Jobs /\ JobOf(w) = hand[w].job /\ hand[w].pc = "read"
    BY <1>10, HandFields DEF Claim
  <2>2. CASE Goto(w, Idle) /\ FinalizeCancelled(JobOf(w))
    BY <1>2, <1>10, <2>1, <2>2, Finalized DEF Claim, Aside, RowMoves
  <2>3. CASE /\ Runnable(JobOf(w)) /\ SetStatus(JobOf(w), "running")
             /\ Goto(w, At("claimed", JobOf(w), "running"))
    BY <1>8, <1>10, <2>1, <2>3 DEF Claim, Runnable, SetStatus, Claims, Statuses
  <2>4. QED
    BY <1>10, <2>2, <2>3 DEF Claim
<1>11. ASSUME NEW w \in Workers, Stopped(w), hand[w].pc # "idle",
              UNCHANGED <<runs, trades, pushes>>
       PROVE  Aside
  BY <1>2, <1>11, HandFields, Finalized DEF Stopped, Aside, RowMoves
<1>12. ASSUME NEW w \in Workers, StartEngine(w)
       PROVE  Aside \/ Executes(w)
  <2>1. JobOf(w) = hand[w].job /\ hand[w].pc = "claimed" /\ hand[w] \in Busy
    BY <1>12, HandFields DEF StartEngine
  <2>2. CASE Stopped(w) /\ UNCHANGED runs
    BY <1>11, <1>12, <2>1, <2>2 DEF StartEngine
  <2>3. CASE /\ Goto(w, [hand[w] EXCEPT !.pc = "engine"])
             /\ runs' = [runs EXCEPT ![JobOf(w)] = @ + 1]
             /\ UNCHANGED status
    <3>1. [hand[w] EXCEPT !.pc = "engine"] \in Busy
      BY <2>1 DEF Busy
    <3>2. HandMoves(w, "engine")
      BY <1>12, <2>1, <2>3, <3>1, HandSet DEF HandMoves, Busy
    <3>3. QED
      BY <1>12, <2>1, <2>3, <3>2 DEF StartEngine, Executes
  <2>4. QED
    BY <1>12, <2>2, <2>3 DEF StartEngine
<1>13. ASSUME NEW w \in Workers, Complete(w)
       PROVE  Aside \/ Wins(w)
  <2>1. JobOf(w) \in Jobs /\ JobOf(w) = hand[w].job /\ hand[w].pc = "engine"
    BY <1>13, HandFields DEF Complete
  <2>2. CASE Stopped(w) /\ UNCHANGED trades
    BY <1>11, <1>13, <2>1, <2>2 DEF Complete
  <2>3. CASE Goto(w, Idle) /\ FinalizeCancelled(JobOf(w)) /\ UNCHANGED trades
    BY <1>2, <1>13, <2>1, <2>3, Finalized DEF Complete, Aside, RowMoves
  <2>4. CASE /\ Completable(JobOf(w)) /\ SetStatus(JobOf(w), "completed")
             /\ trades' = TradesInserted(JobOf(w))
             /\ Goto(w, At("ended", JobOf(w), "completed"))
    BY <1>8, <1>13, <2>1, <2>4
       DEF Complete, Completable, SetStatus, TradesInserted, Wins, Statuses, Ended
  <2>5. QED
    BY <1>13, <2>2, <2>3, <2>4 DEF Complete
<1>14. ASSUME NEW w \in Workers, FailRunning(w)
       PROVE  Aside \/ Wins(w)
  <2>1. JobOf(w) \in Jobs /\ JobOf(w) = hand[w].job /\ hand[w].pc = "engine"
    BY <1>14, HandFields DEF FailRunning
  <2>2. CASE Goto(w, Idle) /\ FinalizeCancelled(JobOf(w))
    BY <1>2, <1>14, <2>1, <2>2, Finalized DEF FailRunning, Aside, RowMoves
  <2>3. CASE /\ Failable(JobOf(w)) /\ SetStatus(JobOf(w), "failed")
             /\ Goto(w, At("ended", JobOf(w), "failed"))
    BY <1>8, <1>14, <2>1, <2>3 DEF FailRunning, Failable, SetStatus, Wins, Statuses, Ended
  <2>4. QED
    BY <1>14, <2>2, <2>3 DEF FailRunning
<1>15. ASSUME NEW w \in Workers, Push(w)
       PROVE  Pushes(w)
  BY <1>15, HandFields DEF Push, Pushes, Goto, JobOf
<1>16. ASSUME NEW w \in Workers, Crash(w)
       PROVE  Aside
  BY <1>2, <1>16 DEF Crash, Aside
<1>17. QED
  BY <1>3, <1>4, <1>5, <1>6, <1>7, <1>9, <1>10, <1>12, <1>13, <1>14, <1>15, <1>16
     DEF Next, CancelNext, RunNext

-----------------------------------------------------------------------------
(***************************************************************************)
(* What a step keeps.                                                      *)
(***************************************************************************)
LEMMA JobHistoryKept ==
  ASSUME JobRows, Aside \/ \E w \in Workers : Claims(w) \/ Executes(w) \/ Wins(w) \/ Pushes(w)
  PROVE  /\ status' \in [Jobs -> Statuses]
         /\ hand' \in [Workers -> {Idle} \cup Busy]
         /\ runs' \in [Jobs -> Nat]
         /\ trades' \in [Jobs -> Nat]
         /\ pushes' \in [Jobs -> Nat]
<1> USE DEF JobRows
<1>1. CASE Aside
  <2>1. ASSUME NEW j \in Jobs, RowMoves(j)
        PROVE  status' \in [Jobs -> Statuses] /\ trades' \in [Jobs -> Nat]
    BY <2>1 DEF RowMoves, Statuses, Ended
  <2>2. QED
    BY <1>1, <2>1 DEF Aside, HandsOff
<1>2. ASSUME NEW w \in Workers, Claims(w) \/ Executes(w) \/ Wins(w)
      PROVE  /\ status' \in [Jobs -> Statuses]
             /\ hand' \in [Workers -> {Idle} \cup Busy]
             /\ runs' \in [Jobs -> Nat]
             /\ trades' \in [Jobs -> Nat]
             /\ pushes' \in [Jobs -> Nat]
  BY <1>2 DEF Claims, Executes, Wins, HandMoves, Statuses, Ended
<1>3. ASSUME NEW w \in Workers, Pushes(w)
      PROVE  /\ hand' \in [Workers -> {Idle} \cup Busy]
             /\ pushes' \in [Jobs -> Nat]
  BY <1>3 DEF Pushes
<1>4. QED
  BY <1>1, <1>2, <1>3 DEF Pushes

LEMMA JobBrokerKept ==
  ASSUME JobRows, Next
  PROVE  /\ request' \in [Jobs -> {"none", "published", "committed", "dispatched", "done"}]
         /\ queue' \subseteq Jobs
         /\ revoked' \subseteq Jobs
         /\ faults' \in Nat
<1> USE DEF JobRows
<1>1. ASSUME NEW j \in Jobs, SubmitNext(j) \/ CancelNext(j) \/ Delete(j) \/ Redeliver(j) \/ Reclaim(j)
      PROVE  /\ request' \in [Jobs -> {"none", "published", "committed", "dispatched", "done"}]
             /\ queue' \subseteq Jobs
             /\ revoked' \subseteq Jobs
             /\ faults' \in Nat
  BY <1>1
     DEF SubmitNext, PublishBeforeCommit, CommitPublished, CommitRow, DispatchCommitted,
         DispatchFailed, StoreTaskId, LoseRequest, CancelNext, StartCancel, RequestCancel,
         LoseCancel, Delete, Redeliver, Reclaim, Fault
<1>2. ASSUME NEW w \in Workers, NEW j \in Jobs, TakeNext(w, j)
      PROVE  queue' \subseteq Jobs /\ UNCHANGED <<request, revoked, faults>>
  BY <1>2 DEF TakeNext, Drop, FinalizeAtPickup, Pickup, Take
<1>3. ASSUME NEW w \in Workers, RunNext(w)
      PROVE  UNCHANGED <<request, queue, revoked, faults>>
  BY <1>3 DEF RunNext, FailBeforeRunning, Claim, StartEngine, Complete, FailRunning, Push
<1>4. ASSUME NEW w \in Workers, Crash(w)
      PROVE  queue' \subseteq Jobs /\ UNCHANGED <<request, revoked>> /\ faults' \in Nat
  BY <1>4, HandFields DEF Crash, Fault
<1>5. QED
  BY <1>1, <1>2, <1>3, <1>4 DEF Next

\* A request goes forward only.
LEMMA RequestForward ==
  ASSUME JobRows, Next, NEW j \in Jobs, request'[j] \in {"none", "published"}
  PROVE  /\ request[j] \in {"none", "published"}
         /\ status'[j] = "none" \/ status[j] # "none"
<1> USE DEF JobRows
<1>1. ASSUME NEW i \in Jobs, SubmitNext(i)
      PROVE  /\ request[j] \in {"none", "published"}
             /\ status'[j] = status[j] \/ status[j] # "none"
  BY <1>1
     DEF SubmitNext, PublishBeforeCommit, CommitPublished, CommitRow, DispatchCommitted,
         DispatchFailed, StoreTaskId, LoseRequest, SetStatus, FailableUnstarted
<1>2. ASSUME NEW i \in Jobs, CancelNext(i) \/ Delete(i) \/ Redeliver(i) \/ Reclaim(i)
      PROVE  UNCHANGED request /\ (status'[j] = status[j] \/ status[j] # "none")
  BY <1>2
     DEF CancelNext, StartCancel, RequestCancel, LoseCancel, Delete, Redeliver, Reclaim, SetStatus,
         Cancellable, Ended, ReclaimableCancelling
<1>3. ASSUME NEW w \in Workers, NEW i \in Jobs, TakeNext(w, i)
      PROVE  UNCHANGED request /\ (status'[j] = status[j] \/ status[j] # "none")
  BY <1>3, Finalized DEF TakeNext, Drop, FinalizeAtPickup, Pickup
<1>4. ASSUME NEW w \in Workers, RunNext(w)
      PROVE  UNCHANGED request
  BY <1>4 DEF RunNext, FailBeforeRunning, Claim, StartEngine, Complete, FailRunning, Push
<1>5. ASSUME NEW w \in Workers, RunNext(w)
      PROVE  status'[j] = status[j] \/ status[j] # "none"
  <2>1. hand[w].pc # "idle"
    BY <1>5 DEF RunNext, FailBeforeRunning, Claim, StartEngine, Complete, FailRunning, Push
  <2>2. JobOf(w) \in Jobs
    BY <2>1, HandFields
  <2>3. FinalizeCancelled(JobOf(w)) => status'[j] = status[j] \/ status[j] # "none"
    BY <2>2, Finalized
  <2>4. QED
    BY <1>5, <2>2, <2>3
       DEF RunNext, FailBeforeRunning, Claim, StartEngine, Complete, FailRunning, Push, Stopped,
           SetStatus, Runnable, FailableUnstarted, Failable, Completable
<1>6. ASSUME NEW w \in Workers, Crash(w)
      PROVE  UNCHANGED <<request, status>>
  BY <1>6 DEF Crash
<1>7. QED
  BY <1>1, <1>2, <1>3, <1>4, <1>5, <1>6 DEF Next

LEMMA UncommittedKept ==
  ASSUME JobRows, Uncommitted, Next
  PROVE  Uncommitted'
BY RequestForward DEF Uncommitted

LEMMA OneRunnerKept ==
  ASSUME JobRows, OneRunner,
         Aside \/ \E w \in Workers : Claims(w) \/ Executes(w) \/ Wins(w) \/ Pushes(w)
  PROVE  OneRunner'
<1> USE DEF JobRows, OneRunner, Holds
<1>1. CASE Aside
  <2>1. \A w \in Workers : hand'[w].pc \in {"claimed", "engine"} => hand'[w] = hand[w]
    BY <1>1 DEF Aside, HandsOff
  <2>2. \A j \in Jobs : status'[j] \in {"none", "queued"} => status[j] \in {"none", "queued"}
    BY <1>1 DEF Aside, RowMoves, Ended
  <2>3. UNCHANGED runs
    BY <1>1 DEF Aside
  <2>4. QED
    BY <2>1, <2>2, <2>3
<1>2. ASSUME NEW w \in Workers, Claims(w)
      PROVE  OneRunner'
  <2> DEFINE i == hand[w].job
  <2>1. i \in Jobs /\ hand[w] # Idle
    BY <1>2, HandFields DEF Claims
  <2>2. \A v \in Workers : ~Holds(v, i, {"claimed", "engine"})
    BY <1>2, <2>1 DEF Claims
  <2>3. hand'[w] # Idle /\ hand'[w].pc = "claimed" /\ hand'[w].job = i
    BY <1>2 DEF Claims, HandMoves, Idle
  <2>4. QED
    BY <1>2, <2>1, <2>2, <2>3 DEF Claims, HandMoves, Statuses
<1>3. ASSUME NEW w \in Workers, Executes(w)
      PROVE  OneRunner'
  <2> DEFINE i == hand[w].job
  <2>1. i \in Jobs /\ hand[w] # Idle
    BY <1>3, HandFields DEF Executes
  <2>2. Holds(w, i, {"claimed"}) /\ Holds(w, i, {"claimed", "engine"})
    BY <1>3, <2>1 DEF Executes
  <2>3. hand'[w] # Idle /\ hand'[w].pc = "engine" /\ hand'[w].job = i
    BY <1>3 DEF Executes, HandMoves, Idle
  <2>4. QED
    BY <1>3, <2>1, <2>2, <2>3 DEF Executes, HandMoves
<1>4. ASSUME NEW w \in Workers, Wins(w)
      PROVE  OneRunner'
  <2> DEFINE i == hand[w].job
  <2>1. i \in Jobs /\ hand[w] # Idle
    BY <1>4, HandFields DEF Wins
  <2>2. \A v \in Workers : hand'[v].pc \in {"claimed", "engine"} => hand'[v] = hand[v]
    BY <1>4 DEF Wins, HandMoves
  <2>3. \A j \in Jobs : status'[j] \in {"none", "queued"} => status[j] \in {"none", "queued"}
    BY <1>4, <2>1 DEF Wins
  <2>4. QED
    BY <1>4, <2>2, <2>3 DEF Wins
<1>5. ASSUME NEW w \in Workers, Pushes(w)
      PROVE  OneRunner'
  BY <1>5 DEF Pushes, Idle
<1>6. QED
  BY <1>1, <1>2, <1>3, <1>4, <1>5

LEMMA TradesFitKept ==
  ASSUME JobRows, TradesFit,
         Aside \/ \E w \in Workers : Claims(w) \/ Executes(w) \/ Wins(w) \/ Pushes(w)
  PROVE  TradesFit'
<1> USE DEF JobRows, TradesFit
<1>1. CASE Aside
  BY <1>1 DEF Aside, RowMoves, Ended
<1>2. ASSUME NEW w \in Workers, Claims(w) \/ Executes(w) \/ Wins(w) \/ Pushes(w)
      PROVE  TradesFit'
  <2>1. hand[w].job \in Jobs
    BY <1>2, HandFields DEF Claims, Executes, Wins, Pushes
  <2>2. QED
    BY <1>2, <2>1 DEF Claims, Executes, Wins, Pushes
<1>3. QED
  BY <1>1, <1>2

LEMMA OnePusherKept ==
  ASSUME JobRows, OnePusher,
         Aside \/ \E w \in Workers : Claims(w) \/ Executes(w) \/ Wins(w) \/ Pushes(w)
  PROVE  OnePusher'
<1> USE DEF JobRows, OnePusher, Holds
<1>1. CASE Aside
  <2>1. \A j \in Jobs, w \in Workers : Holds(w, j, {"ended"})' => Holds(w, j, {"ended"})
    BY <1>1 DEF Aside, HandsOff
  <2>2. \A j \in Jobs : status[j] \in {"completed", "failed", "deleted"}
                          => status'[j] \in {"completed", "failed", "deleted"}
    BY <1>1 DEF Aside, RowMoves, Ended
  <2>3. QED
    BY <1>1, <2>1, <2>2 DEF Aside
<1>2. ASSUME NEW w \in Workers, Claims(w) \/ Executes(w)
      PROVE  OnePusher'
  <2>1. \A j \in Jobs, v \in Workers : Holds(v, j, {"ended"})' => Holds(v, j, {"ended"})
    BY <1>2 DEF Claims, Executes, HandMoves
  <2>2. hand[w].job \in Jobs
    BY <1>2, HandFields DEF Claims, Executes
  <2>3. \A j \in Jobs : status[j] \in {"completed", "failed", "deleted"}
                          => status'[j] \in {"completed", "failed", "deleted"}
    BY <1>2, <2>2 DEF Claims, Executes
  <2>4. QED
    BY <1>2, <2>1, <2>3 DEF Claims, Executes
<1>3. ASSUME NEW w \in Workers, Wins(w)
      PROVE  OnePusher'
  <2> DEFINE i == hand[w].job
  <2>1. i \in Jobs /\ hand[w] # Idle
    BY <1>3, HandFields DEF Wins
  <2>2. status[i] \in {"queued", "running"} /\ status'[i] \in {"completed", "failed"}
    BY <1>3, <2>1 DEF Wins
  <2>3. pushes[i] = 0 /\ \A v \in Workers : ~Holds(v, i, {"ended"})
    BY <2>1, <2>2
  <2>4. hand'[w] # Idle /\ hand'[w].pc = "ended" /\ hand'[w].job = i
    BY <1>3 DEF Wins, HandMoves, Idle
  <2>5. \A v \in Workers \ {w} : hand'[v] = hand[v]
    BY <1>3 DEF Wins, HandMoves
  <2>6. \A j \in Jobs \ {i} : status'[j] = status[j]
    BY <1>3, <2>1 DEF Wins
  <2>7. UNCHANGED pushes
    BY <1>3 DEF Wins
  <2>8. ASSUME NEW j \in Jobs
        PROVE  OnePusher!(j)'
    BY <2>1, <2>2, <2>3, <2>4, <2>5, <2>6, <2>7
  <2>9. QED
    BY <2>8
<1>4. ASSUME NEW w \in Workers, Pushes(w)
      PROVE  OnePusher'
  <2>1. PICK i \in Jobs : i = hand[w].job /\ hand[w] # Idle
    BY <1>4, HandFields DEF Pushes
  <2>2. Holds(w, i, {"ended"})
    BY <1>4, <2>1 DEF Pushes
  <2>3. \A v \in Workers : ~Holds(v, i, {"ended"})'
    <3>1. hand'[w] = Idle /\ \A v \in Workers \ {w} : hand'[v] = hand[v]
      BY <1>4 DEF Pushes
    <3>2. \A v \in Workers \ {w} : ~Holds(v, i, {"ended"})
      BY <2>2
    <3>3. QED
      BY <3>1, <3>2
  <2>4. \A j \in Jobs, v \in Workers : Holds(v, j, {"ended"})' => Holds(v, j, {"ended"})
    BY <1>4 DEF Pushes, Idle
  <2>5. QED
    BY <1>4, <2>1, <2>2, <2>3, <2>4 DEF Pushes
<1>5. QED
  BY <1>1, <1>2, <1>3, <1>4

LEMMA JobStart == Init => JobInv
<1> SUFFICES ASSUME Init PROVE JobInv
  OBVIOUS
<1>1. JobFlags
  BY Zenon DEF Init, JobFlags
<1>2. JobRows
  BY DEF Init, JobRows, Statuses
<1>3. Uncommitted /\ OneRunner /\ TradesFit /\ OnePusher
  BY DEF Init, Uncommitted, OneRunner, TradesFit, OnePusher, Holds
<1>4. QED
  BY <1>1, <1>2, <1>3, JobTypeIs DEF JobInv

LEMMA JobStep == JobInv /\ [Next]_vars => JobInv'
<1> SUFFICES ASSUME JobInv, [Next]_vars PROVE JobInv'
  OBVIOUS
<1>1. JobFlags /\ JobRows
  BY JobTypeIs DEF JobInv
<1>2. CASE Next
  <2>1. Aside \/ \E w \in Workers : Claims(w) \/ Executes(w) \/ Wins(w) \/ Pushes(w)
    BY <1>1, <1>2, JobSteps DEF JobInv
  <2>2. JobRows'
    BY <1>1, <1>2, <2>1, JobHistoryKept, JobBrokerKept DEF JobRows
  <2>3. Uncommitted' /\ OneRunner' /\ TradesFit' /\ OnePusher'
    BY <1>1, <1>2, <2>1, UncommittedKept, OneRunnerKept, TradesFitKept, OnePusherKept DEF JobInv
  <2>4. QED
    BY <1>1, <1>2, <2>2, <2>3, JobFlagsKept, JobTypeIs DEF JobInv
<1>3. CASE UNCHANGED vars
  <2>1. TypeOK'
    BY <1>3, Zenon DEF vars, JobInv, TypeOK
  <2>2. Uncommitted' /\ TradesFit'
    BY <1>3 DEF vars, JobInv, Uncommitted, TradesFit
  <2>3. OneRunner' /\ OnePusher'
    BY <1>3 DEF vars, JobInv, OneRunner, OnePusher, Holds
  <2>4. QED
    BY <2>1, <2>2, <2>3 DEF JobInv
<1>4. QED
  BY <1>2, <1>3

LEMMA JobAlways == Spec => []JobInv
<1>1. QED
  BY JobStart, JobStep, PTL DEF Spec

-----------------------------------------------------------------------------
(***************************************************************************)
(* Theorems about backtests.                                               *)
(***************************************************************************)
\* Every row, message and worker keeps its type.
THEOREM BacktestTypes == Spec => []TypeOK
<1>1. JobInv => TypeOK
  BY DEF JobInv
<1>2. QED
  BY <1>1, JobAlways, PTL

\* At most one push is sent for a job, and only for one that completed or
\* failed, however often its message is delivered and whoever reclaims it.
THEOREM PushedOnce == Spec => []PushAtMostOnce
<1>1. ASSUME JobInv PROVE PushAtMostOnce
  <2>1. OnePusher /\ JobRows
    BY <1>1, JobTypeIs DEF JobInv
  <2> SUFFICES ASSUME NEW j \in Jobs
               PROVE  LET owed == Cardinality({w \in Holders(j) : hand[w].pc = "ended"}) IN
                        /\ pushes[j] + owed <= 1
                        /\ pushes[j] + owed > 0 => status[j] \in {"completed", "failed", "deleted"}
    BY DEF PushAtMostOnce
  <2> DEFINE Owing == {w \in Holders(j) : hand[w].pc = "ended"}
  <2>2. \A w \in Owing : w \in Workers /\ Holds(w, j, {"ended"})
    BY DEF Holders, Holds, JobOf
  <2>3. CASE Owing = {}
    <3>1. Cardinality(Owing) = 0
      BY <2>3, FS_EmptySet
    <3>2. QED
      BY <2>1, <3>1 DEF OnePusher, JobRows
  <2>4. CASE Owing # {}
    <3>1. PICK w \in Owing : TRUE
      BY <2>4
    <3>2. Owing = {w}
      BY <2>1, <2>2, <3>1 DEF OnePusher
    <3>3. Cardinality(Owing) = 1
      BY <3>2, FS_Singleton
    <3>4. pushes[j] = 0 /\ status[j] \in {"completed", "failed", "deleted"}
      BY <2>1, <2>2, <3>1 DEF OnePusher
    <3>5. QED
      BY <3>3, <3>4
  <2>5. QED
    BY <2>3, <2>4
<1>2. QED
  BY <1>1, JobAlways, PTL

-----------------------------------------------------------------------------
(***************************************************************************)
(* A backtest implements BacktestLifecycle.                                *)
(***************************************************************************)
LEMMA FactRaised ==
  ASSUME NEW S, NEW f \in [S -> Nat], NEW x \in S, NEW g, g = [f EXCEPT ![x] = 1]
  PROVE  [y \in S |-> g[y] = 1] = [[y \in S |-> f[y] = 1] EXCEPT ![x] = TRUE]
OBVIOUS

\* runs[j] = 1 and trades[j] = 1 as functions of the job.
Executed == [j \in Jobs |-> runs[j] = 1]
Results == [j \in Jobs |-> trades[j] = 1]

LEMMA ResultsCleared ==
  ASSUME JobRows, NEW j \in Jobs, trades' = [trades EXCEPT ![j] = 0]
  PROVE  Results' = [Results EXCEPT ![j] = FALSE]
<1> DEFINE Cleared == [Results EXCEPT ![j] = FALSE]
<1>1. Results \in [Jobs -> BOOLEAN] /\ Results' \in [Jobs -> BOOLEAN]
  BY Zenon DEF Results
<1>2. Cleared \in [Jobs -> BOOLEAN]
  BY <1>1, FlagSet, Zenon
<1>3. ASSUME NEW i \in Jobs
      PROVE  Results'[i] <=> Cleared[i]
  <2>1. CASE i = j
    <3>1. trades'[j] # 1
      BY DEF JobRows
    <3>2. ~Results'[j]
      BY <3>1, Zenon DEF Results
    <3>3. ~Cleared[j]
      BY <1>1, Zenon
    <3>4. QED
      BY <2>1, <3>2, <3>3, Zenon
  <2>2. CASE i # j
    BY <2>2 DEF Results, JobRows
  <2>3. QED
    BY <2>1, <2>2
<1>4. QED
  BY <1>1, <1>2, <1>3, Zenon

LEMMA LifecycleStart == Init => Lifecycle!Init
<1> SUFFICES ASSUME Init PROVE Lifecycle!Init
  OBVIOUS
<1>1. runs = [j \in Jobs |-> 0] /\ trades = [j \in Jobs |-> 0]
  BY Zenon DEF Init
<1>2. \A j \in Jobs : (runs[j] = 1) = FALSE /\ (trades[j] = 1) = FALSE
  BY <1>1
<1>3. status = [j \in Jobs |-> "none"]
  BY Zenon DEF Init
<1>4. QED
  BY <1>2, <1>3, Zenon DEF Lifecycle!Init

LEMMA LifecycleStep ==
  ASSUME JobInv, [Next]_vars
  PROVE  [Lifecycle!Next]_(Lifecycle!vars)
<1>1. JobRows /\ OneRunner /\ TradesFit
  BY JobTypeIs DEF JobInv
<1>2. UNCHANGED runs => UNCHANGED Executed
  BY DEF Executed
<1>3. UNCHANGED trades => UNCHANGED Results
  BY DEF Results
<1>4. ASSUME UNCHANGED <<status, runs, trades>>
      PROVE  UNCHANGED Lifecycle!vars
  BY <1>2, <1>3, <1>4, Zenon DEF Lifecycle!vars, Executed, Results
<1>5. ASSUME NEW j \in Jobs, RowMoves(j), UNCHANGED runs
      PROVE  Lifecycle!Next
  <2>1. CASE /\ status[j] \in Ended /\ status' = [status EXCEPT ![j] = "deleted"]
             /\ trades' = [trades EXCEPT ![j] = 0]
    <3>1. Results' = [Results EXCEPT ![j] = FALSE]
      BY <1>1, <2>1, ResultsCleared
    <3>2. Lifecycle!Delete(j)
      BY <1>2, <1>5, <2>1, <3>1, Zenon
         DEF Executed, Results, Lifecycle!Delete, Lifecycle!Move, Lifecycle!Ended, Ended
    <3>3. QED
      BY <3>2 DEF Lifecycle!Next
  <2>2. CASE UNCHANGED trades
    <3>1. UNCHANGED <<Executed, Results>>
      BY <1>2, <1>3, <1>5, <2>2
    <3>2. CASE status[j] = "none" /\ status' = [status EXCEPT ![j] = "queued"]
      <4>1. Lifecycle!Submit(j)
        BY <3>1, <3>2, Zenon DEF Executed, Results, Lifecycle!Submit, Lifecycle!Move
      <4>2. QED
        BY <4>1 DEF Lifecycle!Next
    <3>3. CASE status[j] \in {"queued", "running"} /\ status' = [status EXCEPT ![j] = "failed"]
      <4>1. Lifecycle!Fail(j)
        BY <3>1, <3>3, Zenon DEF Executed, Results, Lifecycle!Fail, Lifecycle!Move
      <4>2. QED
        BY <4>1 DEF Lifecycle!Next
    <3>4. CASE status[j] \in {"queued", "running"} /\ status' = [status EXCEPT ![j] = "cancelling"]
      <4>1. Lifecycle!Cancel(j)
        BY <3>1, <3>4, Zenon DEF Executed, Results, Lifecycle!Cancel, Lifecycle!Move
      <4>2. QED
        BY <4>1 DEF Lifecycle!Next
    <3>5. CASE status[j] = "cancelling" /\ status' = [status EXCEPT ![j] = "cancelled"]
      <4>1. Lifecycle!Finalize(j)
        BY <3>1, <3>5, Zenon DEF Executed, Results, Lifecycle!Finalize, Lifecycle!Move
      <4>2. QED
        BY <4>1 DEF Lifecycle!Next
    <3>6. CASE /\ status[j] \in Ended /\ status' = [status EXCEPT ![j] = "deleted"]
               /\ trades' = [trades EXCEPT ![j] = 0]
      BY <2>1, <3>6
    <3>7. QED
      BY <1>5, <3>2, <3>3, <3>4, <3>5, <3>6 DEF RowMoves
  <2>3. QED
    BY <1>5, <2>1, <2>2 DEF RowMoves
<1>6. ASSUME NEW w \in Workers, Claims(w)
      PROVE  Lifecycle!Next
  <2>1. PICK j \in Jobs : j = hand[w].job
    BY <1>1, <1>6, HandFields DEF Claims
  <2>2. Lifecycle!Start(j)
    BY <1>2, <1>3, <1>6, <2>1, Zenon
       DEF Claims, Executed, Results, Lifecycle!Start, Lifecycle!Move
  <2>3. QED
    BY <2>2 DEF Lifecycle!Next
<1>7. ASSUME NEW w \in Workers, Executes(w)
      PROVE  Lifecycle!Next
  <2>1. PICK j \in Jobs : j = hand[w].job /\ hand[w] # Idle
    BY <1>1, <1>7, HandFields DEF Executes
  <2>2. status[j] \notin {"none", "queued"} /\ runs[j] = 0
    BY <1>1, <1>7, <2>1 DEF Executes, OneRunner, Holds
  <2>3. runs' = [runs EXCEPT ![j] = 1]
    BY <1>1, <1>7, <2>1, <2>2 DEF Executes, JobRows
  <2>4. Executed' = [Executed EXCEPT ![j] = TRUE]
    BY <1>1, <2>3, FactRaised, Zenon DEF Executed, JobRows
  <2>5. ~Executed[j]
    <3>1. Executed[j] <=> runs[j] = 1
      BY DEF Executed
    <3>2. QED
      BY <2>2, <3>1
  <2>6. Lifecycle!Execute(j)
    BY <1>3, <1>7, <2>2, <2>4, <2>5, Zenon DEF Executes, Executed, Results, Lifecycle!Execute
  <2>7. QED
    BY <2>6 DEF Lifecycle!Next
<1>8. ASSUME NEW w \in Workers, Wins(w)
      PROVE  Lifecycle!Next
  <2>1. PICK j \in Jobs : j = hand[w].job /\ hand[w] # Idle
    BY <1>1, <1>8, HandFields DEF Wins
  <2>2. CASE /\ hand[w].pc = "engine" /\ status[j] = "running"
             /\ status' = [status EXCEPT ![j] = "completed"]
             /\ trades' = [trades EXCEPT ![j] = @ + 1]
    <3>1. trades[j] = 0
      BY <1>1, <2>2 DEF TradesFit
    <3>2. trades' = [trades EXCEPT ![j] = 1]
      BY <2>2, <3>1
    <3>3. Results' = [Results EXCEPT ![j] = TRUE]
      BY <1>1, <3>2, FactRaised, Zenon DEF Results, JobRows
    <3>4. Holds(w, j, {"engine"})
      BY <2>1, <2>2 DEF Holds
    <3>5. Executed[j]
      BY <1>1, <3>4 DEF OneRunner, Executed
    <3>6. Lifecycle!Complete(j)
      BY <1>2, <1>8, <2>2, <3>3, <3>5, Zenon
         DEF Wins, Executed, Results, Lifecycle!Complete, Lifecycle!Move
    <3>7. QED
      BY <3>6 DEF Lifecycle!Next
  <2>3. CASE /\ status[j] \in {"queued", "running"}
             /\ status' = [status EXCEPT ![j] = "failed"] /\ UNCHANGED trades
    <3>1. Lifecycle!Fail(j)
      BY <1>2, <1>3, <1>8, <2>3, Zenon
         DEF Wins, Executed, Results, Lifecycle!Fail, Lifecycle!Move
    <3>2. QED
      BY <3>1 DEF Lifecycle!Next
  <2>4. QED
    BY <1>8, <2>1, <2>2, <2>3 DEF Wins
<1>9. CASE Next
  <2>1. CASE Aside
    BY <1>4, <1>5, <2>1 DEF Aside
  <2>2. ASSUME NEW w \in Workers, Pushes(w)
        PROVE  UNCHANGED Lifecycle!vars
    BY <1>4, <2>2 DEF Pushes
  <2>3. QED
    BY <1>1, <1>6, <1>7, <1>8, <1>9, <2>1, <2>2, JobSteps DEF JobInv
<1>10. CASE UNCHANGED vars
  BY <1>4, <1>10 DEF vars
<1>11. QED
  BY <1>9, <1>10

\* A backtest keeps the order of its states, never completes or fails once a
\* cancel was accepted, is executed at most once and has its trades exactly
\* while it is completed, whatever is delivered again and whichever worker dies.
THEOREM BacktestImplements == Spec => LifecycleSpec
<1>1. QED
  BY LifecycleStart, JobStart, JobStep, LifecycleStep, PTL
     DEF Spec, LifecycleSpec, Lifecycle!Spec

-----------------------------------------------------------------------------
(***************************************************************************)
(* Optimization runs and stress tests.                                     *)
(***************************************************************************)
\* A row that is not committed yet has no status.
ResearchUncommitted ==
  \A r \in Research : submitted[r] \in {"no", "published"} => rowStatus[r] = "none"

\* One worker at most works on a row, which has left queued for good.
OneResearcher ==
  \A w \in Researchers : holding[w].pc = "working" =>
    /\ rowStatus[holding[w].row] \notin {"none", "queued"}
    /\ \A v \in Researchers :
         holding[v].pc = "working" /\ holding[v].row = holding[w].row => v = w

ResearchInv == ResearchTypeOK /\ ResearchUncommitted /\ OneResearcher

LEMMA HoldingFields ==
  ASSUME ResearchTypeOK, NEW w \in Researchers
  PROVE  /\ holding[w].pc \in {"idle", "read", "working"}
         /\ holding[w] = Resting <=> holding[w].pc = "idle"
         /\ holding[w].pc # "idle" => holding[w] \in ResearchBusy /\ holding[w].row \in Research
BY DEF ResearchTypeOK, Resting, ResearchBusy

\* What a step of a worker does to its row and its hands.
LEMMA WorkerSteps ==
  ASSUME ResearchTypeOK, NEW w \in Researchers,
         ResearchWork(w) \/ LoseResearcher(w) \/ RedeliverResearch(w)
  PROVE  /\ broker' \subseteq Research
         /\ researchFaults' \in 0..MaxResearchFaults
         /\ submitted' = submitted
         /\ holding' \in [Researchers -> {Resting} \cup ResearchBusy]
         /\ \A v \in Researchers \ {w} : holding'[v] = holding[v]
         /\ \/ /\ rowStatus' = rowStatus
               /\ holding'[w] = holding[w] \/ holding'[w].pc \in {"idle", "read"}
            \/ \E r \in Research :
                 \/ /\ holding'[w].pc = "working" /\ holding'[w].row = r
                    /\ rowStatus[r] = "queued"
                    /\ rowStatus' = [rowStatus EXCEPT ![r] = "running"]
                 \/ /\ holding'[w].pc = "idle" /\ rowStatus[r] = "running"
                    /\ \E end \in {"completed", "failed"} :
                         rowStatus' = [rowStatus EXCEPT ![r] = end]
<1> USE DEF ResearchTypeOK
<1>1. ASSUME NEW r \in Research, TakeResearch(w, r)
      PROVE  /\ broker' \subseteq Research
             /\ UNCHANGED <<researchFaults, submitted, rowStatus>>
             /\ holding' \in [Researchers -> {Resting} \cup ResearchBusy]
             /\ \A v \in Researchers \ {w} : holding'[v] = holding[v]
             /\ holding'[w] = holding[w] \/ holding'[w].pc \in {"idle", "read"}
  BY <1>1 DEF TakeResearch, ResearchBusy
<1>2. CASE StartResearch(w)
  <2>1. holding[w] \in ResearchBusy /\ holding[w].row \in Research /\ holding[w].pc = "read"
    BY <1>2, HoldingFields DEF StartResearch
  <2>2. CASE ResearchRunnable(holding[w].row)
    BY <1>2, <2>1, <2>2 DEF StartResearch, Written, ResearchRunnable, ResearchBusy
  <2>3. CASE ~ResearchRunnable(holding[w].row)
    BY <1>2, <2>1, <2>3 DEF StartResearch, Release, Resting
  <2>4. QED
    BY <2>2, <2>3
<1>3. CASE EndResearch(w)
  <2>1. holding[w].row \in Research
    BY <1>3, HoldingFields DEF EndResearch
  <2>2. QED
    BY <1>3, <2>1 DEF EndResearch, Written, ResearchEndable, Release, Resting
<1>4. CASE LoseResearcher(w) \/ RedeliverResearch(w)
  <2>1. holding[w].row \in Research
    BY <1>4, HoldingFields DEF LoseResearcher, RedeliverResearch
  <2>2. researchFaults' \in 0..MaxResearchFaults
    BY <1>4, ResearchAssumption DEF LoseResearcher, RedeliverResearch, ResearchFault
  <2>3. QED
    BY <1>4, <2>1, <2>2 DEF LoseResearcher, RedeliverResearch, Release, Resting
<1>5. QED
  BY <1>1, <1>2, <1>3, <1>4 DEF ResearchWork

\* What a step of the API process or of beat does to a row.
LEMMA RowSteps ==
  ASSUME ResearchTypeOK, ResearchUncommitted, NEW r \in Research,
         PublishResearch(r) \/ CommitResearch(r) \/ LoseSubmit(r) \/ ReclaimResearch(r)
  PROVE  /\ broker' \subseteq Research
         /\ researchFaults' \in 0..MaxResearchFaults
         /\ UNCHANGED holding
         /\ \/ /\ rowStatus' = rowStatus
               /\ \E s \in {"published", "done"} : submitted' = [submitted EXCEPT ![r] = s]
               /\ rowStatus[r] = "none"
            \/ /\ rowStatus[r] = "none" /\ rowStatus' = [rowStatus EXCEPT ![r] = "queued"]
               /\ submitted' = [submitted EXCEPT ![r] = "done"]
            \/ /\ rowStatus[r] = "running" /\ rowStatus' = [rowStatus EXCEPT ![r] = "failed"]
               /\ submitted' = submitted
BY ResearchAssumption
   DEF ResearchTypeOK, ResearchUncommitted, PublishResearch, CommitResearch, LoseSubmit,
       ReclaimResearch, ResearchFault, Written

LEMMA ResearchStart == ResearchInit => ResearchInv
BY ResearchAssumption
   DEF ResearchInit, ResearchInv, ResearchTypeOK, ResearchUncommitted, OneResearcher, Resting

LEMMA ResearchStep == ResearchInv /\ [ResearchNext]_researchVars => ResearchInv'
<1> SUFFICES ASSUME ResearchInv, [ResearchNext]_researchVars PROVE ResearchInv'
  OBVIOUS
<1> USE DEF ResearchInv
<1>1. ASSUME NEW r \in Research,
             PublishResearch(r) \/ CommitResearch(r) \/ LoseSubmit(r) \/ ReclaimResearch(r)
      PROVE  ResearchInv'
  <2>1. ResearchTypeOK' /\ ResearchUncommitted'
    BY <1>1, RowSteps DEF ResearchTypeOK, ResearchUncommitted
  <2>2. \A i \in Research : rowStatus'[i] \in {"none", "queued"} => rowStatus[i] \in {"none", "queued"}
    BY <1>1, RowSteps DEF ResearchTypeOK
  <2>3. OneResearcher'
    BY <1>1, <2>2, RowSteps, HoldingFields DEF OneResearcher
  <2>4. QED
    BY <2>1, <2>3
<1>2. ASSUME NEW w \in Researchers, ResearchWork(w) \/ LoseResearcher(w) \/ RedeliverResearch(w)
      PROVE  ResearchInv'
  <2>1. ResearchTypeOK' /\ ResearchUncommitted'
    BY <1>2, WorkerSteps DEF ResearchTypeOK, ResearchUncommitted
  <2>2. OneResearcher'
    BY <1>2, WorkerSteps, HoldingFields DEF OneResearcher, ResearchTypeOK
  <2>3. QED
    BY <2>1, <2>2
<1>3. CASE UNCHANGED researchVars
  BY <1>3 DEF researchVars, ResearchTypeOK, ResearchUncommitted, OneResearcher
<1>4. QED
  BY <1>1, <1>2, <1>3 DEF ResearchNext

LEMMA ResearchAlways == ResearchSpec => []ResearchInv
<1>1. QED
  BY ResearchStart, ResearchStep, PTL DEF ResearchSpec

\* Every row, message and worker of an optimization or a stress test keeps its type.
THEOREM ResearchTypes == ResearchSpec => []ResearchTypeOK
<1>1. ResearchInv => ResearchTypeOK
  BY DEF ResearchInv
<1>2. QED
  BY <1>1, ResearchAlways, PTL

\* A second delivery and a reclaim never make two workers work on one row.
THEOREM ResearchedOnce == ResearchSpec => []OneResearcher
<1>1. ResearchInv => OneResearcher
  BY DEF ResearchInv
<1>2. QED
  BY <1>1, ResearchAlways, PTL

\* The first terminal write of a run is its last: a late result does not
\* overwrite a reclaim, nor a reclaim a result.
THEOREM ResearchEndsOnce == ResearchSpec => ResearchFinal
<1>1. ASSUME ResearchInv, [ResearchNext]_researchVars
      PROVE  [\A r \in Research : rowStatus[r] \in {"completed", "failed"}
                 => rowStatus'[r] = rowStatus[r]]_researchVars
  <2>1. ASSUME NEW w \in Researchers, NEW r \in Research, rowStatus[r] \in {"completed", "failed"},
               ResearchWork(w) \/ LoseResearcher(w) \/ RedeliverResearch(w)
        PROVE  rowStatus'[r] = rowStatus[r]
    BY <1>1, <2>1, WorkerSteps DEF ResearchInv, ResearchTypeOK
  <2>2. ASSUME NEW i \in Research, NEW r \in Research, rowStatus[r] \in {"completed", "failed"},
               PublishResearch(i) \/ CommitResearch(i) \/ LoseSubmit(i) \/ ReclaimResearch(i)
        PROVE  rowStatus'[r] = rowStatus[r]
    BY <1>1, <2>2, RowSteps DEF ResearchInv, ResearchTypeOK
  <2>3. QED
    BY <1>1, <2>1, <2>2 DEF ResearchNext
<1>2. QED
  BY <1>1, ResearchStart, ResearchStep, PTL DEF ResearchSpec, ResearchFinal

-----------------------------------------------------------------------------
\* Both kinds of jobs side by side: every variable keeps its type.
THEOREM JobsTypes == JobsSpec => []JobsTypeOK
<1>1. JobsInit => JobInv /\ ResearchInv
  BY JobStart, ResearchStart DEF JobsInit
<1>2. [BacktestFocus \/ ResearchFocus]_jobsVars => [Next]_vars /\ [ResearchNext]_researchVars
  BY DEF BacktestFocus, ResearchFocus, jobsVars
<1>3. JobInv /\ ResearchInv => JobsTypeOK
  BY DEF JobInv, ResearchInv, JobsTypeOK
<1>4. QED
  BY <1>1, <1>2, <1>3, JobStep, ResearchStep, PTL DEF JobsSpec
=============================================================================
