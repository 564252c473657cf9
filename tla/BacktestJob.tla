----------------------------- MODULE BacktestJob -----------------------------
(***************************************************************************)
(* The life of a backtest: BacktestService.submit, cancel and delete in    *)
(* the API process, run in a Celery worker, the stale reclaim of beat and  *)
(* the broker between them.                                                *)
(*                                                                         *)
(* A Pine strategy is submitted by publishing the message before the row   *)
(* is committed, a code strategy the other way round; a worker guards      *)
(* against a cancel at three places with a row object its session caches.  *)
(* The handlers are cut at each of their commits and at each await another *)
(* process can overtake.                                                   *)
(*                                                                         *)
(* Data left out: the request and its checks, the market data, the         *)
(* metrics, the wording of errors.  The age a row must have before reclaim *)
(* takes it is left out too: no time limit ends a worker before that age,  *)
(* so reclaim may meet a live worker.                                      *)
(*                                                                         *)
(* A definition directly above another of a similar name is a plausible    *)
(* mistake of the code, used by no action: see the mutants of PROJECT.json.*)
(***************************************************************************)
EXTENDS Integers, FiniteSets

CONSTANTS
  Jobs,      \* rows of backtests
  Code,      \* the jobs of code strategies (_submit_code)
  Workers,   \* Celery worker processes
  MaxFaults  \* bound: crashes and broker failures

ASSUME JobAssumption ==
  /\ Code \subseteq Jobs
  /\ MaxFaults \in Nat

VARIABLES
  status,   \* status[j]: backtests.status as committed, "none" before
  started,  \* started[j]: backtests.started_at IS NOT NULL
  taskId,   \* taskId[j]: backtests.celery_task_id is committed
  request,  \* request[j]: how far submit has come
  cancel,   \* cancel[j]: a cancel request is between revoke and its UPDATE
  queue,    \* jobs whose message waits in the broker
  revoked,  \* jobs whose task the workers were told to discard
  hand,     \* hand[w]: the job worker w is in the middle of
  runs,     \* history: executions of the engine
  trades,   \* trades[j]: bulk inserts of the job's trades
  pushes,   \* history: "backtest finished" pushes sent
  faults    \* crashes and failures so far

vars == <<status, started, taskId, request, cancel, queue, revoked, hand, runs,
          trades, pushes, faults>>

Ended    == {"completed", "failed", "cancelled"}
Statuses == {"none", "queued", "running", "cancelling", "deleted"} \cup Ended

Idle == [pc |-> "idle"]
Busy == [pc : {"read", "claimed", "engine", "ended"}, job : Jobs, seen : Statuses]
At(pc, j, seen) == [pc |-> pc, job |-> j, seen |-> seen]
Goto(w, h) == hand' = [hand EXCEPT ![w] = h]
JobOf(w) == hand[w].job
Holders(j) == {w \in Workers : hand[w] # Idle /\ JobOf(w) = j}
Fault == faults < MaxFaults /\ faults' = faults + 1

TypeOK ==
  /\ status \in [Jobs -> Statuses]
  /\ started \in [Jobs -> BOOLEAN]
  /\ taskId \in [Jobs -> BOOLEAN]
  /\ request \in [Jobs -> {"none", "published", "committed", "dispatched", "done"}]
  /\ cancel \in [Jobs -> BOOLEAN]
  /\ queue \subseteq Jobs
  /\ revoked \subseteq Jobs
  /\ hand \in [Workers -> {Idle} \cup Busy]
  /\ runs \in [Jobs -> Nat]
  /\ trades \in [Jobs -> Nat]
  /\ pushes \in [Jobs -> Nat]
  /\ faults \in Nat

Init ==
  /\ status = [j \in Jobs |-> "none"]
  /\ started = [j \in Jobs |-> FALSE]
  /\ taskId = [j \in Jobs |-> FALSE]
  /\ request = [j \in Jobs |-> "none"]
  /\ cancel = [j \in Jobs |-> FALSE]
  /\ queue = {}
  /\ revoked = {}
  /\ hand = [w \in Workers |-> Idle]
  /\ runs = [j \in Jobs |-> 0]
  /\ trades = [j \in Jobs |-> 0]
  /\ pushes = [j \in Jobs |-> 0]
  /\ faults = 0

-----------------------------------------------------------------------------
(* WHERE clauses of the conditional UPDATEs of BacktestRepository. *)

Runnable(j) == status[j] = "queued"

CompletableCancelling(j) == status[j] \in {"running", "cancelling"}
Completable(j) == status[j] = "running"

Failable(j) == status[j] = "running"

\* fail(where_status=QUEUED), before the job runs.
FailableAlways(j) == status[j] # "deleted"
FailableUnstarted(j) == status[j] = "queued"

Cancellable(j) == status[j] \in {"queued", "running"}

SetStatus(j, s) == status' = [status EXCEPT ![j] = s]

FinalizeMisspelled(j) ==
  SetStatus(j, IF status[j] = "cancelling" THEN "canceled" ELSE status[j])

\* finalize_cancelled: takes effect on a cancelling row only; its row count is
\* ignored, where docs/domain/state-machines.md 47 has the row failed.
FinalizeCancelled(j) ==
  SetStatus(j, IF status[j] = "cancelling" THEN "cancelled" ELSE status[j])

-----------------------------------------------------------------------------
(* submit *)

\* The row is flushed but not committed when its message is published.
PublishBeforeCommit(j) ==
  /\ j \notin Code
  /\ request[j] = "none"
  /\ request' = [request EXCEPT ![j] = "published"]
  /\ queue' = queue \cup {j}
  /\ UNCHANGED <<status, started, taskId, cancel, revoked, hand, runs, trades,
                 pushes, faults>>

CommitPublished(j) ==
  /\ request[j] = "published"
  /\ request' = [request EXCEPT ![j] = "done"]
  /\ SetStatus(j, "queued")
  /\ taskId' = [taskId EXCEPT ![j] = TRUE]
  /\ UNCHANGED <<started, cancel, queue, revoked, hand, runs, trades, pushes,
                 faults>>

\* _submit_code: the row is committed first, then published.
CommitRow(j) ==
  /\ j \in Code
  /\ request[j] = "none"
  /\ request' = [request EXCEPT ![j] = "committed"]
  /\ SetStatus(j, "queued")
  /\ UNCHANGED <<started, taskId, cancel, queue, revoked, hand, runs, trades,
                 pushes, faults>>

DispatchCommitted(j) ==
  /\ request[j] = "committed"
  /\ request' = [request EXCEPT ![j] = "dispatched"]
  /\ queue' = queue \cup {j}
  /\ UNCHANGED <<status, started, taskId, cancel, revoked, hand, runs, trades,
                 pushes, faults>>

\* The broker refuses the message: the row fails, unless a cancel took it.
DispatchFailed(j) ==
  /\ Fault
  /\ request[j] = "committed"
  /\ request' = [request EXCEPT ![j] = "done"]
  /\ SetStatus(j, IF FailableUnstarted(j) THEN "failed" ELSE status[j])
  /\ UNCHANGED <<started, taskId, cancel, queue, revoked, hand, runs, trades,
                 pushes>>

StoreTaskId(j) ==
  /\ request[j] = "dispatched"
  /\ request' = [request EXCEPT ![j] = "done"]
  /\ taskId' = [taskId EXCEPT ![j] = TRUE]
  /\ UNCHANGED <<status, started, cancel, queue, revoked, hand, runs, trades,
                 pushes, faults>>

\* The API process dies between two of these steps; a row that was not
\* committed is gone with it.
LoseRequest(j) ==
  /\ Fault
  /\ request[j] \in {"published", "committed", "dispatched"}
  /\ request' = [request EXCEPT ![j] = "done"]
  /\ UNCHANGED <<status, started, taskId, cancel, queue, revoked, hand, runs,
                 trades, pushes>>

-----------------------------------------------------------------------------
(* cancel and delete *)

\* The row is queued or running: revoke the task if its id is known.  Workers
\* discard the message from then on and kill the one that executes it, unless
\* the broadcast does not reach them.
StartCancel(j) ==
  /\ ~cancel[j]
  /\ Cancellable(j)
  /\ cancel' = [cancel EXCEPT ![j] = TRUE]
  /\ \/ UNCHANGED <<revoked, hand>>
     \/ /\ taskId[j]
        /\ revoked' = revoked \cup {j}
        /\ hand' = [w \in Workers |-> IF w \in Holders(j) THEN Idle ELSE hand[w]]
  /\ UNCHANGED <<status, started, taskId, request, queue, runs, trades, pushes,
                 faults>>

\* request_cancel and its commit; the request reports a conflict when the job
\* ended in the meantime.
RequestCancel(j) ==
  /\ cancel[j]
  /\ cancel' = [cancel EXCEPT ![j] = FALSE]
  /\ SetStatus(j, IF Cancellable(j) THEN "cancelling" ELSE status[j])
  /\ UNCHANGED <<started, taskId, request, queue, revoked, hand, runs, trades,
                 pushes, faults>>

\* The API process dies after the revoke.
LoseCancel(j) ==
  /\ Fault
  /\ cancel[j]
  /\ cancel' = [cancel EXCEPT ![j] = FALSE]
  /\ UNCHANGED <<status, started, taskId, request, queue, revoked, hand, runs,
                 trades, pushes>>

\* Only an ended job is deleted, and its trades with it.
Delete(j) ==
  /\ status[j] \in Ended
  /\ SetStatus(j, "deleted")
  /\ trades' = [trades EXCEPT ![j] = 0]
  /\ UNCHANGED <<started, taskId, request, cancel, queue, revoked, hand, runs,
                 pushes, faults>>

-----------------------------------------------------------------------------
(* The worker: run_backtest_task, _execute, BacktestService._run.  A worker  *)
(* takes one message and acknowledges it when the task ends (acks_late).     *)

Take(w, j) == hand[w] = Idle /\ j \in queue /\ queue' = queue \ {j}

\* Nothing to do: the task is revoked, the row is not visible (not committed
\* yet, or deleted), or it is neither queued nor cancelling.
Drop(w, j) ==
  /\ Take(w, j)
  /\ j \in revoked \/ status[j] \notin {"queued", "cancelling"}
  /\ UNCHANGED <<status, started, taskId, request, cancel, revoked, hand, runs,
                 trades, pushes, faults>>

\* Guard #1: cancelled before the pickup.
FinalizeAtPickup(w, j) ==
  /\ Take(w, j)
  /\ j \notin revoked
  /\ status[j] = "cancelling"
  /\ FinalizeCancelled(j)
  /\ UNCHANGED <<started, taskId, request, cancel, revoked, hand, runs, trades,
                 pushes, faults>>

Pickup(w, j) ==
  /\ Take(w, j)
  /\ j \notin revoked
  /\ status[j] = "queued"
  /\ Goto(w, At("read", j, status[j]))
  /\ UNCHANGED <<status, started, taskId, request, cancel, revoked, runs,
                 trades, pushes, faults>>

\* The strategy version or the market data is not to be had.
FailBeforeRunning(w) ==
  /\ hand[w].pc = "read"
  /\ LET j == JobOf(w) IN
       \/ /\ FailableUnstarted(j)
          /\ SetStatus(j, "failed")
          /\ Goto(w, At("ended", j, "failed"))
       \/ ~FailableUnstarted(j) /\ Goto(w, Idle) /\ UNCHANGED status
  /\ UNCHANGED <<started, taskId, request, cancel, queue, revoked, runs,
                 trades, pushes, faults>>

\* transition_to_running and its commit.  The ORM writes the new status into
\* the row object of the session too.
Claim(w) ==
  /\ hand[w].pc = "read"
  /\ LET j == JobOf(w) IN
       \/ /\ Runnable(j)
          /\ SetStatus(j, "running")
          /\ started' = [started EXCEPT ![j] = TRUE]
          /\ Goto(w, At("claimed", j, "running"))
       \/ /\ ~Runnable(j)
          /\ FinalizeCancelled(j)
          /\ Goto(w, Idle)
          /\ UNCHANGED started
  /\ UNCHANGED <<taskId, request, cancel, queue, revoked, runs, trades, pushes,
                 faults>>

\* get_by_id inside the task: a deleted row is not found, a row the session
\* already holds comes back as it was (expire_on_commit is off, the query does
\* not refresh it).
Reread(w) == IF status[JobOf(w)] = "deleted" THEN "deleted" ELSE hand[w].seen

\* What guards #2 and #3 do before the engine and before the terminal write.
Stopped(w) ==
  /\ Reread(w) \in {"deleted", "cancelling"}
  /\ FinalizeCancelled(JobOf(w))
  /\ Goto(w, Idle)

\* Guard #2 and the start of the engine.
StartEngine(w) ==
  /\ hand[w].pc = "claimed"
  /\ \/ Stopped(w) /\ UNCHANGED runs
     \/ /\ Reread(w) \notin {"deleted", "cancelling"}
        /\ Goto(w, [hand[w] EXCEPT !.pc = "engine"])
        /\ runs' = [runs EXCEPT ![JobOf(w)] = @ + 1]
        /\ UNCHANGED status
  /\ UNCHANGED <<started, taskId, request, cancel, queue, revoked, trades,
                 pushes, faults>>

TradesInserted(j) == [trades EXCEPT ![j] = @ + 1]

\* Guard #3, then the terminal write: one transaction with the trades.
Complete(w) ==
  /\ hand[w].pc = "engine"
  /\ LET j == JobOf(w) IN
       \/ Stopped(w) /\ UNCHANGED trades
       \/ /\ Reread(w) \notin {"deleted", "cancelling"}
          /\ Completable(j)
          /\ SetStatus(j, "completed")
          /\ trades' = TradesInserted(j)
          /\ Goto(w, At("ended", j, "completed"))
       \/ /\ Reread(w) \notin {"deleted", "cancelling"}
          /\ ~Completable(j)
          /\ FinalizeCancelled(j)
          /\ Goto(w, Idle)
          /\ UNCHANGED trades
  /\ UNCHANGED <<started, taskId, request, cancel, queue, revoked, runs,
                 pushes, faults>>

\* The same when the engine reports an error.
FailRunning(w) ==
  /\ hand[w].pc = "engine"
  /\ Reread(w) \notin {"deleted", "cancelling"}
  /\ LET j == JobOf(w) IN
       \/ /\ Failable(j)
          /\ SetStatus(j, "failed")
          /\ Goto(w, At("ended", j, "failed"))
       \/ ~Failable(j) /\ FinalizeCancelled(j) /\ Goto(w, Idle)
  /\ UNCHANGED <<started, taskId, request, cancel, queue, revoked, runs,
                 trades, pushes, faults>>

\* _enqueue_finished_push, after the commit: nothing for a deleted row.
Push(w) ==
  /\ hand[w].pc = "ended"
  /\ Goto(w, Idle)
  /\ pushes' = IF status[JobOf(w)] = "deleted" THEN pushes
               ELSE [pushes EXCEPT ![JobOf(w)] = @ + 1]
  /\ UNCHANGED <<status, started, taskId, request, cancel, queue, revoked, runs,
                 trades, faults>>

\* A worker dies; its message returns to the queue.
Crash(w) ==
  /\ Fault
  /\ hand[w] # Idle
  /\ queue' = queue \cup {JobOf(w)}
  /\ Goto(w, Idle)
  /\ UNCHANGED <<status, started, taskId, request, cancel, revoked, runs,
                 trades, pushes>>

\* A message that is not acknowledged for long is delivered again.
Redeliver(j) ==
  /\ Holders(j) # {}
  /\ queue' = queue \cup {j}
  /\ UNCHANGED <<status, started, taskId, request, cancel, revoked, hand, runs,
                 trades, pushes, faults>>

-----------------------------------------------------------------------------
(* reclaim_stale: started_at is old, or there is none and created_at is old.  *)
(* docs/domain/state-machines.md 77 has a stale cancelling row failed as well. *)

CancellingStartedOnly(j) == status[j] = "cancelling" /\ started[j]
ReclaimableCancelling(j) == status[j] = "cancelling"

Reclaim(j) ==
  /\ \/ status[j] = "running" /\ SetStatus(j, "failed")
     \/ ReclaimableCancelling(j) /\ SetStatus(j, "cancelled")
  /\ UNCHANGED <<started, taskId, request, cancel, queue, revoked, hand, runs,
                 trades, pushes, faults>>

-----------------------------------------------------------------------------
SubmitNext(j) ==
  \/ PublishBeforeCommit(j) \/ CommitPublished(j)
  \/ CommitRow(j) \/ DispatchCommitted(j) \/ DispatchFailed(j) \/ StoreTaskId(j)
  \/ LoseRequest(j)

CancelNext(j) == StartCancel(j) \/ RequestCancel(j) \/ LoseCancel(j)
TakeNext(w, j) == Drop(w, j) \/ FinalizeAtPickup(w, j) \/ Pickup(w, j)

RunNext(w) ==
  \/ FailBeforeRunning(w) \/ Claim(w) \/ StartEngine(w) \/ Complete(w)
  \/ FailRunning(w) \/ Push(w)

Next ==
  \/ \E j \in Jobs :
       SubmitNext(j) \/ CancelNext(j) \/ Delete(j) \/ Redeliver(j) \/ Reclaim(j)
  \/ \E w \in Workers, j \in Jobs : TakeNext(w, j)
  \/ \E w \in Workers : RunNext(w) \/ Crash(w)

Spec == Init /\ [][Next]_vars

(* A worker that took a message goes on, the engine ends, a message that waits
   is taken in the end (SF: another message may be taken first, but not for
   ever), beat runs reclaim again and again.  Nothing is assumed of the users
   and of the API process. *)
Fairness ==
  /\ \A w \in Workers : WF_vars(RunNext(w))
  /\ \A j \in Jobs : SF_vars(\E w \in Workers : TakeNext(w, j))
  /\ \A j \in Jobs : WF_vars(Reclaim(j))

FairSpec == Spec /\ Fairness

-----------------------------------------------------------------------------
(* Properties *)

\* Two deliveries, a reclaim and a cancel may end a job together: one of them
\* wins, and at most one push is sent, for a job that completed or failed.
PushAtMostOnce ==
  \A j \in Jobs :
    LET owed == Cardinality({w \in Holders(j) : hand[w].pc = "ended"}) IN
      /\ pushes[j] + owed <= 1
      /\ pushes[j] + owed > 0 => status[j] \in {"completed", "failed", "deleted"}

\* A job that was started or cancelled ends, also when its worker dies or its
\* message was discarded: beat reclaims it.
StartedEnds ==
  \A j \in Jobs :
    status[j] \in {"running", "cancelling"} ~> status[j] \in Ended \cup {"deleted"}

\* QUEUED means "registered in the Celery queue, waiting for a worker"
\* (docs/domain/state-machines.md): once submit is over, the message of a queued
\* job waits in the queue or is in the hands of a worker.
QueuedIsEnqueued ==
  \A j \in Jobs : status[j] = "queued" /\ request[j] = "done"
                    => j \in queue \/ Holders(j) # {}

\* The job implements what BacktestLifecycle promises, with counts for its
\* facts: a second execution and a second insert of the trades implement no
\* step of it, whatever is delivered again and whichever worker dies.
Lifecycle == INSTANCE BacktestLifecycle WITH
  executed <- [j \in Jobs |-> runs[j] = 1],
  results  <- [j \in Jobs |-> trades[j] = 1]

LifecycleSpec == Lifecycle!Spec
=============================================================================
