------------------------- MODULE BacktestLifecycle --------------------------
(***************************************************************************)
(* What a backtest job promises, whoever moves it: the API process that    *)
(* submits, cancels and deletes it, the worker that runs it, the stale     *)
(* reclaim.                                                                *)
(*                                                                         *)
(*   - queued -> running -> completed | failed, with a way out through     *)
(*     cancelling -> cancelled as long as it has not ended; queued -> failed *)
(*     when it cannot be prepared;                                         *)
(*   - an accepted cancel ends in cancelled, never in completed or failed  *)
(*     (see Finalize);                                                     *)
(*   - the engine executes the job at most once;                           *)
(*   - its trades are in the database exactly while it is completed.       *)
(*                                                                         *)
(* Nothing here says that a queued job is ever run, nor that a cancelled   *)
(* one is not executed: see QueuedIsEnqueued and Reread in BacktestJob.    *)
(***************************************************************************)
CONSTANT Jobs

VARIABLES
  status,   \* status[j]: the column backtests.status; "none" before the INSERT
  executed, \* executed[j]: the engine was started for the job
  results   \* results[j]: its trades are stored

vars == <<status, executed, results>>

Ended  == {"completed", "failed", "cancelled"}
Status == {"none", "queued", "running", "cancelling", "deleted"} \cup Ended

TypeOK ==
  /\ status \in [Jobs -> Status]
  /\ executed \in [Jobs -> BOOLEAN]
  /\ results \in [Jobs -> BOOLEAN]

Init ==
  /\ status = [j \in Jobs |-> "none"]
  /\ executed = [j \in Jobs |-> FALSE]
  /\ results = [j \in Jobs |-> FALSE]

Move(j, from, to) ==
  /\ status[j] \in from
  /\ status' = [status EXCEPT ![j] = to]

Submit(j) == Move(j, {"none"}, "queued") /\ UNCHANGED <<executed, results>>
Start(j) == Move(j, {"queued"}, "running") /\ UNCHANGED <<executed, results>>
Fail(j) == Move(j, {"queued", "running"}, "failed") /\ UNCHANGED <<executed, results>>

Cancel(j) ==
  Move(j, {"queued", "running"}, "cancelling") /\ UNCHANGED <<executed, results>>

\* The one way out of cancelling.  docs/domain/state-machines.md has a second
\* one, to failed: when finalize_cancelled finds no row (21, 33, 35, 47), and for
\* a stale row (77).  The code has neither: nobody looks at the row count of
\* finalize_cancelled, and reclaim_stale writes cancelled, as its docstring says
\* and tests/backtest/test_repository.py asserts.  This is the code's promise.
Finalize(j) ==
  Move(j, {"cancelling"}, "cancelled") /\ UNCHANGED <<executed, results>>

\* The worker that started the job may notice a cancel, a reclaim or a delete
\* only after the engine.
Execute(j) ==
  /\ status[j] \notin {"none", "queued"}
  /\ ~executed[j]
  /\ executed' = [executed EXCEPT ![j] = TRUE]
  /\ UNCHANGED <<status, results>>

Complete(j) ==
  /\ Move(j, {"running"}, "completed")
  /\ executed[j]
  /\ results' = [results EXCEPT ![j] = TRUE]
  /\ UNCHANGED executed

Delete(j) ==
  /\ Move(j, Ended, "deleted")
  /\ results' = [results EXCEPT ![j] = FALSE]
  /\ UNCHANGED executed

Next == \E j \in Jobs :
  \/ Submit(j) \/ Start(j) \/ Execute(j) \/ Complete(j) \/ Fail(j)
  \/ Cancel(j) \/ Finalize(j) \/ Delete(j)

Spec == Init /\ [][Next]_vars
=============================================================================
