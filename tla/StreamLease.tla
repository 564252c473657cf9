----------------------------- MODULE StreamLease -----------------------------
(***************************************************************************)
(* The private order stream of one exchange account: Celery tasks that     *)
(* compete for a Redis lease, hold it by heartbeats, run the websocket     *)
(* supervisor under it, and the circuit breaker that keeps a refused       *)
(* account from being tried again.                                         *)
(*                                                                         *)
(* A Redis TTL is a step of its own: a holder whose heartbeat is late loses *)
(* the key without knowing.  Left out: what the stream delivers (the order *)
(* ledger takes it as external news), reconnects that succeed, and the     *)
(* account row's lookup.                                                   *)
(***************************************************************************)
EXTENDS Integers, FiniteSets

CONSTANTS
  StreamWorkers,    \* worker processes of the ws_stream queue
  NoWorker, Ghost,  \* no lease; a lease whose holder is gone
  FailureThreshold, \* _NETWORK_FAILURE_THRESHOLD
  MaxJobs,          \* bound on queued deliveries of the task
  MaxFaults         \* bound on all faults together

ASSUME StreamAssumption ==
  /\ NoWorker \notin StreamWorkers /\ Ghost \notin StreamWorkers /\ NoWorker # Ghost
  /\ FailureThreshold \in Nat \ {0} /\ MaxJobs \in Nat \ {0} /\ MaxFaults \in Nat

VARIABLES
  leaseKey,      \* whose token ws:lease:<account> holds
  streamStep,    \* streamStep[w]: where the task of worker w is
  leaseLost,     \* leaseLost[w]: lost_event of its lease
  supervisorUp,  \* supervisorUp[w]: its supervisor loop still runs
  jobs,          \* deliveries of run_bybit_private_stream not yet taken
  blocked,       \* ws:auth:blocked:<account> exists
  failures,      \* ws:auth:failures:<account>
  streamFaults   \* faults still allowed

streamVars == <<leaseKey, streamStep, leaseLost, supervisorUp, jobs, blocked,
                failures, streamFaults>>
breakerVars == <<blocked, failures>>

HasLease == {"connecting", "up", "closing"}

StreamTypeOK ==
  /\ leaseKey \in StreamWorkers \cup {NoWorker, Ghost}
  /\ streamStep \in [StreamWorkers -> {"idle", "checked"} \cup HasLease]
  /\ leaseLost \in [StreamWorkers -> BOOLEAN]
  /\ supervisorUp \in [StreamWorkers -> BOOLEAN]
  /\ jobs \in 0..MaxJobs
  /\ blocked \in BOOLEAN /\ failures \in Nat
  /\ streamFaults \in 0..MaxFaults

StreamInit ==
  /\ leaseKey = NoWorker
  /\ streamStep = [w \in StreamWorkers |-> "idle"]
  /\ leaseLost = [w \in StreamWorkers |-> FALSE]
  /\ supervisorUp = [w \in StreamWorkers |-> FALSE]
  /\ jobs = 0 /\ blocked = FALSE /\ failures = 0 /\ streamFaults = MaxFaults

-----------------------------------------------------------------------------
GoTo(w, step) == streamStep' = [streamStep EXCEPT ![w] = step]

StreamFault ==
  /\ streamFaults > 0
  /\ streamFaults' = streamFaults - 1

\* Each call to Redis may fail; the caller then sees the answer `degraded'.
Redis(answer, degraded) ==
  \/ answer /\ UNCHANGED streamFaults
  \/ degraded /\ StreamFault

\* reconcile_ws_streams (beat): a key that exists, or a Redis that does not
\* answer, counts as a running stream.
ReconcileStreams ==
  /\ leaseKey = NoWorker
  /\ jobs < MaxJobs
  /\ jobs' = jobs + 1
  /\ UNCHANGED <<leaseKey, streamStep, leaseLost, supervisorUp, breakerVars, streamFaults>>

\* is_circuit_open, at the start of the task.
CheckCircuit(w) ==
  /\ streamStep[w] = "idle" /\ jobs > 0
  /\ jobs' = jobs - 1
  /\ Redis(IF blocked THEN UNCHANGED streamStep ELSE GoTo(w, "checked"), GoTo(w, "checked"))
  /\ UNCHANGED <<leaseKey, leaseLost, supervisorUp, breakerVars>>

\* acquire_ws_lease: SET NX; a lease that is taken ends the task.
AcquireLease(w) ==
  /\ streamStep[w] = "checked"
  /\ Redis(IF leaseKey = NoWorker
             THEN leaseKey' = w /\ GoTo(w, "connecting")
             ELSE UNCHANGED leaseKey /\ GoTo(w, "idle"),
           UNCHANGED leaseKey /\ GoTo(w, "idle"))
  /\ UNCHANGED <<leaseLost, supervisorUp, jobs, breakerVars>>

Connected(w) ==
  /\ streamStep[w] = "connecting"
  /\ GoTo(w, "up")
  /\ supervisorUp' = [supervisorUp EXCEPT ![w] = TRUE]
  /\ UNCHANGED <<leaseKey, leaseLost, jobs, breakerVars, streamFaults>>

\* record_auth_failure: SET the block, DELETE the count; the helper passes over
\* a Redis that fails before, or between the two.
RecordAuthFailure ==
  \/ blocked' = TRUE /\ failures' \in {0, failures}
  \/ UNCHANGED breakerVars

\* record_network_failure: INCR and EXPIRE, then at the threshold as above.  A
\* count that goes past it without a block blocks at the next failure.
RecordNetworkFailure ==
  \/ /\ failures + 1 >= FailureThreshold
     /\ blocked' = TRUE /\ failures' \in {0, failures + 1}
  \/ /\ failures' = failures + 1
     /\ UNCHANGED blocked
  \/ UNCHANGED breakerVars

\* The first authentication is refused, or there is no first connection in 60 s:
\* the error reaches the task, which records it and ends.  A Redis that fails at
\* that same moment is the same fault.
NotConnected(w) ==
  /\ streamStep[w] = "connecting"
  /\ StreamFault
  /\ GoTo(w, "closing")
  /\ UNCHANGED <<leaseKey, leaseLost, supervisorUp, jobs>>
AuthRejected(w) == NotConnected(w) /\ RecordAuthFailure
ConnectTimeout(w) == NotConnected(w) /\ RecordNetworkFailure

\* A reconnect is refused: the supervisor stores the error and returns.  Its
\* done-callback wakes the task for an exception only.
ReconnectRejected(w) ==
  /\ streamStep[w] = "up" /\ supervisorUp[w]
  /\ StreamFault
  /\ supervisorUp' = [supervisorUp EXCEPT ![w] = FALSE]
  /\ UNCHANGED <<leaseKey, streamStep, leaseLost, jobs, breakerVars>>

\* An unexpected exception ends the supervisor: _on_supervisor_done sets
\* stop_event.
SupervisorCrash(w) ==
  /\ streamStep[w] = "up" /\ supervisorUp[w]
  /\ StreamFault
  /\ supervisorUp' = [supervisorUp EXCEPT ![w] = FALSE]
  /\ GoTo(w, "closing")
  /\ UNCHANGED <<leaseKey, leaseLost, jobs, breakerVars>>

\* SIGTERM: worker_shutdown sets every stop_event.
StreamShutdown(w) ==
  /\ streamStep[w] \in {"connecting", "up"}
  /\ StreamFault
  /\ GoTo(w, "closing")
  /\ supervisorUp' = [supervisorUp EXCEPT ![w] = FALSE]
  /\ UNCHANGED <<leaseKey, leaseLost, jobs, breakerVars>>

\* Mutant: an extend whose token is gone goes unnoticed.
HeartbeatOnErrors(w) ==
  /\ streamStep[w] \in HasLease /\ ~leaseLost[w]
  /\ StreamFault
  /\ leaseLost' = [leaseLost EXCEPT ![w] = TRUE]
  /\ UNCHANGED <<leaseKey, streamStep, supervisorUp, jobs, breakerVars>>

\* _heartbeat_loop: an extend that finds another token, or fails, ends the loop.
Heartbeat(w) ==
  /\ streamStep[w] \in HasLease /\ ~leaseLost[w]
  /\ Redis(leaseKey # w, TRUE)
  /\ leaseLost' = [leaseLost EXCEPT ![w] = TRUE]
  /\ UNCHANGED <<leaseKey, streamStep, supervisorUp, jobs, breakerVars>>

\* The TTL ends: nobody extends it, or the holder was too slow.
LeaseExpires ==
  /\ leaseKey # NoWorker
  /\ leaseKey' = NoWorker
  /\ IF leaseKey = Ghost \/ leaseLost[leaseKey] THEN UNCHANGED streamFaults ELSE StreamFault
  /\ UNCHANGED <<streamStep, leaseLost, supervisorUp, jobs, breakerVars>>

\* _stream_main wakes on lost_event once it has connected.
StopOnLost(w) ==
  /\ streamStep[w] = "up" /\ leaseLost[w]
  /\ GoTo(w, "closing")
  /\ supervisorUp' = [supervisorUp EXCEPT ![w] = FALSE]
  /\ UNCHANGED <<leaseKey, leaseLost, jobs, breakerVars, streamFaults>>

\* The unlock script deletes the key only under the caller's token.
UnlockBlindly(w) == leaseKey' = NoWorker
UnlockOwn(w) == leaseKey' = IF leaseKey = w THEN NoWorker ELSE leaseKey

\* WsLease.__aexit__; an unlock that fails leaves the key to its TTL.
ReleaseLease(w) ==
  /\ streamStep[w] = "closing"
  /\ Redis(UnlockOwn(w), leaseKey' = IF leaseKey = w THEN Ghost ELSE leaseKey)
  /\ GoTo(w, "idle")
  /\ leaseLost' = [leaseLost EXCEPT ![w] = FALSE]
  /\ UNCHANGED <<supervisorUp, jobs, breakerVars>>

\* A worker that dies leaves its key behind; acks_late redelivers the task.
StreamWorkerDies(w) ==
  /\ streamStep[w] # "idle" /\ jobs < MaxJobs
  /\ StreamFault
  /\ jobs' = jobs + 1
  /\ leaseKey' = IF leaseKey = w THEN Ghost ELSE leaseKey
  /\ GoTo(w, "idle")
  /\ leaseLost' = [leaseLost EXCEPT ![w] = FALSE]
  /\ supervisorUp' = [supervisorUp EXCEPT ![w] = FALSE]
  /\ UNCHANGED breakerVars

\* The two TTLs of the circuit breaker.
BlockExpires ==
  /\ blocked
  /\ blocked' = FALSE
  /\ UNCHANGED <<leaseKey, streamStep, leaseLost, supervisorUp, jobs, failures, streamFaults>>

FailuresExpire ==
  /\ failures > 0
  /\ failures' = 0
  /\ UNCHANGED <<leaseKey, streamStep, leaseLost, supervisorUp, jobs, blocked, streamFaults>>

\* What a worker does of its own accord, no fault involved.
StreamWork(w) ==
  \/ CheckCircuit(w) \/ AcquireLease(w) \/ Connected(w)
  \/ Heartbeat(w) \/ StopOnLost(w) \/ ReleaseLease(w)

StreamNext ==
  \/ \E w \in StreamWorkers :
       \/ StreamWork(w) \/ AuthRejected(w) \/ ConnectTimeout(w)
       \/ ReconnectRejected(w) \/ SupervisorCrash(w) \/ StreamShutdown(w)
       \/ StreamWorkerDies(w)
  \/ ReconcileStreams \/ LeaseExpires \/ BlockExpires \/ FailuresExpire

\* Beat runs, Redis expires keys, and a live worker takes its next step.
StreamFairness ==
  /\ \A w \in StreamWorkers : WF_streamVars(StreamWork(w) /\ UNCHANGED streamFaults)
  /\ WF_streamVars(ReconcileStreams)
  /\ WF_streamVars(leaseKey = Ghost /\ LeaseExpires)
  /\ WF_streamVars(BlockExpires)

StreamSpec == StreamInit /\ [][StreamNext]_streamVars /\ StreamFairness

-----------------------------------------------------------------------------
Streaming == {w \in StreamWorkers : streamStep[w] = "up"}

\* A held lease leaves a worker only when that worker's own task ends, or by
\* its TTL, which changes nothing else: no other task's exit, however late,
\* releases it (the token the unlock script compares).
ReleasedByHolder ==
  [][\A w \in StreamWorkers : leaseKey = w /\ leaseKey' # w =>
        streamStep'[w] = "idle" \/ UNCHANGED streamStep]_streamVars

\* Two tasks that stream at once are found by the heartbeats, a lost lease or
\* a blocked account is taken up again by beat: after the last fault exactly
\* one task is in its stream, for ever.
StreamSettles == <>[](Cardinality(Streaming) = 1)

\* What _supervisor_loop says of a refused authentication (store the error,
\* then tell the main task): no task stays in its stream without a supervisor.
RefusalIsTold ==
  \A w \in StreamWorkers :
    streamStep[w] = "up" /\ ~supervisorUp[w] ~> streamStep[w] # "up"
=============================================================================
