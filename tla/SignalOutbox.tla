---------------------------- MODULE SignalOutbox ----------------------------
(***************************************************************************)
(* The outbox of live signals: the evaluation of a bar stores an event, a  *)
(* Celery task hands it to OrderService.execute (OrderAdmission) with a    *)
(* key made from the event and records what came of it, beat enqueues what *)
(* is still pending.  Every event is its own idempotency key.              *)
(*                                                                         *)
(* Left out: the evaluation itself, what the order says, the checks before *)
(* execute other than their outcome (session inactive, strategy missing,   *)
(* settings, position flat: each fails the event, as a rejection does).    *)
(***************************************************************************)
EXTENDS OrderAdmission

CONSTANTS
  Events,     \* outbox events, each its own idempotency key
  MaxRetries  \* max_retries of the dispatch task

ASSUME OutboxAssumption ==
  /\ Events \subseteq Keys \ WebKeys
  /\ MaxRetries \in Nat

VARIABLES
  status,  \* status[e]: live_signal_events.status, "none" before the INSERT
  queue    \* dispatch messages not yet delivered

outboxVars == <<status, queue>>
vars == <<admissionVars, outboxVars>>

Workers == Procs \ Web
Message(e, n) == [event |-> e, tries |-> n]
Messages == [event : Events, tries : 0..MaxRetries]

TypeOK ==
  /\ AdmissionTypeOK
  /\ status \in [Events -> {"none", "pending", "dispatched", "failed"}]
  /\ queue \subseteq Messages

Init ==
  /\ AdmissionInit
  /\ status = [e \in Events |-> "none"]
  /\ queue = {}

-----------------------------------------------------------------------------
MarkableAlways(e) == TRUE
Markable(e) == status[e] = "pending"

\* mark_dispatched and mark_failed; the rowcount is ignored.
Mark(e, end) == status' = IF Markable(e) THEN [status EXCEPT ![e] = end] ELSE status

\* The commit of an evaluated bar.
Emit(e) ==
  /\ status[e] = "none"
  /\ status' = [status EXCEPT ![e] = "pending"]
  /\ UNCHANGED <<admissionVars, queue>>

\* The evaluation enqueues the new event; beat enqueues every pending one.
Enqueue(e) ==
  /\ status[e] = "pending"
  /\ queue' = queue \cup {Message(e, 0)}
  /\ UNCHANGED <<admissionVars, status>>

\* A message expires, or the broker loses it.
LoseMessage(m) ==
  /\ Fault
  /\ m \in queue
  /\ queue' = queue \ {m}
  /\ UNCHANGED <<order, lock, call, active, status>>

\* _async_dispatch_event up to execute: an event that is not pending is skipped.
Deliver(p, m) ==
  /\ p \in Workers
  /\ call[p] = Idle
  /\ m \in queue
  /\ queue' = queue \ {m}
  /\ \/ status[m.event] = "pending" /\ Enter(p, m.event, None, m.tries)
     \/ status[m.event] # "pending" /\ UNCHANGED call
  /\ UNCHANGED <<order, lock, active, faults, status>>

SucceededOrFailed(outcome) == outcome \in {"created", "replayed", "error"}
Succeeded(outcome) == outcome \in {"created", "replayed"}

\* execute came back: record it.
RecordSuccess(p) ==
  /\ p \in Workers
  /\ Succeeded(call[p].pc)
  /\ Mark(KeyOf(p), "dispatched")
  /\ Leave(p)
  /\ UNCHANGED <<order, lock, active, faults, queue>>

\* A refusal that a retry would not change.
RecordRefusal(p) ==
  /\ p \in Workers
  /\ call[p].pc \in {"conflict", "refused", "rejected"}
  /\ Mark(KeyOf(p), "failed")
  /\ Leave(p)
  /\ UNCHANGED <<order, lock, active, faults, queue>>

JustGiveUp(e) == UNCHANGED status
GiveUp(e) == Mark(e, "failed")

RetriableAgain(p) == call[p].tries <= MaxRetries
Retriable(p) == call[p].tries < MaxRetries

\* Any other failure is tried again, MaxRetries times.
RetryOrGiveUp(p) ==
  /\ p \in Workers
  /\ call[p].pc = "error"
  /\ \/ /\ Retriable(p)
        /\ queue' = queue \cup {Message(KeyOf(p), call[p].tries + 1)}
        /\ UNCHANGED status
     \/ /\ ~Retriable(p)
        /\ GiveUp(KeyOf(p))
        /\ UNCHANGED queue
  /\ Leave(p)
  /\ UNCHANGED <<order, lock, active, faults>>

\* acks_late: the message of a worker that dies is delivered again.
Crash(p) ==
  /\ p \in Workers
  /\ Die(p)
  /\ queue' = queue \cup {Message(KeyOf(p), call[p].tries)}
  /\ UNCHANGED status

-----------------------------------------------------------------------------
Record(p) == RecordSuccess(p) \/ RecordRefusal(p) \/ RetryOrGiveUp(p)
Step(p) == Execute(p) /\ UNCHANGED outboxVars

Next ==
  \/ (WebNext \/ Resolve) /\ UNCHANGED outboxVars
  \/ \E p \in Workers : Step(p) \/ Record(p) \/ Crash(p)
  \/ \E p \in Workers, m \in queue : Deliver(p, m)
  \/ \E e \in Events : Emit(e) \/ Enqueue(e)
  \/ \E m \in queue : LoseMessage(m)

Spec == Init /\ [][Next]_vars

(* A worker goes on with its call (waiting for a lock needs no more: whoever
   holds it goes on too), a message is taken in the end (SF: other messages may
   be taken first, but not for ever), beat enqueues again and again.  Nothing is
   assumed of evaluations, users and API processes. *)
Fairness ==
  /\ \A p \in Workers : WF_vars(Step(p) \/ Record(p))
  /\ \A m \in Messages : SF_vars(\E p \in Workers : Deliver(p, m))
  /\ \A e \in Events : WF_vars(Enqueue(e))

FairSpec == Spec /\ Fairness

-----------------------------------------------------------------------------
(* Properties *)

\* An event that says dispatched has its order in the ledger, also when its
\* delivery failed after the commit and a later one replayed it.
DispatchedHasOrder ==
  \A e \in Events : status[e] = "dispatched" => order[e].row

\* Two deliveries of one event may end differently; the first to record wins.
EventEndIsFinal ==
  [][\A e \in Events : status[e] \in {"dispatched", "failed"}
                         => status'[e] = status[e]]_status

\* An event does not stay pending for ever, whatever is lost or fails: beat
\* enqueues it again and the retries of a delivery end.
PendingSettles ==
  \A e \in Events : status[e] = "pending" ~> status[e] # "pending"
=============================================================================
