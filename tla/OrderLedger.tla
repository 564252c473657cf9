----------------------------- MODULE OrderLedger -----------------------------
(***************************************************************************)
(* The life of an order row after OrderService.execute has accepted it:    *)
(* the request that saved it, the Celery workers that send it, poll it and *)
(* cancel it, the private stream that reports its end, the recovery jobs   *)
(* (orphan scanner, conditional entry janitor, stream reconciliation) and  *)
(* the exchange itself, which keeps its own truth.                         *)
(*                                                                         *)
(* Every handler is cut where the code awaits something another actor can  *)
(* overtake: between the read of the row and the conditional UPDATE,       *)
(* between the commit and the exchange call, between the exchange's answer *)
(* and its record, between the commit of an end state and its side         *)
(* effects.  A handler in progress lives in hand[a]: the job it serves,    *)
(* how far it is (pc), whether the row it read had an exchange id (saw)    *)
(* and what the exchange answered (answer).                                *)
(*                                                                         *)
(* Data left out: prices, quantities, partial fills, leverage, credentials *)
(* and every text.  Ages (the 30 minute cutoff, countdowns) are left out   *)
(* too: a recovery job may look at a row at any moment, except for         *)
(* AllowStall below.                                                       *)
(*                                                                         *)
(* A definition directly above another of a similar name (FromAny above    *)
(* From, ClaimableTwice above Claimable, ...) is a plausible mistake of    *)
(* the code, used by no action: the mutants of PROJECT.json swap it in.    *)
(***************************************************************************)
EXTENDS Integers, FiniteSets

CONSTANTS
  Orders,       \* order rows
  Workers,      \* Celery worker processes
  Stream,       \* the private websocket process of the account
  Web,          \* the API process that serves a user's cancel request
  MaxAttempts,  \* _WATCHDOG_MAX_ATTEMPTS
  MaxFaults,    \* bound: crashes, lost answers and provider failures
  OwnerMayLeave,\* may the owner deactivate the account during the run?
  AllowStall    \* may a worker hold a claimed order longer than the 30
                \* minutes after which the janitor looks at it?

ASSUME LedgerAssumption ==
  /\ Stream \notin Workers
  /\ Web \notin Workers
  /\ Web # Stream
  /\ MaxAttempts \in Nat \ {0}
  /\ MaxFaults \in Nat
  /\ OwnerMayLeave \in BOOLEAN
  /\ AllowStall \in BOOLEAN

VARIABLES
  state,      \* state[o]: the column orders.state, "none" before the INSERT
  hasId,      \* hasId[o]: orders.exchange_order_id IS NOT NULL
  exchange,   \* exchange[o]: what the exchange knows of the order
  queue,      \* Celery messages not yet delivered
  hand,       \* hand[a]: the handler actor a is in the middle of
  request,    \* request[o]: how far the request that saves o has come
  events,     \* order events on their way over the private stream
  gauge,      \* the qb_active_orders gauge
  drift,      \* history: gauge updates lost in crashes, signed
  creates,    \* history: create_order calls the exchange was sent for o
  effects,    \* history: runs of the side effects that follow the end of o
  misreported,\* history: orders the exchange misreported: an error for a
              \* create_order it took, absent for an order it has
  barred,     \* the owner left: strategy_owner_is_active is false from now on
  conditional,\* the rows with a trigger_price: left to the janitor
  faults      \* crashes and failures so far

vars == <<state, hasId, exchange, queue, hand, request, events, gauge, drift,
          creates, effects, misreported, barred, conditional, faults>>

Active   == {"pending", "submitted"}
Terminal == {"filled", "rejected", "cancelled"}
States   == {"none"} \cup Active \cup Terminal
ExchangeStates == {"absent", "open"} \cup Terminal

Actors == Workers \cup {Stream, Web}

MessageTasks == {"execute", "fetch", "cancel"}
Tasks == MessageTasks \cup {"janitor", "reconcile", "event", "userCancel"}
Jobs  == [task : Tasks, order : Orders, attempt : 0..MaxAttempts]
Job(t, o, k) == [task |-> t, order |-> o, attempt |-> k]

Answers == Terminal \cup {"none", "submitted", "error", "absent"}
Idle == [pc |-> "idle"]
Busy == [pc : {"picked", "checked", "claimed", "answered", "attached", "won"},
         job : Jobs, saw : BOOLEAN, answer : Answers]
At(pc, job, saw, answer) ==
  [pc |-> pc, job |-> job, saw |-> saw, answer |-> answer]

Serving(a, task, pc) == hand[a].pc = pc /\ hand[a].job.task = task
OrderOf(a) == hand[a].job.order
Goto(a, h) == hand' = [hand EXCEPT ![a] = h]
Advance(a, pc, answer) ==
  Goto(a, [hand[a] EXCEPT !.pc = pc, !.answer = answer])
Enqueue(j) == queue' = queue \cup {j}
Fault == faults < MaxFaults /\ faults' = faults + 1

TypeOK ==
  /\ state \in [Orders -> States]
  /\ hasId \in [Orders -> BOOLEAN]
  /\ exchange \in [Orders -> ExchangeStates]
  /\ queue \subseteq {j \in Jobs : j.task \in MessageTasks}
  /\ hand \in [Actors -> {Idle} \cup Busy]
  /\ request \in [Orders -> {"none", "saved", "counted", "done"}]
  /\ events \subseteq Orders \X Terminal
  /\ gauge \in Int
  /\ drift \in Int
  /\ creates \in [Orders -> Nat]
  /\ effects \in [Orders -> Nat]
  /\ misreported \subseteq Orders
  /\ barred \in BOOLEAN
  /\ conditional \subseteq Orders
  /\ faults \in Nat

Init ==
  /\ state = [o \in Orders |-> "none"]
  /\ hasId = [o \in Orders |-> FALSE]
  /\ exchange = [o \in Orders |-> "absent"]
  /\ queue = {}
  /\ hand = [a \in Actors |-> Idle]
  /\ request = [o \in Orders |-> "none"]
  /\ events = {}
  /\ gauge = 0
  /\ drift = 0
  /\ creates = [o \in Orders |-> 0]
  /\ effects = [o \in Orders |-> 0]
  /\ misreported = {}
  /\ barred = FALSE
  /\ conditional \in SUBSET Orders
  /\ faults = 0

-----------------------------------------------------------------------------
(* Conditional UPDATEs of OrderRepository.  The handler of actor a wins when *)
(* its WHERE clause still holds, and then owes the side effects; when the    *)
(* rowcount is 0 it lost the race and ends without touching the row.         *)

FromAny(end) == States
From(end) == IF end = "filled" THEN {"submitted"} ELSE Active

Win(a, o, end) ==
  /\ state' = [state EXCEPT ![o] = end]
  /\ Advance(a, "won", end)

LoseRace(a) == Goto(a, Idle) /\ UNCHANGED state

TransitionToFilled(a, o) ==
  \/ /\ state[o] \in From("filled")
     /\ Win(a, o, "filled")
     /\ hasId' = [hasId EXCEPT ![o] = TRUE]
  \/ /\ state[o] \notin From("filled")
     /\ LoseRace(a)
     /\ UNCHANGED hasId

TransitionToRejected(a, o) ==
  \/ state[o] \in From("rejected") /\ Win(a, o, "rejected") /\ UNCHANGED hasId
  \/ state[o] \notin From("rejected") /\ LoseRace(a) /\ UNCHANGED hasId

TransitionToCancelled(a, o) ==
  \/ state[o] \in From("cancelled") /\ Win(a, o, "cancelled") /\ UNCHANGED hasId
  \/ state[o] \notin From("cancelled") /\ LoseRace(a) /\ UNCHANGED hasId

WithoutId(o) == state[o] = "submitted" /\ ~hasId[o]

TransitionWithoutIdToRejected(a, o) ==
  \/ WithoutId(o) /\ Win(a, o, "rejected") /\ UNCHANGED hasId
  \/ ~WithoutId(o) /\ LoseRace(a) /\ UNCHANGED hasId

UserCancellableLive(o) == state[o] \in Active
UserCancellable(o) == state[o] = "pending"

TransitionPendingToCancelled(a, o) ==
  \/ UserCancellable(o) /\ Win(a, o, "cancelled") /\ UNCHANGED hasId
  \/ ~UserCancellable(o) /\ LoseRace(a) /\ UNCHANGED hasId

(* Record an end the exchange reported, whichever of the three it is. *)
RecordEnd(a, o, end) ==
  \/ end = "filled" /\ TransitionToFilled(a, o)
  \/ end = "rejected" /\ TransitionToRejected(a, o)
  \/ end = "cancelled" /\ TransitionToCancelled(a, o)

-----------------------------------------------------------------------------
(* The request: OrderService._execute_inner after its gates. *)

\* The INSERT and its commit.
SaveOrder(o) ==
  /\ request[o] = "none"
  /\ request' = [request EXCEPT ![o] = "saved"]
  /\ state' = [state EXCEPT ![o] = "pending"]
  /\ UNCHANGED <<hasId, exchange, queue, hand, events, gauge, drift, creates,
                 effects, misreported, barred, conditional, faults>>

\* qb_active_orders.inc, after the commit.
CountOrder(o) ==
  /\ request[o] = "saved"
  /\ request' = [request EXCEPT ![o] = "counted"]
  /\ gauge' = gauge + 1
  /\ UNCHANGED <<state, hasId, exchange, queue, hand, events, drift, creates,
                 effects, misreported, barred, conditional, faults>>

\* dispatch_order_execution: the execute message reaches the broker.
DispatchOrder(o) ==
  /\ request[o] = "counted"
  /\ request' = [request EXCEPT ![o] = "done"]
  /\ Enqueue(Job("execute", o, 0))
  /\ UNCHANGED <<state, hasId, exchange, hand, events, gauge, drift, creates,
                 effects, misreported, barred, conditional, faults>>

\* The API process dies after the commit, or the broker refuses the message.
LoseRequest(o) ==
  /\ Fault
  /\ request[o] \in {"saved", "counted"}
  /\ drift' = IF request[o] = "saved" THEN drift - 1 ELSE drift
  /\ request' = [request EXCEPT ![o] = "done"]
  /\ UNCHANGED <<state, hasId, exchange, queue, hand, events, gauge, creates,
                 effects, misreported, barred, conditional>>

-----------------------------------------------------------------------------
(* Delivery.  A worker takes one message at a time and reads the row; a      *)
(* message whose row is in the wrong state is acknowledged and dropped.      *)

Eligible(j) ==
  \/ j.task = "execute" /\ state[j.order] = "pending"
  \/ j.task \in {"fetch", "cancel"} /\ state[j.order] = "submitted" /\ hasId[j.order]

Pick(w, j) ==
  /\ hand[w] = Idle
  /\ j \in queue
  /\ Eligible(j)
  /\ queue' = queue \ {j}
  /\ Goto(w, At("picked", j, hasId[j.order], "none"))
  /\ UNCHANGED <<state, hasId, exchange, request, events, gauge, drift,
                 creates, effects, misreported, barred, conditional, faults>>

Skip(w, j) ==
  /\ hand[w] = Idle
  /\ j \in queue
  /\ ~Eligible(j)
  /\ queue' = queue \ {j}
  /\ UNCHANGED <<state, hasId, exchange, hand, request, events, gauge, drift,
                 creates, effects, misreported, barred, conditional, faults>>

(* _execute_with_session *)

\* The owner is active: go on to the claim.
PassChecks(w) ==
  /\ Serving(w, "execute", "picked")
  /\ ~barred
  /\ Advance(w, "checked", "none")
  /\ UNCHANGED <<state, hasId, exchange, queue, request, events, gauge, drift,
                 creates, effects, misreported, barred, conditional, faults>>

\* The owner left: the order is rejected.
RefuseBeforeClaim(w) ==
  /\ Serving(w, "execute", "picked")
  /\ barred
  /\ TransitionToRejected(w, OrderOf(w))
  /\ UNCHANGED <<exchange, queue, request, events, gauge, drift, creates,
                 effects, misreported, barred, conditional, faults>>

ClaimableTwice(o) == state[o] \in Active
Claimable(o) == state[o] = "pending"

\* transition_to_submitted and its commit.
ClaimOrder(w) ==
  /\ Serving(w, "execute", "checked")
  /\ LET o == OrderOf(w) IN
       \/ /\ Claimable(o)
          /\ state' = [state EXCEPT ![o] = "submitted"]
          /\ Advance(w, "claimed", "none")
       \/ ~Claimable(o) /\ LoseRace(w)
  /\ UNCHANGED <<hasId, exchange, queue, request, events, gauge, drift,
                 creates, effects, misreported, barred, conditional, faults>>

\* Credentials do not decrypt, a code exit is unsettled or the position is
\* reserved: the order is rejected before the exchange hears of it.
RefuseAfterClaim(w) ==
  /\ Serving(w, "execute", "claimed")
  /\ TransitionToRejected(w, OrderOf(w))
  /\ UNCHANGED <<exchange, queue, request, events, gauge, drift, creates,
                 effects, misreported, barred, conditional, faults>>

Called(o) == creates' = [creates EXCEPT ![o] = @ + 1]
Report(o, end) == events' = events \cup {<<o, end>>}

\* create_order is accepted; the receipt says submitted, or filled at once.
CreateAccepted(w) ==
  /\ Serving(w, "execute", "claimed")
  /\ LET o == OrderOf(w) IN
       /\ Called(o)
       /\ \/ /\ exchange' = [exchange EXCEPT ![o] = "open"]
             /\ Advance(w, "answered", "submitted")
             /\ UNCHANGED events
          \/ /\ exchange' = [exchange EXCEPT ![o] = "filled"]
             /\ Report(o, "filled")
             /\ Advance(w, "answered", "filled")
  /\ UNCHANGED <<state, hasId, queue, request, gauge, drift, effects,
                 misreported, barred, conditional, faults>>

\* create_order is refused: an error code leaves no order behind, a receipt
\* that says canceled or rejected maps to rejected.
CreateRefused(w) ==
  /\ Serving(w, "execute", "claimed")
  /\ LET o == OrderOf(w) IN
       /\ Called(o)
       /\ \/ /\ Advance(w, "answered", "error")
             /\ UNCHANGED <<exchange, events>>
          \/ \E end \in {"rejected", "cancelled"} :
               /\ exchange' = [exchange EXCEPT ![o] = end]
               /\ Report(o, end)
               /\ Advance(w, "answered", "rejected")
  /\ UNCHANGED <<state, hasId, queue, request, gauge, drift, effects,
                 misreported, barred, conditional, faults>>

\* The exchange takes the order but the caller gets a ProviderError (timeout,
\* connection reset, response without an id).
CreateAnswerLost(w) ==
  /\ Fault
  /\ Serving(w, "execute", "claimed")
  /\ LET o == OrderOf(w) IN
       /\ Called(o)
       /\ exchange' = [exchange EXCEPT ![o] = "open"]
       /\ misreported' = misreported \cup {o}
       /\ Advance(w, "answered", "error")
  /\ UNCHANGED <<state, hasId, queue, request, events, gauge, drift, effects,
                 barred, conditional>>

AttachableAlways(o) == TRUE
Attachable(o) == state[o] = "submitted"

Acknowledges(answer) == answer \in {"filled", "submitted"}
SaysFilled(answer) == answer = "filled"

\* The receipt is recorded.  Attaching the id ignores its rowcount.
RecordReceipt(w) ==
  /\ Serving(w, "execute", "answered")
  /\ LET o == OrderOf(w)
         answer == hand[w].answer
     IN \/ SaysFilled(answer) /\ TransitionToFilled(w, o)
        \/ answer \in {"rejected", "error"} /\ TransitionToRejected(w, o)
        \/ /\ answer = "submitted"
           /\ hasId' = IF Attachable(o) THEN [hasId EXCEPT ![o] = TRUE] ELSE hasId
           /\ Advance(w, "attached", "none")
           /\ UNCHANGED state
  /\ UNCHANGED <<exchange, queue, request, events, gauge, drift, creates,
                 effects, misreported, barred, conditional, faults>>

\* fetch_order_status_task.apply_async after the id was committed.
StartWatchdog(w) ==
  /\ Serving(w, "execute", "attached")
  /\ Enqueue(Job("fetch", OrderOf(w), 1))
  /\ Goto(w, Idle)
  /\ UNCHANGED <<state, hasId, exchange, request, events, gauge, drift,
                 creates, effects, misreported, barred, conditional, faults>>

(* _fetch_order_status_with_session *)

FetchAnswered(w) ==
  /\ Serving(w, "fetch", "picked")
  /\ Advance(w, "answered",
             IF exchange[OrderOf(w)] = "open" THEN "submitted"
             ELSE exchange[OrderOf(w)])
  /\ UNCHANGED <<state, hasId, exchange, queue, request, events, gauge, drift,
                 creates, effects, misreported, barred, conditional, faults>>

RetryForever(w) ==
  Goto(w, Idle) /\ Enqueue([hand[w].job EXCEPT !.attempt = @ + 1])

\* The watchdog retries with the next attempt, or gives up with an alert.
RetryOrGiveUp(w) ==
  LET j == hand[w].job IN
  /\ Goto(w, Idle)
  /\ \/ j.attempt < MaxAttempts /\ Enqueue(Job("fetch", j.order, j.attempt + 1))
     \/ j.attempt >= MaxAttempts /\ UNCHANGED queue

FetchFailed(w) ==
  /\ Fault
  /\ Serving(w, "fetch", "picked")
  /\ RetryOrGiveUp(w)
  /\ UNCHANGED <<state, hasId, exchange, request, events, gauge, drift,
                 creates, effects, misreported, barred, conditional>>

RecordFetch(w) ==
  /\ Serving(w, "fetch", "answered")
  /\ \/ RecordEnd(w, OrderOf(w), hand[w].answer) /\ UNCHANGED queue
     \/ /\ hand[w].answer = "submitted"
        /\ RetryOrGiveUp(w)
        /\ UNCHANGED <<state, hasId>>
  /\ UNCHANGED <<exchange, request, events, gauge, drift, creates, effects,
                 misreported, barred, conditional, faults>>

(* _cancel_order_with_session *)

\* provider.cancel_order succeeds, or takes effect while its answer is lost:
\* then the handler fails closed and leaves the row submitted.
CancelAtExchange(w) ==
  /\ Serving(w, "cancel", "picked")
  /\ exchange[OrderOf(w)] = "open"
  /\ exchange' = [exchange EXCEPT ![OrderOf(w)] = "cancelled"]
  /\ Report(OrderOf(w), "cancelled")
  /\ \/ Advance(w, "answered", "cancelled") /\ UNCHANGED faults
     \/ Goto(w, Idle) /\ Fault
  /\ UNCHANGED <<state, hasId, queue, request, gauge, drift, creates, effects,
                 misreported, barred, conditional>>

\* There is nothing left to cancel, or the call fails: the row stays submitted.
CancelFailed(w) ==
  /\ Serving(w, "cancel", "picked")
  /\ (exchange[OrderOf(w)] # "open" /\ UNCHANGED faults) \/ Fault
  /\ Goto(w, Idle)
  /\ UNCHANGED <<state, hasId, exchange, queue, request, events, gauge, drift,
                 creates, effects, misreported, barred, conditional>>

RecordCancel(w) ==
  /\ Serving(w, "cancel", "answered")
  /\ TransitionToCancelled(w, OrderOf(w))
  /\ UNCHANGED <<exchange, queue, request, events, gauge, drift, creates,
                 effects, misreported, barred, conditional, faults>>

-----------------------------------------------------------------------------
(* OrderService.cancel_for_user, one request at a time. *)

RequestCancel(o) ==
  /\ hand[Web] = Idle
  /\ \/ /\ state[o] = "submitted"
        /\ Enqueue(Job("cancel", o, 0))
        /\ UNCHANGED hand
     \/ /\ state[o] = "pending"
        /\ Goto(Web, At("picked", Job("userCancel", o, 0), FALSE, "none"))
        /\ UNCHANGED queue
  /\ UNCHANGED <<state, hasId, exchange, request, events, gauge, drift,
                 creates, effects, misreported, barred, conditional, faults>>

RecordUserCancel ==
  /\ Serving(Web, "userCancel", "picked")
  /\ TransitionPendingToCancelled(Web, OrderOf(Web))
  /\ UNCHANGED <<exchange, queue, request, events, gauge, drift, creates,
                 effects, misreported, barred, conditional, faults>>

-----------------------------------------------------------------------------
(* Recovery jobs started by Celery beat. *)

NeverStuck(o) == FALSE
StuckPending(o) == state[o] = "pending"

\* scan_stuck_orders: a pending row is dispatched again.
ScanPending(o) ==
  /\ StuckPending(o)
  /\ Enqueue(Job("execute", o, 0))
  /\ UNCHANGED <<state, hasId, exchange, hand, request, events, gauge, drift,
                 creates, effects, misreported, barred, conditional, faults>>

ScannableInterrupted(o) == state[o] = "submitted" /\ ~hasId[o]
Scannable(o) == state[o] = "submitted" /\ hasId[o] /\ o \notin conditional

\* scan_stuck_orders: a plain submitted row with an id is polled again.  One
\* without an id only raises an alert.
ScanSubmitted(o) ==
  /\ Scannable(o)
  /\ Enqueue(Job("fetch", o, 1))
  /\ UNCHANGED <<state, hasId, exchange, hand, request, events, gauge, drift,
                 creates, effects, misreported, barred, conditional, faults>>

SendingUnseen(o) == FALSE
Sending(o) ==
  \E w \in Workers : /\ hand[w].pc \in {"claimed", "answered"}
                     /\ hand[w].job.task = "execute"
                     /\ OrderOf(w) = o

\* list_stale_conditional_entries: submitted more than 30 minutes ago.  Without
\* a stall the worker that claimed such a row is done or dead.
StaleWithoutId(o) == o \in conditional /\ WithoutId(o) /\ ~Sending(o)
StaleConditional(o) ==
  /\ o \in conditional
  /\ state[o] = "submitted"
  /\ AllowStall \/ ~Sending(o)

\* conditional_entry_janitor takes up one of them.
StartJanitor(w, o) ==
  /\ hand[w] = Idle
  /\ StaleConditional(o)
  /\ Goto(w, At("picked", Job("janitor", o, 0), hasId[o], "none"))
  /\ UNCHANGED <<state, hasId, exchange, queue, request, events, gauge, drift,
                 creates, effects, misreported, barred, conditional, faults>>

\* fetch_order_by_client_id; an exception rolls back and goes to the next row.
ProbeByClientId(w) ==
  /\ Serving(w, "janitor", "picked")
  /\ \/ /\ Advance(w, "answered",
                   IF exchange[OrderOf(w)] = "open" THEN "submitted"
                   ELSE exchange[OrderOf(w)])
        /\ UNCHANGED faults
     \/ Goto(w, Idle) /\ Fault
  /\ UNCHANGED <<state, hasId, exchange, queue, request, events, gauge, drift,
                 creates, effects, misreported, barred, conditional>>

\* The exchange has the order, but neither of the two lists shows it.
ProbeMisses(w) ==
  /\ Fault
  /\ Serving(w, "janitor", "picked")
  /\ exchange[OrderOf(w)] # "absent"
  /\ misreported' = misreported \cup {OrderOf(w)}
  /\ Advance(w, "answered", "absent")
  /\ UNCHANGED <<state, hasId, exchange, queue, request, events, gauge, drift,
                 creates, effects, barred, conditional>>

RecordProbe(w) ==
  /\ Serving(w, "janitor", "answered")
  /\ LET o == OrderOf(w)
         answer == hand[w].answer
     IN \/ answer = "absent" /\ ~hand[w].saw /\ TransitionWithoutIdToRejected(w, o)
        \/ answer = "absent" /\ hand[w].saw /\ TransitionToRejected(w, o)
        \/ /\ answer = "submitted"
           /\ Goto(w, Idle)
           /\ hasId' = IF ~hand[w].saw /\ Attachable(o)
                       THEN [hasId EXCEPT ![o] = TRUE] ELSE hasId
           /\ UNCHANGED state
        \/ RecordEnd(w, o, answer)
  /\ UNCHANGED <<exchange, queue, request, events, gauge, drift, creates,
                 effects, misreported, barred, conditional, faults>>

-----------------------------------------------------------------------------
(* The private stream: events as they come, and a reconciliation of the      *)
(* account's active rows after each connect, before it receives.             *)

\* handle_order_event; an event may be delivered again.
HandleEvent(o, end) ==
  /\ hand[Stream] = Idle
  /\ <<o, end>> \in events
  /\ events' \in {events, events \ {<<o, end>>}}
  /\ \/ /\ state[o] \in From(end)
        /\ state' = [state EXCEPT ![o] = end]
        /\ hasId' = IF end = "filled" THEN [hasId EXCEPT ![o] = TRUE] ELSE hasId
        /\ Goto(Stream, At("won", Job("event", o, 0), FALSE, end))
     \/ state[o] \notin From(end) /\ UNCHANGED <<state, hasId, hand>>
  /\ UNCHANGED <<exchange, queue, request, gauge, drift, creates, effects,
                 misreported, barred, conditional, faults>>

\* The stream is down when the exchange sends.
LoseEvent(o, end) ==
  /\ <<o, end>> \in events
  /\ events' = events \ {<<o, end>>}
  /\ UNCHANGED <<state, hasId, exchange, queue, hand, request, gauge, drift,
                 creates, effects, misreported, barred, conditional, faults>>

\* list_active_by_exchange_account, one of its rows.
StartReconcile(o) ==
  /\ hand[Stream] = Idle
  /\ state[o] \in Active
  /\ Goto(Stream, At("picked", Job("reconcile", o, 0), FALSE, "none"))
  /\ UNCHANGED <<state, hasId, exchange, queue, request, events, gauge, drift,
                 creates, effects, misreported, barred, conditional, faults>>

\* fetch_open_orders and fetch_recent_orders.  A row the exchange does not
\* list only raises an alert, one that is not at its end is left alone.
FetchSnapshot ==
  /\ Serving(Stream, "reconcile", "picked")
  /\ \/ /\ exchange[OrderOf(Stream)] \in Terminal
        /\ Advance(Stream, "answered", exchange[OrderOf(Stream)])
     \/ Goto(Stream, Idle)
  /\ UNCHANGED <<state, hasId, exchange, queue, request, events, gauge, drift,
                 creates, effects, misreported, barred, conditional, faults>>

RecordSnapshot ==
  /\ Serving(Stream, "reconcile", "answered")
  /\ RecordEnd(Stream, OrderOf(Stream), hand[Stream].answer)
  /\ UNCHANGED <<exchange, queue, request, events, gauge, drift, creates,
                 effects, misreported, barred, conditional, faults>>

-----------------------------------------------------------------------------
DecrementFillsOnly(a) == IF hand[a].answer = "filled" THEN gauge - 1 ELSE gauge
Decrement(a) == gauge - 1

\* What every winner does after its commit: decrement the gauge and, for a
\* fill, enqueue the trailing stop and the P&L refresh.  A task ends here.
RunEffects(a) ==
  /\ hand[a].pc = "won"
  /\ gauge' = Decrement(a)
  /\ effects' = [effects EXCEPT ![OrderOf(a)] = @ + 1]
  /\ Goto(a, Idle)
  /\ UNCHANGED <<state, hasId, exchange, queue, request, events, drift,
                 creates, misreported, barred, conditional, faults>>

\* A process dies.  acks_late and reject_on_worker_lost return its message;
\* everything else it held is gone.
Crash(a) ==
  /\ Fault
  /\ hand[a] # Idle
  /\ Goto(a, Idle)
  /\ queue' = IF hand[a].job.task \in MessageTasks
              THEN queue \cup {hand[a].job} ELSE queue
  /\ drift' = IF hand[a].pc = "won" THEN drift + 1 ELSE drift
  /\ UNCHANGED <<state, hasId, exchange, request, events, gauge, creates,
                 effects, misreported, barred, conditional>>

\* The owner deactivates the account; pending rows are left as they are.
OwnerLeaves ==
  /\ OwnerMayLeave
  /\ ~barred
  /\ barred' = TRUE
  /\ UNCHANGED <<state, hasId, exchange, queue, hand, request, events, gauge,
                 drift, creates, effects, misreported, conditional, faults>>

\* The exchange ends an open order by itself.
ExchangeEnds(o, end) ==
  /\ exchange[o] = "open"
  /\ exchange' = [exchange EXCEPT ![o] = end]
  /\ Report(o, end)
  /\ UNCHANGED <<state, hasId, queue, hand, request, gauge, drift, creates,
                 effects, misreported, barred, conditional, faults>>

-----------------------------------------------------------------------------
RequestNext(o) ==
  SaveOrder(o) \/ CountOrder(o) \/ DispatchOrder(o) \/ LoseRequest(o)

ExecuteNext(w) ==
  \/ PassChecks(w) \/ RefuseBeforeClaim(w) \/ ClaimOrder(w) \/ RefuseAfterClaim(w)
  \/ CreateAccepted(w) \/ CreateRefused(w) \/ CreateAnswerLost(w)
  \/ RecordReceipt(w) \/ StartWatchdog(w)

FetchNext(w)  == FetchAnswered(w) \/ FetchFailed(w) \/ RecordFetch(w)
CancelNext(w) == CancelAtExchange(w) \/ CancelFailed(w) \/ RecordCancel(w)
JanitorNext(w) == ProbeByClientId(w) \/ ProbeMisses(w) \/ RecordProbe(w)
ScanNext(o) == ScanPending(o) \/ ScanSubmitted(o)
StreamNext == FetchSnapshot \/ RecordSnapshot

Next ==
  \/ \E o \in Orders : RequestNext(o) \/ RequestCancel(o) \/ ScanNext(o)
  \/ \E w \in Workers : \E j \in queue : Pick(w, j) \/ Skip(w, j)
  \/ \E w \in Workers :
       ExecuteNext(w) \/ FetchNext(w) \/ CancelNext(w) \/ JanitorNext(w)
  \/ \E w \in Workers, o \in Orders : StartJanitor(w, o)
  \/ RecordUserCancel
  \/ OwnerLeaves
  \/ StreamNext
  \/ \E o \in Orders : StartReconcile(o)
  \/ \E o \in Orders, end \in Terminal :
       HandleEvent(o, end) \/ LoseEvent(o, end) \/ ExchangeEnds(o, end)
  \/ \E a \in Actors : RunEffects(a) \/ Crash(a)

Spec == Init /\ [][Next]_vars

-----------------------------------------------------------------------------
(* Fairness.  A handler that started runs on, a worker takes every message   *)
(* in the end (the broker's list is first in first out, hence SF: another    *)
(* message may be taken first, but not for ever), beat starts its jobs again *)
(* and again.  Nothing is assumed of users, of event delivery and reconnects *)
(* of the stream, of the exchange, or of the process that saved the order.   *)

Fairness ==
  /\ \A w \in Workers :
       WF_vars(ExecuteNext(w) \/ FetchNext(w) \/ CancelNext(w)
                 \/ JanitorNext(w) \/ RunEffects(w))
  /\ WF_vars(StreamNext \/ RunEffects(Stream))
  /\ WF_vars(RecordUserCancel \/ RunEffects(Web))
  /\ \A o \in Orders :
       \A j \in {Job("execute", o, 0)} \cup {Job("fetch", o, k) : k \in 1..MaxAttempts} :
         SF_vars(\E w \in Workers : Pick(w, j) \/ Skip(w, j))
  /\ \A o \in Orders : WF_vars(ScanNext(o))
  /\ \A o \in Orders : SF_vars(\E w \in Workers : StartJanitor(w, o))

FairSpec == Spec /\ Fairness

-----------------------------------------------------------------------------
(* Properties *)

\* The exchange is asked to create an order at most once, whatever the
\* scanner dispatches again and the broker delivers again: transition_to_submitted
\* lets one delivery through and a claimed row is never claimed again.
AtMostOneCreate == \A o \in Orders : creates[o] <= 1

\* A row is filled only if the exchange filled the order (the false positive
\* fills that the receipt.status branches were added against).
FilledAtExchange ==
  \A o \in Orders : state[o] = "filled" => exchange[o] = "filled"

\* A cancelled row is never live at the exchange nor filled there: a pending
\* row is cancelled before it was sent, a submitted one only after
\* provider.cancel_order succeeded or the exchange said so.
CancelledIsNotLive ==
  \A o \in Orders : state[o] = "cancelled" => exchange[o] \notin {"open", "filled"}

\* What lives or filled at the exchange is submitted or filled in the ledger,
\* unless the exchange misreported it (as long as the owner stays, see
\* RefusedUnsent, and no worker stalls).
LiveIsTracked ==
  \A o \in Orders :
    exchange[o] \in {"open", "filled"}
      => state[o] \in {"submitted", "filled"} \/ o \in misreported

\* Ledger and exchange agree on what is filled and what may still fill: no fill is
\* invented, no live order is lost.
ExchangeAgrees == FilledAtExchange /\ LiveIsTracked

Winners(o) == {a \in Actors : hand[a].pc = "won" /\ OrderOf(a) = o}

\* Of all the handlers that see the end of an order one wins the conditional
\* UPDATE; so the gauge decrement and the trailing stop job run at most once,
\* and only for a row that has ended.
EffectsAtMostOnce ==
  \A o \in Orders :
    /\ effects[o] + Cardinality(Winners(o)) <= 1
    /\ effects[o] + Cardinality(Winners(o)) > 0 => state[o] \in Terminal

\* qb_active_orders counts the active rows, up to the updates still owed by a
\* request or a winner and the ones lost in a crash between commit and metric.
GaugeBalance ==
  gauge = Cardinality({o \in Orders : state[o] \in Active})
          - Cardinality({o \in Orders : request[o] = "saved"})
          + Cardinality({a \in Actors : hand[a].pc = "won"})
          + drift

\* What an end sets going happens once, and the gauge agrees.
EndCountedOnce == EffectsAtMostOnce /\ GaugeBalance

\* An ended row keeps its state and its exchange id.
TerminalIsFinal ==
  [][\A o \in Orders : state[o] \in Terminal =>
       state'[o] = state[o] /\ hasId'[o] = hasId[o]]_vars

\* The refusal of an order whose owner left comes before the claim, so nothing
\* has gone to the exchange and the row goes from pending to rejected (comment
\* in _execute_with_session).  Two deliveries of the message break it.
RefusedUnsent ==
  [][\A w \in Workers :
       Serving(w, "execute", "picked") /\ hand'[w].pc = "won"
         => state[OrderOf(w)] = "pending"]_vars

\* A lost or late dispatch does not leave a row pending for ever: the scanner
\* dispatches it again.
PendingLeaves ==
  \A o \in Orders : state[o] = "pending" ~> state[o] # "pending"

\* When the exchange has ended an order whose id the ledger knows, the ledger
\* records an end, with the stream silent: by the watchdog and the scanner, or
\* by the janitor for a conditional entry.
KnownEndIsRecorded ==
  \A o \in Orders :
    (state[o] = "submitted" /\ hasId[o] /\ exchange[o] \in Terminal)
      ~> state[o] \in Terminal

\* With the stream silent, every row goes on while there is something to do for it.
LedgerSettles == PendingLeaves /\ KnownEndIsRecorded

\* The ledger implements what OrderLifecycle promises about each order.
Lifecycle == INSTANCE OrderLifecycle WITH
  status  <- state,
  sent    <- [o \in Orders |-> creates[o] > 0],
  settled <- [o \in Orders |-> effects[o] > 0]

LifecycleSpec == Lifecycle!Spec
=============================================================================
