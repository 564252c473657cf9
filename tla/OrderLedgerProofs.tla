------------------------- MODULE OrderLedgerProofs --------------------------
(***************************************************************************)
(* Proofs about OrderLedger, for any number of orders and workers and any  *)
(* bound on attempts and faults.                                           *)
(***************************************************************************)
EXTENDS OrderLedger, FiniteSetTheorems, TLAPS

Hands == {Idle} \cup Busy

LEMMA ActorTypes ==
  Workers \subseteq Actors /\ Stream \in Actors /\ Web \in Actors
BY DEF Actors

LEMMA JobType ==
  ASSUME NEW t \in Tasks, NEW o \in Orders, NEW k \in 0..MaxAttempts
  PROVE  /\ Job(t, o, k) \in Jobs
         /\ Job(t, o, k).task = t
         /\ Job(t, o, k).order = o
BY DEF Job, Jobs

LEMMA AtType ==
  ASSUME NEW pc \in {"picked", "checked", "claimed", "answered", "attached", "won"},
         NEW job \in Jobs, NEW saw \in BOOLEAN, NEW answer \in Answers
  PROVE  At(pc, job, saw, answer) \in Busy
BY DEF At, Busy

\* An actor that is not idle holds a well-formed handler.
LEMMA BusyHand ==
  ASSUME TypeOK, NEW a \in Actors, hand[a].pc # "idle"
  PROVE  /\ hand[a] \in Busy
         /\ hand[a].job \in Jobs
         /\ OrderOf(a) \in Orders
         /\ hand[a].answer \in Answers
<1>1. hand[a] \in Busy
  BY DEF TypeOK, Idle
<1>2. QED
  BY <1>1 DEF Busy, Jobs, OrderOf

LEMMA GotoType ==
  ASSUME TypeOK, NEW a \in Actors, NEW h \in Hands, Goto(a, h)
  PROVE  hand' \in [Actors -> Hands]
BY DEF TypeOK, Goto, Hands

LEMMA AdvanceType ==
  ASSUME TypeOK, NEW a \in Actors, hand[a].pc # "idle",
         NEW pc \in {"picked", "checked", "claimed", "answered", "attached", "won"},
         NEW answer \in Answers, Advance(a, pc, answer)
  PROVE  hand' \in [Actors -> Hands]
<1>1. [hand[a] EXCEPT !.pc = pc, !.answer = answer] \in Busy
  BY BusyHand DEF Busy
<1>2. QED
  BY <1>1, GotoType DEF Advance, Hands

LEMMA WinOrLose ==
  ASSUME TypeOK, NEW a \in Actors, hand[a].pc # "idle", NEW o \in Orders,
         NEW end \in Terminal, Win(a, o, end) \/ LoseRace(a)
  PROVE  /\ state' \in [Orders -> States]
         /\ hand' \in [Actors -> Hands]
<1>1. CASE Win(a, o, end)
  <2>1. state' \in [Orders -> States]
    BY <1>1 DEF Win, TypeOK, States
  <2>2. hand' \in [Actors -> Hands]
    BY <1>1, AdvanceType DEF Win, Answers
  <2>3. QED
    BY <2>1, <2>2
<1>2. CASE LoseRace(a)
  BY <1>2, GotoType DEF LoseRace, Hands, TypeOK
<1>3. QED
  BY <1>1, <1>2

LEMMA RecordEndType ==
  ASSUME TypeOK, NEW a \in Actors, hand[a].pc # "idle", NEW o \in Orders,
         \/ \E end \in Terminal : RecordEnd(a, o, end)
         \/ TransitionToFilled(a, o)
         \/ TransitionToRejected(a, o)
         \/ TransitionToCancelled(a, o)
         \/ TransitionWithoutIdToRejected(a, o)
         \/ TransitionPendingToCancelled(a, o)
  PROVE  /\ state' \in [Orders -> States]
         /\ hand' \in [Actors -> Hands]
         /\ hasId' \in [Orders -> BOOLEAN]
<1>1. \/ TransitionToFilled(a, o)
      \/ TransitionToRejected(a, o)
      \/ TransitionToCancelled(a, o)
      \/ TransitionWithoutIdToRejected(a, o)
      \/ TransitionPendingToCancelled(a, o)
  BY DEF RecordEnd
<1>2. \E end \in Terminal : Win(a, o, end) \/ LoseRace(a)
  BY <1>1 DEF TransitionToFilled, TransitionToRejected, TransitionToCancelled,
       TransitionWithoutIdToRejected, TransitionPendingToCancelled, Terminal
<1>3. hasId' \in [Orders -> BOOLEAN]
  BY <1>1 DEF TransitionToFilled, TransitionToRejected, TransitionToCancelled,
       TransitionWithoutIdToRejected, TransitionPendingToCancelled, TypeOK
<1>4. QED
  BY <1>2, <1>3, WinOrLose

LEMMA FetchJobType ==
  ASSUME TypeOK, NEW w \in Workers, hand[w].pc # "idle", RetryOrGiveUp(w)
  PROVE  /\ hand' \in [Actors -> Hands]
         /\ queue' \subseteq {j \in Jobs : j.task \in MessageTasks}
<1>1. hand[w].job \in Jobs
  BY ActorTypes, BusyHand
<1>2. hand' \in [Actors -> Hands]
  BY ActorTypes, GotoType DEF RetryOrGiveUp, Hands
<1>3. CASE hand[w].job.attempt < MaxAttempts /\ Enqueue(Job("fetch", hand[w].job.order, hand[w].job.attempt + 1))
  <2>1. /\ hand[w].job.order \in Orders
        /\ hand[w].job.attempt + 1 \in 0..MaxAttempts
    BY <1>1, <1>3, LedgerAssumption DEF Jobs
  <2>2. QED
    BY <1>2, <1>3, <2>1, JobType DEF Enqueue, TypeOK, Tasks, MessageTasks
<1>4. CASE UNCHANGED queue
  BY <1>2, <1>4 DEF TypeOK
<1>5. QED
  BY <1>3, <1>4 DEF RetryOrGiveUp

LEMMA EnqueueType ==
  ASSUME TypeOK, NEW t \in MessageTasks, NEW o \in Orders, NEW k \in 0..MaxAttempts,
         Enqueue(Job(t, o, k))
  PROVE  queue' \subseteq {j \in Jobs : j.task \in MessageTasks}
BY JobType DEF Enqueue, TypeOK, Tasks

LEMMA CountType ==
  ASSUME NEW f \in [Orders -> Nat], NEW o \in Orders
  PROVE  [f EXCEPT ![o] = @ + 1] \in [Orders -> Nat]
OBVIOUS

LEMMA StartType ==
  ASSUME NEW t \in Tasks, NEW o \in Orders, NEW saw \in BOOLEAN,
         NEW pc \in {"picked", "won"}, NEW answer \in Answers
  PROVE  At(pc, Job(t, o, 0), saw, answer) \in Busy
<1>1. 0 \in 0..MaxAttempts
  BY LedgerAssumption
<1>2. Job(t, o, 0) \in Jobs
  BY <1>1, JobType
<1>3. QED
  BY <1>2, AtType

LEMMA TypeInit == Init => TypeOK
<1> SUFFICES ASSUME Init PROVE TypeOK
  OBVIOUS
<1>1. /\ state \in [Orders -> States]
      /\ exchange \in [Orders -> ExchangeStates]
      /\ hand \in [Actors -> {Idle} \cup Busy]
  BY DEF Init, States, ExchangeStates
<1>2. queue = {} /\ events = {} /\ misreported = {} /\ conditional \subseteq Orders
  BY DEF Init
<1>3. /\ hasId \in [Orders -> BOOLEAN]
      /\ request \in [Orders -> {"none", "saved", "counted", "done"}]
      /\ creates \in [Orders -> Nat]
      /\ effects \in [Orders -> Nat]
  BY DEF Init
<1>4. gauge = 0 /\ drift = 0 /\ faults = 0
  BY DEF Init
<1>5. barred \in BOOLEAN
  <2>1. barred = FALSE
    BY DEF Init
  <2>2. QED
    BY <2>1
<1>6. QED
  BY <1>1, <1>2, <1>3, <1>4, <1>5 DEF TypeOK

LEMMA TypeStep == TypeOK /\ [Next]_vars => TypeOK'
<1> SUFFICES ASSUME TypeOK, [Next]_vars
             PROVE  TypeOK'
  OBVIOUS
<1> USE ActorTypes
<1>1. ASSUME NEW o \in Orders, RequestNext(o)
      PROVE  TypeOK'
  <2>1. CASE SaveOrder(o)
    BY <2>1 DEF SaveOrder, TypeOK, States, Active
  <2>2. CASE CountOrder(o)
    BY <2>2 DEF CountOrder, TypeOK
  <2>3. CASE DispatchOrder(o)
    <3>1. queue' \subseteq {j \in Jobs : j.task \in MessageTasks}
      BY <2>3, EnqueueType, LedgerAssumption DEF DispatchOrder, MessageTasks
    <3>2. QED
      BY <2>3, <3>1 DEF DispatchOrder, TypeOK
  <2>4. CASE LoseRequest(o)
    BY <2>4 DEF LoseRequest, Fault, TypeOK
  <2>5. QED
    BY <1>1, <2>1, <2>2, <2>3, <2>4 DEF RequestNext
<1>2. ASSUME NEW o \in Orders, RequestCancel(o)
      PROVE  TypeOK'
  <2>1. hand' \in [Actors -> Hands]
    <3>1. CASE UNCHANGED hand
      BY <3>1 DEF TypeOK, Hands
    <3>2. CASE Goto(Web, At("picked", Job("userCancel", o, 0), FALSE, "none"))
      <4>1. At("picked", Job("userCancel", o, 0), FALSE, "none") \in Busy
        BY StartType DEF Tasks, Answers
      <4>2. QED
        BY <3>2, <4>1, GotoType DEF Hands
    <3>3. QED
      BY <1>2, <3>1, <3>2 DEF RequestCancel
  <2>2. queue' \subseteq {j \in Jobs : j.task \in MessageTasks}
    <3>1. CASE UNCHANGED queue
      BY <3>1 DEF TypeOK
    <3>2. CASE Enqueue(Job("cancel", o, 0))
      BY <3>2, EnqueueType, LedgerAssumption DEF MessageTasks
    <3>3. QED
      BY <1>2, <3>1, <3>2 DEF RequestCancel
  <2>3. QED
    BY <1>2, <2>1, <2>2 DEF RequestCancel, TypeOK, Hands
<1>3. ASSUME NEW o \in Orders, ScanNext(o)
      PROVE  TypeOK'
  <2>1. queue' \subseteq {j \in Jobs : j.task \in MessageTasks}
    BY <1>3, EnqueueType, LedgerAssumption
       DEF ScanNext, ScanPending, ScanSubmitted, MessageTasks
  <2>2. QED
    BY <1>3, <2>1 DEF ScanNext, ScanPending, ScanSubmitted, TypeOK
<1>4. ASSUME NEW w \in Workers, NEW j \in queue, Pick(w, j) \/ Skip(w, j)
      PROVE  TypeOK'
  <2>1. CASE Skip(w, j)
    BY <2>1 DEF Skip, TypeOK
  <2>2. CASE Pick(w, j)
    <3>1. j \in Jobs /\ hasId[j.order] \in BOOLEAN
      BY DEF TypeOK, Jobs
    <3>2. hand' \in [Actors -> Hands]
      BY <2>2, <3>1, AtType, GotoType DEF Pick, Hands, Answers
    <3>3. QED
      BY <2>2, <3>2 DEF Pick, TypeOK, Hands
  <2>3. QED
    BY <1>4, <2>1, <2>2
<1>5. ASSUME NEW w \in Workers, ExecuteNext(w)
      PROVE  TypeOK'
  <2>0. /\ hand[w] \in Busy
        /\ hand[w].job \in Jobs
        /\ OrderOf(w) \in Orders
        /\ hand[w].answer \in Answers
        /\ hand[w].pc # "idle"
    BY <1>5, BusyHand DEF ExecuteNext, PassChecks, RefuseBeforeClaim, ClaimOrder,
         RefuseAfterClaim, CreateAccepted, CreateRefused, CreateAnswerLost,
         RecordReceipt, StartWatchdog, Serving
  <2>1. CASE PassChecks(w)
    <3>1. hand' \in [Actors -> Hands]
      BY <2>0, <2>1, AdvanceType DEF PassChecks, Answers
    <3>2. QED
      BY <2>1, <3>1 DEF PassChecks, TypeOK, Hands
  <2>2. CASE RefuseBeforeClaim(w) \/ RefuseAfterClaim(w)
    <3>1. TransitionToRejected(w, OrderOf(w))
      BY <2>2 DEF RefuseBeforeClaim, RefuseAfterClaim
    <3>2. /\ state' \in [Orders -> States]
          /\ hand' \in [Actors -> Hands]
          /\ hasId' \in [Orders -> BOOLEAN]
      BY <2>0, <3>1, RecordEndType
    <3>3. QED
      BY <2>2, <3>2 DEF RefuseBeforeClaim, RefuseAfterClaim, TypeOK, Hands
  <2>3. CASE ClaimOrder(w)
    <3>1. hand' \in [Actors -> Hands]
      BY <2>0, <2>3, AdvanceType, GotoType DEF ClaimOrder, LoseRace, Hands, Answers
    <3>2. state' \in [Orders -> States]
      BY <2>0, <2>3 DEF ClaimOrder, LoseRace, TypeOK, States, Active
    <3>3. QED
      BY <2>3, <3>1, <3>2 DEF ClaimOrder, TypeOK, Hands
  <2>4. CASE CreateAccepted(w)
    <3>1. hand' \in [Actors -> Hands]
      BY <2>0, <2>4, AdvanceType DEF CreateAccepted, Answers, Terminal
    <3>2. creates' \in [Orders -> Nat]
      BY <2>0, <2>4, CountType DEF CreateAccepted, Called, TypeOK
    <3>3. QED
      BY <2>0, <2>4, <3>1, <3>2
         DEF CreateAccepted, Report, TypeOK, Hands, ExchangeStates, Terminal
  <2>5. CASE CreateRefused(w)
    <3>1. hand' \in [Actors -> Hands]
      BY <2>0, <2>5, AdvanceType DEF CreateRefused, Answers, Terminal
    <3>2. creates' \in [Orders -> Nat]
      BY <2>0, <2>5, CountType DEF CreateRefused, Called, TypeOK
    <3>3. QED
      BY <2>0, <2>5, <3>1, <3>2
         DEF CreateRefused, Report, TypeOK, Hands, ExchangeStates, Terminal
  <2>6. CASE CreateAnswerLost(w)
    <3>1. hand' \in [Actors -> Hands]
      BY <2>0, <2>6, AdvanceType DEF CreateAnswerLost, Answers
    <3>2. creates' \in [Orders -> Nat]
      BY <2>0, <2>6, CountType DEF CreateAnswerLost, Called, TypeOK
    <3>3. exchange' \in [Orders -> ExchangeStates]
      BY <2>0, <2>6 DEF CreateAnswerLost, TypeOK, ExchangeStates
    <3>4. misreported' \subseteq Orders
      BY <2>0, <2>6 DEF CreateAnswerLost, TypeOK
    <3>5. QED
      BY <2>6, <3>1, <3>2, <3>3, <3>4 DEF CreateAnswerLost, Fault, TypeOK, Hands
  <2>7. CASE RecordReceipt(w)
    <3>1. /\ state' \in [Orders -> States]
          /\ hand' \in [Actors -> Hands]
          /\ hasId' \in [Orders -> BOOLEAN]
      <4>1. CASE TransitionToFilled(w, OrderOf(w)) \/ TransitionToRejected(w, OrderOf(w))
        BY <2>0, <4>1, RecordEndType
      <4>2. CASE Advance(w, "attached", "none") /\ UNCHANGED state
        BY <2>0, <2>7, <4>2, AdvanceType DEF RecordReceipt, TypeOK, Answers,
           TransitionToFilled, TransitionToRejected
      <4>3. QED
        BY <2>7, <4>1, <4>2 DEF RecordReceipt
    <3>2. QED
      BY <2>7, <3>1 DEF RecordReceipt, TypeOK, Hands
  <2>8. CASE StartWatchdog(w)
    <3>1. queue' \subseteq {j \in Jobs : j.task \in MessageTasks}
      BY <2>0, <2>8, EnqueueType, LedgerAssumption DEF StartWatchdog, MessageTasks
    <3>2. hand' \in [Actors -> Hands]
      BY <2>8, GotoType DEF StartWatchdog, Hands
    <3>3. QED
      BY <2>8, <3>1, <3>2 DEF StartWatchdog, TypeOK, Hands
  <2>9. QED
    BY <1>5, <2>1, <2>2, <2>3, <2>4, <2>5, <2>6, <2>7, <2>8 DEF ExecuteNext
<1>6. ASSUME NEW w \in Workers, FetchNext(w) \/ CancelNext(w) \/ JanitorNext(w)
      PROVE  TypeOK'
  <2>0. /\ hand[w] \in Busy
        /\ hand[w].job \in Jobs
        /\ OrderOf(w) \in Orders
        /\ hand[w].answer \in Answers
        /\ hand[w].pc # "idle"
    BY <1>6, BusyHand DEF FetchNext, CancelNext, JanitorNext, FetchAnswered,
         FetchFailed, RecordFetch, CancelAtExchange, CancelFailed, RecordCancel,
         ProbeByClientId, ProbeMisses, RecordProbe, Serving
  <2>a. /\ exchange[OrderOf(w)] \in Answers \cup {"open"}
        /\ (IF exchange[OrderOf(w)] = "open" THEN "submitted"
            ELSE exchange[OrderOf(w)]) \in Answers
    BY <2>0 DEF TypeOK, Answers, ExchangeStates, Terminal
  <2>1. CASE FetchAnswered(w) \/ ProbeByClientId(w) \/ ProbeMisses(w)
    <3>1. hand' \in [Actors -> Hands]
      BY <2>0, <2>a, <2>1, AdvanceType, GotoType
         DEF FetchAnswered, ProbeByClientId, ProbeMisses, Answers, Hands
    <3>2. QED
      BY <2>0, <2>1, <3>1
         DEF FetchAnswered, ProbeByClientId, ProbeMisses, Fault, TypeOK, Hands
  <2>2. CASE FetchFailed(w)
    BY <2>0, <2>2, FetchJobType DEF FetchFailed, Fault, TypeOK, Hands
  <2>3. CASE RecordFetch(w)
    <3>1. CASE RetryOrGiveUp(w) /\ UNCHANGED <<state, hasId>>
      BY <2>0, <2>3, <3>1, FetchJobType DEF RecordFetch, TypeOK, Hands
    <3>2. CASE RecordEnd(w, OrderOf(w), hand[w].answer) /\ UNCHANGED queue
      <4>1. \E end \in Terminal : RecordEnd(w, OrderOf(w), end)
        BY <3>2 DEF RecordEnd, Terminal
      <4>2. QED
        BY <2>0, <2>3, <3>2, <4>1, RecordEndType DEF RecordFetch, TypeOK, Hands
    <3>3. QED
      BY <2>3, <3>1, <3>2 DEF RecordFetch
  <2>4. CASE CancelAtExchange(w)
    <3>1. hand' \in [Actors -> Hands]
      BY <2>0, <2>4, AdvanceType, GotoType
         DEF CancelAtExchange, Answers, Terminal, Hands
    <3>2. QED
      BY <2>0, <2>4, <3>1
         DEF CancelAtExchange, Report, Fault, TypeOK, Hands, ExchangeStates, Terminal
  <2>5. CASE CancelFailed(w)
    <3>1. hand' \in [Actors -> Hands]
      BY <2>5, GotoType DEF CancelFailed, Hands
    <3>2. QED
      BY <2>5, <3>1 DEF CancelFailed, Fault, TypeOK, Hands
  <2>6. CASE RecordCancel(w)
    BY <2>0, <2>6, RecordEndType DEF RecordCancel, TypeOK, Hands
  <2>7. CASE RecordProbe(w)
    <3>1. /\ state' \in [Orders -> States]
          /\ hand' \in [Actors -> Hands]
          /\ hasId' \in [Orders -> BOOLEAN]
      <4>1. CASE \/ TransitionWithoutIdToRejected(w, OrderOf(w))
                 \/ TransitionToRejected(w, OrderOf(w))
        BY <2>0, <4>1, RecordEndType
      <4>2. CASE /\ Goto(w, Idle)
                 /\ hasId' = IF ~hand[w].saw /\ Attachable(OrderOf(w))
                             THEN [hasId EXCEPT ![OrderOf(w)] = TRUE] ELSE hasId
                 /\ UNCHANGED state
        BY <4>2, GotoType DEF TypeOK, Hands
      <4>3. CASE RecordEnd(w, OrderOf(w), hand[w].answer)
        <5>1. \E end \in Terminal : RecordEnd(w, OrderOf(w), end)
          BY <4>3 DEF RecordEnd, Terminal
        <5>2. QED
          BY <2>0, <5>1, RecordEndType
      <4>4. QED
        BY <2>7, <4>1, <4>2, <4>3 DEF RecordProbe
    <3>2. QED
      BY <2>7, <3>1 DEF RecordProbe, TypeOK, Hands
  <2>8. QED
    BY <1>6, <2>1, <2>2, <2>3, <2>4, <2>5, <2>6, <2>7
       DEF FetchNext, CancelNext, JanitorNext
<1>7. ASSUME NEW w \in Workers, NEW o \in Orders, StartJanitor(w, o)
      PROVE  TypeOK'
  <2>0. hasId[o] \in BOOLEAN
    BY DEF TypeOK
  <2>1. At("picked", Job("janitor", o, 0), hasId[o], "none") \in Busy
    BY <2>0, StartType DEF Tasks, Answers
  <2>2. hand' \in [Actors -> Hands]
    BY <1>7, <2>1, GotoType DEF StartJanitor, Hands
  <2>3. QED
    BY <1>7, <2>2 DEF StartJanitor, TypeOK, Hands
<1>8. ASSUME RecordUserCancel
      PROVE  TypeOK'
  <2>1. hand[Web].pc # "idle" /\ OrderOf(Web) \in Orders
    BY <1>8, BusyHand DEF RecordUserCancel, Serving
  <2>2. QED
    BY <1>8, <2>1, RecordEndType DEF RecordUserCancel, TypeOK, Hands
<1>9. ASSUME OwnerLeaves
      PROVE  TypeOK'
  BY <1>9 DEF OwnerLeaves, TypeOK
<1>10. ASSUME StreamNext
       PROVE  TypeOK'
  <2>1. /\ hand[Stream].pc # "idle"
        /\ OrderOf(Stream) \in Orders
        /\ hand[Stream].answer \in Answers
    BY <1>10, BusyHand DEF StreamNext, FetchSnapshot, RecordSnapshot, Serving
  <2>2. CASE FetchSnapshot
    <3>1. hand' \in [Actors -> Hands]
      BY <2>1, <2>2, AdvanceType, GotoType DEF FetchSnapshot, Answers, Hands
    <3>2. QED
      BY <2>2, <3>1 DEF FetchSnapshot, TypeOK, Hands
  <2>3. CASE RecordSnapshot
    <3>1. \E end \in Terminal : RecordEnd(Stream, OrderOf(Stream), end)
      BY <2>3 DEF RecordSnapshot, RecordEnd, Terminal
    <3>2. QED
      BY <2>1, <2>3, <3>1, RecordEndType DEF RecordSnapshot, TypeOK, Hands
  <2>4. QED
    BY <1>10, <2>2, <2>3 DEF StreamNext
<1>11. ASSUME NEW o \in Orders, StartReconcile(o)
       PROVE  TypeOK'
  <2>1. At("picked", Job("reconcile", o, 0), FALSE, "none") \in Busy
    BY StartType DEF Tasks, Answers
  <2>2. hand' \in [Actors -> Hands]
    BY <1>11, <2>1, GotoType DEF StartReconcile, Hands
  <2>3. QED
    BY <1>11, <2>2 DEF StartReconcile, TypeOK, Hands
<1>12. ASSUME NEW o \in Orders, NEW end \in Terminal,
              HandleEvent(o, end) \/ LoseEvent(o, end) \/ ExchangeEnds(o, end)
       PROVE  TypeOK'
  <2>1. CASE HandleEvent(o, end)
    <3>1. At("won", Job("event", o, 0), FALSE, end) \in Busy
      BY StartType DEF Tasks, Answers
    <3>2. hand' \in [Actors -> Hands]
      BY <2>1, <3>1, GotoType DEF HandleEvent, TypeOK, Hands
    <3>3. QED
      BY <2>1, <3>2 DEF HandleEvent, TypeOK, Hands, States
  <2>2. CASE LoseEvent(o, end)
    BY <2>2 DEF LoseEvent, TypeOK
  <2>3. CASE ExchangeEnds(o, end)
    BY <2>3 DEF ExchangeEnds, Report, TypeOK, ExchangeStates
  <2>4. QED
    BY <1>12, <2>1, <2>2, <2>3
<1>13. ASSUME NEW a \in Actors, RunEffects(a) \/ Crash(a)
       PROVE  TypeOK'
  <2>1. hand[a].pc # "idle" /\ OrderOf(a) \in Orders /\ hand[a].job \in Jobs
    <3>1. hand[a].pc # "idle"
      BY <1>13 DEF RunEffects, Crash, TypeOK, Idle, Busy
    <3>2. QED
      BY <3>1, BusyHand
  <2>2. hand' \in [Actors -> Hands]
    BY <1>13, GotoType DEF RunEffects, Crash, Hands
  <2>3. CASE RunEffects(a)
    <3>1. effects' \in [Orders -> Nat]
      BY <2>1, <2>3, CountType DEF RunEffects, TypeOK
    <3>2. QED
      BY <2>2, <2>3, <3>1 DEF RunEffects, Decrement, TypeOK, Hands
  <2>4. CASE Crash(a)
    BY <2>1, <2>2, <2>4 DEF Crash, Fault, TypeOK, Hands
  <2>5. QED
    BY <1>13, <2>3, <2>4
<1>14. CASE UNCHANGED vars
  BY <1>14 DEF vars, TypeOK
<1>15. QED
  BY <1>1, <1>2, <1>3, <1>4, <1>5, <1>6, <1>7, <1>8, <1>9, <1>10, <1>11, <1>12,
     <1>13, <1>14 DEF Next

\* Every variable keeps its type, with the record of each handler in progress:
\* what the code's column types and task signatures promise.
THEOREM TypeCorrect == Spec => []TypeOK
BY TypeInit, TypeStep, PTL DEF Spec

-----------------------------------------------------------------------------
(* At most one create_order.  AtMostOneCreate is not inductive: a second     *)
(* handler that has claimed the row would break it in one step.  CreateInv   *)
(* adds what makes the claim exclusive: the row leaves pending when it is    *)
(* claimed, nothing was sent before that, and one handler holds the claim.   *)

Claimed(w) == Serving(w, "execute", "claimed")
Early == {"none", "pending"}

Unsaved == \A o \in Orders : request[o] = "none" => state[o] = "none"
EarlyUnsent == \A o \in Orders : state[o] \in Early => creates[o] = 0
ClaimedUnsent ==
  \A w \in Workers : Claimed(w) => /\ creates[OrderOf(w)] = 0
                                  /\ state[OrderOf(w)] \notin Early
OneClaimant ==
  \A v, w \in Workers :
    Claimed(v) /\ Claimed(w) /\ OrderOf(v) = OrderOf(w) => v = w

CreateInv ==
  /\ Unsaved
  /\ EarlyUnsent
  /\ ClaimedUnsent
  /\ OneClaimant
  /\ AtMostOneCreate

(* Most steps are quiet: they move rows out of an active state only, take no *)
(* claim and send nothing.                                                   *)
Moves ==
  \A o \in Orders :
    /\ state'[o] = state[o] \/ (state[o] \in Active /\ state'[o] \notin Early)
    /\ hasId'[o] = hasId[o] \/ state[o] \in Active

Keeps ==
  \A w \in Workers : Claimed(w)' => Claimed(w) /\ OrderOf(w)' = OrderOf(w)

CreatesStill ==
  /\ Moves
  /\ Keeps
  /\ creates' = creates
  /\ \A o \in Orders : request'[o] = "none" => request[o] = "none"

LEMMA GotoKeeps ==
  ASSUME TypeOK, NEW a \in Actors, NEW h, h.pc # "claimed", Goto(a, h)
  PROVE  Keeps
BY ActorTypes DEF TypeOK, Goto, Keeps, Claimed, Serving, OrderOf

LEMMA IdleKeeps ==
  ASSUME TypeOK, NEW a \in Actors, Goto(a, Idle)
  PROVE  Keeps
BY GotoKeeps DEF Idle

LEMMA AdvanceKeeps ==
  ASSUME TypeOK, NEW a \in Actors, hand[a].pc # "idle",
         NEW pc, pc # "claimed", NEW answer, Advance(a, pc, answer)
  PROVE  Keeps
<1>1. [hand[a] EXCEPT !.pc = pc, !.answer = answer].pc = pc
  BY BusyHand DEF Busy
<1>2. QED
  BY <1>1, GotoKeeps DEF Advance

LEMMA StillMoves ==
  ASSUME UNCHANGED <<state, hasId>>
  PROVE  Moves
BY DEF Moves

LEMMA StillKeeps ==
  ASSUME UNCHANGED hand
  PROVE  Keeps
BY DEF Keeps, Claimed, Serving, OrderOf

LEMMA RecordEndQuiet ==
  ASSUME TypeOK, NEW a \in Actors, hand[a].pc # "idle", NEW o \in Orders,
         \/ \E end \in Terminal : RecordEnd(a, o, end)
         \/ TransitionToFilled(a, o)
         \/ TransitionToRejected(a, o)
         \/ TransitionToCancelled(a, o)
         \/ TransitionWithoutIdToRejected(a, o)
         \/ TransitionPendingToCancelled(a, o)
  PROVE  Moves /\ Keeps
<1>1. \/ TransitionToFilled(a, o)
      \/ TransitionToRejected(a, o)
      \/ TransitionToCancelled(a, o)
      \/ TransitionWithoutIdToRejected(a, o)
      \/ TransitionPendingToCancelled(a, o)
  BY DEF RecordEnd
<1>2. \/ LoseRace(a) /\ UNCHANGED hasId
      \/ \E end \in Terminal :
           /\ state[o] \in Active
           /\ Win(a, o, end)
           /\ hasId' = hasId \/ hasId' = [hasId EXCEPT ![o] = TRUE]
  BY <1>1 DEF TransitionToFilled, TransitionToRejected, TransitionToCancelled,
       TransitionWithoutIdToRejected, TransitionPendingToCancelled, Terminal,
       From, Active, WithoutId, UserCancellable
<1>3. CASE LoseRace(a) /\ UNCHANGED hasId
  BY <1>3, IdleKeeps, StillMoves DEF LoseRace
<1>4. ASSUME NEW end \in Terminal, state[o] \in Active, Win(a, o, end),
             hasId' = hasId \/ hasId' = [hasId EXCEPT ![o] = TRUE]
      PROVE  Moves /\ Keeps
  <2>1. Keeps
    BY <1>4, AdvanceKeeps DEF Win
  <2>2. Moves
    BY <1>4 DEF Win, Moves, TypeOK, Early, Terminal
  <2>3. QED
    BY <2>1, <2>2
<1>5. QED
  BY <1>2, <1>3, <1>4
\* Every step is quiet, or saves a row, claims one or sends one.
LEMMA StepCases ==
  ASSUME TypeOK, [Next]_vars
  PROVE  \/ CreatesStill
         \/ \E o \in Orders : SaveOrder(o)
         \/ \E w \in Workers : ClaimOrder(w)
         \/ \E w \in Workers :
              CreateAccepted(w) \/ CreateRefused(w) \/ CreateAnswerLost(w)
<1> USE ActorTypes
<1>1. ASSUME NEW o \in Orders,
             \/ CountOrder(o) \/ DispatchOrder(o) \/ LoseRequest(o)
             \/ ScanPending(o) \/ ScanSubmitted(o)
             \/ \E end \in Terminal : LoseEvent(o, end) \/ ExchangeEnds(o, end)
      PROVE  CreatesStill
  <2>1. /\ UNCHANGED <<state, hasId>>
        /\ UNCHANGED hand
        /\ creates' = creates
    BY <1>1 DEF CountOrder, DispatchOrder, LoseRequest, ScanPending,
         ScanSubmitted, LoseEvent, ExchangeEnds
  <2>2. request' = request \/ request' = [request EXCEPT ![o] = "counted"]
                           \/ request' = [request EXCEPT ![o] = "done"]
    BY <1>1 DEF CountOrder, DispatchOrder, LoseRequest, ScanPending,
         ScanSubmitted, LoseEvent, ExchangeEnds
  <2>3. QED
    BY <2>1, <2>2, StillMoves, StillKeeps DEF CreatesStill, TypeOK
<1>2. ASSUME NEW o \in Orders, RequestCancel(o)
      PROVE  CreatesStill
  <2>1. Keeps
    <3>1. CASE Goto(Web, At("picked", Job("userCancel", o, 0), FALSE, "none"))
      BY <3>1, GotoKeeps DEF At
    <3>2. QED
      BY <1>2, <3>1, StillKeeps DEF RequestCancel
  <2>2. QED
    BY <1>2, <2>1, StillMoves DEF RequestCancel, CreatesStill
<1>3. ASSUME NEW w \in Workers, NEW j \in queue, Pick(w, j) \/ Skip(w, j)
      PROVE  CreatesStill
  <2>1. Keeps
    <3>1. CASE Pick(w, j)
      BY <3>1, GotoKeeps DEF Pick, At
    <3>2. CASE Skip(w, j)
      BY <3>2, StillKeeps DEF Skip
    <3>3. QED
      BY <1>3, <3>1, <3>2
  <2>2. QED
    BY <1>3, <2>1, StillMoves DEF Pick, Skip, CreatesStill
<1>4. ASSUME NEW w \in Workers,
             \/ PassChecks(w) \/ StartWatchdog(w)
             \/ FetchAnswered(w) \/ FetchFailed(w)
             \/ CancelAtExchange(w) \/ CancelFailed(w)
             \/ ProbeByClientId(w) \/ ProbeMisses(w)
      PROVE  CreatesStill
  <2>1. hand[w].pc # "idle"
    BY <1>4 DEF PassChecks, StartWatchdog, FetchAnswered, FetchFailed,
         CancelAtExchange, CancelFailed, ProbeByClientId, ProbeMisses, Serving
  <2>2. \/ Goto(w, Idle)
        \/ \E answer : Advance(w, "checked", answer) \/ Advance(w, "answered", answer)
    BY <1>4 DEF PassChecks, StartWatchdog, FetchAnswered, FetchFailed,
         RetryOrGiveUp, CancelAtExchange, CancelFailed, ProbeByClientId, ProbeMisses
  <2>3. Keeps
    BY <2>1, <2>2, IdleKeeps, AdvanceKeeps
  <2>4. UNCHANGED <<state, hasId>> /\ UNCHANGED <<creates, request>>
    BY <1>4 DEF PassChecks, StartWatchdog, FetchAnswered, FetchFailed,
         CancelAtExchange, CancelFailed, ProbeByClientId, ProbeMisses
  <2>5. QED
    BY <2>3, <2>4, StillMoves DEF CreatesStill
<1>5. ASSUME NEW a \in Actors,
             \/ a \in Workers /\ (RefuseBeforeClaim(a) \/ RefuseAfterClaim(a)
                                 \/ RecordCancel(a))
             \/ a = Web /\ RecordUserCancel
             \/ a = Stream /\ RecordSnapshot
      PROVE  CreatesStill
  <2>1. hand[a].pc # "idle" /\ UNCHANGED <<creates, request>>
    BY <1>5 DEF RefuseBeforeClaim, RefuseAfterClaim, RecordCancel,
         RecordUserCancel, RecordSnapshot, Serving
  <2>2. OrderOf(a) \in Orders
    BY <2>1, BusyHand
  <2>3. \/ \E end \in Terminal : RecordEnd(a, OrderOf(a), end)
        \/ TransitionToRejected(a, OrderOf(a))
        \/ TransitionToCancelled(a, OrderOf(a))
        \/ TransitionPendingToCancelled(a, OrderOf(a))
    BY <1>5 DEF RefuseBeforeClaim, RefuseAfterClaim, RecordCancel,
         RecordUserCancel, RecordSnapshot, RecordEnd, Terminal
  <2>4. QED
    BY <2>1, <2>2, <2>3, RecordEndQuiet DEF CreatesStill
<1>6. ASSUME NEW w \in Workers, RecordReceipt(w) \/ RecordFetch(w) \/ RecordProbe(w)
      PROVE  CreatesStill
  <2>1. hand[w].pc # "idle" /\ UNCHANGED <<creates, request>>
    BY <1>6 DEF RecordReceipt, RecordFetch, RecordProbe, Serving
  <2>2. OrderOf(w) \in Orders
    BY <2>1, BusyHand
  <2>3. CASE \/ \E end \in Terminal : RecordEnd(w, OrderOf(w), end)
             \/ TransitionToFilled(w, OrderOf(w))
             \/ TransitionToRejected(w, OrderOf(w))
             \/ TransitionWithoutIdToRejected(w, OrderOf(w))
    BY <2>1, <2>2, <2>3, RecordEndQuiet DEF CreatesStill
  <2>4. CASE /\ UNCHANGED state
             /\ hasId' = hasId \/ /\ Attachable(OrderOf(w))
                                  /\ hasId' = [hasId EXCEPT ![OrderOf(w)] = TRUE]
             /\ Goto(w, Idle) \/ Advance(w, "attached", "none")
    <3>1. Keeps
      BY <2>1, <2>4, IdleKeeps, AdvanceKeeps
    <3>2. Moves
      BY <2>4 DEF Moves, Attachable, Active, TypeOK
    <3>3. QED
      BY <2>1, <3>1, <3>2 DEF CreatesStill
  <2>5. QED
    BY <1>6, <2>3, <2>4 DEF RecordReceipt, RecordFetch, RecordProbe, RecordEnd,
         RetryOrGiveUp, Terminal
<1>7. ASSUME NEW w \in Workers, NEW o \in Orders, StartJanitor(w, o)
      PROVE  CreatesStill
  <2>1. Keeps
    BY <1>7, GotoKeeps DEF StartJanitor, At
  <2>2. QED
    BY <1>7, <2>1, StillMoves DEF StartJanitor, CreatesStill
<1>8. ASSUME FetchSnapshot \/ OwnerLeaves \/ \E o \in Orders : StartReconcile(o)
      PROVE  CreatesStill
  <2>1. Keeps
    <3>1. CASE \E o \in Orders : StartReconcile(o)
      BY <3>1, GotoKeeps DEF StartReconcile, At
    <3>2. CASE FetchSnapshot
      BY <3>2, IdleKeeps, AdvanceKeeps DEF FetchSnapshot, Serving
    <3>3. CASE OwnerLeaves
      BY <3>3, StillKeeps DEF OwnerLeaves
    <3>4. QED
      BY <1>8, <3>1, <3>2, <3>3
  <2>2. QED
    BY <1>8, <2>1, StillMoves DEF StartReconcile, FetchSnapshot, OwnerLeaves, CreatesStill
<1>9. ASSUME NEW o \in Orders, NEW end \in Terminal, HandleEvent(o, end)
      PROVE  CreatesStill
  <2>1. Keeps
    <3>1. CASE Goto(Stream, At("won", Job("event", o, 0), FALSE, end))
      BY <3>1, GotoKeeps DEF At
    <3>2. QED
      BY <1>9, <3>1, StillKeeps DEF HandleEvent
  <2>2. Moves
    BY <1>9 DEF HandleEvent, Moves, From, Active, Early, Terminal, TypeOK
  <2>3. QED
    BY <1>9, <2>1, <2>2 DEF HandleEvent, CreatesStill
<1>10. ASSUME NEW a \in Actors, RunEffects(a) \/ Crash(a)
       PROVE  CreatesStill
  BY <1>10, IdleKeeps, StillMoves DEF RunEffects, Crash, CreatesStill
<1>11. CASE UNCHANGED vars
  BY <1>11, StillMoves, StillKeeps DEF vars, CreatesStill
<1>12. ASSUME NEW w \in Workers, ExecuteNext(w) \/ FetchNext(w) \/ CancelNext(w)
                                 \/ JanitorNext(w)
       PROVE  \/ CreatesStill
              \/ ClaimOrder(w)
              \/ CreateAccepted(w) \/ CreateRefused(w) \/ CreateAnswerLost(w)
  BY <1>12, <1>4, <1>5, <1>6 DEF ExecuteNext, FetchNext, CancelNext, JanitorNext
<1>13. CASE StreamNext \/ RecordUserCancel
  BY <1>13, <1>5, <1>8 DEF StreamNext
<1>14. CASE \E o \in Orders : RequestNext(o) \/ RequestCancel(o) \/ ScanNext(o)
  BY <1>14, <1>1, <1>2 DEF RequestNext, ScanNext
<1>15. CASE \E o \in Orders, end \in Terminal :
              HandleEvent(o, end) \/ LoseEvent(o, end) \/ ExchangeEnds(o, end)
  BY <1>15, <1>1, <1>9
<1>16. QED
  BY <1>3, <1>7, <1>8, <1>10, <1>11, <1>12, <1>13, <1>14, <1>15 DEF Next
LEMMA CreateInit == Init => CreateInv
BY DEF Init, CreateInv, Unsaved, EarlyUnsent, ClaimedUnsent, OneClaimant,
   AtMostOneCreate, Claimed, Serving, Idle, Actors

LEMMA CreateQuiet ==
  ASSUME TypeOK, TypeOK', CreateInv, CreatesStill
  PROVE  CreateInv'
<1>1. ASSUME NEW o \in Orders, state[o] \notin Early
      PROVE  state'[o] \notin Early
  BY <1>1 DEF CreatesStill, Moves
<1>2. ASSUME NEW o \in Orders, state'[o] \in Early
      PROVE  state'[o] = state[o]
  BY <1>2 DEF CreatesStill, Moves
<1>3. Unsaved'
  BY DEF CreateInv, Unsaved, CreatesStill, Moves, Active
<1>4. EarlyUnsent'
  BY <1>2 DEF CreateInv, EarlyUnsent, CreatesStill
<1>5. ClaimedUnsent'
  <2>1. ASSUME NEW w \in Workers, Claimed(w)'
        PROVE  (creates[OrderOf(w)] = 0 /\ state[OrderOf(w)] \notin Early)'
    <3>1. Claimed(w) /\ OrderOf(w)' = OrderOf(w) /\ creates' = creates
      BY <2>1 DEF CreatesStill, Keeps
    <3>2. OrderOf(w) \in Orders
      BY <3>1, BusyHand, ActorTypes DEF Claimed, Serving
    <3>3. creates[OrderOf(w)] = 0 /\ state[OrderOf(w)] \notin Early
      BY <3>1 DEF CreateInv, ClaimedUnsent
    <3>4. QED
      BY <1>1, <3>1, <3>2, <3>3
  <2>2. QED
    BY <2>1 DEF ClaimedUnsent
<1>6. OneClaimant'
  BY DEF CreateInv, OneClaimant, CreatesStill, Keeps
<1>7. AtMostOneCreate'
  BY DEF CreateInv, AtMostOneCreate, CreatesStill
<1>8. QED
  BY <1>3, <1>4, <1>5, <1>6, <1>7 DEF CreateInv

LEMMA CreateSave ==
  ASSUME TypeOK, CreateInv, NEW o \in Orders, SaveOrder(o)
  PROVE  CreateInv'
<1>1. /\ state' = [state EXCEPT ![o] = "pending"]
      /\ request' = [request EXCEPT ![o] = "saved"]
      /\ UNCHANGED <<creates, hand>>
      /\ state[o] = "none" /\ creates[o] = 0
  BY DEF SaveOrder, CreateInv, Unsaved, EarlyUnsent, Early
<1>2. Unsaved' /\ EarlyUnsent'
  BY <1>1 DEF CreateInv, Unsaved, EarlyUnsent, TypeOK
<1>3. ClaimedUnsent'
  <2>1. ASSUME NEW w \in Workers, Claimed(w)
        PROVE  OrderOf(w) # o /\ OrderOf(w) \in Orders
    BY <1>1, <2>1, BusyHand, ActorTypes
       DEF CreateInv, ClaimedUnsent, Early, Claimed, Serving
  <2>2. QED
    BY <1>1, <2>1 DEF CreateInv, ClaimedUnsent, Claimed, Serving, OrderOf, TypeOK
<1>4. OneClaimant' /\ AtMostOneCreate'
  BY <1>1 DEF CreateInv, OneClaimant, AtMostOneCreate, Claimed, Serving, OrderOf
<1>5. QED
  BY <1>2, <1>3, <1>4 DEF CreateInv

\* Only one handler finds the row pending, and nobody has claimed it then.
LEMMA CreateClaim ==
  ASSUME TypeOK, TypeOK', CreateInv, NEW w \in Workers, ClaimOrder(w)
  PROVE  CreateInv'
<1> DEFINE o == OrderOf(w)
<1>0. hand[w].pc = "checked" /\ o \in Orders /\ w \in Actors
  BY BusyHand, ActorTypes DEF ClaimOrder, Serving
<1>1. CASE LoseRace(w)
  <2>1. CreatesStill
    BY <1>0, <1>1, IdleKeeps, StillMoves DEF ClaimOrder, LoseRace, CreatesStill
  <2>2. QED
    BY <2>1, CreateQuiet
<1>2. CASE /\ Claimable(o)
           /\ state' = [state EXCEPT ![o] = "submitted"]
           /\ Advance(w, "claimed", "none")
  <2>1. creates[o] = 0 /\ state[o] = "pending"
    BY <1>0, <1>2 DEF Claimable, CreateInv, EarlyUnsent, Early
  <2>2. UNCHANGED <<creates, request>>
    BY DEF ClaimOrder
  <2>3. ASSUME NEW v \in Workers, v # w
        PROVE  hand'[v] = hand[v]
    BY <1>2, <2>3, ActorTypes DEF Advance, Goto, TypeOK
  <2>4. hand'[w].job = hand[w].job
    BY <1>0, <1>2, BusyHand DEF Advance, Goto, TypeOK, Busy
  <2>5. ASSUME NEW v \in Workers, Claimed(v)
        PROVE  OrderOf(v) # o /\ OrderOf(v) \in Orders
    BY <2>1, <2>5, BusyHand, ActorTypes
       DEF CreateInv, ClaimedUnsent, Early, Claimed, Serving
  <2>6. Unsaved' /\ EarlyUnsent'
    BY <1>0, <1>2, <2>1, <2>2 DEF CreateInv, Unsaved, EarlyUnsent, Early, TypeOK
  <2>7. ClaimedUnsent'
    <3>1. ASSUME NEW v \in Workers, Claimed(v)'
          PROVE  (creates[OrderOf(v)] = 0 /\ state[OrderOf(v)] \notin Early)'
      <4>1. CASE v = w
        BY <1>0, <1>2, <2>1, <2>2, <2>4, <4>1 DEF OrderOf, Early, TypeOK
      <4>2. CASE v # w
        <5>1. Claimed(v) /\ OrderOf(v)' = OrderOf(v)
          BY <2>3, <3>1, <4>2 DEF Claimed, Serving, OrderOf
        <5>2. state'[OrderOf(v)] = state[OrderOf(v)]
          BY <1>0, <1>2, <2>5, <5>1 DEF TypeOK
        <5>3. QED
          BY <2>2, <5>1, <5>2 DEF CreateInv, ClaimedUnsent
      <4>3. QED
        BY <4>1, <4>2
    <3>2. QED
      BY <3>1 DEF ClaimedUnsent
  <2>8. OneClaimant'
    <3>1. ASSUME NEW v \in Workers, v # w, Claimed(v)'
          PROVE  Claimed(v) /\ OrderOf(v)' = OrderOf(v) /\ OrderOf(v) # o
      BY <2>3, <2>5, <3>1 DEF Claimed, Serving, OrderOf
    <3>2. OrderOf(w)' = o
      BY <2>4 DEF OrderOf
    <3>3. QED
      BY <3>1, <3>2 DEF OneClaimant, CreateInv
  <2>9. AtMostOneCreate'
    BY <2>2 DEF CreateInv, AtMostOneCreate
  <2>10. QED
    BY <2>6, <2>7, <2>8, <2>9 DEF CreateInv
<1>3. QED
  BY <1>1, <1>2 DEF ClaimOrder
\* The one handler that holds the claim sends the order and gives it up.
LEMMA CreateSend ==
  ASSUME TypeOK, TypeOK', CreateInv, NEW w \in Workers,
         CreateAccepted(w) \/ CreateRefused(w) \/ CreateAnswerLost(w)
  PROVE  CreateInv'
<1> DEFINE o == OrderOf(w)
<1>1. Claimed(w) /\ hand[w].pc # "idle" /\ UNCHANGED <<state, hasId, request>>
  BY DEF CreateAccepted, CreateRefused, CreateAnswerLost, Claimed, Serving
<1>2. o \in Orders /\ w \in Actors
  BY <1>1, BusyHand, ActorTypes
<1>3. creates' = [creates EXCEPT ![o] = @ + 1]
  BY DEF CreateAccepted, CreateRefused, CreateAnswerLost, Called
<1>4. creates[o] = 0 /\ state[o] \notin Early
  BY <1>1 DEF CreateInv, ClaimedUnsent
<1>5. \E answer : Advance(w, "answered", answer)
  BY DEF CreateAccepted, CreateRefused, CreateAnswerLost
<1>6. Keeps
  BY <1>1, <1>2, <1>5, AdvanceKeeps
<1>7. ~Claimed(w)'
  <2>1. ASSUME NEW answer, Advance(w, "answered", answer)
        PROVE  hand'[w].pc = "answered"
    BY <1>1, <1>2, <2>1, BusyHand DEF Advance, Goto, TypeOK, Busy
  <2>2. QED
    BY <1>5, <2>1 DEF Claimed, Serving
<1>8. Unsaved' /\ EarlyUnsent'
  BY <1>1, <1>2, <1>3, <1>4 DEF CreateInv, Unsaved, EarlyUnsent, TypeOK
<1>9. ClaimedUnsent'
  <2>1. ASSUME NEW v \in Workers, Claimed(v)'
        PROVE  (creates[OrderOf(v)] = 0 /\ state[OrderOf(v)] \notin Early)'
    <3>1. Claimed(v) /\ OrderOf(v)' = OrderOf(v) /\ v # w
      BY <1>6, <1>7, <2>1 DEF Keeps
    <3>2. OrderOf(v) # o /\ OrderOf(v) \in Orders
      BY <1>1, <3>1, BusyHand, ActorTypes
         DEF CreateInv, OneClaimant, Claimed, Serving
    <3>3. creates'[OrderOf(v)] = creates[OrderOf(v)]
      BY <1>2, <1>3, <3>2 DEF TypeOK
    <3>4. QED
      BY <1>1, <3>1, <3>3 DEF CreateInv, ClaimedUnsent
  <2>2. QED
    BY <2>1 DEF ClaimedUnsent
<1>10. OneClaimant'
  BY <1>6 DEF CreateInv, OneClaimant, Keeps
<1>11. AtMostOneCreate'
  BY <1>2, <1>3, <1>4 DEF CreateInv, AtMostOneCreate, TypeOK
<1>12. QED
  BY <1>8, <1>9, <1>10, <1>11 DEF CreateInv

LEMMA CreateStep ==
  TypeOK /\ TypeOK' /\ CreateInv /\ [Next]_vars => CreateInv'
BY StepCases, CreateQuiet, CreateSave, CreateClaim, CreateSend

\* However often the scanner dispatches a row again and the broker delivers the
\* message again, and whichever process dies, create_order is called at most
\* once for an order: transition_to_submitted lets one delivery through.
THEOREM CreatedOnce == Spec => []AtMostOneCreate
<1>1. CreateInv => AtMostOneCreate
  BY DEF CreateInv
<1>2. QED
  BY <1>1, TypeInit, TypeStep, CreateInit, CreateStep, PTL DEF Spec

-----------------------------------------------------------------------------
LEMMA FinalStep ==
  ASSUME TypeOK, CreateInv, [Next]_vars, NEW o \in Orders, state[o] \in Terminal
  PROVE  state'[o] = state[o] /\ hasId'[o] = hasId[o]
<1> USE DEF Terminal, Active
<1>1. CASE CreatesStill
  BY <1>1 DEF CreatesStill, Moves
<1>2. ASSUME NEW p \in Orders, SaveOrder(p)
      PROVE  state'[o] = state[o] /\ hasId'[o] = hasId[o]
  BY <1>2 DEF SaveOrder, CreateInv, Unsaved, TypeOK
<1>3. ASSUME NEW w \in Workers, ClaimOrder(w)
      PROVE  state'[o] = state[o] /\ hasId'[o] = hasId[o]
  BY <1>3 DEF ClaimOrder, Claimable, LoseRace, TypeOK
<1>4. ASSUME NEW w \in Workers,
             CreateAccepted(w) \/ CreateRefused(w) \/ CreateAnswerLost(w)
      PROVE  state'[o] = state[o] /\ hasId'[o] = hasId[o]
  BY <1>4 DEF CreateAccepted, CreateRefused, CreateAnswerLost
<1>5. QED
  BY <1>1, <1>2, <1>3, <1>4, StepCases

\* A row that ended keeps its state and its exchange id, whichever of the seven
\* writers comes late: every conditional UPDATE names the states it leaves.
THEOREM EndIsFinal == Spec => TerminalIsFinal
<1>1. TypeOK /\ CreateInv /\ [Next]_vars
        => [\A o \in Orders : state[o] \in Terminal =>
             state'[o] = state[o] /\ hasId'[o] = hasId[o]]_vars
  BY FinalStep
<1>2. QED
  BY <1>1, TypeInit, TypeStep, CreateInit, CreateStep, PTL DEF Spec, TerminalIsFinal

-----------------------------------------------------------------------------
(***************************************************************************)
(* The end of an order.                                                    *)
(***************************************************************************)
(* EndCountedOnce is about cardinalities.  EndInv says the same of single    *)
(* handlers: at most one of them has won the row of an order, the row has    *)
(* ended then, and its side effects have not run yet.                        *)

Won(a) == hand[a].pc = "won"
ActiveRows == {o \in Orders : state[o] \in Active}
SavedRows  == {o \in Orders : request[o] = "saved"}
Owing      == {a \in Actors : Won(a)}

OneWinner ==
  \A a, b \in Actors : Won(a) /\ Won(b) /\ OrderOf(a) = OrderOf(b) => a = b
WonIsEnded ==
  \A a \in Actors : Won(a) => /\ state[OrderOf(a)] \in Terminal
                             /\ effects[OrderOf(a)] = 0
RanOnce ==
  \A o \in Orders : /\ effects[o] <= 1
                    /\ effects[o] = 1 => state[o] \in Terminal
CountsFinite ==
  IsFiniteSet(ActiveRows) /\ IsFiniteSet(SavedRows) /\ IsFiniteSet(Owing)

EndInv ==
  /\ OneWinner
  /\ WonIsEnded
  /\ RanOnce
  /\ CountsFinite
  /\ GaugeBalance

(* What a step may do to what EndInv speaks of. *)

HandStill ==
  \A a \in Actors : /\ hand'[a].pc = "won" <=> hand[a].pc = "won"
                    /\ Won(a) => OrderOf(a)' = OrderOf(a)
RowsStill ==
  \A o \in Orders : /\ state'[o] \in Active <=> state[o] \in Active
                    /\ state[o] \in Terminal => state'[o] = state[o]
RequestsStill ==
  \A o \in Orders : request'[o] = "saved" <=> request[o] = "saved"
CountersStill == UNCHANGED <<gauge, drift, effects>>

Still == HandStill /\ RowsStill /\ RequestsStill /\ CountersStill

\* Actor a wins the conditional UPDATE that ends the row of o.
Wins(a, o) ==
  /\ ~Won(a)
  /\ hand'[a].pc = "won" /\ OrderOf(a)' = o
  /\ \A b \in Actors \ {a} : hand'[b] = hand[b]
  /\ state[o] \in Active /\ state'[o] \in Terminal
  /\ \A p \in Orders \ {o} : state'[p] = state[p]
  /\ RequestsStill
  /\ CountersStill

LEMMA GotoStill ==
  ASSUME TypeOK, NEW a \in Actors, ~Won(a), NEW h, h.pc # "won", Goto(a, h)
  PROVE  HandStill
BY DEF TypeOK, Goto, HandStill, Won, OrderOf

LEMMA IdleStill ==
  ASSUME TypeOK, NEW a \in Actors, ~Won(a), Goto(a, Idle)
  PROVE  HandStill
BY GotoStill DEF Idle

LEMMA AdvanceStill ==
  ASSUME TypeOK, NEW a \in Actors, hand[a].pc # "idle", ~Won(a),
         NEW pc, pc # "won", NEW answer, Advance(a, pc, answer)
  PROVE  HandStill
<1>1. [hand[a] EXCEPT !.pc = pc, !.answer = answer].pc = pc
  BY BusyHand DEF Busy
<1>2. QED
  BY <1>1, GotoStill DEF Advance

LEMMA SameHands == ASSUME UNCHANGED hand PROVE HandStill
BY DEF HandStill, Won, OrderOf

LEMMA SameRows == ASSUME UNCHANGED state PROVE RowsStill
BY DEF RowsStill

LEMMA SameRequests == ASSUME UNCHANGED request PROVE RequestsStill
BY DEF RequestsStill

\* A conditional UPDATE is won or lost, and only the winner owes side effects.
LEMMA EndOutcome ==
  ASSUME TypeOK, NEW a \in Actors, hand[a].pc # "idle", ~Won(a),
         NEW o \in Orders, o = OrderOf(a),
         \/ \E end \in Terminal : RecordEnd(a, o, end)
         \/ TransitionToFilled(a, o)
         \/ TransitionToRejected(a, o)
         \/ TransitionToCancelled(a, o)
         \/ TransitionWithoutIdToRejected(a, o)
         \/ TransitionPendingToCancelled(a, o),
         UNCHANGED <<request, gauge, drift, effects>>
  PROVE  Still \/ Wins(a, o)
<1>1. \/ LoseRace(a)
      \/ \E end \in Terminal : state[o] \in Active /\ Win(a, o, end)
  BY DEF RecordEnd, TransitionToFilled, TransitionToRejected, TransitionToCancelled,
       TransitionWithoutIdToRejected, TransitionPendingToCancelled, Terminal,
       From, Active, WithoutId, UserCancellable
<1>2. CASE LoseRace(a)
  BY <1>2, IdleStill, SameRows, SameRequests DEF LoseRace, Still, CountersStill
<1>3. ASSUME NEW end \in Terminal, state[o] \in Active, Win(a, o, end)
      PROVE  Wins(a, o)
  <2>1. hand'[a] = [hand[a] EXCEPT !.pc = "won", !.answer = end]
    BY <1>3 DEF Win, Advance, Goto, TypeOK
  <2>2. hand'[a].pc = "won" /\ OrderOf(a)' = o
    BY <2>1, BusyHand DEF Busy, OrderOf
  <2>3. \A b \in Actors \ {a} : hand'[b] = hand[b]
    BY <1>3 DEF Win, Advance, Goto, TypeOK
  <2>4. state'[o] = end /\ \A p \in Orders \ {o} : state'[p] = state[p]
    BY <1>3 DEF Win, TypeOK
  <2>5. QED
    BY <1>3, <2>2, <2>3, <2>4, SameRequests DEF Wins, CountersStill
<1>4. QED
  BY <1>1, <1>2, <1>3

\* Every step leaves all of that alone, or is one of five that count.
LEMMA EndCases ==
  ASSUME TypeOK, [Next]_vars
  PROVE  \/ Still
         \/ \E a \in Actors, o \in Orders : Wins(a, o)
         \/ \E o \in Orders : SaveOrder(o) \/ CountOrder(o)
         \/ \E o \in Orders : LoseRequest(o)
         \/ \E a \in Actors : Won(a) /\ (RunEffects(a) \/ Crash(a))
<1> USE ActorTypes
<1>1. ASSUME NEW o \in Orders,
             \/ DispatchOrder(o) \/ ScanPending(o) \/ ScanSubmitted(o)
             \/ \E end \in Terminal : LoseEvent(o, end) \/ ExchangeEnds(o, end)
      PROVE  Still
  <2>1. UNCHANGED state /\ UNCHANGED hand /\ CountersStill
    BY <1>1 DEF DispatchOrder, ScanPending, ScanSubmitted, LoseEvent,
         ExchangeEnds, CountersStill
  <2>2. RequestsStill
    BY <1>1, SameRequests DEF DispatchOrder, ScanPending, ScanSubmitted, LoseEvent,
       ExchangeEnds, RequestsStill, TypeOK
  <2>3. QED
    BY <2>1, <2>2, SameHands, SameRows DEF Still
<1>2. ASSUME NEW a \in Actors,
             \/ \E o \in Orders :
                  \/ a = Web /\ RequestCancel(o)
                  \/ a = Stream /\ StartReconcile(o)
                  \/ a \in Workers /\ StartJanitor(a, o)
             \/ \E j \in queue : a \in Workers /\ (Pick(a, j) \/ Skip(a, j))
             \/ OwnerLeaves
      PROVE  Still
  <2>1. HandStill
    <3>1. CASE UNCHANGED hand
      BY <3>1, SameHands
    <3>2. CASE hand[a] = Idle /\ \E h : h.pc = "picked" /\ Goto(a, h)
      BY <3>2, GotoStill DEF Idle, Won
    <3>3. QED
      BY <1>2, <3>1, <3>2 DEF RequestCancel, StartReconcile, StartJanitor, Pick,
         Skip, OwnerLeaves, At
  <2>2. UNCHANGED <<state, request>> /\ CountersStill
    BY <1>2 DEF RequestCancel, StartReconcile, StartJanitor, Pick, Skip,
       OwnerLeaves, CountersStill
  <2>3. QED
    BY <2>1, <2>2, SameRows, SameRequests DEF Still
<1>3. ASSUME NEW a \in Actors,
             \/ a = Stream /\ FetchSnapshot
             \/ /\ a \in Workers
                /\ \/ PassChecks(a) \/ StartWatchdog(a)
                   \/ CreateAccepted(a) \/ CreateRefused(a) \/ CreateAnswerLost(a)
                   \/ FetchAnswered(a) \/ FetchFailed(a)
                   \/ CancelAtExchange(a) \/ CancelFailed(a)
                   \/ ProbeByClientId(a) \/ ProbeMisses(a)
      PROVE  Still
  <2> USE DEF FetchSnapshot, PassChecks, StartWatchdog, CreateAccepted,
        CreateRefused, CreateAnswerLost, FetchAnswered, FetchFailed,
        CancelAtExchange, CancelFailed, ProbeByClientId, ProbeMisses
  <2>1. hand[a].pc # "idle" /\ ~Won(a)
    BY <1>3 DEF Serving, Won
  <2>2. \/ Goto(a, Idle)
        \/ \E answer : Advance(a, "checked", answer) \/ Advance(a, "answered", answer)
    BY <1>3 DEF RetryOrGiveUp
  <2>3. HandStill
    BY <2>1, <2>2, IdleStill, AdvanceStill
  <2>4. UNCHANGED <<state, request>> /\ CountersStill
    BY <1>3 DEF CountersStill
  <2>5. QED
    BY <2>3, <2>4, SameRows, SameRequests DEF Still
<1>4. ASSUME NEW a \in Actors,
             \/ a = Web /\ RecordUserCancel
             \/ a = Stream /\ RecordSnapshot
             \/ /\ a \in Workers
                /\ \/ RefuseBeforeClaim(a) \/ RefuseAfterClaim(a) \/ RecordCancel(a)
                   \/ RecordReceipt(a) \/ RecordFetch(a) \/ RecordProbe(a)
      PROVE  Still \/ Wins(a, OrderOf(a))
  <2> USE DEF RecordUserCancel, RecordSnapshot, RefuseBeforeClaim,
        RefuseAfterClaim, RecordCancel, RecordReceipt, RecordFetch, RecordProbe
  <2>1. hand[a].pc # "idle" /\ ~Won(a) /\ UNCHANGED <<request, gauge, drift, effects>>
    BY <1>4 DEF Serving, Won
  <2>2. OrderOf(a) \in Orders
    BY <2>1, BusyHand
  <2>3. CASE \/ \E end \in Terminal : RecordEnd(a, OrderOf(a), end)
             \/ TransitionToFilled(a, OrderOf(a))
             \/ TransitionToRejected(a, OrderOf(a))
             \/ TransitionToCancelled(a, OrderOf(a))
             \/ TransitionWithoutIdToRejected(a, OrderOf(a))
             \/ TransitionPendingToCancelled(a, OrderOf(a))
    BY <2>1, <2>2, <2>3, EndOutcome
  <2>4. CASE UNCHANGED state /\ (Goto(a, Idle) \/ Advance(a, "attached", "none"))
    <3>1. HandStill
      BY <2>1, <2>4, IdleStill, AdvanceStill
    <3>2. QED
      BY <2>1, <2>4, <3>1, SameRows, SameRequests DEF Still, CountersStill
  <2>5. CASE \/ a = Web /\ RecordUserCancel
             \/ a = Stream /\ RecordSnapshot
             \/ RefuseBeforeClaim(a) \/ RefuseAfterClaim(a) \/ RecordCancel(a)
    BY <2>3, <2>5 DEF RecordEnd, Terminal
  <2>6. CASE RecordReceipt(a)
    BY <2>3, <2>4, <2>6
  <2>7. CASE RecordFetch(a)
    BY <2>3, <2>4, <2>7 DEF RecordEnd, RetryOrGiveUp, Terminal
  <2>8. CASE RecordProbe(a)
    BY <2>3, <2>4, <2>8 DEF RecordEnd, Terminal
  <2>9. QED
    BY <1>4, <2>5, <2>6, <2>7, <2>8
<1>5. ASSUME NEW w \in Workers, ClaimOrder(w)
      PROVE  Still
  <2>1. hand[w].pc = "checked" /\ OrderOf(w) \in Orders
    BY <1>5, BusyHand DEF ClaimOrder, Serving
  <2>2. HandStill
    BY <1>5, <2>1, IdleStill, AdvanceStill DEF ClaimOrder, LoseRace, Won
  <2>3. RowsStill
    BY <1>5, <2>1 DEF ClaimOrder, LoseRace, Claimable, RowsStill, Active, Terminal, TypeOK
  <2>4. QED
    BY <1>5, <2>2, <2>3, SameRequests DEF ClaimOrder, Still, CountersStill
<1>6. ASSUME NEW o \in Orders, NEW end \in Terminal, HandleEvent(o, end)
      PROVE  Still \/ Wins(Stream, o)
  <2>1. UNCHANGED <<request, gauge, drift, effects>> /\ hand[Stream] = Idle
    BY <1>6 DEF HandleEvent
  <2>2. CASE UNCHANGED <<state, hasId, hand>>
    BY <2>1, <2>2, SameHands, SameRows, SameRequests DEF Still, CountersStill
  <2>3. CASE /\ state[o] \in From(end)
             /\ state' = [state EXCEPT ![o] = end]
             /\ Goto(Stream, At("won", Job("event", o, 0), FALSE, end))
    <3>1. hand'[Stream] = At("won", Job("event", o, 0), FALSE, end)
      BY <2>3 DEF Goto, TypeOK
    <3>2. ~Won(Stream) /\ hand'[Stream].pc = "won" /\ OrderOf(Stream)' = o
      BY <2>1, <3>1 DEF Won, Idle, At, Job, OrderOf
    <3>3. \A b \in Actors \ {Stream} : hand'[b] = hand[b]
      BY <2>3 DEF Goto, TypeOK
    <3>4. state'[o] = end /\ \A p \in Orders \ {o} : state'[p] = state[p]
      BY <2>3 DEF TypeOK
    <3>5. QED
      BY <2>1, <2>3, <3>2, <3>3, <3>4, SameRequests
         DEF Wins, CountersStill, From, Active
  <2>4. QED
    BY <1>6, <2>2, <2>3 DEF HandleEvent
<1>7. ASSUME NEW a \in Actors, Crash(a), ~Won(a)
      PROVE  Still
  <2>1. HandStill
    BY <1>7, IdleStill DEF Crash
  <2>2. QED
    BY <1>7, <2>1, SameRows, SameRequests DEF Crash, Still, CountersStill, Won
<1>8. CASE UNCHANGED vars
  BY <1>8, SameHands, SameRows, SameRequests DEF vars, Still, CountersStill
<1>9. ASSUME NEW a \in Actors, RunEffects(a)
      PROVE  Won(a)
  BY <1>9 DEF RunEffects, Won
<1>10. ASSUME NEW w \in Workers,
              ExecuteNext(w) \/ FetchNext(w) \/ CancelNext(w) \/ JanitorNext(w)
       PROVE  Still \/ \E a \in Actors, o \in Orders : Wins(a, o)
  <2>1. OrderOf(w) \in Orders
    BY <1>10, BusyHand DEF ExecuteNext, FetchNext, CancelNext, JanitorNext,
       PassChecks, RefuseBeforeClaim, ClaimOrder, RefuseAfterClaim,
       CreateAccepted, CreateRefused, CreateAnswerLost, RecordReceipt,
       StartWatchdog, FetchAnswered, FetchFailed, RecordFetch, CancelAtExchange,
       CancelFailed, RecordCancel, ProbeByClientId, ProbeMisses, RecordProbe, Serving
  <2>2. QED
    BY <1>10, <2>1, <1>3, <1>4, <1>5 DEF ExecuteNext, FetchNext, CancelNext, JanitorNext
<1>11. CASE StreamNext \/ RecordUserCancel
  <2>1. RecordSnapshot => OrderOf(Stream) \in Orders
    BY BusyHand DEF RecordSnapshot, Serving
  <2>2. RecordUserCancel => OrderOf(Web) \in Orders
    BY BusyHand DEF RecordUserCancel, Serving
  <2>3. QED
    BY <1>11, <2>1, <2>2, <1>3, <1>4 DEF StreamNext
<1>12. CASE \E o \in Orders : RequestNext(o) \/ RequestCancel(o) \/ ScanNext(o)
  BY <1>12, <1>1, <1>2 DEF RequestNext, ScanNext
<1>13. CASE \E o \in Orders, end \in Terminal :
              HandleEvent(o, end) \/ LoseEvent(o, end) \/ ExchangeEnds(o, end)
  BY <1>13, <1>1, <1>6
<1>14. CASE \/ \E w \in Workers : \E j \in queue : Pick(w, j) \/ Skip(w, j)
            \/ \E w \in Workers, o \in Orders : StartJanitor(w, o)
            \/ OwnerLeaves
            \/ \E o \in Orders : StartReconcile(o)
  BY <1>14, <1>2
<1>15. CASE \E a \in Actors : RunEffects(a) \/ Crash(a)
  BY <1>15, <1>7, <1>9
<1>16. QED
  BY <1>8, <1>10, <1>11, <1>12, <1>13, <1>14, <1>15 DEF Next


(* The five that count, and the step as a whole. *)

\* GaugeBalance with its sets named, and the same of the next state.
LEMMA BalanceIs ==
  /\ GaugeBalance <=> gauge = Cardinality(ActiveRows) - Cardinality(SavedRows)
                              + Cardinality(Owing) + drift
  /\ GaugeBalance' <=> gauge' = Cardinality(ActiveRows') - Cardinality(SavedRows')
                                + Cardinality(Owing') + drift'
BY DEF GaugeBalance, ActiveRows, SavedRows, Owing, Won

LEMMA EndInit == Init => EndInv
<1> SUFFICES ASSUME Init PROVE EndInv
  OBVIOUS
<1>1. ActiveRows = {} /\ SavedRows = {} /\ Owing = {}
  BY DEF Init, ActiveRows, SavedRows, Owing, Won, Idle, Active
<1>2. CountsFinite /\ GaugeBalance
  <2>1. gauge = 0 /\ drift = 0
    BY DEF Init
  <2>2. QED
    BY <1>1, <2>1, FS_EmptySet, BalanceIs DEF CountsFinite
<1>3. OneWinner /\ WonIsEnded /\ RanOnce
  BY DEF Init, OneWinner, WonIsEnded, RanOnce, Won, Idle
<1>4. QED
  BY <1>2, <1>3 DEF EndInv

LEMMA EndStill ==
  ASSUME TypeOK, EndInv, Still
  PROVE  EndInv'
<1>1. ActiveRows' = ActiveRows /\ SavedRows' = SavedRows /\ Owing' = Owing
  BY DEF Still, HandStill, RowsStill, RequestsStill, ActiveRows, SavedRows, Owing, Won
<1>2. CountsFinite' /\ GaugeBalance'
  BY <1>1, BalanceIs DEF EndInv, CountsFinite, Still, CountersStill
<1>3. OneWinner'
  BY DEF EndInv, OneWinner, Still, HandStill, Won
<1>4. WonIsEnded'
  <2>1. ASSUME NEW a \in Actors, Won(a)'
        PROVE  (state[OrderOf(a)] \in Terminal /\ effects[OrderOf(a)] = 0)'
    <3>1. Won(a) /\ OrderOf(a)' = OrderOf(a) /\ effects' = effects
      BY <2>1 DEF Still, HandStill, CountersStill, Won
    <3>2. OrderOf(a) \in Orders
      BY <3>1, BusyHand DEF Won
    <3>3. QED
      BY <3>1, <3>2 DEF EndInv, WonIsEnded, Still, RowsStill
  <2>2. QED
    BY <2>1 DEF WonIsEnded
<1>5. RanOnce'
  BY DEF EndInv, RanOnce, Still, RowsStill, CountersStill
<1>6. QED
  BY <1>2, <1>3, <1>4, <1>5 DEF EndInv

\* A winner took the row out of the active ones, so nobody else had won it.
LEMMA EndWin ==
  ASSUME TypeOK, TypeOK', EndInv, NEW a \in Actors, NEW o \in Orders, Wins(a, o)
  PROVE  EndInv'
<1>1. \A b \in Actors : Won(b) => /\ OrderOf(b) \in Orders \ {o}
                                  /\ hand'[b] = hand[b]
  <2>1. ASSUME NEW b \in Actors, Won(b)
        PROVE  OrderOf(b) \in Orders \ {o} /\ hand'[b] = hand[b]
    <3>1. OrderOf(b) \in Orders
      BY <2>1, BusyHand DEF Won
    <3>2. state[OrderOf(b)] \in Terminal
      BY <2>1 DEF EndInv, WonIsEnded
    <3>3. QED
      BY <2>1, <3>1, <3>2 DEF Wins, Active, Terminal
  <2>2. QED
    BY <2>1
<1>2. effects[o] = 0
  BY DEF EndInv, RanOnce, Wins, Active, Terminal, TypeOK
<1>3. OneWinner'
  <2>1. ASSUME NEW b \in Actors \ {a}, Won(b)'
        PROVE  Won(b) /\ OrderOf(b)' = OrderOf(b)
    BY <2>1 DEF Wins, Won, OrderOf
  <2>2. QED
    BY <1>1, <2>1 DEF EndInv, OneWinner, Wins
<1>4. WonIsEnded'
  <2>1. ASSUME NEW b \in Actors, Won(b)'
        PROVE  (state[OrderOf(b)] \in Terminal /\ effects[OrderOf(b)] = 0)'
    <3>1. CASE b = a
      BY <1>2, <3>1 DEF Wins, CountersStill
    <3>2. CASE b # a
      <4>1. Won(b) /\ OrderOf(b)' = OrderOf(b)
        BY <2>1, <3>2 DEF Wins, Won, OrderOf
      <4>2. QED
        BY <1>1, <4>1 DEF EndInv, WonIsEnded, Wins, CountersStill
    <3>3. QED
      BY <3>1, <3>2
  <2>2. QED
    BY <2>1 DEF WonIsEnded
<1>5. RanOnce'
  BY DEF EndInv, RanOnce, Wins, CountersStill, Active, Terminal
<1>6. /\ ActiveRows' = ActiveRows \ {o} /\ o \in ActiveRows
      /\ SavedRows' = SavedRows
      /\ Owing' = Owing \cup {a} /\ a \notin Owing
  BY DEF Wins, RequestsStill, ActiveRows, SavedRows, Owing, Won, Active, Terminal
<1>7. /\ IsFiniteSet(ActiveRows')
      /\ Cardinality(ActiveRows') = Cardinality(ActiveRows) - 1
      /\ IsFiniteSet(Owing')
      /\ Cardinality(Owing') = Cardinality(Owing) + 1
  BY <1>6, FS_AddElement, FS_RemoveElement DEF EndInv, CountsFinite
<1>8. CountsFinite'
  BY <1>6, <1>7 DEF EndInv, CountsFinite
<1>9. GaugeBalance'
  <2>1. /\ Cardinality(ActiveRows) \in Nat
        /\ Cardinality(SavedRows) \in Nat
        /\ Cardinality(Owing) \in Nat
    BY FS_CardinalityType DEF EndInv, CountsFinite
  <2>2. gauge' = gauge /\ drift' = drift /\ gauge \in Int /\ drift \in Int
    BY DEF Wins, CountersStill, TypeOK
  <2>3. QED
    BY <1>6, <1>7, <2>1, <2>2, BalanceIs DEF EndInv
<1>10. QED
  BY <1>3, <1>4, <1>5, <1>8, <1>9 DEF EndInv

\* Saving, counting and losing a request move rows and the gauge only.
LEMMA EndRequest ==
  ASSUME TypeOK, CreateInv, EndInv, NEW o \in Orders,
         SaveOrder(o) \/ CountOrder(o) \/ LoseRequest(o)
  PROVE  EndInv'
<1>1. UNCHANGED <<hand, effects>>
  BY DEF SaveOrder, CountOrder, LoseRequest
<1>2. \A p \in Orders : state[p] \in Terminal => state'[p] = state[p]
  BY DEF SaveOrder, CountOrder, LoseRequest, CreateInv, Unsaved, Terminal, TypeOK
<1>3. OneWinner' /\ RanOnce'
  BY <1>1, <1>2 DEF EndInv, OneWinner, RanOnce, Won, OrderOf
<1>4. WonIsEnded'
  <2>1. \A a \in Actors : Won(a) => OrderOf(a) \in Orders
    BY BusyHand DEF Won
  <2>2. QED
    BY <1>1, <1>2, <2>1 DEF EndInv, WonIsEnded, Won, OrderOf
<1>5. Owing' = Owing
  BY <1>1 DEF Owing, Won
<1>6. /\ Cardinality(ActiveRows) \in Nat
      /\ Cardinality(SavedRows) \in Nat
      /\ Cardinality(Owing) \in Nat
      /\ gauge \in Int /\ drift \in Int
  BY FS_CardinalityType DEF EndInv, CountsFinite, TypeOK
<1>7. CASE SaveOrder(o)
  <2>1. /\ ActiveRows' = ActiveRows \cup {o} /\ o \notin ActiveRows
        /\ SavedRows' = SavedRows \cup {o} /\ o \notin SavedRows
        /\ UNCHANGED <<gauge, drift>>
    BY <1>7 DEF SaveOrder, CreateInv, Unsaved, ActiveRows, SavedRows, Active, TypeOK
  <2>2. /\ IsFiniteSet(ActiveRows')
        /\ Cardinality(ActiveRows') = Cardinality(ActiveRows) + 1
        /\ IsFiniteSet(SavedRows')
        /\ Cardinality(SavedRows') = Cardinality(SavedRows) + 1
    BY <2>1, FS_AddElement DEF EndInv, CountsFinite
  <2>3. CountsFinite' /\ GaugeBalance'
    BY <1>5, <1>6, <2>1, <2>2, BalanceIs DEF EndInv, CountsFinite
  <2>4. QED
    BY <1>3, <1>4, <2>3 DEF EndInv
<1>8. CASE /\ CountOrder(o) \/ LoseRequest(o)
           /\ request[o] = "saved"
  <2>1. /\ ActiveRows' = ActiveRows
        /\ SavedRows' = SavedRows \ {o} /\ o \in SavedRows
        /\ \/ gauge' = gauge + 1 /\ drift' = drift
           \/ gauge' = gauge /\ drift' = drift - 1
    BY <1>8 DEF CountOrder, LoseRequest, ActiveRows, SavedRows, TypeOK
  <2>2. /\ IsFiniteSet(SavedRows')
        /\ Cardinality(SavedRows') = Cardinality(SavedRows) - 1
    BY <2>1, FS_RemoveElement DEF EndInv, CountsFinite
  <2>3. CountsFinite' /\ GaugeBalance'
    BY <1>5, <1>6, <2>1, <2>2, BalanceIs DEF EndInv, CountsFinite
  <2>4. QED
    BY <1>3, <1>4, <2>3 DEF EndInv
<1>9. CASE LoseRequest(o) /\ request[o] # "saved"
  <2>1. Still
    BY <1>9, SameHands, SameRows
       DEF LoseRequest, Still, RequestsStill, CountersStill, TypeOK
  <2>2. QED
    BY <2>1, EndStill
<1>10. QED
  BY <1>7, <1>8, <1>9 DEF CountOrder

\* The winner runs the side effects, or dies before it does.
LEMMA EndOwed ==
  ASSUME TypeOK, EndInv, NEW a \in Actors, Won(a), RunEffects(a) \/ Crash(a)
  PROVE  EndInv'
<1> DEFINE o == OrderOf(a)
<1>1. o \in Orders /\ state[o] \in Terminal /\ effects[o] = 0
  BY BusyHand DEF EndInv, WonIsEnded, Won
<1>2. /\ hand'[a] = Idle
      /\ \A b \in Actors \ {a} : hand'[b] = hand[b]
      /\ UNCHANGED <<state, request>>
  BY DEF RunEffects, Crash, Goto, TypeOK
<1>3. \A b \in Actors : Won(b)' => b # a /\ Won(b) /\ OrderOf(b)' = OrderOf(b)
  BY <1>2 DEF Won, Idle, OrderOf
<1>4. effects' = effects \/ effects' = [effects EXCEPT ![o] = @ + 1]
  BY DEF RunEffects, Crash
<1>5. OneWinner'
  BY <1>3 DEF EndInv, OneWinner
<1>6. WonIsEnded'
  <2>1. ASSUME NEW b \in Actors, Won(b)'
        PROVE  (state[OrderOf(b)] \in Terminal /\ effects[OrderOf(b)] = 0)'
    <3>1. Won(b) /\ OrderOf(b)' = OrderOf(b) /\ OrderOf(b) # o
      BY <1>3, <2>1 DEF EndInv, OneWinner
    <3>2. OrderOf(b) \in Orders
      BY <3>1, BusyHand DEF Won
    <3>3. effects'[OrderOf(b)] = effects[OrderOf(b)]
      BY <1>4, <3>1, <3>2 DEF TypeOK
    <3>4. QED
      BY <1>2, <3>1, <3>3 DEF EndInv, WonIsEnded
  <2>2. QED
    BY <2>1 DEF WonIsEnded
<1>7. RanOnce'
  BY <1>1, <1>2, <1>4 DEF EndInv, RanOnce, TypeOK
<1>8. /\ ActiveRows' = ActiveRows /\ SavedRows' = SavedRows
      /\ Owing' = Owing \ {a} /\ a \in Owing
  BY <1>2 DEF ActiveRows, SavedRows, Owing, Won, Idle
<1>9. /\ IsFiniteSet(Owing')
      /\ Cardinality(Owing') = Cardinality(Owing) - 1
  BY <1>8, FS_RemoveElement DEF EndInv, CountsFinite
<1>10. \/ gauge' = gauge - 1 /\ drift' = drift
       \/ gauge' = gauge /\ drift' = drift + 1
  BY DEF RunEffects, Crash, Decrement, Won
<1>11. /\ Cardinality(ActiveRows) \in Nat
       /\ Cardinality(SavedRows) \in Nat
       /\ Cardinality(Owing) \in Nat
       /\ gauge \in Int /\ drift \in Int
  BY FS_CardinalityType DEF EndInv, CountsFinite, TypeOK
<1>12. CountsFinite' /\ GaugeBalance'
  BY <1>8, <1>9, <1>10, <1>11, BalanceIs DEF EndInv, CountsFinite
<1>13. QED
  BY <1>5, <1>6, <1>7, <1>12 DEF EndInv

LEMMA EndStep ==
  TypeOK /\ TypeOK' /\ CreateInv /\ EndInv /\ [Next]_vars => EndInv'
BY EndCases, EndStill, EndWin, EndRequest, EndOwed

\* At most one winner per order, so at most one element in Winners(o).
LEMMA EndIsCounted ==
  ASSUME TypeOK, EndInv
  PROVE  EndCountedOnce
<1>1. ASSUME NEW o \in Orders
      PROVE  /\ effects[o] + Cardinality(Winners(o)) <= 1
             /\ effects[o] + Cardinality(Winners(o)) > 0 => state[o] \in Terminal
  <2>1. effects[o] \in Nat /\ effects[o] <= 1
    BY DEF TypeOK, EndInv, RanOnce
  <2>2. CASE Winners(o) = {}
    BY <2>1, <2>2, FS_EmptySet DEF EndInv, RanOnce
  <2>3. ASSUME NEW a \in Winners(o)
        PROVE  /\ Cardinality(Winners(o)) = 1
               /\ effects[o] = 0
               /\ state[o] \in Terminal
    <3>1. Winners(o) = {a}
      BY DEF Winners, EndInv, OneWinner, Won
    <3>2. QED
      BY <3>1, FS_Singleton DEF Winners, EndInv, WonIsEnded, Won
  <2>4. QED
    BY <2>1, <2>2, <2>3
<1>2. QED
  BY <1>1 DEF EndCountedOnce, EffectsAtMostOnce, EndInv

\* Seven writers may see the end of an order; one of them wins its conditional
\* UPDATE, so the gauge is decremented and the trailing stop enqueued at most
\* once, and qb_active_orders is the number of active rows up to what a request
\* or a winner still owes and what crashes have cost.
THEOREM CountedOnce == Spec => []EndCountedOnce
<1>1. TypeOK /\ EndInv => EndCountedOnce
  BY EndIsCounted
<1>2. QED
  BY <1>1, TypeInit, TypeStep, CreateInit, CreateStep, EndInit, EndStep, PTL DEF Spec

-----------------------------------------------------------------------------
(* Ledger and exchange.  What the exchange has ended stays ended, and what   *)
(* handlers and events say of an end is true when it is said and therefore   *)
(* still when it is recorded.  TruthInv collects that, for every value of    *)
(* the constants; a row that is cancelled without the exchange was never     *)
(* sent, and nobody is left who could send it.                               *)

Unclaimed(o) == \A w \in Workers : ~(Claimed(w) /\ OrderOf(w) = o)
Answered(a) == hand[a].pc = "answered"

UnsentAbsent == \A o \in Orders : creates[o] = 0 => exchange[o] = "absent"
EventsTrue ==
  \A o \in Orders, end \in Terminal : <<o, end>> \in events => exchange[o] = end
AnswersTrue ==
  \A a \in Actors : Answered(a) =>
    /\ hand[a].answer \in {"filled", "cancelled"} => exchange[OrderOf(a)] = hand[a].answer
    /\ hand[a].job.task = "cancel" => hand[a].answer = "cancelled"
CancelledSettled ==
  \A o \in Orders : state[o] = "cancelled" =>
    exchange[o] = "cancelled" \/ (creates[o] = 0 /\ Unclaimed(o))

TruthInv ==
  /\ UnsentAbsent
  /\ EventsTrue
  /\ AnswersTrue
  /\ FilledAtExchange
  /\ CancelledSettled

ExchangeKeeps == UNCHANGED <<exchange, creates>> /\ events' \subseteq events
ExchangeMoves ==
  /\ creates' = creates
  /\ \E o \in Orders, end \in Terminal :
       /\ exchange[o] = "open"
       /\ exchange' = [exchange EXCEPT ![o] = end]
       /\ events' = events \cup {<<o, end>>}
Creates(w) == CreateAccepted(w) \/ CreateRefused(w) \/ CreateAnswerLost(w)

\* The exchange's record changes when an order is created or ends there.
LEMMA ExchangeCases ==
  ASSUME TypeOK, [Next]_vars
  PROVE  ExchangeKeeps \/ ExchangeMoves \/ \E w \in Workers : Creates(w)
<1> USE ActorTypes DEF ExchangeKeeps
<1>1. ASSUME NEW o \in Orders, RequestNext(o) \/ RequestCancel(o) \/ ScanNext(o)
      PROVE  ExchangeKeeps
  BY <1>1 DEF RequestNext, SaveOrder, CountOrder, DispatchOrder, LoseRequest,
     RequestCancel, ScanNext, ScanPending, ScanSubmitted
<1>2. ASSUME NEW w \in Workers, \E j \in queue : Pick(w, j) \/ Skip(w, j)
      PROVE  ExchangeKeeps
  BY <1>2 DEF Pick, Skip
<1>3. ASSUME NEW w \in Workers, ExecuteNext(w)
      PROVE  ExchangeKeeps \/ Creates(w)
  BY <1>3 DEF ExecuteNext, PassChecks, RefuseBeforeClaim, ClaimOrder,
     RefuseAfterClaim, RecordReceipt, StartWatchdog, Creates
<1>4. ASSUME NEW w \in Workers, FetchNext(w) \/ JanitorNext(w)
      PROVE  ExchangeKeeps
  BY <1>4 DEF FetchNext, FetchAnswered, FetchFailed, RecordFetch, JanitorNext,
     ProbeByClientId, ProbeMisses, RecordProbe
<1>5. ASSUME NEW w \in Workers, CancelNext(w)
      PROVE  ExchangeKeeps \/ ExchangeMoves
  <2>1. CASE CancelAtExchange(w)
    <3>1. OrderOf(w) \in Orders
      BY <2>1, BusyHand DEF CancelAtExchange, Serving
    <3>2. QED
      BY <2>1, <3>1 DEF CancelAtExchange, Report, ExchangeMoves, Terminal
  <2>2. QED
    BY <1>5, <2>1 DEF CancelNext, CancelFailed, RecordCancel
<1>6. ASSUME NEW w \in Workers, NEW o \in Orders, StartJanitor(w, o)
      PROVE  ExchangeKeeps
  BY <1>6 DEF StartJanitor
<1>7. CASE RecordUserCancel \/ OwnerLeaves \/ StreamNext
           \/ \E o \in Orders : StartReconcile(o)
  BY <1>7 DEF RecordUserCancel, OwnerLeaves, StreamNext, FetchSnapshot,
     RecordSnapshot, StartReconcile
<1>8. ASSUME NEW o \in Orders, NEW end \in Terminal,
             HandleEvent(o, end) \/ LoseEvent(o, end) \/ ExchangeEnds(o, end)
      PROVE  ExchangeKeeps \/ ExchangeMoves
  BY <1>8 DEF HandleEvent, LoseEvent, ExchangeEnds, Report, ExchangeMoves
<1>9. ASSUME NEW a \in Actors, RunEffects(a) \/ Crash(a)
      PROVE  ExchangeKeeps
  BY <1>9 DEF RunEffects, Crash
<1>10. CASE UNCHANGED vars
  BY <1>10 DEF vars
<1>11. QED
  BY <1>1, <1>2, <1>3, <1>4, <1>5, <1>6, <1>7, <1>8, <1>9, <1>10 DEF Next

\* A create_order is sent for a row that was claimed and never sent.
LEMMA CreatesOne ==
  ASSUME TypeOK, CreateInv, NEW w \in Workers, Creates(w)
  PROVE  /\ Claimed(w) /\ OrderOf(w) \in Orders /\ hand[w].pc # "idle"
         /\ creates[OrderOf(w)] = 0
         /\ creates' = [creates EXCEPT ![OrderOf(w)] = @ + 1]
         /\ UNCHANGED <<state, hasId>>
         /\ \E x \in ExchangeStates : exchange' = [exchange EXCEPT ![OrderOf(w)] = x]
<1>1. Claimed(w) /\ hand[w].pc # "idle"
  BY DEF Creates, CreateAccepted, CreateRefused, CreateAnswerLost, Claimed, Serving
<1>2. OrderOf(w) \in Orders
  BY <1>1, BusyHand, ActorTypes
<1>3. exchange = [exchange EXCEPT ![OrderOf(w)] = exchange[OrderOf(w)]]
  BY DEF TypeOK
<1>4. exchange[OrderOf(w)] \in ExchangeStates
  BY <1>2 DEF TypeOK
<1>5. \E x \in ExchangeStates : exchange' = [exchange EXCEPT ![OrderOf(w)] = x]
  BY <1>3, <1>4 DEF Creates, CreateAccepted, CreateRefused, CreateAnswerLost,
     ExchangeStates, Terminal
<1>6. QED
  BY <1>1, <1>2, <1>5 DEF Creates, CreateAccepted, CreateRefused, CreateAnswerLost,
     Called, CreateInv, ClaimedUnsent

\* An end at the exchange is final, and what is absent there stays absent
\* unless a handler holds the claim.
LEMMA ExchangeSteps ==
  ASSUME TypeOK, CreateInv, UnsentAbsent, [Next]_vars, NEW o \in Orders
  PROVE  /\ exchange[o] \in Terminal => exchange'[o] = exchange[o]
         /\ exchange[o] = "absent" /\ Unclaimed(o) => exchange'[o] = "absent"
         /\ creates[o] > 0 => creates'[o] > 0
         /\ Unclaimed(o) => creates'[o] = creates[o]
<1>1. CASE ExchangeKeeps
  BY <1>1 DEF ExchangeKeeps
<1>2. CASE ExchangeMoves
  BY <1>2 DEF ExchangeMoves, Terminal, TypeOK
<1>3. ASSUME NEW w \in Workers, Creates(w)
      PROVE  /\ exchange[o] \in Terminal => exchange'[o] = exchange[o]
             /\ exchange[o] = "absent" /\ Unclaimed(o) => exchange'[o] = "absent"
             /\ creates[o] > 0 => creates'[o] > 0
             /\ Unclaimed(o) => creates'[o] = creates[o]
  BY <1>3, CreatesOne DEF UnsentAbsent, Unclaimed, Terminal, TypeOK
<1>4. QED
  BY <1>1, <1>2, <1>3, ExchangeCases

LEMMA UnsentStep ==
  ASSUME TypeOK, TypeOK', CreateInv, UnsentAbsent, [Next]_vars
  PROVE  UnsentAbsent'
<1>1. CASE ExchangeKeeps
  BY <1>1 DEF ExchangeKeeps, UnsentAbsent
<1>2. CASE ExchangeMoves
  BY <1>2 DEF ExchangeMoves, UnsentAbsent, TypeOK
<1>3. ASSUME NEW w \in Workers, Creates(w)
      PROVE  UnsentAbsent'
  BY <1>3, CreatesOne DEF UnsentAbsent, TypeOK
<1>4. QED
  BY <1>1, <1>2, <1>3, ExchangeCases

LEMMA EventsStep ==
  ASSUME TypeOK, TypeOK', CreateInv, UnsentAbsent, EventsTrue, [Next]_vars
  PROVE  EventsTrue'
<1>1. ASSUME NEW o \in Orders, NEW end \in Terminal, <<o, end>> \in events
      PROVE  exchange'[o] = end
  BY <1>1, ExchangeSteps DEF EventsTrue
<1>2. CASE ExchangeKeeps
  BY <1>1, <1>2 DEF ExchangeKeeps, EventsTrue
<1>3. CASE ExchangeMoves
  BY <1>1, <1>3 DEF ExchangeMoves, EventsTrue, TypeOK
<1>4. ASSUME NEW w \in Workers, Creates(w)
      PROVE  EventsTrue'
  <2>1. \/ events' = events
        \/ \E end \in Terminal :
             /\ events' = events \cup {<<OrderOf(w), end>>}
             /\ exchange' = [exchange EXCEPT ![OrderOf(w)] = end]
    BY <1>4 DEF Creates, CreateAccepted, CreateRefused, CreateAnswerLost, Report, Terminal
  <2>2. OrderOf(w) \in Orders
    BY <1>4, CreatesOne
  <2>3. QED
    BY <1>1, <2>1, <2>2 DEF EventsTrue, TypeOK
<1>5. QED
  BY <1>2, <1>3, <1>4, ExchangeCases

(* A handler hears the exchange in six actions; in all others no handler     *)
(* comes to hold an answer it did not hold before.                           *)

Silent == \A a \in Actors : Answered(a)' => hand'[a] = hand[a]
Hears(a) ==
  \/ /\ a \in Workers
     /\ \/ Creates(a) \/ FetchAnswered(a) \/ CancelAtExchange(a)
        \/ ProbeByClientId(a) \/ ProbeMisses(a)
  \/ a = Stream /\ FetchSnapshot

LEMMA GotoSilent ==
  ASSUME TypeOK, NEW a \in Actors, NEW h, h.pc # "answered", Goto(a, h)
  PROVE  Silent
BY DEF TypeOK, Goto, Silent, Answered

LEMMA IdleSilent ==
  ASSUME TypeOK, NEW a \in Actors, Goto(a, Idle)
  PROVE  Silent
BY GotoSilent DEF Idle

LEMMA AdvanceSilent ==
  ASSUME TypeOK, NEW a \in Actors, hand[a].pc # "idle",
         NEW pc, pc # "answered", NEW answer, Advance(a, pc, answer)
  PROVE  Silent
<1>1. [hand[a] EXCEPT !.pc = pc, !.answer = answer].pc = pc
  BY BusyHand DEF Busy
<1>2. QED
  BY <1>1, GotoSilent DEF Advance

LEMMA SameSilent == ASSUME UNCHANGED hand PROVE Silent
BY DEF Silent

LEMMA EndSilent ==
  ASSUME TypeOK, NEW a \in Actors, hand[a].pc # "idle", NEW o \in Orders,
         \/ \E end \in Terminal : RecordEnd(a, o, end)
         \/ TransitionToFilled(a, o)
         \/ TransitionToRejected(a, o)
         \/ TransitionToCancelled(a, o)
         \/ TransitionWithoutIdToRejected(a, o)
         \/ TransitionPendingToCancelled(a, o)
  PROVE  Silent
<1>1. LoseRace(a) \/ \E end \in Terminal : Win(a, o, end)
  BY DEF RecordEnd, TransitionToFilled, TransitionToRejected, TransitionToCancelled,
       TransitionWithoutIdToRejected, TransitionPendingToCancelled, Terminal
<1>2. QED
  BY <1>1, IdleSilent, AdvanceSilent DEF LoseRace, Win

LEMMA AnswerCases ==
  ASSUME TypeOK, [Next]_vars
  PROVE  Silent \/ \E a \in Actors : Hears(a)
<1> USE ActorTypes
<1>1. ASSUME NEW o \in Orders, RequestNext(o) \/ RequestCancel(o) \/ ScanNext(o)
      PROVE  Silent
  <2>1. CASE UNCHANGED hand
    BY <2>1, SameSilent
  <2>2. CASE Goto(Web, At("picked", Job("userCancel", o, 0), FALSE, "none"))
    BY <2>2, GotoSilent DEF At
  <2>3. QED
    BY <1>1, <2>1, <2>2 DEF RequestNext, SaveOrder, CountOrder, DispatchOrder,
       LoseRequest, RequestCancel, ScanNext, ScanPending, ScanSubmitted
<1>2. ASSUME NEW w \in Workers,
             \/ \E j \in queue : Pick(w, j) \/ Skip(w, j)
             \/ \E o \in Orders : StartJanitor(w, o)
      PROVE  Silent
  BY <1>2, GotoSilent, SameSilent DEF Pick, Skip, StartJanitor, At
<1>3. ASSUME NEW w \in Workers, PassChecks(w) \/ ClaimOrder(w) \/ StartWatchdog(w)
                               \/ FetchFailed(w) \/ CancelFailed(w)
      PROVE  Silent
  <2>1. hand[w].pc # "idle"
    BY <1>3 DEF PassChecks, ClaimOrder, StartWatchdog, FetchFailed, CancelFailed, Serving
  <2>2. Goto(w, Idle) \/ Advance(w, "checked", "none") \/ Advance(w, "claimed", "none")
    BY <1>3 DEF PassChecks, ClaimOrder, LoseRace, StartWatchdog, FetchFailed,
       RetryOrGiveUp, CancelFailed
  <2>3. QED
    BY <2>1, <2>2, IdleSilent, AdvanceSilent
<1>4. ASSUME NEW a \in Actors,
             \/ a = Web /\ RecordUserCancel
             \/ a = Stream /\ RecordSnapshot
             \/ /\ a \in Workers
                /\ \/ RefuseBeforeClaim(a) \/ RefuseAfterClaim(a) \/ RecordCancel(a)
                   \/ RecordReceipt(a) \/ RecordFetch(a) \/ RecordProbe(a)
      PROVE  Silent
  <2> USE DEF RecordUserCancel, RecordSnapshot, RefuseBeforeClaim,
        RefuseAfterClaim, RecordCancel, RecordReceipt, RecordFetch, RecordProbe
  <2>1. hand[a].pc # "idle"
    BY <1>4 DEF Serving
  <2>2. OrderOf(a) \in Orders
    BY <2>1, BusyHand
  <2>3. CASE \/ \E end \in Terminal : RecordEnd(a, OrderOf(a), end)
             \/ TransitionToFilled(a, OrderOf(a))
             \/ TransitionToRejected(a, OrderOf(a))
             \/ TransitionToCancelled(a, OrderOf(a))
             \/ TransitionWithoutIdToRejected(a, OrderOf(a))
             \/ TransitionPendingToCancelled(a, OrderOf(a))
    BY <2>1, <2>2, <2>3, EndSilent
  <2>4. CASE Goto(a, Idle) \/ Advance(a, "attached", "none")
    BY <2>1, <2>4, IdleSilent, AdvanceSilent
  <2>5. CASE \/ a = Web /\ RecordUserCancel
             \/ a = Stream /\ RecordSnapshot
             \/ RefuseBeforeClaim(a) \/ RefuseAfterClaim(a) \/ RecordCancel(a)
    BY <2>3, <2>5 DEF RecordEnd, Terminal
  <2>6. CASE RecordReceipt(a)
    BY <2>3, <2>4, <2>6
  <2>7. CASE RecordFetch(a)
    BY <2>3, <2>4, <2>7 DEF RecordEnd, RetryOrGiveUp, Terminal
  <2>8. CASE RecordProbe(a)
    BY <2>3, <2>4, <2>8 DEF RecordEnd, Terminal
  <2>9. QED
    BY <1>4, <2>5, <2>6, <2>7, <2>8
<1>5. ASSUME NEW o \in Orders, NEW end \in Terminal,
             HandleEvent(o, end) \/ LoseEvent(o, end) \/ ExchangeEnds(o, end)
      PROVE  Silent
  BY <1>5, GotoSilent, SameSilent DEF HandleEvent, LoseEvent, ExchangeEnds, At
<1>6. ASSUME \/ \E o \in Orders : StartReconcile(o)
             \/ OwnerLeaves
             \/ \E a \in Actors : RunEffects(a) \/ Crash(a)
             \/ UNCHANGED vars
      PROVE  Silent
  BY <1>6, GotoSilent, IdleSilent, SameSilent
     DEF StartReconcile, OwnerLeaves, RunEffects, Crash, At, vars
<1>7. ASSUME NEW w \in Workers,
             ExecuteNext(w) \/ FetchNext(w) \/ CancelNext(w) \/ JanitorNext(w)
      PROVE  Silent \/ Hears(w)
  BY <1>7, <1>3, <1>4
     DEF ExecuteNext, FetchNext, CancelNext, JanitorNext, Hears, Creates
<1>8. CASE StreamNext \/ RecordUserCancel
  BY <1>8, <1>4 DEF StreamNext, Hears
<1>9. QED
  BY <1>1, <1>2, <1>5, <1>6, <1>7, <1>8 DEF Next

\* What the one that hears comes to hold.
LEMMA HeardAnswer ==
  ASSUME TypeOK, NEW a \in Actors, Hears(a), Answered(a)'
  PROVE  /\ hand[a].pc \in {"claimed", "picked"}
         /\ hand'[a].job = hand[a].job
         /\ OrderOf(a)' = OrderOf(a) /\ OrderOf(a) \in Orders
         /\ \A b \in Actors \ {a} : hand'[b] = hand[b]
         /\ state' = state
<1>1. hand[a].pc \in {"claimed", "picked"}
  BY DEF Hears, Creates, CreateAccepted, CreateRefused, CreateAnswerLost,
     FetchAnswered, CancelAtExchange, ProbeByClientId, ProbeMisses, FetchSnapshot, Serving
<1>2. OrderOf(a) \in Orders
  BY <1>1, BusyHand
<1>3. Goto(a, Idle) \/ \E answer : Advance(a, "answered", answer)
  BY DEF Hears, Creates, CreateAccepted, CreateRefused, CreateAnswerLost,
     FetchAnswered, CancelAtExchange, ProbeByClientId, ProbeMisses, FetchSnapshot
<1>4. ~Goto(a, Idle)
  BY DEF Goto, Idle, Answered, TypeOK
<1>5. PICK answer : Advance(a, "answered", answer)
  BY <1>3, <1>4
<1>6. hand'[a] = [hand[a] EXCEPT !.pc = "answered", !.answer = answer]
  BY <1>5 DEF Advance, Goto, TypeOK
<1>7. hand'[a].job = hand[a].job
  BY <1>1, <1>6, BusyHand DEF Busy
<1>8. \A b \in Actors \ {a} : hand'[b] = hand[b]
  BY <1>5 DEF Advance, Goto, TypeOK
<1>9. state' = state
  BY DEF Hears, Creates, CreateAccepted, CreateRefused, CreateAnswerLost,
     FetchAnswered, CancelAtExchange, ProbeByClientId, ProbeMisses, FetchSnapshot
<1>10. QED
  BY <1>1, <1>2, <1>7, <1>8, <1>9 DEF OrderOf

LEMMA AdvanceAnswer ==
  ASSUME TypeOK, NEW a \in Actors, hand[a].pc # "idle", NEW pc, NEW answer,
         Advance(a, pc, answer)
  PROVE  hand'[a].answer = answer /\ hand'[a].pc = pc
<1>1. hand'[a] = [hand[a] EXCEPT !.pc = pc, !.answer = answer]
  BY DEF Advance, Goto, TypeOK
<1>2. QED
  BY <1>1, BusyHand DEF Busy

\* What a handler hears of an end is what the exchange says then.
LEMMA HeardIsTrue ==
  ASSUME TypeOK, CreateInv, NEW a \in Actors, Hears(a), Answered(a)'
  PROVE  /\ hand'[a].answer \in {"filled", "cancelled"}
              => exchange'[OrderOf(a)] = hand'[a].answer
         /\ hand[a].job.task = "cancel" => hand'[a].answer = "cancelled"
<1>1. OrderOf(a) \in Orders /\ hand[a].pc # "idle"
  BY HeardAnswer
<1>2. ~Goto(a, Idle)
  BY DEF Goto, Idle, Answered, TypeOK
<1>3. CASE a \in Workers /\ Creates(a)
  <2>1. hand[a].job.task = "execute"
    BY <1>3 DEF Creates, CreateAccepted, CreateRefused, CreateAnswerLost, Serving
  <2>2. \/ Advance(a, "answered", "submitted")
        \/ Advance(a, "answered", "error")
        \/ Advance(a, "answered", "rejected")
        \/ /\ Advance(a, "answered", "filled")
           /\ exchange' = [exchange EXCEPT ![OrderOf(a)] = "filled"]
    BY <1>3 DEF Creates, CreateAccepted, CreateRefused, CreateAnswerLost
  <2>3. QED
    BY <1>1, <2>1, <2>2, AdvanceAnswer DEF TypeOK
<1>4. CASE a \in Workers /\ CancelAtExchange(a)
  BY <1>1, <1>2, <1>4, AdvanceAnswer DEF CancelAtExchange, TypeOK
<1>5. CASE \/ a \in Workers /\ (FetchAnswered(a) \/ ProbeByClientId(a) \/ ProbeMisses(a))
           \/ a = Stream /\ FetchSnapshot
  <2>1. hand[a].job.task # "cancel" /\ exchange' = exchange
    BY <1>5 DEF FetchAnswered, ProbeByClientId, ProbeMisses, FetchSnapshot, Serving
  <2>2. \/ Advance(a, "answered", IF exchange[OrderOf(a)] = "open" THEN "submitted"
                                  ELSE exchange[OrderOf(a)])
        \/ Advance(a, "answered", "absent")
        \/ Advance(a, "answered", exchange[OrderOf(a)])
    BY <1>2, <1>5 DEF FetchAnswered, ProbeByClientId, ProbeMisses, FetchSnapshot
  <2>3. QED
    BY <1>1, <2>1, <2>2, AdvanceAnswer
<1>6. QED
  BY <1>3, <1>4, <1>5 DEF Hears

LEMMA AnswersStep ==
  ASSUME TypeOK, TypeOK', CreateInv, UnsentAbsent, AnswersTrue, [Next]_vars
  PROVE  AnswersTrue'
<1>1. ASSUME NEW a \in Actors, Answered(a)'
      PROVE  (/\ hand[a].answer \in {"filled", "cancelled"}
                    => exchange[OrderOf(a)] = hand[a].answer
              /\ hand[a].job.task = "cancel" => hand[a].answer = "cancelled")'
  <2>1. CASE Hears(a)
    BY <1>1, <2>1, HeardAnswer, HeardIsTrue
  <2>2. CASE hand'[a] = hand[a]
    <3>1. Answered(a) /\ OrderOf(a) \in Orders /\ OrderOf(a)' = OrderOf(a)
      BY <1>1, <2>2, BusyHand DEF Answered, OrderOf
    <3>2. exchange[OrderOf(a)] \in Terminal => exchange'[OrderOf(a)] = exchange[OrderOf(a)]
      BY <3>1, ExchangeSteps
    <3>3. QED
      BY <2>2, <3>1, <3>2 DEF AnswersTrue, Terminal
  <2>3. ASSUME NEW b \in Actors, b # a, Hears(b)
        PROVE  hand'[a] = hand[a]
    <3>1. Goto(b, Idle) \/ \E answer : Advance(b, "answered", answer)
      BY <2>3 DEF Hears, Creates, CreateAccepted, CreateRefused, CreateAnswerLost,
         FetchAnswered, CancelAtExchange, ProbeByClientId, ProbeMisses, FetchSnapshot
    <3>2. QED
      BY <2>3, <3>1 DEF Advance, Goto, TypeOK
  <2>4. QED
    BY <1>1, <2>1, <2>2, <2>3, AnswerCases DEF Silent
<1>2. QED
  BY <1>1 DEF AnswersTrue

(* The actions that write the state of a row. *)

Refuses(w) == RefuseBeforeClaim(w) \/ RefuseAfterClaim(w)
Records(w) == RecordReceipt(w) \/ RecordFetch(w) \/ RecordCancel(w) \/ RecordProbe(w)

LEMMA WriterCases ==
  ASSUME [Next]_vars
  PROVE  \/ UNCHANGED state
         \/ \E o \in Orders : SaveOrder(o)
         \/ \E w \in Workers : ClaimOrder(w) \/ Refuses(w) \/ Records(w)
         \/ RecordUserCancel
         \/ RecordSnapshot
         \/ \E o \in Orders, end \in Terminal : HandleEvent(o, end)
<1>1. ASSUME NEW o \in Orders, RequestNext(o) \/ RequestCancel(o) \/ ScanNext(o)
      PROVE  UNCHANGED state \/ SaveOrder(o)
  BY <1>1 DEF RequestNext, CountOrder, DispatchOrder, LoseRequest,
     RequestCancel, ScanNext, ScanPending, ScanSubmitted
<1>2. ASSUME NEW w \in Workers, ExecuteNext(w) \/ FetchNext(w) \/ CancelNext(w)
                               \/ JanitorNext(w)
      PROVE  UNCHANGED state \/ ClaimOrder(w) \/ Refuses(w) \/ Records(w)
  BY <1>2 DEF ExecuteNext, PassChecks, CreateAccepted, CreateRefused,
     CreateAnswerLost, StartWatchdog, FetchNext, FetchAnswered, FetchFailed,
     CancelNext, CancelAtExchange, CancelFailed, JanitorNext, ProbeByClientId,
     ProbeMisses, Refuses, Records
<1>3. ASSUME \/ \E w \in Workers : \E j \in queue : Pick(w, j) \/ Skip(w, j)
             \/ \E w \in Workers, o \in Orders : StartJanitor(w, o)
             \/ OwnerLeaves \/ FetchSnapshot
             \/ \E o \in Orders : StartReconcile(o)
             \/ \E o \in Orders, end \in Terminal : LoseEvent(o, end) \/ ExchangeEnds(o, end)
             \/ \E a \in Actors : RunEffects(a) \/ Crash(a)
             \/ UNCHANGED vars
      PROVE  UNCHANGED state
  BY <1>3 DEF Pick, Skip, StartJanitor, OwnerLeaves, FetchSnapshot, StartReconcile,
     LoseEvent, ExchangeEnds, RunEffects, Crash, vars
<1>4. QED
  BY <1>1, <1>2, <1>3 DEF Next, StreamNext

\* An end is recorded only as it was heard.  A row is cancelled without the
\* exchange only from pending.
LEMMA EndsAreHeard ==
  ASSUME TypeOK, EventsTrue, AnswersTrue, [Next]_vars, NEW o \in Orders,
         state'[o] # state[o]
  PROVE  /\ state'[o] = "filled" => exchange[o] = "filled"
         /\ state'[o] = "cancelled" => exchange[o] = "cancelled" \/ state[o] = "pending"
<1> DEFINE Heard == /\ state'[o] = "filled" => exchange[o] = "filled"
                    /\ state'[o] = "cancelled"
                         => exchange[o] = "cancelled" \/ state[o] = "pending"
<1> USE ActorTypes
<1>1. ASSUME NEW p \in Orders, SaveOrder(p)
      PROVE  Heard
  BY <1>1 DEF SaveOrder, TypeOK
<1>2. ASSUME NEW w \in Workers, ClaimOrder(w) \/ Refuses(w)
      PROVE  Heard
  <2>1. OrderOf(w) \in Orders
    BY <1>2, BusyHand DEF ClaimOrder, Refuses, RefuseBeforeClaim, RefuseAfterClaim, Serving
  <2>2. QED
    BY <1>2, <2>1 DEF ClaimOrder, Refuses, RefuseBeforeClaim, RefuseAfterClaim,
       TransitionToRejected, Win, LoseRace, TypeOK
<1>3. ASSUME NEW a \in Actors, (a \in Workers /\ Records(a)) \/ (a = Stream /\ RecordSnapshot)
      PROVE  Heard
  <2>1. Answered(a)
    BY <1>3 DEF Records, RecordReceipt, RecordFetch, RecordCancel, RecordProbe,
       RecordSnapshot, Serving, Answered
  <2>2. /\ OrderOf(a) \in Orders
        /\ hand[a].answer \in {"filled", "cancelled"} => exchange[OrderOf(a)] = hand[a].answer
        /\ hand[a].job.task = "cancel" => hand[a].answer = "cancelled"
    BY <2>1, BusyHand DEF Answered, AnswersTrue
  <2>3. \/ UNCHANGED state
        \/ TransitionToRejected(a, OrderOf(a))
        \/ TransitionWithoutIdToRejected(a, OrderOf(a))
        \/ hand[a].answer = "filled" /\ TransitionToFilled(a, OrderOf(a))
        \/ hand[a].answer = "cancelled" /\ TransitionToCancelled(a, OrderOf(a))
    <3>1. CASE a \in Workers /\ RecordReceipt(a)
      BY <3>1 DEF RecordReceipt, SaysFilled
    <3>2. CASE a \in Workers /\ RecordFetch(a)
      BY <3>2 DEF RecordFetch, RecordEnd
    <3>3. CASE a \in Workers /\ RecordCancel(a)
      BY <2>2, <3>3 DEF RecordCancel, Serving
    <3>4. CASE a \in Workers /\ RecordProbe(a)
      BY <3>4 DEF RecordProbe, RecordEnd
    <3>5. CASE a = Stream /\ RecordSnapshot
      BY <3>5 DEF RecordSnapshot, RecordEnd
    <3>6. QED
      BY <1>3, <3>1, <3>2, <3>3, <3>4, <3>5 DEF Records
  <2>4. QED
    BY <2>2, <2>3 DEF TransitionToRejected, TransitionWithoutIdToRejected,
       TransitionToFilled, TransitionToCancelled, Win, LoseRace, TypeOK
<1>4. CASE RecordUserCancel
  <2>1. OrderOf(Web) \in Orders
    BY <1>4, BusyHand DEF RecordUserCancel, Serving
  <2>2. QED
    BY <1>4, <2>1 DEF RecordUserCancel, TransitionPendingToCancelled,
       UserCancellable, Win, LoseRace, TypeOK
<1>5. ASSUME NEW p \in Orders, NEW end \in Terminal, HandleEvent(p, end)
      PROVE  Heard
  <2>1. exchange[p] = end
    BY <1>5 DEF HandleEvent, EventsTrue
  <2>2. QED
    BY <1>5, <2>1 DEF HandleEvent, TypeOK
<1>6. QED
  BY <1>1, <1>2, <1>3, <1>4, <1>5, WriterCases

\* A row that no handler has claimed is claimed by going from pending to submitted.
LEMMA UnclaimedStays ==
  ASSUME TypeOK, TypeOK', CreateInv, [Next]_vars, NEW o \in Orders,
         Unclaimed(o), state[o] = "pending" => state'[o] # "submitted"
  PROVE  Unclaimed(o)'
<1>1. ASSUME Keeps
      PROVE  Unclaimed(o)'
  BY <1>1 DEF Keeps, Unclaimed
<1>2. CASE CreatesStill
  BY <1>1, <1>2 DEF CreatesStill
<1>3. ASSUME NEW p \in Orders, SaveOrder(p)
      PROVE  Unclaimed(o)'
  BY <1>1, <1>3, StillKeeps DEF SaveOrder
<1>4. ASSUME NEW w \in Workers, ClaimOrder(w)
      PROVE  Unclaimed(o)'
  <2>1. hand[w].pc = "checked" /\ OrderOf(w) \in Orders /\ w \in Actors
    BY <1>4, BusyHand, ActorTypes DEF ClaimOrder, Serving
  <2>2. CASE LoseRace(w)
    BY <1>1, <2>1, <2>2, IdleKeeps DEF LoseRace
  <2>3. CASE Claimable(OrderOf(w)) /\ Advance(w, "claimed", "none")
    <3>1. OrderOf(w) # o /\ OrderOf(w)' = OrderOf(w)
      BY <1>4, <2>1, <2>3, BusyHand
         DEF ClaimOrder, LoseRace, Claimable, Advance, Goto, TypeOK, Busy, OrderOf, Idle
    <3>2. \A v \in Workers \ {w} : hand'[v] = hand[v]
      BY <2>1, <2>3, ActorTypes DEF Advance, Goto, TypeOK
    <3>3. QED
      BY <3>1, <3>2 DEF Unclaimed, Claimed, Serving, OrderOf
  <2>4. QED
    BY <1>4, <2>2, <2>3 DEF ClaimOrder
<1>5. ASSUME NEW w \in Workers, Creates(w)
      PROVE  Unclaimed(o)'
  <2>1. \E answer : Advance(w, "answered", answer)
    BY <1>5 DEF Creates, CreateAccepted, CreateRefused, CreateAnswerLost
  <2>2. QED
    BY <1>1, <1>5, <2>1, CreatesOne, AdvanceKeeps, ActorTypes
<1>6. QED
  BY <1>2, <1>3, <1>4, <1>5, StepCases DEF Creates

\* A pending row, and one that the exchange knows, is claimed by nobody.
LEMMA NobodyClaims ==
  ASSUME TypeOK, CreateInv, UnsentAbsent, NEW o \in Orders,
         state[o] \in Early \/ exchange[o] # "absent" \/ creates[o] > 0
  PROVE  Unclaimed(o)
BY DEF Unclaimed, CreateInv, ClaimedUnsent, UnsentAbsent, TypeOK

LEMMA CancelledStep ==
  ASSUME TypeOK, TypeOK', CreateInv, TruthInv, [Next]_vars
  PROVE  CancelledSettled'
<1>1. ASSUME NEW o \in Orders, state'[o] = "cancelled"
      PROVE  (exchange[o] = "cancelled" \/ (creates[o] = 0 /\ Unclaimed(o)))'
  <2>1. CASE exchange[o] = "cancelled"
    BY <2>1, ExchangeSteps DEF TruthInv, Terminal
  <2>2. CASE state[o] = "cancelled" /\ creates[o] = 0 /\ Unclaimed(o)
    BY <2>2, ExchangeSteps, UnclaimedStays DEF TruthInv
  <2>3. CASE state[o] = "pending"
    <3>1. Unclaimed(o) /\ creates[o] = 0
      BY <2>3, NobodyClaims DEF TruthInv, CreateInv, EarlyUnsent, Early
    <3>2. creates'[o] = 0
      BY <3>1, ExchangeSteps DEF TruthInv
    <3>3. Unclaimed(o)'
      BY <1>1, <3>1, UnclaimedStays
    <3>4. QED
      BY <3>2, <3>3
  <2>4. QED
    BY <1>1, <2>1, <2>2, <2>3, EndsAreHeard DEF TruthInv, CancelledSettled
<1>2. QED
  BY <1>1 DEF CancelledSettled

LEMMA FilledStep ==
  ASSUME TypeOK, CreateInv, TruthInv, [Next]_vars
  PROVE  FilledAtExchange'
<1>1. ASSUME NEW o \in Orders, state'[o] = "filled"
      PROVE  exchange'[o] = "filled"
  <2>1. exchange[o] = "filled"
    BY <1>1, EndsAreHeard DEF TruthInv, FilledAtExchange
  <2>2. QED
    BY <2>1, ExchangeSteps DEF TruthInv, Terminal
<1>2. QED
  BY <1>1 DEF FilledAtExchange

LEMMA TruthInit == Init => TruthInv
BY DEF Init, TruthInv, UnsentAbsent, EventsTrue, AnswersTrue, FilledAtExchange,
   CancelledSettled, Answered, Idle

LEMMA TruthStep ==
  TypeOK /\ TypeOK' /\ CreateInv /\ TruthInv /\ [Next]_vars => TruthInv'
BY UnsentStep, EventsStep, AnswersStep, FilledStep, CancelledStep DEF TruthInv

\* No fill is invented: a row is filled only if the exchange filled the order,
\* whichever of the five writers of a fill recorded it and however late.
THEOREM FillsAreReal == Spec => []FilledAtExchange
<1>1. TruthInv => FilledAtExchange
  BY DEF TruthInv
<1>2. QED
  BY <1>1, TypeInit, TypeStep, CreateInit, CreateStep, TruthInit, TruthStep, PTL DEF Spec

\* A cancelled row is neither live nor filled at the exchange: the user's cancel
\* of a pending row shuts out every claim that could still send it, and a
\* submitted row is cancelled only when the exchange has cancelled it.
THEOREM CancelIsSafe == Spec => []CancelledIsNotLive
<1>1. TruthInv => CancelledIsNotLive
  BY DEF TruthInv, CancelledSettled, UnsentAbsent, CancelledIsNotLive
<1>2. QED
  BY <1>1, TypeInit, TypeStep, CreateInit, CreateStep, TruthInit, TruthStep, PTL DEF Spec

-----------------------------------------------------------------------------
(* No live order is lost.  This needs an owner who stays and workers that do *)
(* not stall: RefusedUnsent is refuted without the one, and without the      *)
(* other the janitor may reject a row whose create_order is under way.       *)
(* TrackInv says that a handler about to reject a row has heard that the     *)
(* exchange does not have it, or was misled, and that nobody holds a claim.  *)

NotLive(o) == exchange[o] \in {"absent", "rejected", "cancelled"} \/ o \in misreported
Sweeping(a) == hand[a].pc \in {"picked", "answered"} /\ hand[a].job.task = "janitor"

RefusalsTrue ==
  \A a \in Actors : Answered(a) =>
    /\ hand[a].answer = "rejected" => exchange[OrderOf(a)] \in {"rejected", "cancelled"}
    /\ hand[a].job.task = "execute" => creates[OrderOf(a)] > 0
    /\ hand[a].answer = "error" => hand[a].job.task = "execute" /\ NotLive(OrderOf(a))
    /\ hand[a].job.task = "janitor" /\ hand[a].answer = "absent" => NotLive(OrderOf(a))
JanitorAlone ==
  \A a \in Actors : Sweeping(a) =>
    state[OrderOf(a)] \notin Early /\ Unclaimed(OrderOf(a))
RejectedSettled ==
  \A o \in Orders : state[o] = "rejected" => Unclaimed(o) /\ NotLive(o)

TrackInv ==
  /\ ~barred
  /\ RefusalsTrue
  /\ JanitorAlone
  /\ RejectedSettled

LEMMA MisreportsStay ==
  ASSUME TypeOK, [Next]_vars
  PROVE  misreported \subseteq misreported'
<1>1. ASSUME NEW o \in Orders, RequestNext(o) \/ RequestCancel(o) \/ ScanNext(o)
      PROVE  UNCHANGED misreported
  BY <1>1 DEF RequestNext, SaveOrder, CountOrder, DispatchOrder, LoseRequest,
     RequestCancel, ScanNext, ScanPending, ScanSubmitted
<1>2. ASSUME NEW w \in Workers, ExecuteNext(w) \/ FetchNext(w) \/ CancelNext(w)
                               \/ JanitorNext(w)
      PROVE  misreported \subseteq misreported'
  BY <1>2 DEF ExecuteNext, PassChecks, RefuseBeforeClaim, ClaimOrder,
     RefuseAfterClaim, CreateAccepted, CreateRefused, CreateAnswerLost,
     RecordReceipt, StartWatchdog, FetchNext, FetchAnswered, FetchFailed,
     RecordFetch, CancelNext, CancelAtExchange, CancelFailed, RecordCancel,
     JanitorNext, ProbeByClientId, ProbeMisses, RecordProbe
<1>3. ASSUME \/ \E w \in Workers : \E j \in queue : Pick(w, j) \/ Skip(w, j)
             \/ \E w \in Workers, o \in Orders : StartJanitor(w, o)
             \/ OwnerLeaves \/ StreamNext \/ RecordUserCancel
             \/ \E o \in Orders : StartReconcile(o)
             \/ \E o \in Orders, end \in Terminal :
                  HandleEvent(o, end) \/ LoseEvent(o, end) \/ ExchangeEnds(o, end)
             \/ \E a \in Actors : RunEffects(a) \/ Crash(a)
             \/ UNCHANGED vars
      PROVE  UNCHANGED misreported
  BY <1>3 DEF Pick, Skip, StartJanitor, OwnerLeaves, StreamNext, FetchSnapshot,
     RecordSnapshot, RecordUserCancel, StartReconcile, HandleEvent, LoseEvent,
     ExchangeEnds, RunEffects, Crash, vars
<1>4. QED
  BY <1>1, <1>2, <1>3 DEF Next

LEMMA NotLiveStays ==
  ASSUME TypeOK, CreateInv, UnsentAbsent, [Next]_vars, NEW o \in Orders,
         NotLive(o), Unclaimed(o)
  PROVE  NotLive(o)'
BY ExchangeSteps, MisreportsStay DEF NotLive, Terminal

(* A handler starts in four actions; in all others no actor comes to hold a  *)
(* handler at its start that it did not hold before.                         *)

Started == \A a \in Actors : hand'[a].pc = "picked" => hand'[a] = hand[a]

LEMMA GotoStarted ==
  ASSUME TypeOK, NEW a \in Actors, NEW h, h.pc # "picked", Goto(a, h)
  PROVE  Started
BY DEF TypeOK, Goto, Started

LEMMA AdvanceStarted ==
  ASSUME TypeOK, NEW a \in Actors, hand[a].pc # "idle",
         NEW pc, pc # "picked", NEW answer, Advance(a, pc, answer)
  PROVE  Started
<1>1. [hand[a] EXCEPT !.pc = pc, !.answer = answer].pc = pc
  BY BusyHand DEF Busy
<1>2. QED
  BY <1>1, GotoStarted DEF Advance

LEMMA StartCases ==
  ASSUME TypeOK, [Next]_vars
  PROVE  \/ Started
         \/ \E a \in Actors, h \in Busy :
              /\ Goto(a, h)
              /\ h.pc = "picked"
              /\ h.job.task # "janitor" \/ \E o \in Orders : StartJanitor(a, o)
<1> USE ActorTypes
<1> DEFINE Starts == \E a \in Actors, h \in Busy :
             /\ Goto(a, h)
             /\ h.pc = "picked"
             /\ h.job.task # "janitor" \/ \E o \in Orders : StartJanitor(a, o)
<1>0. \A a \in Actors : Goto(a, Idle) => Started
  BY GotoStarted DEF Idle
<1>1. UNCHANGED hand => Started
  BY DEF Started
<1>2. ASSUME NEW o \in Orders, RequestCancel(o) \/ StartReconcile(o)
      PROVE  Started \/ Starts
  <2>1. /\ At("picked", Job("userCancel", o, 0), FALSE, "none") \in Busy
        /\ At("picked", Job("reconcile", o, 0), FALSE, "none") \in Busy
    BY StartType DEF Tasks, Answers
  <2>2. /\ At("picked", Job("userCancel", o, 0), FALSE, "none").pc = "picked"
        /\ At("picked", Job("userCancel", o, 0), FALSE, "none").job.task # "janitor"
        /\ At("picked", Job("reconcile", o, 0), FALSE, "none").pc = "picked"
        /\ At("picked", Job("reconcile", o, 0), FALSE, "none").job.task # "janitor"
    BY DEF At, Job
  <2>3. \/ UNCHANGED hand
        \/ Goto(Web, At("picked", Job("userCancel", o, 0), FALSE, "none"))
        \/ Goto(Stream, At("picked", Job("reconcile", o, 0), FALSE, "none"))
    BY <1>2 DEF RequestCancel, StartReconcile
  <2>4. QED
    BY <1>1, <2>1, <2>2, <2>3
<1>3. ASSUME NEW w \in Workers, NEW j \in queue, Pick(w, j) \/ Skip(w, j)
      PROVE  Started \/ Starts
  <2>1. j \in Jobs /\ j.task \in MessageTasks /\ hasId[j.order] \in BOOLEAN
    BY DEF TypeOK, Jobs
  <2>2. At("picked", j, hasId[j.order], "none") \in Busy
    BY <2>1, AtType DEF Answers
  <2>3. /\ At("picked", j, hasId[j.order], "none").pc = "picked"
        /\ At("picked", j, hasId[j.order], "none").job.task # "janitor"
    BY <2>1 DEF At, MessageTasks
  <2>4. UNCHANGED hand \/ Goto(w, At("picked", j, hasId[j.order], "none"))
    BY <1>3 DEF Pick, Skip
  <2>5. QED
    BY <1>1, <2>2, <2>3, <2>4
<1>4. ASSUME NEW w \in Workers, NEW o \in Orders, StartJanitor(w, o)
      PROVE  Starts
  <2>1. hasId[o] \in BOOLEAN
    BY DEF TypeOK
  <2>2. At("picked", Job("janitor", o, 0), hasId[o], "none") \in Busy
    BY <2>1, StartType DEF Tasks, Answers
  <2>3. /\ Goto(w, At("picked", Job("janitor", o, 0), hasId[o], "none"))
        /\ At("picked", Job("janitor", o, 0), hasId[o], "none").pc = "picked"
    BY <1>4 DEF StartJanitor, At
  <2>4. QED
    BY <1>4, <2>2, <2>3
<1>5. ASSUME NEW a \in Actors, hand[a].pc # "idle",
             \/ Goto(a, Idle)
             \/ \E pc, answer : pc # "picked" /\ Advance(a, pc, answer)
      PROVE  Started
  BY <1>0, <1>5, AdvanceStarted
<1>6. ASSUME NEW w \in Workers,
             \/ PassChecks(w) \/ ClaimOrder(w) \/ StartWatchdog(w) \/ Refuses(w)
             \/ Hears(w) \/ FetchFailed(w) \/ CancelFailed(w) \/ Records(w)
      PROVE  Started
  <2>0. w # Stream
    BY LedgerAssumption
  <2>1. hand[w].pc # "idle"
    BY <1>6, <2>0 DEF PassChecks, ClaimOrder, StartWatchdog, Refuses, RefuseBeforeClaim,
       RefuseAfterClaim, Hears, Creates, CreateAccepted, CreateRefused,
       CreateAnswerLost, FetchAnswered, CancelAtExchange, ProbeByClientId,
       ProbeMisses, FetchFailed, CancelFailed, Records, RecordReceipt, RecordFetch,
       RecordCancel, RecordProbe, Serving
  <2>2. \/ Goto(w, Idle)
        \/ \E pc, answer : pc # "picked" /\ Advance(w, pc, answer)
    <3>1. CASE \/ PassChecks(w) \/ ClaimOrder(w) \/ StartWatchdog(w)
               \/ Hears(w) \/ FetchFailed(w) \/ CancelFailed(w)
      BY <2>0, <3>1 DEF PassChecks, ClaimOrder, LoseRace, StartWatchdog, Hears, Creates,
         CreateAccepted, CreateRefused, CreateAnswerLost, FetchAnswered,
         CancelAtExchange, ProbeByClientId, ProbeMisses, FetchFailed,
         RetryOrGiveUp, CancelFailed
    <3>2. CASE Refuses(w) \/ Records(w)
      BY <3>2 DEF Refuses, RefuseBeforeClaim, RefuseAfterClaim, Records, RecordReceipt,
         RecordFetch, RecordCancel, RecordProbe, RecordEnd, RetryOrGiveUp,
         TransitionToFilled, TransitionToRejected, TransitionToCancelled,
         TransitionWithoutIdToRejected, Win, LoseRace
    <3>3. QED
      BY <1>6, <3>1, <3>2
  <2>3. QED
    BY <1>5, <2>1, <2>2
<1>7. CASE StreamNext \/ RecordUserCancel
  <2>1. \E a \in Actors :
          /\ hand[a].pc # "idle"
          /\ \/ Goto(a, Idle)
             \/ \E pc, answer : pc # "picked" /\ Advance(a, pc, answer)
    BY <1>7 DEF StreamNext, FetchSnapshot, RecordSnapshot, RecordUserCancel, Serving,
       RecordEnd, TransitionToFilled, TransitionToRejected, TransitionToCancelled,
       TransitionPendingToCancelled, Win, LoseRace
  <2>2. QED
    BY <1>5, <2>1
<1>8. ASSUME NEW o \in Orders, NEW end \in Terminal,
             HandleEvent(o, end) \/ LoseEvent(o, end) \/ ExchangeEnds(o, end)
      PROVE  Started
  BY <1>1, <1>8, GotoStarted DEF HandleEvent, LoseEvent, ExchangeEnds, At
<1>9. ASSUME \/ OwnerLeaves
             \/ \E a \in Actors : RunEffects(a) \/ Crash(a)
             \/ UNCHANGED vars
             \/ \E o \in Orders : RequestNext(o) \/ ScanNext(o)
      PROVE  Started
  BY <1>0, <1>1, <1>9 DEF OwnerLeaves, RunEffects, Crash, vars, RequestNext, SaveOrder,
     CountOrder, DispatchOrder, LoseRequest, ScanNext, ScanPending, ScanSubmitted
<1>10. ASSUME NEW w \in Workers,
              ExecuteNext(w) \/ FetchNext(w) \/ CancelNext(w) \/ JanitorNext(w)
       PROVE  Started
  BY <1>6, <1>10 DEF ExecuteNext, FetchNext, CancelNext, JanitorNext, Hears,
     Creates, Refuses, Records
<1>11. QED
  BY <1>2, <1>3, <1>4, <1>7, <1>8, <1>9, <1>10 DEF Next

\* What a handler hears of a refusal is so, or the exchange misreports it.
LEMMA RefusalIsTrue ==
  ASSUME TypeOK, TypeOK', CreateInv, UnsentAbsent, NEW a \in Actors, Hears(a), Answered(a)'
  PROVE  (/\ hand[a].answer = "rejected" => exchange[OrderOf(a)] \in {"rejected", "cancelled"}
          /\ hand[a].job.task = "execute" => creates[OrderOf(a)] > 0
          /\ hand[a].answer = "error" => hand[a].job.task = "execute" /\ NotLive(OrderOf(a))
          /\ hand[a].job.task = "janitor" /\ hand[a].answer = "absent"
               => NotLive(OrderOf(a)))'
<1>1. /\ OrderOf(a) \in Orders /\ OrderOf(a)' = OrderOf(a)
      /\ hand[a].pc # "idle" /\ hand'[a].job = hand[a].job
  BY HeardAnswer
<1>2. ~Goto(a, Idle)
  BY DEF Goto, Idle, Answered, TypeOK
<1>3. CASE a \in Workers /\ Creates(a)
  <2>1. hand[a].job.task = "execute"
    BY <1>3 DEF Creates, CreateAccepted, CreateRefused, CreateAnswerLost, Serving
  <2>2. creates'[OrderOf(a)] > 0 /\ exchange[OrderOf(a)] = "absent"
    BY <1>1, <1>3, CreatesOne DEF UnsentAbsent, TypeOK
  <2>3. \/ Advance(a, "answered", "submitted")
        \/ Advance(a, "answered", "filled")
        \/ Advance(a, "answered", "error") /\ exchange' = exchange
        \/ /\ Advance(a, "answered", "error")
           /\ misreported' = misreported \cup {OrderOf(a)}
        \/ \E end \in {"rejected", "cancelled"} :
             /\ Advance(a, "answered", "rejected")
             /\ exchange' = [exchange EXCEPT ![OrderOf(a)] = end]
    BY <1>3 DEF Creates, CreateAccepted, CreateRefused, CreateAnswerLost
  <2>4. QED
    BY <1>1, <2>1, <2>2, <2>3, AdvanceAnswer DEF NotLive, TypeOK
<1>4. CASE a \in Workers /\ CancelAtExchange(a)
  BY <1>1, <1>2, <1>4, AdvanceAnswer DEF CancelAtExchange, Serving
<1>5. CASE a \in Workers /\ FetchAnswered(a)
  <2>1. exchange[OrderOf(a)] \in ExchangeStates
    BY <1>1 DEF TypeOK
  <2>2. QED
    BY <1>1, <1>5, <2>1, AdvanceAnswer DEF FetchAnswered, Serving, ExchangeStates, Terminal
<1>6. CASE a \in Workers /\ (ProbeByClientId(a) \/ ProbeMisses(a))
  <2>1. exchange[OrderOf(a)] \in ExchangeStates
    BY <1>1 DEF TypeOK
  <2>2. hand[a].job.task = "janitor" /\ exchange' = exchange
    BY <1>6 DEF ProbeByClientId, ProbeMisses, Serving
  <2>3. \/ Advance(a, "answered", IF exchange[OrderOf(a)] = "open" THEN "submitted"
                                  ELSE exchange[OrderOf(a)])
        \/ Advance(a, "answered", "absent") /\ misreported' = misreported \cup {OrderOf(a)}
    BY <1>2, <1>6 DEF ProbeByClientId, ProbeMisses
  <2>4. QED
    BY <1>1, <2>1, <2>2, <2>3, AdvanceAnswer DEF NotLive, ExchangeStates, Terminal
<1>7. CASE a = Stream /\ FetchSnapshot
  BY <1>1, <1>2, <1>7, AdvanceAnswer DEF FetchSnapshot, Serving, Terminal
<1>8. QED
  BY <1>3, <1>4, <1>5, <1>6, <1>7 DEF Hears

\* One that hears leaves the other hands alone.
LEMMA HearsAlone ==
  ASSUME TypeOK, NEW a \in Actors, NEW b \in Actors, b # a, Hears(b)
  PROVE  hand'[a] = hand[a]
<1>1. Goto(b, Idle) \/ \E answer : Advance(b, "answered", answer)
  BY DEF Hears, Creates, CreateAccepted, CreateRefused, CreateAnswerLost,
     FetchAnswered, CancelAtExchange, ProbeByClientId, ProbeMisses, FetchSnapshot
<1>2. QED
  BY <1>1 DEF Advance, Goto, TypeOK

LEMMA RefusalsStep ==
  ASSUME TypeOK, TypeOK', CreateInv, TruthInv, TrackInv, [Next]_vars
  PROVE  RefusalsTrue'
<1> DEFINE R(a) == /\ hand[a].answer = "rejected"
                        => exchange[OrderOf(a)] \in {"rejected", "cancelled"}
                   /\ hand[a].job.task = "execute" => creates[OrderOf(a)] > 0
                   /\ hand[a].answer = "error"
                        => hand[a].job.task = "execute" /\ NotLive(OrderOf(a))
                   /\ hand[a].job.task = "janitor" /\ hand[a].answer = "absent"
                        => NotLive(OrderOf(a))
<1>1. ASSUME NEW a \in Actors, Answered(a)'
      PROVE  R(a)'
  <2>1. CASE Hears(a)
    BY <1>1, <2>1, RefusalIsTrue DEF TruthInv
  <2>2. CASE hand'[a] = hand[a]
    <3>1. Answered(a) /\ OrderOf(a) \in Orders /\ OrderOf(a)' = OrderOf(a)
      BY <1>1, <2>2, BusyHand DEF Answered, OrderOf
    <3>2. R(a)
      BY <3>1 DEF TrackInv, RefusalsTrue
    <3>3. /\ exchange[OrderOf(a)] \in Terminal
               => exchange'[OrderOf(a)] = exchange[OrderOf(a)]
          /\ creates[OrderOf(a)] > 0 => creates'[OrderOf(a)] > 0
      BY <3>1, ExchangeSteps DEF TruthInv
    <3>4. /\ hand[a].answer = "error" => Unclaimed(OrderOf(a))
          /\ hand[a].job.task = "janitor" => Unclaimed(OrderOf(a))
      BY <3>1, <3>2, NobodyClaims DEF TruthInv, TrackInv, JanitorAlone, Sweeping, Answered
    <3>5. NotLive(OrderOf(a)) /\ Unclaimed(OrderOf(a)) => NotLive(OrderOf(a))'
      <4>1. ASSUME NEW o \in Orders, NotLive(o), Unclaimed(o)
            PROVE  NotLive(o)'
        BY <4>1, NotLiveStays DEF TruthInv
      <4>2. QED
        BY <3>1, <4>1 DEF NotLive
    <3>6. QED
      BY <2>2, <3>1, <3>2, <3>3, <3>4, <3>5 DEF Terminal
  <2>3. QED
    BY <1>1, <2>1, <2>2, AnswerCases, HearsAlone DEF Silent
<1>2. QED
  BY <1>1 DEF RefusalsTrue

\* The janitor takes up a submitted row that no handler is sending; nobody can
\* claim it any more.
LEMMA JanitorStep ==
  ASSUME ~AllowStall, TypeOK, TypeOK', CreateInv, TruthInv, TrackInv, [Next]_vars
  PROVE  JanitorAlone'
<1>1. ASSUME NEW o \in Orders, state[o] \notin Early, Unclaimed(o)
      PROVE  state'[o] \notin Early /\ Unclaimed(o)'
  <2>1. state'[o] \notin Early
    <3>1. CASE CreatesStill
      BY <1>1, <3>1 DEF CreatesStill, Moves
    <3>2. ASSUME NEW p \in Orders, SaveOrder(p)
          PROVE  state'[o] \notin Early
      BY <1>1, <3>2 DEF SaveOrder, CreateInv, Unsaved, Early, TypeOK
    <3>3. ASSUME NEW w \in Workers, ClaimOrder(w)
          PROVE  state'[o] \notin Early
      BY <1>1, <3>3 DEF ClaimOrder, LoseRace, Early, TypeOK
    <3>4. ASSUME NEW w \in Workers, Creates(w)
          PROVE  state'[o] \notin Early
      BY <1>1, <3>4, CreatesOne
    <3>5. QED
      BY <3>1, <3>2, <3>3, <3>4, StepCases DEF Creates
  <2>2. QED
    BY <1>1, <2>1, UnclaimedStays DEF Early
<1>2. ASSUME NEW a \in Actors, Sweeping(a)'
      PROVE  (state[OrderOf(a)] \notin Early /\ Unclaimed(OrderOf(a)))'
  <2>1. CASE Sweeping(a) /\ OrderOf(a)' = OrderOf(a)
    <3>1. OrderOf(a) \in Orders
      BY <2>1, BusyHand DEF Sweeping
    <3>2. state[OrderOf(a)] \notin Early /\ Unclaimed(OrderOf(a))
      BY <2>1 DEF TrackInv, JanitorAlone
    <3>3. state'[OrderOf(a)] \notin Early
      BY <1>1, <3>1, <3>2
    <3>4. \A o \in Orders : o = OrderOf(a) => Unclaimed(o)'
      BY <1>1, <3>2
    <3>5. QED
      BY <2>1, <3>1, <3>3, <3>4 DEF Unclaimed
  <2>2. ASSUME NEW o \in Orders, StartJanitor(a, o)
        PROVE  (state[OrderOf(a)] \notin Early /\ Unclaimed(OrderOf(a)))'
    <3>1. OrderOf(a)' = o
      BY <2>2 DEF StartJanitor, Goto, At, Job, OrderOf, TypeOK
    <3>2. state[o] = "submitted" /\ Unclaimed(o)
      BY <2>2 DEF StartJanitor, StaleConditional, Sending, Unclaimed, Claimed,
         Serving, OrderOf
    <3>3. state'[o] \notin Early /\ Unclaimed(o)'
      BY <1>1, <3>2 DEF Early
    <3>4. QED
      BY <3>1, <3>3 DEF Unclaimed
  <2>3. CASE hand'[a] = hand[a]
    BY <1>2, <2>1, <2>3 DEF Sweeping, OrderOf
  <2>4. CASE Hears(a) /\ Answered(a)'
    <3>1. /\ hand[a].pc \in {"claimed", "picked"}
          /\ hand'[a].job = hand[a].job
          /\ OrderOf(a)' = OrderOf(a)
      BY <2>4, HeardAnswer
    <3>2. hand[a].pc = "claimed" => hand[a].job.task = "execute"
      BY <2>4 DEF Hears, Creates, CreateAccepted, CreateRefused, CreateAnswerLost,
         FetchAnswered, CancelAtExchange, ProbeByClientId, ProbeMisses,
         FetchSnapshot, Serving
    <3>3. Sweeping(a)
      BY <1>2, <3>1, <3>2 DEF Sweeping
    <3>4. QED
      BY <2>1, <3>1, <3>3
  <2>5. ASSUME NEW b \in Actors, NEW h \in Busy, Goto(b, h), h.pc = "picked",
               h.job.task # "janitor" \/ \E o \in Orders : StartJanitor(b, o)
        PROVE  hand'[a] = hand[a] \/ \E o \in Orders : StartJanitor(a, o)
    BY <1>2, <2>5 DEF Goto, TypeOK, Sweeping
  <2>6. CASE hand'[a].pc = "picked"
    BY <2>2, <2>3, <2>5, <2>6, StartCases DEF Started
  <2>7. CASE Answered(a)'
    BY <2>3, <2>4, <2>7, AnswerCases, HearsAlone DEF Silent
  <2>8. QED
    BY <1>2, <2>6, <2>7 DEF Sweeping, Answered
<1>3. QED
  BY <1>2 DEF JanitorAlone

\* A row is rejected by the handler that holds its claim, or as the exchange
\* has been heard not to have it.
LEMMA RejectedAsHeard ==
  ASSUME TypeOK, CreateInv, TruthInv, TrackInv, [Next]_vars, NEW o \in Orders,
         state'[o] = "rejected", state[o] # "rejected"
  PROVE  \/ NotLive(o) /\ Unclaimed(o)
         \/ \E w \in Workers : RefuseAfterClaim(w) /\ OrderOf(w) = o
<1> DEFINE Heard == \/ NotLive(o) /\ Unclaimed(o)
                    \/ \E w \in Workers : RefuseAfterClaim(w) /\ OrderOf(w) = o
<1> USE ActorTypes
<1>1. ASSUME NEW p \in Orders, SaveOrder(p)
      PROVE  Heard
  BY <1>1 DEF SaveOrder, TypeOK
<1>2. ASSUME NEW w \in Workers, ClaimOrder(w) \/ Refuses(w)
      PROVE  Heard
  <2>1. OrderOf(w) \in Orders
    BY <1>2, BusyHand DEF ClaimOrder, Refuses, RefuseBeforeClaim, RefuseAfterClaim, Serving
  <2>2. ~RefuseBeforeClaim(w)
    BY DEF RefuseBeforeClaim, TrackInv
  <2>3. CASE ClaimOrder(w)
    BY <2>1, <2>3 DEF ClaimOrder, LoseRace, TypeOK
  <2>4. CASE RefuseAfterClaim(w)
    BY <2>1, <2>4 DEF RefuseAfterClaim, TransitionToRejected, Win, LoseRace, TypeOK
  <2>5. QED
    BY <1>2, <2>2, <2>3, <2>4 DEF Refuses
<1>3. ASSUME NEW a \in Actors, (a \in Workers /\ Records(a)) \/ (a = Stream /\ RecordSnapshot)
      PROVE  Heard
  <2>1. Answered(a)
    BY <1>3 DEF Records, RecordReceipt, RecordFetch, RecordCancel, RecordProbe,
       RecordSnapshot, Serving, Answered
  <2>2. /\ OrderOf(a) \in Orders
        /\ hand[a].answer = "rejected" => exchange[OrderOf(a)] \in {"rejected", "cancelled"}
        /\ hand[a].job.task = "execute" => creates[OrderOf(a)] > 0
        /\ hand[a].answer = "error" => hand[a].job.task = "execute" /\ NotLive(OrderOf(a))
        /\ hand[a].job.task = "janitor" /\ hand[a].answer = "absent" => NotLive(OrderOf(a))
        /\ hand[a].job.task = "janitor" => Unclaimed(OrderOf(a))
    BY <2>1, BusyHand DEF Answered, TrackInv, RefusalsTrue, JanitorAlone, Sweeping
  <2>3. OrderOf(a) = o
    BY <1>3, <2>2 DEF Records, RecordReceipt, RecordFetch, RecordCancel, RecordProbe,
       RecordSnapshot, RecordEnd, TransitionToFilled, TransitionToRejected,
       TransitionToCancelled, TransitionWithoutIdToRejected, Win, LoseRace, TypeOK
  <2>4. CASE hand[a].answer = "rejected"
    <3>1. NotLive(o) /\ exchange[o] # "absent"
      BY <2>2, <2>3, <2>4 DEF NotLive
    <3>2. QED
      BY <3>1, NobodyClaims DEF TruthInv
  <2>5. CASE hand[a].answer = "error"
    BY <2>2, <2>3, <2>5, NobodyClaims DEF TruthInv
  <2>6. CASE hand[a].answer = "absent" /\ hand[a].job.task = "janitor"
    BY <2>2, <2>3, <2>6
  <2>7. CASE \/ hand[a].answer \in {"filled", "cancelled", "submitted"}
             \/ hand[a].job.task = "cancel"
    BY <1>3, <2>2, <2>7 DEF Records, RecordReceipt, RecordFetch, RecordCancel, RecordProbe,
       RecordSnapshot, RecordEnd, TransitionToFilled, Acknowledges, SaysFilled,
       TransitionToCancelled, Win, LoseRace, TypeOK, Serving
  <2>8. QED
    BY <1>3, <2>4, <2>5, <2>6, <2>7 DEF Records, RecordReceipt, RecordFetch,
       RecordCancel, RecordProbe, RecordSnapshot, RecordEnd, SaysFilled, Serving
<1>4. CASE RecordUserCancel
  <2>1. OrderOf(Web) \in Orders
    BY <1>4, BusyHand DEF RecordUserCancel, Serving
  <2>2. QED
    BY <1>4, <2>1 DEF RecordUserCancel, TransitionPendingToCancelled, Win, LoseRace, TypeOK
<1>5. ASSUME NEW p \in Orders, NEW end \in Terminal, HandleEvent(p, end)
      PROVE  Heard
  <2>1. exchange[p] = end
    BY <1>5 DEF HandleEvent, TruthInv, EventsTrue
  <2>2. p = o /\ end = "rejected"
    BY <1>5 DEF HandleEvent, TypeOK
  <2>3. QED
    BY <2>1, <2>2, NobodyClaims DEF NotLive, TruthInv
<1>6. QED
  BY <1>1, <1>2, <1>3, <1>4, <1>5, WriterCases

LEMMA RejectedStep ==
  ASSUME TypeOK, TypeOK', CreateInv, TruthInv, TrackInv, [Next]_vars
  PROVE  RejectedSettled'
<1>1. ASSUME NEW o \in Orders, NotLive(o), Unclaimed(o), state'[o] = "rejected"
      PROVE  Unclaimed(o)' /\ NotLive(o)'
  BY <1>1, UnclaimedStays, NotLiveStays DEF TruthInv
<1>2. ASSUME NEW o \in Orders, NEW w \in Workers, RefuseAfterClaim(w), OrderOf(w) = o
      PROVE  Unclaimed(o)' /\ NotLive(o)'
  <2>1. Claimed(w) /\ hand[w].pc # "idle" /\ exchange' = exchange
    BY <1>2 DEF RefuseAfterClaim, Claimed, Serving
  <2>2. exchange[o] = "absent"
    BY <1>2, <2>1 DEF CreateInv, ClaimedUnsent, TruthInv, UnsentAbsent
  <2>3. Keeps
    BY <1>2, <2>1, RecordEndQuiet, ActorTypes DEF RefuseAfterClaim
  <2>4. ~Claimed(w)'
    <3>1. Goto(w, Idle) \/ \E answer : Advance(w, "won", answer)
      BY <1>2 DEF RefuseAfterClaim, TransitionToRejected, Win, LoseRace
    <3>2. QED
      BY <2>1, <3>1, AdvanceAnswer, ActorTypes DEF Goto, Idle, Claimed, Serving, TypeOK
  <2>5. \A v \in Workers : Claimed(v) /\ OrderOf(v) = o => v = w
    BY <1>2, <2>1 DEF CreateInv, OneClaimant
  <2>6. Unclaimed(o)'
    BY <2>3, <2>4, <2>5 DEF Keeps, Unclaimed
  <2>7. QED
    BY <2>1, <2>2, <2>6 DEF NotLive
<1>3. ASSUME NEW o \in Orders, state'[o] = "rejected"
      PROVE  Unclaimed(o)' /\ NotLive(o)'
  <2>1. CASE state[o] = "rejected"
    BY <1>1, <1>3, <2>1 DEF TrackInv, RejectedSettled
  <2>2. CASE state[o] # "rejected"
    BY <1>1, <1>2, <1>3, <2>2, RejectedAsHeard
  <2>3. QED
    BY <2>1, <2>2
<1>4. QED
  BY <1>3 DEF RejectedSettled

LEMMA OwnerStays ==
  ASSUME ~OwnerMayLeave, ~barred, [Next]_vars
  PROVE  ~barred'
<1>1. ASSUME NEW o \in Orders, RequestNext(o) \/ RequestCancel(o) \/ ScanNext(o)
      PROVE  UNCHANGED barred
  BY <1>1 DEF RequestNext, SaveOrder, CountOrder, DispatchOrder, LoseRequest,
     RequestCancel, ScanNext, ScanPending, ScanSubmitted
<1>2. ASSUME NEW w \in Workers, ExecuteNext(w) \/ FetchNext(w) \/ CancelNext(w)
                               \/ JanitorNext(w)
      PROVE  UNCHANGED barred
  BY <1>2 DEF ExecuteNext, PassChecks, RefuseBeforeClaim, ClaimOrder,
     RefuseAfterClaim, CreateAccepted, CreateRefused, CreateAnswerLost,
     RecordReceipt, StartWatchdog, FetchNext, FetchAnswered, FetchFailed,
     RecordFetch, CancelNext, CancelAtExchange, CancelFailed, RecordCancel,
     JanitorNext, ProbeByClientId, ProbeMisses, RecordProbe
<1>3. ASSUME \/ \E w \in Workers : \E j \in queue : Pick(w, j) \/ Skip(w, j)
             \/ \E w \in Workers, o \in Orders : StartJanitor(w, o)
             \/ StreamNext \/ RecordUserCancel
             \/ \E o \in Orders : StartReconcile(o)
             \/ \E o \in Orders, end \in Terminal :
                  HandleEvent(o, end) \/ LoseEvent(o, end) \/ ExchangeEnds(o, end)
             \/ \E a \in Actors : RunEffects(a) \/ Crash(a)
             \/ UNCHANGED vars
      PROVE  UNCHANGED barred
  BY <1>3 DEF Pick, Skip, StartJanitor, StreamNext, FetchSnapshot,
     RecordSnapshot, RecordUserCancel, StartReconcile, HandleEvent, LoseEvent,
     ExchangeEnds, RunEffects, Crash, vars
<1>4. ~OwnerLeaves
  BY DEF OwnerLeaves
<1>5. QED
  BY <1>1, <1>2, <1>3, <1>4 DEF Next

LEMMA TrackInit == Init => TrackInv
BY DEF Init, TrackInv, RefusalsTrue, JanitorAlone, RejectedSettled, Answered,
   Sweeping, Idle

LEMMA TrackStep ==
  ASSUME ~OwnerMayLeave, ~AllowStall, TypeOK, TypeOK', CreateInv, TruthInv,
         TrackInv, [Next]_vars
  PROVE  TrackInv'
<1>1. ~barred'
  BY OwnerStays DEF TrackInv
<1>2. RefusalsTrue' /\ JanitorAlone' /\ RejectedSettled'
  BY RefusalsStep, JanitorStep, RejectedStep
<1>3. QED
  BY <1>1, <1>2 DEF TrackInv

LEMMA TrackedAll ==
  ASSUME TypeOK, CreateInv, TruthInv, TrackInv
  PROVE  ExchangeAgrees
<1>1. ASSUME NEW o \in Orders, exchange[o] \in {"open", "filled"}, o \notin misreported
      PROVE  state[o] \in {"submitted", "filled"}
  <2>1. creates[o] # 0
    BY <1>1 DEF TruthInv, UnsentAbsent
  <2>2. state[o] \notin {"none", "pending"}
    BY <2>1 DEF CreateInv, EarlyUnsent, Early
  <2>3. state[o] # "rejected"
    BY <1>1 DEF TrackInv, RejectedSettled, NotLive
  <2>4. state[o] # "cancelled"
    BY <1>1, <2>1 DEF TruthInv, CancelledSettled
  <2>5. QED
    BY <2>2, <2>3, <2>4 DEF TypeOK, States, Active, Terminal
<1>2. QED
  BY <1>1 DEF ExchangeAgrees, LiveIsTracked, TruthInv

\* As long as the owner stays and no worker holds a claim past the janitor's 30
\* minutes, ledger and exchange agree: no fill is invented, and what lives or
\* filled at the exchange is submitted or filled in the ledger unless the
\* exchange itself said something else of it.
THEOREM ExchangeAgreed ==
  ASSUME ~OwnerMayLeave, ~AllowStall
  PROVE  Spec => []ExchangeAgrees
<1>1. TypeOK /\ TypeOK' /\ CreateInv /\ TruthInv /\ TrackInv /\ [Next]_vars => TrackInv'
  BY TrackStep
<1>2. TypeOK /\ CreateInv /\ TruthInv /\ TrackInv => ExchangeAgrees
  BY TrackedAll
<1>3. QED
  BY <1>1, <1>2, TypeInit, TypeStep, CreateInit, CreateStep, TruthInit, TruthStep,
     TrackInit, PTL DEF Spec

-----------------------------------------------------------------------------
(* The ledger implements OrderLifecycle, under the same two conditions: a    *)
(* row that was rejected under the hands of the handler that claimed it      *)
(* would be sent after its end.                                              *)

\* A row that is claimed is submitted, whoever else handles it.
LEMMA ClaimedIsSubmitted ==
  ASSUME TypeOK, CreateInv, TruthInv, TrackInv, NEW w \in Workers, Claimed(w)
  PROVE  state[OrderOf(w)] = "submitted"
<1> DEFINE o == OrderOf(w)
<1>1. o \in Orders
  BY BusyHand, ActorTypes DEF Claimed, Serving
<1>2. creates[o] = 0 /\ state[o] \notin Early
  BY DEF CreateInv, ClaimedUnsent
<1>3. ~Unclaimed(o) /\ exchange[o] = "absent"
  BY <1>1, <1>2 DEF Unclaimed, TruthInv, UnsentAbsent
<1>4. state[o] \notin {"filled", "cancelled", "rejected"}
  BY <1>1, <1>3 DEF TruthInv, FilledAtExchange, CancelledSettled, TrackInv, RejectedSettled
<1>5. QED
  BY <1>1, <1>2, <1>4 DEF TypeOK, States, Active, Terminal, Early

\* A step that ends no row and saves none leaves the rows alone or claims one.
LEMMA StillRows ==
  ASSUME TypeOK, CreateInv, RowsStill, [Next]_vars
  PROVE  UNCHANGED state \/ \E w \in Workers : ClaimOrder(w)
<1> USE ActorTypes
<1>1. ASSUME NEW a \in Actors, OrderOf(a) \in Orders,
             \/ \E end \in Terminal : RecordEnd(a, OrderOf(a), end)
             \/ TransitionToFilled(a, OrderOf(a))
             \/ TransitionToRejected(a, OrderOf(a))
             \/ TransitionToCancelled(a, OrderOf(a))
             \/ TransitionWithoutIdToRejected(a, OrderOf(a))
             \/ TransitionPendingToCancelled(a, OrderOf(a))
      PROVE  UNCHANGED state
  <2>1. \/ LoseRace(a)
        \/ \E end \in Terminal : state[OrderOf(a)] \in Active /\ Win(a, OrderOf(a), end)
    BY <1>1 DEF RecordEnd, TransitionToFilled, TransitionToRejected, TransitionToCancelled,
         TransitionWithoutIdToRejected, TransitionPendingToCancelled, Terminal,
         From, Active, WithoutId, UserCancellable
  <2>2. QED
    BY <1>1, <2>1 DEF LoseRace, Win, RowsStill, Active, Terminal, TypeOK
<1>2. ASSUME NEW o \in Orders, SaveOrder(o)
      PROVE  FALSE
  BY <1>2 DEF SaveOrder, CreateInv, Unsaved, RowsStill, Active, TypeOK
<1>3. ASSUME NEW w \in Workers, Refuses(w) \/ Records(w)
      PROVE  UNCHANGED state
  <2>1. OrderOf(w) \in Orders
    BY <1>3, BusyHand DEF Refuses, RefuseBeforeClaim, RefuseAfterClaim, Records,
       RecordReceipt, RecordFetch, RecordCancel, RecordProbe, Serving
  <2>2. CASE Refuses(w) \/ RecordCancel(w)
    BY <1>1, <2>1, <2>2 DEF Refuses, RefuseBeforeClaim, RefuseAfterClaim, RecordCancel
  <2>3. CASE RecordReceipt(w)
    BY <1>1, <2>1, <2>3 DEF RecordReceipt
  <2>4. CASE RecordFetch(w)
    BY <1>1, <2>1, <2>4 DEF RecordFetch, RecordEnd, Terminal
  <2>5. CASE RecordProbe(w)
    BY <1>1, <2>1, <2>5 DEF RecordProbe, RecordEnd, Terminal
  <2>6. QED
    BY <1>3, <2>2, <2>3, <2>4, <2>5 DEF Records
<1>4. CASE RecordUserCancel
  BY <1>1, <1>4, BusyHand DEF RecordUserCancel, Serving
<1>5. CASE RecordSnapshot
  BY <1>1, <1>5, BusyHand DEF RecordSnapshot, Serving, RecordEnd, Terminal
<1>6. ASSUME NEW o \in Orders, NEW end \in Terminal, HandleEvent(o, end)
      PROVE  UNCHANGED state
  BY <1>6 DEF HandleEvent, From, RowsStill, Active, Terminal, TypeOK
<1>7. QED
  BY <1>2, <1>3, <1>4, <1>5, <1>6, WriterCases

\* A counter that goes up from nought raises its flag in the abstract state.
LEMMA FlagRaised ==
  ASSUME NEW f \in [Orders -> Nat], NEW x \in Orders
  PROVE  [o \in Orders |-> [f EXCEPT ![x] = @ + 1][o] > 0]
           = [[o \in Orders |-> f[o] > 0] EXCEPT ![x] = TRUE]
<1> DEFINE g == [f EXCEPT ![x] = @ + 1]
<1>1. ASSUME NEW o \in Orders
      PROVE  (g[o] > 0) = (IF o = x THEN TRUE ELSE f[o] > 0)
  <2>1. CASE o = x
    <3>1. g[o] > 0
      BY <2>1
    <3>2. QED
      BY <2>1, <3>1
  <2>2. CASE o # x
    <3>1. g[o] = f[o]
      BY <2>2
    <3>2. QED
      BY <2>2, <3>1
  <2>3. QED
    BY <2>1, <2>2
<1> HIDE DEF g
<1>2. [o \in Orders |-> g[o] > 0] = [o \in Orders |-> IF o = x THEN TRUE ELSE f[o] > 0]
  BY <1>1, Zenon
<1>3. [o \in Orders |-> IF o = x THEN TRUE ELSE f[o] > 0]
        = [[o \in Orders |-> f[o] > 0] EXCEPT ![x] = TRUE]
  BY Zenon
<1>4. QED
  BY <1>2, <1>3 DEF g

LEMMA LifecycleInit == Init => Lifecycle!Init
<1> SUFFICES ASSUME Init PROVE Lifecycle!Init
  OBVIOUS
<1>1. \A o \in Orders : (creates[o] > 0) = FALSE /\ (effects[o] > 0) = FALSE
  BY DEF Init
<1>2. state = [o \in Orders |-> "none"]
  BY DEF Init
<1>3. QED
  BY <1>1, <1>2, Zenon DEF Lifecycle!Init

LEMMA LifecycleStep ==
  ASSUME TypeOK, TypeOK', CreateInv, EndInv, TruthInv, TrackInv, [Next]_vars
  PROVE  [Lifecycle!Next]_(Lifecycle!vars)
<1> USE ActorTypes
<1>1. UNCHANGED <<state, creates, effects>> => UNCHANGED Lifecycle!vars
  BY DEF Lifecycle!vars
<1>2. ASSUME NEW o \in Orders, SaveOrder(o)
      PROVE  Lifecycle!Place(o)
  BY <1>2 DEF SaveOrder, CreateInv, Unsaved, Lifecycle!Place
<1>3. ASSUME NEW w \in Workers, ClaimOrder(w)
      PROVE  UNCHANGED <<state, creates, effects>> \/ Lifecycle!Claim(OrderOf(w))
  BY <1>3 DEF ClaimOrder, LoseRace, Claimable, Lifecycle!Claim
<1>4. ASSUME NEW w \in Workers, Creates(w)
      PROVE  Lifecycle!Send(OrderOf(w)) /\ OrderOf(w) \in Orders
  <2>1. state[OrderOf(w)] = "submitted"
    BY <1>4, CreatesOne, ClaimedIsSubmitted
  <2>2. effects' = effects
    BY <1>4 DEF Creates, CreateAccepted, CreateRefused, CreateAnswerLost
  <2>3. /\ OrderOf(w) \in Orders
        /\ creates' = [creates EXCEPT ![OrderOf(w)] = @ + 1]
        /\ creates \in [Orders -> Nat]
        /\ ~(creates[OrderOf(w)] > 0)
        /\ state' = state
    BY <1>4, CreatesOne DEF TypeOK
  <2>4. [o \in Orders |-> creates'[o] > 0]
          = [[o \in Orders |-> creates[o] > 0] EXCEPT ![OrderOf(w)] = TRUE]
    BY <2>3, FlagRaised
  <2>5. QED
    BY <2>1, <2>2, <2>3, <2>4, Zenon DEF Lifecycle!Send
<1>5. ASSUME NEW a \in Actors, NEW o \in Orders, Wins(a, o)
      PROVE  \E end \in Terminal : Lifecycle!Withdraw(o, end) \/ Lifecycle!Fill(o)
  <2>1. /\ state[o] \in Active /\ state'[o] \in Terminal /\ state'[o] # state[o]
        /\ effects' = effects
    BY <1>5 DEF Wins, CountersStill, Active, Terminal
  <2>2. state' = [state EXCEPT ![o] = state'[o]]
    BY <1>5 DEF Wins, TypeOK
  <2>3. creates' = creates
    <3>1. ~\E w \in Workers : Creates(w)
      BY <2>1, CreatesOne
    <3>2. QED
      BY <3>1, ExchangeCases DEF ExchangeKeeps, ExchangeMoves
  <2>4. /\ state'[o] = "filled" => exchange[o] = "filled"
        /\ state'[o] = "cancelled" => exchange[o] = "cancelled" \/ state[o] = "pending"
    BY <2>1, EndsAreHeard DEF TruthInv
  <2>5. exchange[o] # "absent" => creates[o] > 0 /\ state[o] = "submitted"
    BY <2>1 DEF TruthInv, UnsentAbsent, CreateInv, EarlyUnsent, Early, Active, TypeOK
  <2>6. CASE state'[o] = "filled"
    BY <2>1, <2>2, <2>3, <2>4, <2>5, <2>6 DEF Lifecycle!Fill, Terminal
  <2>7. CASE state'[o] \in {"rejected", "cancelled"}
    BY <2>1, <2>2, <2>3, <2>4, <2>5, <2>7 DEF Lifecycle!Withdraw, Terminal, Active
  <2>8. QED
    BY <2>1, <2>6, <2>7 DEF Terminal
<1>6. ASSUME NEW a \in Actors, RunEffects(a), Won(a)
      PROVE  Lifecycle!Settle(OrderOf(a)) /\ OrderOf(a) \in Orders
  <2>1. /\ OrderOf(a) \in Orders
        /\ state[OrderOf(a)] \in Terminal
        /\ effects[OrderOf(a)] = 0
    BY <1>6, BusyHand DEF EndInv, WonIsEnded, Won
  <2>2. /\ effects' = [effects EXCEPT ![OrderOf(a)] = @ + 1]
        /\ effects \in [Orders -> Nat]
        /\ state' = state /\ creates' = creates
    BY <1>6 DEF RunEffects, TypeOK
  <2>3. [o \in Orders |-> effects'[o] > 0]
          = [[o \in Orders |-> effects[o] > 0] EXCEPT ![OrderOf(a)] = TRUE]
    BY <2>1, <2>2, FlagRaised
  <2>4. ~(effects[OrderOf(a)] > 0) /\ state[OrderOf(a)] \in Lifecycle!Terminal
    BY <2>1 DEF Terminal, Lifecycle!Terminal
  <2>5. QED
    BY <2>1, <2>2, <2>3, <2>4, Zenon DEF Lifecycle!Settle
<1>7. ASSUME NEW a \in Actors, Crash(a)
      PROVE  UNCHANGED <<state, creates, effects>>
  BY <1>7 DEF Crash
<1>8. ASSUME NEW o \in Orders, CountOrder(o) \/ LoseRequest(o)
      PROVE  UNCHANGED <<state, creates, effects>>
  BY <1>8 DEF CountOrder, LoseRequest
<1>9. CASE Still
  <2>1. effects' = effects
    BY <1>9 DEF Still, CountersStill
  <2>2. CASE UNCHANGED state
    <3>1. CASE creates' = creates
      BY <1>1, <2>1, <2>2, <3>1
    <3>2. ASSUME NEW w \in Workers, Creates(w)
          PROVE  Lifecycle!Next
      <4>1. PICK o \in Orders : o = OrderOf(w)
        BY <1>4, <3>2
      <4>2. Lifecycle!Send(o)
        BY <1>4, <3>2, <4>1, Zenon DEF Lifecycle!Send
      <4>3. QED
        BY <4>2 DEF Lifecycle!Next
    <3>3. QED
      BY <3>1, <3>2, ExchangeCases DEF ExchangeKeeps, ExchangeMoves
  <2>3. ASSUME NEW w \in Workers, ClaimOrder(w)
        PROVE  [Lifecycle!Next]_(Lifecycle!vars)
    <3>1. OrderOf(w) \in Orders
      BY <2>3, BusyHand DEF ClaimOrder, Serving
    <3>2. QED
      BY <1>1, <1>3, <2>3, <3>1 DEF Lifecycle!Next
  <2>4. QED
    BY <1>9, <2>2, <2>3, StillRows DEF Still
<1>10. ASSUME NEW a \in Actors, NEW o \in Orders, Wins(a, o)
       PROVE  Lifecycle!Next
  BY <1>5, <1>10 DEF Lifecycle!Next, Lifecycle!Withdraw
<1>11. ASSUME NEW o \in Orders, SaveOrder(o)
       PROVE  Lifecycle!Next
  BY <1>2, <1>11 DEF Lifecycle!Next
<1>12. ASSUME NEW a \in Actors, Won(a), RunEffects(a)
       PROVE  Lifecycle!Next
  <2>1. PICK o \in Orders : o = OrderOf(a)
    BY <1>6, <1>12
  <2>2. Lifecycle!Settle(o)
    BY <1>6, <1>12, <2>1, Zenon DEF Lifecycle!Settle
  <2>3. QED
    BY <2>2 DEF Lifecycle!Next
<1>13. QED
  BY <1>1, <1>7, <1>8, <1>9, <1>10, <1>11, <1>12, EndCases

\* Every behaviour of the ledger, with any number of orders, workers, lost
\* answers and crashes, is one of OrderLifecycle: the row moves along its
\* states, the exchange is asked once and only while the row says submitted, and
\* what follows the end runs at most once.
THEOREM LedgerImplements ==
  ASSUME ~OwnerMayLeave, ~AllowStall
  PROVE  Spec => LifecycleSpec
<1>1. TypeOK /\ TypeOK' /\ CreateInv /\ TruthInv /\ TrackInv /\ [Next]_vars => TrackInv'
  BY TrackStep
<1>2. TypeOK /\ TypeOK' /\ CreateInv /\ EndInv /\ TruthInv /\ TrackInv /\ [Next]_vars
        => [Lifecycle!Next]_(Lifecycle!vars)
  BY LifecycleStep
<1>3. QED
  BY <1>1, <1>2, TypeInit, TypeStep, CreateInit, CreateStep, EndInit, EndStep,
     TruthInit, TruthStep, TrackInit, LifecycleInit, PTL
     DEF Spec, LifecycleSpec, Lifecycle!Spec
=============================================================================
