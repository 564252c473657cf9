------------------------ MODULE SignalOutboxProofs -------------------------
(***************************************************************************)
(* Proofs about SignalOutbox, and with it about OrderAdmission, for any    *)
(* processes, keys, payloads, events and bounds.                           *)
(***************************************************************************)
EXTENDS SignalOutbox, FiniteSetTheorems, TLAPS

States == Steps \cup Outcomes

\* What the code relies on at each step of a call: whoever is past the lock holds
\* it, the key of an INSERT is free, a call past the gate was let through or found
\* the order, and a call that is answered with an order has it.
Holds(p) == call[p].pc \in {"locked", "inserted"} => lock[KeyOf(p)] = p
Fresh(p) == call[p].pc = "inserted" => ~order[KeyOf(p)].row
Passed(p) ==
  call[p].pc \in {"lock", "locked", "inserted"}
    => call[p].gated \/ order[KeyOf(p)].row
Fits(p) ==
  /\ call[p].pc \in {"committed", "created", "replayed"} => order[KeyOf(p)].row
  /\ call[p].pc \in {"committed", "created", "replayed"}
       => call[p].body \in {None, order[KeyOf(p)].hash}
Delivered(p) ==
  p \in Workers /\ call[p] # Idle
    => KeyOf(p) \in Events /\ call[p].tries \in 0..MaxRetries

CallOK(p) == Holds(p) /\ Fresh(p) /\ Passed(p) /\ Fits(p) /\ Delivered(p)

IInv == TypeOK /\ DispatchedHasOrder /\ \A p \in Procs : CallOK(p)

\* What any step of process p does to the shared rows and to the other calls.
LockStep(p) ==
  \A k \in Keys : \/ lock'[k] = lock[k]
                  \/ lock[k] \in {None, p} /\ lock'[k] \in {None, p}
OrderStep(p) ==
  \A k \in Keys : \/ order'[k] = order[k]
                  \/ lock[k] = p /\ ~order[k].row /\ order'[k].row
ProcStep(p) ==
  /\ \A q \in Procs : q # p => call'[q] = call[q]
  /\ LockStep(p)
  /\ OrderStep(p)

-----------------------------------------------------------------------------
LEMMA InCall ==
  ASSUME TypeOK, NEW p \in Procs, call[p].pc # "idle"
  PROVE  /\ call[p] \in Calls
         /\ KeyOf(p) \in Keys
         /\ call[p].body \in Bodies \cup {None}
         /\ call[p].gated \in BOOLEAN
         /\ call[p].tries \in Nat
<1>1. call[p] \in Calls
  BY DEF TypeOK, AdmissionTypeOK, Idle
<1>2. QED
  BY <1>1 DEF Calls, KeyOf

LEMMA NotIdle ==
  ASSUME TypeOK, NEW p \in Procs
  PROVE  call[p] # Idle <=> call[p].pc # "idle"
<1>1. \A c \in Calls : c.pc # "idle"
  BY DEF Calls, Steps, Outcomes
<1>2. QED
  BY <1>1 DEF TypeOK, AdmissionTypeOK, Idle

LEMMA GotoType ==
  ASSUME TypeOK, NEW p \in Procs, call[p].pc # "idle", NEW pc \in States, Goto(p, pc)
  PROVE  /\ call' \in [Procs -> {Idle} \cup Calls]
         /\ \A q \in Procs : q # p => call'[q] = call[q]
         /\ call'[p].pc = pc
         /\ call'[p].key = call[p].key
         /\ call'[p].body = call[p].body
         /\ call'[p].gated = call[p].gated
         /\ call'[p].tries = call[p].tries
<1>1. call[p] \in Calls
  BY InCall
<1>2. /\ [call[p] EXCEPT !.pc = pc] \in Calls
      /\ [call[p] EXCEPT !.pc = pc].pc = pc
      /\ [call[p] EXCEPT !.pc = pc].key = call[p].key
      /\ [call[p] EXCEPT !.pc = pc].body = call[p].body
      /\ [call[p] EXCEPT !.pc = pc].gated = call[p].gated
      /\ [call[p] EXCEPT !.pc = pc].tries = call[p].tries
  BY <1>1 DEF Calls, States
<1>3. call' = [call EXCEPT ![p] = [call[p] EXCEPT !.pc = pc]]
  BY DEF Goto
<1>4. QED
  BY <1>2, <1>3 DEF TypeOK, AdmissionTypeOK

LEMMA LeaveType ==
  ASSUME TypeOK, NEW p \in Procs, Leave(p)
  PROVE  /\ call' \in [Procs -> {Idle} \cup Calls]
         /\ \A q \in Procs : q # p => call'[q] = call[q]
         /\ call'[p] = Idle
         /\ call'[p].pc = "idle"
BY DEF Leave, TypeOK, AdmissionTypeOK, Idle

LEMMA EnterType ==
  ASSUME TypeOK, NEW p \in Procs, NEW k \in Keys, NEW b \in Bodies \cup {None},
         NEW n \in Nat, Enter(p, k, b, n)
  PROVE  /\ call' \in [Procs -> {Idle} \cup Calls]
         /\ \A q \in Procs : q # p => call'[q] = call[q]
         /\ call'[p].pc = "begun"
         /\ call'[p].key = k
         /\ call'[p].tries = n
<1>1. [pc |-> "begun", key |-> k, body |-> b, gated |-> FALSE, tries |-> n] \in Calls
  BY DEF Calls, Steps
<1>2. QED
  BY <1>1 DEF Enter, TypeOK, AdmissionTypeOK

LEMMA UnlockType ==
  ASSUME TypeOK, NEW p \in Procs, call[p].pc # "idle", Unlock(p)
  PROVE  /\ lock' \in [Keys -> Procs \cup {None}]
         /\ LockStep(p)
<1>1. KeyOf(p) \in Keys
  BY InCall
<1>2. QED
  BY <1>1 DEF Unlock, TypeOK, AdmissionTypeOK, LockStep

\* A step of p disturbs nothing another call relies on.
LEMMA OthersKeep ==
  ASSUME IInv, NEW p \in Procs, NEW q \in Procs, q # p, ProcStep(p)
  PROVE  CallOK(q)'
<1>1. call'[q] = call[q] /\ KeyOf(q)' = KeyOf(q)
  BY DEF ProcStep, KeyOf
<1>2. CASE call[q].pc = "idle"
  <2>1. call[q] = Idle
    BY <1>2, NotIdle DEF IInv
  <2>2. QED
    BY <1>1, <1>2, <2>1 DEF CallOK, Holds, Fresh, Passed, Fits, Delivered
<1>3. CASE call[q].pc # "idle"
  <2>1. KeyOf(q) \in Keys
    BY <1>3, InCall DEF IInv
  <2>2. p # None /\ q # None
    BY AdmissionAssumption
  <2>3. CallOK(q)
    BY DEF IInv
  <2>4. Holds(q)'
    BY <1>1, <2>1, <2>2, <2>3 DEF CallOK, Holds, ProcStep, LockStep
  <2>5. \/ order'[KeyOf(q)] = order[KeyOf(q)]
        \/ lock[KeyOf(q)] = p /\ ~order[KeyOf(q)].row /\ order'[KeyOf(q)].row
    BY <2>1 DEF ProcStep, OrderStep
  <2>6. Fresh(q)'
    BY <1>1, <2>3, <2>5 DEF CallOK, Holds, Fresh
  <2>7. Passed(q)'
    BY <1>1, <2>3, <2>5 DEF CallOK, Passed
  <2>8. Fits(q)'
    BY <1>1, <2>3, <2>5 DEF CallOK, Fits
  <2>9. Delivered(q)'
    BY <1>1, <2>3 DEF CallOK, Delivered
  <2>10. QED
    BY <2>4, <2>6, <2>7, <2>8, <2>9 DEF CallOK
<1>4. QED
  BY <1>2, <1>3

\* An order, once there, stays: what dispatched events rely on.
LEMMA OrdersStay ==
  ASSUME IInv, NEW p \in Procs, OrderStep(p), UNCHANGED status
  PROVE  DispatchedHasOrder'
<1>1. Events \subseteq Keys
  BY OutboxAssumption
<1>2. QED
  BY <1>1 DEF IInv, DispatchedHasOrder, OrderStep

LEMMA Combine ==
  ASSUME IInv, NEW p \in Procs, ProcStep(p), TypeOK', DispatchedHasOrder', CallOK(p)'
  PROVE  IInv'
<1>1. \A q \in Procs : q # p => CallOK(q)'
  BY OthersKeep
<1>2. QED
  BY <1>1 DEF IInv

\* A step that only moves p's call on, to a pc nothing is said of yet or where
\* what was said before is enough.
LEMMA MoveOn ==
  ASSUME IInv, NEW p \in Procs, call[p].pc # "idle", NEW pc \in States, Goto(p, pc),
         UNCHANGED <<order, lock, outboxVars>>, active' \in Nat, faults' \in Nat,
         pc \in {"locked", "inserted"} => Holds(p) /\ call[p].pc = "locked",
         pc = "inserted" => ~order[KeyOf(p)].row,
         pc \in {"lock", "locked", "inserted"}
           => call[p].gated \/ order[KeyOf(p)].row,
         pc \in {"committed", "created", "replayed"}
           => /\ order[KeyOf(p)].row
              /\ call[p].body \in {None, order[KeyOf(p)].hash}
  PROVE  IInv'
<1>1. TypeOK
  BY DEF IInv
<1>2. /\ call' \in [Procs -> {Idle} \cup Calls]
      /\ \A q \in Procs : q # p => call'[q] = call[q]
      /\ call'[p].pc = pc
      /\ call'[p].key = call[p].key
      /\ call'[p].body = call[p].body
      /\ call'[p].gated = call[p].gated
      /\ call'[p].tries = call[p].tries
  BY <1>1, GotoType
<1>3. TypeOK'
  BY <1>1, <1>2 DEF TypeOK, AdmissionTypeOK, outboxVars
<1>4. ProcStep(p)
  BY <1>2 DEF ProcStep, LockStep, OrderStep
<1>5. DispatchedHasOrder'
  BY DEF IInv, DispatchedHasOrder, outboxVars
<1>6. CallOK(p)'
  <2>1. KeyOf(p)' = KeyOf(p)
    BY <1>2 DEF KeyOf
  <2>2. Holds(p)'
    BY <1>2, <2>1 DEF Holds
  <2>3. Fresh(p)' /\ Passed(p)' /\ Fits(p)'
    BY <1>2, <2>1 DEF Fresh, Passed, Fits
  <2>4. Delivered(p)'
    <3>1. call[p] # Idle
      BY <1>1, NotIdle
    <3>2. QED
      BY <1>2, <2>1, <3>1 DEF IInv, CallOK, Delivered
  <2>5. QED
    BY <2>2, <2>3, <2>4 DEF CallOK
<1>7. QED
  BY <1>3, <1>4, <1>5, <1>6, Combine

LEMMA CheckKeeps ==
  ASSUME IInv, NEW p \in Procs, Check(p), UNCHANGED outboxVars
  PROVE  IInv'
<1>1. /\ call[p].pc = "begun"
      /\ UNCHANGED <<order, lock, active, faults>>
      /\ active' \in Nat
      /\ faults' \in Nat
  BY DEF Check, IInv, TypeOK, AdmissionTypeOK
<1>2. CASE \E outcome \in {"rejected", "error"} : Goto(p, outcome)
  <2>1. PICK outcome \in {"rejected", "error"} : Goto(p, outcome)
    BY <1>2
  <2>2. outcome \in States
    BY DEF States, Outcomes
  <2>3. QED
    BY <1>1, <2>1, <2>2, MoveOn
<1>3. CASE SkipsGate(KeyOf(p)) /\ Goto(p, "lock")
  <2>1. "lock" \in States /\ order[KeyOf(p)].row
    BY <1>3 DEF States, Steps, SkipsGate
  <2>2. QED
    BY <1>1, <1>3, <2>1, MoveOn
<1>4. CASE Goto(p, "gate")
  <2>1. "gate" \in States
    BY DEF States, Steps
  <2>2. QED
    BY <1>1, <1>4, <2>1, MoveOn
<1>5. QED
  BY <1>2, <1>3, <1>4 DEF Check

LEMMA ReadGateKeeps ==
  ASSUME IInv, NEW p \in Procs, ReadGate(p), UNCHANGED outboxVars
  PROVE  IInv'
<1> DEFINE pc == IF active > 0 THEN "refused" ELSE "evaluate"
<1>1. pc \in States /\ pc \in {"refused", "evaluate"}
  BY DEF States, Steps, Outcomes
<1>2. /\ call[p].pc = "gate"
      /\ Goto(p, pc)
      /\ UNCHANGED <<order, lock, faults>>
      /\ active' \in Nat
      /\ faults' \in Nat
  BY DEF ReadGate, IInv, TypeOK, AdmissionTypeOK
<1> HIDE DEF pc
<1>3. QED
  BY <1>1, <1>2, MoveOn

LEMMA EvaluateKeeps ==
  ASSUME IInv, NEW p \in Procs, Evaluate(p), UNCHANGED outboxVars
  PROVE  IInv'
<1>1. /\ call[p].pc = "evaluate"
      /\ UNCHANGED <<order, lock, faults>>
      /\ TypeOK
      /\ active' \in Nat
      /\ faults' \in Nat
  BY DEF Evaluate, IInv, TypeOK, AdmissionTypeOK
<1>2. CASE Goto(p, "refused")
  <2>1. "refused" \in States
    BY DEF States, Outcomes
  <2>2. QED
    BY <1>1, <1>2, <2>1, MoveOn
<1>3. CASE call' = [call EXCEPT ![p].pc = "lock", ![p].gated = TRUE]
  <2> DEFINE c == [call[p] EXCEPT !.pc = "lock", !.gated = TRUE]
  <2>1. call[p] \in Calls
    BY <1>1, InCall
  <2>2. /\ c \in Calls
        /\ c.pc = "lock"
        /\ c.gated
        /\ c.key = call[p].key
        /\ c.tries = call[p].tries
    BY <2>1 DEF Calls, Steps
  <2>3. call' = [call EXCEPT ![p] = c]
    BY <1>3, <1>1, <2>1 DEF TypeOK, AdmissionTypeOK, Calls
  <2> HIDE DEF c
  <2>4. /\ call' \in [Procs -> {Idle} \cup Calls]
        /\ call'[p] = c
        /\ \A q \in Procs : q # p => call'[q] = call[q]
    BY <1>1, <2>2, <2>3 DEF TypeOK, AdmissionTypeOK
  <2>5. TypeOK'
    BY <1>1, <2>4 DEF TypeOK, AdmissionTypeOK, outboxVars
  <2>6. ProcStep(p)
    BY <1>1, <2>4 DEF ProcStep, LockStep, OrderStep
  <2>7. DispatchedHasOrder'
    BY <1>1 DEF IInv, DispatchedHasOrder, outboxVars
  <2>8. KeyOf(p)' = KeyOf(p) /\ call[p] # Idle
    BY <1>1, <2>2, <2>4, NotIdle DEF KeyOf
  <2>9. Delivered(p)'
    BY <2>2, <2>4, <2>8 DEF IInv, CallOK, Delivered
  <2>10. CallOK(p)'
    BY <2>2, <2>4, <2>9 DEF CallOK, Holds, Fresh, Passed, Fits
  <2>11. QED
    BY <2>5, <2>6, <2>7, <2>10, Combine
<1>4. QED
  BY <1>2, <1>3 DEF Evaluate
LEMMA LockKeeps ==
  ASSUME IInv, NEW p \in Procs, Lock(p), UNCHANGED outboxVars
  PROVE  IInv'
<1>1. /\ call[p].pc = "lock"
      /\ TypeOK
      /\ KeyOf(p) \in Keys
      /\ CallOK(p)
      /\ "locked" \in States
      /\ call[p] # Idle
  BY InCall, NotIdle DEF Lock, IInv, States, Steps
<1>2. /\ call' \in [Procs -> {Idle} \cup Calls]
      /\ \A q \in Procs : q # p => call'[q] = call[q]
      /\ call'[p].pc = "locked"
      /\ KeyOf(p)' = KeyOf(p)
      /\ call'[p].gated = call[p].gated
      /\ call'[p].tries = call[p].tries
  BY <1>1, GotoType DEF Lock, KeyOf
<1>3. /\ lock' \in [Keys -> Procs \cup {None}]
      /\ lock'[KeyOf(p)] = p
      /\ LockStep(p)
  BY <1>1 DEF Lock, Unlocked, TypeOK, AdmissionTypeOK, LockStep
<1>4. UNCHANGED <<order, active, faults, status, queue>>
  BY DEF Lock, outboxVars
<1>5. TypeOK'
  BY <1>1, <1>2, <1>3, <1>4 DEF TypeOK, AdmissionTypeOK
<1>6. ProcStep(p)
  BY <1>2, <1>3, <1>4 DEF ProcStep, OrderStep
<1>7. DispatchedHasOrder'
  BY <1>4 DEF IInv, DispatchedHasOrder
<1>8. CallOK(p)'
  <2>1. Holds(p)'
    BY <1>2, <1>3 DEF Holds
  <2>2. Fresh(p)' /\ Fits(p)'
    BY <1>2 DEF Fresh, Fits
  <2>3. Passed(p)'
    BY <1>1, <1>2, <1>4 DEF CallOK, Passed
  <2>4. Delivered(p)'
    BY <1>1, <1>2 DEF CallOK, Delivered
  <2>5. QED
    BY <2>1, <2>2, <2>3, <2>4 DEF CallOK
<1>9. QED
  BY <1>5, <1>6, <1>7, <1>8, Combine

\* The transaction ends without a new row: p gives the lock back.
LEMMA EndKeeps ==
  ASSUME IInv, NEW p \in Procs, call[p].pc = "locked", Unlock(p),
         NEW pc \in {"conflict", "replayed", "error"}, Goto(p, pc),
         pc = "replayed" => /\ order[KeyOf(p)].row
                            /\ call[p].body \in {None, order[KeyOf(p)].hash},
         UNCHANGED <<order, active, faults, outboxVars>>
  PROVE  IInv'
<1>1. /\ TypeOK
      /\ KeyOf(p) \in Keys
      /\ CallOK(p)
      /\ pc \in States
      /\ call[p] # Idle
  BY InCall, NotIdle DEF IInv, States, Outcomes
<1>2. /\ call' \in [Procs -> {Idle} \cup Calls]
      /\ \A q \in Procs : q # p => call'[q] = call[q]
      /\ call'[p].pc = pc
      /\ KeyOf(p)' = KeyOf(p)
      /\ call'[p].body = call[p].body
      /\ call'[p].tries = call[p].tries
  BY <1>1, GotoType DEF KeyOf
<1>3. lock' \in [Keys -> Procs \cup {None}] /\ LockStep(p)
  BY <1>1, UnlockType
<1>4. TypeOK'
  BY <1>1, <1>2, <1>3 DEF TypeOK, AdmissionTypeOK, outboxVars
<1>5. ProcStep(p)
  BY <1>2, <1>3 DEF ProcStep, OrderStep
<1>6. DispatchedHasOrder'
  BY DEF IInv, DispatchedHasOrder, outboxVars
<1>7. CallOK(p)'
  <2>1. Holds(p)' /\ Fresh(p)' /\ Passed(p)' /\ Fits(p)'
    BY <1>2 DEF Holds, Fresh, Passed, Fits
  <2>2. Delivered(p)'
    BY <1>1, <1>2 DEF CallOK, Delivered
  <2>3. QED
    BY <2>1, <2>2 DEF CallOK
<1>8. QED
  BY <1>4, <1>5, <1>6, <1>7, Combine

LEMMA ReplayKeeps ==
  ASSUME IInv, NEW p \in Procs, Replay(p), UNCHANGED outboxVars
  PROVE  IInv'
<1> DEFINE pc == IF Conflicts(p) THEN "conflict" ELSE "replayed"
<1>1. /\ call[p].pc = "locked"
      /\ order[KeyOf(p)].row
      /\ Goto(p, pc)
      /\ Unlock(p)
      /\ UNCHANGED <<order, active, faults>>
  BY DEF Replay
<1>2. /\ pc \in {"conflict", "replayed", "error"}
      /\ pc = "replayed" => call[p].body \in {None, order[KeyOf(p)].hash}
  BY DEF Conflicts
<1> HIDE DEF pc
<1>3. QED
  BY <1>1, <1>2, EndKeeps

LEMMA InsertKeeps ==
  ASSUME IInv, NEW p \in Procs, Insert(p), UNCHANGED outboxVars
  PROVE  IInv'
<1>1. /\ call[p].pc = "locked"
      /\ ~order[KeyOf(p)].row
      /\ UNCHANGED <<order, active, faults>>
      /\ active' \in Nat
      /\ faults' \in Nat
      /\ CallOK(p)
  BY DEF Insert, IInv, TypeOK, AdmissionTypeOK
<1>2. CASE Goto(p, "inserted") /\ UNCHANGED lock
  <2>1. "inserted" \in States
    BY DEF States, Steps
  <2>2. Holds(p) /\ (call[p].gated \/ order[KeyOf(p)].row)
    BY <1>1 DEF CallOK, Passed
  <2>3. QED
    BY <1>1, <1>2, <2>1, <2>2, MoveOn
<1>3. CASE Goto(p, "error") /\ Unlock(p)
  BY <1>1, <1>3, EndKeeps
<1>4. QED
  BY <1>2, <1>3 DEF Insert

LEMMA CommitKeeps ==
  ASSUME IInv, NEW p \in Procs, Commit(p), UNCHANGED outboxVars
  PROVE  IInv'
<1>1. /\ call[p].pc = "inserted"
      /\ TypeOK
      /\ KeyOf(p) \in Keys
      /\ call[p].body \in Bodies \cup {None}
      /\ CallOK(p)
      /\ "committed" \in States
      /\ call[p] # Idle
  BY InCall, NotIdle DEF Commit, IInv, States, Steps
<1>2. /\ call' \in [Procs -> {Idle} \cup Calls]
      /\ \A q \in Procs : q # p => call'[q] = call[q]
      /\ call'[p].pc = "committed"
      /\ KeyOf(p)' = KeyOf(p)
      /\ call'[p].body = call[p].body
      /\ call'[p].tries = call[p].tries
  BY <1>1, GotoType DEF Commit, KeyOf
<1>3. lock' \in [Keys -> Procs \cup {None}] /\ LockStep(p)
  BY <1>1, UnlockType DEF Commit
<1>4. /\ order' \in [Keys -> [row : BOOLEAN, hash : Bodies \cup {None}]]
      /\ order'[KeyOf(p)].row
      /\ order'[KeyOf(p)].hash = call[p].body
      /\ \A k \in Keys : k # KeyOf(p) => order'[k] = order[k]
  BY <1>1 DEF Commit, Saved, TypeOK, AdmissionTypeOK
<1>5. TypeOK'
  BY <1>1, <1>2, <1>3, <1>4 DEF Commit, TypeOK, AdmissionTypeOK, outboxVars
<1>6. lock[KeyOf(p)] = p /\ ~order[KeyOf(p)].row
  BY <1>1 DEF CallOK, Holds, Fresh
<1>7. OrderStep(p)
  BY <1>4, <1>6 DEF OrderStep
<1>8. ProcStep(p)
  BY <1>2, <1>3, <1>7 DEF ProcStep
<1>9. DispatchedHasOrder'
  BY <1>7, OrdersStay DEF outboxVars
<1>10. CallOK(p)'
  <2>1. Holds(p)' /\ Fresh(p)' /\ Passed(p)'
    BY <1>2 DEF Holds, Fresh, Passed
  <2>2. Fits(p)'
    BY <1>2, <1>4 DEF Fits
  <2>3. Delivered(p)'
    BY <1>1, <1>2 DEF CallOK, Delivered
  <2>4. QED
    BY <2>1, <2>2, <2>3 DEF CallOK
<1>11. QED
  BY <1>5, <1>8, <1>9, <1>10, Combine

LEMMA FaultType ==
  ASSUME TypeOK, Fault
  PROVE  faults' \in Nat
BY DEF Fault, TypeOK, AdmissionTypeOK
LEMMA PublishKeeps ==
  ASSUME IInv, NEW p \in Procs, Publish(p), UNCHANGED outboxVars
  PROVE  IInv'
<1>1. /\ call[p].pc = "committed"
      /\ UNCHANGED <<order, lock, active>>
      /\ active' \in Nat
      /\ TypeOK
      /\ CallOK(p)
      /\ {"created", "error"} \subseteq States
  BY DEF Publish, IInv, TypeOK, AdmissionTypeOK, States, Outcomes
<1>2. /\ order[KeyOf(p)].row
      /\ call[p].body \in {None, order[KeyOf(p)].hash}
  BY <1>1 DEF CallOK, Fits
<1>3. CASE Goto(p, "created") /\ UNCHANGED faults
  <2>1. faults' \in Nat
    BY <1>1, <1>3 DEF TypeOK, AdmissionTypeOK
  <2>2. QED
    BY <1>1, <1>2, <1>3, <2>1, MoveOn
<1>4. CASE Goto(p, "error") /\ Fault
  BY <1>1, <1>4, FaultType, MoveOn
<1>5. QED
  BY <1>3, <1>4 DEF Publish

LEMMA ExecuteKeeps ==
  ASSUME IInv, NEW p \in Procs, Execute(p), UNCHANGED outboxVars
  PROVE  IInv'
BY CheckKeeps, ReadGateKeeps, EvaluateKeeps, LockKeeps, ReplayKeeps, InsertKeeps,
   CommitKeeps, PublishKeeps DEF Execute

\* p's call is over; what the outbox does with the outcome is for the caller.
LEMMA LeaveKeeps ==
  ASSUME IInv, NEW p \in Procs, Leave(p), LockStep(p),
         lock' \in [Keys -> Procs \cup {None}], UNCHANGED <<order, active>>,
         faults' \in Nat, DispatchedHasOrder', queue' \subseteq Messages,
         status' \in [Events -> {"none", "pending", "dispatched", "failed"}]
  PROVE  IInv'
<1>1. TypeOK
  BY DEF IInv
<1>2. /\ call' \in [Procs -> {Idle} \cup Calls]
      /\ \A q \in Procs : q # p => call'[q] = call[q]
      /\ call'[p] = Idle
      /\ call'[p].pc = "idle"
  BY <1>1, LeaveType
<1>3. TypeOK'
  BY <1>1, <1>2 DEF TypeOK, AdmissionTypeOK
<1>4. ProcStep(p)
  BY <1>2 DEF ProcStep, OrderStep
<1>5. CallOK(p)'
  BY <1>2 DEF CallOK, Holds, Fresh, Passed, Fits, Delivered
<1>6. QED
  BY <1>3, <1>4, <1>5, Combine

LEMMA EnterKeeps ==
  ASSUME IInv, NEW p \in Procs, NEW k \in Keys, NEW b \in Bodies \cup {None},
         NEW n \in Nat, Enter(p, k, b, n),
         p \in Workers => k \in Events /\ n \in 0..MaxRetries,
         UNCHANGED <<order, lock, active, faults, status>>, queue' \subseteq Messages
  PROVE  IInv'
<1>1. TypeOK
  BY DEF IInv
<1>2. /\ call' \in [Procs -> {Idle} \cup Calls]
      /\ \A q \in Procs : q # p => call'[q] = call[q]
      /\ call'[p].pc = "begun"
      /\ call'[p].key = k
      /\ call'[p].tries = n
  BY <1>1, EnterType
<1>3. TypeOK'
  BY <1>1, <1>2 DEF TypeOK, AdmissionTypeOK
<1>4. ProcStep(p)
  BY <1>2 DEF ProcStep, LockStep, OrderStep
<1>5. CallOK(p)'
  BY <1>2 DEF CallOK, Holds, Fresh, Passed, Fits, Delivered, KeyOf
<1>6. DispatchedHasOrder'
  BY DEF IInv, DispatchedHasOrder
<1>7. QED
  BY <1>3, <1>4, <1>5, <1>6, Combine

\* A step that touches no call, no lock and no order.
LEMMA QuietKeeps ==
  ASSUME IInv, UNCHANGED <<order, lock, call>>, active' \in Nat, faults' \in Nat,
         DispatchedHasOrder', queue' \subseteq Messages,
         status' \in [Events -> {"none", "pending", "dispatched", "failed"}]
  PROVE  IInv'
<1>1. TypeOK'
  BY DEF IInv, TypeOK, AdmissionTypeOK
<1>2. \A q \in Procs : CallOK(q)'
  BY DEF IInv, CallOK, Holds, Fresh, Passed, Fits, Delivered, KeyOf
<1>3. QED
  BY <1>1, <1>2 DEF IInv

-----------------------------------------------------------------------------
LEMMA MarkType ==
  ASSUME TypeOK, NEW e \in Events, NEW end \in {"dispatched", "failed"}, Mark(e, end)
  PROVE  /\ status' \in [Events -> {"none", "pending", "dispatched", "failed"}]
         /\ \A d \in Events : d # e => status'[d] = status[d]
         /\ status'[e] \in {status[e], end}
         /\ status'[e] # status[e] => status[e] = "pending"
BY DEF Mark, Markable, TypeOK

LEMMA MessageType ==
  ASSUME NEW e \in Events, NEW n \in 0..MaxRetries
  PROVE  Message(e, n) \in Messages
BY DEF Message, Messages

LEMMA RetriesType == MaxRetries \in Nat /\ 0 \in 0..MaxRetries
BY OutboxAssumption

\* A worker's call is about an event.
LEMMA WorkerCall ==
  ASSUME IInv, NEW p \in Workers, call[p].pc # "idle"
  PROVE  /\ p \in Procs
         /\ KeyOf(p) \in Events
         /\ call[p].tries \in 0..MaxRetries
BY NotIdle DEF IInv, CallOK, Delivered, Workers

LEMMA RequestKeeps ==
  ASSUME IInv, NEW p \in Procs, NEW k \in WebKeys, NEW b \in Bodies, Request(p, k, b),
         UNCHANGED outboxVars
  PROVE  IInv'
<1>1. k \in Keys /\ p \notin Workers /\ queue' \subseteq Messages
  BY AdmissionAssumption DEF Request, Workers, outboxVars, IInv, TypeOK
<1>2. QED
  BY <1>1, EnterKeeps DEF Request, outboxVars

LEMMA AnswerKeeps ==
  ASSUME IInv, NEW p \in Procs, Answer(p), UNCHANGED outboxVars
  PROVE  IInv'
<1>1. LockStep(p)
  BY DEF Answer, LockStep
<1>2. DispatchedHasOrder'
  BY DEF Answer, outboxVars, IInv, DispatchedHasOrder
<1>3. QED
  BY <1>1, <1>2, LeaveKeeps DEF Answer, outboxVars, IInv, TypeOK, AdmissionTypeOK

LEMMA DieKeeps ==
  ASSUME IInv, NEW p \in Procs, Die(p), UNCHANGED status, queue' \subseteq Messages
  PROVE  IInv'
<1>1. TypeOK /\ call[p].pc # "idle"
  BY NotIdle DEF IInv, Die
<1>2. lock' \in [Keys -> Procs \cup {None}] /\ LockStep(p)
  BY <1>1, UnlockType DEF Die
<1>3. faults' \in Nat
  BY <1>1, FaultType DEF Die
<1>4. DispatchedHasOrder'
  BY DEF Die, IInv, DispatchedHasOrder
<1>5. QED
  BY <1>1, <1>2, <1>3, <1>4, LeaveKeeps DEF Die, TypeOK

LEMMA CrashKeeps ==
  ASSUME IInv, NEW p \in Workers, Crash(p)
  PROVE  IInv'
<1>1. p \in Procs /\ TypeOK
  BY DEF Workers, IInv
<1>2. call[p].pc # "idle"
  BY <1>1, NotIdle DEF Crash, Die
<1>3. queue' \subseteq Messages
  BY <1>1, <1>2, WorkerCall, MessageType DEF Crash, TypeOK
<1>4. QED
  BY <1>1, <1>3, DieKeeps DEF Crash

LEMMA RecordKeeps ==
  ASSUME IInv, NEW p \in Workers, Record(p)
  PROVE  IInv'
<1>1. /\ TypeOK
      /\ Leave(p)
      /\ UNCHANGED <<order, lock, active, faults>>
      /\ call[p].pc # "idle"
  BY DEF Record, RecordSuccess, RecordRefusal, RetryOrGiveUp, Succeeded, IInv
<1>2. /\ p \in Procs
      /\ KeyOf(p) \in Events
      /\ call[p].tries \in 0..MaxRetries
  BY <1>1, WorkerCall
<1>3. /\ LockStep(p)
      /\ lock' \in [Keys -> Procs \cup {None}]
      /\ faults' \in Nat
  BY <1>1 DEF LockStep, TypeOK, AdmissionTypeOK
<1>4. CASE RecordSuccess(p)
  <2>1. Mark(KeyOf(p), "dispatched") /\ queue' \subseteq Messages
    BY <1>1, <1>4 DEF RecordSuccess, TypeOK
  <2>2. order[KeyOf(p)].row
    BY <1>2, <1>4 DEF RecordSuccess, Succeeded, IInv, CallOK, Fits
  <2>3. DispatchedHasOrder'
    BY <1>1, <1>2, <2>1, <2>2, MarkType DEF IInv, DispatchedHasOrder
  <2>4. QED
    BY <1>1, <1>2, <1>3, <2>1, <2>3, MarkType, LeaveKeeps
<1>5. CASE \/ RecordRefusal(p)
           \/ RetryOrGiveUp(p) /\ Mark(KeyOf(p), "failed") /\ UNCHANGED queue
  <2>1. Mark(KeyOf(p), "failed") /\ queue' \subseteq Messages
    BY <1>1, <1>5 DEF RecordRefusal, TypeOK
  <2>2. DispatchedHasOrder'
    BY <1>1, <1>2, <2>1, MarkType DEF IInv, DispatchedHasOrder
  <2>3. QED
    BY <1>1, <1>2, <1>3, <2>1, <2>2, MarkType, LeaveKeeps
<1>6. CASE /\ Retriable(p)
           /\ queue' = queue \cup {Message(KeyOf(p), call[p].tries + 1)}
           /\ UNCHANGED status
  <2>1. call[p].tries + 1 \in 0..MaxRetries
    BY <1>2, <1>6, RetriesType DEF Retriable
  <2>2. queue' \subseteq Messages
    BY <1>1, <1>2, <1>6, <2>1, MessageType DEF TypeOK
  <2>3. DispatchedHasOrder'
    BY <1>1, <1>6 DEF IInv, DispatchedHasOrder
  <2>4. QED
    BY <1>1, <1>2, <1>3, <1>6, <2>2, <2>3, LeaveKeeps DEF TypeOK
<1>7. QED
  BY <1>4, <1>5, <1>6 DEF Record, RetryOrGiveUp, GiveUp

LEMMA DeliverKeeps ==
  ASSUME IInv, NEW p \in Workers, NEW m \in queue, Deliver(p, m)
  PROVE  IInv'
<1>1. /\ p \in Procs
      /\ m.event \in Events
      /\ m.event \in Keys
      /\ m.tries \in 0..MaxRetries
      /\ m.tries \in Nat
      /\ queue' \subseteq Messages
  BY OutboxAssumption DEF Workers, Deliver, IInv, TypeOK, Messages
<1>2. UNCHANGED <<order, lock, active, faults, status>>
  BY DEF Deliver
<1>3. CASE Enter(p, m.event, None, m.tries)
  BY <1>1, <1>2, <1>3, EnterKeeps
<1>4. CASE UNCHANGED call
  <2>1. DispatchedHasOrder'
    BY <1>2 DEF IInv, DispatchedHasOrder
  <2>2. QED
    BY <1>1, <1>2, <1>4, <2>1, QuietKeeps DEF IInv, TypeOK, AdmissionTypeOK
<1>5. QED
  BY <1>3, <1>4 DEF Deliver

LEMMA ResolveKeeps ==
  ASSUME IInv, Resolve, UNCHANGED outboxVars
  PROVE  IInv'
<1>1. active' \in Nat
  BY DEF Resolve, IInv, TypeOK, AdmissionTypeOK
<1>2. DispatchedHasOrder'
  BY DEF Resolve, outboxVars, IInv, DispatchedHasOrder
<1>3. QED
  BY <1>1, <1>2, QuietKeeps DEF Resolve, outboxVars, IInv, TypeOK, AdmissionTypeOK

LEMMA EmitKeeps ==
  ASSUME IInv, NEW e \in Events, Emit(e)
  PROVE  IInv'
<1>1. status' \in [Events -> {"none", "pending", "dispatched", "failed"}]
  BY DEF Emit, IInv, TypeOK
<1>2. DispatchedHasOrder'
  BY DEF Emit, admissionVars, IInv, TypeOK, DispatchedHasOrder
<1>3. QED
  BY <1>1, <1>2, QuietKeeps DEF Emit, admissionVars, IInv, TypeOK, AdmissionTypeOK

LEMMA EnqueueKeeps ==
  ASSUME IInv, NEW e \in Events, Enqueue(e)
  PROVE  IInv'
<1>1. queue' \subseteq Messages
  BY RetriesType, MessageType DEF Enqueue, IInv, TypeOK
<1>2. DispatchedHasOrder'
  BY DEF Enqueue, admissionVars, IInv, DispatchedHasOrder
<1>3. QED
  BY <1>1, <1>2, QuietKeeps DEF Enqueue, admissionVars, IInv, TypeOK, AdmissionTypeOK

LEMMA LoseMessageKeeps ==
  ASSUME IInv, NEW m \in queue, LoseMessage(m)
  PROVE  IInv'
<1>1. faults' \in Nat
  BY FaultType DEF LoseMessage, IInv
<1>2. DispatchedHasOrder'
  BY DEF LoseMessage, IInv, DispatchedHasOrder
<1>3. QED
  BY <1>1, <1>2, QuietKeeps DEF LoseMessage, IInv, TypeOK, AdmissionTypeOK

-----------------------------------------------------------------------------
LEMMA IInvInit == Init => IInv
<1> SUFFICES ASSUME Init PROVE IInv
  OBVIOUS
<1>1. TypeOK
  BY DEF Init, AdmissionInit, NoOrder, TypeOK, AdmissionTypeOK, AdmissionAssumption
<1>2. DispatchedHasOrder
  BY DEF Init, DispatchedHasOrder
<1>3. \A p \in Procs : call[p] = Idle /\ call[p].pc = "idle"
  BY DEF Init, AdmissionInit, Idle
<1>4. \A p \in Procs : CallOK(p)
  BY <1>3 DEF CallOK, Holds, Fresh, Passed, Fits, Delivered
<1>5. QED
  BY <1>1, <1>2, <1>4 DEF IInv

LEMMA IInvStep == IInv /\ [Next]_vars => IInv'
<1> SUFFICES ASSUME IInv, [Next]_vars PROVE IInv'
  OBVIOUS
<1>1. CASE WebNext /\ UNCHANGED outboxVars
  <2>1. PICK p \in Web : \/ \E k \in WebKeys, b \in Bodies : Request(p, k, b)
                         \/ Execute(p) \/ Answer(p) \/ Die(p)
    BY <1>1 DEF WebNext
  <2>2. p \in Procs
    BY AdmissionAssumption
  <2>3. CASE Die(p)
    BY <1>1, <2>2, <2>3, DieKeeps DEF outboxVars, IInv, TypeOK
  <2>4. QED
    BY <1>1, <2>1, <2>2, <2>3, RequestKeeps, ExecuteKeeps, AnswerKeeps
<1>2. CASE Resolve /\ UNCHANGED outboxVars
  BY <1>2, ResolveKeeps
<1>3. CASE \E p \in Workers : Step(p) \/ Record(p) \/ Crash(p)
  <2>1. PICK p \in Workers : Step(p) \/ Record(p) \/ Crash(p)
    BY <1>3
  <2>2. p \in Procs
    BY DEF Workers
  <2>3. QED
    BY <2>1, <2>2, ExecuteKeeps, RecordKeeps, CrashKeeps DEF Step
<1>4. CASE \E p \in Workers, m \in queue : Deliver(p, m)
  BY <1>4, DeliverKeeps
<1>5. CASE \E e \in Events : Emit(e) \/ Enqueue(e)
  BY <1>5, EmitKeeps, EnqueueKeeps
<1>6. CASE \E m \in queue : LoseMessage(m)
  BY <1>6, LoseMessageKeeps
<1>7. CASE UNCHANGED vars
  <2>1. DispatchedHasOrder'
    BY <1>7 DEF vars, admissionVars, outboxVars, IInv, DispatchedHasOrder
  <2>2. QED
    BY <1>7, <2>1, QuietKeeps
       DEF vars, admissionVars, outboxVars, IInv, TypeOK, AdmissionTypeOK
<1>8. QED
  BY <1>1, <1>2, <1>3, <1>4, <1>5, <1>6, <1>7 DEF Next

LEMMA IInvAlways == Spec => []IInv
BY IInvInit, IInvStep, PTL DEF Spec

-----------------------------------------------------------------------------
\* The variables keep their types.
THEOREM OutboxTypes == Spec => []TypeOK
BY IInvAlways, PTL DEF IInv

\* Of the calls with one key at most one inserts, and none once the order stands:
\* whoever inserts holds the lock of its key (OrderService._execute_inner).
THEOREM OneOrder == Spec => []OneOrderPerKey
<1>1. IInv => OneOrderPerKey
  <2> SUFFICES ASSUME IInv, NEW k \in Keys
      PROVE  LET inserting == {p \in Procs : call[p].pc = "inserted" /\ KeyOf(p) = k} IN
               /\ Cardinality(inserting) <= 1
               /\ order[k].row => inserting = {}
    BY DEF OneOrderPerKey
  <2> DEFINE inserting == {p \in Procs : call[p].pc = "inserted" /\ KeyOf(p) = k}
  <2>1. inserting \in SUBSET {lock[k]}
    BY DEF IInv, CallOK, Holds
  <2>2. Cardinality(inserting) <= 1
    <3> HIDE DEF inserting
    <3>1. IsFiniteSet({lock[k]}) /\ Cardinality({lock[k]}) = 1
      BY FS_Singleton
    <3>2. QED
      BY <2>1, <3>1, FS_Subset
  <2>3. order[k].row => inserting = {}
    BY DEF IInv, CallOK, Fresh
  <2>4. QED
    BY <2>2, <2>3
<1>2. QED
  BY <1>1, IInvAlways, PTL

\* No order is inserted that the kill switch did not let through, although the
\* gate is skipped for a key that has its order (E9).
THEOREM GateIsPassed == Spec => []InsertedWasGated
<1>1. IInv => InsertedWasGated
  BY DEF IInv, CallOK, Passed, Fresh, InsertedWasGated
<1>2. QED
  BY <1>1, IInvAlways, PTL

\* Whoever is told of an order gets the order of its key with its payload.
THEOREM AnswersFit == Spec => []AnswerFits
<1>1. IInv => AnswerFits
  BY DEF IInv, CallOK, Fits, AnswerFits
<1>2. QED
  BY <1>1, IInvAlways, PTL

\* An event recorded as dispatched has its order.
THEOREM DispatchedIsReal == Spec => []DispatchedHasOrder
BY IInvAlways, PTL DEF IInv

\* The first end recorded for an event stays (the guarded UPDATEs of the outbox).
THEOREM EventEndStays == Spec => EventEndIsFinal
<1>1. IInv /\ [Next]_vars
        => [\A e \in Events : status[e] \in {"dispatched", "failed"}
                                => status'[e] = status[e]]_status
  <2> SUFFICES ASSUME IInv, [Next]_vars, status' # status, NEW e \in Events,
                      status[e] \in {"dispatched", "failed"}
               PROVE  status'[e] = status[e]
    OBVIOUS
  <2>1. \/ \E p \in Workers : Record(p)
        \/ \E d \in Events : Emit(d)
    BY DEF Next, Step, Crash, Deliver, Enqueue, LoseMessage, outboxVars, vars
  <2>2. CASE \E d \in Events : Emit(d)
    BY <2>2 DEF Emit, IInv, TypeOK
  <2>3. CASE \E p \in Workers : Record(p)
    <3>1. PICK p \in Workers : Record(p)
      BY <2>3
    <3>2. TypeOK /\ call[p].pc # "idle"
      BY <3>1 DEF Record, RecordSuccess, RecordRefusal, RetryOrGiveUp, Succeeded, IInv
    <3>3. KeyOf(p) \in Events
      BY <3>2, WorkerCall
    <3>4. \E end \in {"dispatched", "failed"} : Mark(KeyOf(p), end)
      BY <3>1 DEF Record, RecordSuccess, RecordRefusal, RetryOrGiveUp, GiveUp
    <3>5. QED
      BY <3>2, <3>3, <3>4, MarkType
  <2>4. QED
    BY <2>1, <2>2, <2>3
<1>2. QED
  BY <1>1, IInvAlways, PTL DEF Spec, EventEndIsFinal
=============================================================================
