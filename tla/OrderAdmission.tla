--------------------------- MODULE OrderAdmission ---------------------------
(***************************************************************************)
(* How an order gets into the ledger: OrderService.execute with an         *)
(* idempotency key, and the kill switch it asks on the way.                *)
(*                                                                         *)
(* A call passes its gates, asks the kill switch, and only then opens the  *)
(* transaction that takes the advisory lock of its key, looks the key up,  *)
(* inserts and commits.  call[p] is the call process p is in the middle    *)
(* of; its pc ends in one of Outcomes, which the caller takes from there:  *)
(* the API process answers (below), the outbox records (SignalOutbox).     *)
(* What becomes of the row after the commit is OrderLedger.                *)
(*                                                                         *)
(* Left out: calls without a key (they take no lock and look nothing up;   *)
(* the flatten of close_service, one of them, skips the gates of leverage, *)
(* size and notional), the Redis lock (a caller that does not get it goes  *)
(* on, so it excludes nothing), the amounts the gates compare.  One        *)
(* strategy and one account: every unresolved kill switch event gates      *)
(* every call.                                                             *)
(*                                                                         *)
(* A definition directly above another of a similar name is a plausible    *)
(* mistake of the code, used by no action: see the mutants of PROJECT.json.*)
(***************************************************************************)
EXTENDS Integers, FiniteSets

CONSTANTS
  Procs,    \* processes that call execute
  Web,      \* those of them that serve the API
  Keys,     \* idempotency keys
  WebKeys,  \* the keys API clients use
  Bodies,   \* payload hashes
  None,     \* no payload hash, no row, no holder of a lock
  MaxFaults \* bound: crashes and failures of broker and database

ASSUME AdmissionAssumption ==
  /\ IsFiniteSet(Procs)
  /\ Web \subseteq Procs
  /\ WebKeys \subseteq Keys
  /\ None \notin Bodies \cup Procs
  /\ MaxFaults \in Nat

VARIABLES
  order,  \* order[k]: the order committed under key k: its payload hash, if any
  lock,   \* lock[k]: the process whose transaction holds the advisory lock of k
  call,   \* call[p]: the call of execute that p is in the middle of
  active, \* kill switch events with resolved_at IS NULL
  faults  \* crashes and failures so far

admissionVars == <<order, lock, call, active, faults>>

NoOrder == [row |-> FALSE, hash |-> None]
Saved(b) == [row |-> TRUE, hash |-> b]

Steps == {"begun", "gate", "evaluate", "lock", "locked", "inserted",
          "committed"}
Outcomes == {"created", "replayed", "conflict", "refused", "rejected", "error"}
Idle == [pc |-> "idle"]
Calls == [pc : Steps \cup Outcomes, key : Keys, body : Bodies \cup {None},
          gated : BOOLEAN, tries : Nat]

KeyOf(p) == call[p].key
Serving(p, k) == call[p].pc # "idle" /\ KeyOf(p) = k
Goto(p, pc) == call' = [call EXCEPT ![p].pc = pc]
Enter(p, k, b, n) ==
  call' = [call EXCEPT ![p] =
             [pc |-> "begun", key |-> k, body |-> b, gated |-> FALSE, tries |-> n]]
Leave(p) == call' = [call EXCEPT ![p] = Idle]
Fault == faults < MaxFaults /\ faults' = faults + 1

AdmissionTypeOK ==
  /\ order \in [Keys -> [row : BOOLEAN, hash : Bodies \cup {None}]]
  /\ lock \in [Keys -> Procs \cup {None}]
  /\ call \in [Procs -> {Idle} \cup Calls]
  /\ active \in Nat
  /\ faults \in Nat

AdmissionInit ==
  /\ order = [k \in Keys |-> NoOrder]
  /\ lock = [k \in Keys |-> None]
  /\ call = [p \in Procs |-> Idle]
  /\ active = 0
  /\ faults = 0

-----------------------------------------------------------------------------
(* OrderService._execute_inner *)

SkipsGateWithKey(k) == TRUE
SkipsGate(k) == order[k].row

\* The gates before the kill switch (owner, leverage, notional, sessions): some
\* refusals are final for the caller, others (owner inactive, unverified
\* balance, any failure) are an error it may try again.  Then
\* get_by_idempotency_key: a replay is not held up by the kill switch.
Check(p) ==
  /\ call[p].pc = "begun"
  /\ \/ \E outcome \in {"rejected", "error"} : Goto(p, outcome)
     \/ SkipsGate(KeyOf(p)) /\ Goto(p, "lock")
     \/ ~SkipsGate(KeyOf(p)) /\ Goto(p, "gate")
  /\ UNCHANGED <<order, lock, active, faults>>

\* KillSwitchService.ensure_not_gated, get_active.
ReadGate(p) ==
  /\ call[p].pc = "gate"
  /\ Goto(p, IF active > 0 THEN "refused" ELSE "evaluate")
  /\ UNCHANGED <<order, lock, active, faults>>

\* The evaluators, whose sums change with every fill and every day; a breach is
\* recorded and committed before the call fails.
Evaluate(p) ==
  /\ call[p].pc = "evaluate"
  /\ \/ Goto(p, "refused") /\ active' = active + 1
     \/ /\ call' = [call EXCEPT ![p].pc = "lock", ![p].gated = TRUE]
        /\ UNCHANGED active
  /\ UNCHANGED <<order, lock, faults>>

UnlockedForAll(k) == TRUE
Unlocked(k) == lock[k] = None

\* acquire_idempotency_lock; the lock is held until commit or rollback.
Lock(p) ==
  /\ call[p].pc = "lock"
  /\ Unlocked(KeyOf(p))
  /\ lock' = [lock EXCEPT ![KeyOf(p)] = p]
  /\ Goto(p, "locked")
  /\ UNCHANGED <<order, active, faults>>

Unlock(p) == lock' = [lock EXCEPT ![KeyOf(p)] = IF @ = p THEN None ELSE @]

NeverConflicts(p) == FALSE
Conflicts(p) == call[p].body # None /\ order[KeyOf(p)].hash # call[p].body

\* The key is taken: conflict (rolled back) or replay (committed).
Replay(p) ==
  /\ call[p].pc = "locked"
  /\ order[KeyOf(p)].row
  /\ Goto(p, IF Conflicts(p) THEN "conflict" ELSE "replayed")
  /\ Unlock(p)
  /\ UNCHANGED <<order, active, faults>>

\* The key is free: INSERT, unless a code strategy holds the position.
Insert(p) ==
  /\ call[p].pc = "locked"
  /\ ~order[KeyOf(p)].row
  /\ \/ Goto(p, "inserted") /\ UNCHANGED lock
     \/ Goto(p, "error") /\ Unlock(p)
  /\ UNCHANGED <<order, active, faults>>

Commit(p) ==
  /\ call[p].pc = "inserted"
  /\ order' = [order EXCEPT ![KeyOf(p)] = Saved(call[p].body)]
  /\ Unlock(p)
  /\ Goto(p, "committed")
  /\ UNCHANGED <<active, faults>>

\* dispatch_order_execution: a broker that refuses fails the call although the
\* order stands.
Publish(p) ==
  /\ call[p].pc = "committed"
  /\ \/ Goto(p, "created") /\ UNCHANGED faults
     \/ Goto(p, "error") /\ Fault
  /\ UNCHANGED <<order, lock, active>>

Execute(p) ==
  \/ Check(p) \/ ReadGate(p) \/ Evaluate(p) \/ Lock(p)
  \/ Replay(p) \/ Insert(p) \/ Commit(p) \/ Publish(p)

-----------------------------------------------------------------------------
(* Callers and their surroundings. *)

Request(p, k, b) ==
  /\ p \in Web
  /\ call[p] = Idle
  /\ Enter(p, k, b, 0)
  /\ UNCHANGED <<order, lock, active, faults>>

Answer(p) ==
  /\ p \in Web
  /\ call[p].pc \in Outcomes
  /\ Leave(p)
  /\ UNCHANGED <<order, lock, active, faults>>

\* The process dies: its transaction is rolled back, which frees the lock.
Die(p) ==
  /\ Fault
  /\ call[p] # Idle
  /\ Leave(p)
  /\ Unlock(p)
  /\ UNCHANGED <<order, active>>

\* KillSwitchService.resolve_for_user, one event.
Resolve ==
  /\ active > 0
  /\ active' = active - 1
  /\ UNCHANGED <<order, lock, call, faults>>

WebNext ==
  \E p \in Web :
    \/ \E k \in WebKeys, b \in Bodies : Request(p, k, b)
    \/ Execute(p) \/ Answer(p) \/ Die(p)

-----------------------------------------------------------------------------
(* Properties *)

\* Of all the calls with one key at most one gets as far as the INSERT, and
\* none after the order stands: the advisory lock keeps the others waiting
\* until the first has committed, and they find its row.  (Nothing handles an
\* IntegrityError of the unique index.)
OneOrderPerKey ==
  \A k \in Keys :
    LET inserting == {p \in Procs : call[p].pc = "inserted" /\ KeyOf(p) = k} IN
      /\ Cardinality(inserting) <= 1
      /\ order[k].row => inserting = {}

\* The gate is skipped for a replay; still no call inserts that was not let
\* through by the kill switch: a row found before the lock is found again
\* under it.
InsertedWasGated ==
  \A p \in Procs : call[p].pc = "inserted" => call[p].gated

\* A caller that is told of an order gets the one order of its key, made from
\* the payload it sent.
AnswerFits ==
  \A p \in Procs :
    call[p].pc \in {"created", "replayed"}
      => /\ order[KeyOf(p)].row
         /\ call[p].body \in {None, order[KeyOf(p)].hash}
=============================================================================
