--------------------------- MODULE SessionRegistry ---------------------------
(***************************************************************************)
(* Who may trade on one exchange account and symbol: live sessions (legacy *)
(* and code_v1), their entries, and the two advisory locks that admit both *)
(* of them.  Every owner has an account row of its own for the same        *)
(* exchange account (rows with one exchange_uid are one physical scope).   *)
(*                                                                         *)
(* A task is a request or a worker.  It is cut at its awaits and commits;  *)
(* a transaction lock is held from its acquisition to the commit or the    *)
(* refusal, and what a transaction wrote is seen from its commit on.       *)
(* Left out: checks of the request itself (settings, snapshot, demo        *)
(* account, balance), the kill switch (OrderAdmission), the ledger         *)
(* (OrderLedger) and the risk ledger (CodeRisk), here only "unfinished".   *)
(***************************************************************************)
EXTENDS Integers, FiniteSets

CONSTANTS
  Owners, Strategies,
  Slots,        \* bound: rows of live_signal_sessions
  EntryIds,     \* bound: rows of orders, non reduce-only
  Requests,     \* tasks at work at the same time
  SessionCap    \* _max_active_per_user

ASSUME RegistryAssumption ==
  /\ SessionCap \in Nat \ {0}
  /\ IsFiniteSet(Slots)
  /\ "legacy" \notin Slots
  /\ "none" \notin Requests

VARIABLES
  ownersUp,     \* users.is_active
  sessions,     \* live_signal_sessions, with "unfinished" of LiveRiskState
  entries,      \* orders: pending, or submitted (and sent or not)
  quotaLock,    \* quotaLock[u]: the task that holds live_session_quota:u
  symbolLock,   \* the task that holds code-position:<scope>:<symbol>
  request       \* request[r]: where task r is

registryVars == <<ownersUp, sessions, entries, quotaLock, symbolLock, request>>

Legacy == "legacy"
NoTask == "none"
NoSession == [owner |-> NoTask, strategy |-> NoTask, code |-> FALSE,
              up |-> FALSE, unfinished |-> FALSE]
NoEntry == [owner |-> NoTask, by |-> Legacy, state |-> "none", sent |-> FALSE]
IdleRequest == [at |-> "idle", owner |-> NoTask, strategy |-> NoTask, code |-> FALSE,
                slot |-> Legacy, entry |-> NoTask]

RequestSteps ==
  {"idle", "checked", "counted", "admitted",   \* LiveSessionService.register
   "entry", "preparing", "claimed", "sending", "submitting"}

Taken == {s \in Slots : sessions[s] # NoSession}
Open(e) == entries[e].state \in {"pending", "submitted"}
ActiveOf(u) == {s \in Slots : sessions[s].up /\ sessions[s].owner = u}
SlotFree(s) == sessions[s] = NoSession

-----------------------------------------------------------------------------
(* acquire_code_symbol_admission, after the lock is taken.                 *)

Blocking(isCode, own) ==
  {s \in Taken \ {own} : /\ sessions[s].up \/ (sessions[s].code /\ sessions[s].unfinished)
                         /\ isCode \/ sessions[s].code}

\* Mutant: a queued order that no worker has claimed yet is overlooked.
BlockingSubmitted(isCode, own) ==
  {e \in EntryIds : /\ entries[e].state = "submitted"
                    /\ isCode \/ entries[e].by # Legacy
                    /\ own = Legacy \/ entries[e].by # own}

BlockingEntries(isCode, own) ==
  {e \in EntryIds : /\ Open(e)
                    /\ isCode \/ entries[e].by # Legacy
                    /\ own = Legacy \/ entries[e].by # own}

Admits(isCode, own) ==
  /\ own # Legacy => sessions[own].up /\ sessions[own].code
  /\ Blocking(isCode, own) = {}
  /\ BlockingEntries(isCode, own) = {}

At(r, step) == request[r].at = step
Go(r, step) == request' = [request EXCEPT ![r].at = step]
Unlock(r) ==
  /\ symbolLock' = IF symbolLock = r THEN NoTask ELSE symbolLock
  /\ quotaLock' = [u \in Owners |-> IF quotaLock[u] = r THEN NoTask ELSE quotaLock[u]]
EndRequest(r) == request' = [request EXCEPT ![r] = IdleRequest] /\ Unlock(r)
Rows == <<ownersUp, sessions, entries>>
Locks == <<quotaLock, symbolLock>>

-----------------------------------------------------------------------------
(* LiveSessionService.register.                                            *)

\* The count without a lock; the balance and the exclusivity of the exchange
\* account are fetched after it.
AskSession(r, u, strat, isCode) ==
  /\ At(r, "idle") /\ u \in ownersUp
  /\ Cardinality(ActiveOf(u)) < SessionCap
  /\ request' = [request EXCEPT ![r] = [IdleRequest EXCEPT
       !.at = "checked", !.owner = u, !.strategy = strat, !.code = isCode]]
  /\ UNCHANGED <<Rows, Locks>>

\* Balance or exclusivity refuses.
RefuseSession(r) == At(r, "checked") /\ EndRequest(r) /\ UNCHANGED Rows

\* Mutant: the count before the awaits is taken for good.
CountOnce(r) ==
  /\ At(r, "checked") /\ quotaLock[request[r].owner] = NoTask
  /\ Go(r, "counted") /\ quotaLock' = [quotaLock EXCEPT ![request[r].owner] = r]
  /\ UNCHANGED <<symbolLock, Rows>>

CountUnderLock(r) ==
  LET u == request[r].owner IN
  /\ At(r, "checked") /\ quotaLock[u] = NoTask
  /\ IF Cardinality(ActiveOf(u)) >= SessionCap
     THEN EndRequest(r)
     ELSE Go(r, "counted") /\ quotaLock' = [quotaLock EXCEPT ![u] = r] /\ UNCHANGED symbolLock
  /\ UNCHANGED Rows

AdmitSession(r) ==
  /\ At(r, "counted") /\ symbolLock = NoTask
  /\ IF Admits(request[r].code, Legacy)
     THEN Go(r, "admitted") /\ symbolLock' = r /\ UNCHANGED quotaLock
     ELSE EndRequest(r)
  /\ UNCHANGED Rows

\* INSERT under the partial unique index, and the commit.
SaveSession(r, s) ==
  LET q == request[r]
      twin == \E t \in ActiveOf(q.owner) : sessions[t].strategy = q.strategy
  IN
  /\ At(r, "admitted") /\ SlotFree(s)
  /\ sessions' = IF twin THEN sessions ELSE
       [sessions EXCEPT ![s] = [owner |-> q.owner, strategy |-> q.strategy, code |-> q.code,
                                up |-> TRUE, unfinished |-> FALSE]]
  /\ EndRequest(r)
  /\ UNCHANGED <<ownersUp, entries>>

-----------------------------------------------------------------------------
(* The ends of a session and of an owner.  None of them takes a lock.      *)

\* What is not unfinished is forgotten: no later check reads it.
Down(s) == IF sessions[s].unfinished THEN [sessions[s] EXCEPT !.up = FALSE] ELSE NoSession

StopSession(s) ==
  /\ sessions[s].up
  /\ sessions' = [sessions EXCEPT ![s] = Down(s)]
  /\ UNCHANGED <<ownersUp, entries, Locks, request>>

\* UserService.deactivate_account.
Withdraw(u) ==
  /\ u \in ownersUp
  /\ ownersUp' = ownersUp \ {u}
  /\ sessions' = [s \in Slots |-> IF s \in ActiveOf(u) THEN Down(s) ELSE sessions[s]]
  /\ UNCHANGED <<entries, Locks, request>>

\* The risk ledger of a code session ends flat, with all its cancels confirmed.
FinishRisk(s) ==
  /\ sessions[s].unfinished /\ \A e \in EntryIds : entries[e].by = s => ~Open(e)
  /\ sessions' = [sessions EXCEPT ![s] =
       IF sessions[s].up THEN [@ EXCEPT !.unfinished = FALSE] ELSE NoSession]
  /\ UNCHANGED <<ownersUp, entries, Locks, request>>

-----------------------------------------------------------------------------
(* Entries of manual orders, webhooks and legacy signals.                  *)

\* OrderService.execute: the owner is asked first, the admission last.
AskEntry(r, u, e) ==
  /\ At(r, "idle") /\ u \in ownersUp /\ symbolLock = NoTask
  /\ entries[e] = NoEntry /\ \A t \in Requests : request[t].entry # e
  /\ Admits(FALSE, Legacy)
  /\ request' = [request EXCEPT ![r] = [IdleRequest EXCEPT !.at = "entry", !.owner = u, !.entry = e]]
  /\ symbolLock' = r
  /\ UNCHANGED <<Rows, quotaLock>>

SaveEntry(r) ==
  /\ At(r, "entry")
  /\ entries' = [entries EXCEPT ![request[r].entry] =
       [NoEntry EXCEPT !.owner = request[r].owner, !.state = "pending"]]
  /\ EndRequest(r)
  /\ UNCHANGED <<ownersUp, sessions>>

\* _async_execute claims the row, or rejects it for an owner who has left.
ClaimEntry(r, e) ==
  /\ At(r, "idle") /\ entries[e].state = "pending" /\ entries[e].by = Legacy
  /\ IF entries[e].owner \in ownersUp
     THEN /\ entries' = [entries EXCEPT ![e].state = "submitted"]
          /\ request' = [request EXCEPT ![r] =
               [IdleRequest EXCEPT !.at = "claimed", !.owner = entries[e].owner, !.entry = e]]
     ELSE entries' = [entries EXCEPT ![e] = NoEntry] /\ UNCHANGED request
  /\ UNCHANGED <<ownersUp, sessions, Locks>>

\* Right before create_order: the admission again, and the commit frees the lock.
RecheckEntry(r) ==
  /\ At(r, "claimed") /\ symbolLock = NoTask
  /\ IF Admits(FALSE, Legacy)
     THEN Go(r, "sending") /\ UNCHANGED entries
     ELSE /\ entries' = [entries EXCEPT ![request[r].entry] = NoEntry]
          /\ request' = [request EXCEPT ![r] = IdleRequest]
  /\ UNCHANGED <<ownersUp, sessions, Locks>>

-----------------------------------------------------------------------------
(* Entries of a code session.                                              *)

\* on_intent: admission of the session's own, then the order, the ledger and
\* the outbox in one transaction.
AdmitIntent(r, s, e) ==
  /\ At(r, "idle") /\ symbolLock = NoTask
  /\ entries[e] = NoEntry /\ \A t \in Requests : request[t].entry # e
  /\ sessions[s].up /\ sessions[s].code /\ ~sessions[s].unfinished
  /\ Admits(TRUE, s)
  /\ request' = [request EXCEPT ![r] = [IdleRequest EXCEPT
       !.at = "preparing", !.owner = sessions[s].owner, !.slot = s, !.entry = e]]
  /\ symbolLock' = r
  /\ UNCHANGED <<Rows, quotaLock>>

\* The session may have been stopped since; its row is kept for its ledger.
PrepareEntry(r) ==
  LET q == request[r] IN
  /\ At(r, "preparing")
  /\ entries' = [entries EXCEPT ![q.entry] =
       [NoEntry EXCEPT !.owner = q.owner, !.by = q.slot, !.state = "pending"]]
  /\ sessions' = [sessions EXCEPT ![q.slot] =
       IF @ = NoSession THEN [NoSession EXCEPT !.owner = q.owner, !.code = TRUE, !.unfinished = TRUE]
       ELSE [@ EXCEPT !.unfinished = TRUE]]
  /\ EndRequest(r)
  /\ UNCHANGED ownersUp

\* CodeRiskVenue._submit: the admission again before the row is submitted; a
\* refusal leaves it pending.
AdmitSubmit(r, e) ==
  LET s == entries[e].by IN
  /\ At(r, "idle") /\ symbolLock = NoTask
  /\ entries[e].state = "pending" /\ s # Legacy
  /\ Admits(TRUE, s)
  /\ request' = [request EXCEPT ![r] = [IdleRequest EXCEPT
       !.at = "submitting", !.owner = entries[e].owner, !.slot = s, !.entry = e]]
  /\ symbolLock' = r
  /\ UNCHANGED <<Rows, quotaLock>>

SubmitEntry(r) ==
  /\ At(r, "submitting")
  /\ IF entries[request[r].entry].state = "pending"
     THEN /\ entries' = [entries EXCEPT ![request[r].entry].state = "submitted"]
          /\ Go(r, "sending") /\ Unlock(r)
     ELSE EndRequest(r) /\ UNCHANGED entries
  /\ UNCHANGED <<ownersUp, sessions>>

-----------------------------------------------------------------------------
(* Both kinds at the exchange.                                             *)

SendEntry(r) ==
  /\ At(r, "sending")
  /\ entries' = [entries EXCEPT ![request[r].entry].sent = TRUE]
  /\ request' = [request EXCEPT ![r] = IdleRequest]
  /\ UNCHANGED <<ownersUp, sessions, Locks>>

\* Filled, cancelled or rejected; a pending row may be cancelled by its owner
\* or by the close of its code session.
EndEntry(e) ==
  /\ entries[e].sent \/ entries[e].state = "pending"
  /\ entries' = [entries EXCEPT ![e] = NoEntry]
  /\ UNCHANGED <<ownersUp, sessions, Locks, request>>

RegistryInit ==
  /\ ownersUp = Owners
  /\ sessions = [s \in Slots |-> NoSession]
  /\ entries = [e \in EntryIds |-> NoEntry]
  /\ quotaLock = [u \in Owners |-> NoTask]
  /\ symbolLock = NoTask
  /\ request = [r \in Requests |-> IdleRequest]

RegistryNext ==
  \/ \E r \in Requests :
       \/ \E u \in Owners, strat \in Strategies, c \in BOOLEAN : AskSession(r, u, strat, c)
       \/ RefuseSession(r) \/ CountUnderLock(r) \/ AdmitSession(r)
       \/ \E s \in Slots : SaveSession(r, s)
       \/ \E u \in Owners, e \in EntryIds : AskEntry(r, u, e)
       \/ SaveEntry(r) \/ RecheckEntry(r) \/ PrepareEntry(r) \/ SubmitEntry(r) \/ SendEntry(r)
       \/ \E e \in EntryIds : ClaimEntry(r, e) \/ AdmitSubmit(r, e)
       \/ \E s \in Slots, e \in EntryIds : AdmitIntent(r, s, e)
  \/ \E s \in Slots : StopSession(s) \/ FinishRisk(s)
  \/ \E u \in Owners : Withdraw(u)
  \/ \E e \in EntryIds : EndEntry(e)

RegistrySpec == RegistryInit /\ [][RegistryNext]_registryVars

-----------------------------------------------------------------------------
(* Correctness.                                                            *)

Sessions ==
  [owner : Owners \cup {NoTask}, strategy : Strategies \cup {NoTask},
   code : BOOLEAN, up : BOOLEAN, unfinished : BOOLEAN]
Entries ==
  [owner : Owners \cup {NoTask}, by : Slots \cup {Legacy},
   state : {"none", "pending", "submitted"}, sent : BOOLEAN]
Places ==
  [at : RequestSteps, owner : Owners \cup {NoTask}, strategy : Strategies \cup {NoTask},
   code : BOOLEAN, slot : Slots \cup {Legacy}, entry : EntryIds \cup {NoTask}]

RegistryTypeOK ==
  /\ ownersUp \subseteq Owners
  /\ sessions \in [Slots -> Sessions]
  /\ entries \in [EntryIds -> Entries]
  /\ quotaLock \in [Owners -> Requests \cup {NoTask}]
  /\ symbolLock \in Requests \cup {NoTask}
  /\ request \in [Requests -> Places]

\* However many registrations of one user overlap, their sessions stay within
\* the cap that each of them was counted against (register, steps 2.5 and 4).
QuotaHolds == \A u \in Owners : Cardinality(ActiveOf(u)) <= SessionCap

\* While a code session is active, or its risk ledger unfinished, no other
\* session trades the same physical account and symbol and no entry that is
\* not its own is on the way to the exchange or at it: registrations, orders
\* and workers are admitted one after the other, each seeing the rows of the
\* ones before (acquire_code_symbol_admission and its five callers).
CodeAlone ==
  \A s \in Slots : sessions[s].code =>
    /\ \A t \in Slots \ {s} : ~sessions[t].up /\ ~sessions[t].unfinished
    /\ \A e \in EntryIds : Open(e) => entries[e].by = s

\* What the admission of sessions and entries keeps: the quota of a user, and a code
\* session alone on its account and symbol.
AdmissionHolds == QuotaHolds /\ CodeAlone

\* Said of deactivate_account: it closes every session of the owner at once,
\* so that none remains (auth/service.py, live_signal_session_repository.py).
WithdrawnIsSilent == \A s \in Slots : sessions[s].up => sessions[s].owner \in ownersUp
=============================================================================
