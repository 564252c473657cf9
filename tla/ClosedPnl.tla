------------------------------- MODULE ClosedPnl -------------------------------
(***************************************************************************)
(* How the amount that the exchange realized on one order replaces the     *)
(* estimate of the ledger: the refresh task of a recorded fill             *)
(* (refresh_closed_pnl_task), the sweep of beat over the last seven days   *)
(* (sweep_closed_pnl_task, several may overlap) and the table              *)
(* exchange_exits that it fills.                                           *)
(*                                                                         *)
(* A row of the exchange's closed-pnl list is a raw.  An order of the old  *)
(* kind is worth the sum of its raws (a fill may be split over several);   *)
(* an order of a code strategy is worth the one raw whose quantity fits,   *)
(* and two raws are a conflict for ever; a child of a native stop is       *)
(* worth what the private stream said of it.                               *)
(*                                                                         *)
(* A definition directly above another of a similar name is a plausible    *)
(* mistake of the code, used by no action: see the mutants of PROJECT.json.*)
(***************************************************************************)
EXTENDS Integers, FiniteSets, FiniteSetsExt

CONSTANTS
  Raws,            \* the raws that the list may show of the order
  Amount,          \* what each of them is worth
  Fitting,         \* the ones with the quantity of the order
  NativeAmount,    \* what the stream says of a native child
  Sweepers,        \* sweeps that may overlap
  MaxRefreshTries, \* bound of the source: _CLOSED_PNL_MAX_RETRIES
  MaxPnlFaults     \* crashes, failed and incomplete reads

ASSUME PnlAssumption ==
  /\ IsFiniteSet(Raws) /\ Fitting \subseteq Raws
  /\ Amount \in [Raws -> Int] /\ NativeAmount \in Int
  /\ MaxRefreshTries \in Nat /\ MaxPnlFaults \in Nat

VARIABLES
  priced,      \* the row of the order: its kind, fill, amount and evidence
  published,   \* raws that the list has shown so far
  listing,     \* and the ones it shows now
  windowOpen,  \* they are not older than the seven days of a read
  exitRows,       \* raws of the order in exchange_exits
  refresh,     \* the refresh task of the order
  sweep,       \* what each sweep is doing with the account
  pnlFaults

pnlVars == <<priced, published, listing, windowOpen, exitRows, refresh, sweep, pnlFaults>>

LegacyKinds == {"exit", "reversal"}     \* orders without a risk_context
Kinds  == LegacyKinds \cup {"code", "native"}

Worth(raws) == MapThenSumSet(LAMBDA r : Amount[r], raws)

\* What a read of the list returns; only a complete one can be evidence.
Reads == [raws : SUBSET Raws, complete : BOOLEAN]
NoRead == [raws |-> {}, complete |-> FALSE]

Resting == [pc |-> "idle", read |-> NoRead, matched |-> FALSE,
            mode |-> "none", sum |-> 0]

PnlTypeOK ==
  /\ priced \in [kind : Kinds, recorded : BOOLEAN, synced : BOOLEAN, pnl : Int,
                 evidence : SUBSET Raws, observed : SUBSET Raws, conflict : BOOLEAN]
  /\ Cardinality(priced.evidence) <= 1 /\ Cardinality(priced.observed) <= 1
  /\ listing \subseteq published /\ published \subseteq Raws
  /\ windowOpen \in BOOLEAN
  /\ exitRows \subseteq published
  /\ refresh \in [pc : {"none", "queued", "read", "done"}, read : Reads,
                  tries : 0..MaxRefreshTries]
  /\ sweep \in [Sweepers -> [pc : {"idle", "fetched", "matched", "stored", "listed", "read"},
                             read : Reads, matched : BOOLEAN,
                             mode : {"none", "initial", "resync"}, sum : Int]]
  /\ pnlFaults \in 0..MaxPnlFaults

\* A submitted order whose fill is not recorded; or an order of a code strategy
\* that was given its amount before evidence was asked for.
PnlInit ==
  /\ priced \in
       [kind : Kinds, recorded : {FALSE}, synced : {FALSE}, pnl : {0},
        evidence : {{}}, observed : {{}}, conflict : {FALSE}]
       \cup [kind : {"code"}, recorded : {TRUE}, synced : {TRUE}, pnl : {Amount[r] : r \in Raws},
             evidence : {{}}, observed : {{}}, conflict : {FALSE}]
  /\ published = {} /\ listing = {} /\ windowOpen = TRUE /\ exitRows = {}
  /\ refresh = [pc |-> "none", read |-> NoRead, tries |-> 0]
  /\ sweep = [s \in Sweepers |-> Resting]
  /\ pnlFaults = 0

-----------------------------------------------------------------------------
(* The exchange and the clock *)

\* A row settles in the list, or a row of it is shown anew with other contents.
Publish ==
  /\ windowOpen
  /\ \E r \in Raws \ published, gone \in SUBSET listing :
       /\ Cardinality(gone) <= 1
       /\ published' = published \cup {r}
       /\ listing' = (listing \ gone) \cup {r}
  /\ UNCHANGED <<priced, windowOpen, exitRows, refresh, sweep, pnlFaults>>

WindowPasses ==
  /\ windowOpen /\ windowOpen' = FALSE
  /\ UNCHANGED <<priced, published, listing, exitRows, refresh, sweep, pnlFaults>>

InWindow == IF windowOpen THEN listing ELSE {}

PnlFault == pnlFaults < MaxPnlFaults /\ pnlFaults' = pnlFaults + 1

-----------------------------------------------------------------------------
(* The row of the order *)

\* The table is not asked.
MarkedAsRead(o, raws, invalid, table) ==
  LET known == raws \cup o.observed \cup o.evidence
  IN  IF o.kind # "code" THEN o
      ELSE IF Cardinality(known) > 1 \/ invalid THEN [o EXCEPT !.conflict = TRUE]
      ELSE [o EXCEPT !.observed = known]

\* mark_code_pnl_conflict: every raw that was ever seen of a code order counts,
\* the table's too.  A second one, or one that does not fit, is a conflict.
Marked(o, raws, invalid, table) ==
  LET known == raws \cup o.observed \cup o.evidence \cup table
  IN  IF o.kind # "code" THEN o
      ELSE IF Cardinality(known) > 1 \/ invalid THEN [o EXCEPT !.conflict = TRUE]
      ELSE [o EXCEPT !.observed = known]

\* What the read proves: the single raw of a complete one.
Proof(read) == IF read.complete /\ Cardinality(read.raws) = 1 THEN read.raws ELSE {}

\* _code_pnl_predicate after its marks: the evidence fits and nothing contradicts it.
Proven(o, proof) == proof # {} /\ proof \subseteq Fitting /\ ~o.conflict

\* backfill_exchange_realized_pnl: a CAS on the amount that is not confirmed yet.
Backfilled(o, amount, allowed, proof) ==
  IF o.recorded /\ o.kind # "native" /\ allowed /\ ~o.synced
  THEN [o EXCEPT !.synced = TRUE, !.pnl = amount, !.evidence = proof]
  ELSE o

\* A confirmed amount is never touched again.
ResyncedNever(o, amount, allowed, proof) == Backfilled(o, amount, allowed, proof)

\* resync_exchange_realized_pnl: one on the amount that is confirmed, and differs.
Resynced(o, amount, allowed, proof) ==
  IF o.recorded /\ o.kind # "native" /\ allowed /\ o.synced /\ o.pnl # amount
  THEN [o EXCEPT !.pnl = amount, !.evidence = proof]
  ELSE o

\* The first proof of an amount that is right as it stands is kept.
Witnessed(o, amount, allowed, proof) ==
  IF allowed /\ o.synced /\ o.pnl = amount /\ o.evidence = {}
  THEN [o EXCEPT !.evidence = proof]
  ELSE o

\* CodePnlEvidenceService.apply on one observation.
CodeApplied(read, mode) ==
  LET proof  == Proof(read)
      marked == Marked(priced, read.raws, ~(proof \subseteq Fitting), exitRows)
      amount == Amount[CHOOSE r \in proof : TRUE]
      ok     == Proven(marked, proof)
      seen   == Witnessed(marked, amount, ok, proof)
  IN  IF mode = "initial" THEN Backfilled(seen, amount, ok, proof)
      ELSE Resynced(seen, amount, ok, proof)

-----------------------------------------------------------------------------
(* The refresh of a recorded fill *)

\* The winner of the fill queues the refresh of a reduce-only order; the enqueue
\* may be lost in a crash.
RecordFill ==
  /\ ~priced.recorded
  /\ priced' = [priced EXCEPT !.recorded = TRUE]
  /\ \/ /\ priced.kind \in {"exit", "code"}
        /\ refresh' = [refresh EXCEPT !.pc = "queued"]
        /\ UNCHANGED pnlFaults
     \/ priced.kind \in {"reversal", "native"} /\ UNCHANGED <<refresh, pnlFaults>>
     \/ priced.kind \in {"exit", "code"} /\ PnlFault /\ UNCHANGED refresh
  /\ UNCHANGED <<published, listing, windowOpen, exitRows, sweep>>

\* A filled conditional entry is measured against the position; only one that is
\* proven to have reversed it has its refresh queued.
MeasureReversal ==
  /\ priced.kind = "reversal" /\ priced.recorded
  /\ refresh.pc = "none"
  /\ refresh' = [refresh EXCEPT !.pc = "queued"]
  /\ UNCHANGED <<priced, published, listing, windowOpen, exitRows, sweep, pnlFaults>>

\* self.retry of the task, or the alert once the retries are spent.
TriedAgain ==
  IF refresh.tries < MaxRefreshTries
  THEN [pc |-> "queued", read |-> NoRead, tries |-> refresh.tries + 1]
  ELSE [refresh EXCEPT !.pc = "done", !.read = NoRead]

RefreshDone == [refresh EXCEPT !.pc = "done", !.read = NoRead]

\* fetch_closed_pnl reads from an hour before the fill was seen, so it may find
\* some of the rows only, or none: a reversal leaves that to the sweep.
RefreshFindsLegacy ==
  /\ refresh.pc = "queued" /\ priced.kind \in LegacyKinds
  /\ \E raws \in SUBSET InWindow :
       refresh' = IF raws # {}
                  THEN [refresh EXCEPT !.pc = "read",
                                       !.read = [raws |-> raws, complete |-> TRUE]]
                  ELSE IF priced.kind = "reversal" THEN RefreshDone ELSE TriedAgain
  /\ UNCHANGED <<priced, published, listing, windowOpen, exitRows, sweep, pnlFaults>>

\* fetch_code_closed_pnl reads every page, or says that it did not.
CodeReads ==
  {[raws |-> InWindow, complete |-> TRUE]}
    \cup IF pnlFaults = MaxPnlFaults THEN {}
         ELSE [raws : SUBSET InWindow \ {{}}, complete : {FALSE}]

ReadFault(read) == IF read.complete THEN UNCHANGED pnlFaults ELSE PnlFault

RefreshFindsCode ==
  /\ refresh.pc = "queued" /\ priced.kind = "code"
  /\ \E read \in CodeReads :
       /\ refresh' = [refresh EXCEPT !.pc = "read", !.read = read]
       /\ ReadFault(read)
  /\ UNCHANGED <<priced, published, listing, windowOpen, exitRows, sweep>>

RefreshApplies ==
  /\ refresh.pc = "read"
  /\ \/ /\ priced.kind \in LegacyKinds
        /\ priced' = Backfilled(priced, Worth(refresh.read.raws), TRUE, {})
        /\ refresh' = RefreshDone
     \/ /\ priced.kind = "code"
        /\ priced' = CodeApplied(refresh.read, "initial")
        /\ refresh' = IF \/ Marked(priced, refresh.read.raws, FALSE, exitRows).conflict
                         \/ Proof(refresh.read) = {}
                      THEN TriedAgain ELSE RefreshDone
  /\ UNCHANGED <<published, listing, windowOpen, exitRows, sweep, pnlFaults>>

\* The read raises, and the task retries; or the worker dies, and the message
\* is delivered again (acks_late).
RefreshFails ==
  /\ refresh.pc \in {"queued", "read"}
  /\ PnlFault
  /\ \/ refresh.pc = "queued" /\ refresh' = TriedAgain
     \/ refresh.pc = "read" /\ refresh' = [refresh EXCEPT !.pc = "queued", !.read = NoRead]
  /\ UNCHANGED <<priced, published, listing, windowOpen, exitRows, sweep>>

\* _native_pnl of the stream's observation of a native child; a second amount
\* is refused.
NativeObserved ==
  /\ priced.kind = "native" /\ priced.recorded /\ ~priced.synced
  /\ priced' = [priced EXCEPT !.synced = TRUE, !.pnl = NativeAmount]
  /\ UNCHANGED <<published, listing, windowOpen, exitRows, refresh, sweep, pnlFaults>>

-----------------------------------------------------------------------------
(* The sweep of an account *)

SweepAt(s, pc) == sweep[s].pc = pc
SweepRests(s) == sweep' = [sweep EXCEPT ![s] = Resting]

\* fetch_closed_pnl_window; when its pages run out some rows stay unread.
SweepFetches(s) ==
  /\ SweepAt(s, "idle")
  /\ \E raws \in SUBSET InWindow :
       /\ IF raws = InWindow THEN UNCHANGED pnlFaults ELSE PnlFault
       /\ sweep' = [sweep EXCEPT ![s].pc = "fetched", ![s].read.raws = raws]
  /\ UNCHANGED <<priced, published, listing, windowOpen, exitRows, refresh>>

\* list_by_exchange_order_ids: the order is matched if its fill is recorded by now.
SweepMatches(s) ==
  /\ SweepAt(s, "fetched")
  /\ sweep' = [sweep EXCEPT ![s].pc = "matched",
                            ![s].matched = priced.recorded /\ sweep[s].read.raws # {}]
  /\ UNCHANGED <<priced, published, listing, windowOpen, exitRows, refresh, pnlFaults>>

\* upsert_rows and the marks of the matched orders, one transaction.
SweepStores(s) ==
  /\ SweepAt(s, "matched")
  /\ exitRows' = exitRows \cup sweep[s].read.raws
  /\ priced' = IF sweep[s].matched THEN Marked(priced, sweep[s].read.raws, FALSE, exitRows')
               ELSE priced
  /\ sweep' = [sweep EXCEPT ![s] = [Resting EXCEPT !.pc = "stored"]]
  /\ UNCHANGED <<published, listing, windowOpen, refresh, pnlFaults>>

\* list_unsynced_with_exchange_exit, and list_synced_with_exchange_exit, which
\* leaves out what agrees with the table.
ListedLegacy ==
  /\ priced.kind \in LegacyKinds /\ priced.recorded /\ exitRows # {}
  /\ ~priced.synced \/ priced.pnl # Worth(exitRows)

\* list_code_pnl_candidates, but for the age of the fill.
ListedCode ==
  /\ priced.kind = "code" /\ priced.recorded /\ exitRows # {}
  /\ ~priced.conflict /\ priced.evidence = {}

\* The lists, with the sums of the table.  A fill that was seen late may be young
\* enough for the list when its rows no longer are.
SweepLists(s) ==
  /\ SweepAt(s, "stored")
  /\ \/ /\ ListedLegacy \/ ListedCode
        /\ sweep' = [sweep EXCEPT ![s] =
             [Resting EXCEPT !.pc = "listed", !.sum = Worth(exitRows),
                             !.mode = IF priced.synced THEN "resync" ELSE "initial"]]
     \/ ~ListedLegacy /\ (ListedCode => ~windowOpen) /\ SweepRests(s)
  /\ UNCHANGED <<priced, published, listing, windowOpen, exitRows, refresh, pnlFaults>>

\* The old orders are corrected with the sums.
SweepCorrects(s) ==
  /\ SweepAt(s, "listed") /\ priced.kind \in LegacyKinds
  /\ priced' = IF sweep[s].mode = "initial" THEN Backfilled(priced, sweep[s].sum, TRUE, {})
               ELSE Resynced(priced, sweep[s].sum, TRUE, {})
  /\ SweepRests(s)
  /\ UNCHANGED <<published, listing, windowOpen, exitRows, refresh, pnlFaults>>

\* The code orders are read one by one, and applied together.
SweepReadsCode(s) ==
  /\ SweepAt(s, "listed") /\ priced.kind = "code"
  /\ \E read \in CodeReads :
       /\ sweep' = [sweep EXCEPT ![s].pc = "read", ![s].read = read]
       /\ ReadFault(read)
  /\ UNCHANGED <<priced, published, listing, windowOpen, exitRows, refresh>>

SweepAppliesCode(s) ==
  /\ SweepAt(s, "read")
  /\ priced' = CodeApplied(sweep[s].read, sweep[s].mode)
  /\ SweepRests(s)
  /\ UNCHANGED <<published, listing, windowOpen, exitRows, refresh, pnlFaults>>

\* An exception ends the account's turn; so does the death of the worker.
SweepFails(s) ==
  /\ ~SweepAt(s, "idle") /\ PnlFault /\ SweepRests(s)
  /\ UNCHANGED <<priced, published, listing, windowOpen, exitRows, refresh>>

SweepStep(s) ==
  \/ SweepFetches(s) \/ SweepMatches(s) \/ SweepStores(s) \/ SweepLists(s)
  \/ SweepCorrects(s) \/ SweepReadsCode(s) \/ SweepAppliesCode(s)

PnlNext ==
  \/ Publish \/ WindowPasses
  \/ RecordFill \/ MeasureReversal \/ NativeObserved
  \/ RefreshFindsLegacy \/ RefreshFindsCode \/ RefreshApplies \/ RefreshFails
  \/ \E s \in Sweepers : SweepStep(s) \/ SweepFails(s)

\* Beat starts a sweep every few minutes and a worker carries it on.  Nothing is
\* assumed of the refresh task, of the fill's being recorded, of the list.
PnlFairness == \A s \in Sweepers : WF_pnlVars(SweepStep(s) /\ UNCHANGED pnlFaults)

PnlSpec == PnlInit /\ [][PnlNext]_pnlVars /\ PnlFairness

-----------------------------------------------------------------------------
(* Properties *)

Known(o, table) == o.evidence \cup o.observed \cup table

\* The amount of a code order changes only to that of one fitting raw, which the
\* row names as its evidence, when nothing else is known of the order; a
\* conflict is never lifted and freezes the amount (docs/domain/
\* code-risk-execution.md, the limited support of REST amounts).  A native child
\* is priced by the stream alone, once.
PnlProven ==
  [][/\ priced.kind = "code" /\ priced.conflict =>
          /\ priced'.conflict
          /\ priced'.pnl = priced.pnl /\ priced'.synced = priced.synced
          /\ priced'.evidence = priced.evidence
     /\ priced.kind = "code" /\ <<priced'.pnl, priced'.synced>> # <<priced.pnl, priced.synced>> =>
          \E r \in Fitting :
            /\ priced'.evidence = {r} /\ priced'.pnl = Amount[r]
            /\ Known(priced', exitRows') = {r}
     /\ priced.kind = "native" /\ <<priced'.pnl, priced'.synced>> # <<priced.pnl, priced.synced>> =>
          ~priced.synced /\ priced'.pnl = NativeAmount]_pnlVars

\* What the order has come to when everything was read: an order of the old kind
\* has the sum of its rows in the table, and these are all that the list shows
\* while they are in the window; a code order has evidence or a conflict by
\* then, and a conflict if more than one raw is known of it.
PnlSettled ==
  /\ priced.kind \in LegacyKinds =>
       /\ priced.recorded /\ exitRows # {} => priced.synced /\ priced.pnl = Worth(exitRows)
       /\ windowOpen => listing \subseteq exitRows
  /\ priced.kind = "code" /\ windowOpen /\ priced.recorded /\ listing # {} =>
       /\ priced.conflict \/ priced.evidence # {}
       /\ Cardinality(Known(priced, exitRows)) > 1 => priced.conflict

\* It comes to that and stays so, whatever partial sum the refresh found or a
\* sweep computed that read the table too early (the docstring of
\* list_synced_with_exchange_exit).
PnlSettles == <>[]PnlSettled
=============================================================================
