------------------------------ MODULE ResearchJob ------------------------------
(***************************************************************************)
(* The life of an optimization run or a stress test, the two jobs made of  *)
(* a completed backtest: submit in the API process, the Celery worker, and *)
(* the stale reclaim of beat.  Both are built alike: the message is        *)
(* published before the row is committed, no one can cancel, and every     *)
(* write of a worker is a conditional UPDATE.                              *)
(*                                                                         *)
(* The backtest stays completed and in place: its end is final and a row   *)
(* that refers to it forbids its delete (ondelete RESTRICT).  The age a    *)
(* run must have for reclaim is left out, but not what it means: the hard  *)
(* limit of an optimization (660 s) ends its worker before that age        *)
(* (1800 s), the soft limit of a stress test is that very age.             *)
(*                                                                         *)
(* A definition directly above another of a similar name is a plausible    *)
(* mistake of the code, used by no action: see the mutants of PROJECT.json.*)
(***************************************************************************)
EXTENDS Integers, FiniteSets

CONSTANTS
  Research,         \* rows of optimization_runs and stress_tests
  Optimizations,    \* those of optimization_runs
  Researchers,      \* Celery worker processes
  MaxResearchFaults \* bound: crashes and broker failures

ASSUME ResearchAssumption == Optimizations \subseteq Research /\ MaxResearchFaults \in Nat

VARIABLES
  rowStatus,    \* rowStatus[r]: as committed, "none" before
  submitted,    \* submitted[r]: how far submit has come
  broker,       \* rows whose message waits
  holding,      \* holding[w]: the row worker w is in the middle of
  researchFaults

researchVars == <<rowStatus, submitted, broker, holding, researchFaults>>

Resting == [pc |-> "idle"]
ResearchBusy == [pc : {"read", "working"}, row : Research]
ResearchFault == researchFaults < MaxResearchFaults /\ researchFaults' = researchFaults + 1
Working(r) == {w \in Researchers : holding[w] = [pc |-> "working", row |-> r]}
Written(r, s) == rowStatus' = [rowStatus EXCEPT ![r] = s]
Release(w) == holding' = [holding EXCEPT ![w] = Resting]

ResearchInit ==
  /\ rowStatus = [r \in Research |-> "none"]
  /\ submitted = [r \in Research |-> "no"]
  /\ broker = {} /\ holding = [w \in Researchers |-> Resting] /\ researchFaults = 0

-----------------------------------------------------------------------------
(* WHERE clauses of the conditional UPDATEs of the two repositories. *)

ResearchRunnable(r) == rowStatus[r] = "queued"
ResearchEndableAnyway(r) == rowStatus[r] # "none"
ResearchEndable(r) == rowStatus[r] = "running"

-----------------------------------------------------------------------------
(* submit: the row is flushed when its message is published.  A dispatch that
   fails rolls the row back, which is a request that never was. *)
PublishResearch(r) ==
  /\ submitted[r] = "no"
  /\ submitted' = [submitted EXCEPT ![r] = "published"]
  /\ broker' = broker \cup {r}
  /\ UNCHANGED <<rowStatus, holding, researchFaults>>

CommitResearch(r) ==
  /\ submitted[r] = "published"
  /\ submitted' = [submitted EXCEPT ![r] = "done"]
  /\ Written(r, "queued")
  /\ UNCHANGED <<broker, holding, researchFaults>>

LoseSubmit(r) ==
  /\ ResearchFault
  /\ submitted[r] = "published"
  /\ submitted' = [submitted EXCEPT ![r] = "done"]
  /\ UNCHANGED <<rowStatus, broker, holding>>

-----------------------------------------------------------------------------
(* The worker: run.  A message whose row is not visible, or not queued, is done. *)

TakeResearch(w, r) ==
  /\ holding[w] = Resting
  /\ r \in broker
  /\ broker' = broker \ {r}
  /\ IF rowStatus[r] = "queued"
       THEN holding' = [holding EXCEPT ![w] = [pc |-> "read", row |-> r]]
       ELSE UNCHANGED holding
  /\ UNCHANGED <<rowStatus, submitted, researchFaults>>

\* transition_to_running: no row, another worker has it.
StartResearch(w) ==
  /\ holding[w].pc = "read"
  /\ LET r == holding[w].row
     IN  IF ResearchRunnable(r)
           THEN Written(r, "running") /\ holding' = [holding EXCEPT ![w].pc = "working"]
           ELSE Release(w) /\ UNCHANGED rowStatus
  /\ UNCHANGED <<submitted, broker, researchFaults>>

\* The executor returns a result, or raises; its soft time limit raises too.
EndResearch(w) ==
  /\ holding[w].pc = "working"
  /\ LET r == holding[w].row
     IN  \/ ResearchEndable(r) /\ \E end \in {"completed", "failed"} : Written(r, end)
         \/ ~ResearchEndable(r) /\ UNCHANGED rowStatus
  /\ Release(w)
  /\ UNCHANGED <<submitted, broker, researchFaults>>

\* A worker is killed, or its last transaction fails; a message that was not
\* acknowledged returns to the queue, one that was is gone.
LoseResearcher(w) ==
  /\ ResearchFault
  /\ holding[w] # Resting
  /\ \E again \in {{}, {holding[w].row}} : broker' = broker \cup again
  /\ Release(w)
  /\ UNCHANGED <<rowStatus, submitted>>

\* The worker loses the broker, which delivers its message a second time.
RedeliverResearch(w) ==
  /\ ResearchFault
  /\ holding[w] # Resting
  /\ broker' = broker \cup {holding[w].row}
  /\ UNCHANGED <<rowStatus, submitted, holding>>

-----------------------------------------------------------------------------
(* reclaim_stale, from beat and when a worker starts: running rows only. *)
ReclaimResearch(r) ==
  /\ rowStatus[r] = "running"
  /\ r \in Optimizations => Working(r) = {}
  /\ Written(r, "failed")
  /\ UNCHANGED <<submitted, broker, holding, researchFaults>>

ResearchWork(w) ==
  (\E r \in Research : TakeResearch(w, r)) \/ StartResearch(w) \/ EndResearch(w)

ResearchNext ==
  \/ \E r \in Research : PublishResearch(r) \/ CommitResearch(r) \/ LoseSubmit(r) \/ ReclaimResearch(r)
  \/ \E w \in Researchers : ResearchWork(w) \/ LoseResearcher(w) \/ RedeliverResearch(w)

\* The executor ends, if only by its time limit, and beat reclaims again and again.
ResearchFairness ==
  /\ \A w \in Researchers : WF_researchVars(EndResearch(w))
  /\ \A r \in Research : WF_researchVars(ReclaimResearch(r))

ResearchSpec == ResearchInit /\ [][ResearchNext]_researchVars /\ ResearchFairness

-----------------------------------------------------------------------------
(* Properties *)

\* Every variable stays within its type.
ResearchTypeOK ==
  /\ rowStatus \in [Research -> {"none", "queued", "running", "completed", "failed"}]
  /\ submitted \in [Research -> {"no", "published", "done"}]
  /\ broker \subseteq Research
  /\ holding \in [Researchers -> {Resting} \cup ResearchBusy]
  /\ researchFaults \in 0..MaxResearchFaults

\* An end is final: the reclaim that overtakes a slow worker is not overwritten
\* by its late result, nor the other way round, and no second delivery begins an
\* ended run again.
ResearchFinal ==
  [][\A r \in Research :
       rowStatus[r] \in {"completed", "failed"} => rowStatus'[r] = rowStatus[r]]_researchVars

\* A run that a worker began ends, whoever dies, and ends once.
ResearchEnds ==
  /\ ResearchFinal
  /\ \A r \in Research : rowStatus[r] = "running" ~> rowStatus[r] \in {"completed", "failed"}
=============================================================================
