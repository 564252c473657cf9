--------------------------------- MODULE MCJobs ---------------------------------
(***************************************************************************)
(* The jobs of the workers, checked side by side: a behaviour follows the  *)
(* backtest jobs or the jobs made of a completed backtest, and leaves the  *)
(* others as they begin.  They share no variable.                          *)
(***************************************************************************)
EXTENDS BacktestJob, ResearchJob

VARIABLE jobFocus   \* what this behaviour follows

jobsVars == <<jobFocus, vars, researchVars>>

JobsInit == jobFocus \in {"backtest", "research"} /\ Init /\ ResearchInit

BacktestFocus == jobFocus = "backtest" /\ Next /\ UNCHANGED <<jobFocus, researchVars>>
ResearchFocus == jobFocus = "research" /\ ResearchNext /\ UNCHANGED <<jobFocus, vars>>

\* The fairness of a behaviour is that of the jobs that it follows.
JobsFairness ==
  /\ \A w \in Workers : WF_vars(jobFocus = "backtest" /\ RunNext(w))
  /\ \A j \in Jobs :
       /\ SF_vars(jobFocus = "backtest" /\ \E w \in Workers : TakeNext(w, j))
       /\ WF_vars(jobFocus = "backtest" /\ Reclaim(j))
  /\ \A w \in Researchers : WF_researchVars(jobFocus = "research" /\ EndResearch(w))
  /\ \A r \in Research : WF_researchVars(jobFocus = "research" /\ ReclaimResearch(r))

JobsSpec == JobsInit /\ [][BacktestFocus \/ ResearchFocus]_jobsVars /\ JobsFairness

\* Every variable of both stays within its type.
JobsTypeOK == TypeOK /\ ResearchTypeOK

\* Every job that a worker began comes to an end, whichever is followed: the
\* executor ends it or the reclaim of beat does.
JobsEnd == StartedEnds /\ ResearchEnds
=============================================================================
