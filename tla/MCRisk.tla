-------------------------------- MODULE MCRisk --------------------------------
(***************************************************************************)
(* Three things that a fill at the exchange sets going, checked side by    *)
(* side: the reconciliation of a code strategy's position, the amount that *)
(* the order realized, and the trailing stop of its position.  A behaviour *)
(* follows one of them and leaves the others as they begin; they share no  *)
(* variable.                                                               *)
(***************************************************************************)
EXTENDS CodeRisk, ClosedPnl, TrailingStop

VARIABLE traced   \* what this behaviour follows

MCAmount == [r \in {1, 2} |-> r]
MCRetryDelay == [k \in 0..MaxRetries |-> 2 ^ k]

tracedVars == <<traced, riskVars, pnlVars, trailVars>>

TracedInit ==
  /\ traced \in {"position", "amount", "trail"}
  /\ RiskInit /\ PnlInit /\ TrailInit
  /\ traced # "amount" => priced.kind = "exit"
  /\ traced # "trail" => intent = "valid"

PositionTraced == traced = "position" /\ RiskNext /\ UNCHANGED <<traced, pnlVars, trailVars>>
AmountTraced   == traced = "amount" /\ PnlNext /\ UNCHANGED <<traced, riskVars, trailVars>>
TrailTraced    == traced = "trail" /\ TrailNext /\ UNCHANGED <<traced, riskVars, pnlVars>>

\* The fairness of each, where it is followed.
TracedFairness ==
  /\ \A d \in Drains :
       WF_riskVars(traced = "position" /\ Followed /\ DrainStep(d) /\ UNCHANGED riskFaults)
  /\ WF_riskVars(traced = "position" /\ Followed /\ MarketStep /\ UNCHANGED riskFaults)
  /\ WF_riskVars(traced = "position" /\ Followed /\ \E k \in Running : LeaseEnds(k))
  /\ \A s \in Sweepers :
       WF_pnlVars(traced = "amount" /\ SweepStep(s) /\ UNCHANGED pnlFaults)
  /\ WF_trailVars(traced = "trail" /\ (Tick \/ TrailWork))

TracedNext == PositionTraced \/ AmountTraced \/ TrailTraced

TracedSpec == TracedInit /\ [][TracedNext]_tracedVars /\ TracedFairness

\* Every variable of the three stays within its type.
TracedTypeOK == RiskTypeOK /\ PnlTypeOK /\ TrailTypeOK

\* What is followed comes to its end: the amount settles on what the exchange lists
\* (PnlSettles), and the task of the trailing stop ends (TrailEnds).
TracesSettle == <>[]((traced = "amount" => PnlSettled) /\ TrailSettled)
=============================================================================
