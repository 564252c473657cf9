------------------------------ MODULE MCServices ------------------------------
(***************************************************************************)
(* The components around the ledgers, checked side by side in one run: a   *)
(* behaviour follows one of them, its focus, and leaves the others as they *)
(* begin.  They share no variable, so nothing is lost by that: the states  *)
(* of the run are those of each component's own specification, one after   *)
(* the other, never their product.                                         *)
(***************************************************************************)
EXTENDS StreamLease, BarEvaluation, SessionRegistry, ConditionalEntries

VARIABLE focus   \* the component whose behaviour this is

servicesVars == <<focus, streamVars, evalVars, registryVars, entryVars>>

ServicesInit ==
  /\ focus \in {"stream", "bar", "registry", "entries"}
  /\ StreamInit /\ BarInit /\ RegistryInit /\ EntriesInit

StreamFocus ==
  focus = "stream" /\ StreamNext /\ UNCHANGED <<focus, evalVars, registryVars, entryVars>>
BarFocus ==
  focus = "bar" /\ BarNext /\ UNCHANGED <<focus, streamVars, registryVars, entryVars>>
RegistryFocus ==
  focus = "registry" /\ RegistryNext /\ UNCHANGED <<focus, streamVars, evalVars, entryVars>>
EntriesFocus ==
  focus = "entries" /\ EntriesNext /\ UNCHANGED <<focus, streamVars, evalVars, registryVars>>

ServicesNext == StreamFocus \/ BarFocus \/ RegistryFocus \/ EntriesFocus

\* The fairness of each component, where its behaviour is the one followed.
ServicesFairness ==
  /\ \A w \in StreamWorkers :
       WF_streamVars(focus = "stream" /\ StreamWork(w) /\ UNCHANGED streamFaults)
  /\ WF_streamVars(focus = "stream" /\ ReconcileStreams)
  /\ WF_streamVars(focus = "stream" /\ leaseKey = Ghost /\ LeaseExpires)
  /\ WF_streamVars(focus = "stream" /\ BlockExpires)
  /\ \A w \in Evaluators :
       WF_evalVars(focus = "bar" /\ Evaluate(w) /\ UNCHANGED evalFaults)
  /\ WF_evalVars(focus = "bar" /\ evalLock = Gone /\ EvalLockExpires)
  /\ WF_entryVars(focus = "entries" /\ TickStep)
  /\ \A b \in BarTimes :
       /\ WF_entryVars(focus = "entries" /\ WorkerStep(b))
       /\ WF_entryVars(focus = "entries" /\ SweepStop(b))
       /\ WF_entryVars(focus = "entries" /\ JanitorStop(b))

ServicesSpec == ServicesInit /\ [][ServicesNext]_servicesVars /\ ServicesFairness

\* Every variable of every component stays within its type.
ServicesTypeOK == StreamTypeOK /\ BarTypeOK /\ RegistryTypeOK /\ EntriesTypeOK

\* The liveness of the component whose behaviour is followed.
ServicesSettle ==
  /\ focus = "stream" => StreamSettles
  /\ focus = "bar" => KeepsUp
  /\ focus = "entries" => OrphansEnd
=============================================================================
