-------------------------------- MODULE MCBooks --------------------------------
(***************************************************************************)
(* The books that are kept of what a strategy traded, checked side by side:*)
(* the order ledger, the one of the Pine engine, the one of a backtest of  *)
(* code, and the report of what was lost of the entries.  A behaviour      *)
(* follows one of them and leaves the others as they begin; they share no  *)
(* variable.                                                               *)
(***************************************************************************)
EXTENDS OrderLedger, PineBroker, SwingRisk, EntryCompleteness, TLC

VARIABLE followed   \* the book of this behaviour

MCQuantities == {-1, 2}
WorkerSymmetry == Permutations(Workers)

booksVars == <<followed, vars, brokerVars, swingVars, tryVars>>

BooksInit ==
  /\ followed \in {"ledger", "engine", "code", "entries"}
  /\ Init /\ BrokerInit /\ SwingInit /\ TryInit
  /\ followed # "engine" => mode = [nextOpen |-> FALSE, live |-> FALSE] /\ inSession
  /\ followed # "ledger" => conditional = {}

LedgerFollowed == followed = "ledger" /\ Next /\ UNCHANGED <<followed, brokerVars, swingVars, tryVars>>
EngineFollowed == followed = "engine" /\ BrokerNext /\ UNCHANGED <<followed, vars, swingVars, tryVars>>
CodeFollowed   == followed = "code" /\ SwingNext /\ UNCHANGED <<followed, vars, brokerVars, tryVars>>
TriesFollowed  == followed = "entries" /\ TryNext /\ UNCHANGED <<followed, vars, brokerVars, swingVars>>

BooksSpec == BooksInit /\ [][LedgerFollowed \/ EngineFollowed \/ CodeFollowed \/ TriesFollowed]_booksVars

\* Every variable of the books stays within its type.
BooksTypeOK == TypeOK /\ BrokerTypeOK /\ SwingTypeOK /\ TryTypeOK
=============================================================================
