--------------------------- MODULE OrderLifecycle ---------------------------
(***************************************************************************)
(* What the order ledger promises about one order, whoever moves it: the   *)
(* web request, a Celery worker, the private stream or a recovery job.     *)
(*                                                                         *)
(*   - the row goes pending -> submitted -> filled | rejected | cancelled, *)
(*     or straight from pending to rejected or cancelled;                  *)
(*   - the exchange is asked to create the order at most once, and only    *)
(*     while the row says submitted;                                       *)
(*   - a row is filled only after the exchange was asked;                  *)
(*   - the side effects of the end of an order (gauge decrement, trailing  *)
(*     stop and P&L jobs) run at most once, and only after the end.        *)
(*                                                                         *)
(* Nothing here says that the side effects do run: a crash between the     *)
(* commit and the side effects loses them (Crash in OrderLedger).          *)
(***************************************************************************)
CONSTANT Orders

VARIABLES
  status,   \* status[o]: the state column of the row, "none" before the INSERT
  sent,     \* sent[o]: the exchange was asked to create the order
  settled   \* settled[o]: the side effects of the end ran

vars == <<status, sent, settled>>

Terminal == {"filled", "rejected", "cancelled"}
Status   == {"none", "pending", "submitted"} \cup Terminal

TypeOK ==
  /\ status \in [Orders -> Status]
  /\ sent \in [Orders -> BOOLEAN]
  /\ settled \in [Orders -> BOOLEAN]

Init ==
  /\ status = [o \in Orders |-> "none"]
  /\ sent = [o \in Orders |-> FALSE]
  /\ settled = [o \in Orders |-> FALSE]

Place(o) ==
  /\ status[o] = "none"
  /\ status' = [status EXCEPT ![o] = "pending"]
  /\ UNCHANGED <<sent, settled>>

Claim(o) ==
  /\ status[o] = "pending"
  /\ status' = [status EXCEPT ![o] = "submitted"]
  /\ UNCHANGED <<sent, settled>>

Send(o) ==
  /\ status[o] = "submitted"
  /\ ~sent[o]
  /\ sent' = [sent EXCEPT ![o] = TRUE]
  /\ UNCHANGED <<status, settled>>

Withdraw(o, end) ==
  /\ status[o] \in {"pending", "submitted"}
  /\ end \in {"rejected", "cancelled"}
  /\ end = "cancelled" /\ status[o] = "submitted" => sent[o]
  /\ status' = [status EXCEPT ![o] = end]
  /\ UNCHANGED <<sent, settled>>

Fill(o) ==
  /\ status[o] = "submitted"
  /\ sent[o]
  /\ status' = [status EXCEPT ![o] = "filled"]
  /\ UNCHANGED <<sent, settled>>

Settle(o) ==
  /\ status[o] \in Terminal
  /\ ~settled[o]
  /\ settled' = [settled EXCEPT ![o] = TRUE]
  /\ UNCHANGED <<status, sent>>

Next == \E o \in Orders :
  \/ Place(o)
  \/ Claim(o)
  \/ Send(o)
  \/ \E end \in {"rejected", "cancelled"} : Withdraw(o, end)
  \/ Fill(o)
  \/ Settle(o)

Spec == Init /\ [][Next]_vars
=============================================================================
