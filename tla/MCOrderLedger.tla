---------------------------- MODULE MCOrderLedger ----------------------------
(***************************************************************************)
(* Small instances of OrderLedger for TLC: see the .cfg files.             *)
(***************************************************************************)
EXTENDS OrderLedger, TLC

WorkerSymmetry == Permutations(Workers)
=============================================================================
