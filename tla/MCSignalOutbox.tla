--------------------------- MODULE MCSignalOutbox ---------------------------
(***************************************************************************)
(* Small instances of SignalOutbox for TLC: see the .cfg files.            *)
(***************************************************************************)
EXTENDS SignalOutbox, TLC
=============================================================================
