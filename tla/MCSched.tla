------------------------------- MODULE MCSched -------------------------------
(***************************************************************************)
(* Sched for TLC; the constants are given in the configurations.           *)
(***************************************************************************)
EXTENDS Sched
==============================================================================
