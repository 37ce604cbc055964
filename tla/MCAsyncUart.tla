----------------------------- MODULE MCAsyncUart -----------------------------
(***************************************************************************)
(* AsyncUart for TLC; the constants are given in the configurations.       *)
(***************************************************************************)
EXTENDS AsyncUart
==============================================================================
