------------------------------- MODULE MCFat32 -------------------------------
(***************************************************************************)
(* Fat32 for TLC: the root directory has two clusters.                     *)
(***************************************************************************)
EXTENDS Fat32

MCRootChain == <<2, 4>>
MCShortChain == <<2>>
==============================================================================
