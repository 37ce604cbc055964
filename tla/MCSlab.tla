------------------------------- MODULE MCSlab -------------------------------
(***************************************************************************)
(* Values of the constants of Slab for TLC.                                *)
(***************************************************************************)
EXTENDS Slab

MCPow2 == [o \in 0 .. MaxOrder |-> 2 ^ o]
==============================================================================
