------------------------------- MODULE MCBuddy -------------------------------
(***************************************************************************)
(* Values of the constants of Buddy for TLC.                               *)
(***************************************************************************)
EXTENDS Buddy

MCPow2 == [o \in 0 .. MaxOrder |-> 2 ^ o]

(* A reserved region that starts and ends inside a page (of 4 units): in   *)
(* the last four of twelve pages.                                          *)
LastPages == {[base |-> 33, size |-> 13]}

ZeroedRam == {[flags |-> "NONE", private |-> 0]}
==============================================================================
