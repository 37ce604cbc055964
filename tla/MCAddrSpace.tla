----------------------------- MODULE MCAddrSpace -----------------------------
(***************************************************************************)
(* AddrSpace for TLC.  The MMU's four levels of 512 entries become Levels  *)
(* levels of Fanout; the program, the peripherals and the stack still need *)
(* tables of their own.                                                    *)
(***************************************************************************)
EXTENDS AddrSpace
==============================================================================
