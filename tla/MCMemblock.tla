----------------------------- MODULE MCMemblock -----------------------------
(***************************************************************************)
(* Memblock for TLC: a memory of PhysMax addresses, archives of no file    *)
(* and of one file.                                                        *)
(***************************************************************************)
EXTENDS Memblock

MCArchives == {<<>>, <<1>>}
=============================================================================
