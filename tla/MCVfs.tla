------------------------------- MODULE MCVfs -------------------------------
(***************************************************************************)
(* Vfs for TLC: the archive mounted on "/i" has one file, the programs use *)
(* a directory "/d", a file in it, one in the root, and the archive.       *)
(***************************************************************************)
EXTENDS Vfs, TLC

MCArchive == <<[name |-> "f", data |-> <<"x">>]>>
MCPaths == {<<"d">>, <<"d", "f">>, <<"i", "f">>, <<"i", "g">>}

(* Which struct file kmalloc() returns makes no difference.                *)
FileSymmetry == Permutations(Files)
============================================================================
