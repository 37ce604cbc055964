-------------------------------- MODULE Heap --------------------------------
(***************************************************************************)
(* What kmalloc() and kfree() promise to the rest of the kernel: every     *)
(* allocation <<address, size>> is made of bytes of its own.               *)
(***************************************************************************)
EXTENDS Integers

CONSTANTS Memory,      \* the addresses that may be handed out
          Sizes        \* the sizes that are asked for

VARIABLE live          \* the allocations callers hold

Bytes(c) == c[1] .. (c[1] + c[2] - 1)

Init == live = {}

Kmalloc(n) ==
  \E a \in Memory :
    /\ Bytes(<<a, n>>) \subseteq Memory
    /\ \A c \in live : Bytes(c) \cap Bytes(<<a, n>>) = {}
    /\ live' = live \cup {<<a, n>>}

Kfree(c) ==
  /\ c \in live
  /\ live' = live \ {c}

Next == (\E n \in Sizes : Kmalloc(n)) \/ (\E c \in live : Kfree(c))

Spec == Init /\ [][Next]_live
==============================================================================
