------------------------------ MODULE PageAlloc ------------------------------
(***************************************************************************)
(* What the page allocator of src/src/mm.c promises to its callers, with   *)
(* no free lists, flags or merging: a set of blocks that are handed out,   *)
(* every one naturally aligned, no two sharing a page, none containing a   *)
(* page outside Usable.  A block is a pair <<head, order>>.                *)
(***************************************************************************)
EXTENDS Naturals

CONSTANTS Usable,      \* the page frames that may be handed out
          Heads,       \* page frame numbers
          OrderSet,    \* the orders a caller may ask for
          Size         \* Size[o] pages in a block of order o

VARIABLE allocated     \* the blocks callers hold

Span(b) == b[1] .. (b[1] + Size[b[2]] - 1)

Init == allocated = {}

(* The block b is free, aligned and made of usable pages.                  *)
Available(b) ==
  /\ b[1] % Size[b[2]] = 0
  /\ Span(b) \subseteq Usable
  /\ \A c \in allocated : Span(c) \cap Span(b) = {}

(* __alloc_pages(o) returns some available block.                          *)
Take(b) ==
  /\ Available(b)
  /\ allocated' = allocated \cup {b}

Alloc(o) == \E p \in Heads : Take(<<p, o>>)

(* free_one_page() takes back a block that is held.                        *)
Release(b) ==
  /\ b \in allocated
  /\ allocated' = allocated \ {b}

Next == (\E o \in OrderSet : Alloc(o)) \/ (\E b \in allocated : Release(b))

Spec == Init /\ [][Next]_allocated
==============================================================================
