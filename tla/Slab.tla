-------------------------------- MODULE Slab --------------------------------
(***************************************************************************)
(* kmalloc() and kfree() of src/src/mm.c and the slab allocator of         *)
(* src/src/slab.c, on top of the page allocator, of which only the promise *)
(* is used (PageAlloc).  The calls run with interrupts masked and are one  *)
(* action each.                                                            *)
(*                                                                         *)
(* Addresses are numbers; a virtual address and its physical address are   *)
(* not told apart.  The free pointers are kept where the code keeps them,  *)
(* in the first word of the free objects, which is the caller's while the  *)
(* object is in use.                                                       *)
(***************************************************************************)
EXTENDS Integers, Sequences, FiniteSets

CONSTANTS
  PageSize,     \* PAGE_SIZE
  NrPages,      \* the pages buddy has to give
  MaxOrder,     \* MAX_ORDER
  Pow2,         \* Pow2[o] is 1 << o
  NrObjects,    \* NR_OBJECTS, the number of kmem_caches
  MinObject,    \* OBJECT_SIZE(0)
  Sizes,        \* the sizes kmalloc() is called with
  MaxLive       \* bound: allocations in use at a time

Pages  == 0 .. NrPages - 1
Orders == 0 .. MaxOrder - 1
Caches == 0 .. NrObjects - 1
Addresses == 0 .. NrPages * PageSize - 1

ASSUME PageAssumption ==
  /\ PageSize \in Nat \ {0} /\ NrPages \in Nat /\ MaxOrder \in Nat \ {0}
  /\ Pow2 \in [0 .. MaxOrder -> Nat \ {0}] /\ Pow2[0] = 1
  /\ \A o \in 0 .. MaxOrder - 1 : Pow2[o + 1] = 2 * Pow2[o]

(* The largest object is half a page: 8 << 8 and 4096.                     *)
ASSUME CacheAssumption ==
  /\ NrObjects \in Nat \ {0} /\ MinObject \in Nat \ {0}
  /\ NrObjects <= MaxOrder + 1
  /\ 2 * MinObject * Pow2[NrObjects - 1] = PageSize

ASSUME SizeAssumption == Sizes \subseteq Nat \ {0} /\ MaxLive \in Nat

NULL == -1      \* no object
Junk == -2      \* what a caller wrote over a free pointer

VARIABLES
  flags, private,   \* struct page: PG_ flags, and the order of a block
  slab_cache,       \* struct page: the cache of a slab
  freelist,         \* struct page: the first free object of a slab
  freeptr,          \* memory: the free pointer at an address
  partial,          \* cache->node.partial
  blocks,           \* the blocks taken from the page allocator
  live,             \* history: the allocations <<address, size>>
  failed            \* "no", "hung" or what was accessed out of bounds

vars == <<flags, private, slab_cache, freelist, freeptr, partial, blocks,
          live, failed>>

Pool == INSTANCE PageAlloc WITH
  Usable <- Pages, Heads <- Pages, OrderSet <- Orders, Size <- Pow2,
  allocated <- blocks

------------------------------------------------------------------------------
(* Sizes                                                                   *)

ObjectSize(c) == MinObject * Pow2[c]

(* Mutant: the size is compared with the objects of the next cache.        *)
CacheOfNext(n, c) ==
  /\ c \in Caches
  /\ n <= 2 * ObjectSize(c)
  /\ \A d \in 0 .. c - 1 : n > 2 * ObjectSize(d)

(* get_object(): the first cache whose objects are large enough.           *)
CacheOf(n, c) ==
  /\ c \in Caches
  /\ n <= ObjectSize(c)
  /\ \A d \in 0 .. c - 1 : n > ObjectSize(d)

(* kmalloc(): the size is halved until it is at most a page, and what the  *)
(* shifts cut off is forgotten.                                            *)
OrderOf(n, o) ==
  /\ n \div Pow2[o] <= PageSize
  /\ \A k \in 0 .. o - 1 : n \div Pow2[k] > PageSize

(* The objects of page p when it is a slab of cache c.                     *)
Slots(p, c) ==
  {p * PageSize + j * ObjectSize(c) : j \in 0 .. (PageSize \div ObjectSize(c)) - 1}

------------------------------------------------------------------------------
(* buddy_init() and slab_init() are done: no slab, no block.               *)
Init ==
  /\ flags = [p \in Pages |-> "PG_buddy"]
  /\ private = [p \in Pages |-> 0]
  /\ slab_cache = [p \in Pages |-> 0]
  /\ freelist = [p \in Pages |-> NULL]
  /\ freeptr = [a \in Addresses |-> Junk]
  /\ partial = [c \in Caches |-> <<>>]
  /\ blocks = {}
  /\ live = {}
  /\ failed = "no"

(* Mutant: only the first slab of the list is looked at.                   *)
FirstPartialOnly(c, p) ==
  Len(partial[c]) > 0 /\ p = partial[c][1] /\ freelist[p] # NULL

(* The first slab on the list that has a free object.                      *)
FirstPartial(c, p) ==
  \E k \in 1 .. Len(partial[c]) :
    /\ p = partial[c][k]
    /\ freelist[p] # NULL
    /\ \A m \in 1 .. k - 1 : freelist[partial[c][m]] = NULL

(* __get_object(): an object of a slab of the cache.                       *)
KmallocPartial(n) ==
  /\ failed = "no"
  /\ n < PageSize
  /\ \E c \in Caches, p \in Pages :
       /\ CacheOf(n, c)
       /\ FirstPartial(c, p)
       /\ freelist' = [freelist EXCEPT ![p] = freeptr[@]]
       /\ freeptr' = [freeptr EXCEPT ![freelist[p]] = Junk]
       /\ live' = live \cup {<<freelist[p], n>>}
  /\ UNCHANGED <<flags, private, slab_cache, partial, blocks, failed>>

(* Mutant: the page keeps the flag __alloc_pages() gave it.                *)
MarkSlabUsed(p) == flags' = [flags EXCEPT ![p] = "PG_USED"]

MarkSlab(p) == flags' = [flags EXCEPT ![p] = "PG_slab"]

LinkSlab(p, c) ==
  /\ partial' = [partial EXCEPT ![c] = <<p>> \o @]
  /\ slab_cache' = [slab_cache EXCEPT ![p] = c]

(* Mutant: the loop chains one object too few.                             *)
SetFreepointersShort(p, c) ==
  LET size == ObjectSize(c) IN
  [a \in Addresses |-> IF a \in Slots(p, c)
                         THEN IF a + 2 * size \in Slots(p, c) THEN a + size ELSE NULL
                         ELSE freeptr[a]]

(* Each object of the page points to the next one, the last one to NULL.   *)
SetFreepointers(p, c) ==
  LET size == ObjectSize(c) IN
  [a \in Addresses |-> IF a \in Slots(p, c)
                         THEN IF a + size \in Slots(p, c) THEN a + size ELSE NULL
                         ELSE freeptr[a]]

(* allocate_slab() and the rest of __get_object(): a page is taken, all    *)
(* its objects are chained and the first one is returned.  With no page    *)
(* left nothing changes: the caller gets phys_to_virt(NULL).               *)
KmallocNewSlab(n) ==
  /\ failed = "no"
  /\ n < PageSize
  /\ \E c \in Caches, p \in Pages :
       LET first == p * PageSize
           fp    == SetFreepointers(p, c) IN
       /\ CacheOf(n, c)
       /\ \A q \in Pages : ~ FirstPartial(c, q)
       /\ Pool!Take(<<p, 0>>)
       /\ private' = [private EXCEPT ![p] = 0]
       /\ MarkSlab(p)
       /\ LinkSlab(p, c)
       /\ freelist' = [freelist EXCEPT ![p] = fp[first]]
       /\ freeptr' = [fp EXCEPT ![first] = Junk]
       /\ live' = live \cup {<<first, n>>}
  /\ UNCHANGED failed

(* get_object() of a size above the largest object: idx is NR_OBJECTS and  *)
(* kmem_caches[idx] is used, which is not an element of the array.         *)
KmallocBeyond(n) ==
  /\ failed = "no"
  /\ n < PageSize
  /\ \A c \in Caches : n > ObjectSize(c)
  /\ failed' = "kmem_caches"
  /\ UNCHANGED <<flags, private, slab_cache, freelist, freeptr, partial,
                 blocks, live>>

(* kmalloc() of a page or more: a block of the page allocator, or, with no *)
(* block left, an address computed from NULL and no change of state.       *)
KmallocPages(n) ==
  /\ failed = "no"
  /\ n >= PageSize
  /\ \E o \in Orders, p \in Pages :
       /\ OrderOf(n, o)
       /\ Pool!Take(<<p, o>>)
       /\ flags' = [flags EXCEPT ![p] = "PG_USED"]
       /\ private' = [private EXCEPT ![p] = o]
       /\ live' = live \cup {<<p * PageSize, n>>}
  /\ UNCHANGED <<slab_cache, freelist, freeptr, partial, failed>>

(* free_object(): the object becomes the first of its slab's free list.    *)
KfreeObject(x) ==
  LET a == x[1]
      p == a \div PageSize IN
  /\ failed = "no"
  /\ flags[p] = "PG_slab"
  /\ freeptr' = [freeptr EXCEPT ![a] = freelist[p]]
  /\ freelist' = [freelist EXCEPT ![p] = a]
  /\ live' = live \ {x}
  /\ UNCHANGED <<flags, private, slab_cache, partial, blocks, failed>>

(* kfree() of anything else: free_one_page(), which leaves the flags of    *)
(* the page alone when it is merged into a block that starts before it.    *)
KfreePages(x) ==
  LET p == x[1] \div PageSize IN
  /\ failed = "no"
  /\ flags[p] # "PG_slab"
  /\ IF flags[p] = "PG_USED"
       THEN /\ \E f \in {"PG_buddy", "PG_USED"} :
                 flags' = [flags EXCEPT ![p] = f]
            /\ blocks' = blocks \ {<<p, private[p]>>}
            /\ UNCHANGED failed
       ELSE /\ failed' = "hung"
            /\ UNCHANGED <<flags, blocks>>
  /\ live' = live \ {x}
  /\ UNCHANGED <<private, slab_cache, freelist, freeptr, partial>>

Kmalloc(n) ==
  /\ Cardinality(live) < MaxLive
  /\ \/ KmallocPartial(n)
     \/ KmallocNewSlab(n)
     \/ KmallocBeyond(n)
     \/ KmallocPages(n)

Next ==
  \/ \E n \in Sizes : Kmalloc(n)
  \/ \E x \in live : KfreeObject(x) \/ KfreePages(x)

Spec == Init /\ [][Next]_vars

------------------------------------------------------------------------------
(* Properties                                                              *)

Slabs == {p \in Pages : flags[p] = "PG_slab" /\ <<p, 0>> \in blocks}

(* The k-th object on the free list of slab p.                             *)
Chain(p, k) ==
  LET f[j \in 0 .. k] ==
        IF j = 0 THEN freelist[p]
        ELSE IF f[j - 1] \in Addresses THEN freeptr[f[j - 1]] ELSE Junk
  IN f[k]

(* The free list of a slab, followed through the free pointers inside the  *)
(* objects, visits every object of the slab that is not in use exactly     *)
(* once and ends in NULL, for any order of allocations and frees           *)
(* (slab.c:83-95, 106-120, 153-157).                                       *)
FreelistExact ==
  \A p \in Slabs :
    LET Free == Slots(p, slab_cache[p]) \ {x[1] : x \in live}
        n == Cardinality(Free) IN
    /\ {Chain(p, k) : k \in 0 .. n - 1} = Free
    /\ Chain(p, n) = NULL

(* A page is taken for a new slab only when every slab of that cache is    *)
(* full: freed objects are found again (slab.c:106-113).                   *)
ReusesFreed ==
  [][\A c \in Caches : partial'[c] # partial[c] =>
       \A p \in Slabs : slab_cache[p] = c =>
         Slots(p, c) \subseteq {x[1] : x \in live}]_vars

(* kfree() of a live allocation never runs into the loop free_one_page()   *)
(* ends in for a page that is not PG_USED (mm.c:324-328).                  *)
KfreeNeverHangs == failed # "hung"

(* kmalloc() and kfree() implement Heap: every allocation has the bytes it *)
(* asked for, to itself, whatever mixture of objects and pages is in use.  *)
Promise == INSTANCE Heap WITH Memory <- Addresses

KeepsPromise == Promise!Spec

==============================================================================
