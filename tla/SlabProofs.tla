----------------------------- MODULE SlabProofs -----------------------------
(***************************************************************************)
(* Proofs about Slab, for any page, object and request sizes.              *)
(***************************************************************************)
EXTENDS Slab, NatLemmas, FiniteSetTheorems, TLAPS

------------------------------------------------------------------------------
(* The objects of a page                                                   *)

(* How many objects a slab of the cache has, and where the j-th one is.    *)
NrSlots(c) == PageSize \div ObjectSize(c)
Slot(p, c, j) == p * PageSize + j * ObjectSize(c)

(* The objects of a cache fill a page exactly, because OBJECT_SIZE(n) is   *)
(* 1 << (n + 3).                                                           *)
LEMMA ObjectsFillPage ==
  ASSUME NEW c \in Caches
  PROVE  /\ ObjectSize(c) \in Nat \ {0} /\ NrSlots(c) \in Nat \ {0}
         /\ NrSlots(c) * ObjectSize(c) = PageSize
         /\ PageSize \in Nat \ {0}
<1> DEFINE last == NrObjects - 1
           A == Pow2[c]
           L == Pow2[last]
           sz == ObjectSize(c)
<1>1. /\ PageSize \in Nat \ {0} /\ MinObject \in Nat \ {0} /\ MaxOrder \in Nat
      /\ 2 * MinObject * L = PageSize
      /\ c \in 0 .. MaxOrder /\ last \in 0 .. MaxOrder /\ c <= last
  BY PageAssumption, CacheAssumption DEF Caches
<1>2. /\ \A k \in 0 .. MaxOrder : Pow2[k] \in Nat \ {0}
      /\ \A k \in 0 .. MaxOrder - 1 : Pow2[k + 1] = 2 * Pow2[k]
  BY PageAssumption
<1>3. A \in Nat \ {0} /\ L \in Nat \ {0}
  BY <1>1, <1>2
<1>4. L % A = 0
  <2> HIDE DEF last
  <2> QED
    BY <1>1, <1>2, DoublesDivide
<1> HIDE DEF A, L, last
<1>5. PICK k \in Int : L = k * A
  <2>1. L \in Int
    BY <1>3
  <2> QED
    BY <1>3, <1>4, <2>1, Multiple
<1>6. sz = MinObject * A
  BY DEF ObjectSize, A
<1> HIDE DEF sz
<1>7. sz \in Nat \ {0}
  BY <1>1, <1>3, <1>6
<1>8. PageSize = (2 * k) * sz
  <2>1. 2 * MinObject * (k * A) = (2 * k) * (MinObject * A)
    BY <1>1, <1>3
  <2> QED
    BY <1>1, <1>5, <1>6, <2>1
<1> DEFINE m == 2 * k
           q == PageSize \div sz
<1>9. m \in Int /\ PageSize = m * sz
  BY <1>8
<1>10. q = m
  <2> HIDE DEF m
  <2>1. PageSize \in Nat /\ sz \in Nat \ {0}
    BY <1>1, <1>7
  <2>2. m * sz <= PageSize => m <= q
    BY <1>9, <2>1, Quotient
  <2>3. PageSize < (m + 1) * sz => q < m + 1
    <3>1. m + 1 \in Int
      BY <1>9
    <3> QED
      BY <2>1, <3>1, Quotient
  <2>4. (m + 1) * sz = m * sz + sz
    BY <1>9, <1>7
  <2>5. m <= q /\ q < m + 1
    BY <1>9, <2>1, <2>2, <2>3, <2>4
  <2>6. q \in Nat
    BY <1>9, <2>1, Quotient
  <2> HIDE DEF q
  <2> QED
    BY <1>9, <2>5, <2>6
<1>11. m > 0
  <2> SUFFICES ASSUME m <= 0 PROVE FALSE
    BY <1>9
  <2> HIDE DEF m
  <2>1. m * sz <= 0
    BY <1>7, <1>9
  <2> QED
    BY <1>1, <1>9, <2>1
<1>12. NrSlots(c) = m
  BY <1>10 DEF NrSlots, sz
<1> HIDE DEF m, q
<1> QED
  BY <1>1, <1>7, <1>9, <1>11, <1>12 DEF sz

(* Where the objects of a page are: inside it, one after the other.        *)
LEMMA SlotFacts ==
  ASSUME NEW p \in Pages, NEW c \in Caches
  PROVE  /\ Slots(p, c) = {Slot(p, c, j) : j \in 0 .. NrSlots(c) - 1}
         /\ Slot(p, c, 0) = p * PageSize
         /\ \A j \in Int : /\ Slot(p, c, j) \in Int
                           /\ Slot(p, c, j + 1) = Slot(p, c, j) + ObjectSize(c)
         /\ \A j, k \in Int : j < k => Slot(p, c, j) + ObjectSize(c) <= Slot(p, c, k)
         /\ \A j, k \in Int : Slot(p, c, j) = Slot(p, c, k) => j = k
         /\ Slot(p, c, NrSlots(c)) = p * PageSize + PageSize
<1> DEFINE sz == ObjectSize(c)
           N == NrSlots(c)
           b == p * PageSize
<1>1. sz \in Nat \ {0} /\ N \in Nat \ {0} /\ N * sz = PageSize /\ PageSize \in Nat \ {0}
  BY ObjectsFillPage
<1>2. p \in Nat /\ b \in Nat
  <2>1. p \in Nat
    BY PageAssumption DEF Pages
  <2> QED
    BY <1>1, <2>1
<1>3. Slots(p, c) = {Slot(p, c, j) : j \in 0 .. N - 1}
  BY DEF Slots, Slot, NrSlots
<1>4. \A j \in Int : Slot(p, c, j) = b + j * sz
  BY DEF Slot
<1> HIDE DEF sz, N, b
<1>5. Slot(p, c, 0) = b
  BY <1>1, <1>2, <1>4
<1>6. ASSUME NEW j \in Int
      PROVE  Slot(p, c, j) \in Int /\ Slot(p, c, j + 1) = Slot(p, c, j) + sz
  <2>1. j * sz \in Int /\ (j + 1) * sz = j * sz + sz /\ j + 1 \in Int
    BY <1>1
  <2> QED
    BY <1>1, <1>2, <1>4, <2>1
<1>7. ASSUME NEW j \in Int, NEW k \in Int, j < k
      PROVE  Slot(p, c, j) + sz <= Slot(p, c, k)
  <2>1. (k - j) * sz >= 1 * sz
    BY <1>1, <1>7
  <2>2. k * sz = j * sz + (k - j) * sz /\ j * sz \in Int /\ (k - j) * sz \in Int
    BY <1>1
  <2> QED
    BY <1>1, <1>2, <1>4, <2>1, <2>2
<1>8. ASSUME NEW j \in Int, NEW k \in Int, Slot(p, c, j) = Slot(p, c, k), j # k
      PROVE  FALSE
  <2>1. Slot(p, c, j) \in Int /\ Slot(p, c, k) \in Int
    BY <1>6
  <2>2. CASE j < k
    BY <1>1, <1>7, <1>8, <2>1, <2>2
  <2>3. CASE k < j
    BY <1>1, <1>7, <1>8, <2>1, <2>3
  <2> QED
    BY <1>8, <2>2, <2>3
<1>9. Slot(p, c, N) = b + PageSize
  BY <1>1, <1>4
<1> QED
  BY <1>3, <1>5, <1>6, <1>7, <1>8, <1>9 DEF sz, N, b

(* The page of an object is found by division (virt_to_page), and two      *)
(* objects of a slab are at least the object size apart.                   *)
LEMMA SlotPlace ==
  ASSUME NEW p \in Pages, NEW c \in Caches
  PROVE  /\ \A a \in Slots(p, c) :
              /\ a \in Addresses /\ p * PageSize <= a
              /\ a + ObjectSize(c) <= p * PageSize + PageSize
              /\ a \div PageSize = p
         /\ \A a, b \in Slots(p, c) : a < b => a + ObjectSize(c) <= b
         /\ p * PageSize \in Slots(p, c)
<1> DEFINE sz == ObjectSize(c)
           N == NrSlots(c)
           base == p * PageSize
<1>1. sz \in Nat \ {0} /\ N \in Nat \ {0} /\ PageSize \in Nat \ {0}
  BY ObjectsFillPage
<1>2. /\ p \in Nat /\ p + 1 <= NrPages /\ NrPages \in Nat
      /\ base \in Nat /\ base + PageSize <= NrPages * PageSize
  <2>1. p \in Nat /\ p + 1 <= NrPages /\ NrPages \in Nat
    BY PageAssumption DEF Pages
  <2>2. (p + 1) * PageSize <= NrPages * PageSize
    BY <1>1, <2>1
  <2>3. (p + 1) * PageSize = p * PageSize + PageSize /\ p * PageSize \in Nat
    BY <1>1, <2>1
  <2> QED
    BY <2>1, <2>2, <2>3
<1>3. ASSUME NEW j \in 0 .. N - 1
      PROVE  /\ Slot(p, c, j) \in Int /\ base <= Slot(p, c, j)
             /\ Slot(p, c, j) + sz <= base + PageSize
  <2>1. j \in Int /\ 0 <= j /\ j < N /\ 0 \in Int /\ N \in Int
    BY <1>1
  <2>2. /\ Slot(p, c, 0) = base /\ Slot(p, c, N) = base + PageSize
        /\ Slot(p, c, j) + sz <= Slot(p, c, N)
        /\ Slot(p, c, j) \in Int
    BY <2>1, SlotFacts
  <2>3. 0 < j => Slot(p, c, 0) + sz <= Slot(p, c, j)
    BY <2>1, SlotFacts
  <2> HIDE DEF base, sz, N
  <2>4. CASE j = 0
    BY <1>2, <2>2, <2>4
  <2>5. CASE 0 < j
    BY <1>1, <1>2, <2>2, <2>3, <2>5
  <2> QED
    BY <2>1, <2>2, <2>4, <2>5
<1>4. ASSUME NEW a \in Slots(p, c)
      PROVE  /\ a \in Addresses /\ base <= a /\ a + sz <= base + PageSize
             /\ a \div PageSize = p
  <2>1. PICK j \in 0 .. N - 1 : a = Slot(p, c, j)
    BY SlotFacts
  <2>2. a \in Int /\ base <= a /\ a + sz <= base + PageSize
    BY <1>3, <2>1
  <2> HIDE DEF base, sz, N
  <2>3. a \in Nat /\ a < base + PageSize /\ a <= NrPages * PageSize - 1
    BY <1>1, <1>2, <2>2
  <2>4. a \in Addresses
    <3>1. NrPages * PageSize \in Int
      BY <1>1, <1>2
    <3> QED
      BY <2>3, <3>1 DEF Addresses
  <2>5. p * PageSize <= a /\ a < (p + 1) * PageSize
    <3>1. (p + 1) * PageSize = p * PageSize + PageSize
      BY <1>1, <1>2
    <3> QED
      BY <2>2, <2>3, <3>1 DEF base
  <2>6. p <= a \div PageSize /\ a \div PageSize < p + 1 /\ a \div PageSize \in Nat
    <3>1. p \in Int /\ p + 1 \in Int
      BY <1>2
    <3> QED
      BY <1>1, <2>3, <2>5, <3>1, Quotient
  <2>7. PICK d \in Nat : d = a \div PageSize
    BY <2>6
  <2>8. d = p
    BY <1>2, <2>6, <2>7
  <2> QED
    BY <2>2, <2>4, <2>7, <2>8
<1>5. ASSUME NEW a \in Slots(p, c), NEW b \in Slots(p, c), a < b
      PROVE  a + sz <= b
  <2>1. PICK j \in 0 .. N - 1 : a = Slot(p, c, j)
    BY SlotFacts
  <2>2. PICK k \in 0 .. N - 1 : b = Slot(p, c, k)
    BY SlotFacts
  <2>3. j \in Int /\ k \in Int
    BY <1>1
  <2>4. a \in Int /\ b \in Int /\ (j < k => a + sz <= b) /\ (k < j => b + sz <= a)
    BY <2>1, <2>2, <2>3, SlotFacts
  <2>5. j # k
    <3> SUFFICES ASSUME j = k PROVE FALSE
      OBVIOUS
    <3>1. a = b
      BY <2>1, <2>2
    <3> QED
      BY <1>5, <2>4, <3>1
  <2> HIDE DEF sz
  <2> QED
    BY <1>1, <1>5, <2>3, <2>4, <2>5
<1>6. base \in Slots(p, c)
  <2>1. 0 \in 0 .. N - 1
    BY <1>1
  <2> QED
    BY <2>1, SlotFacts
<1> QED
  BY <1>4, <1>5, <1>6

------------------------------------------------------------------------------
(* The inductive invariant                                                 *)

InUse == {x[1] : x \in live}
FreeObjects(p) == Slots(p, slab_cache[p]) \ InUse
PageOf(x) == x[1] \div PageSize

SlabType ==
  /\ flags \in [Pages -> {"PG_buddy", "PG_USED", "PG_slab"}]
  /\ private \in [Pages -> Orders]
  /\ slab_cache \in [Pages -> Caches]
  /\ freelist \in [Pages -> Addresses \cup {NULL}]
  /\ freeptr \in [Addresses -> Addresses \cup {NULL, Junk}]
  /\ partial \in [Caches -> Seq(Pages)]
  /\ blocks \subseteq Pages \X Orders
  /\ live \subseteq Addresses \X Sizes
  /\ failed \in {"no", "kmem_caches"}

(* What the page allocator promised about the blocks.                      *)
BlocksApart ==
  /\ \A b \in blocks : Pool!Span(b) \subseteq Pages
  /\ \A a, b \in blocks : a # b => Pool!Span(a) \cap Pool!Span(b) = {}

(* A page marked PG_slab is a block, and it is on the list of its cache,   *)
(* which has no other pages.                                               *)
SlabsLinked ==
  /\ \A p \in Pages : flags[p] = "PG_slab" =>
       /\ <<p, 0>> \in blocks /\ private[p] = 0
       /\ \E k \in DOMAIN partial[slab_cache[p]] : partial[slab_cache[p]][k] = p
  /\ \A c \in Caches : \A k \in DOMAIN partial[c] :
       flags[partial[c][k]] = "PG_slab" /\ slab_cache[partial[c][k]] = c

(* x is an object of a slab, or the start of a block.                      *)
IsObject(x) ==
  /\ flags[PageOf(x)] = "PG_slab"
  /\ x[1] \in Slots(PageOf(x), slab_cache[PageOf(x)])
  /\ x[2] <= ObjectSize(slab_cache[PageOf(x)])
IsBlock(x) ==
  /\ flags[PageOf(x)] = "PG_USED"
  /\ x[1] = PageOf(x) * PageSize
  /\ OrderOf(x[2], private[PageOf(x)])

(* Every allocation is one or the other, in a block of its page, and no    *)
(* two start at the same address.                                          *)
LiveSound ==
  /\ \A x \in live : /\ PageOf(x) \in Pages
                     /\ <<PageOf(x), private[PageOf(x)]>> \in blocks
                     /\ IsObject(x) \/ IsBlock(x)
  /\ \A x, y \in live : x[1] = y[1] => x = y

(* g[0], ..., g[n - 1] are the objects on the free list of the slab p in   *)
(* their order, g[n] is NULL, and they are the objects not in use.         *)
Lists(g, n, p) ==
  /\ g[0] = freelist[p] /\ g[n] = NULL
  /\ \A k \in 0 .. n - 1 : g[k] \in FreeObjects(p) /\ freeptr[g[k]] = g[k + 1]
  /\ \A j, k \in 0 .. n - 1 : g[j] = g[k] => j = k
  /\ \A a \in FreeObjects(p) : \E k \in 0 .. n - 1 : g[k] = a

ListsSound ==
  \A p \in Pages : flags[p] = "PG_slab" =>
    \E n \in Nat : \E g \in [0 .. n -> Addresses \cup {NULL}] : Lists(g, n, p)

SlabInv ==
  /\ SlabType /\ BlocksApart /\ SlabsLinked /\ LiveSound /\ ListsSound

------------------------------------------------------------------------------
(* Every call keeps the invariant                                          *)

(* Slabs of different pages share no object.                               *)
LEMMA SlotsApart ==
  ASSUME NEW p \in Pages, NEW q \in Pages, p # q, NEW c \in Caches, NEW d \in Caches
  PROVE  Slots(p, c) \cap Slots(q, d) = {}
<1>1. \A a \in Slots(p, c) : a \div PageSize = p
  BY SlotPlace
<1>2. \A a \in Slots(q, d) : a \div PageSize = q
  BY SlotPlace
<1> QED
  BY <1>1, <1>2

(* A list that a call does not touch stays what it was.                    *)
LEMMA ListKept ==
  ASSUME NEW p, NEW n \in Nat, NEW g, Lists(g, n, p),
         freelist'[p] = freelist[p], FreeObjects(p)' = FreeObjects(p),
         \A a \in FreeObjects(p) : freeptr'[a] = freeptr[a]
  PROVE  Lists(g, n, p)'
<1>1. \A k \in 0 .. n - 1 : g[k] \in FreeObjects(p) /\ freeptr'[g[k]] = g[k + 1]
  BY DEF Lists
<1> QED
  BY <1>1 DEF Lists

(* A block that the page allocator hands out starts at a page that was no  *)
(* slab, in which no allocation starts, and is apart from all others.      *)
LEMMA FreshBlock ==
  ASSUME SlabInv, NEW p \in Pages, NEW o \in Orders, Pool!Take(<<p, o>>)
  PROVE  /\ flags[p] # "PG_slab"
         /\ \A x \in live : PageOf(x) # p
         /\ blocks' = blocks \cup {<<p, o>>}
         /\ BlocksApart'
<1> DEFINE b == <<p, o>>
<1>1. b[1] = p /\ b[2] = o
  OBVIOUS
<1>2. \A u \in Orders : \A q \in Pages : q \in Pool!Span(<<q, u>>)
  <2> SUFFICES ASSUME NEW u \in Orders, NEW q \in Pages PROVE q \in Pool!Span(<<q, u>>)
    OBVIOUS
  <2>1. Pow2[u] \in Nat \ {0} /\ q \in Nat
    BY PageAssumption DEF Orders, Pages
  <2>2. Pool!Span(<<q, u>>) = q .. (q + Pow2[u] - 1)
    BY DEF Pool!Span
  <2> QED
    BY <2>1, <2>2
<1>3. /\ Pool!Span(b) \subseteq Pages
      /\ \A c \in blocks : Pool!Span(c) \cap Pool!Span(b) = {}
      /\ blocks' = blocks \cup {b}
  BY DEF Pool!Take, Pool!Available
<1>4. \A u \in Orders : <<p, u>> \notin blocks
  BY <1>2, <1>3
<1>5. 0 \in Orders
  BY PageAssumption DEF Orders
<1>6. flags[p] # "PG_slab"
  BY <1>4, <1>5 DEF SlabInv, SlabsLinked
<1>7. ASSUME NEW x \in live, PageOf(x) = p PROVE FALSE
  <2>1. <<p, private[p]>> \in blocks /\ private[p] \in Orders
    BY <1>7 DEF SlabInv, LiveSound, SlabType
  <2> QED
    BY <1>4, <2>1
<1>8. BlocksApart'
  <2>1. \A c \in blocks' : Pool!Span(c) \subseteq Pages
    BY <1>3 DEF SlabInv, BlocksApart
  <2>2. \A a, c \in blocks' : a # c => Pool!Span(a) \cap Pool!Span(c) = {}
    <3> SUFFICES ASSUME NEW a \in blocks', NEW c \in blocks', a # c
                 PROVE  Pool!Span(a) \cap Pool!Span(c) = {}
      OBVIOUS
    <3>1. CASE a \in blocks /\ c \in blocks
      BY <3>1 DEF SlabInv, BlocksApart
    <3>2. CASE a = b \/ c = b
      BY <1>3, <3>2
    <3> QED
      BY <1>3, <3>1, <3>2
  <2> QED
    BY <2>1, <2>2 DEF BlocksApart, Pool!Span
<1> QED
  BY <1>3, <1>6, <1>7, <1>8

(* kmalloc() of a page or more.                                            *)
LEMMA KmallocPagesInv ==
  ASSUME SlabInv, NEW n \in Sizes, KmallocPages(n)
  PROVE  SlabInv'
<1>1. PICK o \in Orders, p \in Pages :
        /\ OrderOf(n, o)
        /\ Pool!Take(<<p, o>>)
        /\ flags' = [flags EXCEPT ![p] = "PG_USED"]
        /\ private' = [private EXCEPT ![p] = o]
        /\ live' = live \cup {<<p * PageSize, n>>}
  BY DEF KmallocPages
<1>2. UNCHANGED <<slab_cache, freelist, freeptr, partial, failed>>
  BY DEF KmallocPages
<1>3. /\ flags[p] # "PG_slab" /\ (\A y \in live : PageOf(y) # p)
      /\ blocks' = blocks \cup {<<p, o>>} /\ BlocksApart'
  BY <1>1, FreshBlock
<1>4. SlabType
  BY DEF SlabInv
<1> DEFINE x == <<p * PageSize, n>>
<1>5. x[1] = p * PageSize /\ x[2] = n /\ x[1] \in Slots(p, 0) /\ 0 \in Caches
  <2>1. 0 \in Caches
    BY CacheAssumption DEF Caches
  <2> QED
    BY <2>1, SlotPlace
<1>6. x[1] \in Addresses /\ PageOf(x) = p
  BY <1>5, SlotPlace DEF PageOf
<1>7. x \in Addresses \X Sizes
  BY <1>6
<1> HIDE DEF x
<1>8. live' = live \cup {x}
  BY <1>1 DEF x
<1>9. \A q \in Pages : q # p => flags'[q] = flags[q] /\ private'[q] = private[q]
  BY <1>1, <1>4 DEF SlabType
<1>10. flags'[p] = "PG_USED" /\ private'[p] = o
  BY <1>1, <1>4 DEF SlabType
<1>11. SlabType'
  <2>1. /\ flags' \in [Pages -> {"PG_buddy", "PG_USED", "PG_slab"}]
        /\ private' \in [Pages -> Orders]
    BY <1>1, <1>4 DEF SlabType
  <2>2. blocks' \subseteq Pages \X Orders /\ live' \subseteq Addresses \X Sizes
    BY <1>3, <1>4, <1>7, <1>8 DEF SlabType
  <2> QED
    BY <1>2, <1>4, <2>1, <2>2 DEF SlabType
<1>12. SlabsLinked'
  <2>1. ASSUME NEW q \in Pages, flags'[q] = "PG_slab"
        PROVE  /\ <<q, 0>> \in blocks' /\ private'[q] = 0
               /\ \E k \in DOMAIN partial[slab_cache[q]] : partial[slab_cache[q]][k] = q
    <3>1. q # p
      BY <1>10, <2>1
    <3> QED
      BY <1>3, <1>9, <2>1, <3>1 DEF SlabInv, SlabsLinked
  <2>2. ASSUME NEW c \in Caches, NEW k \in DOMAIN partial[c]
        PROVE  flags'[partial[c][k]] = "PG_slab" /\ slab_cache[partial[c][k]] = c
    <3>1. partial[c][k] \in Pages
      BY <1>4 DEF SlabType
    <3>2. flags[partial[c][k]] = "PG_slab" /\ slab_cache[partial[c][k]] = c
      BY DEF SlabInv, SlabsLinked
    <3> QED
      BY <1>3, <1>9, <3>1, <3>2
  <2> QED
    BY <1>2, <2>1, <2>2 DEF SlabsLinked
<1>13. LiveSound'
  <2>1. ASSUME NEW y \in live'
        PROVE  /\ PageOf(y) \in Pages
               /\ <<PageOf(y), private'[PageOf(y)]>> \in blocks'
               /\ IsObject(y)' \/ IsBlock(y)'
    <3>1. CASE y \in live
      <4>1. /\ PageOf(y) \in Pages /\ <<PageOf(y), private[PageOf(y)]>> \in blocks
            /\ IsObject(y) \/ IsBlock(y)
        BY <3>1 DEF SlabInv, LiveSound
      <4>2. flags'[PageOf(y)] = flags[PageOf(y)] /\ private'[PageOf(y)] = private[PageOf(y)]
        BY <1>3, <1>9, <3>1, <4>1
      <4> QED
        BY <1>2, <1>3, <4>1, <4>2 DEF IsObject, IsBlock, PageOf
    <3>2. CASE y = x
      <4>1. IsBlock(x)'
        BY <1>1, <1>5, <1>6, <1>10 DEF IsBlock, PageOf, OrderOf
      <4> QED
        BY <1>3, <1>6, <1>10, <3>2, <4>1
    <3> QED
      BY <1>8, <3>1, <3>2
  <2>2. ASSUME NEW y \in live', NEW z \in live', y[1] = z[1] PROVE y = z
    <3>1. PageOf(y) = PageOf(z)
      BY <2>2 DEF PageOf
    <3>2. CASE y \in live /\ z \in live
      BY <2>2, <3>2 DEF SlabInv, LiveSound
    <3>3. CASE y = x \/ z = x
      BY <1>3, <1>6, <1>8, <3>1, <3>3
    <3> QED
      BY <1>8, <3>2, <3>3
  <2> QED
    BY <2>1, <2>2 DEF LiveSound, PageOf
<1>14. ListsSound'
  <2> SUFFICES ASSUME NEW q \in Pages, flags'[q] = "PG_slab"
               PROVE  \E m \in Nat : \E g \in [0 .. m -> Addresses \cup {NULL}] : Lists(g, m, q)'
    BY DEF ListsSound
  <2>1. q # p /\ flags[q] = "PG_slab"
    BY <1>9, <1>10
  <2>2. PICK m \in Nat : \E g \in [0 .. m -> Addresses \cup {NULL}] : Lists(g, m, q)
    BY <2>1 DEF SlabInv, ListsSound
  <2>3. PICK g \in [0 .. m -> Addresses \cup {NULL}] : Lists(g, m, q)
    BY <2>2
  <2>4. x[1] \notin Slots(q, slab_cache[q])
    <3>1. slab_cache[q] \in Caches
      BY <1>4 DEF SlabType
    <3> QED
      BY <1>5, <2>1, <3>1, SlotsApart
  <2>5. FreeObjects(q)' = FreeObjects(q)
    BY <1>2, <1>8, <2>4 DEF FreeObjects, InUse, Slots, ObjectSize
  <2>6. Lists(g, m, q)'
    BY <1>2, <2>3, <2>5, ListKept
  <2> QED
    BY <2>6
<1> QED
  BY <1>3, <1>11, <1>12, <1>13, <1>14 DEF SlabInv

(* get_object() of a size above the largest object leaves the allocator.   *)
LEMMA KmallocBeyondInv ==
  ASSUME SlabInv, NEW size \in Sizes, KmallocBeyond(size)
  PROVE  SlabInv'
<1>1. UNCHANGED <<flags, private, slab_cache, freelist, freeptr, partial, blocks, live>>
  BY DEF KmallocBeyond
<1>2. SlabType'
  BY <1>1 DEF KmallocBeyond, SlabInv, SlabType
<1>3. BlocksApart' /\ SlabsLinked'
  BY <1>1 DEF SlabInv, BlocksApart, SlabsLinked, Pool!Span
<1>4. LiveSound'
  BY <1>1 DEF SlabInv, LiveSound, IsObject, IsBlock, PageOf
<1>5. ListsSound'
  <2>1. \A p : FreeObjects(p)' = FreeObjects(p)
    BY <1>1 DEF FreeObjects, InUse
  <2>2. \A p : \A n \in Nat : \A g : Lists(g, n, p) => Lists(g, n, p)'
    BY <1>1, <2>1, ListKept
  <2> QED
    BY <1>1, <2>2 DEF SlabInv, ListsSound
<1> QED
  BY <1>2, <1>3, <1>4, <1>5 DEF SlabInv

(* kfree() of a block: its page says PG_USED, so that free_one_page() does *)
(* not hang, and private says which block it is.                           *)
LEMMA KfreePagesInv ==
  ASSUME SlabInv, NEW x \in live, KfreePages(x)
  PROVE  SlabInv'
<1> DEFINE p == PageOf(x)
<1>0. p = x[1] \div PageSize
  BY DEF PageOf
<1>1. /\ p \in Pages /\ <<p, private[p]>> \in blocks
      /\ flags[p] = "PG_USED" /\ x[1] = p * PageSize
  BY <1>0 DEF KfreePages, SlabInv, LiveSound, IsObject, IsBlock
<1>2. PICK f \in {"PG_buddy", "PG_USED"} : flags' = [flags EXCEPT ![p] = f]
  BY <1>0, <1>1 DEF KfreePages
<1>3. /\ blocks' = blocks \ {<<p, private[p]>>} /\ live' = live \ {x}
      /\ UNCHANGED <<private, slab_cache, freelist, freeptr, partial, failed>>
  BY <1>0, <1>1 DEF KfreePages
<1>4. SlabType
  BY DEF SlabInv
<1>5. \A q \in Pages : q # p => flags'[q] = flags[q]
  BY <1>2, <1>4 DEF SlabType
<1>6. flags'[p] = f
  BY <1>1, <1>2, <1>4 DEF SlabType
<1>7. \A y \in live : y # x => PageOf(y) # p
  <2> SUFFICES ASSUME NEW y \in live, PageOf(y) = p PROVE y[1] = x[1]
    BY DEF SlabInv, LiveSound
  <2> QED
    BY <1>1 DEF SlabInv, LiveSound, IsObject, IsBlock
<1> HIDE DEF p
<1>8. SlabType'
  <2>1. flags' \in [Pages -> {"PG_buddy", "PG_USED", "PG_slab"}]
    BY <1>2, <1>4 DEF SlabType
  <2> QED
    BY <1>3, <1>4, <2>1 DEF SlabType
<1>9. BlocksApart'
  BY <1>3 DEF SlabInv, BlocksApart, Pool!Span
<1>10. SlabsLinked'
  <2>1. ASSUME NEW q \in Pages, flags'[q] = "PG_slab"
        PROVE  /\ <<q, 0>> \in blocks' /\ private[q] = 0
               /\ \E k \in DOMAIN partial[slab_cache[q]] : partial[slab_cache[q]][k] = q
    <3>1. q # p
      BY <1>6, <2>1
    <3> QED
      BY <1>3, <1>5, <2>1, <3>1 DEF SlabInv, SlabsLinked
  <2>2. ASSUME NEW c \in Caches, NEW k \in DOMAIN partial[c]
        PROVE  flags'[partial[c][k]] = "PG_slab" /\ slab_cache[partial[c][k]] = c
    <3>1. partial[c][k] \in Pages
      BY <1>4 DEF SlabType
    <3>2. flags[partial[c][k]] = "PG_slab" /\ slab_cache[partial[c][k]] = c
      BY DEF SlabInv, SlabsLinked
    <3> QED
      BY <1>1, <1>5, <3>1, <3>2
  <2> QED
    BY <1>3, <2>1, <2>2 DEF SlabsLinked
<1>11. LiveSound'
  <2>1. ASSUME NEW y \in live'
        PROVE  /\ PageOf(y) \in Pages
               /\ <<PageOf(y), private[PageOf(y)]>> \in blocks'
               /\ IsObject(y)' \/ IsBlock(y)'
    <3>1. y \in live /\ PageOf(y) # p
      BY <1>3, <1>7
    <3>2. /\ PageOf(y) \in Pages /\ <<PageOf(y), private[PageOf(y)]>> \in blocks
          /\ IsObject(y) \/ IsBlock(y)
      BY <3>1 DEF SlabInv, LiveSound
    <3>3. flags'[PageOf(y)] = flags[PageOf(y)]
      BY <1>5, <3>1, <3>2
    <3>4. <<PageOf(y), private[PageOf(y)]>> \in blocks'
      BY <1>3, <3>1, <3>2
    <3> QED
      BY <1>3, <3>2, <3>3, <3>4 DEF IsObject, IsBlock, PageOf
  <2>2. \A y, z \in live' : y[1] = z[1] => y = z
    BY <1>3 DEF SlabInv, LiveSound
  <2> QED
    BY <1>3, <2>1, <2>2 DEF LiveSound, PageOf
<1>12. ListsSound'
  <2> SUFFICES ASSUME NEW q \in Pages, flags'[q] = "PG_slab"
               PROVE  \E m \in Nat : \E g \in [0 .. m -> Addresses \cup {NULL}] : Lists(g, m, q)'
    BY DEF ListsSound
  <2>1. q # p /\ flags[q] = "PG_slab"
    BY <1>5, <1>6
  <2>2. PICK m \in Nat : \E g \in [0 .. m -> Addresses \cup {NULL}] : Lists(g, m, q)
    BY <2>1 DEF SlabInv, ListsSound
  <2>3. PICK g \in [0 .. m -> Addresses \cup {NULL}] : Lists(g, m, q)
    BY <2>2
  <2>4. x[1] \notin Slots(q, slab_cache[q])
    <3>1. slab_cache[q] \in Caches
      BY <1>4 DEF SlabType
    <3> QED
      BY <2>1, <3>1, SlotPlace DEF PageOf, p
  <2>5. FreeObjects(q)' = FreeObjects(q)
    BY <1>3, <2>4 DEF FreeObjects, InUse, Slots, ObjectSize
  <2>6. Lists(g, m, q)'
    BY <1>3, <2>3, <2>5, ListKept
  <2> QED
    BY <2>6
<1> QED
  BY <1>8, <1>9, <1>10, <1>11, <1>12 DEF SlabInv

(* kfree() of an object: it becomes the first of the list of its slab.     *)
LEMMA KfreeObjectInv ==
  ASSUME SlabInv, NEW x \in live, KfreeObject(x)
  PROVE  SlabInv'
<1> DEFINE p == PageOf(x)
           a == x[1]
           c == slab_cache[p]
<1>0. p = x[1] \div PageSize
  BY DEF PageOf
<1>1. /\ p \in Pages /\ flags[p] = "PG_slab" /\ a \in Slots(p, c)
      /\ a \in Addresses /\ c \in Caches
  BY <1>0 DEF KfreeObject, SlabInv, SlabType, LiveSound, IsObject, IsBlock
<1>2. /\ freeptr' = [freeptr EXCEPT ![a] = freelist[p]]
      /\ freelist' = [freelist EXCEPT ![p] = a]
      /\ live' = live \ {x}
      /\ UNCHANGED <<flags, private, slab_cache, partial, blocks, failed>>
  BY <1>0 DEF KfreeObject
<1>3. SlabType
  BY DEF SlabInv
<1>4. SlabType'
  <2>1. freelist[p] \in Addresses \cup {NULL}
    BY <1>1, <1>3 DEF SlabType
  <2>2. freeptr' \in [Addresses -> Addresses \cup {NULL, Junk}]
    BY <1>1, <1>2, <1>3, <2>1 DEF SlabType
  <2>3. freelist' \in [Pages -> Addresses \cup {NULL}]
    BY <1>1, <1>2, <1>3 DEF SlabType
  <2> QED
    BY <1>2, <1>3, <2>2, <2>3 DEF SlabType
<1>5. BlocksApart' /\ SlabsLinked'
  BY <1>2 DEF SlabInv, BlocksApart, SlabsLinked, Pool!Span
<1>6. LiveSound'
  BY <1>2 DEF SlabInv, LiveSound, IsObject, IsBlock, PageOf, Slots, ObjectSize, OrderOf
<1>7. a \in InUse /\ InUse' = InUse \ {a}
  <2>1. \A y \in live : y[1] = a => y = x
    BY DEF SlabInv, LiveSound
  <2> QED
    BY <1>2, <2>1 DEF InUse
<1>8. \A b \in Addresses : b # a => freeptr'[b] = freeptr[b]
  BY <1>2, <1>3 DEF SlabType
<1>9. freeptr'[a] = freelist[p] /\ freelist'[p] = a
  BY <1>1, <1>2, <1>3 DEF SlabType
<1> HIDE DEF p, a, c
<1>10. ListsSound'
  <2> SUFFICES ASSUME NEW q \in Pages, flags[q] = "PG_slab"
               PROVE  \E m \in Nat : \E g \in [0 .. m -> Addresses \cup {NULL}] : Lists(g, m, q)'
    BY <1>2 DEF ListsSound
  <2>0. slab_cache[q] \in Caches
    BY <1>3 DEF SlabType
  <2>1. PICK m \in Nat : \E g \in [0 .. m -> Addresses \cup {NULL}] : Lists(g, m, q)
    BY DEF SlabInv, ListsSound
  <2>2. PICK g \in [0 .. m -> Addresses \cup {NULL}] : Lists(g, m, q)
    BY <2>1
  <2>3. FreeObjects(q)' = Slots(q, slab_cache[q]) \ (InUse \ {a})
    BY <1>2, <1>7 DEF FreeObjects, Slots, ObjectSize
  <2>4. CASE q # p
    <3>1. a \notin Slots(q, slab_cache[q])
      BY <1>1, <2>0, <2>4, SlotsApart
    <3>2. FreeObjects(q)' = FreeObjects(q)
      BY <2>3, <3>1 DEF FreeObjects
    <3>3. freelist'[q] = freelist[q]
      BY <1>2, <1>3, <2>4 DEF SlabType
    <3>4. \A b \in FreeObjects(q) : freeptr'[b] = freeptr[b]
      <4>1. \A b \in FreeObjects(q) : b \in Addresses /\ b # a
        BY <2>0, <3>1, SlotPlace DEF FreeObjects
      <4> QED
        BY <1>8, <4>1
    <3>5. Lists(g, m, q)'
      BY <2>2, <3>2, <3>3, <3>4, ListKept
    <3> QED
      BY <3>5
  <2>5. CASE q = p
    <3>1. FreeObjects(p)' = FreeObjects(p) \cup {a} /\ a \notin FreeObjects(p)
      BY <1>1, <1>7, <2>3, <2>5 DEF FreeObjects, c
    <3> DEFINE h == [k \in 0 .. m + 1 |-> IF k = 0 THEN a ELSE g[k - 1]]
    <3>2. h[0] = a /\ \A k \in 0 .. m : h[k + 1] = g[k]
      <4>1. \A k \in 0 .. m : /\ k + 1 \in 0 .. m + 1 /\ k + 1 # 0 /\ (k + 1) - 1 = k
        OBVIOUS
      <4>2. 0 \in 0 .. m + 1
        OBVIOUS
      <4> QED
        BY <4>1, <4>2
    <3>3. h \in [0 .. m + 1 -> Addresses \cup {NULL}]
      <4>1. \A k \in 0 .. m + 1 : k # 0 => k - 1 \in 0 .. m
        OBVIOUS
      <4> QED
        BY <1>1, <4>1
    <3> HIDE DEF h
    <3>4. \A k \in 0 .. m : k = 0 \/ k - 1 \in 0 .. m - 1
      OBVIOUS
    <3>5. \A k \in 0 .. m - 1 : k \in 0 .. m /\ k + 1 \in 0 .. m /\ k + 1 # 0
      OBVIOUS
    <3>6. /\ g[0] = freelist[p] /\ g[m] = NULL
          /\ \A k \in 0 .. m - 1 : g[k] \in FreeObjects(p) /\ freeptr[g[k]] = g[k + 1]
          /\ \A j, k \in 0 .. m - 1 : g[j] = g[k] => j = k
          /\ \A b \in FreeObjects(p) : \E k \in 0 .. m - 1 : g[k] = b
      BY <2>2, <2>5 DEF Lists
    <3>7. \A b \in FreeObjects(p) : freeptr'[b] = freeptr[b]
      <4>1. \A b \in FreeObjects(p) : b \in Addresses /\ b # a
        BY <1>1, <3>1, SlotPlace DEF FreeObjects, c
      <4> QED
        BY <1>8, <4>1
    <3>8. ASSUME NEW k \in 0 .. m
          PROVE  h[k] \in FreeObjects(p)' /\ freeptr'[h[k]] = h[k + 1]
      <4>1. CASE k = 0
        <5>1. h[1] = g[0]
          <6>1. 0 \in 0 .. m /\ 0 + 1 = 1
            OBVIOUS
          <6> QED
            BY <3>2, <6>1
        <5> QED
          BY <1>9, <3>1, <3>2, <3>6, <4>1, <5>1
      <4>2. CASE k # 0
        <5>1. PICK j \in 0 .. m - 1 : k = j + 1
          BY <4>2
        <5>2. h[k] = g[j] /\ h[k + 1] = g[k]
          BY <3>2, <3>5, <5>1
        <5>3. g[j] \in FreeObjects(p) /\ freeptr[g[j]] = g[j + 1]
          BY <3>6
        <5> QED
          BY <3>1, <3>7, <5>1, <5>2, <5>3
      <4> QED
        BY <4>1, <4>2
    <3>9. ASSUME NEW j \in 0 .. m, NEW k \in 0 .. m, h[j] = h[k] PROVE j = k
      <4>1. \A n \in 0 .. m : n # 0 => h[n] \in FreeObjects(p) /\ h[n] # a
        <5> SUFFICES ASSUME NEW n \in 0 .. m, n # 0 PROVE h[n] \in FreeObjects(p) /\ h[n] # a
          OBVIOUS
        <5>1. PICK l \in 0 .. m - 1 : n = l + 1
          OBVIOUS
        <5>2. h[n] = g[l] /\ g[l] \in FreeObjects(p)
          BY <3>2, <3>5, <3>6, <5>1
        <5> QED
          BY <3>1, <5>2
      <4>2. CASE j = 0 \/ k = 0
        BY <3>2, <3>9, <4>1, <4>2
      <4>3. CASE j # 0 /\ k # 0
        <5>1. PICK u \in 0 .. m - 1 : j = u + 1
          BY <4>3
        <5>2. PICK v \in 0 .. m - 1 : k = v + 1
          BY <4>3
        <5>3. g[u] = g[v]
          BY <3>2, <3>5, <3>9, <5>1, <5>2
        <5> QED
          BY <3>6, <5>1, <5>2, <5>3
      <4> QED
        BY <4>2, <4>3
    <3>10. ASSUME NEW b \in FreeObjects(p)' PROVE \E k \in 0 .. m : h[k] = b
      <4>1. CASE b = a
        <5>1. 0 \in 0 .. m
          OBVIOUS
        <5> QED
          BY <3>2, <4>1, <5>1
      <4>2. CASE b \in FreeObjects(p)
        <5>1. PICK k \in 0 .. m - 1 : g[k] = b
          BY <3>6, <4>2
        <5>2. k + 1 \in 0 .. m /\ h[k + 1] = b
          BY <3>2, <3>5, <5>1
        <5> QED
          BY <5>2
      <4> QED
        BY <3>1, <4>1, <4>2
    <3>11. m + 1 \in Nat /\ (m + 1) - 1 = m
      OBVIOUS
    <3>12. h[m + 1] = NULL
      <4>1. m \in 0 .. m
        OBVIOUS
      <4> QED
        BY <3>2, <3>6, <4>1
    <3>13. Lists(h, m + 1, p)'
      BY <1>9, <3>2, <3>8, <3>9, <3>10, <3>11, <3>12 DEF Lists
    <3> QED
      BY <2>5, <3>3, <3>11, <3>13
  <2> QED
    BY <2>4, <2>5
<1> QED
  BY <1>4, <1>5, <1>6, <1>10 DEF SlabInv

(* An object that is in no list and no longer free leaves the lists of all *)
(* other slabs as they were.                                               *)
LEMMA OtherLists ==
  ASSUME SlabInv, NEW p \in Pages, NEW c \in Caches, NEW a \in Slots(p, c),
         InUse' = InUse \cup {a},
         \A q \in Pages : q # p => /\ freelist'[q] = freelist[q]
                                   /\ slab_cache'[q] = slab_cache[q]
                                   /\ flags'[q] = flags[q],
         \A b \in Addresses : b \notin Slots(p, c) => freeptr'[b] = freeptr[b]
  PROVE  \A q \in Pages : q # p /\ flags'[q] = "PG_slab" =>
           \E m \in Nat : \E g \in [0 .. m -> Addresses \cup {NULL}] : Lists(g, m, q)'
<1> SUFFICES ASSUME NEW q \in Pages, q # p, flags'[q] = "PG_slab"
             PROVE  \E m \in Nat : \E g \in [0 .. m -> Addresses \cup {NULL}] : Lists(g, m, q)'
  OBVIOUS
<1>1. flags[q] = "PG_slab" /\ freelist'[q] = freelist[q] /\ slab_cache'[q] = slab_cache[q]
  OBVIOUS
<1>2. PICK m \in Nat : \E g \in [0 .. m -> Addresses \cup {NULL}] : Lists(g, m, q)
  BY <1>1 DEF SlabInv, ListsSound
<1>3. PICK g \in [0 .. m -> Addresses \cup {NULL}] : Lists(g, m, q)
  BY <1>2
<1>4. slab_cache[q] \in Caches
  BY DEF SlabInv, SlabType
<1>5. Slots(p, c) \cap Slots(q, slab_cache[q]) = {}
  BY <1>4, SlotsApart
<1>6. FreeObjects(q)' = FreeObjects(q)
  BY <1>1, <1>5 DEF FreeObjects
<1>7. \A b \in FreeObjects(q) : freeptr'[b] = freeptr[b]
  <2>1. \A b \in FreeObjects(q) : b \in Addresses /\ b \notin Slots(p, c)
    BY <1>4, <1>5, SlotPlace DEF FreeObjects
  <2> QED
    BY <2>1
<1>8. Lists(g, m, q)'
  BY <1>1, <1>3, <1>6, <1>7, ListKept
<1> QED
  BY <1>8

(* kmalloc() of an object from a slab that has one: the first of its list. *)
LEMMA KmallocPartialInv ==
  ASSUME SlabInv, NEW n \in Sizes, KmallocPartial(n)
  PROVE  SlabInv'
<1>1. PICK c \in Caches, p \in Pages :
        /\ CacheOf(n, c)
        /\ FirstPartial(c, p)
        /\ freelist' = [freelist EXCEPT ![p] = freeptr[@]]
        /\ freeptr' = [freeptr EXCEPT ![freelist[p]] = Junk]
        /\ live' = live \cup {<<freelist[p], n>>}
  BY DEF KmallocPartial
<1>2. UNCHANGED <<flags, private, slab_cache, partial, blocks, failed>>
  BY DEF KmallocPartial
<1>3. SlabType
  BY DEF SlabInv
<1>4. flags[p] = "PG_slab" /\ slab_cache[p] = c /\ freelist[p] # NULL
  <2>1. PICK k \in 1 .. Len(partial[c]) : p = partial[c][k] /\ freelist[p] # NULL
    BY <1>1 DEF FirstPartial
  <2>2. partial[c] \in Seq(Pages)
    BY <1>3 DEF SlabType
  <2>3. k \in DOMAIN partial[c]
    BY <2>2
  <2> QED
    BY <2>1, <2>3 DEF SlabInv, SlabsLinked
<1>5. <<p, 0>> \in blocks /\ private[p] = 0
  BY <1>4 DEF SlabInv, SlabsLinked
<1>6. PICK m \in Nat : \E g \in [0 .. m -> Addresses \cup {NULL}] : Lists(g, m, p)
  BY <1>4 DEF SlabInv, ListsSound
<1>7. PICK g \in [0 .. m -> Addresses \cup {NULL}] : Lists(g, m, p)
  BY <1>6
<1> DEFINE a == freelist[p]
<1>8. /\ g[0] = a /\ g[m] = NULL
      /\ \A k \in 0 .. m - 1 : g[k] \in FreeObjects(p) /\ freeptr[g[k]] = g[k + 1]
      /\ \A j, k \in 0 .. m - 1 : g[j] = g[k] => j = k
      /\ \A b \in FreeObjects(p) : \E k \in 0 .. m - 1 : g[k] = b
  BY <1>7 DEF Lists
<1>9. m # 0 /\ 0 \in 0 .. m - 1 /\ m - 1 \in Nat
  BY <1>4, <1>8
<1>10. a \in FreeObjects(p) /\ freeptr[a] = g[1]
  <2>1. 0 + 1 = 1
    OBVIOUS
  <2> QED
    BY <1>8, <1>9, <2>1
<1>11. a \in Slots(p, c) /\ a \notin InUse /\ a \in Addresses
  BY <1>4, <1>10, SlotPlace DEF FreeObjects
<1> DEFINE x == <<a, n>>
<1>12. x[1] = a /\ x[2] = n /\ PageOf(x) = p /\ x \in Addresses \X Sizes
  BY <1>11, SlotPlace DEF PageOf
<1>13. /\ freelist' = [freelist EXCEPT ![p] = g[1]]
       /\ freeptr' = [freeptr EXCEPT ![a] = Junk]
       /\ live' = live \cup {x}
  BY <1>1, <1>3, <1>10 DEF SlabType
<1>14. 1 \in 0 .. m
  BY <1>9
<1> HIDE DEF a, x
<1>15. SlabType'
  <2>1. freelist' \in [Pages -> Addresses \cup {NULL}]
    <3>1. g[1] \in Addresses \cup {NULL}
      BY <1>14
    <3> QED
      BY <1>3, <1>13, <3>1 DEF SlabType
  <2>2. freeptr' \in [Addresses -> Addresses \cup {NULL, Junk}]
    BY <1>3, <1>13 DEF SlabType
  <2>3. live' \subseteq Addresses \X Sizes
    BY <1>3, <1>12, <1>13 DEF SlabType
  <2> QED
    BY <1>2, <1>3, <2>1, <2>2, <2>3 DEF SlabType
<1>16. BlocksApart' /\ SlabsLinked'
  BY <1>2 DEF SlabInv, BlocksApart, SlabsLinked, Pool!Span
<1>17. LiveSound'
  <2>1. ASSUME NEW y \in live'
        PROVE  /\ PageOf(y) \in Pages
               /\ <<PageOf(y), private[PageOf(y)]>> \in blocks
               /\ IsObject(y) \/ IsBlock(y)
    <3>1. CASE y \in live
      BY <3>1 DEF SlabInv, LiveSound
    <3>2. CASE y = x
      <4>1. IsObject(x)
        BY <1>1, <1>4, <1>11, <1>12 DEF IsObject, CacheOf
      <4> QED
        BY <1>5, <1>12, <3>2, <4>1
    <3> QED
      BY <1>13, <3>1, <3>2
  <2>2. ASSUME NEW y \in live', NEW z \in live', y[1] = z[1] PROVE y = z
    <3>1. \A w \in live : w[1] # a
      BY <1>11 DEF InUse
    <3>2. CASE y \in live /\ z \in live
      BY <2>2, <3>2 DEF SlabInv, LiveSound
    <3>3. CASE y = x \/ z = x
      BY <1>12, <1>13, <2>2, <3>1, <3>3
    <3> QED
      BY <1>13, <3>2, <3>3
  <2> QED
    BY <1>2, <2>1, <2>2 DEF LiveSound, IsObject, IsBlock, PageOf
<1>18. InUse' = InUse \cup {a}
  BY <1>12, <1>13 DEF InUse
<1>19. \A b \in Addresses : b # a => freeptr'[b] = freeptr[b]
  BY <1>3, <1>13 DEF SlabType
<1>20. freelist'[p] = g[1] /\ \A q \in Pages : q # p => freelist'[q] = freelist[q]
  BY <1>3, <1>13 DEF SlabType
<1>21. \E l \in Nat : \E h \in [0 .. l -> Addresses \cup {NULL}] : Lists(h, l, p)'
  <2>1. FreeObjects(p)' = FreeObjects(p) \ {a}
    BY <1>2, <1>18 DEF FreeObjects
  <2>2. PICK l \in Nat : l = m - 1
    BY <1>9
  <2> DEFINE h == [k \in 0 .. l |-> g[k + 1]]
  <2>3. \A k \in 0 .. l : h[k] = g[k + 1] /\ k + 1 \in 0 .. m
    BY <2>2
  <2>4. h \in [0 .. l -> Addresses \cup {NULL}]
    BY <2>3
  <2> HIDE DEF h
  <2>5. \A k \in 0 .. l - 1 : /\ k \in 0 .. l /\ k + 1 \in 0 .. l
                              /\ k + 1 \in 0 .. m - 1 /\ k + 1 # 0
    BY <2>2
  <2>6. h[0] = g[1] /\ h[l] = NULL
    <3>1. 0 \in 0 .. l /\ l \in 0 .. l /\ 0 + 1 = 1 /\ l + 1 = m
      BY <2>2
    <3> QED
      BY <1>8, <2>3, <3>1
  <2>7. \A b \in FreeObjects(p) : b # a => freeptr'[b] = freeptr[b]
    <3>1. \A b \in FreeObjects(p) : b \in Addresses
      BY <1>4, SlotPlace DEF FreeObjects
    <3> QED
      BY <1>19, <3>1
  <2>8. ASSUME NEW k \in 0 .. l - 1
        PROVE  h[k] \in FreeObjects(p)' /\ freeptr'[h[k]] = h[k + 1]
    <3>1. PICK j : j = k + 1
      OBVIOUS
    <3>2. j \in 0 .. m - 1 /\ j # 0 /\ h[k] = g[j] /\ h[k + 1] = g[j + 1]
      BY <2>3, <2>5, <3>1
    <3>3. g[j] \in FreeObjects(p) /\ freeptr[g[j]] = g[j + 1]
      BY <1>8, <3>2
    <3>4. g[j] # a
      BY <1>8, <1>9, <3>2
    <3> QED
      BY <2>1, <2>7, <3>2, <3>3, <3>4
  <2>9. ASSUME NEW j \in 0 .. l - 1, NEW k \in 0 .. l - 1, h[j] = h[k] PROVE j = k
    <3>1. g[j + 1] = g[k + 1] /\ j + 1 \in 0 .. m - 1 /\ k + 1 \in 0 .. m - 1
      BY <2>3, <2>5, <2>9
    <3>2. j + 1 = k + 1
      BY <1>8, <3>1
    <3> QED
      BY <3>2
  <2>10. ASSUME NEW b \in FreeObjects(p)' PROVE \E k \in 0 .. l - 1 : h[k] = b
    <3>1. PICK k \in 0 .. m - 1 : g[k] = b
      BY <1>8, <2>1, <2>10
    <3>2. k # 0
      BY <1>8, <2>1, <2>10, <3>1
    <3>3. PICK j \in 0 .. l - 1 : k = j + 1
      BY <2>2, <3>2
    <3>4. h[j] = b
      BY <2>3, <2>5, <3>1, <3>3
    <3> QED
      BY <3>4
  <2>11. Lists(h, l, p)'
    BY <1>20, <2>6, <2>8, <2>9, <2>10 DEF Lists
  <2> QED
    BY <2>4, <2>11
<1>22. ListsSound'
  <2>1. \A q \in Pages : q # p => /\ freelist'[q] = freelist[q]
                                  /\ slab_cache'[q] = slab_cache[q]
                                  /\ flags'[q] = flags[q]
    BY <1>2, <1>20
  <2>2. \A b \in Addresses : b \notin Slots(p, c) => freeptr'[b] = freeptr[b]
    BY <1>11, <1>19
  <2>3. \A q \in Pages : q # p /\ flags'[q] = "PG_slab" =>
          \E l \in Nat : \E h \in [0 .. l -> Addresses \cup {NULL}] : Lists(h, l, q)'
    BY <1>11, <1>18, <2>1, <2>2, OtherLists
  <2> QED
    BY <1>21, <2>3 DEF ListsSound
<1> QED
  BY <1>15, <1>16, <1>17, <1>22 DEF SlabInv

(* set_freepointers() chains the objects of a page in the order of their   *)
(* addresses and changes no other memory.                                  *)
LEMMA FreshChain ==
  ASSUME SlabType, NEW p \in Pages, NEW c \in Caches
  PROVE  LET fp == SetFreepointers(p, c)
             N  == NrSlots(c) IN
         /\ fp \in [Addresses -> Addresses \cup {NULL, Junk}]
         /\ \A k \in 0 .. N - 1 :
              fp[Slot(p, c, k)] = IF k = N - 1 THEN NULL ELSE Slot(p, c, k + 1)
         /\ \A b \in Addresses : b \notin Slots(p, c) => fp[b] = freeptr[b]
<1> DEFINE fp == SetFreepointers(p, c)
           N == NrSlots(c)
           sz == ObjectSize(c)
<1>1. N \in Nat \ {0}
  BY ObjectsFillPage
<1>2. \A a \in Slots(p, c) : a \in Addresses
  BY SlotPlace
<1>3. fp = [a \in Addresses |->
              IF a \in Slots(p, c)
                THEN IF a + sz \in Slots(p, c) THEN a + sz ELSE NULL
                ELSE freeptr[a]]
  BY DEF SetFreepointers
<1> HIDE DEF fp, N, sz
<1>4. fp \in [Addresses -> Addresses \cup {NULL, Junk}]
  BY <1>2, <1>3 DEF SlabType
<1>5. ASSUME NEW k \in 0 .. N - 1
      PROVE  fp[Slot(p, c, k)] = IF k = N - 1 THEN NULL ELSE Slot(p, c, k + 1)
  <2>1. /\ Slots(p, c) = {Slot(p, c, j) : j \in 0 .. N - 1}
        /\ \A j, i \in Int : Slot(p, c, j) = Slot(p, c, i) => j = i
        /\ \A j \in Int : Slot(p, c, j + 1) = Slot(p, c, j) + sz
    BY SlotFacts DEF N, sz
  <2>2. Slot(p, c, k) \in Slots(p, c) /\ k \in Int /\ k + 1 \in Int
    BY <1>1, <2>1
  <2>3. PICK j : j = k + 1
    OBVIOUS
  <2>4. Slot(p, c, k) + sz = Slot(p, c, j)
    BY <2>1, <2>2, <2>3
  <2>5. fp[Slot(p, c, k)] = IF Slot(p, c, j) \in Slots(p, c) THEN Slot(p, c, j) ELSE NULL
    BY <1>2, <1>3, <2>2, <2>4
  <2>6. CASE k = N - 1
    <3>1. Slot(p, c, j) \notin Slots(p, c)
      <4> SUFFICES ASSUME NEW i \in 0 .. N - 1, Slot(p, c, j) = Slot(p, c, i) PROVE FALSE
        BY <2>1
      <4>1. i \in Int /\ j \in Int /\ i # j
        BY <1>1, <2>3, <2>6
      <4> QED
        BY <2>1, <4>1
    <3> QED
      BY <2>5, <2>6, <3>1
  <2>7. CASE k # N - 1
    <3>1. j \in 0 .. N - 1
      BY <1>1, <2>3, <2>7
    <3> QED
      BY <2>1, <2>3, <2>5, <2>7, <3>1
  <2> QED
    BY <2>6, <2>7
<1>6. \A b \in Addresses : b \notin Slots(p, c) => fp[b] = freeptr[b]
  BY <1>3
<1> QED
  BY <1>4, <1>5, <1>6 DEF fp, N

(* kmalloc() of an object when no slab of the cache has one: a page        *)
(* becomes a slab whose first object is handed out.                        *)
LEMMA KmallocNewSlabInv ==
  ASSUME SlabInv, NEW n \in Sizes, KmallocNewSlab(n)
  PROVE  SlabInv'
<1>1. PICK c \in Caches, p \in Pages :
        /\ CacheOf(n, c)
        /\ Pool!Take(<<p, 0>>)
        /\ private' = [private EXCEPT ![p] = 0]
        /\ MarkSlab(p)
        /\ LinkSlab(p, c)
        /\ freelist' = [freelist EXCEPT ![p] = SetFreepointers(p, c)[p * PageSize]]
        /\ freeptr' = [SetFreepointers(p, c) EXCEPT ![p * PageSize] = Junk]
        /\ live' = live \cup {<<p * PageSize, n>>}
  BY DEF KmallocNewSlab
<1>2. UNCHANGED failed
  BY DEF KmallocNewSlab
<1>3. SlabType
  BY DEF SlabInv
<1> DEFINE fp == SetFreepointers(p, c)
           N == NrSlots(c)
           a == p * PageSize
           x == <<a, n>>
           S(k) == Slot(p, c, k)
<1>4. /\ fp \in [Addresses -> Addresses \cup {NULL, Junk}]
      /\ \A k \in 0 .. N - 1 : fp[S(k)] = IF k = N - 1 THEN NULL ELSE S(k + 1)
      /\ \A b \in Addresses : b \notin Slots(p, c) => fp[b] = freeptr[b]
  BY <1>3, FreshChain
<1>5. 0 \in Orders
  BY PageAssumption DEF Orders
<1>6. /\ flags[p] # "PG_slab" /\ (\A y \in live : PageOf(y) # p)
      /\ blocks' = blocks \cup {<<p, 0>>} /\ BlocksApart'
  BY <1>1, <1>5, FreshBlock
<1>7. /\ N \in Nat \ {0} /\ a \in Slots(p, c) /\ a = S(0)
      /\ \A b \in Slots(p, c) : b \in Addresses /\ b \div PageSize = p
  BY ObjectsFillPage, SlotFacts, SlotPlace
<1>8. x[1] = a /\ x[2] = n /\ PageOf(x) = p /\ x \in Addresses \X Sizes
  BY <1>7 DEF PageOf
<1>9. /\ freelist' = [freelist EXCEPT ![p] = fp[a]]
      /\ freeptr' = [fp EXCEPT ![a] = Junk]
      /\ live' = live \cup {x}
      /\ flags' = [flags EXCEPT ![p] = "PG_slab"]
      /\ partial' = [partial EXCEPT ![c] = <<p>> \o @]
      /\ slab_cache' = [slab_cache EXCEPT ![p] = c]
  BY <1>1 DEF MarkSlab, LinkSlab
<1>10. /\ Slots(p, c) = {S(k) : k \in 0 .. N - 1}
       /\ \A j, k \in Int : S(j) = S(k) => j = k
  BY SlotFacts
<1> HIDE DEF fp, N, a, x, S
<1>11. fp[a] = (IF N = 1 THEN NULL ELSE S(1)) /\ fp[a] \in Addresses \cup {NULL}
  <2>1. 0 \in 0 .. N - 1 /\ 0 + 1 = 1 /\ (0 = N - 1 <=> N = 1)
    BY <1>7
  <2>2. fp[a] = IF N = 1 THEN NULL ELSE S(1)
    BY <1>4, <1>7, <2>1
  <2>3. N # 1 => 1 \in 0 .. N - 1
    BY <1>7
  <2> QED
    BY <1>7, <1>10, <2>2, <2>3
<1>12. \A q \in Pages : q # p => /\ freelist'[q] = freelist[q]
                                 /\ slab_cache'[q] = slab_cache[q]
                                 /\ flags'[q] = flags[q]
                                 /\ private'[q] = private[q]
  BY <1>1, <1>3, <1>9 DEF SlabType
<1>13. /\ flags'[p] = "PG_slab" /\ slab_cache'[p] = c /\ private'[p] = 0
       /\ freelist'[p] = fp[a]
  BY <1>1, <1>3, <1>9 DEF SlabType
<1>14. /\ \A d \in Caches : d # c => partial'[d] = partial[d]
       /\ partial'[c] = <<p>> \o partial[c] /\ partial[c] \in Seq(Pages)
  BY <1>3, <1>9 DEF SlabType
<1>15. SlabType'
  <2>1. freelist' \in [Pages -> Addresses \cup {NULL}]
    BY <1>3, <1>9, <1>11 DEF SlabType
  <2>2. freeptr' \in [Addresses -> Addresses \cup {NULL, Junk}]
    BY <1>4, <1>9
  <2>3. live' \subseteq Addresses \X Sizes
    BY <1>3, <1>8, <1>9 DEF SlabType
  <2>4. partial' \in [Caches -> Seq(Pages)]
    <3>1. <<p>> \o partial[c] \in Seq(Pages)
      BY <1>14
    <3> QED
      BY <1>3, <1>9, <3>1 DEF SlabType
  <2>5. /\ flags' \in [Pages -> {"PG_buddy", "PG_USED", "PG_slab"}]
        /\ private' \in [Pages -> Orders] /\ slab_cache' \in [Pages -> Caches]
    BY <1>1, <1>3, <1>5, <1>9 DEF SlabType
  <2>6. blocks' \subseteq Pages \X Orders
    BY <1>3, <1>5, <1>6 DEF SlabType
  <2> QED
    BY <1>2, <1>3, <2>1, <2>2, <2>3, <2>4, <2>5, <2>6 DEF SlabType
<1>16. /\ \A k \in DOMAIN partial[c] : k + 1 \in DOMAIN partial'[c] /\ partial'[c][k + 1] = partial[c][k]
       /\ 1 \in DOMAIN partial'[c] /\ partial'[c][1] = p
       /\ \A k \in DOMAIN partial'[c] : k # 1 =>
            k - 1 \in DOMAIN partial[c] /\ partial'[c][k] = partial[c][k - 1]
  BY <1>14
<1>17. SlabsLinked'
  <2>1. ASSUME NEW q \in Pages, flags'[q] = "PG_slab"
        PROVE  /\ <<q, 0>> \in blocks' /\ private'[q] = 0
               /\ \E k \in DOMAIN partial'[slab_cache'[q]] : partial'[slab_cache'[q]][k] = q
    <3>1. CASE q = p
      BY <1>6, <1>13, <1>16, <3>1
    <3>2. CASE q # p
      <4>1. PICK k \in DOMAIN partial[slab_cache[q]] : partial[slab_cache[q]][k] = q
        BY <1>12, <2>1, <3>2 DEF SlabInv, SlabsLinked
      <4>2. <<q, 0>> \in blocks /\ private[q] = 0 /\ slab_cache[q] \in Caches
        BY <1>3, <1>12, <2>1, <3>2 DEF SlabInv, SlabsLinked, SlabType
      <4>3. \E l \in DOMAIN partial'[slab_cache[q]] : partial'[slab_cache[q]][l] = q
        <5>1. CASE slab_cache[q] = c
          BY <1>16, <4>1, <5>1
        <5>2. CASE slab_cache[q] # c
          BY <1>14, <4>1, <4>2, <5>2
        <5> QED
          BY <5>1, <5>2
      <4> QED
        BY <1>6, <1>12, <3>2, <4>2, <4>3
    <3> QED
      BY <3>1, <3>2
  <2>2. ASSUME NEW d \in Caches, NEW k \in DOMAIN partial[d]
        PROVE  flags'[partial[d][k]] = "PG_slab" /\ slab_cache'[partial[d][k]] = d
    <3>1. partial[d][k] \in Pages
      BY <1>3 DEF SlabType
    <3>2. flags[partial[d][k]] = "PG_slab" /\ slab_cache[partial[d][k]] = d
      BY DEF SlabInv, SlabsLinked
    <3> QED
      BY <1>6, <1>12, <3>1, <3>2
  <2>3. ASSUME NEW d \in Caches, NEW k \in DOMAIN partial'[d]
        PROVE  flags'[partial'[d][k]] = "PG_slab" /\ slab_cache'[partial'[d][k]] = d
    <3>1. CASE d # c
      BY <1>14, <2>2, <2>3, <3>1
    <3>2. CASE d = c /\ k = 1
      BY <1>13, <1>16, <3>2
    <3>3. CASE d = c /\ k # 1
      <4>1. k - 1 \in DOMAIN partial[c] /\ partial'[c][k] = partial[c][k - 1]
        BY <1>16, <2>3, <3>3
      <4> QED
        BY <2>2, <3>3, <4>1
    <3> QED
      BY <3>1, <3>2, <3>3
  <2> QED
    BY <2>1, <2>3 DEF SlabsLinked
<1>18. LiveSound'
  <2>1. ASSUME NEW y \in live'
        PROVE  /\ PageOf(y) \in Pages
               /\ <<PageOf(y), private'[PageOf(y)]>> \in blocks'
               /\ IsObject(y)' \/ IsBlock(y)'
    <3>1. CASE y \in live
      <4>1. /\ PageOf(y) \in Pages /\ <<PageOf(y), private[PageOf(y)]>> \in blocks
            /\ IsObject(y) \/ IsBlock(y)
        BY <3>1 DEF SlabInv, LiveSound
      <4>2. /\ flags'[PageOf(y)] = flags[PageOf(y)] /\ private'[PageOf(y)] = private[PageOf(y)]
            /\ slab_cache'[PageOf(y)] = slab_cache[PageOf(y)]
        BY <1>6, <1>12, <3>1, <4>1
      <4> QED
        BY <1>6, <4>1, <4>2 DEF IsObject, IsBlock, PageOf
    <3>2. CASE y = x
      <4>1. IsObject(x)'
        BY <1>1, <1>7, <1>8, <1>13 DEF IsObject, PageOf, CacheOf
      <4> QED
        BY <1>6, <1>8, <1>13, <3>2, <4>1
    <3> QED
      BY <1>9, <3>1, <3>2
  <2>2. ASSUME NEW y \in live', NEW z \in live', y[1] = z[1] PROVE y = z
    <3>1. PageOf(y) = PageOf(z)
      BY <2>2 DEF PageOf
    <3>2. CASE y \in live /\ z \in live
      BY <2>2, <3>2 DEF SlabInv, LiveSound
    <3>3. CASE y = x \/ z = x
      BY <1>6, <1>8, <1>9, <3>1, <3>3
    <3> QED
      BY <1>9, <3>2, <3>3
  <2> QED
    BY <2>1, <2>2 DEF LiveSound, PageOf
<1>19. InUse' = InUse \cup {a}
  BY <1>8, <1>9 DEF InUse
<1>20. FreeObjects(p)' = Slots(p, c) \ {a}
  <2>1. \A b \in Slots(p, c) : b \notin InUse
    BY <1>6, <1>7 DEF InUse, PageOf
  <2> QED
    BY <1>13, <1>19, <2>1 DEF FreeObjects
<1>21. \E l \in Nat : \E h \in [0 .. l -> Addresses \cup {NULL}] : Lists(h, l, p)'
  <2>1. PICK l \in Nat : l = N - 1
    BY <1>7
  <2> DEFINE h == [k \in 0 .. l |-> IF k = l THEN NULL ELSE S(k + 1)]
  <2>2. /\ \A k \in 0 .. l - 1 : h[k] = S(k + 1)
        /\ \A k \in 0 .. l - 1 : k + 1 \in 0 .. N - 1 /\ k + 1 # 0
        /\ h[l] = NULL
    BY <2>1
  <2>3. h \in [0 .. l -> Addresses \cup {NULL}]
    <3>1. \A k \in 0 .. l : k = l \/ k + 1 \in 0 .. N - 1
      BY <2>1
    <3>2. \A k \in 0 .. l : k = l \/ S(k + 1) \in Addresses
      BY <1>7, <1>10, <3>1
    <3> QED
      BY <3>2
  <2>4. h[0] = fp[a]
    <3>1. CASE l = 0
      BY <1>11, <2>1, <2>2, <3>1
    <3>2. CASE l # 0
      <4>1. 0 \in 0 .. l - 1 /\ N # 1 /\ 0 + 1 = 1
        BY <1>7, <2>1, <3>2
      <4> QED
        BY <1>11, <2>2, <4>1
    <3> QED
      BY <3>1, <3>2
  <2>5. ASSUME NEW k \in 0 .. l - 1
        PROVE  h[k] \in FreeObjects(p)' /\ freeptr'[h[k]] = h[k + 1]
    <3>1. PICK j : j = k + 1
      OBVIOUS
    <3>2. j \in 0 .. N - 1 /\ j # 0 /\ h[k] = S(j) /\ j \in Int /\ 0 \in Int /\ j \in 0 .. l
      BY <2>1, <2>2, <3>1
    <3>3. S(j) \in Slots(p, c) /\ S(j) # a
      BY <1>7, <1>10, <3>2
    <3>4. freeptr'[S(j)] = fp[S(j)]
      BY <1>4, <1>7, <1>9, <3>3
    <3>5. fp[S(j)] = IF j = N - 1 THEN NULL ELSE S(j + 1)
      BY <1>4, <3>2
    <3>6. h[j] = IF j = N - 1 THEN NULL ELSE S(j + 1)
      BY <2>1, <3>2
    <3> HIDE DEF h
    <3> QED
      BY <1>20, <3>1, <3>2, <3>3, <3>4, <3>5, <3>6
  <2> HIDE DEF h
  <2>6. ASSUME NEW j \in 0 .. l - 1, NEW k \in 0 .. l - 1, h[j] = h[k] PROVE j = k
    <3>1. S(j + 1) = S(k + 1) /\ j + 1 \in Int /\ k + 1 \in Int
      BY <2>2, <2>6
    <3>2. j + 1 = k + 1
      BY <1>10, <3>1
    <3> QED
      BY <3>2
  <2>7. ASSUME NEW b \in FreeObjects(p)' PROVE \E k \in 0 .. l - 1 : h[k] = b
    <3>1. PICK k \in 0 .. N - 1 : S(k) = b
      BY <1>10, <1>20
    <3>2. k # 0
      BY <1>7, <1>20, <3>1
    <3>3. PICK j \in 0 .. l - 1 : k = j + 1
      BY <2>1, <3>2
    <3>4. h[j] = b
      BY <2>2, <3>1, <3>3
    <3> QED
      BY <3>4
  <2>8. Lists(h, l, p)'
    BY <1>13, <2>2, <2>4, <2>5, <2>6, <2>7 DEF Lists
  <2> QED
    BY <2>3, <2>8
<1>22. ListsSound'
  <2>1. \A b \in Addresses : b \notin Slots(p, c) => freeptr'[b] = freeptr[b]
    BY <1>4, <1>7, <1>9
  <2>2. \A q \in Pages : q # p /\ flags'[q] = "PG_slab" =>
          \E l \in Nat : \E h \in [0 .. l -> Addresses \cup {NULL}] : Lists(h, l, q)'
    BY <1>7, <1>12, <1>19, <2>1, OtherLists
  <2> QED
    BY <1>21, <2>2 DEF ListsSound
<1> QED
  BY <1>6, <1>15, <1>17, <1>18, <1>22 DEF SlabInv

------------------------------------------------------------------------------
(* The invariant                                                           *)

(* The invariant holds after the caches are set up.                        *)
LEMMA SlabInit == Init => SlabInv
<1> SUFFICES ASSUME Init PROVE SlabInv
  OBVIOUS
<1>1. 0 \in Orders /\ 0 \in Caches
  BY PageAssumption, CacheAssumption DEF Orders, Caches
<1>2. SlabType
  BY <1>1 DEF Init, SlabType
<1>3. \A p \in Pages : flags[p] # "PG_slab"
  BY DEF Init
<1>4. \A c \in Caches : DOMAIN partial[c] = {}
  BY DEF Init
<1>5. BlocksApart /\ SlabsLinked
  BY <1>3, <1>4 DEF Init, BlocksApart, SlabsLinked
<1>6. LiveSound /\ ListsSound
  BY <1>3 DEF Init, LiveSound, ListsSound
<1> QED
  BY <1>2, <1>5, <1>6 DEF SlabInv

(* Every kmalloc() and kfree() keeps the invariant.                        *)
LEMMA SlabNext == SlabInv /\ [Next]_vars => SlabInv'
<1> SUFFICES ASSUME SlabInv, [Next]_vars PROVE SlabInv'
  OBVIOUS
<1>1. ASSUME NEW n \in Sizes, Kmalloc(n) PROVE SlabInv'
  <2>1. KmallocPartial(n) \/ KmallocNewSlab(n) \/ KmallocBeyond(n) \/ KmallocPages(n)
    BY <1>1 DEF Kmalloc
  <2> QED
    BY <2>1, KmallocPartialInv, KmallocNewSlabInv, KmallocBeyondInv, KmallocPagesInv
<1>2. ASSUME NEW x \in live, KfreeObject(x) PROVE SlabInv'
  BY <1>2, KfreeObjectInv
<1>3. ASSUME NEW x \in live, KfreePages(x) PROVE SlabInv'
  BY <1>3, KfreePagesInv
<1>4. ASSUME UNCHANGED vars PROVE SlabInv'
  <2>1. \A p : FreeObjects(p)' = FreeObjects(p)
    BY <1>4 DEF vars, FreeObjects, InUse
  <2>2. ListsSound'
    BY <1>4, <2>1 DEF vars, SlabInv, ListsSound, Lists
  <2> QED
    BY <1>4, <2>2 DEF vars, SlabInv, SlabType, BlocksApart, SlabsLinked, LiveSound,
                      IsObject, IsBlock, PageOf, Pool!Span
<1> QED
  BY <1>1, <1>2, <1>3, <1>4 DEF Next

(* kmalloc() and kfree() keep the bookkeeping of the slabs: every page on  *)
(* a cache's list is a slab of that cache, every allocation is an object   *)
(* of a slab or a block of pages, and every free list is a sequence of the *)
(* slab's free objects without repetition.                                 *)
THEOREM SlabInvariance == Spec => []SlabInv
<1> QED
  BY SlabInit, SlabNext, PTL DEF Spec

(* kfree() of a live allocation never reaches the endless loop at the end  *)
(* of free_one_page(): the page is a slab or marked PG_USED.               *)
THEOREM KfreeReturns == Spec => []KfreeNeverHangs
<1>1. SlabInv => KfreeNeverHangs
  BY DEF SlabInv, SlabType, KfreeNeverHangs
<1> QED
  BY <1>1, SlabInvariance, PTL

------------------------------------------------------------------------------
(* Free lists                                                              *)

(* Following the free pointers visits the objects of the list in order.    *)
LEMMA ChainIsList ==
  ASSUME SlabInv, NEW p \in Pages, flags[p] = "PG_slab",
         NEW m \in Nat, NEW g, Lists(g, m, p), NEW k \in 0 .. m
  PROVE  Chain(p, k) = g[k]
<1> DEFINE step(f, j) == IF j = 0 THEN freelist[p]
                         ELSE IF f[j - 1] \in Addresses THEN freeptr[f[j - 1]] ELSE Junk
           F == CHOOSE f : f = [j \in 0 .. k |-> step(f, j)]
           h == [j \in 0 .. k |-> g[j]]
<1>1. Chain(p, k) = F[k]
  BY DEF Chain
<1>2. \A j \in 0 .. k : j # 0 => g[j - 1] \in Addresses /\ freeptr[g[j - 1]] = g[j]
  <2> SUFFICES ASSUME NEW j \in 0 .. k, j # 0
               PROVE  g[j - 1] \in Addresses /\ freeptr[g[j - 1]] = g[j]
    OBVIOUS
  <2>1. PICK i \in 0 .. m - 1 : i = j - 1 /\ i + 1 = j
    OBVIOUS
  <2>2. g[i] \in FreeObjects(p) /\ freeptr[g[i]] = g[i + 1]
    BY DEF Lists
  <2>3. slab_cache[p] \in Caches
    BY DEF SlabInv, SlabType
  <2>4. g[i] \in Addresses
    BY <2>2, <2>3, SlotPlace DEF FreeObjects
  <2> QED
    BY <2>1, <2>2, <2>4
<1>3. g[0] = freelist[p]
  BY DEF Lists
<1>4. h = [j \in 0 .. k |-> step(h, j)]
  <2>1. \A j \in 0 .. k : j # 0 => j - 1 \in 0 .. k
    OBVIOUS
  <2>2. \A j \in 0 .. k : g[j] = step(h, j)
    BY <1>2, <1>3, <2>1
  <2> QED
    BY <2>2
<1>5. F = [j \in 0 .. k |-> step(F, j)]
  <2> HIDE DEF h
  <2> QED
    BY <1>4, Zenon
<1> HIDE DEF F
<1>6. ASSUME F[k] # g[k] PROVE FALSE
  <2> DEFINE T == {j \in Nat : j <= k /\ F[j] # g[j]}
  <2>1. k \in T /\ T \subseteq Nat
    BY <1>6
  <2>2. PICK x \in T : \A y \in T : x <= y
    BY <2>1, LeastElement
  <2>3. x \in 0 .. k /\ x \in Nat /\ F[x] # g[x]
    BY <2>2
  <2>4. F[x] = step(F, x)
    BY <1>5, <2>3
  <2>5. CASE x = 0
    BY <1>3, <2>3, <2>4, <2>5
  <2>6. CASE x # 0
    <3>1. PICK y : y = x - 1
      OBVIOUS
    <3>2. y \in Nat /\ y <= k /\ ~ (x <= y)
      BY <2>3, <2>6, <3>1
    <3>3. F[y] = g[y]
      BY <2>2, <3>2
    <3>4. F[x] = g[x]
      BY <1>2, <2>3, <2>4, <2>6, <3>1, <3>3
    <3> QED
      BY <2>3, <3>4
  <2> QED
    BY <2>5, <2>6
<1> QED
  BY <1>1, <1>6

(* A list has as many objects as there are free ones.                      *)
LEMMA ListLength ==
  ASSUME NEW p, NEW m \in Nat, NEW g, Lists(g, m, p)
  PROVE  Cardinality(FreeObjects(p)) = m
<1> DEFINE I == 0 .. m - 1
           T == FreeObjects(p)
           h == [k \in I |-> g[k]]
<1>1. /\ \A k \in I : g[k] \in T
      /\ \A j, k \in I : g[j] = g[k] => j = k
      /\ \A a \in T : \E k \in I : g[k] = a
  BY DEF Lists
<1> HIDE DEF T
<1>2. IsFiniteSet(I) /\ Cardinality(I) = m
  <2>1. 0 \in Int /\ m - 1 \in Int
    OBVIOUS
  <2>2. IsFiniteSet(I) /\ Cardinality(I) = IF 0 > m - 1 THEN 0 ELSE (m - 1) - 0 + 1
    BY <2>1, FS_Interval
  <2> HIDE DEF I
  <2> QED
    BY <2>2
<1> HIDE DEF I
<1>3. h \in Bijection(I, T)
  BY <1>1 DEF Bijection, Injection, Surjection, IsInjective
<1>4. ExistsBijection(I, T)
  BY <1>3 DEF ExistsBijection
<1> QED
  BY <1>2, <1>4, FS_Bijection DEF T

(* Following the free pointers kept inside the objects visits every object *)
(* of the slab that is not in use exactly once and ends in NULL, after any *)
(* sequence of kmalloc() and kfree().                                      *)
THEOREM FreelistsExact == Spec => []FreelistExact
<1>1. SlabInv => FreelistExact
  <2> SUFFICES ASSUME SlabInv, NEW p \in Slabs
               PROVE  LET Free == Slots(p, slab_cache[p]) \ {x[1] : x \in live}
                          n == Cardinality(Free) IN
                      /\ {Chain(p, k) : k \in 0 .. n - 1} = Free
                      /\ Chain(p, n) = NULL
    BY DEF FreelistExact
  <2>1. p \in Pages /\ flags[p] = "PG_slab"
    BY DEF Slabs
  <2>2. PICK m \in Nat : \E g \in [0 .. m -> Addresses \cup {NULL}] : Lists(g, m, p)
    BY <2>1 DEF SlabInv, ListsSound
  <2>3. PICK g \in [0 .. m -> Addresses \cup {NULL}] : Lists(g, m, p)
    BY <2>2
  <2>4. Cardinality(FreeObjects(p)) = m
    BY <2>3, ListLength
  <2>5. \A k \in 0 .. m : Chain(p, k) = g[k]
    BY <2>1, <2>3, ChainIsList
  <2>6. \A k \in 0 .. m - 1 : k \in 0 .. m
    OBVIOUS
  <2>7. {Chain(p, k) : k \in 0 .. m - 1} = FreeObjects(p)
    BY <2>3, <2>5, <2>6 DEF Lists
  <2>8. Chain(p, m) = NULL
    BY <2>3, <2>5 DEF Lists
  <2> QED
    BY <2>4, <2>7, <2>8 DEF FreeObjects, InUse
<1> QED
  BY <1>1, SlabInvariance, PTL

------------------------------------------------------------------------------
(* Freed objects are found again                                           *)

(* When get_object() finds no slab with a free object on the list of the   *)
(* cache, all objects of the cache's slabs are in use.                     *)
LEMMA NoPartialMeansFull ==
  ASSUME SlabInv, NEW c \in Caches, \A q \in Pages : ~ FirstPartial(c, q),
         NEW p \in Slabs, slab_cache[p] = c
  PROVE  Slots(p, c) \subseteq InUse
<1>1. p \in Pages /\ flags[p] = "PG_slab"
  BY DEF Slabs
<1>2. PICK k \in DOMAIN partial[c] : partial[c][k] = p
  BY <1>1 DEF SlabInv, SlabsLinked
<1>3. partial[c] \in Seq(Pages)
  BY DEF SlabInv, SlabType
<1>4. ASSUME freelist[p] # NULL PROVE FALSE
  <2> DEFINE T == {j \in 1 .. Len(partial[c]) : freelist[partial[c][j]] # NULL}
  <2>1. k \in T /\ T \subseteq Nat
    BY <1>2, <1>3, <1>4
  <2>2. PICK j \in T : \A i \in T : j <= i
    BY <2>1, LeastElement
  <2>3. \A i \in 1 .. j - 1 : i \in 1 .. Len(partial[c]) /\ ~ (j <= i)
    BY <1>3, <2>2
  <2>4. \A i \in 1 .. j - 1 : freelist[partial[c][i]] = NULL
    BY <2>2, <2>3
  <2>5. partial[c][j] \in Pages
    BY <1>3, <2>2
  <2>6. FirstPartial(c, partial[c][j])
    BY <2>2, <2>4 DEF FirstPartial
  <2> QED
    BY <2>5, <2>6
<1>5. PICK m \in Nat : \E g \in [0 .. m -> Addresses \cup {NULL}] : Lists(g, m, p)
  BY <1>1 DEF SlabInv, ListsSound
<1>6. PICK g \in [0 .. m -> Addresses \cup {NULL}] : Lists(g, m, p)
  BY <1>5
<1>7. NULL \notin Addresses
  BY DEF NULL, Addresses
<1>8. m = 0
  <2> SUFFICES ASSUME m # 0 PROVE FALSE
    OBVIOUS
  <2>1. 0 \in 0 .. m - 1
    OBVIOUS
  <2>2. NULL \in FreeObjects(p)
    BY <1>4, <1>6, <2>1 DEF Lists
  <2> QED
    BY <1>1, <1>7, <2>2, SlotPlace DEF FreeObjects
<1>9. \A a \in FreeObjects(p) : \E i \in 0 .. m - 1 : g[i] = a
  BY <1>6 DEF Lists
<1>10. FreeObjects(p) = {}
  BY <1>8, <1>9
<1> QED
  BY <1>10 DEF FreeObjects

(* A page becomes a slab only when every slab of that cache is full.       *)
THEOREM FreedIsReused == Spec => ReusesFreed
<1> DEFINE A == \A c \in Caches : partial'[c] # partial[c] =>
                  \A p \in Slabs : slab_cache[p] = c =>
                    Slots(p, c) \subseteq {x[1] : x \in live}
<1>1. SlabInv /\ [Next]_vars => [A]_vars
  <2> SUFFICES ASSUME SlabInv, Next, NEW c \in Caches, partial'[c] # partial[c],
                      NEW p \in Slabs, slab_cache[p] = c
               PROVE  Slots(p, c) \subseteq InUse
    BY DEF InUse
  <2>1. PICK n \in Sizes : KmallocNewSlab(n)
    BY DEF Next, Kmalloc, KmallocPartial, KmallocBeyond, KmallocPages, KfreeObject, KfreePages
  <2>2. PICK d \in Caches, q \in Pages :
          (\A r \in Pages : ~ FirstPartial(d, r)) /\ LinkSlab(q, d)
    BY <2>1 DEF KmallocNewSlab
  <2>3. partial' = [partial EXCEPT ![d] = <<q>> \o @] /\ partial \in [Caches -> Seq(Pages)]
    BY <2>2 DEF LinkSlab, SlabInv, SlabType
  <2>4. c = d
    BY <2>3
  <2> QED
    BY <2>2, <2>4, NoPartialMeansFull
<1> QED
  BY <1>1, SlabInvariance, PTL DEF Spec, ReusesFreed

------------------------------------------------------------------------------
(* What kmalloc() promises                                                 *)

(* The shifts of kmalloc() lose no bit that matters: the block of the      *)
(* order it computes is as large as the request.  Not so for a request     *)
(* just above a multiple of the page size.                                 *)
SizesExact == \A n \in Sizes, o \in Orders : OrderOf(n, o) => n <= PageSize * Pow2[o]

(* Addresses and sizes are numbers.                                        *)
LEMMA Numbers == (\A a \in Addresses : a \in Nat) /\ (\A n \in Sizes : n \in Nat)
<1>1. NrPages * PageSize \in Int
  BY PageAssumption
<1> QED
  BY <1>1, SizeAssumption DEF Addresses

(* The bytes of an allocation lie in the block its page starts.            *)
LEMMA BytesInBlock ==
  ASSUME SlabInv, SizesExact, NEW x \in live, NEW a \in Promise!Bytes(x)
  PROVE  a \in Nat /\ a \div PageSize \in Pool!Span(<<PageOf(x), private[PageOf(x)]>>)
<1> DEFINE p == PageOf(x)
           o == private[p]
           S == Pow2[o]
<1>1. /\ p \in Pages /\ <<p, o>> \in blocks /\ (IsObject(x) \/ IsBlock(x))
      /\ x[1] \in Addresses /\ x[2] \in Sizes
  BY DEF SlabInv, LiveSound, SlabType
<1>2. /\ x[1] \in Nat /\ x[2] \in Nat /\ PageSize \in Nat \ {0} /\ p \in Nat
      /\ o \in Orders /\ S \in Nat \ {0}
  <2>1. o \in Orders
    BY <1>1 DEF SlabInv, SlabType
  <2>2. o \in 0 .. MaxOrder
    BY <2>1, PageAssumption DEF Orders
  <2>3. S \in Nat \ {0}
    BY <2>2, PageAssumption
  <2>4. x[1] \in Nat /\ x[2] \in Nat
    BY <1>1, Numbers
  <2>5. PageSize \in Nat \ {0} /\ p \in Nat
    BY <1>1, PageAssumption DEF Pages
  <2> QED
    BY <2>1, <2>3, <2>4, <2>5
<1>3. a \in Nat /\ x[1] <= a /\ a < x[1] + x[2]
  BY <1>2 DEF Promise!Bytes
<1>4. Pool!Span(<<p, o>>) = p .. (p + S - 1)
  BY DEF Pool!Span
<1>5. p * PageSize <= a /\ a < (p + S) * PageSize
  <2>1. CASE IsObject(x)
    <3> DEFINE c == slab_cache[p]
    <3>1. /\ flags[p] = "PG_slab" /\ x[1] \in Slots(p, c) /\ x[2] <= ObjectSize(c)
          /\ c \in Caches
      BY <1>1, <2>1 DEF IsObject, SlabInv, SlabType
    <3>2. /\ p * PageSize <= x[1] /\ x[1] + ObjectSize(c) <= p * PageSize + PageSize
          /\ ObjectSize(c) \in Nat
      BY <1>1, <3>1, SlotPlace, ObjectsFillPage
    <3>3. S = 1
      BY <1>1, <3>1, PageAssumption DEF SlabInv, SlabsLinked
    <3>4. (p + 1) * PageSize = p * PageSize + PageSize /\ p * PageSize \in Nat
      BY <1>2
    <3> HIDE DEF p, c, S
    <3> QED
      BY <1>2, <1>3, <3>1, <3>2, <3>3, <3>4
  <2>2. CASE IsBlock(x)
    <3>1. x[1] = p * PageSize /\ OrderOf(x[2], o)
      BY <2>2 DEF IsBlock
    <3>2. x[2] <= PageSize * S
      BY <1>1, <1>2, <3>1 DEF SizesExact
    <3> HIDE DEF p, o, S
    <3>3. (p + S) * PageSize = p * PageSize + PageSize * S /\ p * PageSize \in Nat
          /\ PageSize * S \in Nat
      BY <1>2
    <3> QED
      BY <1>2, <1>3, <3>1, <3>2, <3>3
  <2> QED
    BY <1>1, <2>1, <2>2
<1> HIDE DEF p, o, S
<1>6. a \div PageSize \in Nat /\ p <= a \div PageSize /\ a \div PageSize < p + S
  <2>1. p \in Int /\ p + S \in Int
    BY <1>2
  <2> QED
    BY <1>2, <1>3, <1>5, <2>1, Quotient
<1>7. PICK d \in Nat : d = a \div PageSize
  BY <1>6
<1>8. d \in p .. (p + S - 1)
  BY <1>2, <1>6, <1>7
<1> QED
  BY <1>3, <1>4, <1>7, <1>8 DEF p, o

(* Allocations consist of memory, and no two share a byte.                 *)
LEMMA BytesApart ==
  ASSUME SlabInv, SizesExact
  PROVE  /\ \A x \in live : Promise!Bytes(x) \subseteq Addresses
         /\ \A x, y \in live : x # y => Promise!Bytes(x) \cap Promise!Bytes(y) = {}
<1>1. ASSUME NEW x \in live, NEW a \in Promise!Bytes(x) PROVE a \in Addresses
  <2>1. a \in Nat /\ a \div PageSize \in Pool!Span(<<PageOf(x), private[PageOf(x)]>>)
    BY <1>1, BytesInBlock
  <2>2. a \div PageSize \in Pages
    BY <2>1 DEF SlabInv, BlocksApart, LiveSound
  <2>3. NrPages \in Int /\ PageSize \in Nat \ {0} /\ NrPages * PageSize \in Int
    BY PageAssumption
  <2>4. NrPages * PageSize <= a => NrPages <= a \div PageSize
    BY <2>1, <2>3, Quotient
  <2>5. PICK d \in Pages : d = a \div PageSize
    BY <2>2
  <2>6. d < NrPages /\ d \in Int
    BY <2>3 DEF Pages
  <2>7. ~ (NrPages * PageSize <= a)
    BY <2>3, <2>4, <2>5, <2>6
  <2> QED
    BY <2>1, <2>3, <2>7 DEF Addresses
<1>2. ASSUME NEW x \in live, NEW y \in live, x # y,
             NEW a \in Promise!Bytes(x), a \in Promise!Bytes(y)
      PROVE  FALSE
  <2> DEFINE p == PageOf(x)
             q == PageOf(y)
  <2>1. /\ p \in Pages /\ q \in Pages /\ <<p, private[p]>> \in blocks /\ <<q, private[q]>> \in blocks
        /\ x[1] \in Addresses /\ y[1] \in Addresses /\ x[2] \in Sizes /\ y[2] \in Sizes
    BY DEF SlabInv, LiveSound, SlabType
  <2>2. x[1] # y[1]
    BY <1>2 DEF SlabInv, LiveSound
  <2>3. CASE p # q
    <3>1. /\ a \div PageSize \in Pool!Span(<<p, private[p]>>)
          /\ a \div PageSize \in Pool!Span(<<q, private[q]>>)
      BY <1>2, BytesInBlock
    <3>2. <<p, private[p]>> # <<q, private[q]>>
      BY <2>3
    <3> QED
      BY <2>1, <3>1, <3>2 DEF SlabInv, BlocksApart
  <2>4. CASE p = q
    <3> DEFINE c == slab_cache[p]
    <3>1. /\ x[1] \in Slots(p, c) /\ x[2] <= ObjectSize(c)
          /\ y[1] \in Slots(p, c) /\ y[2] <= ObjectSize(c) /\ c \in Caches
      <4>1. \A z \in live : IsObject(z) \/ IsBlock(z)
        BY DEF SlabInv, LiveSound
      <4>2. IsObject(x) /\ IsObject(y)
        BY <2>2, <2>4, <4>1 DEF IsObject, IsBlock
      <4> QED
        BY <2>1, <2>4, <4>2 DEF IsObject, SlabInv, SlabType
    <3>2. /\ x[1] < y[1] => x[1] + ObjectSize(c) <= y[1]
          /\ y[1] < x[1] => y[1] + ObjectSize(c) <= x[1]
      BY <2>1, <3>1, SlotPlace
    <3>3. /\ x[1] \in Nat /\ y[1] \in Nat /\ x[2] \in Nat /\ y[2] \in Nat
          /\ ObjectSize(c) \in Nat
      BY <2>1, <3>1, Numbers, ObjectsFillPage
    <3>4. a \in Int /\ x[1] <= a /\ a < x[1] + x[2] /\ y[1] <= a /\ a < y[1] + y[2]
      BY <1>2, <3>3 DEF Promise!Bytes
    <3> HIDE DEF p, q, c
    <3> QED
      BY <2>2, <3>1, <3>2, <3>3, <3>4
  <2> QED
    BY <2>3, <2>4
<1> QED
  BY <1>1, <1>2

(* An address that kmalloc() returns is that of no other allocation.       *)
LEMMA ReturnsFresh ==
  ASSUME SlabInv, NEW n \in Sizes, KmallocPartial(n) \/ KmallocNewSlab(n) \/ KmallocPages(n)
  PROVE  \E a \in Addresses : <<a, n>> \notin live /\ live' = live \cup {<<a, n>>}
<1> USE DEF PageOf
<1>1. CASE KmallocPartial(n)
  <2>1. PICK c \in Caches, p \in Pages :
          FirstPartial(c, p) /\ live' = live \cup {<<freelist[p], n>>}
    BY <1>1 DEF KmallocPartial
  <2>2. PICK k \in 1 .. Len(partial[c]) : p = partial[c][k] /\ freelist[p] # NULL
    BY <2>1 DEF FirstPartial
  <2>3. flags[p] = "PG_slab" /\ slab_cache[p] = c
    <3>1. partial[c] \in Seq(Pages)
      BY DEF SlabInv, SlabType
    <3>2. k \in DOMAIN partial[c]
      BY <3>1
    <3> QED
      BY <2>2, <3>2 DEF SlabInv, SlabsLinked
  <2>4. PICK m \in Nat : \E g \in [0 .. m -> Addresses \cup {NULL}] : Lists(g, m, p)
    BY <2>3 DEF SlabInv, ListsSound
  <2>5. PICK g \in [0 .. m -> Addresses \cup {NULL}] : Lists(g, m, p)
    BY <2>4
  <2>6. g[0] = freelist[p] /\ g[m] = NULL /\ \A j \in 0 .. m - 1 : g[j] \in FreeObjects(p)
    BY <2>5 DEF Lists
  <2>7. 0 \in 0 .. m - 1
    BY <2>2, <2>6
  <2>8. freelist[p] \in FreeObjects(p)
    BY <2>6, <2>7
  <2>9. freelist[p] \in Addresses /\ freelist[p] \notin InUse
    BY <2>3, <2>8, SlotPlace DEF FreeObjects
  <2>10. <<freelist[p], n>> \notin live
    BY <2>9 DEF InUse
  <2> QED
    BY <2>1, <2>9, <2>10
<1>2. ASSUME NEW o \in Orders, NEW p \in Pages, Pool!Take(<<p, o>>),
             live' = live \cup {<<p * PageSize, n>>}
      PROVE  \E a \in Addresses : <<a, n>> \notin live /\ live' = live \cup {<<a, n>>}
  <2>1. \A y \in live : PageOf(y) # p
    BY <1>2, FreshBlock
  <2>2. 0 \in Caches
    BY CacheAssumption DEF Caches
  <2>3. p * PageSize \in Addresses /\ (p * PageSize) \div PageSize = p
    BY <2>2, SlotPlace
  <2>4. <<p * PageSize, n>> \notin live
    BY <2>1, <2>3
  <2> QED
    BY <1>2, <2>3, <2>4
<1>3. CASE KmallocNewSlab(n)
  <2>1. 0 \in Orders
    BY PageAssumption DEF Orders
  <2> QED
    BY <1>2, <1>3, <2>1 DEF KmallocNewSlab
<1>4. CASE KmallocPages(n)
  BY <1>2, <1>4 DEF KmallocPages
<1> QED
  BY <1>1, <1>3, <1>4

(* Every step of the allocator is a step of Heap, or none that Heap sees.  *)
LEMMA ImplementsStep ==
  ASSUME SlabInv, SlabInv', SizesExact, [Next]_vars
  PROVE  [Promise!Next]_live
<1>1. ASSUME NEW n \in Sizes, KmallocPartial(n) \/ KmallocNewSlab(n) \/ KmallocPages(n)
      PROVE  Promise!Next
  <2>1. PICK a \in Addresses : <<a, n>> \notin live /\ live' = live \cup {<<a, n>>}
    BY <1>1, ReturnsFresh
  <2>2. /\ \A x \in live' : Promise!Bytes(x) \subseteq Addresses
        /\ \A x, y \in live' : x # y => Promise!Bytes(x) \cap Promise!Bytes(y) = {}
    <3>1. SlabInv' /\ SizesExact'
      BY DEF SizesExact, OrderOf
    <3>2. (SlabInv /\ SizesExact =>
             /\ \A x \in live : Promise!Bytes(x) \subseteq Addresses
             /\ \A x, y \in live : x # y => Promise!Bytes(x) \cap Promise!Bytes(y) = {})'
      BY BytesApart, PTL
    <3> QED
      BY <3>1, <3>2 DEF Promise!Bytes
  <2>3. <<a, n>> \in live' /\ \A x \in live : x \in live' /\ x # <<a, n>>
    BY <2>1
  <2>4. Promise!Kmalloc(n)
    BY <2>1, <2>2, <2>3 DEF Promise!Kmalloc
  <2> QED
    BY <2>4 DEF Promise!Next
<1>2. ASSUME NEW x \in live, KfreeObject(x) \/ KfreePages(x) PROVE Promise!Next
  <2>1. live' = live \ {x}
    BY <1>2 DEF KfreeObject, KfreePages
  <2> QED
    BY <2>1 DEF Promise!Next, Promise!Kfree
<1>3. ASSUME NEW n \in Sizes, KmallocBeyond(n) PROVE UNCHANGED live
  BY <1>3 DEF KmallocBeyond
<1> QED
  BY <1>1, <1>2, <1>3 DEF Next, Kmalloc, vars

(* kmalloc() and kfree() implement Heap: as long as the size computation   *)
(* is exact for the sizes asked for, every allocation has the bytes it     *)
(* asked for to itself, for any sequence of calls and any page, object and *)
(* memory sizes.                                                           *)
THEOREM ImplementsHeap == SizesExact /\ Spec => KeepsPromise
<1>1. Init => Promise!Init
  BY DEF Init, Promise!Init
<1>2. SlabInv /\ SlabInv' /\ SizesExact /\ [Next]_vars => [Promise!Next]_live
  BY ImplementsStep
<1>3. ASSUME SizesExact PROVE Spec => KeepsPromise
  <2>1. SlabInv /\ SlabInv' /\ [Next]_vars => [Promise!Next]_live
    BY <1>2, <1>3
  <2> QED
    BY <1>1, <2>1, SlabInvariance, PTL DEF Spec, KeepsPromise, Promise!Spec
<1> QED
  BY <1>3
==============================================================================
