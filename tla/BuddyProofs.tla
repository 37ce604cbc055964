----------------------------- MODULE BuddyProofs -----------------------------
(***************************************************************************)
(* Proofs about Buddy, for any number of pages and orders and any reserved *)
(* regions.                                                                *)
(***************************************************************************)
EXTENDS Buddy, NatLemmas, TLAPS

------------------------------------------------------------------------------
(* The sizes of blocks                                                     *)

(* The block sizes and what 1 << order is for the orders in use.           *)
LEMMA Sizes ==
  /\ \A o \in 0 .. MaxOrder : Pow2[o] \in Nat \ {0}
  /\ \A o \in Orders : o \in 0 .. MaxOrder /\ Pow2[o + 1] = 2 * Pow2[o]
  /\ MaxOrder \in Nat \ {0} /\ NrPages \in Nat \ {0}
  /\ 0 \in Orders /\ Pow2[0] = 1
  /\ \A o \in Orders : o \in Nat /\ (o < MaxOrder - 1 => o + 1 \in Orders)
  /\ \A o \in Orders : o > 0 => o - 1 \in Orders /\ Pow2[o] = 2 * Pow2[o - 1]
<1>1. MaxOrder \in Nat \ {0} /\ NrPages \in Nat \ {0}
  BY OrderAssumption, PagesAssumption
<1>2. \A o \in 0 .. MaxOrder : Pow2[o] \in Nat \ {0}
  BY Pow2Assumption
<1>3. \A o \in Orders : o \in 0 .. MaxOrder /\ Pow2[o + 1] = 2 * Pow2[o]
  BY <1>1, Pow2Assumption DEF Orders
<1>4. ASSUME NEW o \in Orders, o > 0
      PROVE  o - 1 \in Orders /\ Pow2[o] = 2 * Pow2[o - 1]
  <2>1. o - 1 \in Orders /\ (o - 1) + 1 = o
    BY <1>1, <1>4 DEF Orders
  <2>2. Pow2[(o - 1) + 1] = 2 * Pow2[o - 1]
    BY <1>3, <2>1
  <2> QED
    BY <2>1, <2>2
<1> QED
  BY <1>1, <1>2, <1>3, <1>4, Pow2Assumption DEF Orders

(* The size of a block divides the size of every larger one.               *)
LEMMA SizesDivide ==
  ASSUME NEW a \in 0 .. MaxOrder, NEW b \in 0 .. MaxOrder, a <= b
  PROVE  Pow2[b] % Pow2[a] = 0
<1>1. /\ MaxOrder \in Nat /\ \A k \in 0 .. MaxOrder : Pow2[k] \in Nat \ {0}
      /\ \A k \in 0 .. MaxOrder - 1 : Pow2[k + 1] = 2 * Pow2[k]
  BY Sizes, Pow2Assumption DEF Orders
<1> QED
  BY <1>1, DoublesDivide

------------------------------------------------------------------------------
(* Blocks                                                                  *)

(* The page q is in the block b.                                           *)
In(q, b) == b[1] <= q /\ q < b[1] + Pow2[b[2]]

(* A block starts at a multiple of its size and ends inside mem_map.       *)
Fits(b) == b[1] % Pow2[b[2]] = 0 /\ b[1] + Pow2[b[2]] <= NrPages

(* The extent of a block that fits is made of pages.                       *)
LEMMA ExtentIsIn ==
  ASSUME NEW b \in Pages \X Orders, Fits(b)
  PROVE  /\ Extent(b) = {q \in Pages : In(q, b)}
         /\ In(b[1], b)
<1>1. b[1] \in Nat /\ Pow2[b[2]] \in Nat \ {0} /\ NrPages \in Nat
  BY Sizes DEF Pages
<1>2. b[1] + Pow2[b[2]] <= NrPages
  BY DEF Fits
<1>3. ASSUME NEW q \in Extent(b) PROVE q \in Pages /\ In(q, b)
  BY <1>1, <1>2, <1>3 DEF Extent, Pages, In
<1>4. ASSUME NEW q \in Pages, In(q, b) PROVE q \in Extent(b)
  BY <1>1, <1>2, <1>4 DEF Extent, Pages, In
<1>5. In(b[1], b)
  BY <1>1 DEF In
<1> QED
  BY <1>3, <1>4, <1>5

(* expand(): the halves of a block are blocks, and the upper one is the    *)
(* buddy of the lower one.                                                 *)
LEMMA Halves ==
  ASSUME NEW p \in Pages, NEW o \in Orders, NEW l \in Orders, o = l + 1,
         Fits(<<p, o>>), NEW u, u = p + Pow2[l]
  PROVE  /\ u \in Pages
         /\ Fits(<<p, l>>) /\ Fits(<<u, l>>)
         /\ \A q \in Pages : In(q, <<p, o>>) <=> (In(q, <<p, l>>) \/ In(q, <<u, l>>))
         /\ \A q \in Pages : ~ (In(q, <<p, l>>) /\ In(q, <<u, l>>))
         /\ FindBuddyPfn(u, l) = p /\ FindBuddyPfn(p, l) = u
         /\ \A q \in Pages : In(q, <<p, o>>) /\ q % Pow2[l] = 0 => q = p \/ q = u
<1> DEFINE A == Pow2[l]
           D == Pow2[o]
<1>1. /\ A \in Nat \ {0} /\ D \in Nat \ {0} /\ D = 2 * A
      /\ NrPages \in Nat /\ p \in Nat
  BY Sizes DEF Pages, Orders
<1>2. p % D = 0 /\ p + D <= NrPages
  BY DEF Fits
<1>3. D % A = 0
  <2>1. l \in 0 .. MaxOrder /\ o \in 0 .. MaxOrder /\ l <= o
    BY Sizes
  <2> QED
    BY <2>1, SizesDivide
<1> HIDE DEF A, D
<1>4. p \in Int /\ p % A = 0
  <2>1. p \in Int
    BY <1>1
  <2> QED
    BY <1>1, <1>2, <1>3, <2>1, MultipleTrans
<1>5. A \in Int /\ A % A = 0
  <2>1. A = 1 * A /\ A \in Int
    BY <1>1
  <2> QED
    BY <1>1, <2>1, Multiple
<1>6. u \in Nat /\ u = p + A /\ u + A = p + D
  BY <1>1 DEF A
<1>7. u % A = 0
  <2>1. (p + A) % A = 0
    BY <1>1, <1>4, <1>5, Multiples
  <2> QED
    BY <1>6, <2>1
<1>8. u \in Pages
  BY <1>1, <1>2, <1>6 DEF Pages
<1>9. u % D # 0
  <2> SUFFICES ASSUME u % D = 0 PROVE FALSE
    OBVIOUS
  <2>1. p < u /\ u \in Int /\ p \in Int
    BY <1>1, <1>6
  <2>2. p < u => p + D <= u
    BY <1>1, <1>2, <2>1, Multiples
  <2> QED
    BY <1>1, <1>6, <2>1, <2>2
<1>10. Fits(<<p, l>>) /\ Fits(<<u, l>>)
  BY <1>1, <1>2, <1>4, <1>6, <1>7 DEF Fits, A
<1>11. \A q \in Pages :
         /\ In(q, <<p, o>>) <=> p <= q /\ q < p + D
         /\ In(q, <<p, l>>) <=> p <= q /\ q < p + A
         /\ In(q, <<u, l>>) <=> u <= q /\ q < u + A
         /\ q \in Int
  BY DEF In, A, D, Pages
<1>12. /\ \A q \in Pages : In(q, <<p, o>>) <=> (In(q, <<p, l>>) \/ In(q, <<u, l>>))
       /\ \A q \in Pages : ~ (In(q, <<p, l>>) /\ In(q, <<u, l>>))
  BY <1>1, <1>6, <1>11
<1>13. FindBuddyPfn(u, l) = p /\ FindBuddyPfn(p, l) = u
  <2>1. Pow2[l + 1] = D /\ Pow2[l] = A
    BY <1>1 DEF A, D
  <2> QED
    BY <1>1, <1>2, <1>6, <1>9, <2>1 DEF FindBuddyPfn
<1>14. ASSUME NEW q \in Pages, In(q, <<p, o>>), q % A = 0 PROVE q = p \/ q = u
  <2>1. q \in Int /\ p <= q /\ q < p + D
    BY <1>11, <1>14
  <2>2. p < q => p + A <= q
    BY <1>1, <1>4, <1>14, <2>1, Multiples
  <2>3. u < q => u + A <= q
    <3>1. u \in Int
      BY <1>6
    <3> QED
      BY <1>1, <1>7, <1>14, <2>1, <3>1, Multiples
  <2> QED
    BY <1>1, <1>6, <2>1, <2>2, <2>3
<1> QED
  BY <1>1, <1>8, <1>10, <1>12, <1>13, <1>14 DEF A

(* __free_one_page(): a block and its buddy are the halves of the block    *)
(* they are merged to, and each is the other's buddy.                      *)
LEMMA Buddies ==
  ASSUME NEW p \in Pages, NEW o \in Orders, o < MaxOrder - 1, Fits(<<p, o>>),
         NEW b, b = FindBuddyPfn(p, o), NEW m, m = CombinedPfn(p, b)
  PROVE  /\ b \in Pages /\ b # p /\ m \in Pages /\ o + 1 \in Orders
         /\ Fits(<<b, o>>) /\ Fits(<<m, o + 1>>)
         /\ FindBuddyPfn(b, o) = p
         /\ m = p \/ m = b
         /\ \A q \in Pages : In(q, <<m, o + 1>>) <=> (In(q, <<p, o>>) \/ In(q, <<b, o>>))
<1> DEFINE A == Pow2[o]
           D == Pow2[o + 1]
<1>1. /\ o + 1 \in Orders /\ A \in Nat \ {0} /\ D \in Nat \ {0} /\ D = 2 * A
      /\ NrPages \in Nat /\ p \in Nat /\ p < NrPages /\ o + 1 - 1 = o /\ o + 1 > 0
  BY Sizes DEF Pages, Orders
<1>2. p % A = 0 /\ p + A <= NrPages
  BY DEF Fits
<1>3. NrPages % D = 0
  <2>1. /\ o + 1 \in 0 .. MaxOrder /\ MaxOrder - 1 \in 0 .. MaxOrder
        /\ o + 1 <= MaxOrder - 1
    BY <1>1, Sizes DEF Orders
  <2>2. Pow2[MaxOrder - 1] % D = 0 /\ Pow2[MaxOrder - 1] \in Nat \ {0}
    BY <2>1, SizesDivide, Sizes
  <2>3. NrPages % Pow2[MaxOrder - 1] = 0
    BY PagesAssumption
  <2> HIDE DEF D
  <2>4. NrPages \in Int
    BY <1>1
  <2> QED
    BY <1>1, <2>2, <2>3, <2>4, MultipleTrans
<1>4. /\ p % D = 0 => b = p + A
      /\ p % D # 0 => b = p - A
  BY DEF FindBuddyPfn
<1>5. ASSUME p % D = 0, D = 2 * A
      PROVE  Fits(<<p, o + 1>>) /\ b = p + A /\ m = p
  <2>1. p + D <= NrPages
    <3> HIDE DEF D
    <3>1. NrPages \in Int /\ p \in Int
      BY <1>1
    <3> QED
      BY <1>1, <1>3, <1>5, <3>1, Multiples
  <2>2. b = p + A /\ ~ (b < p)
    BY <1>1, <1>4, <1>5
  <2>3. m = p
    BY <2>2 DEF CombinedPfn
  <2>4. Fits(<<p, o + 1>>)
    BY <1>5, <2>1 DEF Fits
  <2> QED
    BY <2>2, <2>3, <2>4
<1>6. ASSUME p % D # 0
      PROVE  Fits(<<b, o + 1>>) /\ b \in Pages /\ p = b + A /\ m = b
  <2> HIDE DEF A, D
  <2>0. p \in Int /\ p % A = 0
    BY <1>1, <1>2 DEF A
  <2>1. PICK k \in Int : p = k * A
    BY <1>1, <2>0, Multiple
  <2>2. PICK h \in Int : k = 2 * h \/ k = 2 * h + 1
    <3>1. (k \div 2) \in Int /\ (k = 2 * (k \div 2) \/ k = 2 * (k \div 2) + 1)
      OBVIOUS
    <3> QED
      BY <3>1
  <2>3. k # 2 * h
    <3> SUFFICES ASSUME k = 2 * h PROVE FALSE
      OBVIOUS
    <3>0. (2 * h) * A = h * (2 * A)
      BY <1>1
    <3>1. p = h * D
      BY <1>1, <2>1, <3>0
    <3>2. p \in Int
      BY <1>1
    <3> QED
      BY <1>1, <1>6, <3>1, <3>2, Multiple
  <2>4. p - A = h * D
    <3>1. p = (2 * h + 1) * A
      BY <2>1, <2>2, <2>3
    <3>2. (2 * h + 1) * A = h * (2 * A) + A
      BY <1>1
    <3> QED
      BY <1>1, <3>1, <3>2
  <2>5. p - A \in Int /\ (p - A) % D = 0
    <3>1. p - A \in Int
      BY <1>1
    <3> QED
      BY <1>1, <2>4, <3>1, Multiple
  <2>6. p - A >= 0
    <3>1. ~ (h <= -1)
      <4> SUFFICES ASSUME h <= -1 PROVE FALSE
        OBVIOUS
      <4>1. h * D <= (-1) * D
        BY <1>1
      <4> QED
        BY <1>1, <2>4, <4>1
    <3>2. h * D >= 0
      BY <1>1, <3>1
    <3> QED
      BY <2>4, <3>2
  <2>7. b = p - A
    BY <1>4, <1>6
  <2>8. b \in Pages /\ b + D <= NrPages /\ b < p
    BY <1>1, <1>2, <2>5, <2>6, <2>7 DEF Pages
  <2>9. m = b
    BY <2>8 DEF CombinedPfn
  <2>10. Fits(<<b, o + 1>>)
    BY <2>5, <2>7, <2>8 DEF Fits, D
  <2> QED
    BY <1>1, <2>7, <2>8, <2>9, <2>10
<1>7. CASE p % D = 0
  <2>1. PICK n : n = o + 1
    OBVIOUS
  <2>2. /\ n \in Orders /\ Fits(<<p, n>>)
        /\ b = p + Pow2[o] /\ m = p /\ b # p
    BY <1>1, <1>5, <1>7, <2>1
  <2> HIDE DEF D, A
  <2>3. /\ b \in Pages
        /\ Fits(<<p, o>>) /\ Fits(<<b, o>>)
        /\ FindBuddyPfn(b, o) = p
        /\ \A q \in Pages : In(q, <<p, n>>) <=>
              (In(q, <<p, o>>) \/ In(q, <<b, o>>))
    BY <2>1, <2>2, Halves
  <2> QED
    BY <2>1, <2>2, <2>3, Zenon
<1>8. CASE p % D # 0
  <2>1. PICK n : n = o + 1
    OBVIOUS
  <2>2. /\ b \in Pages /\ n \in Orders /\ Fits(<<b, n>>)
        /\ p = b + Pow2[o] /\ m = b
    BY <1>1, <1>6, <1>8, <2>1
  <2>3. b # p
    BY <1>1, <2>2, Sizes
  <2> HIDE DEF D, A
  <2>4. /\ Fits(<<b, o>>) /\ Fits(<<p, o>>)
        /\ FindBuddyPfn(b, o) = p
        /\ \A q \in Pages : In(q, <<b, n>>) <=>
              (In(q, <<b, o>>) \/ In(q, <<p, o>>))
    BY <2>1, <2>2, Halves
  <2> QED
    BY <2>1, <2>2, <2>3, <2>4, Zenon
<1> QED
  BY <1>7, <1>8

(* A block of a higher order that contains a page of a block and its buddy *)
(* contains both.                                                          *)
LEMMA Nested ==
  ASSUME NEW m \in Pages, NEW o \in Orders, Fits(<<m, o>>),
         NEW c \in Pages \X Orders, Fits(c), o <= c[2],
         NEW q \in Pages, In(q, <<m, o>>), In(q, c),
         NEW r \in Pages, In(r, <<m, o>>)
  PROVE  In(r, c)
<1> DEFINE D == Pow2[o]
           C == Pow2[c[2]]
           h == c[1]
<1>1. /\ D \in Nat \ {0} /\ C \in Nat \ {0} /\ h \in Int /\ m \in Int
      /\ q \in Int /\ r \in Int /\ C \in Int
  BY Sizes DEF Pages
<1>2. C % D = 0
  <2>1. o \in 0 .. MaxOrder /\ c[2] \in 0 .. MaxOrder
    BY Sizes
  <2> QED
    BY <2>1, SizesDivide
<1>3. /\ m % D = 0 /\ h % C = 0
      /\ m <= q /\ q < m + D /\ h <= q /\ q < h + C /\ m <= r /\ r < m + D
  BY DEF Fits, In
<1>4. In(r, c) <=> h <= r /\ r < h + C
  BY DEF In
<1> HIDE DEF D, C, h
<1>5. h % D = 0
  BY <1>1, <1>2, <1>3, MultipleTrans
<1>6. (h + C) % D = 0 /\ h + C \in Int
  <2>1. (h + C) % D = 0
    BY <1>1, <1>2, <1>5, Multiples
  <2> QED
    BY <1>1, <2>1
<1>7. m < h => m + D <= h
  BY <1>1, <1>3, <1>5, Multiples
<1>8. m < h + C => m + D <= h + C
  BY <1>1, <1>3, <1>6, Multiples
<1> QED
  BY <1>1, <1>3, <1>4, <1>7, <1>8

------------------------------------------------------------------------------
(* The inductive invariant                                                 *)

(* The blocks of B fit, share no page, and make up exactly the pages below *)
(* n that are not reserved.                                                *)
Partition(B, n) ==
  /\ B \subseteq Pages \X Orders
  /\ \A b \in B : Fits(b)
  /\ \A a, b \in B : \A q \in Pages : In(q, a) /\ In(q, b) => a = b
  /\ \A q \in Pages :
       (q \notin Reserved /\ q < n) <=> \E b \in B : In(q, b)

(* RAM under mem_map holds no value that page_frame_init() would take for  *)
(* a mark of its own.                                                      *)
RamClean == \A s \in StalePages : s.flags \notin {"PG_buddy", "PG_RESERVED"}

BuddyType ==
  /\ flags \in [Pages -> Flags]
  /\ private \in [Pages -> 0 .. MaxOrder]
  /\ free_list \in [Orders -> SUBSET Pages]
  /\ pc \in {"boot", "merge", "idle", "scan", "expand"}
  /\ i \in 0 .. NrPages
  /\ page \in Pages
  /\ order \in 0 .. MaxOrder
  /\ low \in Orders
  /\ held \subseteq Pages \X Orders

(* Where the loops are.                                                    *)
LoopsInRange ==
  /\ pc \in {"merge", "expand"} => order \in Orders
  /\ pc = "boot" => i < NrPages
  /\ pc = "expand" => low <= order
  /\ pc = "scan" => /\ low <= order
                    /\ \A o \in Orders : low <= o /\ o < order => free_list[o] = {}

(* A block is held, on a list or in the hands of a loop.                   *)
RolesApart ==
  /\ held \cap FreeBlocks = {}
  /\ InFlight \cap (held \cup FreeBlocks) = {}

(* The first page of a block says what the block is.                       *)
HeadsMarked ==
  /\ \A o \in Orders : \A p \in free_list[o] :
       flags[p] = "PG_buddy" /\ private[p] = o
  /\ \A b \in held : flags[b[1]] = "PG_USED" /\ private[b[1]] = b[2]

(* The page q, inside a block of order o, that still reads PG_buddy was    *)
(* the head of a smaller block.                                            *)
Smaller(q, o) ==
  flags[q] = "PG_buddy" => private[q] < o /\ q % Pow2[private[q]] = 0

(* What merged and split blocks leave behind in struct page.               *)
StaleMarks ==
  /\ \A c \in Blocks : \A q \in Pages :
       In(q, c) /\ q # c[1] => Smaller(q, c[2])
  /\ pc = "merge" => Smaller(page, order)

(* Pages outside all blocks.                                               *)
OutsideMarked ==
  /\ \A q \in Reserved : flags[q] = "PG_RESERVED"
  /\ \A q \in Pages \ Reserved :
       q >= i => flags[q] \notin {"PG_buddy", "PG_RESERVED"}

(* No two buddies are free, whatever is running.                           *)
NoFreePair ==
  \A o \in 0 .. MaxOrder - 2 : \A p \in free_list[o] :
    FindBuddyPfn(p, o) \notin free_list[o]

BuddyInv ==
  /\ BuddyType
  /\ LoopsInRange
  /\ Partition(Blocks, i)
  /\ RolesApart
  /\ HeadsMarked
  /\ StaleMarks
  /\ OutsideMarked
  /\ NoFreePair

------------------------------------------------------------------------------
(* What the loops do to the partition                                      *)

(* BootFree: the next page becomes a block of order 0.                     *)
LEMMA AddKeepsPartition ==
  ASSUME NEW B, NEW n \in Pages, Partition(B, n), n \notin Reserved,
         NEW x, x = <<n, 0>>
  PROVE  Partition(B \cup {x}, n + 1)
<1>1. /\ x \in Pages \X Orders /\ n \in Nat /\ n < NrPages /\ NrPages \in Nat
      /\ Pow2[0] = 1 /\ x[1] = n /\ x[2] = 0
  BY Sizes DEF Pages
<1>2. Fits(x)
  <2>1. n = n * 1 /\ n \in Int /\ 1 \in Nat \ {0}
    BY <1>1
  <2>2. n % 1 = 0
    BY <2>1, Multiple
  <2> QED
    BY <1>1, <2>2 DEF Fits
<1>3. \A q \in Pages : In(q, x) <=> q = n
  BY <1>1 DEF In, Pages
<1>4. \A b \in B : ~ In(n, b)
  <2>1. ~ (n < n)
    BY <1>1
  <2> QED
    BY <2>1 DEF Partition
<1>5. ASSUME NEW a \in B \cup {x}, NEW b \in B \cup {x}, NEW q \in Pages,
             In(q, a), In(q, b)
      PROVE  a = b
  <2>1. CASE a \in B /\ b \in B
    BY <1>5, <2>1 DEF Partition
  <2>2. CASE a = x \/ b = x
    <3>1. q = n
      BY <1>3, <1>5, <2>2
    <3> QED
      BY <1>4, <1>5, <3>1
  <2> QED
    BY <2>1, <2>2
<1>6. ASSUME NEW q \in Pages
      PROVE  (q \notin Reserved /\ q < n + 1) <=> \E b \in B \cup {x} : In(q, b)
  <2>1. q < n + 1 <=> q < n \/ q = n
    BY <1>1 DEF Pages
  <2>2. (\E b \in B \cup {x} : In(q, b)) <=> (\E b \in B : In(q, b)) \/ q = n
    BY <1>3
  <2>3. (q \notin Reserved /\ q < n) <=> \E b \in B : In(q, b)
    BY DEF Partition
  <2> QED
    BY <2>1, <2>2, <2>3
<1>7. /\ \A b \in B \cup {x} : Fits(b)
      /\ B \cup {x} \subseteq Pages \X Orders
  BY <1>1, <1>2 DEF Partition
<1> QED
  BY <1>5, <1>6, <1>7 DEF Partition

(* A block that is made of other blocks, or other blocks that make up a    *)
(* block, in its place: the partition stays one.                           *)
LEMMA ReplaceKeepsPartition ==
  ASSUME NEW B, NEW n, Partition(B, n),
         NEW X, X \subseteq B,
         NEW Y, Y \subseteq Pages \X Orders, \A b \in Y : Fits(b),
         \A a, b \in Y : \A q \in Pages : In(q, a) /\ In(q, b) => a = b,
         \A q \in Pages : (\E b \in X : In(q, b)) <=> (\E b \in Y : In(q, b))
  PROVE  Partition((B \ X) \cup Y, n)
<1>1. ASSUME NEW a \in B \ X, NEW b \in Y, NEW q \in Pages, In(q, a), In(q, b)
      PROVE  FALSE
  <2>1. PICK c \in X : In(q, c)
    BY <1>1
  <2>2. c = a
    BY <1>1, <2>1 DEF Partition
  <2> QED
    BY <1>1, <2>1, <2>2
<1>2. ASSUME NEW a \in (B \ X) \cup Y, NEW b \in (B \ X) \cup Y,
             NEW q \in Pages, In(q, a), In(q, b)
      PROVE  a = b
  <2>1. CASE a \in B \ X /\ b \in B \ X
    BY <1>2, <2>1 DEF Partition
  <2>2. CASE a \in Y /\ b \in Y
    BY <1>2, <2>2
  <2> QED
    BY <1>1, <1>2, <2>1, <2>2
<1>3. ASSUME NEW q \in Pages
      PROVE  (\E b \in B : In(q, b)) <=> (\E b \in (B \ X) \cup Y : In(q, b))
  OBVIOUS
<1>4. /\ (B \ X) \cup Y \subseteq Pages \X Orders
      /\ \A b \in (B \ X) \cup Y : Fits(b)
  BY DEF Partition
<1> QED
  BY <1>2, <1>3, <1>4 DEF Partition

(* MergeStep: the two halves become the block.                             *)
LEMMA MergeKeepsPartition ==
  ASSUME NEW B, NEW n, Partition(B, n),
         NEW p \in Pages, NEW o \in Orders, o < MaxOrder - 1,
         NEW b, b = FindBuddyPfn(p, o), NEW m, m = CombinedPfn(p, b),
         <<p, o>> \in B, <<b, o>> \in B
  PROVE  Partition((B \ {<<p, o>>, <<b, o>>}) \cup {<<m, o + 1>>}, n)
<1>1. Fits(<<p, o>>)
  BY DEF Partition
<1>2. /\ m \in Pages /\ o + 1 \in Orders /\ Fits(<<m, o + 1>>)
      /\ \A q \in Pages : In(q, <<m, o + 1>>) <=> (In(q, <<p, o>>) \/ In(q, <<b, o>>))
  BY <1>1, Buddies
<1> DEFINE X == {<<p, o>>, <<b, o>>}
           Y == {<<m, o + 1>>}
<1>3. /\ X \subseteq B /\ Y \subseteq Pages \X Orders
      /\ \A c \in Y : Fits(c)
      /\ \A a, c \in Y : \A q \in Pages : In(q, a) /\ In(q, c) => a = c
  <2>1. X \subseteq B /\ Y \subseteq Pages \X Orders
    BY <1>2
  <2>2. \A c \in Y : Fits(c)
    BY <1>2, Zenon
  <2>3. \A a, c \in Y : \A q \in Pages : In(q, a) /\ In(q, c) => a = c
    BY <1>2, Zenon
  <2> QED
    BY <2>1, <2>2, <2>3
<1>4. \A q \in Pages : (\E c \in X : In(q, c)) <=> (\E c \in Y : In(q, c))
  BY <1>2, Zenon
<1> HIDE DEF X, Y
<1>5. Partition((B \ X) \cup Y, n)
  BY <1>3, <1>4, ReplaceKeepsPartition
<1> QED
  BY <1>5 DEF X, Y

(* ExpandStep: the block becomes its two halves.                           *)
LEMMA SplitKeepsPartition ==
  ASSUME NEW B, NEW n, Partition(B, n),
         NEW p \in Pages, NEW o \in Orders, NEW l \in Orders, o = l + 1,
         NEW u, u = p + Pow2[l], <<p, o>> \in B
  PROVE  Partition((B \ {<<p, o>>}) \cup {<<p, l>>, <<u, l>>}, n)
<1>1. Fits(<<p, o>>)
  BY DEF Partition
<1>2. /\ u \in Pages /\ Fits(<<p, l>>) /\ Fits(<<u, l>>)
      /\ \A q \in Pages : In(q, <<p, o>>) <=> (In(q, <<p, l>>) \/ In(q, <<u, l>>))
      /\ \A q \in Pages : ~ (In(q, <<p, l>>) /\ In(q, <<u, l>>))
  BY <1>1, Halves, SMTT(30)
<1> DEFINE X == {<<p, o>>}
           Y == {<<p, l>>, <<u, l>>}
<1>3. /\ X \subseteq B /\ Y \subseteq Pages \X Orders
      /\ \A c \in Y : Fits(c)
      /\ \A a, c \in Y : \A q \in Pages : In(q, a) /\ In(q, c) => a = c
  <2>1. X \subseteq B /\ Y \subseteq Pages \X Orders
    BY <1>2
  <2>2. \A c \in Y : Fits(c)
    BY <1>2, Zenon
  <2>3. \A a, c \in Y : \A q \in Pages : In(q, a) /\ In(q, c) => a = c
    BY <1>2, Zenon
  <2> QED
    BY <2>1, <2>2, <2>3
<1>4. \A q \in Pages : (\E c \in X : In(q, c)) <=> (\E c \in Y : In(q, c))
  BY <1>2, Zenon
<1> HIDE DEF X, Y
<1>5. Partition((B \ X) \cup Y, n)
  BY <1>3, <1>4, ReplaceKeepsPartition
<1> QED
  BY <1>5 DEF X, Y

(* The blocks on the free lists after del_page_from_free_area() and        *)
(* add_to_free_area().                                                     *)
LEMMA FreeBlocksChange ==
  ASSUME free_list \in [Orders -> SUBSET Pages], NEW p \in Pages, NEW o \in Orders
  PROVE  /\ free_list' = [free_list EXCEPT ![o] = @ \ {p}]
              => FreeBlocks' = FreeBlocks \ {<<p, o>>}
         /\ free_list' = [free_list EXCEPT ![o] = @ \cup {p}]
              => FreeBlocks' = FreeBlocks \cup {<<p, o>>}
         /\ free_list' = free_list => FreeBlocks' = FreeBlocks
<1>1. ASSUME free_list' = [free_list EXCEPT ![o] = @ \ {p}]
      PROVE  FreeBlocks' = FreeBlocks \ {<<p, o>>}
  BY <1>1 DEF FreeBlocks
<1>2. ASSUME free_list' = [free_list EXCEPT ![o] = @ \cup {p}]
      PROVE  FreeBlocks' = FreeBlocks \cup {<<p, o>>}
  BY <1>2 DEF FreeBlocks
<1> QED
  BY <1>1, <1>2 DEF FreeBlocks

------------------------------------------------------------------------------
(* Every operation keeps the invariant                                     *)

(* The first page of a block is in it, is not reserved, was booted, and is *)
(* the first page of no other block.                                       *)
LEMMA Heads ==
  ASSUME BuddyInv
  PROVE  /\ \A b \in Blocks :
              /\ b \in Pages \X Orders /\ Fits(b) /\ In(b[1], b)
              /\ b[1] \notin Reserved /\ b[1] < i
         /\ \A b \in Blocks : \A q \in Pages : In(q, b) => q \notin Reserved /\ q < i
         /\ \A a, b \in Blocks : a[1] = b[1] => a = b
<1>1. Partition(Blocks, i)
  BY DEF BuddyInv
<1>2. ASSUME NEW b \in Blocks
      PROVE  b \in Pages \X Orders /\ Fits(b) /\ In(b[1], b)
  <2>1. b \in Pages \X Orders /\ Fits(b)
    BY <1>1 DEF Partition
  <2> QED
    BY <2>1, ExtentIsIn
<1>3. ASSUME NEW b \in Blocks, NEW q \in Pages, In(q, b)
      PROVE  q \notin Reserved /\ q < i
  BY <1>1, <1>3 DEF Partition
<1>4. ASSUME NEW a \in Blocks, NEW b \in Blocks, a[1] = b[1] PROVE a = b
  <2>1. a[1] \in Pages /\ In(a[1], a) /\ In(a[1], b)
    BY <1>2, <1>4
  <2> QED
    BY <1>1, <2>1 DEF Partition
<1>5. ASSUME NEW b \in Blocks PROVE b[1] \in Pages
  BY <1>2
<1> QED
  BY <1>2, <1>3, <1>4, <1>5

(* Steps that move no block: the scan of __rmqueue_smallest(), its start   *)
(* and its failure.                                                        *)
LEMMA QuietInv ==
  ASSUME BuddyInv, pc \in {"boot", "idle", "scan"},
         pc' \in {"boot", "idle", "scan"},
         UNCHANGED <<flags, private, free_list, i, held>>,
         BuddyType', LoopsInRange'
  PROVE  BuddyInv'
<1>1. InFlight = {} /\ InFlight' = {}
  BY DEF InFlight
<1>2. FreeBlocks' = FreeBlocks
  BY DEF FreeBlocks
<1>3. Blocks' = Blocks
  BY <1>1, <1>2 DEF Blocks
<1>4. Partition(Blocks, i)'
  BY <1>3 DEF BuddyInv, Partition, Fits, In
<1>5. RolesApart'
  BY <1>1, <1>2 DEF BuddyInv, RolesApart
<1>6. HeadsMarked'
  BY DEF BuddyInv, HeadsMarked
<1>7. StaleMarks'
  BY <1>3 DEF BuddyInv, StaleMarks, Smaller, In
<1>8. OutsideMarked'
  BY DEF BuddyInv, OutsideMarked
<1>9. NoFreePair'
  BY DEF BuddyInv, NoFreePair, FindBuddyPfn
<1> QED
  BY <1>4, <1>5, <1>6, <1>7, <1>8, <1>9 DEF BuddyInv

(* __alloc_pages() begins to scan at the order asked for.                  *)
LEMMA AllocPagesInv ==
  ASSUME BuddyInv, NEW o \in Orders, AllocPages(o)
  PROVE  BuddyInv'
<1>1. BuddyType'
  BY Sizes DEF AllocPages, BuddyInv, BuddyType
<1>2. LoopsInRange'
  BY Sizes DEF AllocPages, LoopsInRange
<1> QED
  BY <1>1, <1>2, QuietInv DEF AllocPages

(* The lists scanned so far are empty, the one just looked at included.    *)
LEMMA ScanNextInv ==
  ASSUME BuddyInv, ScanNext
  PROVE  BuddyInv'
<1>0. MaxOrder \in Nat /\ order \in Nat /\ order < MaxOrder /\ low \in Nat
  BY Sizes DEF ScanNext, BuddyInv, BuddyType
<1>1. BuddyType'
  BY <1>0 DEF ScanNext, BuddyInv, BuddyType
<1>2. LoopsInRange'
  <2>1. low <= order /\ \A o \in Orders : low <= o /\ o < order => free_list[o] = {}
    BY DEF ScanNext, BuddyInv, LoopsInRange
  <2>2. \A o \in Orders : o < order + 1 => o < order \/ o = order
    BY <1>0 DEF Orders
  <2>3. \A o \in Orders : low <= o /\ o < order + 1 => free_list[o] = {}
    BY <2>1, <2>2 DEF ScanNext
  <2>4. pc' = "scan" /\ order' = order + 1 /\ low' = low /\ free_list' = free_list
    BY DEF ScanNext
  <2> QED
    BY <1>0, <2>1, <2>3, <2>4 DEF LoopsInRange
<1> QED
  BY <1>1, <1>2, QuietInv DEF ScanNext

(* __rmqueue_smallest() returns NULL.                                      *)
LEMMA ScanFailInv ==
  ASSUME BuddyInv, ScanFail
  PROVE  BuddyInv'
<1>1. BuddyType'
  BY Sizes, SMTT(30) DEF ScanFail, Return, BuddyInv, BuddyType, Pages
<1>2. LoopsInRange'
  BY DEF ScanFail, LoopsInRange
<1> QED
  BY <1>1, <1>2, QuietInv DEF ScanFail

(* page_frame_init() skips a page: it is reserved, since no other page     *)
(* reads PG_RESERVED when RAM is clean.                                    *)
LEMMA BootSkipInv ==
  ASSUME BuddyInv, BootSkip
  PROVE  BuddyInv'
<1>0. /\ i \in Nat /\ i < NrPages /\ NrPages \in Nat /\ i \in Pages
      /\ flags[i] = "PG_RESERVED" /\ i' = i + 1
  BY Sizes DEF BootSkip, BuddyInv, BuddyType, LoopsInRange, Pages
<1>1. i \in Reserved
  <2>1. i >= i
    BY <1>0
  <2> QED
    BY <1>0, <2>1 DEF BuddyInv, OutsideMarked
<1>2. pc = "boot" /\ UNCHANGED <<flags, private, free_list, page, order, low, held>>
  BY DEF BootSkip
<1>3. /\ i + 1 < NrPages => pc' = "boot"
      /\ ~ (i + 1 < NrPages) => pc' = "idle"
  BY DEF BootSkip, AfterPage
<1>4. BuddyType'
  BY <1>0, <1>2, <1>3 DEF BuddyInv, BuddyType
<1>5. LoopsInRange'
  BY <1>0, <1>3 DEF LoopsInRange
<1>6. InFlight = {} /\ InFlight' = {}
  BY <1>2, <1>3 DEF InFlight
<1>7. FreeBlocks' = FreeBlocks
  BY <1>2 DEF FreeBlocks
<1>8. Blocks' = Blocks
  BY <1>2, <1>6, <1>7 DEF Blocks
<1>9. Partition(Blocks, i + 1)
  <2>1. Partition(Blocks, i)
    BY DEF BuddyInv
  <2>2. \A q \in Pages : (q \notin Reserved /\ q < i + 1) <=> (q \notin Reserved /\ q < i)
    BY <1>0, <1>1 DEF Pages
  <2> QED
    BY <2>1, <2>2 DEF Partition
<1>10. Partition(Blocks, i)'
  BY <1>0, <1>8, <1>9 DEF Partition, Fits, In
<1>11. RolesApart'
  BY <1>2, <1>6, <1>7 DEF BuddyInv, RolesApart
<1>12. HeadsMarked'
  BY <1>2 DEF BuddyInv, HeadsMarked
<1>13. StaleMarks'
  BY <1>2, <1>3, <1>8 DEF BuddyInv, StaleMarks, Smaller, In
<1>14. OutsideMarked'
  <2>1. \A q \in Pages : q >= i + 1 => q >= i
    BY <1>0 DEF Pages
  <2> QED
    BY <1>0, <1>2, <2>1 DEF BuddyInv, OutsideMarked
<1>15. NoFreePair'
  BY <1>2 DEF BuddyInv, NoFreePair, FindBuddyPfn
<1> QED
  BY <1>4, <1>5, <1>10, <1>11, <1>12, <1>13, <1>14, <1>15 DEF BuddyInv

(* page_frame_init() takes a page: it was in no block, and is now the      *)
(* block of order 0 in the hands of __free_one_page().                     *)
LEMMA BootFreeInv ==
  ASSUME BuddyInv, BootFree
  PROVE  BuddyInv'
<1>0. /\ i \in Nat /\ i < NrPages /\ NrPages \in Nat /\ i \in Pages
      /\ flags[i] # "PG_RESERVED" /\ i' = i + 1 /\ ~ (i < i)
  BY Sizes DEF BootFree, BuddyInv, BuddyType, LoopsInRange, Pages
<1>1. i \notin Reserved
  BY <1>0 DEF BuddyInv, OutsideMarked
<1>2. /\ pc = "boot" /\ pc' = "merge" /\ page' = i /\ order' = 0
      /\ flags' = [flags EXCEPT ![i] = "PG_AVAIL"]
      /\ UNCHANGED <<private, free_list, low, held>>
  BY DEF BootFree
<1>3. flags \in [Pages -> Flags]
  BY DEF BuddyInv, BuddyType
<1>4. BuddyType'
  BY <1>0, <1>2, Sizes DEF BuddyInv, BuddyType, Flags
<1>5. LoopsInRange'
  BY <1>2, Sizes DEF LoopsInRange
<1> DEFINE x == <<i, 0>>
<1>6. InFlight = {} /\ InFlight' = {x}
  BY <1>2 DEF InFlight
<1>7. FreeBlocks' = FreeBlocks
  BY <1>2 DEF FreeBlocks
<1>8. Blocks' = Blocks \cup {x}
  BY <1>2, <1>6, <1>7 DEF Blocks
<1>9. x[1] = i /\ x[2] = 0
  OBVIOUS
<1> HIDE DEF x
<1>10. x \notin Blocks
  BY <1>0, <1>9, Heads
<1>11. Partition(Blocks \cup {x}, i + 1)
  <2>1. Partition(Blocks, i)
    BY DEF BuddyInv
  <2> QED
    BY <1>0, <1>1, <2>1, AddKeepsPartition DEF x
<1>12. Partition(Blocks, i)'
  BY <1>0, <1>8, <1>11 DEF Partition, Fits, In
<1>13. RolesApart'
  <2>1. held \cap FreeBlocks = {}
    BY DEF BuddyInv, RolesApart
  <2>2. x \notin held \cup FreeBlocks
    BY <1>10 DEF Blocks
  <2> QED
    BY <1>2, <1>6, <1>7, <2>1, <2>2 DEF RolesApart
<1>14. \A q \in Pages : q # i => flags'[q] = flags[q]
  BY <1>2, <1>3
<1>15. HeadsMarked'
  <2>1. ASSUME NEW o \in Orders, NEW p \in free_list[o]
        PROVE  flags'[p] = "PG_buddy" /\ private[p] = o
    <3>1. p \in Pages
      BY DEF BuddyInv, BuddyType
    <3>2. <<p, o>> \in Blocks
      BY <3>1 DEF Blocks, FreeBlocks
    <3>3. <<p, o>>[1] < i
      BY <3>2, Heads
    <3>4. p # i
      BY <1>0, <3>3
    <3> QED
      BY <1>14, <3>1, <3>4 DEF BuddyInv, HeadsMarked
  <2>2. ASSUME NEW b \in held
        PROVE  flags'[b[1]] = "PG_USED" /\ private[b[1]] = b[2]
    <3>1. b \in Blocks
      BY DEF Blocks
    <3>2. b[1] \in Pages /\ b[1] < i
      BY <3>1, Heads
    <3>3. b[1] # i
      BY <1>0, <3>2
    <3> QED
      BY <1>14, <3>2, <3>3 DEF BuddyInv, HeadsMarked
  <2> QED
    BY <1>2, <2>1, <2>2 DEF HeadsMarked
<1>16. StaleMarks'
  <2>1. ASSUME NEW c \in Blocks \cup {x}, NEW q \in Pages, In(q, c), q # c[1]
        PROVE  Smaller(q, c[2])'
    <3>1. c # x
      <4>1. In(q, x) => q = i
        BY <1>0, <1>9, Sizes DEF In, Pages
      <4> QED
        BY <1>9, <2>1, <4>1
    <3>2. c \in Blocks /\ q < i
      BY <2>1, <3>1, Heads
    <3>3. flags'[q] = flags[q] /\ private'[q] = private[q]
      BY <1>0, <1>2, <1>14, <3>2
    <3>4. Smaller(q, c[2])
      BY <2>1, <3>2 DEF BuddyInv, StaleMarks
    <3> QED
      BY <3>3, <3>4 DEF Smaller
  <2>2. flags'[page'] # "PG_buddy"
    BY <1>0, <1>2, <1>3
  <2>3. Smaller(page, order)'
    BY <2>2 DEF Smaller
  <2> QED
    BY <1>8, <2>1, <2>3 DEF StaleMarks, In, Smaller
<1>17. OutsideMarked'
  <2>1. \A q \in Pages : q >= i + 1 => q >= i /\ q # i
    BY <1>0 DEF Pages
  <2>2. \A q \in Reserved : q \in Pages /\ q # i
    BY <1>1 DEF Reserved
  <2> QED
    BY <1>0, <1>14, <2>1, <2>2 DEF BuddyInv, OutsideMarked
<1>18. NoFreePair'
  BY <1>2 DEF BuddyInv, NoFreePair, FindBuddyPfn
<1> QED
  BY <1>4, <1>5, <1>12, <1>13, <1>15, <1>16, <1>17, <1>18 DEF BuddyInv

(* The check of page_is_buddy(): a page that passes it as the buddy of the *)
(* block being merged is the head of a free block of the same order.  Were *)
(* it a stale mark inside a block, that block would be larger and contain  *)
(* the block being merged as well.                                         *)
LEMMA BuddyIsFree ==
  ASSUME BuddyInv, pc = "merge", order < MaxOrder - 1,
         NEW b, b = FindBuddyPfn(page, order), PageIsBuddy(b, order)
  PROVE  b \in Pages /\ b \in free_list[order]
<1>0. page \in Pages /\ order \in Orders /\ <<page, order>> \in Blocks
  BY DEF BuddyInv, BuddyType, LoopsInRange, Blocks, InFlight
<1>1. Fits(<<page, order>>)
  BY <1>0, Heads
<1> DEFINE m == CombinedPfn(page, b)
<1>2. PICK n : n = order + 1
  OBVIOUS
<1>3. /\ b \in Pages /\ b # page /\ m \in Pages /\ n \in Orders
      /\ Fits(<<b, order>>) /\ Fits(<<m, n>>)
      /\ \A q \in Pages : In(q, <<m, n>>) <=> (In(q, <<page, order>>) \/ In(q, <<b, order>>))
  BY <1>0, <1>1, <1>2, Buddies
<1>4. flags[b] = "PG_buddy" /\ private[b] = order
  BY DEF PageIsBuddy
<1>5. b \notin Reserved /\ b < i
  <2>1. b \notin Reserved
    BY <1>4 DEF BuddyInv, OutsideMarked
  <2>2. ~ (b >= i)
    BY <1>3, <1>4, <2>1 DEF BuddyInv, OutsideMarked
  <2>3. b \in Int /\ i \in Int
    BY <1>3 DEF BuddyInv, BuddyType, Pages
  <2> QED
    BY <2>1, <2>2, <2>3
<1>6. PICK c \in Blocks : In(b, c)
  BY <1>3, <1>5 DEF BuddyInv, Partition
<1>7. c \in Pages \X Orders /\ Fits(c)
  BY Heads
<1>8. b = c[1]
  <2> SUFFICES ASSUME b # c[1] PROVE FALSE
    OBVIOUS
  <2>1. order < c[2]
    BY <1>3, <1>4, <1>6 DEF BuddyInv, StaleMarks, Smaller
  <2>2. n <= c[2]
    BY <1>0, <1>2, <1>7, <2>1 DEF Orders
  <2>3. In(b, <<b, order>>) /\ In(page, <<page, order>>)
    BY <1>0, <1>1, <1>3, Sizes DEF In, Pages
  <2>4. In(b, <<m, n>>) /\ In(page, <<m, n>>)
    BY <1>0, <1>3, <2>3
  <2> HIDE DEF m
  <2>5. In(page, c)
    BY <1>0, <1>3, <1>6, <1>7, <2>2, <2>4, Nested
  <2>6. c = <<page, order>>
    BY <1>0, <2>3, <2>5 DEF BuddyInv, Partition
  <2> QED
    BY <1>0, <2>1, <2>6 DEF Orders
<1>9. c \notin held
  BY <1>4, <1>8 DEF BuddyInv, HeadsMarked
<1>10. c \notin InFlight
  BY <1>3, <1>8 DEF InFlight
<1>11. c \in FreeBlocks
  BY <1>9, <1>10 DEF Blocks
<1>12. b \in free_list[c[2]] /\ c[2] \in Orders
  BY <1>7, <1>8, <1>11 DEF FreeBlocks
<1>13. private[b] = c[2]
  BY <1>12 DEF BuddyInv, HeadsMarked
<1> QED
  BY <1>3, <1>4, <1>12, <1>13

(* One turn of the loop of __free_one_page(): the block and its free buddy *)
(* become one block, and what their first pages say is stale from now on.  *)
LEMMA MergeStepInv ==
  ASSUME BuddyInv, MergeStep
  PROVE  BuddyInv'
<1> DEFINE b == FindBuddyPfn(page, order)
           m == CombinedPfn(page, b)
           pp == <<page, order>>
           bb == <<b, order>>
<1>0. /\ page \in Pages /\ order \in Orders /\ order < MaxOrder - 1
      /\ pc = "merge" /\ PageIsBuddy(b, order)
  BY DEF BuddyInv, BuddyType, LoopsInRange, MergeStep
<1>1. /\ free_list' = [free_list EXCEPT ![order] = @ \ {b}]
      /\ page' = m /\ order' = order + 1
      /\ UNCHANGED <<flags, private, pc, i, low, held>>
  BY DEF MergeStep, DelPageFromFreeArea
<1>2. PICK n : n = order + 1
  OBVIOUS
<1> DEFINE mm == <<m, n>>
<1>3. b \in Pages /\ b \in free_list[order]
  BY <1>0, BuddyIsFree
<1>4. pp \in Blocks /\ pp \in InFlight /\ bb \in FreeBlocks /\ bb \in Blocks
  BY <1>0, <1>3 DEF Blocks, InFlight, FreeBlocks
<1>5. Fits(pp)
  BY <1>4, Heads
<1>6. /\ b # page /\ m \in Pages /\ n \in Orders
      /\ Fits(bb) /\ Fits(mm) /\ (m = page \/ m = b)
      /\ \A q \in Pages : In(q, mm) <=> (In(q, pp) \/ In(q, bb))
  BY <1>0, <1>2, <1>5, Buddies
<1>7. free_list \in [Orders -> SUBSET Pages]
  BY DEF BuddyInv, BuddyType
<1>8. Partition((Blocks \ {pp, bb}) \cup {mm}, i)
  <2>1. Partition(Blocks, i)
    BY DEF BuddyInv
  <2>2. Partition((Blocks \ {pp, bb}) \cup {<<m, order + 1>>}, i)
    BY <1>0, <1>4, <2>1, MergeKeepsPartition
  <2> QED
    BY <1>2, <2>2
<1>9. FreeBlocks' = FreeBlocks \ {bb}
  BY <1>0, <1>1, <1>3, <1>7, FreeBlocksChange
<1>10. InFlight = {pp} /\ InFlight' = {mm}
  BY <1>0, <1>1, <1>2 DEF InFlight
<1>11. pp[1] = page /\ pp[2] = order /\ bb[1] = b /\ bb[2] = order /\ mm[1] = m /\ mm[2] = n
  OBVIOUS
<1>12. order \in Nat /\ n \in Nat /\ order < n
  BY <1>0, <1>2 DEF Orders
<1> HIDE DEF b, m, pp, bb, mm
<1>13. pp # bb /\ pp # mm /\ bb # mm
  BY <1>6, <1>11, <1>12
<1>14. Blocks' = (Blocks \ {pp, bb}) \cup {mm}
  <2>1. pp \notin held /\ pp \notin FreeBlocks /\ bb \notin held
    BY <1>4 DEF BuddyInv, RolesApart
  <2>2. held' = held
    BY <1>1
  <2> QED
    BY <1>9, <1>10, <1>13, <2>1, <2>2 DEF Blocks
<1>15. mm \notin Blocks
  <2>1. m = pp[1] \/ m = bb[1]
    BY <1>6, <1>11
  <2>2. \A x \in Blocks : (x[1] = pp[1] => x = pp) /\ (x[1] = bb[1] => x = bb)
    BY <1>4, Heads
  <2> QED
    BY <1>11, <1>13, <2>1, <2>2, Zenon
<1>16. BuddyType'
  <2>1. free_list' \in [Orders -> SUBSET Pages]
    BY <1>0, <1>1, <1>7
  <2>2. order' \in 0 .. MaxOrder /\ page' \in Pages
    BY <1>1, <1>2, <1>6, Sizes
  <2> QED
    BY <1>1, <2>1, <2>2 DEF BuddyInv, BuddyType
<1>17. LoopsInRange'
  BY <1>0, <1>1, <1>2, <1>6 DEF LoopsInRange
<1>18. Partition(Blocks, i)'
  BY <1>1, <1>8, <1>14 DEF Partition, Fits, In
<1>19. RolesApart'
  <2>1. held \cap FreeBlocks = {}
    BY DEF BuddyInv, RolesApart
  <2>2. mm \notin held \cup FreeBlocks
    BY <1>15 DEF Blocks
  <2> QED
    BY <1>1, <1>9, <1>10, <2>1, <2>2 DEF RolesApart
<1>20. \A o \in Orders : free_list'[o] \subseteq free_list[o]
  BY <1>0, <1>1, <1>7
<1>21. HeadsMarked'
  BY <1>1, <1>20 DEF BuddyInv, HeadsMarked
<1>22. Smaller(page, order) /\ Smaller(b, n)
  <2>1. Smaller(page, order)
    BY <1>0 DEF BuddyInv, StaleMarks
  <2>2. private[b] = order
    BY <1>0, <1>3 DEF BuddyInv, HeadsMarked
  <2>3. b % Pow2[order] = 0
    BY <1>6, <1>11 DEF Fits
  <2> QED
    BY <1>12, <2>1, <2>2, <2>3 DEF Smaller
<1>23. \A q \in Pages : Smaller(q, order) => Smaller(q, n)
  <2>1. \A q \in Pages : private[q] \in Nat
    BY DEF BuddyInv, BuddyType
  <2> QED
    BY <1>12, <2>1 DEF Smaller
<1>24. \A q \in Pages : In(q, mm) => Smaller(q, n)
  <2>1. ASSUME NEW q \in Pages, In(q, pp), q # page PROVE Smaller(q, order)
    BY <1>4, <1>11, <2>1 DEF BuddyInv, StaleMarks
  <2>2. ASSUME NEW q \in Pages, In(q, bb), q # b PROVE Smaller(q, order)
    BY <1>4, <1>11, <2>2 DEF BuddyInv, StaleMarks
  <2> QED
    BY <1>6, <1>22, <1>23, <2>1, <2>2
<1>25. In(m, mm)
  BY <1>11, <1>6, Sizes DEF In, Pages
<1>26. StaleMarks'
  <2>1. ASSUME NEW c \in Blocks', NEW q \in Pages, In(q, c), q # c[1]
        PROVE  Smaller(q, c[2])
    <3>1. CASE c = mm
      BY <1>11, <1>24, <2>1, <3>1
    <3>2. CASE c \in Blocks
      BY <2>1, <3>2 DEF BuddyInv, StaleMarks
    <3> QED
      BY <1>14, <3>1, <3>2
  <2>2. Smaller(page', order')
    BY <1>1, <1>2, <1>6, <1>24, <1>25
  <2> QED
    BY <1>1, <2>1, <2>2 DEF StaleMarks, Smaller, In
<1>27. OutsideMarked'
  BY <1>1 DEF BuddyInv, OutsideMarked
<1>28. NoFreePair'
  <2>1. \A o \in 0 .. MaxOrder - 2 : o \in Orders
    BY Sizes DEF Orders
  <2> QED
    BY <1>20, <2>1 DEF BuddyInv, NoFreePair, FindBuddyPfn
<1> QED
  BY <1>16, <1>17, <1>18, <1>19, <1>21, <1>26, <1>27, <1>28 DEF BuddyInv

(* The end of __free_one_page(): the block goes on its list.  Its buddy    *)
(* failed page_is_buddy(), so it is not on the same list.                  *)
LEMMA MergeDoneInv ==
  ASSUME BuddyInv, MergeDone
  PROVE  BuddyInv'
<1> DEFINE pp == <<page, order>>
<1>0. /\ page \in Pages /\ order \in Orders /\ pc = "merge"
      /\ order < MaxOrder - 1 => ~ PageIsBuddy(FindBuddyPfn(page, order), order)
  BY DEF BuddyInv, BuddyType, LoopsInRange, MergeDone
<1>1. /\ free_list' = [free_list EXCEPT ![order] = @ \cup {page}]
      /\ flags' = [flags EXCEPT ![page] = "PG_buddy"]
      /\ private' = [private EXCEPT ![page] = order]
      /\ page' = 0 /\ order' = 0 /\ low' = 0
      /\ i' = i /\ held' = held
      /\ i < NrPages => pc' = "boot"
      /\ ~ (i < NrPages) => pc' = "idle"
  BY DEF MergeDone, SetBuddyOrder, AddToFreeArea, Return, AfterPage
<1>2. /\ free_list \in [Orders -> SUBSET Pages] /\ flags \in [Pages -> Flags]
      /\ private \in [Pages -> 0 .. MaxOrder]
  BY DEF BuddyInv, BuddyType
<1>3. InFlight = {pp} /\ InFlight' = {} /\ pc' \in {"boot", "idle"}
  BY <1>0, <1>1 DEF InFlight
<1>4. FreeBlocks' = FreeBlocks \cup {pp}
  BY <1>0, <1>1, <1>2, FreeBlocksChange
<1>5. Blocks' = Blocks
  BY <1>1, <1>3, <1>4 DEF Blocks
<1>6. pp \in Blocks /\ pp[1] = page /\ pp[2] = order
  BY <1>3 DEF Blocks
<1> HIDE DEF pp
<1>7. pp \notin held /\ pp \notin FreeBlocks
  BY <1>3 DEF BuddyInv, RolesApart
<1>8. BuddyType'
  <2>1. free_list' \in [Orders -> SUBSET Pages]
    BY <1>0, <1>1, <1>2
  <2>2. flags' \in [Pages -> Flags]
    BY <1>0, <1>1, <1>2 DEF Flags
  <2>3. order \in 0 .. MaxOrder /\ 0 \in Pages /\ 0 \in Orders /\ 0 \in 0 .. MaxOrder
    BY <1>0, Sizes DEF Pages
  <2>4. private' \in [Pages -> 0 .. MaxOrder]
    BY <1>0, <1>1, <1>2, <2>3
  <2> QED
    BY <1>1, <1>3, <2>1, <2>2, <2>3, <2>4 DEF BuddyInv, BuddyType
<1>9. LoopsInRange'
  BY <1>1, <1>3 DEF LoopsInRange
<1>10. Partition(Blocks, i)'
  BY <1>1, <1>5 DEF BuddyInv, Partition, Fits, In
<1>11. RolesApart'
  BY <1>1, <1>3, <1>4, <1>7 DEF BuddyInv, RolesApart
<1>12. \A q \in Pages : q # page => flags'[q] = flags[q] /\ private'[q] = private[q]
  BY <1>1, <1>2
<1>13. flags'[page] = "PG_buddy" /\ private'[page] = order
  BY <1>0, <1>1, <1>2
<1>14. HeadsMarked'
  <2>1. ASSUME NEW o \in Orders, NEW p \in free_list'[o]
        PROVE  flags'[p] = "PG_buddy" /\ private'[p] = o
    <3>1. CASE p \in free_list[o]
      <4>1. p \in Pages /\ <<p, o>> \in FreeBlocks /\ <<p, o>> \in Blocks
        BY <1>2, <3>1 DEF FreeBlocks, Blocks
      <4>2. <<p, o>>[1] # page
        BY <1>6, <1>7, <4>1, Heads
      <4>3. p # page
        BY <4>2
      <4> QED
        BY <1>12, <3>1, <4>1, <4>3 DEF BuddyInv, HeadsMarked
    <3>2. CASE p \notin free_list[o]
      <4>1. p = page /\ o = order
        BY <1>0, <1>1, <1>2, <2>1, <3>2
      <4> QED
        BY <1>13, <4>1
    <3> QED
      BY <3>1, <3>2
  <2>2. ASSUME NEW b \in held
        PROVE  flags'[b[1]] = "PG_USED" /\ private'[b[1]] = b[2]
    <3>1. b \in Blocks
      BY DEF Blocks
    <3>2. b[1] \in Pages /\ b[1] # page
      BY <1>6, <1>7, <3>1, Heads
    <3> QED
      BY <1>12, <3>2 DEF BuddyInv, HeadsMarked
  <2> QED
    BY <1>1, <2>1, <2>2 DEF HeadsMarked
<1>15. StaleMarks'
  <2>1. ASSUME NEW c \in Blocks, NEW q \in Pages, In(q, c), q # c[1]
        PROVE  Smaller(q, c[2])'
    <3>1. q # page
      <4> SUFFICES ASSUME q = page PROVE FALSE
        OBVIOUS
      <4>1. In(page, pp)
        BY <1>6, Heads
      <4>2. c = pp
        BY <1>6, <2>1, <4>1 DEF BuddyInv, Partition
      <4> QED
        BY <1>6, <2>1, <4>2
    <3>2. Smaller(q, c[2])
      BY <2>1 DEF BuddyInv, StaleMarks
    <3> QED
      BY <1>12, <3>1, <3>2 DEF Smaller
  <2> QED
    BY <1>3, <1>5, <2>1 DEF StaleMarks, In, Smaller
<1>16. OutsideMarked'
  <2>1. page \notin Reserved /\ page < i
    BY <1>6, Heads
  <2>2. \A q \in Pages : q >= i => q # page
    BY <2>1 DEF BuddyInv, BuddyType, Pages
  <2>3. \A q \in Reserved : q \in Pages /\ q # page
    BY <2>1 DEF Reserved
  <2> QED
    BY <1>1, <1>12, <2>2, <2>3 DEF BuddyInv, OutsideMarked
<1>17. NoFreePair'
  <2> SUFFICES ASSUME NEW o \in 0 .. MaxOrder - 2, NEW p \in free_list'[o],
                      FindBuddyPfn(p, o) \in free_list'[o]
               PROVE  FALSE
    BY DEF NoFreePair, FindBuddyPfn
  <2> DEFINE f == FindBuddyPfn(p, o)
  <2>1. o \in Orders /\ o < MaxOrder - 1
    BY Sizes DEF Orders
  <2>2. ~ (p \in free_list[o] /\ f \in free_list[o])
    BY DEF BuddyInv, NoFreePair
  <2>3. o = order /\ (p = page \/ f = page)
    BY <1>0, <1>1, <1>2, <2>1, <2>2
  <2>4. p \in Pages /\ Fits(<<p, o>>)
    <3>1. CASE p = page
      BY <1>0, <1>6, <2>3, <3>1, Heads DEF pp
    <3>2. CASE p # page
      <4>1. p \in free_list[o] /\ p \in Pages
        BY <1>0, <1>1, <1>2, <2>1, <3>2
      <4>2. <<p, o>> \in Blocks
        BY <2>1, <4>1 DEF FreeBlocks, Blocks
      <4> QED
        BY <4>1, <4>2, Heads
    <3> QED
      BY <3>1, <3>2
  <2>5. f # p /\ FindBuddyPfn(f, o) = p
    BY <2>1, <2>4, Buddies
  <2> HIDE DEF f
  <2>6. CASE p = page
    <3>1. f \in free_list[order]
      BY <1>0, <1>1, <1>2, <2>1, <2>3, <2>5, <2>6 DEF f
    <3>2. PageIsBuddy(f, order)
      BY <1>0, <3>1 DEF BuddyInv, HeadsMarked, PageIsBuddy
    <3> QED
      BY <1>0, <2>1, <2>3, <2>6, <3>2 DEF f
  <2>7. CASE f = page
    <3>1. p \in free_list[order]
      BY <1>0, <1>1, <1>2, <2>1, <2>3, <2>5, <2>7
    <3>2. PageIsBuddy(p, order)
      BY <1>0, <3>1 DEF BuddyInv, HeadsMarked, PageIsBuddy
    <3> QED
      BY <1>0, <2>1, <2>3, <2>5, <2>7, <3>2
  <2> QED
    BY <2>3, <2>6, <2>7
<1> QED
  BY <1>8, <1>9, <1>10, <1>11, <1>14, <1>15, <1>16, <1>17 DEF BuddyInv

(* get_page_from_free_area() and del_page_from_free_area(): a free block   *)
(* comes into the hands of expand().                                       *)
LEMMA ScanTakeInv ==
  ASSUME BuddyInv, ScanTake
  PROVE  BuddyInv'
<1>0. PICK p \in free_list[order] :
        /\ free_list' = [free_list EXCEPT ![order] = @ \ {p}]
        /\ page' = p
  BY DEF ScanTake, DelPageFromFreeArea
<1>1. /\ pc = "scan" /\ order < MaxOrder /\ pc' = "expand"
      /\ UNCHANGED <<flags, private, i, order, low, held>>
  BY DEF ScanTake
<1>2. /\ free_list \in [Orders -> SUBSET Pages] /\ order \in Orders /\ p \in Pages
  <2>1. order \in Orders
    BY <1>1, Sizes DEF BuddyInv, BuddyType, Orders
  <2> QED
    BY <2>1 DEF BuddyInv, BuddyType
<1> DEFINE x == <<p, order>>
<1>3. x \in FreeBlocks
  BY <1>2 DEF FreeBlocks
<1>4. FreeBlocks' = FreeBlocks \ {x}
  BY <1>0, <1>2, FreeBlocksChange
<1>5. InFlight = {} /\ InFlight' = {x}
  BY <1>0, <1>1 DEF InFlight
<1> HIDE DEF x
<1>6. Blocks' = Blocks
  BY <1>1, <1>3, <1>4, <1>5 DEF Blocks
<1>7. BuddyType'
  <2>1. free_list' \in [Orders -> SUBSET Pages]
    BY <1>0, <1>2
  <2> QED
    BY <1>0, <1>1, <1>2, <2>1 DEF BuddyInv, BuddyType
<1>8. LoopsInRange'
  BY <1>1, <1>2 DEF BuddyInv, LoopsInRange
<1>9. Partition(Blocks, i)'
  BY <1>1, <1>6 DEF BuddyInv, Partition, Fits, In
<1>10. RolesApart'
  BY <1>1, <1>3, <1>4, <1>5 DEF BuddyInv, RolesApart
<1>11. \A o \in Orders : free_list'[o] \subseteq free_list[o]
  BY <1>0, <1>2
<1>12. HeadsMarked'
  BY <1>1, <1>11 DEF BuddyInv, HeadsMarked
<1>13. StaleMarks'
  BY <1>1, <1>6 DEF BuddyInv, StaleMarks, Smaller, In
<1>14. OutsideMarked'
  BY <1>1 DEF BuddyInv, OutsideMarked
<1>15. NoFreePair'
  <2>1. \A o \in 0 .. MaxOrder - 2 : o \in Orders
    BY Sizes DEF Orders
  <2> QED
    BY <1>11, <2>1 DEF BuddyInv, NoFreePair, FindBuddyPfn
<1> QED
  BY <1>7, <1>8, <1>9, <1>10, <1>12, <1>13, <1>14, <1>15 DEF BuddyInv

(* One turn of the loop of expand(): the upper half goes on its list, the  *)
(* lower half stays in hand.  A stale mark inside either half is that of a *)
(* block smaller than the half, because a head of that size is one of the  *)
(* two first pages.                                                        *)
LEMMA ExpandStepInv ==
  ASSUME BuddyInv, ExpandStep
  PROVE  BuddyInv'
<1>0. PICK l, u : l = order - 1 /\ u = page + Pow2[l]
  OBVIOUS
<1> DEFINE pp == <<page, order>>
           lo == <<page, l>>
           hi == <<u, l>>
<1>1. /\ page \in Pages /\ order \in Orders /\ pc = "expand" /\ low < order
      /\ low \in Nat /\ order \in Nat
  BY Sizes DEF BuddyInv, BuddyType, LoopsInRange, ExpandStep
<1>2. /\ free_list' = [free_list EXCEPT ![l] = @ \cup {u}]
      /\ flags' = [flags EXCEPT ![u] = "PG_buddy"]
      /\ private' = [private EXCEPT ![u] = l]
      /\ order' = l /\ UNCHANGED <<pc, i, page, low, held>>
  BY <1>0 DEF ExpandStep, SetBuddyOrder, AddToFreeArea
<1>3. /\ free_list \in [Orders -> SUBSET Pages] /\ flags \in [Pages -> Flags]
      /\ private \in [Pages -> 0 .. MaxOrder]
  BY DEF BuddyInv, BuddyType
<1>4. l \in Orders /\ order = l + 1 /\ l \in Nat /\ low <= l /\ l < order /\ l < MaxOrder - 1
  BY <1>0, <1>1, Sizes DEF Orders
<1>5. InFlight = {pp} /\ InFlight' = {lo}
  BY <1>1, <1>2 DEF InFlight
<1>6. pp \in Blocks
  BY <1>5 DEF Blocks
<1>7. Fits(pp) /\ In(page, pp)
  BY <1>6, Heads
<1>8. /\ u \in Pages
      /\ Fits(lo) /\ Fits(hi)
      /\ \A q \in Pages : In(q, pp) <=> (In(q, lo) \/ In(q, hi))
      /\ \A q \in Pages : ~ (In(q, lo) /\ In(q, hi))
      /\ FindBuddyPfn(u, l) = page /\ FindBuddyPfn(page, l) = u
      /\ \A q \in Pages : In(q, pp) /\ q % Pow2[l] = 0 => q = page \/ q = u
  <2>1. /\ page \in Pages /\ order \in Orders /\ l \in Orders /\ order = l + 1
        /\ Fits(<<page, order>>) /\ u = page + Pow2[l]
    BY <1>0, <1>1, <1>4, <1>7
  <2>2. /\ u \in Pages
        /\ Fits(lo) /\ Fits(hi)
        /\ FindBuddyPfn(u, l) = page /\ FindBuddyPfn(page, l) = u
    BY <2>1, Halves
  <2>3. \A q \in Pages : In(q, pp) <=> (In(q, lo) \/ In(q, hi))
    BY <2>1, Halves
  <2>4. \A q \in Pages : ~ (In(q, lo) /\ In(q, hi))
    BY <2>1, Halves
  <2>5. ASSUME NEW q \in Pages, In(q, <<page, order>>), q % Pow2[l] = 0
        PROVE  q = page \/ q = u
    <3>1. q \in Int /\ Pow2[l] \in Nat \ {0}
      BY <2>1, Sizes DEF Pages
    <3> QED
      BY <2>1, <2>5, <3>1, Halves
  <2> QED
    BY <2>2, <2>3, <2>4, <2>5
<1>9. FreeBlocks' = FreeBlocks \cup {hi}
  BY <1>2, <1>3, <1>4, <1>8, FreeBlocksChange
<1>10. Partition((Blocks \ {pp}) \cup {lo, hi}, i)
  <2>1. Partition(Blocks, i)
    BY DEF BuddyInv
  <2> QED
    BY <1>0, <1>1, <1>4, <1>6, <2>1, SplitKeepsPartition
<1>11. /\ pp[1] = page /\ pp[2] = order /\ lo[1] = page /\ lo[2] = l
       /\ hi[1] = u /\ hi[2] = l
  OBVIOUS
<1>12. /\ lo \in Pages \X Orders /\ hi \in Pages \X Orders
  BY <1>1, <1>4, <1>8
<1>13. In(page, lo) /\ In(u, hi) /\ In(u, pp)
  <2>1. In(lo[1], lo) /\ In(hi[1], hi)
    BY <1>8, <1>12, ExtentIsIn
  <2> QED
    BY <1>8, <1>11, <2>1
<1> HIDE DEF pp, lo, hi
<1>14. u # page /\ pp # lo /\ pp # hi /\ lo # hi
  <2>1. u # page
    BY <1>1, <1>8, <1>13
  <2>2. order # l
    BY <1>4
  <2> QED
    BY <1>11, <2>1, <2>2
<1>15. lo \notin Blocks /\ hi \notin Blocks
  <2>1. \A x \in Blocks : \A q \in Pages : In(q, x) /\ In(q, pp) => x = pp
    BY <1>6 DEF BuddyInv, Partition
  <2> QED
    BY <1>1, <1>7, <1>8, <1>13, <1>14, <2>1
<1>16. Blocks' = (Blocks \ {pp}) \cup {lo, hi}
  <2>1. pp \notin held /\ pp \notin FreeBlocks
    BY <1>5 DEF BuddyInv, RolesApart
  <2>2. held' = held
    BY <1>2
  <2> QED
    BY <1>5, <1>9, <2>1, <2>2 DEF Blocks
<1>17. BuddyType'
  <2>1. free_list' \in [Orders -> SUBSET Pages]
    BY <1>2, <1>3, <1>4, <1>8
  <2>2. flags' \in [Pages -> Flags]
    BY <1>2, <1>3, <1>8 DEF Flags
  <2>3. l \in 0 .. MaxOrder
    BY <1>4, Sizes
  <2>4. private' \in [Pages -> 0 .. MaxOrder]
    BY <1>2, <1>3, <1>8, <2>3
  <2> QED
    BY <1>2, <2>1, <2>2, <2>3, <2>4 DEF BuddyInv, BuddyType
<1>18. LoopsInRange'
  BY <1>1, <1>2, <1>4 DEF LoopsInRange
<1>19. Partition(Blocks, i)'
  BY <1>2, <1>10, <1>16 DEF Partition, Fits, In
<1>20. RolesApart'
  <2>1. held \cap FreeBlocks = {}
    BY DEF BuddyInv, RolesApart
  <2>2. lo \notin held \cup FreeBlocks /\ hi \notin held
    BY <1>15 DEF Blocks
  <2> QED
    BY <1>2, <1>5, <1>9, <1>14, <2>1, <2>2 DEF RolesApart
<1>21. \A q \in Pages : q # u => flags'[q] = flags[q] /\ private'[q] = private[q]
  BY <1>2, <1>3
<1>22. flags'[u] = "PG_buddy" /\ private'[u] = l
  BY <1>2, <1>3, <1>8
<1>23. \A c \in Blocks : c # pp => ~ In(u, c) /\ c[1] # u
  <2>1. \A c \in Blocks : In(u, c) => c = pp
    BY <1>6, <1>8, <1>13 DEF BuddyInv, Partition
  <2>2. \A c \in Blocks : In(c[1], c)
    BY Heads
  <2> QED
    BY <2>1, <2>2
<1>24. HeadsMarked'
  <2>0. pp \notin held /\ pp \notin FreeBlocks
    BY <1>5 DEF BuddyInv, RolesApart
  <2>1. ASSUME NEW o \in Orders, NEW p \in free_list'[o]
        PROVE  flags'[p] = "PG_buddy" /\ private'[p] = o
    <3>1. CASE p \in free_list[o]
      <4>1. p \in Pages /\ <<p, o>> \in FreeBlocks /\ <<p, o>> \in Blocks
        BY <1>3, <3>1 DEF FreeBlocks, Blocks
      <4>2. <<p, o>>[1] # u
        BY <1>23, <2>0, <4>1
      <4>3. p # u
        BY <4>2
      <4> QED
        BY <1>21, <3>1, <4>1, <4>3 DEF BuddyInv, HeadsMarked
    <3>2. CASE p \notin free_list[o]
      <4>1. p = u /\ o = l
        BY <1>2, <1>3, <1>4, <2>1, <3>2
      <4> QED
        BY <1>22, <4>1
    <3> QED
      BY <3>1, <3>2
  <2>2. ASSUME NEW b \in held
        PROVE  flags'[b[1]] = "PG_USED" /\ private'[b[1]] = b[2]
    <3>1. b \in Blocks /\ b # pp
      BY <2>0 DEF Blocks
    <3>2. b[1] \in Pages /\ b[1] # u
      BY <1>23, <3>1, Heads
    <3> QED
      BY <1>21, <3>2 DEF BuddyInv, HeadsMarked
  <2> QED
    BY <1>2, <2>1, <2>2 DEF HeadsMarked
<1>25. StaleMarks'
  <2>1. ASSUME NEW c \in Blocks', NEW q \in Pages, In(q, c), q # c[1]
        PROVE  Smaller(q, c[2])'
    <3>1. CASE c \in Blocks /\ c # pp
      <4>1. q # u
        BY <1>23, <2>1, <3>1
      <4>2. Smaller(q, c[2])
        BY <2>1, <3>1 DEF BuddyInv, StaleMarks
      <4> QED
        BY <1>21, <4>1, <4>2 DEF Smaller
    <3>2. CASE c = lo \/ c = hi
      <4>1. In(q, pp) /\ q # page /\ q # u
        BY <1>1, <1>8, <1>11, <1>13, <2>1, <3>2
      <4>2. Smaller(q, order)
        BY <1>6, <1>11, <4>1 DEF BuddyInv, StaleMarks
      <4>3. ASSUME flags[q] = "PG_buddy"
            PROVE  private[q] < l /\ q % Pow2[private[q]] = 0
        <5>1. private[q] < order /\ q % Pow2[private[q]] = 0 /\ private[q] \in Nat
          BY <1>3, <4>2, <4>3 DEF Smaller
        <5>2. private[q] # l
          BY <1>8, <4>1, <5>1
        <5> QED
          BY <1>4, <5>1, <5>2
      <4>4. c[2] = l
        BY <1>11, <3>2
      <4>5. flags'[q] = flags[q] /\ private'[q] = private[q]
        BY <1>21, <4>1
      <4> QED
        BY <4>3, <4>4, <4>5 DEF Smaller
    <3> QED
      BY <1>16, <3>1, <3>2
  <2>2. pc' # "merge"
    BY <1>1, <1>2
  <2> QED
    BY <2>1, <2>2 DEF StaleMarks, In, Smaller
<1>26. OutsideMarked'
  <2>1. u \notin Reserved /\ u < i
    BY <1>6, <1>8, <1>13, Heads
  <2>2. \A q \in Pages : q >= i => q # u
    BY <1>8, <2>1 DEF BuddyInv, BuddyType, Pages
  <2>3. \A q \in Reserved : q \in Pages /\ q # u
    BY <2>1 DEF Reserved
  <2> QED
    BY <1>2, <1>21, <2>2, <2>3 DEF BuddyInv, OutsideMarked
<1>27. NoFreePair'
  <2> SUFFICES ASSUME NEW o \in 0 .. MaxOrder - 2, NEW p \in free_list'[o],
                      FindBuddyPfn(p, o) \in free_list'[o]
               PROVE  FALSE
    BY DEF NoFreePair, FindBuddyPfn
  <2> DEFINE f == FindBuddyPfn(p, o)
  <2>1. o \in Orders /\ o < MaxOrder - 1
    BY Sizes DEF Orders
  <2>2. ~ (p \in free_list[o] /\ f \in free_list[o])
    BY DEF BuddyInv, NoFreePair
  <2>3. o = l /\ (p = u \/ f = u)
    BY <1>2, <1>3, <1>4, <2>1, <2>2
  <2>4. page \notin free_list[l]
    <3>1. lo \notin FreeBlocks
      BY <1>15 DEF Blocks
    <3> QED
      BY <1>1, <1>4, <3>1 DEF FreeBlocks, lo
  <2>5. page \notin free_list'[l]
    BY <1>2, <1>3, <1>4, <1>14, <2>4
  <2>6. CASE p = u
    BY <1>8, <2>3, <2>5, <2>6
  <2>7. CASE p # u
    <3>1. p \in free_list[o] /\ p \in Pages
      BY <1>2, <1>3, <1>4, <2>1, <2>7
    <3>2. <<p, o>> \in Blocks
      BY <2>1, <3>1 DEF FreeBlocks, Blocks
    <3>3. Fits(<<p, o>>)
      BY <3>2, Heads
    <3>4. FindBuddyPfn(f, o) = p
      BY <2>1, <3>1, <3>3, Buddies
    <3> HIDE DEF f
    <3>5. p = page
      BY <1>8, <2>3, <2>7, <3>4
    <3> QED
      BY <2>3, <2>4, <3>1, <3>5
  <2> QED
    BY <2>6, <2>7
<1> QED
  BY <1>17, <1>18, <1>19, <1>20, <1>24, <1>25, <1>26, <1>27 DEF BuddyInv

(* __rmqueue_smallest() hands the block out, its first page marked         *)
(* PG_USED with the order kfree() will read.                               *)
LEMMA AllocDoneInv ==
  ASSUME BuddyInv, AllocDone
  PROVE  BuddyInv'
<1> DEFINE pp == <<page, order>>
<1>0. page \in Pages /\ order \in Orders /\ pc = "expand" /\ low = order
  <2>1. order <= low /\ low <= order /\ order \in Nat /\ low \in Nat
    BY Sizes DEF AllocDone, BuddyInv, BuddyType, LoopsInRange
  <2> QED
    BY <2>1 DEF AllocDone, BuddyInv, BuddyType, LoopsInRange
<1>1. /\ private' = [private EXCEPT ![page] = order]
      /\ flags' = [flags EXCEPT ![page] = "PG_USED"]
      /\ held' = held \cup {pp} /\ pc' = "idle"
      /\ page' = 0 /\ order' = 0 /\ low' = 0
      /\ free_list' = free_list /\ i' = i
  BY <1>0 DEF AllocDone, Return
<1>2. /\ free_list \in [Orders -> SUBSET Pages] /\ flags \in [Pages -> Flags]
      /\ private \in [Pages -> 0 .. MaxOrder]
  BY DEF BuddyInv, BuddyType
<1>3. InFlight = {pp} /\ InFlight' = {}
  BY <1>0, <1>1 DEF InFlight
<1>4. FreeBlocks' = FreeBlocks
  BY <1>1 DEF FreeBlocks
<1>5. Blocks' = Blocks
  BY <1>1, <1>3, <1>4 DEF Blocks
<1>6. pp \in Blocks /\ pp[1] = page /\ pp[2] = order /\ pp \in Pages \X Orders
  BY <1>0, <1>3 DEF Blocks
<1> HIDE DEF pp
<1>7. pp \notin held /\ pp \notin FreeBlocks
  BY <1>3 DEF BuddyInv, RolesApart
<1>8. BuddyType'
  <2>1. flags' \in [Pages -> Flags]
    BY <1>0, <1>1, <1>2 DEF Flags
  <2>2. order \in 0 .. MaxOrder /\ 0 \in Pages /\ 0 \in Orders /\ 0 \in 0 .. MaxOrder
    BY <1>0, Sizes DEF Pages
  <2>3. private' \in [Pages -> 0 .. MaxOrder]
    BY <1>0, <1>1, <1>2, <2>2
  <2>4. held' \subseteq Pages \X Orders
    BY <1>1, <1>6 DEF BuddyInv, BuddyType
  <2> QED
    BY <1>1, <2>1, <2>2, <2>3, <2>4 DEF BuddyInv, BuddyType
<1>9. LoopsInRange'
  BY <1>1 DEF LoopsInRange
<1>10. Partition(Blocks, i)'
  BY <1>1, <1>5 DEF BuddyInv, Partition, Fits, In
<1>11. RolesApart'
  BY <1>1, <1>3, <1>4, <1>7 DEF BuddyInv, RolesApart
<1>12. \A q \in Pages : q # page => flags'[q] = flags[q] /\ private'[q] = private[q]
  BY <1>1, <1>2
<1>13. flags'[page] = "PG_USED" /\ private'[page] = order
  BY <1>0, <1>1, <1>2
<1>14. HeadsMarked'
  <2>1. ASSUME NEW o \in Orders, NEW p \in free_list[o]
        PROVE  flags'[p] = "PG_buddy" /\ private'[p] = o
    <3>1. p \in Pages /\ <<p, o>> \in FreeBlocks /\ <<p, o>> \in Blocks
      BY <1>2 DEF FreeBlocks, Blocks
    <3>2. <<p, o>>[1] # page
      BY <1>6, <1>7, <3>1, Heads
    <3>3. p # page
      BY <3>2
    <3> QED
      BY <1>12, <3>1, <3>3 DEF BuddyInv, HeadsMarked
  <2>2. ASSUME NEW b \in held'
        PROVE  flags'[b[1]] = "PG_USED" /\ private'[b[1]] = b[2]
    <3>1. CASE b = pp
      BY <1>6, <1>13, <3>1
    <3>2. CASE b \in held
      <4>1. b \in Blocks
        BY <3>2 DEF Blocks
      <4>2. b[1] \in Pages /\ b[1] # page
        BY <1>6, <1>7, <3>2, <4>1, Heads
      <4> QED
        BY <1>12, <3>2, <4>2 DEF BuddyInv, HeadsMarked
    <3> QED
      BY <1>1, <3>1, <3>2
  <2> QED
    BY <1>1, <2>1, <2>2 DEF HeadsMarked
<1>15. StaleMarks'
  <2>1. ASSUME NEW c \in Blocks, NEW q \in Pages, In(q, c), q # c[1]
        PROVE  Smaller(q, c[2])'
    <3>1. Smaller(q, c[2])
      BY <2>1 DEF BuddyInv, StaleMarks
    <3>2. CASE q = page
      BY <1>13, <3>2 DEF Smaller
    <3>3. CASE q # page
      BY <1>12, <3>1, <3>3 DEF Smaller
    <3> QED
      BY <3>2, <3>3
  <2> QED
    BY <1>1, <1>5, <2>1 DEF StaleMarks, In, Smaller
<1>16. OutsideMarked'
  <2>1. page \notin Reserved /\ page < i
    BY <1>6, Heads
  <2>2. \A q \in Pages : q >= i => q # page
    BY <2>1 DEF BuddyInv, BuddyType, Pages
  <2>3. \A q \in Reserved : q \in Pages /\ q # page
    BY <2>1 DEF Reserved
  <2> QED
    BY <1>1, <1>12, <2>2, <2>3 DEF BuddyInv, OutsideMarked
<1>17. NoFreePair'
  BY <1>1 DEF BuddyInv, NoFreePair, FindBuddyPfn
<1> QED
  BY <1>8, <1>9, <1>10, <1>11, <1>14, <1>15, <1>16, <1>17 DEF BuddyInv

(* kfree() of a block that is held: the page still says PG_USED and the    *)
(* order it was given with, so free_one_page() does not hang and merges    *)
(* the whole block.                                                        *)
LEMMA FreeOnePageInv ==
  ASSUME BuddyInv, NEW b \in held, FreeOnePage(b)
  PROVE  BuddyInv'
<1>0. b \in Pages \X Orders /\ flags[b[1]] = "PG_USED" /\ private[b[1]] = b[2]
  BY DEF BuddyInv, BuddyType, HeadsMarked
<1>1. /\ pc = "idle" /\ pc' = "merge" /\ page' = b[1] /\ order' = b[2]
      /\ held' = held \ {b}
      /\ UNCHANGED <<flags, private, free_list, i, low>>
  BY <1>0 DEF FreeOnePage
<1>2. b = <<b[1], b[2]>>
  BY <1>0
<1>3. InFlight = {} /\ InFlight' = {b}
  BY <1>1, <1>2 DEF InFlight
<1>4. FreeBlocks' = FreeBlocks
  BY <1>1 DEF FreeBlocks
<1>5. Blocks' = Blocks
  BY <1>1, <1>3, <1>4 DEF Blocks
<1>6. b \notin FreeBlocks
  BY DEF BuddyInv, RolesApart
<1>7. BuddyType'
  <2>1. b[1] \in Pages /\ b[2] \in 0 .. MaxOrder
    BY <1>0, Sizes
  <2> QED
    BY <1>1, <2>1 DEF BuddyInv, BuddyType
<1>8. LoopsInRange'
  BY <1>0, <1>1 DEF LoopsInRange
<1>9. Partition(Blocks, i)'
  BY <1>1, <1>5 DEF BuddyInv, Partition, Fits, In
<1>10. RolesApart'
  BY <1>1, <1>3, <1>4, <1>6 DEF BuddyInv, RolesApart
<1>11. HeadsMarked'
  BY <1>1 DEF BuddyInv, HeadsMarked
<1>12. StaleMarks'
  <2>1. Smaller(page, order)'
    BY <1>0, <1>1 DEF Smaller
  <2> QED
    BY <1>1, <1>5, <2>1 DEF BuddyInv, StaleMarks, Smaller, In
<1>13. OutsideMarked'
  BY <1>1 DEF BuddyInv, OutsideMarked
<1>14. NoFreePair'
  BY <1>1 DEF BuddyInv, NoFreePair, FindBuddyPfn
<1> QED
  BY <1>7, <1>8, <1>9, <1>10, <1>11, <1>12, <1>13, <1>14 DEF BuddyInv

(* The state page_frame_init() starts from: no blocks, reserved pages      *)
(* marked, clean RAM elsewhere.                                            *)
LEMMA InitInv ==
  ASSUME RamClean, Init
  PROVE  BuddyInv
<1>0. PICK ram \in [Pages \ Reserved -> StalePages] :
        /\ flags = [p \in Pages |->
                      IF p \in Reserved THEN "PG_RESERVED" ELSE ram[p].flags]
        /\ private = [p \in Pages |->
                        IF p \in Reserved THEN 0 ELSE ram[p].private]
  BY DEF Init
<1>1. /\ free_list = [o \in Orders |-> {}] /\ pc = "boot"
      /\ i = 0 /\ page = 0 /\ order = 0 /\ low = 0 /\ held = {}
  BY DEF Init
<1>2. \A s \in StalePages : s.flags \in Flags /\ s.private \in 0 .. MaxOrder
  BY StaleAssumption
<1>3. flags \in [Pages -> Flags]
  <2>1. ASSUME NEW p \in Pages
        PROVE  (IF p \in Reserved THEN "PG_RESERVED" ELSE ram[p].flags) \in Flags
    BY <1>2 DEF Flags
  <2> QED
    BY <1>0, <2>1
<1>4. private \in [Pages -> 0 .. MaxOrder]
  <2>1. ASSUME NEW p \in Pages
        PROVE  (IF p \in Reserved THEN 0 ELSE ram[p].private) \in 0 .. MaxOrder
    BY <1>2, Sizes
  <2> QED
    BY <1>0, <2>1
<1>5. BuddyType
  BY <1>1, <1>3, <1>4, Sizes DEF BuddyType, Pages
<1>6. LoopsInRange
  BY <1>1, Sizes DEF LoopsInRange
<1>7. FreeBlocks = {} /\ InFlight = {} /\ Blocks = {}
  BY <1>1 DEF FreeBlocks, InFlight, Blocks
<1>8. Partition(Blocks, i)
  <2>1. \A q \in Pages : ~ (q < 0)
    BY DEF Pages
  <2> QED
    BY <1>1, <1>7, <2>1 DEF Partition
<1>9. RolesApart
  BY <1>1, <1>7 DEF RolesApart
<1>10. HeadsMarked
  BY <1>1 DEF HeadsMarked
<1>11. StaleMarks
  BY <1>1, <1>7 DEF StaleMarks
<1>12. OutsideMarked
  <2>1. \A q \in Reserved : q \in Pages
    BY DEF Reserved
  <2>2. ASSUME NEW q \in Pages \ Reserved
        PROVE  flags[q] \notin {"PG_buddy", "PG_RESERVED"}
    <3>1. flags[q] = ram[q].flags /\ ram[q] \in StalePages
      BY <1>0
    <3> QED
      BY <3>1 DEF RamClean
  <2> QED
    BY <1>0, <2>1, <2>2 DEF OutsideMarked
<1>13. NoFreePair
  <2>1. \A o \in 0 .. MaxOrder - 2 : o \in Orders
    BY Sizes DEF Orders
  <2> QED
    BY <1>1, <2>1 DEF NoFreePair
<1> QED
  BY <1>5, <1>6, <1>8, <1>9, <1>10, <1>11, <1>12, <1>13 DEF BuddyInv

(* Every step keeps the invariant.                                         *)
LEMMA NextInv ==
  ASSUME BuddyInv, [Next]_vars
  PROVE  BuddyInv'
<1>1. CASE Boot
  BY <1>1, BootSkipInv, BootFreeInv DEF Boot
<1>2. CASE Merge
  BY <1>2, MergeStepInv, MergeDoneInv DEF Merge
<1>3. CASE Rmqueue
  BY <1>3, ScanNextInv, ScanTakeInv, ScanFailInv, ExpandStepInv, AllocDoneInv
     DEF Rmqueue
<1>4. ASSUME NEW o \in Orders, AllocPages(o) PROVE BuddyInv'
  BY <1>4, AllocPagesInv
<1>5. ASSUME NEW b \in held, FreeOnePage(b) PROVE BuddyInv'
  BY <1>5, FreeOnePageInv
<1>6. CASE UNCHANGED vars
  <2>1. /\ BuddyType' /\ LoopsInRange' /\ RolesApart' /\ HeadsMarked'
        /\ OutsideMarked' /\ NoFreePair' /\ Blocks' = Blocks
    BY <1>6 DEF vars, BuddyInv, BuddyType, LoopsInRange, RolesApart,
                HeadsMarked, OutsideMarked, NoFreePair, FindBuddyPfn,
                Blocks, FreeBlocks, InFlight
  <2>2. Partition(Blocks, i)' /\ StaleMarks'
    BY <1>6, <2>1 DEF vars, BuddyInv, Partition, Fits, In, StaleMarks, Smaller
  <2> QED
    BY <2>1, <2>2 DEF BuddyInv
<1> QED
  BY <1>1, <1>2, <1>3, <1>4, <1>5, <1>6 DEF Next

------------------------------------------------------------------------------
(* Theorems                                                                *)

(* The invariant holds in every reachable state, when RAM is clean.        *)
THEOREM BuddyInvariance == RamClean /\ Spec => []BuddyInv
<1>1. RamClean /\ Init => BuddyInv
  BY InitInv
<1>2. BuddyInv /\ [Next]_vars => BuddyInv'
  BY NextInv
<1> QED
  BY <1>1, <1>2, PTL DEF Spec

(* The pages of a block.                                                   *)
LEMMA BlockExtents ==
  ASSUME BuddyInv
  PROVE  \A b \in Blocks : Extent(b) = {q \in Pages : In(q, b)}
BY Heads, ExtentIsIn

(* The buddy allocator never has a page in two places: what callers hold,  *)
(* what is on the free lists of mm.c and what a loop has in hand share no  *)
(* page, for every sequence of allocations and frees.                      *)
THEOREM BlocksDisjoint == RamClean /\ Spec => []NoOverlap
<1>1. ASSUME BuddyInv PROVE NoOverlap
  <2>1. ASSUME NEW a \in Blocks, NEW b \in Blocks, a # b
        PROVE  Extent(a) \cap Extent(b) = {}
    <3>1. Extent(a) = {q \in Pages : In(q, a)} /\ Extent(b) = {q \in Pages : In(q, b)}
      BY <1>1, BlockExtents
    <3>2. \A q \in Pages : ~ (In(q, a) /\ In(q, b))
      BY <1>1, <2>1 DEF BuddyInv, Partition
    <3> QED
      BY <3>1, <3>2
  <2> QED
    BY <1>1, <2>1 DEF BuddyInv, RolesApart, NoOverlap
<1> QED
  BY <1>1, BuddyInvariance, PTL

(* No page is lost by the merging of __free_one_page() and the splitting   *)
(* of expand(): the blocks make up exactly the pages booted so far that    *)
(* are not reserved.                                                       *)
THEOREM PagesAccounted == RamClean /\ Spec => []NoPageLost
<1>1. ASSUME BuddyInv PROVE NoPageLost
  <2>1. ASSUME NEW q
        PROVE  (\E b \in Blocks : q \in Extent(b)) <=> q \in {p \in Pages \ Reserved : p < i}
    <3>1. (\E b \in Blocks : q \in Extent(b)) <=> q \in Pages /\ \E b \in Blocks : In(q, b)
      BY <1>1, BlockExtents
    <3>2. q \in Pages => ((q \notin Reserved /\ q < i) <=> \E b \in Blocks : In(q, b))
      BY <1>1 DEF BuddyInv, Partition
    <3> QED
      BY <3>1, <3>2
  <2> QED
    BY <2>1 DEF NoPageLost
<1> QED
  BY <1>1, BuddyInvariance, PTL

(* No block handed out contains a byte of a region that memblock reserved, *)
(* wherever in a page the region starts or ends (mm.c:167).                *)
THEOREM ReservedStaysReserved == RamClean /\ Spec => []ReservedNeverHeld
<1>1. ASSUME BuddyInv PROVE ReservedNeverHeld
  <2> SUFFICES ASSUME NEW b \in held, NEW r \in ReservedRegions,
                      ~ ((b[1] + Pow2[b[2]]) * PageSize <= r.base),
                      ~ (r.base + r.size <= b[1] * PageSize)
               PROVE  FALSE
    BY DEF ReservedNeverHeld
  <2>1. /\ PageSize \in Nat \ {0} /\ r.base \in Nat /\ r.size \in Nat
        /\ r.base + r.size \in Nat
    BY RegionAssumption
  <2>2. b \in Blocks
    BY DEF Blocks
  <2>3. b \in Pages \X Orders /\ Fits(b)
    BY <1>1, <2>2, Heads
  <2> DEFINE h == b[1]
             e == b[1] + Pow2[b[2]]
             first == r.base \div PageSize
             last == (r.base + r.size) \div PageSize
  <2>4. /\ h \in Nat /\ e \in Nat /\ h < e /\ e <= NrPages /\ NrPages \in Nat
        /\ h * PageSize \in Nat /\ e * PageSize \in Nat
    <3>1. h \in Nat /\ Pow2[b[2]] \in Nat \ {0} /\ NrPages \in Nat
      BY <2>3, Sizes DEF Pages
    <3> QED
      BY <2>1, <2>3, <3>1 DEF Fits
  <2>5. r.base < e * PageSize /\ h * PageSize <= r.base + r.size
    <3>1. ~ (e * PageSize <= r.base) /\ ~ (r.base + r.size <= h * PageSize)
      OBVIOUS
    <3> HIDE DEF e, h
    <3> QED
      BY <2>1, <2>4, <3>1
  <2>6. first \in Nat /\ last \in Nat /\ first < e /\ h <= last
    <3> HIDE DEF e, h
    <3>1. e \in Int /\ h \in Int
      BY <2>4
    <3> QED
      BY <2>1, <2>5, <3>1, Quotient
  <2>7. first <= last
    <3>1. PICK f \in Int : f = first
      BY <2>6
    <3>2. f * PageSize <= r.base
      <4>1. ~ (r.base < f * PageSize)
        BY <2>1, <2>6, <3>1, Quotient
      <4>2. f * PageSize \in Int
        BY <2>1, <3>1
      <4> QED
        BY <2>1, <4>1, <4>2
    <3>3. f * PageSize <= r.base + r.size
      <4>1. f * PageSize \in Int
        BY <2>1, <3>1
      <4> QED
        BY <2>1, <3>2, <4>1
    <3>4. f <= last
      BY <2>1, <3>3, Quotient
    <3> QED
      BY <3>1, <3>4
  <2> DEFINE q == IF first <= h THEN h ELSE first
  <2>8. q \in Nat /\ h <= q /\ q < e /\ first <= q /\ q <= last
    <3> HIDE DEF first, last, h, e
    <3> QED
      BY <2>4, <2>6, <2>7
  <2>9. q \in Pages
    <3> HIDE DEF q, e, h
    <3> QED
      BY <2>4, <2>8 DEF Pages
  <2>10. q \in Reserved
    <3> HIDE DEF q
    <3> QED
      BY <2>8, <2>9 DEF Reserved
  <2>11. In(q, b)
    <3> HIDE DEF q
    <3> QED
      BY <2>8 DEF In
  <2> HIDE DEF q
  <2> QED
    BY <1>1, <2>2, <2>9, <2>10, <2>11, Heads
<1> QED
  BY <1>1, BuddyInvariance, PTL

(* list_del() is only ever applied to a page that is on the list: the test *)
(* of page_is_buddy() (mm.c:49) is not deceived by the marks that earlier  *)
(* merges and splits left in struct page.                                  *)
THEOREM BuddyTestSound == RamClean /\ Spec => []BuddyCheckSound
<1>1. ASSUME BuddyInv PROVE BuddyCheckSound
  BY <1>1, BuddyIsFree DEF BuddyCheckSound
<1> QED
  BY <1>1, BuddyInvariance, PTL

(* No two free buddies are left unmerged (mm.c:111).                       *)
THEOREM AlwaysCoalesced == RamClean /\ Spec => []Coalesced
<1>1. ASSUME BuddyInv PROVE Coalesced
  BY <1>1 DEF BuddyInv, NoFreePair, Coalesced
<1> QED
  BY <1>1, BuddyInvariance, PTL

(* NULL means that there is no block of the order asked for or above       *)
(* (mm.c:265): the scan has looked at every list, and none was filled      *)
(* behind it.                                                              *)
THEOREM NullMeansEmpty == RamClean /\ Spec => FailsOnlyWhenEmpty
<1>1. ASSUME BuddyInv, [Next]_vars, pc = "scan", pc' = "idle"
      PROVE  \A o \in low .. MaxOrder - 1 : free_list[o] = {}
  <2>1. ScanFail
    BY <1>1 DEF Next, vars, Boot, BootSkip, BootFree, Merge, MergeStep, MergeDone,
                Rmqueue, ScanNext, ScanTake, ExpandStep, AllocDone, AllocPages,
                FreeOnePage
  <2>2. order >= MaxOrder
    BY <2>1 DEF ScanFail
  <2>3. \A o \in Orders : low <= o /\ o < order => free_list[o] = {}
    BY <1>1 DEF BuddyInv, LoopsInRange
  <2>4. \A o \in low .. MaxOrder - 1 : o \in Orders /\ low <= o /\ o < order
    BY <1>1, <2>2, Sizes DEF BuddyInv, BuddyType, Orders
  <2> QED
    BY <2>3, <2>4
<1>2. BuddyInv /\ [Next]_vars =>
        [(pc = "scan" /\ pc' = "idle") =>
           \A o \in low .. MaxOrder - 1 : free_list[o] = {}]_vars
  BY <1>1
<1> QED
  BY <1>2, BuddyInvariance, PTL DEF Spec, FailsOnlyWhenEmpty

(* The allocator of mm.c implements PageAlloc: seen from its callers, each *)
(* step hands out one aligned block of unreserved pages that no one holds, *)
(* takes one back, or does nothing.                                        *)
THEOREM ImplementsPageAlloc == RamClean /\ Spec => KeepsPromise
<1>1. Init => Promise!Init
  BY DEF Init, Promise!Init
<1>2. ASSUME BuddyInv, AllocDone PROVE Promise!Next
  <2>1. page \in Pages /\ low \in Orders /\ low = order
    <3>1. order <= low /\ low <= order /\ order \in Nat /\ low \in Nat
      BY <1>2, Sizes DEF AllocDone, BuddyInv, BuddyType, LoopsInRange
    <3> QED
      BY <1>2, <3>1 DEF BuddyInv, BuddyType
  <2> DEFINE b == <<page, low>>
  <2>2. b \in InFlight /\ b \in Blocks
    BY <1>2, <2>1 DEF AllocDone, InFlight, Blocks
  <2>3. b[1] % Pow2[b[2]] = 0
    BY <1>2, <2>2, Heads DEF Fits
  <2>4. Extent(b) \subseteq Pages \ Reserved
    <3>1. Extent(b) = {q \in Pages : In(q, b)}
      BY <1>2, <2>2, BlockExtents
    <3>2. \A q \in Pages : In(q, b) => q \notin Reserved
      BY <1>2, <2>2, Heads
    <3> QED
      BY <3>1, <3>2
  <2>5. ASSUME NEW c \in held PROVE Extent(c) \cap Extent(b) = {}
    <3>1. c \in Blocks /\ c # b
      BY <1>2, <2>2 DEF BuddyInv, RolesApart, Blocks
    <3>2. Extent(c) = {q \in Pages : In(q, c)} /\ Extent(b) = {q \in Pages : In(q, b)}
      BY <1>2, <2>2, <3>1, BlockExtents
    <3>3. \A q \in Pages : ~ (In(q, c) /\ In(q, b))
      BY <1>2, <2>2, <3>1 DEF BuddyInv, Partition
    <3> QED
      BY <3>2, <3>3
  <2>6. held' = held \cup {b}
    BY <1>2 DEF AllocDone
  <2>7. Promise!Take(b)
    BY <2>3, <2>4, <2>5, <2>6 DEF Promise!Take, Promise!Available, Promise!Span, Extent
  <2> QED
    BY <2>1, <2>7 DEF Promise!Next, Promise!Alloc
<1>3. ASSUME NEW b \in held, FreeOnePage(b) PROVE Promise!Next
  BY <1>3 DEF FreeOnePage, Promise!Next, Promise!Release
<1>4. ASSUME [Next]_vars, ~ AllocDone, ~ \E b \in held : FreeOnePage(b)
      PROVE  held' = held
  BY <1>4 DEF Next, vars, Boot, BootSkip, BootFree, Merge, MergeStep, MergeDone,
              Rmqueue, ScanNext, ScanTake, ScanFail, ExpandStep, AllocPages
<1>5. BuddyInv /\ [Next]_vars => [Promise!Next]_held
  BY <1>2, <1>3, <1>4
<1> QED
  BY <1>1, <1>5, BuddyInvariance, PTL DEF Spec, KeepsPromise, Promise!Spec
==============================================================================
