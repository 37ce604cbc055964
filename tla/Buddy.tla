-------------------------------- MODULE Buddy --------------------------------
(***************************************************************************)
(* The buddy page allocator of src/src/mm.c: page_frame_init() at boot,    *)
(* __alloc_pages() and free_one_page() afterwards.  Each iteration of a    *)
(* loop of the C code is one action, so the loops' intermediate states are *)
(* states of the model.  The kernel runs on one core and takes exceptions  *)
(* with interrupts masked, so one operation runs at a time (pc).           *)
(*                                                                         *)
(* A free list is a set: which block of an order is first on the list is   *)
(* a matter of history that no property depends on, and ScanTake may take  *)
(* any of them.  Inserting a page twice or deleting one that is not on the *)
(* list shows as a disagreement with nr_free.                              *)
(***************************************************************************)
EXTENDS Integers, FiniteSets

CONSTANTS
  MaxOrder,        \* MAX_ORDER: the orders are 0 .. MaxOrder - 1
  NrPages,         \* nr_pages
  Pow2,            \* Pow2[o] is 1 << o
  PageSize,        \* PAGE_SIZE, in the unit of the regions below
  ReservedRegions, \* memblock.reserved: records [base, size]
  StalePages       \* what RAM under mem_map may hold: records [flags, private]

Orders == 0 .. MaxOrder - 1
Pages  == 0 .. NrPages - 1
Flags  == {"NONE", "PG_USED", "PG_AVAIL", "PG_RESERVED", "PG_buddy"}

ASSUME OrderAssumption == MaxOrder \in Nat \ {0}

ASSUME Pow2Assumption ==
  /\ Pow2 \in [0 .. MaxOrder -> Nat \ {0}]
  /\ Pow2[0] = 1
  /\ \A o \in Orders : Pow2[o + 1] = 2 * Pow2[o]

(* current_limit comes from the firmware: 0x3B400000 or 0x3C000000 on the  *)
(* boards the kernel runs on, so the buddy of a page is a page.            *)
ASSUME PagesAssumption ==
  /\ NrPages \in Nat \ {0}
  /\ NrPages % Pow2[MaxOrder - 1] = 0

ASSUME RegionAssumption ==
  /\ PageSize \in Nat \ {0}
  /\ \A r \in ReservedRegions : r.base \in Nat /\ r.size \in Nat

ASSUME StaleAssumption ==
  /\ StalePages # {}
  /\ StalePages \subseteq [flags : Flags, private : 0 .. MaxOrder]

VARIABLES
  flags, private,  \* struct page: flags and private (the order) of each page
  free_list,       \* zone.free_area[o].free_list
  nr_free,         \* zone.free_area[o].nr_free
  managed_pages,   \* zone.managed_pages
  pc,              \* which loop of which operation is running
  i,               \* the loop variable of page_frame_init()
  page, order,     \* pfn and order (current_order, high_order) of the loop
  low,             \* the order asked of __alloc_pages()
  held             \* history: the blocks <<head, order>> callers hold

vars == <<flags, private, free_list, nr_free, managed_pages, pc, i, page,
          order, low, held>>

------------------------------------------------------------------------------
(* Pages and blocks                                                        *)

(* Mutant: the page a region ends in is not marked.                        *)
ReservedShort ==
  {p \in Pages : \E r \in ReservedRegions :
     r.base \div PageSize <= p /\ p < (r.base + r.size) \div PageSize}

(* The pages page_frame_init() marks: every region, its end page included. *)
Reserved ==
  {p \in Pages : \E r \in ReservedRegions :
     /\ r.base \div PageSize <= p
     /\ p <= (r.base + r.size) \div PageSize}

(* __find_buddy_pfn: pfn ^ (1 << order), for a pfn aligned to the order.   *)
FindBuddyPfn(pfn, o) ==
  IF pfn % Pow2[o + 1] = 0 THEN pfn + Pow2[o] ELSE pfn - Pow2[o]

(* Mutant: the merged block keeps the number of the page that was freed.   *)
CombinedPfnOwn(pfn, buddy) == pfn

(* combined_pfn = buddy_pfn & pfn                                          *)
CombinedPfn(pfn, buddy) == IF buddy < pfn THEN buddy ELSE pfn

(* Mutant: the order of the buddy is not compared.                         *)
PageIsBuddyAnyOrder(p, o) == flags[p] = "PG_buddy"

PageIsBuddy(p, o) == flags[p] = "PG_buddy" /\ private[p] = o

Extent(b) == b[1] .. (b[1] + Pow2[b[2]] - 1)

------------------------------------------------------------------------------
(* The helpers that change the free lists and struct page                  *)

DelPageFromFreeArea(p, o) ==
  /\ free_list' = [free_list EXCEPT ![o] = @ \ {p}]
  /\ nr_free' = [nr_free EXCEPT ![o] = @ - 1]
  /\ managed_pages' = managed_pages - 1

AddToFreeArea(p, o) ==
  /\ free_list' = [free_list EXCEPT ![o] = @ \cup {p}]
  /\ nr_free' = [nr_free EXCEPT ![o] = @ + 1]
  /\ managed_pages' = managed_pages + 1

SetBuddyOrder(p, o) ==
  /\ private' = [private EXCEPT ![p] = o]
  /\ flags' = [flags EXCEPT ![p] = "PG_buddy"]

------------------------------------------------------------------------------
(* buddy_free_area_init() and the first loop of page_frame_init(): empty   *)
(* lists, reserved pages marked, and the rest of mem_map as RAM held it.   *)
Init ==
  /\ \E ram \in [Pages \ Reserved -> StalePages] :
       /\ flags = [p \in Pages |->
                     IF p \in Reserved THEN "PG_RESERVED" ELSE ram[p].flags]
       /\ private = [p \in Pages |->
                       IF p \in Reserved THEN 0 ELSE ram[p].private]
  /\ free_list = [o \in Orders |-> {}]
  /\ nr_free = [o \in Orders |-> 0]
  /\ managed_pages = 0
  /\ pc = "boot"
  /\ i = 0 /\ page = 0 /\ order = 0 /\ low = 0
  /\ held = {}

(* Where the caller of __free_one_page() goes on: the loop of              *)
(* page_frame_init(), or the end of free_one_page().                       *)
AfterPage(n) == IF n < NrPages THEN "boot" ELSE "idle"

(* The locals of the function that ends are gone.                          *)
Return == page' = 0 /\ order' = 0 /\ low' = 0

(* page_frame_init(): a page that reads PG_RESERVED is skipped.            *)
BootSkip ==
  /\ pc = "boot"
  /\ flags[i] = "PG_RESERVED"
  /\ i' = i + 1
  /\ pc' = AfterPage(i + 1)
  /\ UNCHANGED <<flags, private, free_list, nr_free, managed_pages, page,
                 order, low, held>>

(* page_frame_init(): any other page is handed to __free_one_page().       *)
BootFree ==
  /\ pc = "boot"
  /\ flags[i] # "PG_RESERVED"
  /\ flags' = [flags EXCEPT ![i] = "PG_AVAIL"]
  /\ page' = i /\ order' = 0
  /\ i' = i + 1
  /\ pc' = "merge"
  /\ UNCHANGED <<private, free_list, nr_free, managed_pages, low, held>>

(* __free_one_page(), loop body: the buddy is free, take it and go up.     *)
MergeStep ==
  LET buddy == FindBuddyPfn(page, order) IN
  /\ pc = "merge"
  /\ order < MaxOrder - 1
  /\ PageIsBuddy(buddy, order)
  /\ DelPageFromFreeArea(buddy, order)
  /\ page' = CombinedPfn(page, buddy)
  /\ order' = order + 1
  /\ UNCHANGED <<flags, private, pc, i, low, held>>

(* Mutant: the loop is left although the buddy is free.                    *)
MergeDoneEarly ==
  /\ pc = "merge"
  /\ SetBuddyOrder(page, order)
  /\ AddToFreeArea(page, order)
  /\ pc' = AfterPage(i)
  /\ Return
  /\ UNCHANGED <<i, held>>

(* __free_one_page(), after the loop: the block goes on its free list.     *)
MergeDone ==
  /\ pc = "merge"
  /\ order < MaxOrder - 1 => ~ PageIsBuddy(FindBuddyPfn(page, order), order)
  /\ SetBuddyOrder(page, order)
  /\ AddToFreeArea(page, order)
  /\ pc' = AfterPage(i)
  /\ Return
  /\ UNCHANGED <<i, held>>

------------------------------------------------------------------------------
(* Mutant: the scan starts one order too high.                             *)
AllocPagesAbove(o) ==
  /\ pc = "idle"
  /\ low' = o /\ order' = o + 1
  /\ pc' = "scan"
  /\ UNCHANGED <<flags, private, free_list, nr_free, managed_pages, i, page,
                 held>>

(* __alloc_pages(o), that is __rmqueue_smallest(o)                         *)
AllocPages(o) ==
  /\ pc = "idle"
  /\ low' = o /\ order' = o
  /\ pc' = "scan"
  /\ UNCHANGED <<flags, private, free_list, nr_free, managed_pages, i, page,
                 held>>

(* get_page_from_free_area() finds the list empty: next order.             *)
ScanNext ==
  /\ pc = "scan"
  /\ order < MaxOrder
  /\ free_list[order] = {}
  /\ order' = order + 1
  /\ UNCHANGED <<flags, private, free_list, nr_free, managed_pages, pc, i,
                 page, low, held>>

(* A block is found and taken off its list.                                *)
ScanTake ==
  /\ pc = "scan"
  /\ order < MaxOrder
  /\ \E p \in free_list[order] :
       /\ DelPageFromFreeArea(p, order)
       /\ page' = p
  /\ pc' = "expand"
  /\ UNCHANGED <<flags, private, i, order, low, held>>

(* Mutant: the scan starts over instead of returning NULL.                 *)
ScanRetry ==
  /\ pc = "scan"
  /\ order >= MaxOrder
  /\ order' = low
  /\ UNCHANGED <<flags, private, free_list, nr_free, managed_pages, pc, i,
                 page, low, held>>

(* All lists from the order asked for upwards are empty: NULL.             *)
ScanFail ==
  /\ pc = "scan"
  /\ order >= MaxOrder
  /\ pc' = "idle"
  /\ Return
  /\ UNCHANGED <<flags, private, free_list, nr_free, managed_pages, i, held>>

(* Mutant: the half that stays free is the one that is returned.           *)
ExpandLower ==
  /\ pc = "expand"
  /\ order > low
  /\ SetBuddyOrder(page, order - 1)
  /\ AddToFreeArea(page, order - 1)
  /\ order' = order - 1
  /\ UNCHANGED <<pc, i, page, low, held>>

(* expand(), loop body: the upper half of the block goes to its list.      *)
ExpandStep ==
  LET upper == page + Pow2[order - 1] IN
  /\ pc = "expand"
  /\ order > low
  /\ SetBuddyOrder(upper, order - 1)
  /\ AddToFreeArea(upper, order - 1)
  /\ order' = order - 1
  /\ UNCHANGED <<pc, i, page, low, held>>

(* __rmqueue_smallest() returns the block, now PG_USED.                    *)
AllocDone ==
  /\ pc = "expand"
  /\ order <= low
  /\ private' = [private EXCEPT ![page] = low]
  /\ flags' = [flags EXCEPT ![page] = "PG_USED"]
  /\ held' = held \cup {<<page, low>>}
  /\ pc' = "idle"
  /\ Return
  /\ UNCHANGED <<free_list, nr_free, managed_pages, i>>

------------------------------------------------------------------------------
(* kfree() of a block that is held: the order is read from the page, and   *)
(* free_one_page() hangs the kernel if the page is not marked PG_USED.     *)
FreeOnePage(b) ==
  LET p == b[1] IN
  /\ pc = "idle"
  /\ page' = p /\ order' = private[p]
  /\ pc' = IF flags[p] = "PG_USED" THEN "merge" ELSE "hung"
  /\ held' = held \ {b}
  /\ UNCHANGED <<flags, private, free_list, nr_free, managed_pages, i, low>>

Boot   == BootSkip \/ BootFree
Merge  == MergeStep \/ MergeDone
Rmqueue == ScanNext \/ ScanTake \/ ScanFail \/ ExpandStep \/ AllocDone

Next ==
  \/ Boot
  \/ Merge
  \/ Rmqueue
  \/ \E o \in Orders : AllocPages(o)
  \/ \E b \in held : FreeOnePage(b)

(* Nothing preempts the allocator for ever: an operation that was begun    *)
(* takes its next step.                                                    *)
Fairness == WF_vars(Boot \/ Merge \/ Rmqueue)

Spec == Init /\ [][Next]_vars /\ Fairness

------------------------------------------------------------------------------
(* Properties                                                              *)

FreeBlocks == {b \in Pages \X Orders : b[1] \in free_list[b[2]]}

(* The block a running operation has in its hands.                         *)
InFlight == IF pc \in {"merge", "expand"} THEN {<<page, order>>} ELSE {}

Blocks == held \cup FreeBlocks \cup InFlight

(* No page is in two places at once: the blocks callers hold, the blocks   *)
(* on the free lists and the block being split or merged share no page     *)
(* (mm.c:105-152 and 206-285), whatever stale flags the merged or split    *)
(* pages still carry.                                                      *)
NoOverlap ==
  /\ \A a, b \in Blocks : a # b => Extent(a) \cap Extent(b) = {}
  /\ held \cap FreeBlocks = {}
  /\ InFlight \cap (held \cup FreeBlocks) = {}

(* No page is lost by splitting and merging: every page booted so far that *)
(* was not reserved is in one of the blocks (mm.c:105-185, 206-285).       *)
NoPageLost ==
  UNION {Extent(b) : b \in Blocks} = {p \in Pages \ Reserved : p < i}

(* No caller is given memory that memblock reserved before the buddy       *)
(* system was set up: no held block contains a byte of a reserved region   *)
(* (mm.c:167-180).                                                         *)
ReservedNeverHeld ==
  \A b \in held : \A r \in ReservedRegions :
    \/ (b[1] + Pow2[b[2]]) * PageSize <= r.base
    \/ r.base + r.size <= b[1] * PageSize

(* When a page passes page_is_buddy() (mm.c:49) it is on the free list of  *)
(* that order, so list_del() is applied to a linked element.               *)
BuddyCheckSound ==
  (pc = "merge" /\ order < MaxOrder - 1) =>
    LET b == FindBuddyPfn(page, order) IN
    PageIsBuddy(b, order) => b \in free_list[order]

(* Between two operations no two free buddies are left unmerged            *)
(* (mm.c:111-136), so a large block comes back once its parts are free.    *)
Coalesced ==
  pc = "idle" =>
    \A o \in 0 .. MaxOrder - 2 : \A p \in free_list[o] :
      FindBuddyPfn(p, o) \notin free_list[o]

(* __alloc_pages() returns NULL only when no list of the order asked for   *)
(* or a higher one has a block (mm.c:265-284).                             *)
FailsOnlyWhenEmpty ==
  [][(pc = "scan" /\ pc' = "idle") =>
       \A o \in low .. MaxOrder - 1 : free_list[o] = {}]_vars

(* Every boot, allocation and free ends: the loops of mm.c:111, 174, 229   *)
(* and 265 terminate.                                                      *)
OperationsEnd == (pc # "idle") ~> (pc = "idle")

(* The allocator keeps the promise of PageAlloc.                           *)
Promise == INSTANCE PageAlloc WITH
  Usable <- Pages \ Reserved, Heads <- Pages, OrderSet <- Orders,
  Size <- Pow2, allocated <- held

KeepsPromise == Promise!Spec
==============================================================================
