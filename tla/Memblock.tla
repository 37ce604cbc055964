------------------------------ MODULE Memblock ------------------------------
(***************************************************************************)
(* The allocator of the boot (memblock.c): an array of reserved regions,   *)
(* kept sorted, and a search for free memory between them.  Addresses and  *)
(* sizes are small integers.                                               *)
(*                                                                         *)
(* memblock_init() runs first (stage), with an archive and a device tree   *)
(* wherever the firmware put them.  After it any caller may reserve a      *)
(* range or ask for memory.  The search of memblock_find_in_range() is one *)
(* step per range it looks at, because it does not always end.             *)
(***************************************************************************)
EXTENDS Integers, Sequences, FiniteSets

CONSTANTS
  Word,       \* sizeof(unsigned long)
  PhysMax,    \* phys_addr_max
  MaxRegions, \* INIT_MEMLBOCK_REGIONS
  KernelEnd,  \* the address of _end
  HeaderSize, \* sizeof(cpio_f) with the name of a file, aligned
  Archives,   \* sequences of file sizes an archive may have
  Sizes, Aligns, \* arguments of the callers
  MaxCalls    \* bound: calls after the boot

ASSUME MemblockAssumption ==
  /\ {Word, PhysMax, MaxRegions, KernelEnd, HeaderSize} \subseteq Nat \ {0}
  /\ MaxCalls \in Nat
  /\ Sizes \subseteq Nat /\ Aligns \subseteq Nat \ {0}
  /\ \A a \in Archives : a \in Seq(Nat)

VARIABLES
  stage,    \* what memblock_init() does next, "idle" after it
  reserved, \* memblock.reserved: regions and total_size
  req,      \* the request memblock_find_in_range() serves
  idx,      \* its iterator: idx_a and idx_b, counted from 0
  range,    \* this_start and this_end
  peak,     \* history: the longest the array was
  asked,    \* history: the addresses reserved so far
  calls     \* bound

bootVars == <<stage, reserved, req, idx, range, peak, asked, calls>>

ALIGN(x, a) == ((x + a - 1) \div a) * a
Lower(x, y) == IF x <= y THEN x ELSE y
Upper(x, y) == IF x >= y THEN x ELSE y
Clamp(x, lo, hi) == Lower(Upper(x, lo), hi)

Regions == [base : Nat, size : Nat]
Region(base, size) == [base |-> base, size |-> size]
End(r) == r.base + r.size
Span(base, size) == base .. base + size - 1
SumSeq(s) == LET sum[i \in 0 .. Len(s)] == IF i = 0 THEN 0 ELSE sum[i - 1] + s[i]
             IN  sum[Len(s)]
Covered(rs) == UNION {Span(rs[i].base, rs[i].size) : i \in DOMAIN rs}

(* memblock.memory: one region.  memblock.reserved starts with an empty    *)
(* dummy region.                                                           *)
Memory == <<Region(0, PhysMax)>>
NoRequest == [size |-> 0, align |-> 1, start |-> 0, end |-> 0]
-----------------------------------------------------------------------------
(* memblock_merge_regions(): the region at the end of what has been gone   *)
(* through takes in the next one if that begins where it ends.             *)
MergeNone(rs) == rs
MergeStep(r) ==
  [out \in Seq(Regions) |->
     LET this == out[Len(out)] IN
     IF End(this) = r.base THEN [out EXCEPT ![Len(out)] = Region(this.base, this.size + r.size)]
     ELSE out \o <<r>>]
MergeRegions(rs) ==
  LET loop[i \in 0 .. Len(rs) - 1] ==
        IF i = 0 THEN <<rs[1]>> ELSE MergeStep(rs[i + 1])[loop[i - 1]]
  IN  loop[Len(rs) - 1]

(* The loop of memblock_add_range() over the regions, base being what is   *)
(* left to add: each gap is put in front of the region it ends at, and the *)
(* remaining portion where the loop stops.                                 *)
Piece(base, end) == IF base < end THEN <<Region(base, end - base)>> ELSE <<>>
AddStep(r, end) ==
  [l \in [out : Seq(Regions), base : Nat] |->
     IF End(r) <= l.base THEN [out |-> l.out \o <<r>>, base |-> l.base]
     ELSE [out |-> l.out \o Piece(l.base, r.base) \o <<r>>, base |-> Lower(End(r), end)]]
Visited(rs, end) ==   \* regions before the one that the loop breaks at
  CHOOSE n \in 0 .. Len(rs) :
    (\A i \in 1 .. n : rs[i].base < end) /\ (n < Len(rs) => rs[n + 1].base >= end)
InsertPieces(rs, obase, end) ==
  LET loop[i \in 0 .. Len(rs)] ==
        IF i = 0 THEN [out |-> <<>>, base |-> obase] ELSE AddStep(rs[i], end)[loop[i - 1]]
      last == loop[Visited(rs, end)]
  IN  last.out \o Piece(last.base, end) \o SubSeq(rs, Visited(rs, end) + 1, Len(rs))

(* The array surely has room for every gap, so that nothing is counted.    *)
RoomForOne(cnt) == cnt < MaxRegions
RoomWithoutCounting(cnt) == cnt * 2 + 1 < MaxRegions

(* memblock_double_array() is not implemented: it never returns.           *)
DoubleArrayHangs(rs, pieces) ==
  ~ RoomWithoutCounting(Len(rs)) /\ Len(pieces) > MaxRegions

Total(rs) == SumSeq([i \in DOMAIN rs |-> rs[i].size])

(* memblock_reserve() and memblock_add_range(): next is where the caller   *)
(* goes on.                                                                *)
Reserve(base, size0, next) ==
  LET size   == ALIGN(size0, Word)
      rs     == reserved.regions
      first  == rs[1].size = 0
      pieces == IF first THEN <<Region(base, size)>>
                ELSE InsertPieces(rs, base, base + size)
  IN  IF size = 0 THEN stage' = next /\ UNCHANGED <<reserved, peak, asked>>
      ELSE IF ~ first /\ DoubleArrayHangs(rs, pieces)
      THEN stage' = "hung" /\ UNCHANGED <<reserved, peak, asked>>
      ELSE /\ stage' = next
           /\ reserved' = [regions    |-> IF first \/ Len(pieces) = Len(rs) THEN pieces
                                          ELSE MergeRegions(pieces),
                           total_size |-> IF first THEN size
                                          ELSE reserved.total_size + Total(pieces) - Total(rs)]
           /\ peak' = Upper(peak, Len(pieces))
           /\ asked' = asked \cup Span(base, size)
-----------------------------------------------------------------------------
BootInit ==
  /\ stage = "kernel"
  /\ reserved = [regions |-> <<Region(0, 0)>>, total_size |-> 0]
  /\ req = NoRequest /\ idx = <<0, 0>> /\ range = <<0, 0>>
  /\ peak = 1 /\ asked = {} /\ calls = 0

(* memblock_init(): the kernel.                                            *)
ReserveKernel ==
  /\ stage = "kernel"
  /\ Reserve(0, KernelEnd, "initrd")
  /\ UNCHANGED <<req, idx, range, calls>>

(* initrd_reserve_memory(): every file of the archive and its trailer, or  *)
(* nothing where there is no archive.                                      *)
ArchiveSize(files) ==
  SumSeq([i \in DOMAIN files |-> HeaderSize + ALIGN(files[i], Word)]) + HeaderSize
InitrdReserveMemory ==
  /\ stage = "initrd"
  /\ \/ stage' = "dtb" /\ UNCHANGED <<reserved, peak, asked>>
     \/ \E base \in 0 .. PhysMax - 1, files \in Archives :
          /\ base + ArchiveSize(files) <= PhysMax
          /\ Reserve(base, ALIGN(ArchiveSize(files), Word), "dtb")
  /\ UNCHANGED <<req, idx, range, calls>>

(* fdt_reserve_memory(): a tree is one HeaderSize long here.               *)
FdtReserveMemory ==
  /\ stage = "dtb"
  /\ \/ stage' = "idle" /\ UNCHANGED <<reserved, peak, asked>>
     \/ \E base \in 0 .. PhysMax - HeaderSize : Reserve(base, HeaderSize, "idle")
  /\ UNCHANGED <<req, idx, range, calls>>

(* A call of memblock_reserve().                                           *)
CallReserve ==
  /\ stage = "idle" /\ calls < MaxCalls
  /\ \E base \in 0 .. PhysMax - 1, size \in Sizes :
       base + size <= PhysMax /\ Reserve(base, size, "idle")
  /\ calls' = calls + 1
  /\ UNCHANGED <<req, idx, range>>
-----------------------------------------------------------------------------
(* The gap in front of reserved region b (counted from 0): r_start, r_end. *)
GapStart(b) == IF b = 0 THEN 0 ELSE End(reserved.regions[b])
GapEnd(b) == IF b < Len(reserved.regions) THEN reserved.regions[b + 1].base ELSE PhysMax

(* __next_mem_range(): the first gap from *idx on that meets a region of   *)
(* the memory.  When there is none, *idx and the range keep their values.  *)
NextAt(a, b, i, r) ==
  LET m     == Memory[a + 1]
      gaps  == {g \in b .. Len(reserved.regions) :
                  GapStart(g) < End(m) /\ m.base < GapEnd(g)}
      g     == CHOOSE x \in gaps : \A y \in gaps : x <= y
  IN  IF a >= Len(Memory) \/ gaps = {} THEN idx' = i /\ range' = r
      ELSE /\ range' = <<Upper(m.base, GapStart(g)), Lower(End(m), GapEnd(g))>>
           /\ idx' = IF End(m) <= GapEnd(g) THEN <<a + 1, g>> ELSE <<a, g + 1>>
NextSkipsGap(i, r) == NextAt(i[1], i[2] + 1, i, r)
NextMemRange(i, r) == NextAt(i[1], i[2], i, r)

(* memblock_phys_alloc_range() (end 0 stands for the end of the memory)    *)
(* starts the search.  memblock_phys_alloc() is the call with Word, 0, 0.  *)
(* With all memory reserved, the loop body would read a range that nobody  *)
(* has set; the callers of the boot ask while some is left.                *)
CallPhysAlloc ==
  /\ stage = "idle" /\ calls < MaxCalls
  /\ ~ (0 .. PhysMax - 1 \subseteq Covered(reserved.regions))
  /\ \E size \in Sizes \ {0}, align \in Aligns, start \in {0, PhysMax \div 2} :
       req' = [size |-> size, align |-> align, start |-> start, end |-> PhysMax]
  /\ stage' = "find"
  /\ NextMemRange(<<0, 0>>, range)
  /\ calls' = calls + 1
  /\ UNCHANGED <<reserved, peak, asked>>

(* The loop body of memblock_find_in_range().                              *)
ThisEnd == Clamp(range[2], req.start, req.end)
Candidate == ALIGN(Clamp(range[1], req.start, req.end), req.align)
FitsLoose == Candidate < ThisEnd
Fits == Candidate < ThisEnd /\ ThisEnd - Candidate >= req.size

FindNext ==
  /\ stage = "find" /\ ~ Fits
  /\ NextMemRange(idx, range)
  /\ UNCHANGED <<stage, reserved, req, peak, asked, calls>>

(* The candidate is returned and, unless it is 0, reserved.                *)
FindReturns ==
  /\ stage = "find" /\ Fits
  /\ IF Candidate = 0 THEN stage' = "idle" /\ UNCHANGED <<reserved, peak, asked>>
     ELSE Reserve(Candidate, req.size, "idle")
  /\ req' = NoRequest /\ idx' = <<0, 0>> /\ range' = <<0, 0>>
  /\ UNCHANGED calls

BootNext == ReserveKernel \/ InitrdReserveMemory \/ FdtReserveMemory \/ CallReserve
            \/ CallPhysAlloc \/ FindNext \/ FindReturns

BootSpec == BootInit /\ [][BootNext]_bootVars /\ WF_bootVars(FindNext) /\ WF_bootVars(FindReturns)
-----------------------------------------------------------------------------
(* Whatever was reserved, in whatever order and overlapping whatever: the  *)
(* array covers exactly those addresses, in ascending regions that neither *)
(* overlap nor touch, and total_size counts each address once.             *)
(* page_frame_init() gives every other page away.                          *)
ReservedExact ==
  LET rs == reserved.regions IN
  /\ Covered(rs) = asked
  /\ reserved.total_size = Cardinality(asked)
  /\ \A i \in 1 .. Len(rs) - 1 : End(rs[i]) < rs[i + 1].base

(* The array never outgrows its MaxRegions elements, not even between the  *)
(* insertions and the merge, although nothing is counted while             *)
(* cnt * 2 + 1 < max.                                                      *)
ArrayBounded == peak <= MaxRegions

(* The lowest aligned address of the window from which size free addresses *)
(* follow, if there is one.                                                *)
Holes(q) == {a \in q.start .. q.end - 1 : a % q.align = 0 /\ a + q.size <= q.end
                                          /\ Span(a, q.size) \cap asked = {}}

(* memblock_find_in_range() hands out memory nobody has reserved, at the   *)
(* lowest address that serves the request.                                 *)
AllocIsFresh ==
  [][stage = "find" /\ stage' # "find" =>
       /\ Candidate \in Holes(req)
       /\ \A a \in Holes(req) : Candidate <= a]_bootVars

(* A search for which memory is left ends; the loop of                     *)
(* for_each_free_mem_range() has no other way to end.                      *)
SearchEnds == stage = "find" /\ Holes(req) # {} ~> stage # "find"
=============================================================================
