---------------------------- MODULE Fat32Proofs ----------------------------
(***************************************************************************)
(* Proofs about Fat32, for any size of the card.                           *)
(***************************************************************************)
EXTENDS Fat32, NatLemmas, FiniteSetTheorems, SequenceTheorems, TLAPS

(* get_free_fat_cluster() returns the index of an entry within its block:  *)
(* the hypothesis is that the first block of the table is not the first to *)
(* fill up, as when the table has one block.                               *)
FirstBlockServes == FreeEntries # {} => \E c \in FreeEntries : c < PerBlock

-----------------------------------------------------------------------------
(* The inductive invariant                                                 *)

DirClusters == {RootChain[k] : k \in DOMAIN RootChain} \cup {SubDir}
Entry == [attr : {"none", "lfn", "file", "dir"}, stem : Stems \cup {""},
          cluster : Clusters, size : Nat]

CardTyped ==
  /\ fat \in [Clusters -> Clusters \cup {EOC}]
  /\ dirs \in [DirClusters -> [1 .. DirSlots -> Entry]]
  /\ data \in [Clusters -> Contents]

MemTyped ==
  /\ nodes \in Seq(Inodes)
  /\ create \in Clusters \cup {None} /\ torn \subseteq Clusters
  /\ DOMAIN acked \subseteq Clusters /\ acked \in [DOMAIN acked -> Contents]

(* The directories' chains are as they were formatted.                     *)
ChainsKept ==
  /\ fat[0] # FREE /\ fat[1] # FREE /\ fat[SubDir] = EOC
  /\ \A k \in DOMAIN RootChain :
       fat[RootChain[k]] = IF k = Len(RootChain) THEN EOC ELSE RootChain[k + 1]

(* The one directory entry stays, and no file has a directory's cluster.   *)
DirsKept ==
  \A d \in DirClusters, s \in 1 .. DirSlots :
    /\ dirs[d][s].attr = "dir" => d = root_dir /\ s = 2 /\ dirs[d][s].cluster = SubDir
    /\ dirs[d][s].attr = "file" => dirs[d][s].cluster \notin DirClusters
    /\ dirs[d][s].attr \in {"none", "lfn"} => dirs[d][s].cluster = 0

(* A create under way has a free cluster, or there is none.                *)
CreateFree == create # None => fat[create] = FREE \/ (create = 0 /\ FreeEntries = {})

(* Clusters that are not torn: one entry, one inode, taken in the table,   *)
(* untouched while free.                                                   *)
Whole == {c \in Clusters : c >= 2 /\ c \notin torn}
EntriesOnce == \A c \in Whole : \A x, y \in EntriesOf(c) : x = y
EntriesTaken == \A c \in Whole \ {create} : EntriesOf(c) # {} => fat[c] # FREE
InodesOnce ==
  \A m, n \in DOMAIN nodes :
    nodes[m].type = "file" /\ nodes[n].type = "file" /\ nodes[m].cluster \in Whole
    /\ nodes[m].cluster = nodes[n].cluster => m = n
InodesTaken ==
  \A n \in DOMAIN nodes :
    nodes[n].type = "file" /\ nodes[n].cluster \in Whole \ {create} => fat[nodes[n].cluster] # FREE
InodesShow ==
  \A n \in DOMAIN nodes :
    nodes[n].type = "file" /\ nodes[n].cluster \in Whole => nodes[n].data = data[nodes[n].cluster]
DirInodes ==
  \A n \in DOMAIN nodes : nodes[n].type = "dir" => nodes[n].cluster \in {root_dir, SubDir, 0}
FreeUntouched == \A c \in Whole : fat[c] = FREE => data[c] = Zeros

AckedOnCard ==
  \A c \in DOMAIN acked :
    /\ c >= 2 /\ EntriesOf(c) # {} /\ fat[c] # FREE
    /\ c \in Whole => data[c] = acked[c]

(* A directory of the card has one inode, whose childs are at least the    *)
(* ones a scan finds.                                                      *)
DirsOnce ==
  \A m, n \in DOMAIN nodes :
    nodes[m].type = "dir" /\ nodes[n].type = "dir" /\ nodes[m].cluster # 0
    /\ nodes[m].cluster = nodes[n].cluster => m = n
ScanShown ==
  \A n \in DOMAIN nodes :
    nodes[n].type = "dir" /\ nodes[n].cluster # 0 =>
      Len(ScanDir(nodes[n].cluster)) <= Len(nodes[n].childs)

CardInv == CardTyped /\ ChainsKept /\ DirsKept
EntriesInv == EntriesOnce /\ EntriesTaken /\ FreeUntouched /\ AckedOnCard
InodesInv == DirInodes /\ InodesOnce /\ InodesTaken /\ InodesShow
ScanInv == DirsOnce /\ ScanShown /\ ScanFits
FatInv == CardInv /\ MemTyped /\ CreateFree /\ EntriesInv /\ InodesInv /\ ScanInv

-----------------------------------------------------------------------------
(* The directories                                                         *)

Most == FatBlocks * PerBlock

(* The sizes of the card and its directories.                              *)
LEMMA Layout ==
  /\ PerBlock \in Nat \ {0} /\ FatBlocks \in Nat \ {0} /\ DirSlots \in Nat \ {0}
  /\ MAX_DIR_NUM \in Nat \ {0} /\ BlockLen \in Nat \ {0}
  /\ Most \in Nat /\ Clusters = 0 .. Most - 1 /\ PerBlock <= Most
  /\ Len(RootChain) \in Nat \ {0} /\ DOMAIN RootChain = 1 .. Len(RootChain)
  /\ RootChain[1] = root_dir
  /\ SubDir \in DirClusters /\ root_dir \in DirClusters /\ root_dir # SubDir
  /\ \A d \in DirClusters : d \in Clusters /\ d >= 2 /\ Valid(d)
  /\ \A k \in DOMAIN RootChain : RootChain[k] \in DirClusters /\ RootChain[k] # SubDir
<1>1. /\ PerBlock \in Nat \ {0} /\ FatBlocks \in Nat \ {0} /\ DirSlots \in Nat \ {0}
      /\ MAX_DIR_NUM \in Nat \ {0} /\ BlockLen \in Nat \ {0}
  BY Fat32Assumption
<1>2. Most \in Nat /\ PerBlock <= Most
  <2>1. 1 * PerBlock <= FatBlocks * PerBlock /\ FatBlocks * PerBlock \in Nat
    BY <1>1
  <2> QED
    BY <1>1, <2>1 DEF Most
<1>3. Clusters = 0 .. Most - 1
  BY DEF Clusters, Most
<1>4. /\ Len(RootChain) \in Nat \ {0} /\ DOMAIN RootChain = 1 .. Len(RootChain)
      /\ \A k \in DOMAIN RootChain : RootChain[k] \in Clusters \ {0, 1, SubDir}
  BY Fat32Assumption
<1>5. \A k \in DOMAIN RootChain : RootChain[k] \in DirClusters /\ RootChain[k] # SubDir
  BY <1>4 DEF DirClusters
<1>6. SubDir \in DirClusters /\ SubDir \in Clusters \ {0, 1}
  BY Fat32Assumption DEF DirClusters
<1>7. 1 \in DOMAIN RootChain /\ RootChain[1] = root_dir
  BY <1>4 DEF root_dir
<1>8. ASSUME NEW d \in DirClusters PROVE d \in Clusters /\ d >= 2 /\ Valid(d)
  <2>1. d \in Clusters \ {0, 1}
    BY <1>4, <1>6 DEF DirClusters
  <2>2. d \in Nat
    BY <1>2, <1>3, <2>1
  <2> QED
    BY <2>1, <2>2 DEF Valid
<1> QED
  BY <1>1, <1>2, <1>3, <1>4, <1>5, <1>6, <1>7, <1>8

(* One step along a chain.                                                 *)
NextIn(c0, ch) ==
  LET c == IF ch = <<>> THEN c0 ELSE ReadFatEntry(ch[Len(ch)]) IN
  IF Valid(c) THEN Append(ch, c) ELSE ch

(* Sets V[k] that k steps along a chain lead into have the one that is     *)
(* read.                                                                   *)
LEMMA ChainIn ==
  ASSUME NEW c0, NEW V, <<>> \in V[0],
         \A k \in 1 .. Most : \A ch \in V[k - 1] : NextIn(c0, ch) \in V[k]
  PROVE  Chain(c0) \in V[Most]
<1> DEFINE n == Most
           X == UNION {V[k] : k \in 0 .. n}
           R == [x \in X \X (1 .. n) |-> IF NextIn(c0, x[1]) \in X THEN NextIn(c0, x[1]) ELSE <<>>]
           body(f, k) == IF k = 0 THEN <<>> ELSE NextIn(c0, f[k - 1])
           F == CHOOSE f : f = [k \in 0 .. n |-> body(f, k)]
<1>1. n \in Nat
  BY Layout
<1>2. Chain(c0) = F[n]
  BY Zenon DEF Chain, NextIn, F, n, Most
<1>3. \A k \in 1 .. n : \A ch \in V[k - 1] : NextIn(c0, ch) \in V[k]
  OBVIOUS
<1> HIDE DEF n
<1>4. /\ 0 \in 0 .. n /\ n \in 0 .. n
      /\ \A k \in 1 .. n : k \in 0 .. n /\ k - 1 \in 0 .. n /\ k # 0
  BY <1>1
<1>5. /\ R \in [X \X (1 .. n) -> X] /\ <<>> \in X
      /\ \A x \in X, k \in 1 .. n : NextIn(c0, x) \in X => R[<<x, k>>] = NextIn(c0, x)
      /\ \A k \in 0 .. n : V[k] \subseteq X
  <2>1. <<>> \in X
    BY <1>4
  <2>2. \A k \in 0 .. n : V[k] \subseteq X
    OBVIOUS
  <2> HIDE DEF X
  <2> QED
    BY <2>1, <2>2
<1> HIDE DEF X, R
<1>6. PICK f \in [0 .. n -> X] : Iterates(f, n, <<>>, R)
  BY <1>1, <1>5, Iteration
<1>7. f[0] \in V[0]
  BY <1>6 DEF Iterates
<1>8. ASSUME NEW k \in 1 .. n, f[k - 1] \in V[k - 1]
      PROVE  f[k] = NextIn(c0, f[k - 1]) /\ f[k] \in V[k]
  <2>1. NextIn(c0, f[k - 1]) \in V[k]
    BY <1>3, <1>8
  <2>2. f[k] = R[<<f[k - 1], k>>] /\ f[k - 1] \in X
    BY <1>4, <1>6 DEF Iterates
  <2> QED
    BY <1>4, <1>5, <2>1, <2>2
<1>9. \A k \in 0 .. n : f[k] \in V[k]
  BY <1>1, <1>7, <1>8, LoopInvariant
<1>10. \A k \in 0 .. n : f[k] = body(f, k)
  <2> SUFFICES ASSUME NEW k \in 0 .. n, k # 0 PROVE f[k] = NextIn(c0, f[k - 1])
    BY <1>6 DEF Iterates
  <2>1. k \in 1 .. n
    BY <1>1
  <2> QED
    BY <1>4, <1>8, <1>9, <2>1
<1>11. f = [k \in 0 .. n |-> body(f, k)]
  BY <1>10
<1>12. F = [k \in 0 .. n |-> body(F, k)]
  BY <1>11, Zenon
<1> HIDE DEF F
<1>13. F[0] = <<>> /\ \A k \in 1 .. n : F[k] = NextIn(c0, F[k - 1])
  <2>1. \A k \in 0 .. n : F[k] = body(F, k)
    BY <1>12
  <2> QED
    BY <1>4, <2>1
<1>14. \A k \in 1 .. n : F[k - 1] \in V[k - 1] => F[k] \in V[k]
  BY <1>3, <1>13
<1>15. \A k \in 0 .. n : F[k] \in V[k]
  BY <1>1, <1>13, <1>14, LoopInvariant
<1> QED
  BY <1>2, <1>4, <1>15 DEF n

(* The clusters of a directory are the ones it was formatted with: all     *)
(* different, and directories' clusters.                                   *)
RootLen == IF Most < Len(RootChain) THEN Most ELSE Len(RootChain)
ChainOf(c) ==
  IF c = root_dir THEN [j \in 1 .. RootLen |-> RootChain[j]]
  ELSE IF c = SubDir THEN <<SubDir>> ELSE <<>>
IsChain(ch, c) ==
  /\ ch \in Seq(DirClusters) /\ Len(ch) <= Len(RootChain)
  /\ \A j, k \in DOMAIN ch : ch[j] = ch[k] => j = k
  /\ c = root_dir => \A j \in DOMAIN ch : ch[j] # SubDir
  /\ c = SubDir => \A j \in DOMAIN ch : ch[j] = SubDir
  /\ c = 0 => ch = <<>>

(* The chains of the formatted card are such chains.                       *)
LEMMA ChainOfIs ==
  ASSUME NEW c \in {root_dir, SubDir, 0}
  PROVE  IsChain(ChainOf(c), c)
<1>1. CASE c = root_dir
  <2>1. PICK ch : ch = ChainOf(c)
    OBVIOUS
  <2>2. RootLen \in Nat /\ RootLen <= Len(RootChain)
    BY Layout DEF RootLen
  <2>3. \A j \in 1 .. RootLen : j \in DOMAIN RootChain
    BY <2>2, Layout
  <2>4. ch \in [1 .. RootLen -> DirClusters] /\ \A j \in 1 .. RootLen : ch[j] = RootChain[j]
    BY <1>1, <2>1, <2>3, Layout DEF ChainOf
  <2>5. ch \in Seq(DirClusters) /\ Len(ch) = RootLen /\ DOMAIN ch = 1 .. RootLen
    BY <2>2, <2>4, SeqDef
  <2>6. \A j, k \in DOMAIN ch : ch[j] = ch[k] => j = k
    BY <2>3, <2>4, <2>5, Fat32Assumption
  <2>7. \A j \in DOMAIN ch : ch[j] # SubDir
    BY <2>3, <2>4, <2>5, Layout
  <2>8. c # SubDir /\ c # 0
    BY <1>1, Layout
  <2> QED
    BY <2>1, <2>2, <2>5, <2>6, <2>7, <2>8 DEF IsChain
<1>2. CASE c = SubDir
  <2>1. PICK ch : ch = <<SubDir>>
    OBVIOUS
  <2>2. c # root_dir /\ c # 0 /\ ch = ChainOf(c)
    BY <1>2, <2>1, Layout DEF ChainOf
  <2>3. /\ ch \in Seq(DirClusters) /\ Len(ch) = 1 /\ DOMAIN ch = {1} /\ ch[1] = SubDir
    BY <2>1, Layout
  <2> QED
    BY <2>2, <2>3, Layout DEF IsChain
<1>3. CASE c = 0
  <2>1. c # root_dir /\ c # SubDir
    BY <1>3, Layout
  <2>2. ChainOf(c) = <<>>
    BY <2>1 DEF ChainOf
  <2> QED
    BY <2>1, <2>2, Layout DEF IsChain
<1> QED
  BY <1>1, <1>2, <1>3

(* They are what following the table finds.                                *)
LEMMA DirChain ==
  ASSUME CardTyped, ChainsKept, NEW c \in {root_dir, SubDir, 0}
  PROVE  Chain(c) = ChainOf(c)
<1>1. CASE c = root_dir
  <2> DEFINE upto(k) == IF k < Len(RootChain) THEN k ELSE Len(RootChain)
             V == [k \in 0 .. Most |->
                     {ch \in Seq(DirClusters) :
                        Len(ch) = upto(k) /\ \A j \in DOMAIN ch : ch[j] = RootChain[j]}]
  <2>1. <<>> \in V[0]
    <3>1. 0 \in 0 .. Most /\ upto(0) = 0
      BY Layout
    <3> QED
      BY <3>1
  <2>2. ASSUME NEW k \in 1 .. Most, NEW ch \in V[k - 1] PROVE NextIn(c, ch) \in V[k]
    <3>1. PICK M \in Nat \ {0} : M = Len(RootChain) /\ DOMAIN RootChain = 1 .. M
      BY Layout
    <3>2. k \in Nat \ {0} /\ k \in 0 .. Most /\ k - 1 \in 0 .. Most
      BY Layout
    <3>3. ch \in Seq(DirClusters) /\ Len(ch) = upto(k - 1) /\ \A j \in DOMAIN ch : ch[j] = RootChain[j]
      BY <3>2
    <3>4. PICK m \in Nat : m = Len(ch)
      BY <3>3
    <3>5. /\ m <= M /\ DOMAIN ch = 1 .. m /\ (m < M => upto(k) = m + 1) /\ (m = M => upto(k) = M)
      BY <3>1, <3>2, <3>3, <3>4
    <3>6. PICK d : d = IF ch = <<>> THEN c ELSE ReadFatEntry(ch[m])
      OBVIOUS
    <3>7. NextIn(c, ch) = IF Valid(d) THEN Append(ch, d) ELSE ch
      BY <3>4, <3>6 DEF NextIn
    <3>8. d = IF m < M THEN RootChain[m + 1] ELSE EOC
      <4>1. CASE ch = <<>>
        <5>1. m = 0 /\ d = c
          BY <3>4, <3>6, <4>1
        <5> QED
          BY <1>1, <3>1, <5>1, Layout
      <4>2. CASE ch # <<>>
        <5>1. m \in 1 .. m /\ m \in DOMAIN RootChain
          BY <3>1, <3>3, <3>4, <3>5, <4>2
        <5>2. d = fat[RootChain[m]]
          BY <3>3, <3>5, <3>6, <4>2, <5>1 DEF ReadFatEntry
        <5>3. fat[RootChain[m]] = IF m = M THEN EOC ELSE RootChain[m + 1]
          BY <3>1, <5>1 DEF ChainsKept
        <5> QED
          BY <3>5, <5>2, <5>3
      <4> QED
        BY <4>1, <4>2
    <3>9. CASE m < M
      <4>1. m + 1 \in DOMAIN RootChain /\ d = RootChain[m + 1]
        BY <3>1, <3>8, <3>9
      <4>2. d \in DirClusters /\ Valid(d)
        BY <4>1, Layout
      <4>3. PICK e : e = Append(ch, d)
        OBVIOUS
      <4>4. /\ e \in Seq(DirClusters) /\ Len(e) = m + 1
            /\ \A j \in 1 .. m : e[j] = ch[j]
            /\ e[m + 1] = d
        BY <3>3, <3>4, <4>2, <4>3
      <4>5. \A j \in DOMAIN e : e[j] = RootChain[j]
        <5>1. DOMAIN e = 1 .. m + 1
          BY <4>4
        <5>2. \A j \in 1 .. m + 1 : j \in 1 .. m \/ j = m + 1
          BY <3>4
        <5> QED
          BY <3>3, <3>5, <4>1, <4>4, <5>1, <5>2
      <4>6. e \in V[k]
        BY <3>2, <3>5, <3>9, <4>4, <4>5
      <4> QED
        BY <3>7, <4>2, <4>3, <4>6
    <3>10. CASE ~ (m < M)
      <4>1. ~ Valid(d)
        BY <3>8, <3>10, Layout DEF Valid, EOC
      <4>2. m = M
        BY <3>5, <3>10
      <4> QED
        BY <3>2, <3>3, <3>4, <3>5, <3>7, <4>1, <4>2
    <3> QED
      BY <3>9, <3>10
  <2>3. \A k \in 1 .. Most : \A ch \in V[k - 1] : NextIn(c, ch) \in V[k]
    BY <2>2
  <2> HIDE DEF V
  <2>4. Chain(c) \in V[Most]
    BY <2>1, <2>3, ChainIn
  <2>5. PICK ch : ch = Chain(c)
    OBVIOUS
  <2>6. Most \in 0 .. Most /\ upto(Most) = RootLen /\ RootLen \in Nat
    BY Layout DEF RootLen
  <2>7. ch \in Seq(DirClusters) /\ Len(ch) = RootLen /\ \A j \in DOMAIN ch : ch[j] = RootChain[j]
    BY <2>4, <2>5, <2>6 DEF V
  <2>8. ch = [j \in 1 .. RootLen |-> RootChain[j]]
    <3>1. DOMAIN ch = 1 .. RootLen
      BY <2>6, <2>7
    <3>2. ch = [j \in DOMAIN ch |-> ch[j]]
      BY <2>7
    <3> QED
      BY <2>7, <3>1, <3>2
  <2> QED
    BY <1>1, <2>5, <2>8 DEF ChainOf
<1>2. CASE c = SubDir
  <2> DEFINE V == [k \in 0 .. Most |-> IF k = 0 THEN {<<>>} ELSE {<<SubDir>>}]
  <2>1. NextIn(c, <<>>) = <<SubDir>>
    BY <1>2, Layout DEF NextIn
  <2>2. NextIn(c, <<SubDir>>) = <<SubDir>>
    <3>1. <<SubDir>>[Len(<<SubDir>>)] = SubDir /\ <<SubDir>> # <<>>
      OBVIOUS
    <3>2. ReadFatEntry(SubDir) = EOC
      BY DEF ReadFatEntry, ChainsKept
    <3>3. ~ Valid(EOC)
      BY Layout DEF Valid, EOC
    <3> QED
      BY <3>1, <3>2, <3>3 DEF NextIn
  <2>3. 0 \in 0 .. Most /\ Most \in 0 .. Most /\ Most # 0
    BY Layout
  <2>4. <<>> \in V[0]
    BY <2>3
  <2>5. ASSUME NEW k \in 1 .. Most, NEW ch \in V[k - 1] PROVE NextIn(c, ch) \in V[k]
    <3>1. k \in 0 .. Most /\ k # 0 /\ k - 1 \in 0 .. Most
      BY Layout
    <3>2. ch \in {<<>>, <<SubDir>>}
      BY <3>1
    <3> QED
      BY <2>1, <2>2, <3>1, <3>2
  <2>6. Chain(c) \in V[Most]
    BY <2>4, <2>5, ChainIn
  <2>7. c # root_dir
    BY <1>2, Layout
  <2> QED
    BY <1>2, <2>3, <2>6, <2>7 DEF ChainOf
<1>3. CASE c = 0
  <2> DEFINE V == [k \in 0 .. Most |-> {<<>>}]
  <2>1. NextIn(c, <<>>) = <<>>
    BY <1>3 DEF NextIn, Valid
  <2>2. /\ 0 \in 0 .. Most /\ Most \in 0 .. Most
        /\ \A k \in 1 .. Most : k \in 0 .. Most /\ k - 1 \in 0 .. Most
    BY Layout
  <2>3. \A k \in 0 .. Most : V[k] = {<<>>}
    OBVIOUS
  <2> HIDE DEF V
  <2>4. <<>> \in V[0] /\ \A k \in 1 .. Most : \A ch \in V[k - 1] : NextIn(c, ch) \in V[k]
    BY <2>1, <2>2, <2>3
  <2>5. Chain(c) \in V[Most]
    BY <2>4, ChainIn
  <2>6. c # root_dir /\ c # SubDir
    BY <1>3, Layout
  <2> QED
    BY <2>2, <2>3, <2>5, <2>6 DEF ChainOf
<1> QED
  BY <1>1, <1>2, <1>3

(* The slots of a directory: all different, no more than the root          *)
(* directory was formatted with, each in a cluster of the directory.       *)
IsSlots(sl, c) ==
  /\ sl \in Seq(DirClusters \X (1 .. DirSlots)) /\ Len(sl) <= Len(RootChain) * DirSlots
  /\ \A j, k \in DOMAIN sl : sl[j] = sl[k] => j = k
  /\ c = root_dir => \A j \in DOMAIN sl : sl[j][1] # SubDir
  /\ c = SubDir => \A j \in DOMAIN sl : sl[j][1] = SubDir
  /\ c = 0 => sl = <<>>

SlotList(c) ==
  [k \in 1 .. Len(ChainOf(c)) * DirSlots |->
     <<ChainOf(c)[((k - 1) \div DirSlots) + 1], ((k - 1) % DirSlots) + 1>>]

(* The slots of these chains are such slots.                               *)
LEMMA SlotListIs ==
  ASSUME NEW c \in {root_dir, SubDir, 0}
  PROVE  IsSlots(SlotList(c), c)
<1>1. PICK ch : ch = ChainOf(c)
  OBVIOUS
<1>2. IsChain(ch, c)
  BY <1>1, ChainOfIs
<1>3. PICK D \in Nat \ {0} : D = DirSlots
  BY Layout
<1>4. PICK L \in Nat : L = Len(ch)
  BY <1>2 DEF IsChain
<1>5. DOMAIN ch = 1 .. L /\ \A a \in 1 .. L : ch[a] \in DirClusters
  BY <1>2, <1>4 DEF IsChain
<1>6. PICK M \in Nat : M = Len(RootChain)
  BY Layout
<1>7. L * D \in Nat /\ L * D <= M * D
  <2>1. L <= M
    BY <1>2, <1>4, <1>6 DEF IsChain
  <2> QED
    BY <2>1
<1>8. PICK N \in Nat : N = L * D
  BY <1>7
<1>9. PICK sl : sl = SlotList(c)
  OBVIOUS
<1> DEFINE A(k) == (k - 1) \div D
           Bt(k) == (k - 1) % D
<1>10. sl = [k \in 1 .. N |-> <<ch[A(k) + 1], Bt(k) + 1>>]
  BY <1>1, <1>3, <1>4, <1>8, <1>9 DEF SlotList
<1>11. ASSUME NEW k \in 1 .. N
       PROVE  /\ A(k) \in Nat /\ A(k) < L /\ Bt(k) \in 0 .. D - 1 /\ k - 1 = D * A(k) + Bt(k)
  <2>1. k - 1 \in Nat /\ k - 1 < L * D
    BY <1>8
  <2>2. A(k) \in Nat /\ A(k) < L
    BY <2>1, Quotient
  <2>3. Bt(k) \in 0 .. D - 1 /\ k - 1 = D * A(k) + Bt(k)
    BY <2>1
  <2> QED
    BY <2>2, <2>3
<1> HIDE DEF A, Bt
<1>12. ASSUME NEW k \in 1 .. N
       PROVE  /\ A(k) + 1 \in 1 .. L /\ Bt(k) + 1 \in 1 .. DirSlots
              /\ sl[k] = <<ch[A(k) + 1], Bt(k) + 1>>
              /\ sl[k] \in DirClusters \X (1 .. DirSlots)
  <2>1. A(k) + 1 \in 1 .. L /\ Bt(k) + 1 \in 1 .. DirSlots
    BY <1>3, <1>11
  <2>2. sl[k] = <<ch[A(k) + 1], Bt(k) + 1>>
    BY <1>10
  <2> QED
    BY <1>5, <2>1, <2>2
<1>13. sl \in [1 .. N -> DirClusters \X (1 .. DirSlots)]
  BY <1>10, <1>12
<1>14. sl \in Seq(DirClusters \X (1 .. DirSlots)) /\ Len(sl) = N /\ DOMAIN sl = 1 .. N
  BY <1>13, SeqDef
<1>15. ASSUME NEW j \in 1 .. N, NEW k \in 1 .. N, sl[j] = sl[k] PROVE j = k
  <2>1. PICK a \in 1 .. L, e \in 1 .. DirSlots : a = A(j) + 1 /\ e = Bt(j) + 1
    BY <1>12
  <2>2. PICK b \in 1 .. L, g \in 1 .. DirSlots : b = A(k) + 1 /\ g = Bt(k) + 1
    BY <1>12
  <2>3. ch[a] = ch[b] /\ e = g
    BY <1>12, <1>15, <2>1, <2>2
  <2>4. a = b
    BY <1>2, <1>5, <2>3 DEF IsChain
  <2>5. A(j) = A(k) /\ Bt(j) = Bt(k)
    <3>1. A(j) \in Nat /\ A(k) \in Nat /\ Bt(j) \in 0 .. D - 1 /\ Bt(k) \in 0 .. D - 1
      BY <1>11
    <3>2. A(j) + 1 = A(k) + 1 /\ Bt(j) + 1 = Bt(k) + 1
      BY <2>1, <2>2, <2>3, <2>4
    <3> QED
      BY <3>1, <3>2
  <2> QED
    BY <1>11, <2>5
<1>16. c = root_dir => \A j \in 1 .. N : sl[j][1] # SubDir
  BY <1>2, <1>5, <1>12 DEF IsChain
<1>17. c = SubDir => \A j \in 1 .. N : sl[j][1] = SubDir
  BY <1>2, <1>5, <1>12 DEF IsChain
<1>18. c = 0 => sl = <<>>
  <2> SUFFICES ASSUME c = 0 PROVE sl = <<>>
    OBVIOUS
  <2>1. L = 0
    BY <1>2, <1>4 DEF IsChain
  <2>2. N = 0
    BY <1>3, <1>8, <2>1
  <2> QED
    BY <1>14, <2>2
<1>19. Len(sl) <= Len(RootChain) * DirSlots
  BY <1>3, <1>6, <1>7, <1>8, <1>14
<1> QED
  BY <1>9, <1>14, <1>15, <1>16, <1>17, <1>18, <1>19 DEF IsSlots

(* They are the slots that the loops over a directory go through.          *)
LEMMA DirSlotsOf ==
  ASSUME CardTyped, ChainsKept, NEW c \in {root_dir, SubDir, 0}
  PROVE  SlotsOf(c) = SlotList(c) /\ IsSlots(SlotsOf(c), c)
<1>1. Chain(c) = ChainOf(c)
  BY DirChain
<1>2. SlotsOf(c) = SlotList(c)
  BY <1>1, Zenon DEF SlotsOf, SlotList
<1> QED
  BY <1>2, SlotListIs

-----------------------------------------------------------------------------
(* Scanning a directory                                                    *)

(* What the entry of a slot is, and whether a scan shows it.               *)
EntryAt(x) == dirs[x[1]][x[2]]
Shown(x) == EntryAt(x).attr \in {"file", "dir"}

(* What fat32_create_vnode() makes of values of the right types.           *)
LEMMA InodeTyped ==
  ASSUME NEW a \in {"file", "dir"}, NEW nm \in [stem : Stems \cup {""}, dot : BOOLEAN],
         NEW ch \in Seq(Nat), NEW cl \in Clusters, NEW sz \in Nat, NEW dt \in Contents
  PROVE  [type |-> a, name |-> nm, childs |-> ch, cluster |-> cl, data_size |-> sz,
          data |-> dt] \in Inodes
<1>1. PICK T, NM, Cs : /\ T = {"file", "dir"} /\ NM = [stem : Stems \cup {""}, dot : BOOLEAN]
                       /\ Cs = Seq(Nat)
  OBVIOUS
<1>2. Inodes = [type : T, name : NM, childs : Cs, cluster : Clusters, data_size : Nat,
                data : Contents]
  BY <1>1, Zenon DEF Inodes
<1>3. a \in T /\ nm \in NM /\ ch \in Cs
  BY <1>1
<1> QED
  BY <1>2, <1>3

(* The fields of an inode, and what is left of it when some are set.       *)
LEMMA InodeFields ==
  ASSUME NEW n \in Inodes
  PROVE  /\ n.type \in {"file", "dir"} /\ n.name \in [stem : Stems \cup {""}, dot : BOOLEAN]
         /\ n.childs \in Seq(Nat) /\ n.cluster \in Clusters /\ n.data_size \in Nat
         /\ n.data \in Contents
<1>1. PICK T, NM, Cs : /\ T = {"file", "dir"} /\ NM = [stem : Stems \cup {""}, dot : BOOLEAN]
                       /\ Cs = Seq(Nat)
  OBVIOUS
<1>2. Inodes = [type : T, name : NM, childs : Cs, cluster : Clusters, data_size : Nat,
                data : Contents]
  BY <1>1, Zenon DEF Inodes
<1>3. n.type \in T /\ n.name \in NM /\ n.childs \in Cs /\ n.cluster \in Clusters
      /\ n.data_size \in Nat /\ n.data \in Contents
  BY <1>2
<1> QED
  BY <1>1, <1>3

(* An entry that is shown becomes an inode.                                *)
LEMMA EntryInode ==
  ASSUME CardTyped, NEW x \in DirClusters \X (1 .. DirSlots)
  PROVE  /\ EntryAt(x) \in Entry
         /\ Shown(x) => InodeOf(EntryAt(x)) \in Inodes
         /\ InodeOf(EntryAt(x)).type = EntryAt(x).attr
         /\ InodeOf(EntryAt(x)).cluster = EntryAt(x).cluster
         /\ InodeOf(EntryAt(x)).data = data[EntryAt(x).cluster]
<1>1. EntryAt(x) \in Entry
  BY DEF CardTyped, EntryAt
<1>2. PICK e \in Entry : e = EntryAt(x)
  BY <1>1
<1>3. /\ e.attr \in {"none", "lfn", "file", "dir"} /\ e.stem \in Stems \cup {""}
      /\ e.cluster \in Clusters /\ e.size \in Nat
  BY DEF Entry
<1>4. data[e.cluster] \in Contents
  BY <1>3 DEF CardTyped
<1>5. ASSUME e.attr \in {"file", "dir"} PROVE InodeOf(e) \in Inodes
  <2>1. PICK b \in BOOLEAN : b = (e.attr = "file")
    BY Zenon
  <2>2. PICK nm : nm = [stem |-> e.stem, dot |-> b]
    OBVIOUS
  <2>3. nm \in [stem : Stems \cup {""}, dot : BOOLEAN]
    BY <1>3, <2>2
  <2>4. InodeOf(e) = [type |-> e.attr, name |-> nm, childs |-> <<>>, cluster |-> e.cluster,
                      data_size |-> e.size, data |-> data[e.cluster]]
    BY <2>1, <2>2, Zenon DEF InodeOf, CreateVnode
  <2>5. <<>> \in Seq(Nat)
    OBVIOUS
  <2> QED
    <3>1. PICK a, cl, sz, dt : a = e.attr /\ cl = e.cluster /\ sz = e.size /\ dt = data[e.cluster]
      OBVIOUS
    <3>2. a \in {"file", "dir"} /\ cl \in Clusters /\ sz \in Nat /\ dt \in Contents
      BY <1>3, <1>4, <1>5, <3>1
    <3>3. [type |-> a, name |-> nm, childs |-> <<>>, cluster |-> cl,
           data_size |-> sz, data |-> dt] \in Inodes
      BY <2>3, <2>5, <3>2, InodeTyped
    <3> QED
      BY <2>4, <3>1, <3>3, Zenon
<1>6. InodeOf(e).type = e.attr /\ InodeOf(e).cluster = e.cluster /\ InodeOf(e).data = data[e.cluster]
  BY DEF InodeOf, CreateVnode
<1> QED
  BY <1>1, <1>2, <1>5, <1>6 DEF Shown

(* After k slots the scan has an inode for each that is shown, in order.   *)
ShownUpTo(sl, k) == {j \in 1 .. k : Shown(sl[j])}
Sources(kids, k, sl, src) ==
  /\ src \in [1 .. Len(kids) -> 1 .. k]
  /\ \A i, j \in 1 .. Len(kids) : src[i] = src[j] => i = j
  /\ \A i \in 1 .. Len(kids) : Shown(sl[src[i]]) /\ kids[i] = InodeOf(EntryAt(sl[src[i]]))
IsScan(kids, k, sl) ==
  /\ kids \in Seq(Inodes) /\ Len(kids) <= k
  /\ Len(kids) = Cardinality(ShownUpTo(sl, k))
  /\ \E src : Sources(kids, k, sl, src)
ScanStep(sl, kids, k) ==
  IF EntryAt(sl[k]).attr \in {"file", "dir"} THEN Append(kids, InodeOf(EntryAt(sl[k]))) ELSE kids

(* Every slot keeps that so.                                               *)
LEMMA ScanStepIs ==
  ASSUME CardTyped, NEW sl \in Seq(DirClusters \X (1 .. DirSlots)), NEW k \in 1 .. Len(sl),
         NEW kids, IsScan(kids, k - 1, sl)
  PROVE  IsScan(ScanStep(sl, kids, k), k, sl)
<1>1. /\ k \in Nat \ {0} /\ k - 1 \in Nat /\ k \in DOMAIN sl /\ kids \in Seq(Inodes)
      /\ Len(kids) <= k - 1 /\ Len(kids) = Cardinality(ShownUpTo(sl, k - 1))
  BY DEF IsScan
<1>2. PICK src : Sources(kids, k - 1, sl, src)
  BY DEF IsScan
<1>3. PICK n \in Nat : n = Len(kids)
  BY <1>1
<1>4. sl[k] \in DirClusters \X (1 .. DirSlots)
  BY <1>1
<1>5. \A j \in 1 .. k - 1 : j \in 1 .. k
  BY <1>1
<1>6. CASE ~ Shown(sl[k])
  <2>1. ScanStep(sl, kids, k) = kids
    BY <1>6 DEF ScanStep, Shown
  <2>2. ShownUpTo(sl, k) = ShownUpTo(sl, k - 1)
    BY <1>1, <1>6 DEF ShownUpTo
  <2>3. Sources(kids, k, sl, src)
    <3>1. src \in [1 .. Len(kids) -> 1 .. k]
      BY <1>2, <1>5 DEF Sources
    <3> QED
      BY <1>2, <3>1 DEF Sources
  <2>4. Len(kids) <= k
    BY <1>1
  <2> QED
    BY <1>1, <2>1, <2>2, <2>3, <2>4 DEF IsScan
<1>7. CASE Shown(sl[k])
  <2>1. PICK x : x = InodeOf(EntryAt(sl[k]))
    OBVIOUS
  <2>2. PICK ks : ks = Append(kids, x)
    OBVIOUS
  <2>3. ScanStep(sl, kids, k) = ks
    BY <1>7, <2>1, <2>2 DEF ScanStep, Shown
  <2>4. x \in Inodes
    BY <1>4, <1>7, <2>1, EntryInode
  <2>5. /\ ks \in Seq(Inodes) /\ Len(ks) = n + 1 /\ ks[n + 1] = x
        /\ \A i \in 1 .. n : ks[i] = kids[i]
    BY <1>1, <1>3, <2>2, <2>4
  <2>6. Len(ks) <= k
    BY <1>1, <1>3, <2>5
  <2>7. Len(ks) = Cardinality(ShownUpTo(sl, k))
    <3>1. ShownUpTo(sl, k) = ShownUpTo(sl, k - 1) \cup {k}
      BY <1>1, <1>7 DEF ShownUpTo
    <3>2. k \notin ShownUpTo(sl, k - 1)
      BY <1>1 DEF ShownUpTo
    <3>3. IsFiniteSet(ShownUpTo(sl, k - 1))
      <4>1. IsFiniteSet(1 .. k - 1)
        BY <1>1, FS_Interval
      <4>2. ShownUpTo(sl, k - 1) \subseteq 1 .. k - 1
        BY DEF ShownUpTo
      <4> QED
        BY <4>1, <4>2, FS_Subset
    <3>4. Cardinality(ShownUpTo(sl, k - 1) \cup {k}) = Cardinality(ShownUpTo(sl, k - 1)) + 1
      BY <3>2, <3>3, FS_AddElement
    <3> QED
      BY <1>1, <1>3, <2>5, <3>1, <3>4
  <2> DEFINE to == [i \in 1 .. n + 1 |-> IF i = n + 1 THEN k ELSE src[i]]
  <2>8. Sources(ks, k, sl, to)
    <3>1. ASSUME NEW i \in 1 .. n
          PROVE  i \in 1 .. n + 1 /\ to[i] = src[i] /\ src[i] \in 1 .. k - 1 /\ src[i] # k
      <4>1. src[i] \in 1 .. k - 1
        BY <1>2, <1>3 DEF Sources
      <4>2. src[i] # k
        BY <1>1, <4>1
      <4>3. i \in 1 .. n + 1 /\ i # n + 1
        BY <1>3
      <4> QED
        BY <4>1, <4>2, <4>3
    <3>2. n + 1 \in 1 .. n + 1 /\ to[n + 1] = k
      BY <1>3
    <3>3. \A i \in 1 .. n + 1 : i \in 1 .. n \/ i = n + 1
      BY <1>3
    <3> HIDE DEF to
    <3>4. \A i \in 1 .. n + 1 : to[i] \in 1 .. k
      <4>1. k \in 1 .. k
        BY <1>1
      <4> QED
        BY <1>5, <3>1, <3>2, <3>3, <4>1
    <3>5. to \in [1 .. n + 1 -> 1 .. k]
      BY <3>4 DEF to
    <3>6. ASSUME NEW i \in 1 .. n + 1, NEW j \in 1 .. n + 1, to[i] = to[j] PROVE i = j
      <4>1. CASE i \in 1 .. n /\ j \in 1 .. n
        BY <1>2, <1>3, <3>1, <3>6, <4>1 DEF Sources
      <4>2. CASE i \in 1 .. n /\ j = n + 1
        BY <3>1, <3>2, <3>6, <4>2
      <4>3. CASE i = n + 1 /\ j \in 1 .. n
        BY <3>1, <3>2, <3>6, <4>3
      <4> QED
        BY <3>3, <4>1, <4>2, <4>3
    <3>7. ASSUME NEW i \in 1 .. n + 1
          PROVE  Shown(sl[to[i]]) /\ ks[i] = InodeOf(EntryAt(sl[to[i]]))
      <4>1. CASE i \in 1 .. n
        BY <1>2, <1>3, <2>5, <3>1, <4>1 DEF Sources
      <4>2. CASE i = n + 1
        BY <1>7, <2>1, <2>5, <3>2, <4>2
      <4> QED
        BY <3>3, <4>1, <4>2
    <3> QED
      BY <2>5, <3>5, <3>6, <3>7 DEF Sources
  <2> HIDE DEF to
  <2> QED
    BY <2>3, <2>5, <2>6, <2>7, <2>8 DEF IsScan
<1> QED
  BY <1>6, <1>7

(* So has the whole scan of a directory.                                   *)
LEMMA ScanIs ==
  ASSUME CardTyped, ChainsKept, NEW c \in {root_dir, SubDir, 0}
  PROVE  IsScan(ScanDir(c), Len(SlotsOf(c)), SlotsOf(c))
<1>1. PICK sl : sl = SlotsOf(c)
  OBVIOUS
<1>2. sl \in Seq(DirClusters \X (1 .. DirSlots))
  BY <1>1, DirSlotsOf DEF IsSlots
<1> DEFINE n == Len(sl)
           X == Seq(Inodes)
           R == [x \in X \X (1 .. n) |-> ScanStep(sl, x[1], x[2])]
           body(f, k) == IF k = 0 THEN <<>> ELSE ScanStep(sl, f[k - 1], k)
           F == CHOOSE f : f = [k \in 0 .. n |-> body(f, k)]
<1>3. n \in Nat /\ <<>> \in X
  BY <1>2
<1>4. ScanDir(c) = F[n]
  BY <1>1, Zenon DEF ScanDir, ScanStep, EntryAt, F, n
<1>5. ASSUME NEW kids \in X, NEW k \in 1 .. n PROVE ScanStep(sl, kids, k) \in X
  <2>1. sl[k] \in DirClusters \X (1 .. DirSlots)
    BY <1>2
  <2>2. Shown(sl[k]) => InodeOf(EntryAt(sl[k])) \in Inodes
    BY <2>1, EntryInode
  <2> QED
    BY <2>2 DEF ScanStep, Shown
<1> HIDE DEF n, X
<1>6. R \in [X \X (1 .. n) -> X]
  BY <1>5
<1>7. PICK f \in [0 .. n -> X] : Iterates(f, n, <<>>, R)
  <2> HIDE DEF R
  <2> QED
    BY <1>3, <1>6, Iteration
<1>8. \A k \in 0 .. n : f[k] = body(f, k)
  <2> SUFFICES ASSUME NEW k \in 0 .. n, k # 0 PROVE f[k] = ScanStep(sl, f[k - 1], k)
    BY <1>7 DEF Iterates
  <2>1. k \in 1 .. n /\ k - 1 \in 0 .. n
    BY <1>3
  <2>2. f[k - 1] \in X
    BY <2>1
  <2>3. f[k] = R[<<f[k - 1], k>>]
    BY <1>7, <2>1 DEF Iterates
  <2> QED
    BY <2>1, <2>2, <2>3
<1>9. f = [k \in 0 .. n |-> body(f, k)]
  BY <1>8
<1>10. F = [k \in 0 .. n |-> body(F, k)]
  BY <1>9, Zenon
<1> HIDE DEF F
<1>11. F[0] = <<>> /\ \A k \in 1 .. n : F[k] = ScanStep(sl, F[k - 1], k)
  <2>1. \A k \in 0 .. n : F[k] = body(F, k)
    BY <1>10
  <2>2. 0 \in 0 .. n /\ \A k \in 1 .. n : k \in 0 .. n /\ k # 0
    BY <1>3
  <2> QED
    BY <2>1, <2>2
<1> DEFINE V == [k \in 0 .. n |-> {x \in X : IsScan(x, k, sl)}]
<1>12. \A k \in 0 .. n : \A x : x \in V[k] <=> IsScan(x, k, sl)
  BY DEF IsScan, X
<1>13. /\ 0 \in 0 .. n /\ n \in 0 .. n
       /\ \A k \in 1 .. n : k \in 0 .. n /\ k - 1 \in 0 .. n /\ k \in 1 .. Len(sl)
  BY <1>3 DEF n
<1> HIDE DEF V
<1>14. \A k \in 1 .. n : F[k - 1] \in V[k - 1] => F[k] \in V[k]
  <2> SUFFICES ASSUME NEW k \in 1 .. n, F[k - 1] \in V[k - 1] PROVE F[k] \in V[k]
    OBVIOUS
  <2>1. IsScan(F[k - 1], k - 1, sl)
    BY <1>12, <1>13
  <2>2. IsScan(ScanStep(sl, F[k - 1], k), k, sl)
    BY <1>2, <1>13, <2>1, ScanStepIs
  <2> QED
    BY <1>11, <1>12, <1>13, <2>2
<1>15. F[0] \in V[0]
  <2>1. ShownUpTo(sl, 0) = {}
    BY DEF ShownUpTo
  <2>2. Len(<<>>) = 0 /\ <<>> \in Seq(Inodes)
    OBVIOUS
  <2>3. Cardinality(ShownUpTo(sl, 0)) = 0
    BY <2>1, FS_EmptySet
  <2>4. 1 .. 0 = {}
    OBVIOUS
  <2>5. Sources(<<>>, 0, sl, [i \in {} |-> 0])
    BY <2>2, <2>4 DEF Sources
  <2>6. IsScan(<<>>, 0, sl)
    BY <2>2, <2>3, <2>5 DEF IsScan
  <2> QED
    BY <1>11, <1>12, <1>13, <2>6
<1>16. \A k \in 0 .. n : F[k] \in V[k]
  BY <1>3, <1>14, <1>15, LoopInvariant
<1>17. IsScan(F[n], n, sl)
  BY <1>12, <1>13, <1>16
<1> QED
  BY <1>1, <1>4, <1>17 DEF n

-----------------------------------------------------------------------------
(* Mounting                                                                *)

(* A directory gets its childs: the inodes there were, and after them the  *)
(* ones of the scan.                                                       *)
GivesChilds(ns, i, kids, w) ==
  /\ w \in Seq(Inodes) /\ Len(w) = Len(ns) + Len(kids)
  /\ \A j \in 1 .. Len(ns) :
       /\ w[j].type = ns[j].type /\ w[j].cluster = ns[j].cluster /\ w[j].data = ns[j].data
       /\ j # i => w[j] = ns[j]
  /\ Len(w[i].childs) = Len(kids)
  /\ \A k \in 1 .. Len(kids) : w[Len(ns) + k] = kids[k]

(* That is what the step of setup_fat32() at a directory does.             *)
LEMMA WithChildsIs ==
  ASSUME NEW ns \in Seq(Inodes), NEW i \in 1 .. Len(ns), ScanDir(ns[i].cluster) \in Seq(Inodes)
  PROVE  GivesChilds(ns, i, ScanDir(ns[i].cluster), WithChilds(ns, i))
<1>1. PICK kids : kids = ScanDir(ns[i].cluster)
  OBVIOUS
<1>2. PICK n \in Nat, l \in Nat : n = Len(ns) /\ l = Len(kids)
  BY <1>1
<1> DEFINE ch == [k \in DOMAIN kids |-> Len(ns) + k]
           u == [ns EXCEPT ![i].childs = ch]
<1>3. /\ DOMAIN kids = 1 .. l /\ \A k \in 1 .. l : kids[k] \in Inodes
      /\ DOMAIN ns = 1 .. n /\ \A j \in 1 .. n : ns[j] \in Inodes
  BY <1>1, <1>2
<1>4. ch \in [1 .. l -> Nat]
  BY <1>2, <1>3
<1>5. ch \in Seq(Nat) /\ Len(ch) = l
  BY <1>4, SeqDef
<1>6. WithChilds(ns, i) = u \o kids
  BY <1>1, Zenon DEF WithChilds
<1> HIDE DEF ch
<1>7. PICK x : x = ns[i]
  OBVIOUS
<1>8. x \in Inodes /\ i \in 1 .. n
  BY <1>2, <1>3, <1>7
<1>9. PICK y : y = [x EXCEPT !.childs = ch]
  OBVIOUS
<1>10. y = [type |-> x.type, name |-> x.name, childs |-> ch, cluster |-> x.cluster,
            data_size |-> x.data_size, data |-> x.data]
  BY <1>8, <1>9 DEF Inodes
<1>11. y \in Inodes
  BY <1>5, <1>8, <1>10, InodeFields, InodeTyped
<1>12. y.type = x.type /\ y.cluster = x.cluster /\ y.data = x.data /\ y.childs = ch
  BY <1>10
<1>13. u = [j \in 1 .. n |-> IF j = i THEN y ELSE ns[j]]
  BY <1>3, <1>7, <1>8, <1>9
<1> HIDE DEF u
<1>14. u \in [1 .. n -> Inodes]
  BY <1>3, <1>11, <1>13
<1>15. u \in Seq(Inodes) /\ Len(u) = n
  BY <1>14, SeqDef
<1>16. PICK w : w = u \o kids
  OBVIOUS
<1>17. kids \in Seq(Inodes)
  BY <1>1
<1>18. /\ w \in Seq(Inodes) /\ Len(w) = n + l
       /\ \A j \in 1 .. n : w[j] = u[j]
       /\ \A k \in 1 .. l : w[n + k] = kids[k]
  <2>1. w \in Seq(Inodes) /\ Len(w) = n + l
    BY <1>2, <1>15, <1>16, <1>17, ConcatProperties, ZenonT(30)
  <2>2. \A j \in 1 .. n : w[j] = u[j]
    BY <1>2, <1>15, <1>16, <1>17
  <2>3. ASSUME NEW k \in 1 .. l PROVE w[n + k] = kids[k]
    <3>1. PICK m : m = n + k
      OBVIOUS
    <3>2. m \in 1 .. n + l /\ ~ (m <= n) /\ m - n = k
      BY <1>2, <3>1
    <3>3. w[m] = IF m <= n THEN u[m] ELSE kids[m - n]
      BY <1>2, <1>15, <1>16, <1>17, <3>2, ConcatProperties
    <3> QED
      BY <3>1, <3>2, <3>3
  <2> QED
    BY <2>1, <2>2, <2>3
<1>19. ASSUME NEW j \in 1 .. n
       PROVE  /\ w[j].type = ns[j].type /\ w[j].cluster = ns[j].cluster /\ w[j].data = ns[j].data
              /\ j # i => w[j] = ns[j]
  <2>1. w[j] = IF j = i THEN y ELSE ns[j]
    BY <1>13, <1>18
  <2> QED
    BY <1>7, <1>12, <2>1
<1>20. w[i].childs = ch
  BY <1>8, <1>12, <1>13, <1>18
<1> QED
  BY <1>1, <1>2, <1>5, <1>6, <1>16, <1>18, <1>19, <1>20, SMTT(30) DEF GivesChilds

(* After i inodes: each inode but the root's has an entry of its own, that *)
(* it shows; the entries of the one directory below the root come with it; *)
(* and the directories up to i have all their childs.                      *)
Comes(ns, src) ==
  /\ src \in [2 .. Len(ns) -> DirClusters \X (1 .. DirSlots)]
  /\ \A j, k \in 2 .. Len(ns) : src[j] = src[k] => j = k
  /\ \A j \in 2 .. Len(ns) :
       /\ Shown(src[j]) /\ ns[j].type = EntryAt(src[j]).attr
       /\ ns[j].cluster = EntryAt(src[j]).cluster /\ ns[j].data = data[ns[j].cluster]
RootFirst(ns, src) ==
  \A j \in 2 .. Len(ns) : src[j][1] # SubDir => j <= Len(RootChain) * DirSlots + 1
SubAfter(ns, i, src) ==
  \A j \in 2 .. Len(ns) :
    src[j][1] = SubDir => \E m \in 2 .. Len(ns) : m <= i /\ ns[m].type = "dir"
ChildsUpTo(ns, i) ==
  \A j \in 1 .. Len(ns) :
    j <= i /\ ns[j].type = "dir" => Len(ns[j].childs) = Len(ScanDir(ns[j].cluster))
RootIn(ns, i) ==
  /\ ns \in Seq(Inodes) /\ Len(ns) >= 1 /\ (i = 0 => Len(ns) = 1)
  /\ ns[1].type = "dir" /\ ns[1].cluster = root_dir
IsMount(ns, i) ==
  /\ RootIn(ns, i) /\ ChildsUpTo(ns, i)
  /\ \E src : Comes(ns, src) /\ RootFirst(ns, src) /\ SubAfter(ns, i, src)

MountStep(ns, i) == IF i <= Len(ns) /\ ns[i].type = "dir" THEN WithChilds(ns, i) ELSE ns

(* The entry of a directory's inode.                                       *)
LEMMA DirSource ==
  ASSUME CardTyped, DirsKept, NEW ns, NEW src, Comes(ns, src), NEW j \in 2 .. Len(ns),
         ns[j].type = "dir"
  PROVE  src[j] = <<root_dir, 2>> /\ ns[j].cluster = SubDir
<1>1. PICK d \in DirClusters, s \in 1 .. DirSlots : src[j] = <<d, s>>
  BY DEF Comes
<1>2. dirs[d][s].attr = "dir" /\ ns[j].cluster = dirs[d][s].cluster
  BY <1>1 DEF Comes, EntryAt
<1>3. d = root_dir /\ s = 2 /\ dirs[d][s].cluster = SubDir
  BY <1>2 DEF DirsKept
<1> QED
  BY <1>1, <1>2, <1>3

(* The step at a directory.                                                *)
LEMMA MountStepDir ==
  ASSUME CardInv, NEW i \in Nat \ {0}, NEW ns, IsMount(ns, i - 1), i <= Len(ns),
         ns[i].type = "dir"
  PROVE  IsMount(WithChilds(ns, i), i)
<1> USE DEF CardInv
<1>1. RootIn(ns, i - 1) /\ ChildsUpTo(ns, i - 1)
  BY DEF IsMount
<1>2. PICK src : Comes(ns, src) /\ RootFirst(ns, src) /\ SubAfter(ns, i - 1, src)
  BY DEF IsMount
<1>3. PICK n \in Nat \ {0} : n = Len(ns)
  BY <1>1 DEF RootIn
<1>4. i \in 1 .. n /\ ns \in Seq(Inodes)
  BY <1>1, <1>3 DEF RootIn
<1>5. PICK c : c = ns[i].cluster
  OBVIOUS
<1>6. c = IF i = 1 THEN root_dir ELSE SubDir
  <2>1. CASE i = 1
    BY <1>1, <1>5, <2>1 DEF RootIn
  <2>2. CASE i # 1
    <3>1. i \in 2 .. n
      BY <1>4, <2>2
    <3> QED
      BY <1>2, <1>3, <1>5, <2>2, <3>1, DirSource
  <2> QED
    BY <2>1, <2>2
<1>7. PICK sl, kids : sl = SlotsOf(c) /\ kids = ScanDir(c)
  OBVIOUS
<1>8. c \in {root_dir, SubDir, 0}
  BY <1>6
<1>9. IsSlots(sl, c) /\ IsScan(kids, Len(sl), sl)
  BY <1>7, <1>8, DirSlotsOf, ScanIs
<1>10. PICK from : Sources(kids, Len(sl), sl, from)
  BY <1>9 DEF IsScan
<1>11. kids \in Seq(Inodes) /\ sl \in Seq(DirClusters \X (1 .. DirSlots)) /\ Len(kids) <= Len(sl)
  BY <1>9 DEF IsSlots, IsScan
<1>12. PICK l \in Nat : l = Len(kids)
  BY <1>11
<1>13. PICK w : w = WithChilds(ns, i)
  OBVIOUS
<1>14. GivesChilds(ns, i, kids, w)
  <2>1. ScanDir(ns[i].cluster) = kids /\ i \in 1 .. Len(ns)
    BY <1>3, <1>4, <1>5, <1>7
  <2>2. ScanDir(ns[i].cluster) \in Seq(Inodes)
    BY <1>11, <2>1
  <2>3. GivesChilds(ns, i, ScanDir(ns[i].cluster), WithChilds(ns, i))
    BY <1>4, <2>1, <2>2, WithChildsIs
  <2> QED
    BY <1>13, <2>1, <2>3
<1>15. /\ w \in Seq(Inodes) /\ Len(w) = n + l
       /\ Len(w[i].childs) = l
       /\ \A k \in 1 .. l : w[n + k] = kids[k]
  BY <1>3, <1>12, <1>14 DEF GivesChilds
<1>16. \A j \in 1 .. n :
         /\ w[j].type = ns[j].type /\ w[j].cluster = ns[j].cluster /\ w[j].data = ns[j].data
         /\ j # i => w[j] = ns[j]
  BY <1>3, <1>14 DEF GivesChilds
<1>17. \A j \in 2 .. n + l : j \in 2 .. n \/ (j - n \in 1 .. l /\ j = n + (j - n))
  BY <1>3
<1>18. ASSUME NEW k \in 1 .. l
       PROVE  /\ from[k] \in DOMAIN sl /\ sl[from[k]] \in DirClusters \X (1 .. DirSlots)
              /\ Shown(sl[from[k]])
              /\ kids[k].type = EntryAt(sl[from[k]]).attr
              /\ kids[k].cluster = EntryAt(sl[from[k]]).cluster
              /\ kids[k].data = data[kids[k].cluster]
              /\ sl[from[k]][1] = SubDir <=> i # 1
  <2>1. from[k] \in 1 .. Len(sl) /\ Shown(sl[from[k]]) /\ kids[k] = InodeOf(EntryAt(sl[from[k]]))
    BY <1>10, <1>12 DEF Sources
  <2>2. from[k] \in DOMAIN sl /\ sl[from[k]] \in DirClusters \X (1 .. DirSlots)
    BY <1>11, <2>1
  <2>3. sl[from[k]][1] = SubDir <=> i # 1
    BY <1>6, <1>9, <2>2, Layout DEF IsSlots
  <2> QED
    BY <2>1, <2>2, <2>3, EntryInode
<1> DEFINE to == [j \in 2 .. n + l |-> IF j \in 2 .. n THEN src[j] ELSE sl[from[j - n]]]
<1>19. \A j \in 2 .. n : to[j] = src[j] /\ src[j] \in DirClusters \X (1 .. DirSlots)
  <2>1. \A j \in 2 .. n : j \in 2 .. n + l
    BY <1>3
  <2> QED
    BY <1>2, <1>3, <2>1 DEF Comes
<1>20. \A k \in 1 .. l : n + k \in 2 .. n + l /\ n + k \notin 2 .. n /\ to[n + k] = sl[from[k]]
  <2> SUFFICES ASSUME NEW k \in 1 .. l
               PROVE  n + k \in 2 .. n + l /\ n + k \notin 2 .. n /\ to[n + k] = sl[from[k]]
    OBVIOUS
  <2>1. PICK m : m = n + k
    OBVIOUS
  <2>2. m \in 2 .. n + l /\ m \notin 2 .. n /\ m - n = k
    BY <1>3, <2>1
  <2> QED
    BY <2>1, <2>2
<1> HIDE DEF to
<1>21. \A j \in 2 .. n : src[j][1] # SubDir
  <2> SUFFICES ASSUME NEW j \in 2 .. n, src[j][1] = SubDir PROVE FALSE
    OBVIOUS
  <2>1. PICK m \in 2 .. Len(ns) : m <= i - 1 /\ ns[m].type = "dir"
    BY <1>2, <1>3 DEF SubAfter
  <2>2. i \in 2 .. Len(ns) /\ m # i
    BY <1>3, <1>4, <2>1
  <2>3. src[m] = src[i]
    BY <1>2, <2>1, <2>2, DirSource, SMTT(30)
  <2> QED
    BY <1>2, <2>2, <2>3 DEF Comes
<1>22. i = 1 => n = 1
  BY <1>1, <1>3 DEF RootIn
<1>23. to \in [2 .. n + l -> DirClusters \X (1 .. DirSlots)]
  <2>1. ASSUME NEW j \in 2 .. n + l PROVE to[j] \in DirClusters \X (1 .. DirSlots)
    <3>1. CASE j \in 2 .. n
      BY <1>19, <3>1
    <3>2. CASE j \notin 2 .. n
      <4>1. PICK k \in 1 .. l : j = n + k
        BY <1>17, <3>2
      <4>2. to[j] = sl[from[k]]
        BY <1>20, <4>1
      <4> QED
        BY <1>18, <4>2
    <3> QED
      BY <3>1, <3>2
  <2> QED
    BY <2>1 DEF to
<1>24. ASSUME NEW j \in 2 .. n + l, NEW k \in 2 .. n + l, to[j] = to[k] PROVE j = k
  <2>1. CASE j \in 2 .. n /\ k \in 2 .. n
    BY <1>2, <1>3, <1>19, <1>24, <2>1 DEF Comes
  <2>2. ASSUME NEW a \in 2 .. n, NEW b \in 1 .. l PROVE to[a] # to[n + b]
    <3>1. i # 1
      BY <1>3, <1>22
    <3>2. to[a][1] # SubDir
      BY <1>19, <1>21
    <3>3. to[n + b][1] = SubDir
      BY <1>18, <1>20, <3>1
    <3> QED
      BY <3>2, <3>3
  <2>3. CASE j \notin 2 .. n /\ k \notin 2 .. n
    <3>1. PICK a \in 1 .. l : j = n + a
      BY <1>17, <2>3
    <3>2. PICK b \in 1 .. l : k = n + b
      BY <1>17, <2>3
    <3>3. sl[from[a]] = sl[from[b]]
      BY <1>20, <1>24, <3>1, <3>2
    <3>4. from[a] = from[b]
      BY <1>9, <1>18, <3>3 DEF IsSlots
    <3>5. a = b
      BY <1>10, <1>12, <3>4 DEF Sources
    <3> QED
      BY <3>1, <3>2, <3>5
  <2>4. CASE j \in 2 .. n /\ k \notin 2 .. n
    BY <1>17, <1>24, <2>2, <2>4
  <2>5. CASE j \notin 2 .. n /\ k \in 2 .. n
    BY <1>17, <1>24, <2>2, <2>5
  <2> QED
    BY <2>1, <2>3, <2>4, <2>5
<1>25. ASSUME NEW j \in 2 .. n + l
       PROVE  /\ Shown(to[j]) /\ w[j].type = EntryAt(to[j]).attr
              /\ w[j].cluster = EntryAt(to[j]).cluster /\ w[j].data = data[w[j].cluster]
  <2>1. CASE j \in 2 .. n
    <3>1. j \in 1 .. n
      BY <1>3, <2>1
    <3>2. /\ Shown(src[j]) /\ ns[j].type = EntryAt(src[j]).attr
          /\ ns[j].cluster = EntryAt(src[j]).cluster /\ ns[j].data = data[ns[j].cluster]
      BY <1>2, <1>3, <2>1 DEF Comes
    <3>3. to[j] = src[j] /\ w[j].type = ns[j].type /\ w[j].cluster = ns[j].cluster
          /\ w[j].data = ns[j].data
      BY <1>16, <1>19, <2>1, <3>1
    <3> QED
      BY <3>2, <3>3
  <2>2. CASE j \notin 2 .. n
    <3>1. PICK k \in 1 .. l : j = n + k
      BY <1>17, <2>2
    <3>2. to[j] = sl[from[k]] /\ w[j] = kids[k]
      BY <1>15, <1>20, <3>1
    <3> QED
      BY <1>18, <3>2
  <2> QED
    BY <2>1, <2>2
<1>26. Comes(w, to)
  BY <1>15, <1>23, <1>24, <1>25 DEF Comes
<1>27. RootFirst(w, to)
  <2> SUFFICES ASSUME NEW j \in 2 .. n + l, to[j][1] # SubDir
               PROVE  j <= Len(RootChain) * DirSlots + 1
    BY <1>15 DEF RootFirst
  <2>1. CASE j \in 2 .. n
    BY <1>2, <1>3, <1>19, <2>1 DEF RootFirst
  <2>2. CASE j \notin 2 .. n
    <3>1. PICK k \in 1 .. l : j = n + k
      BY <1>17, <2>2
    <3>2. i = 1 /\ n = 1
      BY <1>18, <1>20, <1>22, <3>1
    <3>3. PICK M \in Nat, e \in Nat : M = Len(RootChain) * DirSlots /\ e = Len(sl)
      <4>1. PICK a \in Nat, b \in Nat : a = Len(RootChain) /\ b = DirSlots
        BY Layout
      <4>2. a * b \in Nat /\ Len(sl) \in Nat
        BY <1>11
      <4> QED
        BY <4>1, <4>2
    <3>4. l <= e /\ e <= M
      BY <1>9, <1>11, <1>12, <3>3 DEF IsSlots
    <3> QED
      BY <3>1, <3>2, <3>3, <3>4
  <2> QED
    BY <2>1, <2>2
<1>28. SubAfter(w, i, to)
  <2> SUFFICES ASSUME NEW j \in 2 .. n + l, to[j][1] = SubDir
               PROVE  \E m \in 2 .. n + l : m <= i /\ w[m].type = "dir"
    BY <1>15 DEF SubAfter
  <2>1. j \notin 2 .. n
    BY <1>19, <1>21
  <2>2. PICK k \in 1 .. l : j = n + k
    BY <1>17, <2>1
  <2>3. i # 1
    BY <1>18, <1>20, <2>2
  <2>4. i \in 2 .. n + l /\ i <= i /\ i \in 1 .. n
    BY <1>3, <1>4, <2>3
  <2> QED
    BY <1>16, <2>4
<1>29. RootIn(w, i)
  <2>1. 1 \in 1 .. n /\ n + l >= 1
    BY <1>3
  <2> QED
    BY <1>1, <1>3, <1>15, <1>16, <2>1 DEF RootIn
<1>30. ChildsUpTo(w, i)
  <2> SUFFICES ASSUME NEW j \in 1 .. n + l, j <= i, w[j].type = "dir"
               PROVE  Len(w[j].childs) = Len(ScanDir(w[j].cluster))
    BY <1>15 DEF ChildsUpTo
  <2>1. j \in 1 .. n
    BY <1>4
  <2>2. CASE j = i
    BY <1>5, <1>7, <1>12, <1>15, <1>16, <2>1, <2>2
  <2>3. CASE j # i
    <3>1. w[j] = ns[j] /\ j <= i - 1
      BY <1>16, <2>1, <2>3
    <3> QED
      BY <1>1, <1>3, <2>1, <3>1 DEF ChildsUpTo
  <2> QED
    BY <2>2, <2>3
<1> QED
  BY <1>13, <1>26, <1>27, <1>28, <1>29, <1>30 DEF IsMount

(* Any step of the mount.                                                  *)
LEMMA MountStepIs ==
  ASSUME CardInv, NEW i \in Nat \ {0}, NEW ns, IsMount(ns, i - 1)
  PROVE  IsMount(MountStep(ns, i), i)
<1>1. CASE i <= Len(ns) /\ ns[i].type = "dir"
  BY <1>1, MountStepDir DEF MountStep
<1>2. CASE ~ (i <= Len(ns) /\ ns[i].type = "dir")
  <2>1. MountStep(ns, i) = ns
    BY <1>2 DEF MountStep
  <2>2. RootIn(ns, i - 1) /\ ChildsUpTo(ns, i - 1)
    BY DEF IsMount
  <2>3. PICK src : Comes(ns, src) /\ RootFirst(ns, src) /\ SubAfter(ns, i - 1, src)
    BY DEF IsMount
  <2>4. RootIn(ns, i)
    BY <2>2 DEF RootIn
  <2>5. ChildsUpTo(ns, i)
    <3> SUFFICES ASSUME NEW j \in 1 .. Len(ns), j <= i, ns[j].type = "dir"
                 PROVE  Len(ns[j].childs) = Len(ScanDir(ns[j].cluster))
      BY DEF ChildsUpTo
    <3>1. j # i /\ j \in Nat
      BY <1>2
    <3>2. j <= i - 1
      BY <3>1
    <3> QED
      BY <2>2, <3>2 DEF ChildsUpTo
  <2>6. SubAfter(ns, i, src)
    <3> SUFFICES ASSUME NEW j \in 2 .. Len(ns), src[j][1] = SubDir
                 PROVE  \E m \in 2 .. Len(ns) : m <= i /\ ns[m].type = "dir"
      BY DEF SubAfter
    <3>1. PICK m \in 2 .. Len(ns) : m <= i - 1 /\ ns[m].type = "dir"
      BY <2>3 DEF SubAfter
    <3>2. m <= i
      BY <3>1
    <3> QED
      BY <3>1, <3>2
  <2> QED
    BY <2>1, <2>3, <2>4, <2>5, <2>6 DEF IsMount
<1> QED
  BY <1>1, <1>2

(* The first step has the root.                                            *)
RootInode == CreateVnode("dir", [stem |-> "", dot |-> FALSE], root_dir, 0, data[root_dir])

(* The root alone is what a mount begins with.                             *)
LEMMA RootIsMount ==
  ASSUME CardInv
  PROVE  IsMount(<<RootInode>>, 0)
<1>1. PICK nm : nm = [stem |-> "", dot |-> FALSE]
  OBVIOUS
<1>2. nm \in [stem : Stems \cup {""}, dot : BOOLEAN]
  <2>1. "" \in Stems \cup {""} /\ FALSE \in BOOLEAN
    BY Zenon
  <2> QED
    BY <1>1, <2>1
<1>3. PICK dt : dt = data[root_dir]
  OBVIOUS
<1>4. dt \in Contents /\ root_dir \in Clusters
  BY <1>3, Layout DEF CardInv, CardTyped
<1>5. PICK x : x = RootInode
  OBVIOUS
<1>6. x = [type |-> "dir", name |-> nm, childs |-> <<>>, cluster |-> root_dir,
           data_size |-> 0, data |-> dt]
  BY <1>1, <1>3, <1>5, Zenon DEF RootInode, CreateVnode
<1>7. x \in Inodes
  <2>1. "dir" \in {"file", "dir"} /\ <<>> \in Seq(Nat) /\ 0 \in Nat
    OBVIOUS
  <2>2. [type |-> "dir", name |-> nm, childs |-> <<>>, cluster |-> root_dir,
         data_size |-> 0, data |-> dt] \in Inodes
    BY <1>2, <1>4, <2>1, InodeTyped
  <2> QED
    BY <1>6, <2>2, Zenon
<1>8. x.type = "dir" /\ x.cluster = root_dir
  BY <1>6
<1>9. PICK ns : ns = <<x>>
  OBVIOUS
<1>10. ns \in Seq(Inodes) /\ Len(ns) = 1 /\ ns[1] = x
  BY <1>7, <1>9
<1>11. RootIn(ns, 0)
  BY <1>8, <1>10 DEF RootIn
<1>12. ChildsUpTo(ns, 0)
  BY <1>10 DEF ChildsUpTo
<1>13. 2 .. 1 = {}
  OBVIOUS
<1>14. Comes(ns, [j \in {} |-> 0]) /\ RootFirst(ns, [j \in {} |-> 0])
       /\ SubAfter(ns, 0, [j \in {} |-> 0])
  BY <1>10, <1>13 DEF Comes, RootFirst, SubAfter
<1>15. IsMount(ns, 0)
  BY <1>11, <1>12, <1>14 DEF IsMount
<1> QED
  BY <1>5, <1>9, <1>15

(* fat32_setup_mount()                                                     *)
LEMMA SetupIs ==
  ASSUME CardInv
  PROVE  IsMount(SetupMount, MostInodes)
<1> DEFINE n == MostInodes
           X == Seq(Inodes) \cup {<<RootInode>>}
           R == [x \in X \X (1 .. n) |->
                   IF MountStep(x[1], x[2]) \in X THEN MountStep(x[1], x[2]) ELSE <<RootInode>>]
           body(f, k) == IF k = 0 THEN <<RootInode>> ELSE MountStep(f[k - 1], k)
           F == CHOOSE f : f = [k \in 0 .. n |-> body(f, k)]
           V == [k \in 0 .. n |-> {x \in X : IsMount(x, k)}]
<1>1. n \in Nat /\ <<RootInode>> \in X
  <2>1. PICK a \in Nat, b \in Nat : a = Len(RootChain) /\ b = DirSlots
    BY Layout
  <2>2. (a + 1) * b + 1 \in Nat
    OBVIOUS
  <2> QED
    BY <2>1, <2>2 DEF MostInodes
<1>2. SetupMount = F[n]
  BY Zenon DEF SetupMount, MountStep, RootInode
<1>3. \A k \in 0 .. n : \A x : x \in V[k] <=> IsMount(x, k)
  BY DEF IsMount, RootIn
<1>4. R \in [X \X (1 .. n) -> X]
  OBVIOUS
<1>5. \A x \in X, k \in 1 .. n : MountStep(x, k) \in X => R[<<x, k>>] = MountStep(x, k)
  OBVIOUS
<1>6. \A x, k : IsMount(x, k) => x \in X
  BY DEF IsMount, RootIn
<1>7. /\ 0 \in 0 .. n /\ n \in 0 .. n
      /\ \A k \in 1 .. n : k \in 0 .. n /\ k - 1 \in 0 .. n /\ k \in Nat \ {0} /\ k # 0
  BY <1>1
<1> HIDE DEF n, X, R, V
<1>8. PICK f \in [0 .. n -> X] : Iterates(f, n, <<RootInode>>, R)
  BY <1>1, <1>4, Iteration
<1>9. f[0] \in V[0]
  BY <1>3, <1>7, <1>8, RootIsMount DEF Iterates
<1>10. ASSUME NEW k \in 1 .. n, f[k - 1] \in V[k - 1]
       PROVE  f[k] = MountStep(f[k - 1], k) /\ f[k] \in V[k]
  <2>1. IsMount(f[k - 1], k - 1)
    BY <1>3, <1>7, <1>10
  <2>2. IsMount(MountStep(f[k - 1], k), k)
    BY <1>7, <2>1, MountStepIs
  <2>3. f[k] = R[<<f[k - 1], k>>] /\ f[k - 1] \in X
    BY <1>7, <1>8 DEF Iterates
  <2>4. MountStep(f[k - 1], k) \in X
    BY <1>6, <2>2
  <2>5. f[k] = MountStep(f[k - 1], k)
    BY <1>5, <2>3, <2>4
  <2> QED
    BY <1>3, <1>7, <2>2, <2>5
<1>11. \A k \in 0 .. n : f[k] \in V[k]
  BY <1>1, <1>9, <1>10, LoopInvariant
<1>12. \A k \in 0 .. n : f[k] = body(f, k)
  <2> SUFFICES ASSUME NEW k \in 0 .. n, k # 0 PROVE f[k] = MountStep(f[k - 1], k)
    BY <1>8 DEF Iterates
  <2>1. k \in 1 .. n
    BY <1>1
  <2> QED
    BY <1>7, <1>10, <1>11, <2>1
<1>13. f = [k \in 0 .. n |-> body(f, k)]
  BY <1>12
<1>14. F = [k \in 0 .. n |-> body(F, k)]
  BY <1>13, Zenon
<1> HIDE DEF F
<1>15. F[0] = <<RootInode>> /\ \A k \in 1 .. n : F[k] = MountStep(F[k - 1], k)
  <2>1. \A k \in 0 .. n : F[k] = body(F, k)
    BY <1>14
  <2> QED
    BY <1>7, <2>1
<1>16. F[0] \in V[0]
  BY <1>3, <1>7, <1>15, RootIsMount
<1>17. ASSUME NEW k \in 1 .. n, F[k - 1] \in V[k - 1] PROVE F[k] \in V[k]
  <2>1. IsMount(F[k - 1], k - 1)
    BY <1>3, <1>7, <1>17
  <2>2. IsMount(MountStep(F[k - 1], k), k)
    BY <1>7, <2>1, MountStepIs
  <2> QED
    BY <1>3, <1>7, <1>15, <2>2
<1>18. \A k \in 0 .. n : F[k] \in V[k]
  BY <1>1, <1>16, <1>17, LoopInvariant
<1>19. IsMount(F[n], n)
  BY <1>3, <1>7, <1>18
<1> QED
  BY <1>2, <1>19 DEF n

-----------------------------------------------------------------------------
(* What a mount finds                                                      *)

(* The entries of a cluster.                                               *)
EntriesAre ==
  CardTyped =>
    \A c, x : x \in EntriesOf(c) <=>
      x \in DirClusters \X (1 .. DirSlots) /\ Shown(x) /\ EntryAt(x).cluster = c /\ c >= 2

(* These are the entries.                                                  *)
LEMMA EntriesHold == EntriesAre
<1> SUFFICES ASSUME CardTyped, NEW c, NEW x
             PROVE  x \in EntriesOf(c) <=>
                      x \in DirClusters \X (1 .. DirSlots) /\ Shown(x) /\ EntryAt(x).cluster = c /\ c >= 2
  BY Zenon DEF EntriesAre
<1>1. DOMAIN dirs = DirClusters
  BY DEF CardTyped
<1>2. Slots = DirClusters \X (1 .. DirSlots)
  BY <1>1 DEF Slots
<1> QED
  BY <1>2 DEF EntriesOf, Entries, Shown, EntryAt

(* The same in the next state.                                             *)
LEMMA EntriesNext == EntriesAre'
  BY EntriesHold, PTL

(* The number of inodes that the scan of a directory finds.                *)
ShownIn(c) == ShownUpTo(SlotList(c), Len(SlotList(c)))
ScanLens ==
  CardTyped /\ ChainsKept =>
    \A c \in {root_dir, SubDir, 0} : Len(ScanDir(c)) = Cardinality(ShownIn(c))

(* This is the number.                                                     *)
LEMMA ScanLensHold == ScanLens
<1> SUFFICES ASSUME CardTyped, ChainsKept, NEW c \in {root_dir, SubDir, 0}
             PROVE  Len(ScanDir(c)) = Cardinality(ShownIn(c))
  BY DEF ScanLens
<1>1. IsScan(ScanDir(c), Len(SlotsOf(c)), SlotsOf(c)) /\ SlotsOf(c) = SlotList(c)
  BY ScanIs, DirSlotsOf
<1> QED
  BY <1>1 DEF IsScan, ShownIn

(* The same in the next state.                                             *)
LEMMA ScanLensNext == ScanLens'
  BY ScanLensHold, PTL

(* The inodes after a mount: one for each directory, with all its childs,  *)
(* and for each file an entry of its own.                                  *)
DirsMounted(ns) ==
  /\ \A n \in DOMAIN ns :
       ns[n].type = "dir" => /\ ns[n].cluster \in {root_dir, SubDir}
                             /\ Len(ns[n].childs) = Len(ScanDir(ns[n].cluster))
  /\ \A m, n \in DOMAIN ns :
       ns[m].type = "dir" /\ ns[n].type = "dir" /\ ns[m].cluster = ns[n].cluster => m = n
FilesMounted(ns) ==
  /\ \A n \in DOMAIN ns :
       ns[n].type = "file" => /\ ns[n].data = data[ns[n].cluster]
                              /\ ns[n].cluster >= 2 => EntriesOf(ns[n].cluster) # {}
  /\ \A m, n \in DOMAIN ns :
       /\ ns[m].type = "file" /\ ns[n].type = "file"
       /\ ns[m].cluster = ns[n].cluster /\ ns[m].cluster >= 2
       /\ \A x, y \in EntriesOf(ns[m].cluster) : x = y
       => m = n

(* That is what fat32_setup_mount() builds.                                *)
LEMMA MountGives ==
  ASSUME CardInv
  PROVE  SetupMount \in Seq(Inodes) /\ DirsMounted(SetupMount) /\ FilesMounted(SetupMount)
<1>1. PICK ns : ns = SetupMount
  OBVIOUS
<1>2. IsMount(ns, MostInodes)
  BY <1>1, SetupIs
<1>3. RootIn(ns, MostInodes) /\ ChildsUpTo(ns, MostInodes)
  BY <1>2 DEF IsMount
<1>4. PICK src : Comes(ns, src) /\ RootFirst(ns, src)
  BY <1>2 DEF IsMount
<1>5. PICK l \in Nat \ {0} : l = Len(ns)
  BY <1>3 DEF RootIn
<1>6. ns \in Seq(Inodes) /\ DOMAIN ns = 1 .. l
  BY <1>3, <1>5 DEF RootIn
<1>7. \A n \in 1 .. l : n # 1 => n \in 2 .. l
  BY <1>5
<1>8. ns[1].type = "dir" /\ ns[1].cluster = root_dir
  BY <1>3 DEF RootIn
<1>9. \A n \in 2 .. l : ns[n].type = "dir" => src[n] = <<root_dir, 2>> /\ ns[n].cluster = SubDir
  BY <1>4, <1>5, DirSource DEF CardInv
<1>10. ASSUME NEW n \in 1 .. l, ns[n].type = "dir"
       PROVE  /\ ns[n].cluster \in {root_dir, SubDir}
              /\ Len(ns[n].childs) = Len(ScanDir(ns[n].cluster))
  <2>1. ns[n].cluster \in {root_dir, SubDir}
    BY <1>7, <1>8, <1>9, <1>10
  <2>2. n <= MostInodes
    <3>1. PICK a \in Nat, b \in Nat : a = Len(RootChain) /\ b = DirSlots
      BY Layout
    <3>2. (a + 1) * b = a * b + b /\ a * b \in Nat
      OBVIOUS
    <3>3. PICK p \in Nat : p = a * b
      BY <3>2
    <3>4. MostInodes = p + b + 1
      BY <3>1, <3>2, <3>3 DEF MostInodes
    <3>5. CASE n = 1
      BY <3>4, <3>5
    <3>6. CASE n # 1
      <4>1. n \in 2 .. l /\ src[n][1] # SubDir
        BY <1>7, <1>9, <1>10, <3>6, Layout
      <4>2. n <= p + 1
        BY <1>4, <1>5, <3>1, <3>3, <4>1 DEF RootFirst
      <4> QED
        BY <3>4, <4>2
    <3> QED
      BY <3>5, <3>6
  <2> QED
    BY <1>3, <1>5, <1>10, <2>1, <2>2 DEF ChildsUpTo
<1>11. ASSUME NEW m \in 1 .. l, NEW n \in 1 .. l, ns[m].type = "dir", ns[n].type = "dir",
              ns[m].cluster = ns[n].cluster
       PROVE  m = n
  <2>1. CASE m = 1 \/ n = 1
    BY <1>7, <1>8, <1>9, <1>11, <2>1, Layout
  <2>2. CASE m # 1 /\ n # 1
    BY <1>4, <1>5, <1>7, <1>9, <1>11, <2>2 DEF Comes
  <2> QED
    BY <2>1, <2>2
<1>12. DirsMounted(ns)
  BY <1>6, <1>10, <1>11 DEF DirsMounted
<1>13. ASSUME NEW n \in 1 .. l, ns[n].type = "file"
       PROVE  /\ n \in 2 .. l /\ ns[n].data = data[ns[n].cluster]
              /\ ns[n].cluster >= 2 => src[n] \in EntriesOf(ns[n].cluster)
  <2>1. n \in 2 .. l
    BY <1>7, <1>8, <1>13
  <2>2. /\ src[n] \in DirClusters \X (1 .. DirSlots) /\ Shown(src[n])
        /\ ns[n].cluster = EntryAt(src[n]).cluster /\ ns[n].data = data[ns[n].cluster]
    BY <1>4, <1>5, <2>1 DEF Comes
  <2> QED
    BY <2>1, <2>2, EntriesHold DEF EntriesAre, CardInv
<1>14. ASSUME NEW m \in 1 .. l, NEW n \in 1 .. l, ns[m].type = "file", ns[n].type = "file",
              ns[m].cluster = ns[n].cluster, ns[m].cluster >= 2,
              \A x, y \in EntriesOf(ns[m].cluster) : x = y
       PROVE  m = n
  <2>1. src[m] = src[n] /\ m \in 2 .. l /\ n \in 2 .. l
    BY <1>13, <1>14
  <2> QED
    BY <1>4, <1>5, <2>1 DEF Comes
<1>15. FilesMounted(ns)
  BY <1>6, <1>13, <1>14 DEF FilesMounted
<1> QED
  BY <1>1, <1>6, <1>12, <1>15

-----------------------------------------------------------------------------
(* Every step keeps the invariant                                          *)

(* A step that leaves the directory tables alone leaves the number of      *)
(* inodes of a scan.                                                       *)
LEMMA ScanKept ==
  ASSUME CardInv, CardInv', dirs' = dirs, NEW c \in {root_dir, SubDir, 0}
  PROVE  Len(ScanDir(c))' = Len(ScanDir(c))
<1>1. Len(ScanDir(c)) = Cardinality(ShownIn(c))
  BY ScanLensHold DEF ScanLens, CardInv
<1>2. Len(ScanDir(c))' = Cardinality(ShownIn(c))'
  BY ScanLensNext DEF ScanLens, CardInv
<1>3. ShownIn(c)' = ShownIn(c)
  BY Zenon DEF ShownIn, ShownUpTo, Shown, EntryAt
<1> QED
  BY <1>1, <1>2, <1>3

(* A step that leaves the directory tables alone leaves the entries.       *)
LEMMA EntriesKept ==
  ASSUME CardInv, CardInv', dirs' = dirs, NEW c
  PROVE  EntriesOf(c)' = EntriesOf(c)
<1>1. \A x : x \in EntriesOf(c) <=>
        x \in DirClusters \X (1 .. DirSlots) /\ Shown(x) /\ EntryAt(x).cluster = c /\ c >= 2
  BY EntriesHold DEF EntriesAre, CardInv
<1>2. \A x : x \in EntriesOf(c)' <=>
        x \in DirClusters \X (1 .. DirSlots) /\ Shown(x)' /\ EntryAt(x)'.cluster = c /\ c >= 2
  BY EntriesNext DEF EntriesAre, CardInv
<1>3. \A x : EntryAt(x)' = EntryAt(x) /\ (Shown(x)' <=> Shown(x))
  BY Zenon DEF Shown, EntryAt
<1>4. \A x : x \in EntriesOf(c)' <=> x \in EntriesOf(c)
  BY <1>1, <1>2, <1>3, Zenon
<1> QED
  BY <1>4

(* Clusters are numbers, None is not one.                                  *)
LEMMA ClusterFacts ==
  /\ \A c \in Clusters : c \in Nat /\ c # None /\ c # EOC
  /\ None \notin Clusters /\ FREE # EOC /\ 0 \in Clusters
  BY Layout DEF None, EOC, FREE

(* A loss of power and a mount.                                            *)
LEMMA RebootInv ==
  ASSUME FatInv, Reboot
  PROVE  FatInv'
<1> USE DEF FatInv
<1>1. /\ fat' = fat /\ dirs' = dirs /\ data' = data /\ acked' = acked
      /\ nodes' = SetupMount /\ create' = None
      /\ torn' = IF create = None THEN torn ELSE torn \cup {create}
  BY Zenon DEF Reboot, card
<1>2. CardInv'
  BY <1>1 DEF CardInv, CardTyped, ChainsKept, DirsKept
<1>3. /\ nodes' \in Seq(Inodes) /\ DirsMounted(nodes') /\ FilesMounted(nodes')
  <2>1. SetupMount \in Seq(Inodes) /\ DirsMounted(SetupMount) /\ FilesMounted(SetupMount)
    BY MountGives
  <2> QED
    BY <1>1, <2>1
<1>4. torn' \subseteq Clusters /\ torn \subseteq torn' /\ (create # None => create \in torn')
  BY <1>1 DEF MemTyped
<1>5. MemTyped'
  BY <1>1, <1>3, <1>4 DEF MemTyped
<1>6. CreateFree'
  BY <1>1 DEF CreateFree
<1>7. \A c \in Whole' : c \in Whole /\ c # create /\ c \in Clusters /\ c >= 2
  BY <1>4, ClusterFacts DEF Whole
<1>8. \A c : EntriesOf(c)' = EntriesOf(c)
  BY <1>1, <1>2, EntriesKept
<1>9. EntriesInv'
  <2>1. EntriesOnce'
    BY <1>7, <1>8 DEF EntriesInv, EntriesOnce
  <2>2. EntriesTaken'
    BY <1>1, <1>7, <1>8 DEF EntriesInv, EntriesTaken
  <2>3. FreeUntouched'
    BY <1>1, <1>7 DEF EntriesInv, FreeUntouched
  <2>4. AckedOnCard'
    BY <1>1, <1>7, <1>8 DEF EntriesInv, AckedOnCard
  <2> QED
    BY <2>1, <2>2, <2>3, <2>4 DEF EntriesInv
<1>10. InodesInv'
  <2>1. PICK ns : ns = nodes'
    OBVIOUS
  <2>2. DirInodes'
    BY <1>3 DEF DirInodes, DirsMounted
  <2>3. InodesOnce'
    <3> SUFFICES ASSUME NEW m \in DOMAIN ns, NEW n \in DOMAIN ns, ns[m].type = "file",
                        ns[n].type = "file", ns[m].cluster \in Whole', ns[m].cluster = ns[n].cluster
                 PROVE  m = n
      BY <2>1 DEF InodesOnce
    <3>1. ns[m].cluster \in Whole /\ ns[m].cluster >= 2
      BY <1>7
    <3>2. \A x, y \in EntriesOf(ns[m].cluster) : x = y
      BY <3>1 DEF EntriesInv, EntriesOnce
    <3> QED
      BY <1>3, <2>1, <3>1, <3>2 DEF FilesMounted
  <2>4. InodesTaken'
    <3> SUFFICES ASSUME NEW n \in DOMAIN ns, ns[n].type = "file", ns[n].cluster \in Whole'
                 PROVE  fat[ns[n].cluster] # FREE
      BY <1>1, <2>1 DEF InodesTaken
    <3>1. ns[n].cluster \in Whole \ {create} /\ ns[n].cluster >= 2
      BY <1>7
    <3>2. EntriesOf(ns[n].cluster) # {}
      BY <1>3, <2>1, <3>1 DEF FilesMounted
    <3> QED
      BY <3>1, <3>2 DEF EntriesInv, EntriesTaken
  <2>5. InodesShow'
    BY <1>1, <1>3 DEF InodesShow, FilesMounted
  <2> QED
    BY <2>2, <2>3, <2>4, <2>5 DEF InodesInv
<1>11. ScanInv'
  <2>1. \A c \in {root_dir, SubDir, 0} : Len(ScanDir(c))' = Len(ScanDir(c))
    BY <1>1, <1>2, ScanKept
  <2>2. DirsOnce'
    BY <1>3 DEF DirsOnce, DirsMounted
  <2>3. ScanFits'
    BY <2>1 DEF ScanFits, ScanInv
  <2>4. PICK ns : ns = nodes'
    OBVIOUS
  <2>5. ScanShown'
    <3> SUFFICES ASSUME NEW n \in DOMAIN ns, ns[n].type = "dir"
                 PROVE  Len(ScanDir(ns[n].cluster)') <= Len(ns[n].childs)
      BY <2>4 DEF ScanShown
    <3>1. PICK c \in {root_dir, SubDir} : c = ns[n].cluster /\ Len(ns[n].childs) = Len(ScanDir(c))
      BY <1>3, <2>4 DEF DirsMounted
    <3>2. Len(ScanDir(c)') = Len(ns[n].childs)
      BY <2>1, <3>1
    <3>3. ns[n].childs \in Seq(Nat)
      <4>1. ns[n] \in Inodes
        BY <1>3, <2>4
      <4> QED
        BY <4>1, InodeFields
    <3> QED
      BY <3>1, <3>2, <3>3
  <2> QED
    BY <2>2, <2>3, <2>5 DEF ScanInv
<1> QED
  BY <1>2, <1>5, <1>6, <1>9, <1>10, <1>11

(* The directories' clusters are taken, and so are the first two.          *)
LEMMA DirsTaken ==
  ASSUME CardInv
  PROVE  \A c \in Clusters : fat[c] = FREE => c >= 2 /\ c \notin DirClusters
<1> SUFFICES ASSUME NEW c \in Clusters, fat[c] = FREE PROVE c >= 2 /\ c \notin DirClusters
  OBVIOUS
<1>1. c # 0 /\ c # 1 /\ c \in Nat
  BY ClusterFacts DEF CardInv, ChainsKept
<1>2. ASSUME NEW k \in DOMAIN RootChain PROVE fat[RootChain[k]] # FREE
  <2>1. CASE k = Len(RootChain)
    BY <2>1, ClusterFacts DEF CardInv, ChainsKept
  <2>2. CASE k # Len(RootChain)
    <3>1. k + 1 \in DOMAIN RootChain /\ fat[RootChain[k]] = RootChain[k + 1]
      BY <2>2, Layout DEF CardInv, ChainsKept
    <3>2. RootChain[k + 1] >= 2 /\ RootChain[k + 1] \in Nat
      BY <3>1, Layout, ClusterFacts
    <3> QED
      BY <3>1, <3>2 DEF FREE
  <2> QED
    BY <2>1, <2>2
<1>3. fat[SubDir] # FREE
  BY ClusterFacts DEF CardInv, ChainsKept
<1> QED
  BY <1>1, <1>2, <1>3 DEF DirClusters

(* The end of a create: the table.                                         *)
LEMMA CreateEndsInv ==
  ASSUME FatInv, CreateEnds
  PROVE  FatInv'
<1> USE DEF FatInv
<1>1. PICK c : c = create
  OBVIOUS
<1>2. /\ fat' = [fat EXCEPT ![c] = EOC] /\ dirs' = dirs /\ data' = data /\ nodes' = nodes
      /\ create' = None /\ torn' = torn /\ create # None
  BY <1>1 DEF CreateEnds, WriteFatTable
<1>3. acked' = IF Valid(c) /\ \E d \in DOMAIN dirs, s \in 1 .. DirSlots : dirs[d][s].cluster = c
               THEN [b \in DOMAIN acked \cup {c} |-> IF b = c THEN data[b] ELSE acked[b]] ELSE acked
  BY <1>1 DEF CreateEnds
<1>4. c \in Clusters /\ (fat[c] = FREE \/ c = 0)
  BY <1>1, <1>2 DEF MemTyped, CreateFree
<1>5. c \notin DirClusters
  BY <1>4, DirsTaken, Layout
<1>6. fat \in [Clusters -> Clusters \cup {EOC}]
  BY DEF CardInv, CardTyped
<1>7. /\ fat' \in [Clusters -> Clusters \cup {EOC}] /\ fat'[c] = EOC
      /\ \A b \in Clusters : b # c => fat'[b] = fat[b]
  BY <1>2, <1>4, <1>6
<1>8. \A b \in Clusters : fat[b] # FREE => fat'[b] # FREE
  BY <1>7, ClusterFacts
<1>9. CardInv'
  <2>1. CardTyped'
    BY <1>2, <1>7 DEF CardInv, CardTyped
  <2>2. \A d \in DirClusters : fat'[d] = fat[d]
    BY <1>5, <1>7, Layout
  <2>3. fat'[0] # FREE /\ fat'[1] # FREE
    <3>1. 0 \in Clusters /\ 1 \in Clusters
      BY Layout, ClusterFacts
    <3> QED
      BY <1>8, <3>1 DEF CardInv, ChainsKept
  <2>4. ChainsKept'
    BY <2>2, <2>3, Layout DEF CardInv, ChainsKept
  <2>5. DirsKept'
    BY <1>2 DEF CardInv, DirsKept
  <2> QED
    BY <2>1, <2>4, <2>5 DEF CardInv
<1>10. data \in [Clusters -> Contents]
  BY DEF CardInv, CardTyped
<1>11. MemTyped'
  <2>1. DOMAIN acked' \subseteq Clusters /\ acked' \in [DOMAIN acked' -> Contents]
    <3>1. DOMAIN acked \subseteq Clusters /\ acked \in [DOMAIN acked -> Contents]
      BY DEF MemTyped
    <3> QED
      BY <1>3, <1>4, <1>10, <3>1
  <2> QED
    BY <1>2, <2>1 DEF MemTyped
<1>12. CreateFree'
  BY <1>2 DEF CreateFree
<1>13. \A b : EntriesOf(b)' = EntriesOf(b)
  BY <1>2, <1>9, EntriesKept
<1>14. Whole' = Whole
  BY <1>2 DEF Whole
<1>15. \A b \in Whole : b \in Clusters /\ (fat'[b] = FREE => fat[b] = FREE)
                        /\ (b = c => fat'[b] # FREE)
  BY <1>7, <1>8, ClusterFacts DEF Whole
<1>16. EntriesInv'
  <2>1. EntriesOnce'
    BY <1>13, <1>14 DEF EntriesInv, EntriesOnce
  <2>2. EntriesTaken'
    BY <1>1, <1>13, <1>14, <1>15 DEF EntriesInv, EntriesTaken
  <2>3. FreeUntouched'
    BY <1>2, <1>14, <1>15 DEF EntriesInv, FreeUntouched
  <2>4. AckedOnCard'
    <3>1. ASSUME NEW b \in DOMAIN acked
          PROVE  /\ b >= 2 /\ EntriesOf(b)' # {} /\ fat'[b] # FREE
                 /\ b \in Whole' => data'[b] = acked[b]
      <4>1. b \in Clusters
        BY DEF MemTyped
      <4> QED
        BY <1>2, <1>8, <1>13, <1>14, <4>1 DEF EntriesInv, AckedOnCard
    <3>2. CASE Valid(c) /\ \E d \in DOMAIN dirs, s \in 1 .. DirSlots : dirs[d][s].cluster = c
      <4>1. PICK d \in DirClusters, s \in 1 .. DirSlots : dirs[d][s].cluster = c
        BY <3>2 DEF CardInv, CardTyped
      <4>2. c >= 2 /\ c # 0
        BY <3>2 DEF Valid
      <4>3. <<d, s>> \in EntriesOf(c)
        <5>1. dirs[d][s] \in Entry
          BY DEF CardInv, CardTyped
        <5>2. dirs[d][s].attr \in {"none", "lfn", "file", "dir"}
          BY <5>1 DEF Entry
        <5>3. dirs[d][s].attr \notin {"none", "lfn"}
          BY <4>1, <4>2 DEF CardInv, DirsKept
        <5>4. PICK x : x = <<d, s>>
          OBVIOUS
        <5>5. x \in DirClusters \X (1 .. DirSlots) /\ EntryAt(x) = dirs[d][s]
          BY <5>4 DEF EntryAt
        <5>6. Shown(x) /\ EntryAt(x).cluster = c
          BY <4>1, <5>2, <5>3, <5>5 DEF Shown
        <5> QED
          BY <4>2, <5>4, <5>5, <5>6, EntriesHold DEF EntriesAre, CardInv
      <4>4. acked' = [b \in DOMAIN acked \cup {c} |-> IF b = c THEN data[b] ELSE acked[b]]
        BY <1>3, <3>2
      <4>5. ASSUME NEW b \in DOMAIN acked'
            PROVE  /\ b >= 2 /\ EntriesOf(b)' # {} /\ fat'[b] # FREE
                   /\ b \in Whole' => data'[b] = acked'[b]
        <5>1. CASE b = c
          <6>1. EntriesOf(c)' # {}
            BY <1>13, <4>3
          <6>2. fat'[c] # FREE
            BY <1>7, ClusterFacts
          <6>3. acked'[c] = data'[c]
            BY <1>2, <4>4
          <6> QED
            BY <4>2, <5>1, <6>1, <6>2, <6>3
        <5>2. CASE b # c
          <6>1. b \in DOMAIN acked /\ acked'[b] = acked[b]
            BY <4>4, <5>2
          <6> QED
            BY <3>1, <6>1
        <5> QED
          BY <5>1, <5>2
      <4> QED
        BY <4>5 DEF AckedOnCard
    <3>3. CASE ~ (Valid(c) /\ \E d \in DOMAIN dirs, s \in 1 .. DirSlots : dirs[d][s].cluster = c)
      <4>1. acked' = acked
        BY <1>3, <3>3
      <4> QED
        BY <3>1, <4>1 DEF AckedOnCard
    <3> QED
      BY <3>2, <3>3
  <2> QED
    BY <2>1, <2>2, <2>3, <2>4 DEF EntriesInv
<1>17. InodesInv'
  <2>1. DirInodes' /\ InodesOnce' /\ InodesShow'
    BY <1>2, <1>14 DEF InodesInv, DirInodes, InodesOnce, InodesShow
  <2>2. InodesTaken'
    BY <1>1, <1>2, <1>14, <1>15 DEF InodesInv, InodesTaken
  <2> QED
    BY <2>1, <2>2 DEF InodesInv
<1>18. ScanInv'
  <2>1. \A b \in {root_dir, SubDir, 0} : Len(ScanDir(b))' = Len(ScanDir(b))
    BY <1>2, <1>9, ScanKept
  <2>2. DirsOnce'
    BY <1>2 DEF ScanInv, DirsOnce
  <2>3. ScanFits'
    BY <2>1 DEF ScanFits, ScanInv
  <2>4. ScanShown'
    BY <1>2, <2>1 DEF ScanShown, ScanInv, InodesInv, DirInodes
  <2> QED
    BY <2>2, <2>3, <2>4 DEF ScanInv
<1> QED
  BY <1>9, <1>11, <1>12, <1>16, <1>17, <1>18

(* The step gives inode n the contents dt.                                 *)
Alters(n, dt) ==
  /\ nodes' \in Seq(Inodes) /\ DOMAIN nodes' = DOMAIN nodes
  /\ \A m \in DOMAIN nodes :
       /\ nodes'[m].type = nodes[m].type /\ nodes'[m].cluster = nodes[m].cluster
       /\ nodes'[m].childs = nodes[m].childs
       /\ nodes'[m].data = IF m = n THEN dt ELSE nodes[m].data

(* An inode with new contents is an inode.                                 *)
LEMMA NewContents ==
  ASSUME NEW x \in Inodes, NEW dt \in Contents, NEW sz \in Nat
  PROVE  \E y \in Inodes :
           /\ y = [x EXCEPT !.data = dt, !.data_size = sz]
           /\ y.type = x.type /\ y.cluster = x.cluster /\ y.childs = x.childs /\ y.data = dt
<1>1. PICK a, nm, ch, cl : a = x.type /\ nm = x.name /\ ch = x.childs /\ cl = x.cluster
  OBVIOUS
<1>2. PICK y : y = [type |-> a, name |-> nm, childs |-> ch, cluster |-> cl,
                    data_size |-> sz, data |-> dt]
  OBVIOUS
<1>3. /\ a \in {"file", "dir"} /\ nm \in [stem : Stems \cup {""}, dot : BOOLEAN]
      /\ ch \in Seq(Nat) /\ cl \in Clusters
  BY <1>1, InodeFields
<1>4. y \in Inodes
  BY <1>2, <1>3, InodeTyped
<1>5. y.type = a /\ y.cluster = cl /\ y.childs = ch /\ y.data = dt
  BY <1>2
<1>6. y = [x EXCEPT !.data = dt, !.data_size = sz]
  <2>1. PICK w : w = [x EXCEPT !.data = dt, !.data_size = sz]
    OBVIOUS
  <2>2. w = [type |-> x.type, name |-> x.name, childs |-> x.childs, cluster |-> x.cluster,
             data_size |-> sz, data |-> dt]
    BY <2>1 DEF Inodes
  <2>3. w = y
    BY <1>1, <1>2, <2>2, Zenon
  <2> QED
    BY <2>1, <2>3, Zenon
<1> QED
  BY <1>1, <1>4, <1>5, <1>6

(* The assignments of fat32_read() and fat32_write() do that.              *)
LEMMA AltersIs ==
  ASSUME nodes \in Seq(Inodes), NEW n \in DOMAIN nodes, NEW dt \in Contents, NEW sz \in Nat,
         NEW z, z = [nodes[n] EXCEPT !.data = dt, !.data_size = sz],
         nodes' = [nodes EXCEPT ![n] = z]
  PROVE  Alters(n, dt)
<1>1. PICK x \in Inodes : x = nodes[n]
  OBVIOUS
<1>2. PICK y \in Inodes :
        /\ y = [x EXCEPT !.data = dt, !.data_size = sz]
        /\ y.type = x.type /\ y.cluster = x.cluster /\ y.childs = x.childs /\ y.data = dt
  BY NewContents, ZenonT(30)
<1>3. y = z
  BY <1>1, <1>2, Zenon
<1>4. y.type = x.type /\ y.cluster = x.cluster /\ y.childs = x.childs /\ y.data = dt
  BY <1>2
<1>5. PICK l \in Nat : DOMAIN nodes = 1 .. l /\ nodes \in [1 .. l -> Inodes]
  BY SeqDef
<1>6. nodes' \in [1 .. l -> Inodes] /\ \A m \in 1 .. l : nodes'[m] = IF m = n THEN y ELSE nodes[m]
  BY <1>3, <1>5
<1>7. nodes' \in Seq(Inodes) /\ DOMAIN nodes' = 1 .. l
  BY <1>6, SeqDef
<1>8. ASSUME NEW m \in 1 .. l
      PROVE  /\ nodes'[m].type = nodes[m].type /\ nodes'[m].cluster = nodes[m].cluster
             /\ nodes'[m].childs = nodes[m].childs
             /\ nodes'[m].data = IF m = n THEN dt ELSE nodes[m].data
  <2>1. CASE m = n
    <3>1. nodes'[m] = y /\ nodes[m] = x
      BY <1>1, <1>6, <2>1
    <3> QED
      BY <1>4, <2>1, <3>1, Zenon
  <2>2. CASE m # n
    BY <1>6, <2>2
  <2> QED
    BY <2>1, <2>2
<1> QED
  BY <1>5, <1>7, <1>8 DEF Alters

(* A step after which inode n, its cluster and what is acknowledged of it  *)
(* have the contents dt: what a read and a write have in common.           *)
LEMMA DataStep ==
  ASSUME FatInv, NEW n \in DOMAIN nodes, nodes[n].type = "file", NEW dt \in Contents,
         Alters(n, dt), data' = [data EXCEPT ![nodes[n].cluster] = dt],
         DOMAIN acked' = DOMAIN acked, acked' \in [DOMAIN acked -> Contents],
         \A b \in DOMAIN acked :
           /\ b # nodes[n].cluster => acked'[b] = acked[b]
           /\ b = nodes[n].cluster /\ b \in Whole => acked'[b] = dt,
         create = None, create' = None, fat' = fat, dirs' = dirs, torn' = torn
  PROVE  FatInv'
<1> USE DEF FatInv
<1>1. nodes[n] \in Inodes
  BY DEF MemTyped
<1>2. PICK c \in Clusters : c = nodes[n].cluster
  BY <1>1, InodeFields
<1>3. /\ data' \in [Clusters -> Contents]
      /\ \A b \in Clusters : data'[b] = IF b = c THEN dt ELSE data[b]
  BY <1>2 DEF CardInv, CardTyped
<1>4. CardInv'
  <2>1. CardTyped'
    BY <1>3 DEF CardInv, CardTyped
  <2> QED
    BY <2>1 DEF CardInv, ChainsKept, DirsKept
<1>5. MemTyped'
  BY DEF MemTyped, Alters
<1>6. CreateFree'
  BY DEF CreateFree
<1>7. Whole' = Whole /\ \A b \in Whole : b \in Clusters
  BY DEF Whole
<1>8. \A b : EntriesOf(b)' = EntriesOf(b)
  BY <1>4, EntriesKept
<1>9. c \in Whole => fat[c] # FREE
  BY <1>2, <1>7, ClusterFacts DEF InodesInv, InodesTaken
<1>10. EntriesInv'
  <2>1. EntriesOnce' /\ EntriesTaken'
    BY <1>7, <1>8 DEF EntriesInv, EntriesOnce, EntriesTaken
  <2>2. FreeUntouched'
    BY <1>3, <1>7, <1>9 DEF EntriesInv, FreeUntouched
  <2>3. AckedOnCard'
    <3> SUFFICES ASSUME NEW b \in DOMAIN acked
                 PROVE  /\ b >= 2 /\ EntriesOf(b)' # {} /\ fat'[b] # FREE
                        /\ b \in Whole' => data'[b] = acked'[b]
      BY DEF AckedOnCard
    <3>1. b \in Clusters
      BY DEF MemTyped
    <3>2. b \in Whole' => data'[b] = acked'[b]
      BY <1>2, <1>3, <1>7, <3>1 DEF EntriesInv, AckedOnCard
    <3> QED
      BY <1>8, <3>2 DEF EntriesInv, AckedOnCard
  <2> QED
    BY <2>1, <2>2, <2>3 DEF EntriesInv
<1>11. InodesInv'
  <2>1. DirInodes' /\ InodesTaken'
    BY <1>7 DEF InodesInv, DirInodes, InodesTaken, Alters
  <2>2. InodesOnce'
    BY <1>7 DEF InodesInv, InodesOnce, Alters
  <2>3. InodesShow'
    <3> SUFFICES ASSUME NEW m \in DOMAIN nodes, nodes[m].type = "file", nodes[m].cluster \in Whole
                 PROVE  nodes'[m].data = data'[nodes[m].cluster]
      BY <1>7 DEF InodesShow, Alters
    <3>1. CASE m = n
      BY <1>2, <1>3, <3>1 DEF Alters
    <3>2. CASE m # n
      <4>1. nodes[m].cluster # c
        BY <1>2, <3>2 DEF InodesInv, InodesOnce
      <4>2. nodes[m].data = data[nodes[m].cluster]
        BY DEF InodesInv, InodesShow
      <4>3. data'[nodes[m].cluster] = data[nodes[m].cluster]
        BY <1>3, <1>7, <4>1
      <4> QED
        BY <3>2, <4>2, <4>3 DEF Alters
    <3> QED
      BY <3>1, <3>2
  <2> QED
    BY <2>1, <2>2, <2>3 DEF InodesInv
<1>12. ScanInv'
  <2>1. \A b \in {root_dir, SubDir, 0} : Len(ScanDir(b))' = Len(ScanDir(b))
    BY <1>4, ScanKept
  <2>2. DirsOnce'
    BY DEF ScanInv, DirsOnce, Alters
  <2>3. ScanFits'
    BY <2>1 DEF ScanFits, ScanInv
  <2>4. ScanShown'
    <3> SUFFICES ASSUME NEW m \in DOMAIN nodes, nodes[m].type = "dir", NEW b,
                        b = nodes[m].cluster, b # 0
                 PROVE  Len(ScanDir(b)') <= Len(nodes[m].childs)
      BY DEF ScanShown, Alters
    <3>1. b \in {root_dir, SubDir, 0}
      BY DEF InodesInv, DirInodes
    <3>2. Len(ScanDir(b)) <= Len(nodes[m].childs)
      BY DEF ScanInv, ScanShown
    <3> QED
      BY <2>1, <3>1, <3>2
  <2> QED
    BY <2>2, <2>3, <2>4 DEF ScanInv
<1> QED
  BY <1>4, <1>5, <1>6, <1>10, <1>11, <1>12

(* A read.                                                                 *)
LEMMA ReadInv ==
  ASSUME FatInv, NEW n \in DOMAIN nodes, Read(n)
  PROVE  FatInv'
<1>1. /\ create = None /\ nodes[n].type = "file"
      /\ fat' = fat /\ dirs' = dirs /\ data' = data /\ create' = create /\ acked' = acked
      /\ torn' = torn
  BY DEF Read, card
<1>2. nodes[n] \in Inodes /\ nodes \in Seq(Inodes)
  BY DEF FatInv, MemTyped
<1>3. PICK c \in Clusters : c = nodes[n].cluster
  BY <1>2, InodeFields
<1>4. PICK dt : dt = data[c]
  OBVIOUS
<1>5. data \in [Clusters -> Contents] /\ dt \in Contents
  BY <1>4 DEF FatInv, CardInv, CardTyped
<1>6. Alters(n, dt)
  <2>1. PICK sz \in Nat : sz = nodes[n].data_size
    BY <1>2, InodeFields
  <2>2. PICK y : y = [nodes[n] EXCEPT !.data = dt, !.data_size = sz]
    OBVIOUS
  <2>3. [nodes[n] EXCEPT !.data = dt] = y
    BY <1>2, <2>1, <2>2 DEF Inodes
  <2>4. nodes' = [nodes EXCEPT ![n] = y]
    BY <1>3, <1>4, <2>3 DEF Read
  <2> QED
    BY <1>2, <1>5, <2>2, <2>4, AltersIs
<1>7. data' = [data EXCEPT ![nodes[n].cluster] = dt]
  BY <1>1, <1>3, <1>4, <1>5
<1>8. DOMAIN acked' = DOMAIN acked /\ acked' \in [DOMAIN acked -> Contents]
  BY <1>1 DEF FatInv, MemTyped
<1>9. \A b \in DOMAIN acked :
        /\ b # nodes[n].cluster => acked'[b] = acked[b]
        /\ b = nodes[n].cluster /\ b \in Whole => acked'[b] = dt
  BY <1>1, <1>3, <1>4 DEF FatInv, EntriesInv, AckedOnCard
<1>10. create' = None
  BY <1>1
<1> QED
  BY <1>1, <1>5, <1>6, <1>7, <1>8, <1>9, <1>10, DataStep

(* A write.                                                                *)
LEMMA WriteInv ==
  ASSUME FatInv, NEW n \in DOMAIN nodes, NEW pos \in 0 .. BlockLen - 1, NEW v \in Values,
         Write(n, pos, v)
  PROVE  FatInv'
<1>1. PICK dt : dt = [nodes[n].data EXCEPT ![pos + 1] = v]
  OBVIOUS
<1>2. /\ create = None /\ nodes[n].type = "file"
      /\ data' = [data EXCEPT ![nodes[n].cluster] = dt]
      /\ acked' = IF nodes[n].cluster \in DOMAIN acked
                  THEN [acked EXCEPT ![nodes[n].cluster] = dt] ELSE acked
      /\ fat' = fat /\ dirs' = dirs /\ create' = create /\ torn' = torn
  BY <1>1 DEF Write, WriteBlock
<1>3. nodes[n] \in Inodes /\ nodes \in Seq(Inodes)
  BY DEF FatInv, MemTyped
<1>4. dt \in Contents
  <2>1. nodes[n].data \in Contents
    BY <1>3, InodeFields
  <2> QED
    BY <1>1, <2>1 DEF Contents
<1>5. Alters(n, dt)
  <2>1. PICK sz \in Nat : sz = nodes[n].data_size
    BY <1>3, InodeFields
  <2>2. PICK sz2 \in Nat : sz2 = IF sz < pos + 1 THEN pos + 1 ELSE sz
    BY Layout
  <2>3. PICK y : y = [nodes[n] EXCEPT !.data = dt, !.data_size = sz2]
    OBVIOUS
  <2>4. nodes' = [nodes EXCEPT ![n] = y]
    <3>1. nodes' = [nodes EXCEPT ![n].data = dt,
                                 ![n].data_size = IF @ < pos + 1 THEN pos + 1 ELSE @]
      BY <1>1 DEF Write
    <3>2. [nodes EXCEPT ![n].data = dt][n].data_size = sz
      BY <1>3, <2>1 DEF Inodes
    <3> QED
      BY <1>3, <2>1, <2>2, <2>3, <3>1, <3>2
  <2> QED
    BY <1>3, <1>4, <2>3, <2>4, AltersIs
<1>6. DOMAIN acked' = DOMAIN acked /\ acked' \in [DOMAIN acked -> Contents]
  BY <1>2, <1>4 DEF FatInv, MemTyped
<1>7. \A b \in DOMAIN acked :
        /\ b # nodes[n].cluster => acked'[b] = acked[b]
        /\ b = nodes[n].cluster /\ b \in Whole => acked'[b] = dt
  BY <1>2 DEF FatInv, MemTyped
<1>8. create' = None
  BY <1>2
<1> QED
  BY <1>2, <1>4, <1>5, <1>6, <1>7, <1>8, DataStep

(* The step adds inode x as a child of dir.                                *)
Adds(dir, x) ==
  /\ nodes' \in Seq(Inodes) /\ Len(nodes') = Len(nodes) + 1 /\ nodes'[Len(nodes) + 1] = x
  /\ \A m \in 1 .. Len(nodes) :
       /\ nodes'[m].type = nodes[m].type /\ nodes'[m].cluster = nodes[m].cluster
       /\ nodes'[m].data = nodes[m].data
       /\ Len(nodes'[m].childs) = IF m = dir THEN Len(nodes[m].childs) + 1
                                  ELSE Len(nodes[m].childs)

(* An inode with one more child is an inode.                               *)
LEMMA NewChilds ==
  ASSUME NEW x \in Inodes, NEW k \in Nat
  PROVE  \E y \in Inodes :
           /\ y = [x EXCEPT !.childs = Append(@, k)]
           /\ y.type = x.type /\ y.cluster = x.cluster /\ y.data = x.data
           /\ Len(y.childs) = Len(x.childs) + 1
<1>1. PICK a, nm, ch, cl, sz, dt :
        /\ a = x.type /\ nm = x.name /\ ch = x.childs /\ cl = x.cluster
        /\ sz = x.data_size /\ dt = x.data
  OBVIOUS
<1>2. /\ a \in {"file", "dir"} /\ nm \in [stem : Stems \cup {""}, dot : BOOLEAN]
      /\ ch \in Seq(Nat) /\ cl \in Clusters /\ sz \in Nat /\ dt \in Contents
  BY <1>1, InodeFields
<1>3. PICK kids : kids = Append(ch, k)
  OBVIOUS
<1>4. kids \in Seq(Nat) /\ Len(kids) = Len(ch) + 1
  <2>1. ch \in Seq(Nat)
    BY <1>2
  <2>2. Append(ch, k) \in Seq(Nat) /\ Len(Append(ch, k)) = Len(ch) + 1
    BY <2>1, AppendProperties
  <2> QED
    BY <1>3, <2>2
<1>5. PICK y : y = [type |-> a, name |-> nm, childs |-> kids, cluster |-> cl,
                    data_size |-> sz, data |-> dt]
  OBVIOUS
<1>6. y \in Inodes
  BY <1>2, <1>4, <1>5, InodeTyped
<1>7. y.type = a /\ y.cluster = cl /\ y.childs = kids /\ y.data = dt
  BY <1>5
<1>8. y = [x EXCEPT !.childs = Append(@, k)]
  <2>1. PICK w : w = [x EXCEPT !.childs = kids]
    OBVIOUS
  <2>2. w = [type |-> x.type, name |-> x.name, childs |-> kids, cluster |-> x.cluster,
             data_size |-> x.data_size, data |-> x.data]
    BY <2>1 DEF Inodes
  <2>3. w = y
    BY <1>1, <1>5, <2>2, Zenon
  <2>4. [x EXCEPT !.childs = Append(@, k)] = [x EXCEPT !.childs = kids]
    BY <1>1, <1>3, Zenon
  <2> QED
    BY <2>1, <2>3, <2>4, Zenon
<1> QED
  BY <1>1, <1>4, <1>6, <1>7, <1>8

(* The assignments of fat32_create() and fat32_mkdir() do that.            *)
LEMMA AddsIs ==
  ASSUME nodes \in Seq(Inodes), NEW dir \in DOMAIN nodes, NEW x \in Inodes,
         nodes' = AddChild(dir, x)
  PROVE  Adds(dir, x)
<1>1. PICK l \in Nat : l = Len(nodes) /\ DOMAIN nodes = 1 .. l /\ nodes \in [1 .. l -> Inodes]
  BY SeqDef
<1>2. PICK u : u = Append(nodes, x)
  OBVIOUS
<1>3. /\ u \in Seq(Inodes) /\ Len(u) = l + 1 /\ u[l + 1] = x
      /\ \A m \in 1 .. l : u[m] = nodes[m]
  BY <1>1, <1>2
<1>4. DOMAIN u = 1 .. l + 1 /\ dir \in 1 .. l /\ dir \in 1 .. l + 1 /\ dir # l + 1 /\ l + 1 \in Nat
  BY <1>1, <1>3
<1>5. PICK p \in Inodes : p = nodes[dir]
  OBVIOUS
<1>6. PICK y \in Inodes :
        /\ y = [p EXCEPT !.childs = Append(@, l + 1)]
        /\ y.type = p.type /\ y.cluster = p.cluster /\ y.data = p.data
        /\ Len(y.childs) = Len(p.childs) + 1
  BY <1>4, NewChilds
<1>7. u[dir] = p
  BY <1>3, <1>4, <1>5
<1>8. nodes' = [u EXCEPT ![dir] = y]
  <2>1. nodes' = [u EXCEPT ![dir].childs = Append(@, l + 1)]
    BY <1>1, <1>2, Zenon DEF AddChild
  <2> QED
    BY <1>6, <1>7, <2>1, Zenon
<1>9. u \in [1 .. l + 1 -> Inodes]
  BY <1>3, <1>4
<1>10. /\ nodes' \in [1 .. l + 1 -> Inodes]
       /\ \A m \in 1 .. l + 1 : nodes'[m] = IF m = dir THEN y ELSE u[m]
  BY <1>6, <1>8, <1>9
<1>11. nodes' \in Seq(Inodes) /\ Len(nodes') = l + 1
  BY <1>4, <1>10, SeqDef
<1>12. nodes'[l + 1] = x
  BY <1>3, <1>4, <1>10
<1>13. ASSUME NEW m \in 1 .. l
       PROVE  /\ nodes'[m].type = nodes[m].type /\ nodes'[m].cluster = nodes[m].cluster
              /\ nodes'[m].data = nodes[m].data
              /\ Len(nodes'[m].childs) = IF m = dir THEN Len(nodes[m].childs) + 1
                                         ELSE Len(nodes[m].childs)
  <2>1. m \in 1 .. l + 1
    BY <1>1
  <2>2. CASE m = dir
    <3>1. nodes'[m] = y /\ nodes[m] = p
      BY <1>5, <1>10, <2>1, <2>2
    <3> QED
      BY <1>6, <2>2, <3>1, Zenon
  <2>3. CASE m # dir
    <3>1. nodes'[m] = nodes[m]
      BY <1>3, <1>10, <2>1, <2>3
    <3> QED
      BY <2>3, <3>1, Zenon
  <2> QED
    BY <2>2, <2>3
<1> QED
  BY <1>1, <1>11, <1>12, <1>13 DEF Adds

(* The inode that a program makes.                                         *)
LEMMA NewInode ==
  ASSUME NEW type \in {"file", "dir"}, NEW name \in Names, NEW c \in Clusters
  PROVE  \E x \in Inodes : /\ x = CreateVnode(type, name, c, 0, Zeros)
                           /\ x.type = type /\ x.cluster = c /\ x.data = Zeros
<1>1. name \in [stem : Stems \cup {""}, dot : BOOLEAN]
  BY DEF Names
<1>2. Zeros \in Contents
  BY DEF Zeros, Contents
<1>3. PICK x : x = [type |-> type, name |-> name, childs |-> <<>>, cluster |-> c,
                    data_size |-> 0, data |-> Zeros]
  OBVIOUS
<1>4. x \in Inodes
  <2>1. <<>> \in Seq(Nat) /\ 0 \in Nat
    OBVIOUS
  <2> QED
    BY <1>1, <1>2, <1>3, <2>1, InodeTyped
<1>5. x.type = type /\ x.cluster = c /\ x.data = Zeros
  BY <1>3
<1>6. x = CreateVnode(type, name, c, 0, Zeros)
  BY <1>3, Zenon DEF CreateVnode
<1> QED
  BY <1>4, <1>5, <1>6

(* A mkdir, in memory.                                                     *)
LEMMA MkdirInv ==
  ASSUME FatInv, NEW dir \in DOMAIN nodes, NEW name \in Names, Mkdir(dir, name)
  PROVE  FatInv'
<1> USE DEF FatInv
<1>1. /\ fat' = fat /\ dirs' = dirs /\ data' = data /\ create' = create /\ acked' = acked
      /\ torn' = torn /\ nodes' = AddChild(dir, CreateVnode("dir", name, 0, 0, Zeros))
  BY DEF Mkdir, card
<1>2. PICK x \in Inodes : /\ x = CreateVnode("dir", name, 0, 0, Zeros)
                          /\ x.type = "dir" /\ x.cluster = 0
  BY NewInode, ClusterFacts
<1>3. Adds(dir, x)
  <2>1. nodes' = AddChild(dir, x) /\ nodes \in Seq(Inodes)
    BY <1>1, <1>2 DEF MemTyped
  <2> QED
    BY <2>1, AddsIs
<1>4. PICK l \in Nat : l = Len(nodes) /\ DOMAIN nodes = 1 .. l
  BY DEF MemTyped
<1>5. /\ nodes' \in Seq(Inodes) /\ DOMAIN nodes' = 1 .. l + 1
      /\ nodes'[l + 1].type = "dir" /\ nodes'[l + 1].cluster = 0
  BY <1>2, <1>3, <1>4 DEF Adds
<1>6. \A m \in 1 .. l + 1 : m \in 1 .. l \/ m = l + 1
  BY <1>4
<1>7. \A m \in 1 .. l :
        /\ nodes'[m].type = nodes[m].type /\ nodes'[m].cluster = nodes[m].cluster
        /\ nodes'[m].data = nodes[m].data
        /\ Len(nodes'[m].childs) = IF m = dir THEN Len(nodes[m].childs) + 1
                                   ELSE Len(nodes[m].childs)
  BY <1>3, <1>4 DEF Adds
<1>8. CardInv'
  BY <1>1 DEF CardInv, CardTyped, ChainsKept, DirsKept
<1>9. MemTyped' /\ CreateFree'
  BY <1>1, <1>5 DEF MemTyped, CreateFree, FreeEntries
<1>10. Whole' = Whole /\ \A b : EntriesOf(b)' = EntriesOf(b)
  BY <1>1, <1>8, EntriesKept DEF Whole
<1>11. EntriesInv'
  BY <1>1, <1>10 DEF EntriesInv, EntriesOnce, EntriesTaken, FreeUntouched, AckedOnCard
<1>12. InodesInv'
  <2>1. DirInodes'
    BY <1>4, <1>5, <1>6, <1>7 DEF InodesInv, DirInodes
  <2>2. InodesOnce'
    BY <1>4, <1>5, <1>6, <1>7, <1>10 DEF InodesInv, InodesOnce
  <2>3. \A m \in 1 .. l + 1 : nodes'[m].type = "file" => m \in 1 .. l
    BY <1>5, <1>6
  <2>4. InodesTaken'
    BY <1>1, <1>4, <1>5, <1>7, <1>10, <2>3 DEF InodesInv, InodesTaken
  <2>5. InodesShow'
    BY <1>1, <1>4, <1>5, <1>7, <1>10, <2>3 DEF InodesInv, InodesShow
  <2> QED
    BY <2>1, <2>2, <2>4, <2>5 DEF InodesInv
<1>13. ScanInv'
  <2>1. \A b \in {root_dir, SubDir, 0} : Len(ScanDir(b))' = Len(ScanDir(b))
    BY <1>1, <1>8, ScanKept
  <2>2. DirsOnce'
    BY <1>4, <1>5, <1>6, <1>7 DEF ScanInv, DirsOnce
  <2>3. ScanFits'
    BY <2>1 DEF ScanFits, ScanInv
  <2>4. ScanShown'
    <3> SUFFICES ASSUME NEW m \in 1 .. l, nodes[m].type = "dir", NEW b,
                        b = nodes[m].cluster, b # 0
                 PROVE  Len(ScanDir(b)') <= Len(nodes'[m].childs)
      BY <1>5, <1>6, <1>7 DEF ScanShown
    <3>1. b \in {root_dir, SubDir, 0}
      BY <1>4 DEF InodesInv, DirInodes
    <3>2. PICK e, g : e = Len(ScanDir(b)) /\ g = Len(nodes[m].childs)
      OBVIOUS
    <3>3. e \in Nat /\ g \in Nat
      <4>1. nodes[m] \in Inodes
        BY <1>4 DEF MemTyped
      <4>2. nodes[m].childs \in Seq(Nat)
        BY <4>1, InodeFields
      <4>3. ScanDir(b) \in Seq(Inodes)
        BY <3>1, ScanIs DEF IsScan, CardInv
      <4> QED
        BY <3>2, <4>2, <4>3
    <3>4. e <= g
      BY <1>4, <3>2 DEF ScanInv, ScanShown
    <3>5. Len(ScanDir(b)') = e
      BY <2>1, <3>1, <3>2
    <3>6. Len(nodes'[m].childs) = IF m = dir THEN g + 1 ELSE g
      BY <1>7, <3>2
    <3> QED
      BY <3>3, <3>4, <3>5, <3>6
  <2> QED
    BY <2>2, <2>3, <2>4 DEF ScanInv
<1> QED
  BY <1>8, <1>9, <1>11, <1>12, <1>13

(* The cluster that get_free_fat_cluster() finds is free, or there is      *)
(* none: as long as the first block of the table serves.                   *)
LEMMA FreeCluster ==
  ASSUME CardInv, FirstBlockServes
  PROVE  /\ GetFreeFatCluster \in Clusters
         /\ fat[GetFreeFatCluster] = FREE \/ (GetFreeFatCluster = 0 /\ FreeEntries = {})
<1>1. CASE FreeEntries = {}
  BY <1>1, ClusterFacts DEF GetFreeFatCluster
<1>2. CASE FreeEntries # {}
  <2>1. FreeEntries \subseteq Nat /\ \A c \in FreeEntries : c \in Clusters /\ fat[c] = FREE
    BY ClusterFacts DEF FreeEntries
  <2>2. \E x \in FreeEntries : \A y \in FreeEntries : x <= y
    BY <1>2, <2>1, LeastElement
  <2>3. PICK m : m = CHOOSE c \in FreeEntries : \A d \in FreeEntries : c <= d
    OBVIOUS
  <2>4. m \in FreeEntries /\ \A d \in FreeEntries : m <= d
    BY <2>2, <2>3
  <2>5. PICK c \in FreeEntries : c < PerBlock
    BY <1>2 DEF FirstBlockServes
  <2>6. m \in Nat /\ c \in Nat /\ m <= c
    BY <2>1, <2>4
  <2>7. m % PerBlock = m
    <3>1. PICK P \in Nat \ {0} : P = PerBlock
      BY Layout
    <3>2. m < 1 * P
      BY <2>5, <2>6, <3>1
    <3>3. m \div P \in Nat /\ m \div P < 1
      BY <2>6, <3>2, Quotient
    <3>4. PICK q \in Int, r \in Int : q = m \div P /\ r = m % P /\ m = P * q + r
      BY <2>6
    <3>5. q = 0
      BY <3>3, <3>4
    <3>6. P * q = 0
      BY <3>5
    <3> QED
      BY <2>6, <3>1, <3>4, <3>6
  <2>8. GetFreeFatCluster = m
    BY <1>2, <2>3, <2>7 DEF GetFreeFatCluster
  <2> QED
    BY <2>1, <2>4, <2>8
<1> QED
  BY <1>1, <1>2

(* The step gives entry e to the slots of T, of which there is at most     *)
(* one: the first of directory c that is not in use, if there is one.      *)
Takes(T, c, e) ==
  /\ dirs' \in [DirClusters -> [1 .. DirSlots -> Entry]]
  /\ \A x \in T : /\ x \in DirClusters \X (1 .. DirSlots) /\ EntryAt(x).attr = "none"
                  /\ \E k \in DOMAIN SlotList(c) : x = SlotList(c)[k]
  /\ \A x, y \in T : x = y
  /\ \A y \in DirClusters \X (1 .. DirSlots) : EntryAt(y)' = IF y \in T THEN e ELSE EntryAt(y)

(* fat32_new_dir_entry() does that.                                        *)
LEMMA TakesIs ==
  ASSUME CardInv, NEW c \in {root_dir, SubDir, 0}, NEW e \in Entry, dirs' = NewDirEntry(c, e)
  PROVE  \E T : Takes(T, c, e)
<1>1. PICK sl : sl = SlotsOf(c)
  OBVIOUS
<1>2. sl = SlotList(c) /\ IsSlots(sl, c)
  BY <1>1, DirSlotsOf DEF CardInv
<1>3. PICK open : open = {k \in DOMAIN sl : dirs[sl[k][1]][sl[k][2]].attr = "none"}
  OBVIOUS
<1>4. dirs' = IF open = {} THEN dirs
              ELSE [dirs EXCEPT ![sl[First(open)][1]][sl[First(open)][2]] = e]
  BY <1>1, <1>3 DEF NewDirEntry
<1>5. dirs \in [DirClusters -> [1 .. DirSlots -> Entry]]
  BY DEF CardInv, CardTyped
<1>6. CASE open = {}
  <2>1. dirs' = dirs
    BY <1>4, <1>6
  <2>2. \A y : EntryAt(y)' = EntryAt(y)
    BY <2>1, Zenon DEF EntryAt
  <2>3. Takes({}, c, e)
    BY <1>5, <2>1, <2>2 DEF Takes
  <2> QED
    BY <2>3
<1>7. CASE open # {}
  <2>1. sl \in Seq(DirClusters \X (1 .. DirSlots))
    BY <1>2 DEF IsSlots
  <2>2. open \subseteq Nat
    BY <1>3, <2>1
  <2>3. \E x \in open : \A y \in open : x <= y
    BY <1>7, <2>2, LeastElement
  <2>4. PICK k : k = First(open)
    OBVIOUS
  <2>5. k \in open
    BY <2>3, <2>4 DEF First
  <2>6. k \in DOMAIN sl /\ dirs[sl[k][1]][sl[k][2]].attr = "none"
    BY <1>3, <2>5
  <2>7. PICK d \in DirClusters, s \in 1 .. DirSlots : sl[k] = <<d, s>>
    BY <2>1, <2>6
  <2>8. dirs[d][s].attr = "none"
    BY <2>6, <2>7
  <2>9. dirs' = [dirs EXCEPT ![d][s] = e]
    BY <1>4, <1>7, <2>4, <2>7
  <2>10. /\ dirs' \in [DirClusters -> [1 .. DirSlots -> Entry]]
         /\ \A b \in DirClusters, t \in 1 .. DirSlots :
              dirs'[b][t] = IF b = d /\ t = s THEN e ELSE dirs[b][t]
    <3>1. PICK g : g = [dirs[d] EXCEPT ![s] = e]
      OBVIOUS
    <3>2. dirs[d] \in [1 .. DirSlots -> Entry]
      BY <1>5
    <3>3. /\ g \in [1 .. DirSlots -> Entry]
          /\ \A t \in 1 .. DirSlots : g[t] = IF t = s THEN e ELSE dirs[d][t]
      BY <3>1, <3>2
    <3>4. dirs' = [dirs EXCEPT ![d] = g]
      BY <2>9, <3>1, Zenon
    <3>5. /\ dirs' \in [DirClusters -> [1 .. DirSlots -> Entry]]
          /\ \A b \in DirClusters : dirs'[b] = IF b = d THEN g ELSE dirs[b]
      BY <1>5, <3>3, <3>4
    <3> QED
      BY <3>3, <3>5
  <2>11. PICK x : x = <<d, s>>
    OBVIOUS
  <2>12. /\ x \in DirClusters \X (1 .. DirSlots) /\ EntryAt(x).attr = "none"
         /\ k \in DOMAIN SlotList(c) /\ x = SlotList(c)[k]
    BY <1>2, <2>6, <2>7, <2>8, <2>11 DEF EntryAt
  <2>13. ASSUME NEW y \in DirClusters \X (1 .. DirSlots)
         PROVE  EntryAt(y)' = IF y \in {x} THEN e ELSE EntryAt(y)
    <3>1. PICK b \in DirClusters, t \in 1 .. DirSlots : y = <<b, t>>
      OBVIOUS
    <3>2. EntryAt(y)' = dirs'[b][t] /\ EntryAt(y) = dirs[b][t]
      BY <3>1 DEF EntryAt
    <3>3. y = x <=> b = d /\ t = s
      BY <2>11, <3>1
    <3> QED
      BY <2>10, <3>2, <3>3
  <2>14. Takes({x}, c, e)
    BY <2>10, <2>12, <2>13 DEF Takes
  <2> QED
    BY <2>14
<1> QED
  BY <1>6, <1>7

(* The scan of the directory finds at most one inode more, the ones of the *)
(* others find what they found.                                            *)
LEMMA ScanTakes ==
  ASSUME CardInv, CardInv', NEW c \in {root_dir, SubDir, 0}, NEW e, NEW T, Takes(T, c, e),
         NEW b \in {root_dir, SubDir, 0}
  PROVE  /\ Len(ScanDir(b)) \in Nat /\ Len(ScanDir(b))' \in Nat
         /\ b = c => Len(ScanDir(b))' <= Len(ScanDir(b)) + 1
         /\ b # c => Len(ScanDir(b))' = Len(ScanDir(b))
<1>1. PICK sl : sl = SlotList(b)
  OBVIOUS
<1>2. IsSlots(sl, b)
  BY <1>1, SlotListIs
<1>3. sl \in Seq(DirClusters \X (1 .. DirSlots))
  BY <1>2 DEF IsSlots
<1>4. PICK n \in Nat : n = Len(sl) /\ DOMAIN sl = 1 .. n
  BY <1>3
<1>5. \A j \in 1 .. n : sl[j] \in DirClusters \X (1 .. DirSlots)
  BY <1>3, <1>4
<1> DEFINE A == ShownIn(b)
           B == ShownIn(b)'
<1>6. A = {j \in 1 .. n : Shown(sl[j])}
  BY <1>1, <1>4 DEF ShownIn, ShownUpTo
<1>7. B = {j \in 1 .. n : Shown(sl[j])'}
  BY <1>1, <1>4 DEF ShownIn, ShownUpTo
<1>8. Len(ScanDir(b)) = Cardinality(A)
  BY ScanLensHold DEF ScanLens, CardInv
<1>9. Len(ScanDir(b))' = Cardinality(B)
  BY ScanLensNext DEF ScanLens, CardInv
<1> HIDE DEF A, B
<1>10. IsFiniteSet(A) /\ IsFiniteSet(B)
  <2>1. IsFiniteSet(1 .. n)
    BY <1>4, FS_Interval
  <2>2. A \subseteq 1 .. n /\ B \subseteq 1 .. n
    BY <1>6, <1>7
  <2> QED
    BY <2>1, <2>2, FS_Subset
<1>11. Cardinality(A) \in Nat /\ Cardinality(B) \in Nat
  BY <1>10, FS_CardinalityType
<1>12. \A j \in 1 .. n : sl[j] \notin T => (Shown(sl[j])' <=> Shown(sl[j]))
  <2> SUFFICES ASSUME NEW j \in 1 .. n, sl[j] \notin T PROVE Shown(sl[j])' <=> Shown(sl[j])
    OBVIOUS
  <2>1. EntryAt(sl[j])' = EntryAt(sl[j])
    BY <1>5 DEF Takes
  <2> QED
    BY <2>1, Zenon DEF Shown
<1>13. ASSUME b # c PROVE Len(ScanDir(b))' = Len(ScanDir(b))
  <2>1. ASSUME NEW j \in 1 .. n PROVE sl[j] \notin T
    <3> SUFFICES ASSUME sl[j] \in T PROVE FALSE
      OBVIOUS
    <3>1. PICK k \in DOMAIN SlotList(c) : sl[j] = SlotList(c)[k]
      BY DEF Takes
    <3>2. IsSlots(SlotList(c), c)
      BY SlotListIs
    <3>3. c # 0 /\ b # 0
      <4>1. b = 0 => n = 0
        BY <1>2, <1>4 DEF IsSlots
      <4>2. c = 0 => DOMAIN SlotList(c) = {}
        BY <3>2 DEF IsSlots
      <4> QED
        BY <3>1, <4>1, <4>2
    <3>4. (sl[j][1] = SubDir <=> b = SubDir) /\ (sl[j][1] = SubDir <=> c = SubDir)
      <4>1. sl[j][1] = SubDir <=> b = SubDir
        BY <1>2, <1>4, <3>3, Layout DEF IsSlots
      <4>2. sl[j][1] = SubDir <=> c = SubDir
        BY <3>1, <3>2, <3>3, Layout DEF IsSlots
      <4> QED
        BY <4>1, <4>2
    <3> QED
      BY <1>13, <3>3, <3>4
  <2>2. A = B
    BY <1>6, <1>7, <1>12, <2>1
  <2> QED
    BY <1>8, <1>9, <2>2
<1>14. Cardinality(B) <= Cardinality(A) + 1
  <2>1. CASE \A j \in 1 .. n : sl[j] \notin T
    <3>1. A = B
      BY <1>6, <1>7, <1>12, <2>1
    <3> QED
      BY <1>11, <3>1
  <2>2. CASE \E j \in 1 .. n : sl[j] \in T
    <3>1. PICK j \in 1 .. n : sl[j] \in T
      BY <2>2
    <3>2. \A k \in 1 .. n : sl[k] \in T => k = j
      <4>1. \A x, y \in T : x = y
        BY Zenon DEF Takes
      <4>2. \A k, m \in 1 .. n : sl[k] = sl[m] => k = m
        BY <1>2, <1>4, Zenon DEF IsSlots
      <4> QED
        BY <3>1, <4>1, <4>2, Zenon
    <3>3. B \subseteq A \cup {j}
      BY <1>6, <1>7, <1>12, <3>2
    <3>4. IsFiniteSet(A \cup {j}) /\ Cardinality(A \cup {j}) <= Cardinality(A) + 1
      <4>1. /\ IsFiniteSet(A \cup {j})
            /\ Cardinality(A \cup {j}) = IF j \in A THEN Cardinality(A) ELSE Cardinality(A) + 1
        BY <1>10, FS_AddElement
      <4> QED
        BY <1>11, <4>1
    <3>5. Cardinality(B) <= Cardinality(A \cup {j}) /\ Cardinality(A \cup {j}) \in Nat
      BY <3>3, <3>4, FS_Subset, FS_CardinalityType
    <3> QED
      BY <1>11, <3>4, <3>5
  <2> QED
    BY <2>1, <2>2
<1> QED
  BY <1>8, <1>9, <1>11, <1>13, <1>14

(* A create, up to the directory entry.                                    *)
LEMMA CreateInv ==
  ASSUME FatInv, FirstBlockServes, NEW dir \in DOMAIN nodes, NEW name \in Names,
         Create(dir, name)
  PROVE  FatInv'
<1> USE DEF FatInv
<1>1. PICK c : c = GetFreeFatCluster
  OBVIOUS
<1>2. PICK e : e = [attr |-> "file", stem |-> name.stem, cluster |-> c, size |-> BlockLen]
  OBVIOUS
<1>3. PICK d : d = nodes[dir].cluster
  OBVIOUS
<1>4. /\ create = None /\ Room(dir)
      /\ nodes' = AddChild(dir, CreateVnode("file", name, c, 0, Zeros))
      /\ dirs' = NewDirEntry(d, e) /\ create' = c
      /\ fat' = fat /\ data' = data /\ acked' = acked /\ torn' = torn
  BY <1>1, <1>2, <1>3 DEF Create
<1>5. c \in Clusters /\ (fat[c] = FREE \/ (c = 0 /\ FreeEntries = {}))
  BY <1>1, FreeCluster
<1>6. c \notin DirClusters /\ (c >= 2 => fat[c] = FREE)
  BY <1>5, DirsTaken, Layout
<1>7. nodes \in Seq(Inodes) /\ nodes[dir] \in Inodes /\ nodes[dir].type = "dir"
  BY <1>4 DEF MemTyped, Room
<1>8. d \in {root_dir, SubDir, 0}
  BY <1>3, <1>7 DEF InodesInv, DirInodes
<1>9. /\ e \in Entry /\ e.attr = "file" /\ e.cluster = c
  <2>1. name.stem \in Stems
    BY DEF Names
  <2>2. PICK st : st = name.stem
    OBVIOUS
  <2>3. e = [attr |-> "file", stem |-> st, cluster |-> c, size |-> BlockLen]
    BY <1>2, <2>2
  <2>4. "file" \in {"none", "lfn", "file", "dir"} /\ st \in Stems \cup {""} /\ BlockLen \in Nat
    BY <2>1, <2>2, Layout
  <2> QED
    BY <1>5, <2>3, <2>4 DEF Entry
<1>10. PICK T : Takes(T, d, e)
  BY <1>4, <1>8, <1>9, TakesIs DEF CardInv
<1>11. CardInv'
  <2>1. CardTyped'
    BY <1>4, <1>10 DEF CardInv, CardTyped, Takes
  <2>2. ChainsKept'
    BY <1>4 DEF CardInv, ChainsKept
  <2>3. DirsKept'
    <3> SUFFICES ASSUME NEW b \in DirClusters, NEW s \in 1 .. DirSlots
                 PROVE  /\ dirs'[b][s].attr = "dir" =>
                             b = root_dir /\ s = 2 /\ dirs'[b][s].cluster = SubDir
                        /\ dirs'[b][s].attr = "file" => dirs'[b][s].cluster \notin DirClusters
                        /\ dirs'[b][s].attr \in {"none", "lfn"} => dirs'[b][s].cluster = 0
      BY DEF DirsKept
    <3>1. PICK x \in DirClusters \X (1 .. DirSlots) : x = <<b, s>>
      OBVIOUS
    <3>2. EntryAt(x)' = dirs'[b][s] /\ EntryAt(x) = dirs[b][s]
      BY <3>1 DEF EntryAt
    <3>3. CASE x \in T
      <4>1. dirs'[b][s] = e
        BY <1>10, <3>2, <3>3 DEF Takes
      <4> QED
        BY <1>6, <1>9, <4>1
    <3>4. CASE x \notin T
      <4>1. dirs'[b][s] = dirs[b][s]
        BY <1>10, <3>2, <3>4 DEF Takes
      <4> QED
        BY <4>1 DEF CardInv, DirsKept
    <3> QED
      BY <3>3, <3>4
  <2> QED
    BY <2>1, <2>2, <2>3 DEF CardInv
<1>12. PICK x \in Inodes : /\ x = CreateVnode("file", name, c, 0, Zeros)
                           /\ x.type = "file" /\ x.cluster = c /\ x.data = Zeros
  BY <1>5, NewInode
<1>13. Adds(dir, x)
  <2>1. nodes' = AddChild(dir, x)
    BY <1>4, <1>12
  <2> QED
    BY <1>7, <2>1, AddsIs
<1>14. PICK l \in Nat : l = Len(nodes) /\ DOMAIN nodes = 1 .. l
  BY <1>7
<1>15. /\ nodes' \in Seq(Inodes) /\ DOMAIN nodes' = 1 .. l + 1
       /\ nodes'[l + 1].type = "file" /\ nodes'[l + 1].cluster = c /\ nodes'[l + 1].data = Zeros
  BY <1>12, <1>13, <1>14 DEF Adds
<1>16. \A m \in 1 .. l + 1 : m \in 1 .. l \/ m = l + 1
  BY <1>14
<1>17. \A m \in 1 .. l :
         /\ nodes'[m].type = nodes[m].type /\ nodes'[m].cluster = nodes[m].cluster
         /\ nodes'[m].data = nodes[m].data
         /\ Len(nodes'[m].childs) = IF m = dir THEN Len(nodes[m].childs) + 1
                                    ELSE Len(nodes[m].childs)
  BY <1>13, <1>14 DEF Adds
<1>18. MemTyped'
  BY <1>4, <1>5, <1>15 DEF MemTyped
<1>19. CreateFree'
  BY <1>4, <1>5 DEF CreateFree, FreeEntries
<1>20. Whole' = Whole /\ \A b \in Whole : b \in Clusters /\ b >= 2 /\ b # None
  BY <1>4, ClusterFacts DEF Whole
<1>21. \A b, y : y \in EntriesOf(b)' <=> y \in EntriesOf(b) \/ (y \in T /\ b = c /\ c >= 2)
  <2> SUFFICES ASSUME NEW b, NEW y
               PROVE  y \in EntriesOf(b)' <=> y \in EntriesOf(b) \/ (y \in T /\ b = c /\ c >= 2)
    OBVIOUS
  <2>1. y \in EntriesOf(b) <=>
          y \in DirClusters \X (1 .. DirSlots) /\ Shown(y) /\ EntryAt(y).cluster = b /\ b >= 2
    BY EntriesHold DEF EntriesAre, CardInv
  <2>2. y \in EntriesOf(b)' <=>
          y \in DirClusters \X (1 .. DirSlots) /\ Shown(y)' /\ EntryAt(y)'.cluster = b /\ b >= 2
    BY <1>11, EntriesNext DEF EntriesAre, CardInv
  <2>3. CASE y \in T
    <3>1. y \in DirClusters \X (1 .. DirSlots) /\ EntryAt(y).attr = "none" /\ EntryAt(y)' = e
      BY <1>10, <2>3 DEF Takes
    <3>2. ~ Shown(y) /\ Shown(y)' /\ EntryAt(y)'.cluster = c
      BY <1>9, <3>1 DEF Shown
    <3> QED
      BY <2>1, <2>2, <2>3, <3>1, <3>2
  <2>4. CASE y \notin T
    <3>1. ASSUME y \in DirClusters \X (1 .. DirSlots)
          PROVE  EntryAt(y)' = EntryAt(y) /\ (Shown(y)' <=> Shown(y))
      <4>1. EntryAt(y)' = EntryAt(y)
        BY <1>10, <2>4, <3>1 DEF Takes
      <4> QED
        BY <4>1, Zenon DEF Shown
    <3> QED
      BY <2>1, <2>2, <2>4, <3>1
  <2> QED
    BY <2>3, <2>4
<1>22. c \in Whole => EntriesOf(c) = {}
  BY <1>4, <1>6, <1>20 DEF EntriesInv, EntriesTaken
<1>23. EntriesInv'
  <2>1. EntriesOnce'
    <3> SUFFICES ASSUME NEW b \in Whole, NEW y, NEW z, y \in EntriesOf(b)', z \in EntriesOf(b)'
                 PROVE  y = z
      BY <1>20 DEF EntriesOnce
    <3>1. CASE b = c
      BY <1>10, <1>21, <1>22, <3>1 DEF Takes
    <3>2. CASE b # c
      BY <1>21, <3>2 DEF EntriesInv, EntriesOnce
    <3> QED
      BY <3>1, <3>2
  <2>2. EntriesTaken'
    <3> SUFFICES ASSUME NEW b \in Whole, b # c, NEW y, y \in EntriesOf(b)' PROVE fat[b] # FREE
      BY <1>4, <1>20 DEF EntriesTaken
    <3>1. y \in EntriesOf(b)
      BY <1>21
    <3> QED
      BY <1>4, <1>20, <3>1 DEF EntriesInv, EntriesTaken
  <2>3. FreeUntouched'
    BY <1>4, <1>20 DEF EntriesInv, FreeUntouched
  <2>4. AckedOnCard'
    <3> SUFFICES ASSUME NEW b \in DOMAIN acked
                 PROVE  /\ b >= 2 /\ EntriesOf(b)' # {} /\ fat[b] # FREE
                        /\ b \in Whole => data[b] = acked[b]
      BY <1>4, <1>20 DEF AckedOnCard
    <3>1. PICK y : y \in EntriesOf(b)
      BY DEF EntriesInv, AckedOnCard
    <3>2. y \in EntriesOf(b)'
      BY <1>21, <3>1
    <3> QED
      BY <3>2 DEF EntriesInv, AckedOnCard
  <2> QED
    BY <2>1, <2>2, <2>3, <2>4 DEF EntriesInv
<1>24. \A m \in 1 .. l : nodes[m].type = "file" /\ nodes[m].cluster \in Whole =>
         /\ nodes[m].cluster # c /\ fat[nodes[m].cluster] # FREE
         /\ nodes[m].data = data[nodes[m].cluster]
  BY <1>4, <1>6, <1>14, <1>20 DEF InodesInv, InodesTaken, InodesShow
<1>25. InodesInv'
  <2>1. DirInodes'
    BY <1>14, <1>15, <1>16, <1>17 DEF InodesInv, DirInodes
  <2>2. InodesOnce'
    <3> SUFFICES ASSUME NEW m \in 1 .. l + 1, NEW n \in 1 .. l + 1, nodes'[m].type = "file",
                        nodes'[n].type = "file", nodes'[m].cluster \in Whole,
                        nodes'[m].cluster = nodes'[n].cluster
                 PROVE  m = n
      BY <1>15, <1>20 DEF InodesOnce
    <3>1. CASE m \in 1 .. l /\ n \in 1 .. l
      BY <1>14, <1>17, <3>1 DEF InodesInv, InodesOnce
    <3>2. CASE m \in 1 .. l /\ n = l + 1
      BY <1>15, <1>17, <1>24, <3>2
    <3>3. CASE m = l + 1 /\ n \in 1 .. l
      BY <1>15, <1>17, <1>24, <3>3
    <3> QED
      BY <1>16, <3>1, <3>2, <3>3
  <2>3. InodesTaken'
    <3> SUFFICES ASSUME NEW n \in 1 .. l + 1, nodes'[n].type = "file",
                        nodes'[n].cluster \in Whole, nodes'[n].cluster # c
                 PROVE  fat[nodes'[n].cluster] # FREE
      BY <1>4, <1>15, <1>20 DEF InodesTaken
    <3>1. n \in 1 .. l
      BY <1>15, <1>16
    <3> QED
      BY <1>17, <1>24, <3>1
  <2>4. InodesShow'
    <3> SUFFICES ASSUME NEW n \in 1 .. l + 1, nodes'[n].type = "file", nodes'[n].cluster \in Whole
                 PROVE  nodes'[n].data = data[nodes'[n].cluster]
      BY <1>4, <1>15, <1>20 DEF InodesShow
    <3>1. CASE n = l + 1
      <4>1. c \in Whole /\ fat[c] = FREE
        BY <1>6, <1>15, <1>20, <3>1
      <4>2. data[c] = Zeros
        BY <4>1 DEF EntriesInv, FreeUntouched
      <4> QED
        BY <1>15, <3>1, <4>2
    <3>2. CASE n \in 1 .. l
      BY <1>17, <1>24, <3>2
    <3> QED
      BY <1>16, <3>1, <3>2
  <2> QED
    BY <2>1, <2>2, <2>3, <2>4 DEF InodesInv
<1>26. ScanInv'
  <2>1. \A m \in 1 .. l + 1 : nodes'[m].type = "dir" => m \in 1 .. l
    BY <1>15, <1>16
  <2>2. DirsOnce'
    BY <1>14, <1>15, <1>17, <2>1 DEF ScanInv, DirsOnce
  <2>3. \A b \in {root_dir, SubDir, 0} :
          /\ Len(ScanDir(b)) \in Nat /\ Len(ScanDir(b))' \in Nat
          /\ b = d => Len(ScanDir(b))' <= Len(ScanDir(b)) + 1
          /\ b # d => Len(ScanDir(b))' = Len(ScanDir(b))
    BY <1>8, <1>10, <1>11, ScanTakes
  <2>4. PICK g \in Nat : g = Len(nodes[dir].childs)
    <3>1. nodes[dir].childs \in Seq(Nat)
      BY <1>7, InodeFields
    <3> QED
      BY <3>1
  <2>5. d # 0 => Len(ScanDir(d)) <= g
    BY <1>3, <1>7, <2>4 DEF ScanInv, ScanShown
  <2>6. g < MAX_DIR_NUM
    BY <1>4, <2>4 DEF Room
  <2>7. ScanFits'
    <3> SUFFICES ASSUME NEW b \in {root_dir, SubDir} PROVE Len(ScanDir(b))' <= MAX_DIR_NUM
      BY DEF ScanFits
    <3>1. b # 0
      BY Layout
    <3>2. CASE b = d
      BY <2>3, <2>5, <2>6, <3>1, <3>2, Layout, SMTT(30)
    <3>3. CASE b # d
      BY <2>3, <3>3 DEF ScanInv, ScanFits
    <3> QED
      BY <3>2, <3>3
  <2>8. ScanShown'
    <3> SUFFICES ASSUME NEW m \in 1 .. l, nodes[m].type = "dir", NEW b,
                        b = nodes[m].cluster, b # 0
                 PROVE  Len(ScanDir(b)') <= Len(nodes'[m].childs)
      BY <1>15, <1>17, <2>1 DEF ScanShown
    <3>1. b \in {root_dir, SubDir, 0}
      BY <1>14 DEF InodesInv, DirInodes
    <3>2. CASE m = dir
      <4>1. b = d /\ Len(nodes'[m].childs) = g + 1
        BY <1>3, <1>17, <2>4, <3>2
      <4> QED
        BY <2>3, <2>5, <3>1, <4>1
    <3>3. CASE m # dir
      <4>1. b # d
        BY <1>3, <1>7, <1>14, <3>3 DEF ScanInv, DirsOnce
      <4>2. Len(nodes'[m].childs) = Len(nodes[m].childs)
        BY <1>17, <3>3
      <4>3. Len(ScanDir(b)) <= Len(nodes[m].childs)
        BY <1>14 DEF ScanInv, ScanShown
      <4>4. Len(ScanDir(b))' = Len(ScanDir(b))
        BY <2>3, <3>1, <4>1
      <4> QED
        BY <4>2, <4>3, <4>4
    <3> QED
      BY <3>2, <3>3
  <2> QED
    BY <2>2, <2>7, <2>8 DEF ScanInv
<1> QED
  BY <1>11, <1>18, <1>19, <1>23, <1>25, <1>26

(* The formatted card.                                                     *)
LEMMA InitCard ==
  ASSUME Init
  PROVE  CardInv
<1>1. fat = [c \in Clusters |->
              IF c \in {0, 1, SubDir} THEN EOC
              ELSE IF \E k \in DOMAIN RootChain : RootChain[k] = c
              THEN LET k == CHOOSE j \in DOMAIN RootChain : RootChain[j] = c IN
                   IF k = Len(RootChain) THEN EOC ELSE RootChain[k + 1]
              ELSE FREE]
  BY DEF Init
<1>2. dirs = [c \in DirClusters |->
               [s \in 1 .. DirSlots |->
                  IF c # root_dir \/ s > 2 THEN NoEntry
                  ELSE IF s = 1 THEN [NoEntry EXCEPT !.attr = "lfn"]
                  ELSE [attr |-> "dir", stem |-> "d", cluster |-> SubDir, size |-> 0]]]
  BY DEF Init, DirClusters
<1>3. data = [c \in Clusters |-> Zeros]
  BY DEF Init
<1>4. \A k \in DOMAIN RootChain :
        fat[RootChain[k]] = IF k = Len(RootChain) THEN EOC ELSE RootChain[k + 1]
  <2> SUFFICES ASSUME NEW k \in DOMAIN RootChain
               PROVE  fat[RootChain[k]] = IF k = Len(RootChain) THEN EOC ELSE RootChain[k + 1]
    OBVIOUS
  <2>1. PICK c : c = RootChain[k]
    OBVIOUS
  <2>2. c \in Clusters /\ c \notin {0, 1, SubDir}
    BY <2>1, Fat32Assumption
  <2>3. PICK m : m = CHOOSE j \in DOMAIN RootChain : RootChain[j] = c
    OBVIOUS
  <2>4. m \in DOMAIN RootChain /\ RootChain[m] = c
    BY <2>1, <2>3
  <2>5. m = k
    BY <2>1, <2>4, Fat32Assumption
  <2>6. fat[c] = IF m = Len(RootChain) THEN EOC ELSE RootChain[m + 1]
    BY <1>1, <2>1, <2>2, <2>3
  <2> QED
    BY <2>1, <2>5, <2>6
<1>5. fat[0] = EOC /\ fat[1] = EOC /\ fat[SubDir] = EOC
  <2>1. 0 \in Clusters /\ 1 \in Clusters /\ SubDir \in Clusters
    BY Layout
  <2> QED
    BY <1>1, <2>1
<1>6. ChainsKept
  BY <1>4, <1>5, ClusterFacts DEF ChainsKept
<1>7. fat \in [Clusters -> Clusters \cup {EOC}]
  <2> SUFFICES ASSUME NEW c \in Clusters PROVE fat[c] \in Clusters \cup {EOC}
    BY <1>1
  <2>1. CASE c \in {0, 1, SubDir}
    BY <1>5, <2>1
  <2>2. CASE \E k \in DOMAIN RootChain : RootChain[k] = c
    <3>1. PICK k \in DOMAIN RootChain : RootChain[k] = c
      BY <2>2
    <3>2. k # Len(RootChain) => k + 1 \in DOMAIN RootChain
      BY Layout
    <3>3. k # Len(RootChain) => RootChain[k + 1] \in Clusters
      BY <3>2, Layout
    <3> QED
      BY <1>4, <3>1, <3>3
  <2>3. CASE c \notin {0, 1, SubDir} /\ ~ \E k \in DOMAIN RootChain : RootChain[k] = c
    <3>1. fat[c] = FREE
      BY <1>1, <2>3
    <3> QED
      BY <3>1, ClusterFacts DEF FREE
  <2> QED
    BY <2>1, <2>2, <2>3
<1>8. PICK e0, e1, e2 :
        /\ e0 = NoEntry /\ e1 = [NoEntry EXCEPT !.attr = "lfn"]
        /\ e2 = [attr |-> "dir", stem |-> "d", cluster |-> SubDir, size |-> 0]
  OBVIOUS
<1>9. e1 = [attr |-> "lfn", stem |-> "", cluster |-> 0, size |-> 0]
  BY <1>8 DEF NoEntry
<1>10. /\ e0.attr = "none" /\ e0.cluster = 0 /\ e1.attr = "lfn" /\ e1.cluster = 0
       /\ e2.attr = "dir" /\ e2.cluster = SubDir
  BY <1>8, <1>9 DEF NoEntry
<1>11. e0 \in Entry /\ e1 \in Entry /\ e2 \in Entry
  <2>1. "" \in Stems \cup {""} /\ "d" \in Stems \cup {""} /\ 0 \in Clusters /\ SubDir \in Clusters
    BY StemsAssumption, ClusterFacts, Layout
  <2>2. e0 \in Entry
    BY <1>8, <2>1 DEF NoEntry, Entry
  <2>3. e1 \in Entry
    BY <1>9, <2>1 DEF Entry
  <2>4. e2 \in Entry
    BY <1>8, <2>1 DEF Entry
  <2> QED
    BY <2>2, <2>3, <2>4
<1>12. \A c \in DirClusters, s \in 1 .. DirSlots :
         dirs[c][s] = IF c # root_dir \/ s > 2 THEN e0 ELSE IF s = 1 THEN e1 ELSE e2
  BY <1>2, <1>8
<1>13. CardTyped
  <2>1. dirs \in [DirClusters -> [1 .. DirSlots -> Entry]]
    <3>1. \A c \in DirClusters, s \in 1 .. DirSlots : dirs[c][s] \in Entry
      BY <1>11, <1>12
    <3>2. \A c \in DirClusters : dirs[c] \in [1 .. DirSlots -> Entry]
      BY <1>2, <3>1
    <3> QED
      BY <1>2, <3>2
  <2>2. data \in [Clusters -> Contents]
    BY <1>3 DEF Zeros, Contents
  <2> QED
    BY <1>7, <2>1, <2>2 DEF CardTyped
<1>14. DirsKept
  <2> SUFFICES ASSUME NEW d \in DirClusters, NEW s \in 1 .. DirSlots
               PROVE  /\ dirs[d][s].attr = "dir" =>
                           d = root_dir /\ s = 2 /\ dirs[d][s].cluster = SubDir
                      /\ dirs[d][s].attr = "file" => dirs[d][s].cluster \notin DirClusters
                      /\ dirs[d][s].attr \in {"none", "lfn"} => dirs[d][s].cluster = 0
    BY DEF DirsKept
  <2>1. s \in Nat /\ s >= 1
    BY Layout
  <2>2. CASE dirs[d][s] = e0 \/ dirs[d][s] = e1
    BY <1>10, <2>2
  <2>3. CASE dirs[d][s] = e2 /\ d = root_dir /\ ~ (s > 2) /\ s # 1
    BY <1>10, <2>1, <2>3
  <2> QED
    BY <1>12, <2>2, <2>3
<1> QED
  BY <1>6, <1>13, <1>14 DEF CardInv

(* The formatted card, mounted.                                            *)
LEMMA FatInit ==
  ASSUME Init
  PROVE  FatInv
<1>1. CardInv
  BY InitCard
<1>2. /\ nodes = SetupMount /\ create = None /\ acked = [c \in {} |-> Zeros] /\ torn = {}
      /\ data = [c \in Clusters |-> Zeros]
  BY DEF Init
<1>3. nodes \in Seq(Inodes) /\ DirsMounted(nodes) /\ FilesMounted(nodes)
  <2>1. SetupMount \in Seq(Inodes) /\ DirsMounted(SetupMount) /\ FilesMounted(SetupMount)
    BY <1>1, MountGives
  <2> QED
    BY <1>2, <2>1
<1>4. MemTyped
  BY <1>2, <1>3 DEF MemTyped
<1>5. CreateFree
  BY <1>2 DEF CreateFree
<1>6. DOMAIN dirs = DirClusters /\ \A d \in DirClusters, s \in 1 .. DirSlots :
        dirs[d][s].attr \in {"file", "dir"} => dirs[d][s].attr = "dir"
  <2>1. dirs = [c \in DirClusters |->
                 [s \in 1 .. DirSlots |->
                    IF c # root_dir \/ s > 2 THEN NoEntry
                    ELSE IF s = 1 THEN [NoEntry EXCEPT !.attr = "lfn"]
                    ELSE [attr |-> "dir", stem |-> "d", cluster |-> SubDir, size |-> 0]]]
    BY DEF Init, DirClusters
  <2>2. PICK e0, e1, e2 :
          /\ e0 = NoEntry /\ e1 = [NoEntry EXCEPT !.attr = "lfn"]
          /\ e2 = [attr |-> "dir", stem |-> "d", cluster |-> SubDir, size |-> 0]
    OBVIOUS
  <2>3. e0.attr = "none" /\ e1.attr = "lfn" /\ e2.attr = "dir"
    BY <2>2 DEF NoEntry
  <2>4. \A c \in DirClusters, s \in 1 .. DirSlots :
          dirs[c][s] = IF c # root_dir \/ s > 2 THEN e0 ELSE IF s = 1 THEN e1 ELSE e2
    BY <2>1, <2>2
  <2> QED
    BY <2>1, <2>3, <2>4
<1>7. \A x \in DirClusters \X (1 .. DirSlots) :
        Shown(x) => x = <<root_dir, 2>> /\ EntryAt(x).attr = "dir" /\ EntryAt(x).cluster = SubDir
  <2> SUFFICES ASSUME NEW x \in DirClusters \X (1 .. DirSlots), Shown(x)
               PROVE  x = <<root_dir, 2>> /\ EntryAt(x).attr = "dir" /\ EntryAt(x).cluster = SubDir
    OBVIOUS
  <2>1. PICK d \in DirClusters, s \in 1 .. DirSlots : x = <<d, s>>
    OBVIOUS
  <2>2. EntryAt(x) = dirs[d][s]
    BY <2>1 DEF EntryAt
  <2>3. dirs[d][s].attr = "dir"
    BY <1>6, <2>2 DEF Shown
  <2>4. d = root_dir /\ s = 2 /\ dirs[d][s].cluster = SubDir
    BY <1>1, <2>3 DEF CardInv, DirsKept
  <2> QED
    BY <2>1, <2>2, <2>3, <2>4
<1>8. \A c, x : x \in EntriesOf(c) => x = <<root_dir, 2>> /\ c = SubDir
  BY <1>1, <1>7, EntriesHold DEF EntriesAre, CardInv
<1>9. EntriesInv
  <2>1. EntriesOnce
    BY <1>8 DEF EntriesOnce
  <2>2. EntriesTaken
    BY <1>1, <1>8, ClusterFacts DEF EntriesTaken, CardInv, ChainsKept
  <2>3. FreeUntouched
    BY <1>2 DEF FreeUntouched, Whole
  <2>4. AckedOnCard
    BY <1>2 DEF AckedOnCard
  <2> QED
    BY <2>1, <2>2, <2>3, <2>4 DEF EntriesInv
<1>10. InodesInv
  <2>1. DirInodes
    BY <1>3 DEF DirInodes, DirsMounted
  <2>2. InodesOnce
    <3> SUFFICES ASSUME NEW m \in DOMAIN nodes, NEW n \in DOMAIN nodes, nodes[m].type = "file",
                        nodes[n].type = "file", nodes[m].cluster \in Whole,
                        nodes[m].cluster = nodes[n].cluster
                 PROVE  m = n
      BY DEF InodesOnce
    <3>1. nodes[m].cluster >= 2
      BY DEF Whole
    <3>2. \A x, y \in EntriesOf(nodes[m].cluster) : x = y
      BY <1>8
    <3> QED
      BY <1>3, <3>1, <3>2 DEF FilesMounted
  <2>3. InodesTaken
    <3> SUFFICES ASSUME NEW n \in DOMAIN nodes, nodes[n].type = "file", nodes[n].cluster \in Whole
                 PROVE  fat[nodes[n].cluster] # FREE
      BY DEF InodesTaken
    <3>1. nodes[n].cluster >= 2
      BY DEF Whole
    <3>2. PICK x : x \in EntriesOf(nodes[n].cluster)
      BY <1>3, <3>1 DEF FilesMounted
    <3>3. nodes[n].cluster = SubDir
      BY <1>8, <3>2
    <3> QED
      BY <1>1, <3>3, ClusterFacts DEF CardInv, ChainsKept
  <2>4. InodesShow
    BY <1>3 DEF InodesShow, FilesMounted
  <2> QED
    BY <2>1, <2>2, <2>3, <2>4 DEF InodesInv
<1>11. ScanInv
  <2>1. DirsOnce
    BY <1>3 DEF DirsOnce, DirsMounted
  <2>2. ScanShown
    <3> SUFFICES ASSUME NEW n \in DOMAIN nodes, nodes[n].type = "dir"
                 PROVE  Len(ScanDir(nodes[n].cluster)) <= Len(nodes[n].childs)
      BY DEF ScanShown
    <3>1. Len(nodes[n].childs) = Len(ScanDir(nodes[n].cluster))
      BY <1>3 DEF DirsMounted
    <3>2. nodes[n] \in Inodes
      BY <1>3
    <3>3. nodes[n].childs \in Seq(Nat)
      BY <3>2, InodeFields
    <3>4. Len(nodes[n].childs) \in Nat
      BY <3>3
    <3> QED
      BY <3>1, <3>4
  <2>3. ScanFits
    <3> SUFFICES ASSUME NEW c \in {root_dir, SubDir, 0} PROVE Len(ScanDir(c)) <= MAX_DIR_NUM
      BY DEF ScanFits
    <3>1. PICK sl : sl = SlotList(c)
      OBVIOUS
    <3>2. IsSlots(sl, c)
      BY <3>1, SlotListIs
    <3>3. sl \in Seq(DirClusters \X (1 .. DirSlots))
      BY <3>2 DEF IsSlots
    <3>4. PICK n \in Nat : n = Len(sl) /\ DOMAIN sl = 1 .. n
      BY <3>3
    <3>5. Len(ScanDir(c)) = Cardinality(ShownIn(c))
      BY <1>1, ScanLensHold DEF ScanLens, CardInv
    <3>6. ShownIn(c) = {j \in 1 .. n : Shown(sl[j])}
      BY <3>1, <3>4 DEF ShownIn, ShownUpTo
    <3>7. \A j, k \in ShownIn(c) : j = k
      <4> SUFFICES ASSUME NEW j \in ShownIn(c), NEW k \in ShownIn(c) PROVE j = k
        OBVIOUS
      <4>1. j \in 1 .. n /\ k \in 1 .. n /\ Shown(sl[j]) /\ Shown(sl[k])
        BY <3>6
      <4>2. sl[j] \in DirClusters \X (1 .. DirSlots) /\ sl[k] \in DirClusters \X (1 .. DirSlots)
        BY <3>3, <3>4, <4>1
      <4>3. sl[j] = sl[k]
        BY <1>7, <4>1, <4>2
      <4> QED
        BY <3>2, <3>4, <4>1, <4>3 DEF IsSlots
    <3>8. Cardinality(ShownIn(c)) \in {0, 1}
      <4>1. CASE ShownIn(c) = {}
        BY <4>1, FS_EmptySet
      <4>2. CASE ShownIn(c) # {}
        <5>1. PICK j : ShownIn(c) = {j}
          BY <3>7, <4>2
        <5> QED
          BY <5>1, FS_Singleton
      <4> QED
        BY <4>1, <4>2
    <3> QED
      BY <3>5, <3>8, Layout
  <2> QED
    BY <2>1, <2>2, <2>3 DEF ScanInv
<1> QED
  BY <1>1, <1>4, <1>5, <1>9, <1>10, <1>11 DEF FatInv

(* Every step.                                                             *)
LEMMA FatNext ==
  ASSUME FatInv, FirstBlockServes, [Next]_vars
  PROVE  FatInv'
<1>1. ASSUME NEW dir \in DOMAIN nodes, NEW name \in Names, Create(dir, name) PROVE FatInv'
  BY <1>1, CreateInv
<1>2. ASSUME NEW dir \in DOMAIN nodes, NEW name \in Names, Mkdir(dir, name) PROVE FatInv'
  BY <1>2, MkdirInv
<1>3. CASE CreateEnds
  BY <1>3, CreateEndsInv
<1>4. ASSUME NEW n \in DOMAIN nodes, NEW pos \in 0 .. BlockLen - 1, NEW v \in Values,
             Write(n, pos, v)
      PROVE  FatInv'
  BY <1>4, WriteInv
<1>5. ASSUME NEW n \in DOMAIN nodes, Read(n) PROVE FatInv'
  BY <1>5, ReadInv
<1>6. CASE Reboot
  BY <1>6, RebootInv
<1>7. CASE UNCHANGED vars
  <2>1. /\ fat' = fat /\ dirs' = dirs /\ data' = data /\ nodes' = nodes /\ create' = create
        /\ acked' = acked /\ torn' = torn
    BY <1>7 DEF vars
  <2>2. CardInv'
    BY <2>1 DEF FatInv, CardInv, CardTyped, ChainsKept, DirsKept
  <2>3. \A c \in {root_dir, SubDir, 0} : Len(ScanDir(c))' = Len(ScanDir(c))
    BY <2>1, <2>2, ScanKept DEF FatInv
  <2>4. MemTyped' /\ CreateFree'
    BY <2>1 DEF FatInv, MemTyped, CreateFree, FreeEntries
  <2>5. Whole' = Whole /\ \A b : EntriesOf(b)' = EntriesOf(b)
    BY <2>1, <2>2, EntriesKept DEF Whole, FatInv
  <2>6. EntriesInv'
    BY <2>1, <2>5 DEF FatInv, EntriesInv, EntriesOnce, EntriesTaken, FreeUntouched, AckedOnCard
  <2>7. InodesInv'
    BY <2>1, <2>5 DEF FatInv, InodesInv, DirInodes, InodesOnce, InodesTaken, InodesShow
  <2>8. DirsOnce' /\ ScanFits'
    BY <2>1, <2>3 DEF FatInv, ScanInv, DirsOnce, ScanFits
  <2>9. ScanShown'
    BY <2>1, <2>3 DEF FatInv, ScanInv, ScanShown, InodesInv, DirInodes
  <2> QED
    BY <2>2, <2>4, <2>6, <2>7, <2>8, <2>9 DEF FatInv, ScanInv
<1> QED
  BY <1>1, <1>2, <1>3, <1>4, <1>5, <1>6, <1>7 DEF Next

(* As long as the first block of the table serves, fat32.c keeps the card  *)
(* and the inodes in order: the invariant that the properties follow from. *)
THEOREM FatInvariance == Spec /\ []FirstBlockServes => []FatInv
<1>1. Init => FatInv
  BY FatInit
<1>2. FatInv /\ FirstBlockServes /\ [Next]_vars => FatInv'
  BY FatNext
<1> QED
  BY <1>1, <1>2, PTL DEF Spec

(* A file whose creation returned, and what calls that returned wrote to   *)
(* it, is on the card at every moment, whenever the power goes, unless an  *)
(* earlier create was cut short over the same cluster: fat32_create(),     *)
(* fat32_write() and setup_fat32().                                        *)
THEOREM AckedStaysDurable == Spec /\ []FirstBlockServes => []AckedDurable
<1>1. FatInv => AckedDurable
  <2> SUFFICES ASSUME FatInv, NEW c \in DOMAIN acked
               PROVE  /\ EntriesOf(c) # {} /\ fat[c] # FREE
                      /\ c \in torn \/ data[c] = acked[c]
                      /\ \A n \in DOMAIN nodes :
                           nodes[n].type = "file" /\ nodes[n].cluster = c /\ c \notin torn =>
                             nodes[n].data = acked[c]
    BY DEF AckedDurable
  <2>1. c \in Clusters /\ c >= 2 /\ EntriesOf(c) # {} /\ fat[c] # FREE
    BY DEF FatInv, MemTyped, EntriesInv, AckedOnCard
  <2>2. c \notin torn => c \in Whole /\ data[c] = acked[c]
    BY <2>1 DEF Whole, FatInv, EntriesInv, AckedOnCard
  <2>3. ASSUME NEW n \in DOMAIN nodes, nodes[n].type = "file", nodes[n].cluster = c, c \notin torn
        PROVE  nodes[n].data = acked[c]
    BY <2>2, <2>3 DEF FatInv, InodesInv, InodesShow
  <2> QED
    BY <2>1, <2>2, <2>3
<1> QED
  BY <1>1, FatInvariance, PTL

(* Two entries have one cluster, or an entry a free one, only when a       *)
(* create lost the power between its two blocks or is under way:           *)
(* fat32_new_dir_entry() and write_fat_table().                            *)
THEOREM CrossLinksOnlyTorn == Spec /\ []FirstBlockServes => []CrossLinksTorn
<1>1. FatInv => CrossLinksTorn
  <2> SUFFICES ASSUME FatInv, NEW c \in Clusters \ (torn \cup {0, create})
               PROVE  /\ Cardinality(EntriesOf(c)) <= 1
                      /\ EntriesOf(c) # {} => fat[c] # FREE
    BY DEF CrossLinksTorn
  <2>1. CASE EntriesOf(c) = {}
    BY <2>1, FS_EmptySet
  <2>2. CASE EntriesOf(c) # {}
    <3>1. c >= 2
      BY <2>2, EntriesHold DEF EntriesAre, FatInv, CardInv
    <3>2. c \in Whole \ {create}
      BY <3>1 DEF Whole
    <3>3. fat[c] # FREE /\ \A x, y \in EntriesOf(c) : x = y
      BY <2>2, <3>2 DEF FatInv, EntriesInv, EntriesOnce, EntriesTaken
    <3>4. PICK x : EntriesOf(c) = {x}
      BY <2>2, <3>3
    <3>5. Cardinality(EntriesOf(c)) = 1
      BY <3>4, FS_Singleton
    <3> QED
      BY <3>3, <3>5
  <2> QED
    BY <2>1, <2>2
<1> QED
  BY <1>1, FatInvariance, PTL

(* No directory on the card gets more visible entries than an inode has    *)
(* childs, so that setup_fat32() stays in its array.                       *)
THEOREM ScansFit == Spec /\ []FirstBlockServes => []ScanFits
<1>1. FatInv => ScanFits
  BY DEF FatInv, ScanInv
<1> QED
  BY <1>1, FatInvariance, PTL

(* A table of one block always serves.                                     *)
THEOREM OneBlockServes == FatBlocks = 1 => FirstBlockServes
<1> SUFFICES ASSUME FatBlocks = 1, NEW c \in FreeEntries PROVE c < PerBlock
  BY DEF FirstBlockServes
<1>1. Clusters = 0 .. PerBlock - 1 /\ PerBlock \in Nat
  BY Layout DEF Most
<1>2. c \in Clusters
  BY DEF FreeEntries
<1> QED
  BY <1>1, <1>2
==============================================================================
