------------------------------- MODULE Fat32 -------------------------------
(***************************************************************************)
(* The FAT32 file system (fat32.c) on the SD card, with loss of power.     *)
(*                                                                         *)
(* The card is three variables: the file allocation table, the directory   *)
(* tables and the contents of the clusters; readblock() and writeblock()   *)
(* transfer one block, whole.  nodes is the tree of vnodes and inodes in   *)
(* memory that setup_fat32() builds from the card at mount time; pointers  *)
(* are indexes.  A cluster is one block.  fat32_create() writes two blocks *)
(* and the power may go in between: a step per block.  Every other         *)
(* operation writes at most one.                                           *)
(*                                                                         *)
(* A file name is a stem with or without a dot: what follows the dot       *)
(* survives the conversion to a directory entry and back, a missing dot    *)
(* does not.  Programs write to files only, and within the block; the card *)
(* has two copies of the table, so that what is written for cluster 0, two *)
(* clusters before the data region, hits the copy nobody reads.            *)
(***************************************************************************)
EXTENDS Integers, Sequences, FiniteSets

CONSTANTS
  FatBlocks,     \* sectors_per_fat
  PerBlock,      \* entries of the table in one block
  RootChain,     \* the clusters of the root directory
  SubDir,        \* the cluster of the one directory on the card
  DirSlots,      \* entries of a directory table in one block
  MAX_DIR_NUM,
  Stems,         \* stems of the names that programs use
  BlockLen,      \* bytes of a block
  Values,        \* contents of a byte, other than 0
  MaxBoots,      \* bound: times the card is mounted
  MaxNodes       \* bound: vnodes at a time

Clusters == 0 .. FatBlocks * PerBlock - 1
FREE == 0
EOC == -1
root_dir == RootChain[1]

ASSUME Fat32Assumption ==
  /\ {FatBlocks, PerBlock, DirSlots, MAX_DIR_NUM, BlockLen, MaxBoots, MaxNodes} \subseteq Nat \ {0}
  /\ SubDir \in Clusters \ {0, 1}
  /\ RootChain \in Seq(Clusters \ {0, 1, SubDir}) /\ RootChain # <<>>
  /\ \A j, k \in DOMAIN RootChain : RootChain[j] = RootChain[k] => j = k
  /\ 0 \notin Values

ASSUME StemsAssumption == "d" \in Stems

VARIABLES
  fat,    \* card: the table
  dirs,   \* card: the directory tables
  data,   \* card: the clusters' contents
  nodes,  \* memory: the vnodes and inodes
  create, \* the cluster of the create that has still to write the table
  boots,  \* bound: mounts
  acked,  \* history: what the file of a cluster was left with by the calls
          \* that returned
  torn    \* history: clusters of creates that lost the power in between

card == <<fat, dirs, data>>
vars == <<fat, dirs, data, nodes, create, boots, acked, torn>>

Zeros == [k \in 1 .. BlockLen |-> 0]
Contents == [1 .. BlockLen -> Values \cup {0}]
Names == [stem : Stems, dot : BOOLEAN]
NoEntry == [attr |-> "none", stem |-> "", cluster |-> 0, size |-> 0]
None == -1

(* struct vnode and struct fat32_inode; the root has no name.              *)
Inodes ==
  [type : {"file", "dir"}, name : [stem : Stems \cup {""}, dot : BOOLEAN], childs : Seq(Nat),
   cluster : Clusters, data_size : Nat, data : Contents]
-----------------------------------------------------------------------------
(* IS_FAT_ENTRY_VALID; read_fat_entry() and the clusters it leads through, *)
(* which are no more than there are unless they form a circle.  That the   *)
(* loops also look up the end mark, outside of the table, is left out.     *)
Valid(c) == c \in Clusters /\ c >= 2
ReadFatEntry(c) == fat[c]
Chain(c0) ==
  LET chain[k \in 0 .. FatBlocks * PerBlock] ==
        IF k = 0 THEN <<>>
        ELSE LET ch == chain[k - 1]
                 c  == IF ch = <<>> THEN c0 ELSE ReadFatEntry(ch[Len(ch)])
             IN  IF Valid(c) THEN Append(ch, c) ELSE ch
  IN  chain[FatBlocks * PerBlock]

(* get_free_fat_cluster(): the first free entry; its number within its     *)
(* block is returned, and 0 when there is none.                            *)
FreeEntries == {c \in Clusters : fat[c] = FREE}
GetFreeFatCluster ==
  IF FreeEntries = {} THEN 0
  ELSE (CHOOSE c \in FreeEntries : \A d \in FreeEntries : c <= d) % PerBlock

(* The slots of a directory, in the order of the loops.                    *)
SlotsOf(c) ==
  LET ch == Chain(c) IN
  [k \in 1 .. Len(ch) * DirSlots |-> <<ch[((k - 1) \div DirSlots) + 1], ((k - 1) % DirSlots) + 1>>]
First(ks) == CHOOSE k \in ks : \A j \in ks : k <= j

(* fat32_new_dir_entry(): the first slot that is not in use takes the      *)
(* entry; without one, nothing is written and nobody is told.              *)
NewDirEntryOver(c, entry) ==
  IF SlotsOf(c) = <<>> THEN dirs ELSE [dirs EXCEPT ![SlotsOf(c)[1][1]][SlotsOf(c)[1][2]] = entry]
NewDirEntry(c, entry) ==
  LET slots == SlotsOf(c)
      open  == {k \in DOMAIN slots : dirs[slots[k][1]][slots[k][2]].attr = "none"}
      s     == slots[First(open)]
  IN  IF open = {} THEN dirs ELSE [dirs EXCEPT ![s[1]][s[2]] = entry]

(* write_fat_table() with FAT_ENTRY_EOC: the bits are or-ed in, which      *)
(* makes an end mark of any value.                                         *)
WriteFatNext(c) == [fat EXCEPT ![(c + 1) % (FatBlocks * PerBlock)] = EOC]
WriteFatTable(c) == [fat EXCEPT ![c] = EOC]

(* fat32_create_vnode()                                                    *)
CreateVnode(type, name, cluster, size, content) ==
  [type |-> type, name |-> name, childs |-> <<>>, cluster |-> cluster,
   data_size |-> size, data |-> content]

(* One entry of the table as an inode.  A file gets its dot back, whether  *)
(* it had one or not.                                                      *)
InodeOf(e) ==
  CreateVnode(e.attr, [stem |-> e.stem, dot |-> e.attr = "file"], e.cluster, e.size, data[e.cluster])

(* The loops of setup_fat32() over one directory; hidden entries, long     *)
(* names and unused ones are skipped.                                      *)
ScanDir(c) ==
  LET slots == SlotsOf(c)
      scan[k \in 0 .. Len(slots)] ==
        IF k = 0 THEN <<>>
        ELSE LET e == dirs[slots[k][1]][slots[k][2]] IN
             IF e.attr \in {"file", "dir"} THEN Append(scan[k - 1], InodeOf(e)) ELSE scan[k - 1]
  IN  scan[Len(slots)]

(* fat32_setup_mount() and the recursion of setup_fat32(): from the root   *)
(* on, each directory gets its childs.  There is at most one inode for     *)
(* each slot and the root's.                                               *)
MostInodes == (Len(RootChain) + 1) * DirSlots + 1
WithChilds(ns, i) ==
  LET kids == ScanDir(ns[i].cluster) IN
  [ns EXCEPT ![i].childs = [k \in DOMAIN kids |-> Len(ns) + k]] \o kids
SetupMount ==
  LET root == CreateVnode("dir", [stem |-> "", dot |-> FALSE], root_dir, 0, data[root_dir])
      setup[i \in 0 .. MostInodes] ==
        IF i = 0 THEN <<root>>
        ELSE LET ns == setup[i - 1] IN
             IF i <= Len(ns) /\ ns[i].type = "dir" THEN WithChilds(ns, i) ELSE ns
  IN  setup[MostInodes]
-----------------------------------------------------------------------------
(* The card as it is formatted: the root directory with a long name in its *)
(* first slot and one empty directory in its second; free clusters hold    *)
(* zeros, as the inode of a new file does.                                 *)
Init ==
  /\ fat = [c \in Clusters |->
              IF c \in {0, 1, SubDir} THEN EOC
              ELSE IF \E k \in DOMAIN RootChain : RootChain[k] = c
              THEN LET k == CHOOSE j \in DOMAIN RootChain : RootChain[j] = c IN
                   IF k = Len(RootChain) THEN EOC ELSE RootChain[k + 1]
              ELSE FREE]
  /\ dirs = [c \in {RootChain[k] : k \in DOMAIN RootChain} \cup {SubDir} |->
               [s \in 1 .. DirSlots |->
                  IF c # root_dir \/ s > 2 THEN NoEntry
                  ELSE IF s = 1 THEN [NoEntry EXCEPT !.attr = "lfn"]
                  ELSE [attr |-> "dir", stem |-> "d", cluster |-> SubDir, size |-> 0]]]
  /\ data = [c \in Clusters |-> Zeros]
  /\ nodes = SetupMount
  /\ create = None /\ boots = 1
  /\ acked = [c \in {} |-> Zeros] /\ torn = {}

(* fat32_lookup()                                                          *)
FatLookup(dir, name) ==
  {k \in DOMAIN nodes[dir].childs : nodes[nodes[dir].childs[k]].name = name}
RoomAnyway(dir) == nodes[dir].type = "dir"
Room(dir) == nodes[dir].type = "dir" /\ Len(nodes[dir].childs) < MAX_DIR_NUM
AddChild(dir, node) ==
  [Append(nodes, node) EXCEPT ![dir].childs = Append(@, Len(nodes) + 1)]

(* fat32_create(), up to the block with the directory entry.  The size in  *)
(* the entry is a whole block, the one in memory 0.                        *)
Create(dir, name) ==
  LET c == GetFreeFatCluster IN
  /\ create = None /\ Len(nodes) < MaxNodes
  /\ Room(dir) /\ FatLookup(dir, name) = {}
  /\ nodes' = AddChild(dir, CreateVnode("file", name, c, 0, Zeros))
  /\ dirs' = NewDirEntry(nodes[dir].cluster,
               [attr |-> "file", stem |-> name.stem, cluster |-> c, size |-> BlockLen])
  /\ create' = c
  /\ UNCHANGED <<fat, data, boots, acked, torn>>

(* The second block: the table.  The call returns.                         *)
CreateEnds ==
  /\ create # None
  /\ fat' = WriteFatTable(create)
  /\ create' = None
  /\ acked' = IF Valid(create) /\ \E d \in DOMAIN dirs, s \in 1 .. DirSlots : dirs[d][s].cluster = create
              THEN [c \in DOMAIN acked \cup {create} |-> IF c = create THEN data[c] ELSE acked[c]]
              ELSE acked
  /\ UNCHANGED <<dirs, data, nodes, boots, torn>>

(* fat32_mkdir(): only in memory.  Such a directory has cluster 0.         *)
Mkdir(dir, name) ==
  /\ create = None /\ Len(nodes) < MaxNodes
  /\ Room(dir)
  /\ nodes' = AddChild(dir, CreateVnode("dir", name, 0, 0, Zeros))
  /\ UNCHANGED <<card, create, boots, acked, torn>>

(* fat32_write() through a handle at pos: the block goes to the card.      *)
WriteBlock(n, content) == [data EXCEPT ![nodes[n].cluster] = content]
Write(n, pos, v) ==
  LET content == [nodes[n].data EXCEPT ![pos + 1] = v] IN
  /\ create = None
  /\ nodes[n].type = "file"
  /\ nodes' = [nodes EXCEPT ![n].data = content,
                            ![n].data_size = IF @ < pos + 1 THEN pos + 1 ELSE @]
  /\ data' = WriteBlock(n, content)
  /\ acked' = IF nodes[n].cluster \in DOMAIN acked
              THEN [acked EXCEPT ![nodes[n].cluster] = content] ELSE acked
  /\ UNCHANGED <<fat, dirs, create, boots, torn>>

(* fat32_read(): the inode takes the block from the card.                  *)
Read(n) ==
  /\ create = None
  /\ nodes[n].type = "file"
  /\ nodes' = [nodes EXCEPT ![n].data = data[nodes[n].cluster]]
  /\ UNCHANGED <<card, create, boots, acked, torn>>

(* The power goes, at any time; the kernel boots and mounts the card.      *)
Reboot ==
  /\ boots < MaxBoots
  /\ boots' = boots + 1
  /\ nodes' = SetupMount
  /\ torn' = IF create = None THEN torn ELSE torn \cup {create}
  /\ create' = None
  /\ UNCHANGED <<card, acked>>

Next ==
  \/ \E dir \in DOMAIN nodes, name \in Names : Create(dir, name) \/ Mkdir(dir, name)
  \/ CreateEnds
  \/ \E n \in DOMAIN nodes :
       \/ \E pos \in 0 .. BlockLen - 1, v \in Values : pos <= nodes[n].data_size /\ Write(n, pos, v)
       \/ Read(n)
  \/ Reboot

Spec == Init /\ [][Next]_vars
-----------------------------------------------------------------------------
Slots == {<<d, s>> : d \in DOMAIN dirs, s \in 1 .. DirSlots}
Entries == {x \in Slots : dirs[x[1]][x[2]].attr \in {"file", "dir"} /\ dirs[x[1]][x[2]].cluster >= 2}
EntriesOf(c) == {x \in Entries : dirs[x[1]][x[2]].cluster = c}

(* A file whose creation returned (and found a cluster and a slot), and    *)
(* whatever was written to it by calls that returned, is on the card at    *)
(* every moment, so that a mount after a loss of power finds it, and every *)
(* inode of it shows the same.  The exception is a cluster that a create   *)
(* cut short by an earlier loss of power had already put in a directory.   *)
AckedDurable ==
  \A c \in DOMAIN acked :
    /\ EntriesOf(c) # {} /\ fat[c] # FREE
    /\ c \in torn \/ data[c] = acked[c]
    /\ \A n \in DOMAIN nodes :
         nodes[n].type = "file" /\ nodes[n].cluster = c /\ c \notin torn =>
           nodes[n].data = acked[c]

(* Two entries have one cluster only when a create lost the power between  *)
(* its two blocks, and an entry has a free cluster only in that case or    *)
(* while its create is under way.                                          *)
CrossLinksTorn ==
  \A c \in Clusters \ (torn \cup {0, create}) :
    /\ Cardinality(EntriesOf(c)) <= 1
    /\ EntriesOf(c) # {} => fat[c] # FREE

(* No directory on the card has more visible entries than an inode has     *)
(* childs, so that setup_fat32(), which does not count, stays in its       *)
(* array.                                                                  *)
ScanFits == \A d \in {root_dir, SubDir} : Len(ScanDir(d)) <= MAX_DIR_NUM

(* As long as the table has a free entry, the cluster that                 *)
(* get_free_fat_cluster() gave to the create under way is a free one.      *)
NewClusterFree == create # None /\ FreeEntries # {} => fat[create] = FREE
=============================================================================
